----------------------- MODULE UniformReliableBroadcast -----------------------
(***************************************************************************)
(* What UniformBroadcast promises to FIFOBroadcast: uniform reliable        *)
(* broadcast.  A message becomes stable at one moment.  From then on every  *)
(* correct process delivers it, and before then no process does, not even   *)
(* one that crashes right after.  The messages of a correct process become  *)
(* stable; those of a crashed one may be lost.                              *)
(***************************************************************************)
CONSTANTS
  Process,      \* the hosts of the hosts file
  Msg,          \* application messages, each broadcast at most once
  Origin        \* Origin[m]: the process that broadcasts m

VARIABLES
  requested,    \* messages passed to broadcast()
  stable,       \* messages that no crash can lose any more
  delivered,    \* delivered[p]: messages passed to the urbDeliver callback of p
  crashed       \* processes that have crashed

urbVars == <<requested, stable, delivered, crashed>>

Init ==
  /\ requested = {}
  /\ stable = {}
  /\ delivered = [p \in Process |-> {}]
  /\ crashed = {}

Broadcast(m) ==
  /\ m \notin requested
  /\ Origin[m] \notin crashed
  /\ requested' = requested \cup {m}
  /\ UNCHANGED <<stable, delivered, crashed>>

Stabilise(m) ==
  /\ m \in requested \ stable
  /\ stable' = stable \cup {m}
  /\ UNCHANGED <<requested, delivered, crashed>>

Deliver(p, m) ==
  /\ p \notin crashed
  /\ m \in stable \ delivered[p]
  /\ delivered' = [delivered EXCEPT ![p] = @ \cup {m}]
  /\ UNCHANGED <<requested, stable, crashed>>

Crash(p) ==
  /\ p \notin crashed
  /\ crashed' = crashed \cup {p}
  /\ UNCHANGED <<requested, stable, delivered>>

Next ==
  \/ \E m \in Msg : Broadcast(m) \/ Stabilise(m)
  \/ \E p \in Process, m \in Msg : Deliver(p, m)
  \/ \E p \in Process : Crash(p)

Fairness ==
  /\ \A m \in Msg : WF_urbVars(Origin[m] \notin crashed /\ Stabilise(m))
  /\ \A p \in Process, m \in Msg : WF_urbVars(Deliver(p, m))

Spec == Init /\ [][Next]_urbVars /\ Fairness

=============================================================================
