---------------------------- MODULE ReliableLink ----------------------------
(***************************************************************************)
(* What the perfect link layer promises to the broadcast layers above it:  *)
(* a packet handed to PerfectLink::send reaches the pp2pDeliver callback of *)
(* its destination at most once, only if it was handed to send, and         *)
(* eventually if neither end crashes.  PerfectLink implements this module;  *)
(* UniformBroadcast uses its actions as the network.                        *)
(***************************************************************************)
CONSTANTS
  Process,      \* the hosts of the hosts file
  Packet        \* the data packets the layer above may send

VARIABLES
  sent,         \* packets handed to PerfectLink::send
  got,          \* packets handed to the pp2pDeliver callback of their destination
  crashed       \* processes that have exited

linkVars == <<sent, got, crashed>>

Init ==
  /\ sent = {}
  /\ got = {}
  /\ crashed = {}

(* The layer above sends a packet; it sends each packet once. *)
Send(pkt) ==
  /\ pkt.senderID \notin crashed
  /\ pkt \notin sent
  /\ sent' = sent \cup {pkt}
  /\ UNCHANGED <<got, crashed>>

(* The callback of the destination runs for a packet, once. *)
Deliver(pkt) ==
  /\ pkt \in sent \ got
  /\ pkt.destinationID \notin crashed
  /\ got' = got \cup {pkt}
  /\ UNCHANGED <<sent, crashed>>

Crash(p) ==
  /\ p \notin crashed
  /\ crashed' = crashed \cup {p}
  /\ UNCHANGED <<sent, got>>

Next ==
  \/ \E pkt \in Packet : Send(pkt) \/ Deliver(pkt)
  \/ \E p \in Process : Crash(p)

(* Retransmission works for a packet as long as its sender is up. *)
Fairness ==
  \A pkt \in Packet :
    WF_linkVars(pkt.senderID \notin crashed /\ Deliver(pkt))

Spec == Init /\ [][Next]_linkVars /\ Fairness

=============================================================================
