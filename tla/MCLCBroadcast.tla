----------------------------- MODULE MCLCBroadcast -----------------------------
(* Small instances of LCBroadcast. *)
EXTENDS LCBroadcast

CONSTANTS p1, p2, p3

(* p2 is affected by p1, and p3 by p2; p1 by nobody else. *)
Chain == (p1 :> {p1}) @@ (p2 :> {p1, p2}) @@ (p3 :> {p2, p3})

(* p1 and p2 affect each other, and p2 affects p3. *)
Mixed == (p1 :> {p1, p2}) @@ (p2 :> {p1, p2}) @@ (p3 :> {p2, p3})

Mixes == {Mixed, [p \in {p1, p2, p3} |-> {}]}
Chains == {Chain}

OneTwoOne == (p1 :> 1) @@ (p2 :> 2) @@ (p3 :> 1)
OneEach == (p1 :> 1) @@ (p2 :> 1) @@ (p3 :> 1)

(* Two logs of up to three lines, over four different ones; the third is empty. *)
Lines(p) == {BroadcastEvent(1), DeliverEvent(p1, 1), DeliverEvent(p2, 1),
             DeliverEvent(p, 2)}
LogsOf(p) == UNION {[1 .. k -> Lines(p)] : k \in 0 .. 3}
ShortLogs ==
  {(p1 :> l) @@ (p2 :> m) @@ (p3 :> <<>>) : l \in LogsOf(p1), m \in LogsOf(p2)}

=============================================================================
