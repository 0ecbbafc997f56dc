--------------------------- MODULE MCBroadcastStack ---------------------------
(* Small instances of BroadcastStack. *)
EXTENDS BroadcastStack, TLC

CONSTANTS p1, p2, m1, m2, m3, m4, m5

OwnAndOther == (m1 :> p1) @@ (m2 :> p1) @@ (m3 :> p1) @@ (m4 :> p2) @@ (m5 :> p2)
Numbers == (m1 :> 1) @@ (m2 :> 2) @@ (m3 :> 3) @@ (m4 :> 1) @@ (m5 :> 2)

=============================================================================
