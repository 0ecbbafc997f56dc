------------------------ MODULE FIFOReliableBroadcast ------------------------
(***************************************************************************)
(* What FIFOBroadcast promises to FIFOController and LCBroadcast: the        *)
(* callback gets the packets of a process one by one, in the order in which  *)
(* that process has passed them to broadcast(), and nothing else.            *)
(* BroadcastStack implements this module, at one receiver; LCBroadcast is    *)
(* built on its actions.                                                     *)
(***************************************************************************)
EXTENDS Naturals, Sequences

CONSTANTS
  Process,      \* the hosts of the hosts file
  Receiver,     \* those whose deliveries are followed
  Packet        \* what may be passed to broadcast()

VARIABLES
  fifoSent,     \* fifoSent[q]: packets q has passed to broadcast(), in order
  fifoNext      \* fifoNext[p][q]: index of the next packet of q that p delivers

fifoVars == <<fifoSent, fifoNext>>

(* What the callback of p has got from q. *)
Delivered(p, q) == SubSeq(fifoSent[q], 1, fifoNext[p][q] - 1)

Init ==
  /\ fifoSent = [q \in Process |-> <<>>]
  /\ fifoNext = [p \in Receiver |-> [q \in Process |-> 1]]

Broadcast(p, pkt) ==
  /\ fifoSent' = [fifoSent EXCEPT ![p] = Append(@, pkt)]
  /\ UNCHANGED fifoNext

Deliver(p, q) ==
  /\ fifoNext[p][q] <= Len(fifoSent[q])
  /\ fifoNext' = [fifoNext EXCEPT ![p][q] = @ + 1]
  /\ UNCHANGED fifoSent

Next ==
  \/ \E p \in Process, pkt \in Packet : Broadcast(p, pkt)
  \/ \E p \in Receiver, q \in Process : Deliver(p, q)

Spec == Init /\ [][Next]_fifoVars

=============================================================================
