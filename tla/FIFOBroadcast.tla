----------------------------- MODULE FIFOBroadcast ----------------------------
(***************************************************************************)
(* FIFOBroadcast (fifob.cpp) at one process: urbDeliver puts a packet into   *)
(* the sorted list of its origin and scans that list once, delivering the    *)
(* packets whose turn has come.  Packets are never taken off the list.       *)
(*                                                                         *)
(* UniformBroadcast delivers every packet at most once, in any order, and    *)
(* only ever on the listener thread (BroadcastStack!CallsFit): that is why   *)
(* one thread suffices here, although urbDeliver gives up its lock around    *)
(* every callback.  The callback does not come back to this state: a         *)
(* broadcast made in it goes to UniformBroadcast.                            *)
(***************************************************************************)
EXTENDS Integers, Sequences, SequencesExt

CONSTANTS
  Origin,       \* the processes that broadcast
  K,            \* bound: payloads are 1 .. K
  NoOrigin

ASSUME KAssumption == K \in Nat
ASSUME NoOriginAssumption == NoOrigin \notin Origin

VARIABLES
  arrived,          \* arrived[o]: payloads that UniformBroadcast has delivered
  pendingSorted,    \* pendingSorted[o]: the list of origin o
  nextToDeliver,    \* nextToDeliver[o]: the payload whose turn it is
  origin,           \* peerID of the packet in urbDeliver, or NoOrigin
  seqNb,            \* local variable of urbDeliver
  index,            \* loop variable of the scan
  fifoDelivered     \* fifoDelivered[o]: payloads passed to fifoDeliver, in order

vars == <<arrived, pendingSorted, nextToDeliver, origin, seqNb, index,
          fifoDelivered>>

Init ==
  /\ arrived = [o \in Origin |-> {}]
  /\ pendingSorted = [o \in Origin |-> <<>>]
  /\ nextToDeliver = [o \in Origin |-> 1]
  /\ origin = NoOrigin
  /\ seqNb = 0
  /\ index = 0
  /\ fifoDelivered = [o \in Origin |-> <<>>]

(* Mutants: the packet always goes to the end, or always to the front. *)
PlaceAtEnd(list, n) == Len(list) + 1
PlaceInFront(list, n) == 1

(* addToPending inserts before the first larger payload, or at the end.      *)
Place(list, n) ==
  CHOOSE k \in 1 .. Len(list) + 1 :
    /\ k = Len(list) + 1 \/ n < list[k]
    /\ \A j \in 1 .. k - 1 : n >= list[j]

addToPending(o, n) ==
  pendingSorted' =
    [pendingSorted EXCEPT ![o] = InsertAt(@, Place(@, n), n)]

(* urbDeliver(pkt) up to the loop. *)
urbDeliver(o, n) ==
  /\ origin = NoOrigin
  /\ n \notin arrived[o]
  /\ arrived' = [arrived EXCEPT ![o] = @ \cup {n}]
  /\ addToPending(o, n)
  /\ origin' = o
  /\ seqNb' = nextToDeliver[o]
  /\ index' = 1
  /\ UNCHANGED <<nextToDeliver, fifoDelivered>>

(* Mutant: a gap is jumped over. *)
MyTurnOrLater(n) == n >= seqNb

MyTurn(n) == n = seqNb

Scanning == origin # NoOrigin /\ index <= Len(pendingSorted[origin])

(* A turn of the scan: a packet whose turn has come is delivered. *)
ScanDeliver ==
  /\ Scanning
  /\ LET n == pendingSorted[origin][index]
     IN /\ MyTurn(n)
        /\ seqNb' = seqNb + 1
        /\ nextToDeliver' = [nextToDeliver EXCEPT ![origin] = seqNb + 1]
        /\ fifoDelivered' = [fifoDelivered EXCEPT ![origin] = Append(@, n)]
  /\ index' = index + 1
  /\ UNCHANGED <<arrived, pendingSorted, origin>>

ScanSkip ==
  /\ Scanning
  /\ ~MyTurn(pendingSorted[origin][index])
  /\ index' = index + 1
  /\ UNCHANGED <<arrived, pendingSorted, nextToDeliver, origin, seqNb,
                 fifoDelivered>>

(* The end of urbDeliver, which stores seqNb once more. *)
ScanEnd ==
  /\ origin # NoOrigin
  /\ ~Scanning
  /\ nextToDeliver' = [nextToDeliver EXCEPT ![origin] = seqNb]
  /\ origin' = NoOrigin
  /\ UNCHANGED <<arrived, pendingSorted, seqNb, index, fifoDelivered>>

Next ==
  \/ \E o \in Origin, n \in 1 .. K : urbDeliver(o, n)
  \/ ScanDeliver
  \/ ScanSkip
  \/ ScanEnd

(* The listener thread returns from urbDeliver. *)
Fairness == WF_vars(ScanDeliver \/ ScanSkip \/ ScanEnd)

Spec == Init /\ [][Next]_vars /\ Fairness

-----------------------------------------------------------------------------
TypeOK ==
  /\ arrived \in [Origin -> SUBSET (1 .. K)]
  /\ pendingSorted \in [Origin -> Seq(1 .. K)]
  /\ nextToDeliver \in [Origin -> 1 .. K + 1]
  /\ origin \in Origin \cup {NoOrigin}
  /\ seqNb \in 0 .. K + 1
  /\ index \in Nat
  /\ fifoDelivered \in [Origin -> Seq(1 .. K)]

(* FIFO order: whatever the order of arrival, the packets of an origin are   *)
(* delivered as 1, 2, 3, ...                                                 *)
FifoOrder ==
  \A o \in Origin :
    /\ \A k \in DOMAIN fifoDelivered[o] : fifoDelivered[o][k] = k
    /\ ToSet(fifoDelivered[o]) \subseteq arrived[o]

(* One pass over the list is enough: when urbDeliver has returned, the only  *)
(* packets of an origin that are held back are those behind a gap.           *)
NoneHeldBack ==
  origin = NoOrigin =>
    \A o \in Origin : nextToDeliver[o] \notin arrived[o]

(* What has arrived with all its predecessors is delivered. *)
EventuallyDelivered ==
  \A o \in Origin, n \in 1 .. K :
    1 .. n \subseteq arrived[o] ~> n \in ToSet(fifoDelivered[o])

=============================================================================
