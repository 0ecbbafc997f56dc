---------------------------- MODULE BroadcastStack ----------------------------
(***************************************************************************)
(* The layers put together, as the process Self sees them: FIFOController    *)
(* over FIFOBroadcast over UniformBroadcast.  Each of their modules is about *)
(* one layer and says of its neighbours what it needs; here every step is a  *)
(* step of those modules at once, where the code calls from one layer into   *)
(* another:                                                                  *)
(*   groupedBroadcast calls fifo->broadcast, which is urb->broadcast;        *)
(*   bebDeliver calls urbDeliver, which calls fifoDeliver, which is          *)
(*   FIFOController::deliver, all on the listener thread; and a caller goes  *)
(*   on when the callee has returned.                                        *)
(* Self is any process.  Of the upper layers of the other processes only     *)
(* the order of their packets is kept.                                       *)
(***************************************************************************)
EXTENDS UniformBroadcast, Sequences

CONSTANTS
  Self,                   \* the process whose upper layers are followed
  Payload,                \* Payload[m]: the payload of m
  K,                      \* bound: payloads are 1 .. K
  NoOrigin,
  nPacketsPerBroadcast,   \* 10 in the code
  Workloads               \* bound: numbers of messages that Self broadcasts

(* A message is the pair (peerID, payload), and payloads count from 1.       *)
ASSUME StackAssumption ==
  /\ Self \in Process /\ NoOrigin \notin Process
  /\ K \in Nat /\ Payload \in [Msg -> 1 .. K]
  /\ \A m, k \in Msg : Origin[m] = Origin[k] /\ Payload[m] = Payload[k] => m = k
  /\ \A m \in Msg : \A n \in 1 .. Payload[m] :
       \E k \in Msg : Origin[k] = Origin[m] /\ Payload[k] = n
ASSUME LoadAssumption ==
  /\ nPacketsPerBroadcast \in Nat \ {0}
  /\ Workloads \subseteq Nat
  /\ \A w \in Workloads : \A n \in 1 .. w :
       \E m \in Msg : Origin[m] = Self /\ Payload[m] = n

VARIABLES
  arrived, pendingSorted, nextToDeliver, origin, seqNb, index, fifoDelivered,
                \* FIFOBroadcast at Self
  maxPackets, counter, nLocalDeliveries, groupPC, turn, broadcasts, handed,
  finished      \* FIFOController at Self; turn is its loop variable i

fifoVars == <<arrived, pendingSorted, nextToDeliver, origin, seqNb, index,
              fifoDelivered>>
groupVars == <<maxPackets, counter, nLocalDeliveries, groupPC, turn, broadcasts,
               handed, finished>>
stackVars == <<vars, fifoVars, groupVars>>

Fifo == INSTANCE FIFOBroadcast WITH Origin <- Process
Controller == INSTANCE FIFOController WITH
  pc <- groupPC, i <- turn, delivered <- Len(fifoDelivered[Self])

StackInit == Init /\ Fifo!Init /\ Controller!Init

-----------------------------------------------------------------------------
(* groupedBroadcast runs in main() and, from inside a delivery, on the       *)
(* listener, where broadcast() is the frame "nested".                        *)
CallOf(t) == IF t = "main" THEN "main" ELSE "nested"
Returned(t) == pc[Self][CallOf(t)] = "idle"

(* A turn of the loop begins when the last fifo->broadcast has returned. *)
GroupStep(t) ==
  /\ Self \notin crashed
  /\ Returned(t)
  /\ UNCHANGED <<vars, fifoVars>>
  /\ \/ Controller!LogBroadcast(t)
     \/ Controller!LeaveLoop(t)
     \/ Controller!AddToCounter(t)

(* fifo->broadcast(pkt), which calls urb->broadcast(pkt). *)
FifoBroadcast(t) ==
  /\ \E m \in Msg :
       /\ Payload[m] = turn[t]
       /\ Broadcast(Self, CallOf(t), m)
  /\ UNCHANGED fifoVars
  /\ Controller!FifoBroadcast(t)

(* UniformBroadcast calls urbDeliver(pkt) of FIFOBroadcast ... *)
UrbDeliver(f) ==
  /\ Upcall(Self, f)
  /\ LET m == current[Self][f] IN Fifo!urbDeliver(Origin[m], Payload[m])
  /\ UNCHANGED groupVars

(* ... which goes on with its scan when the callback has returned ... *)
CallbackReturned == groupPC["listen"] = "idle" /\ Returned("listen")

ScanStep ==
  /\ Self \notin crashed
  /\ CallbackReturned
  /\ UNCHANGED vars
  /\ \/ /\ Fifo!ScanDeliver
        /\ IF origin = Self
             THEN Controller!DeliverOwn
             ELSE UNCHANGED groupVars
     \/ /\ Fifo!ScanSkip \/ Fifo!ScanEnd
        /\ UNCHANGED groupVars

(* ... where FIFOController::deliver counts an own packet ... *)
CountDelivery ==
  /\ Self \notin crashed
  /\ UNCHANGED <<vars, fifoVars>>
  /\ Controller!CountDelivery

(* ... and at the end of the scan returns to UniformBroadcast. *)
UrbReturn(f) ==
  /\ origin = NoOrigin
  /\ Return(Self, f)
  /\ UNCHANGED <<fifoVars, groupVars>>

(* Between the calls, the layer below works on its own. *)
UniformStep ==
  /\ \/ \E p \in Process, f \in Frame :
          (\E q \in Process : SendOne(p, f, q)) \/ Conclude(p, f)
     \/ \E p \in Process : (\E pkt \in Packet : BebDeliver(p, pkt)) \/ Crash(p)
  /\ UNCHANGED <<fifoVars, groupVars>>

(* The packets of m's origin come in order (FIFOController). *)
ItsTurn(m) ==
  \A k \in Msg : Origin[k] = Origin[m] /\ Payload[k] < Payload[m]
                   => k \in forwarded[Origin[m]]

OtherProcess(p, f) ==
  /\ \/ \E m \in Msg : ItsTurn(m) /\ Broadcast(p, f, m)
     \/ Upcall(p, f)
     \/ Return(p, f)
  /\ UNCHANGED <<fifoVars, groupVars>>

StackNext ==
  \/ \E t \in {"main", "listen"} : GroupStep(t) \/ FifoBroadcast(t)
  \/ \E f \in Frame : UrbDeliver(f) \/ UrbReturn(f)
  \/ ScanStep
  \/ CountDelivery
  \/ UniformStep
  \/ \E p \in Process \ {Self}, f \in Frame : OtherProcess(p, f)

StackSpec == StackInit /\ [][StackNext]_stackVars

-----------------------------------------------------------------------------
(* Every call finds the layer that is called ready for it, so that the layers *)
(* may be looked at one at a time, each under the assumptions of its module: *)
(* urbDeliver is called by one thread, not inside another urbDeliver, and    *)
(* once for a packet; FIFOController is given an own packet only when it has *)
(* been handed over; and no packet is passed to urb->broadcast twice.        *)
CallsFit ==
  /\ \A f \in Frame : pc[Self][f] = "upcall" =>
       LET m == current[Self][f]
       IN  origin = NoOrigin /\ Payload[m] \notin arrived[Origin[m]]
  /\ origin = Self /\ Fifo!Scanning /\ Fifo!MyTurn(pendingSorted[Self][index])
       => Len(fifoDelivered[Self]) < handed
  /\ \A t \in {"main", "listen"} : groupPC[t] = "send" =>
       /\ Returned(t) /\ MayBroadcast(Self, CallOf(t))
       /\ \E m \in Msg \ forwarded[Self] :
            Origin[m] = Self /\ Payload[m] = turn[t]

(* The packets of q that have been passed to broadcast(), in order. *)
Passed(q) == {Payload[m] : m \in {k \in forwarded[q] : Origin[k] = q}}

Promise == INSTANCE FIFOReliableBroadcast WITH
  Receiver <- {Self},
  Packet <- 1 .. K,
  fifoSent <- [q \in Process |-> [n \in Passed(q) |-> n]],
  fifoNext <- [p \in {Self} |->
                 [q \in Process |-> Len(fifoDelivered[q]) + 1]]

(* The three layers together keep the promise of FIFO broadcast on which     *)
(* LCBroadcast is built: Self delivers the packets of every process one by   *)
(* one in the order they were broadcast in, none twice, none of its own      *)
(* invention.                                                                *)
ImplementsFIFO ==
  /\ Promise!Spec
  /\ [](\A q \in Process : fifoDelivered[q] = Promise!Delivered(Self, q))

=============================================================================
