------------------------- MODULE BroadcastStackProofs -------------------------
(***************************************************************************)
(* Proofs about BroadcastStack, for every number of processes, group size,   *)
(* workload and crash pattern.  Every step of the stack is a step, or a      *)
(* stutter, of each layer, so that the invariants proved of the layers hold  *)
(* in it (Layers); that the layers fit rests on what is said below of the    *)
(* state between them.                                                       *)
(***************************************************************************)
EXTENDS BroadcastStack, UniformBroadcastProofs, SequenceTheorems

F == INSTANCE FIFOBroadcastProofs WITH Origin <- Process
C == INSTANCE FIFOControllerProofs WITH
  pc <- groupPC, i <- turn, delivered <- Len(fifoDelivered[Self])

Layers == IInv /\ F!IInv /\ C!IInv

(* FIFOBroadcast has got what UniformBroadcast has delivered, and only what  *)
(* has been broadcast.                                                       *)
ArrivedAreUpcalls ==
  \A m \in Msg : Payload[m] \in arrived[Origin[m]] <=> m \in upcalls[Self]

ArrivedPassed == \A q \in Process : arrived[q] \subseteq Passed(q)

(* urbDeliver runs inside the callback of the listener, ... *)
CallUnderWay ==
  origin # NoOrigin =>
    /\ pc[Self]["bebDeliver"] = "upper"
    /\ Origin[current[Self]["bebDeliver"]] = origin

(* ... and the listener's group inside the delivery of an own packet. *)
InsideDelivery ==
  groupPC["listen"] # "idle" \/ pc[Self]["nested"] # "idle" => origin = Self

SendReady ==
  \A t \in {"main", "listen"} : groupPC[t] = "send" => Returned(t)

(* The packets of a process are passed on as 1, 2, 3, ... *)
InSequence == \A q \in Process : \E k \in Nat : Passed(q) = 1 .. k

HandedPassed == Passed(Self) = 1 .. handed

StackInv ==
  /\ Layers
  /\ ArrivedAreUpcalls
  /\ ArrivedPassed
  /\ CallUnderWay
  /\ InsideDelivery
  /\ SendReady
  /\ InSequence
  /\ HandedPassed

-----------------------------------------------------------------------------
(* The constants are as the layers assume. *)
LEMMA LayerAssumptions ==
  /\ K \in Nat /\ NoOrigin \notin Process
  /\ nPacketsPerBroadcast \in Nat \ {0} /\ Workloads \subseteq Nat
  BY StackAssumption, LoadAssumption

(* The two instances of FIFOBroadcast, of the model and of the proofs. *)
LEMMA SameFifo ==
  /\ Fifo!Init <=> F!Init
  /\ \A o, n : Fifo!urbDeliver(o, n) <=> F!urbDeliver(o, n)
  /\ Fifo!ScanDeliver <=> F!ScanDeliver
  /\ Fifo!ScanSkip <=> F!ScanSkip
  /\ Fifo!ScanEnd <=> F!ScanEnd
  /\ Fifo!Scanning <=> F!Scanning
  /\ \A n : Fifo!MyTurn(n) <=> F!MyTurn(n)
<1>1. Fifo!Init <=> F!Init
  BY DEF Fifo!Init, F!Init
<1>2. ASSUME NEW o, NEW n
      PROVE  Fifo!urbDeliver(o, n) <=> F!urbDeliver(o, n)
  BY DEF Fifo!urbDeliver, F!urbDeliver, Fifo!addToPending, F!addToPending,
         Fifo!Place, F!Place, Fifo!InsertAt, F!InsertAt
<1>3. /\ Fifo!Scanning <=> F!Scanning
      /\ \A n : Fifo!MyTurn(n) <=> F!MyTurn(n)
  BY DEF Fifo!Scanning, F!Scanning, Fifo!MyTurn, F!MyTurn
<1>4. Fifo!ScanDeliver <=> F!ScanDeliver
  BY DEF Fifo!ScanDeliver, F!ScanDeliver, Fifo!Scanning, F!Scanning,
         Fifo!MyTurn, F!MyTurn
<1>5. Fifo!ScanSkip <=> F!ScanSkip
  BY DEF Fifo!ScanSkip, F!ScanSkip, Fifo!Scanning, F!Scanning,
         Fifo!MyTurn, F!MyTurn
<1>6. Fifo!ScanEnd <=> F!ScanEnd
  BY DEF Fifo!ScanEnd, F!ScanEnd, Fifo!Scanning, F!Scanning
<1> QED
  BY <1>1, <1>2, <1>3, <1>4, <1>5, <1>6

(* ... and of FIFOController. *)
LEMMA SameController ==
  /\ Controller!Init <=> C!Init
  /\ \A t : Controller!LogBroadcast(t) <=> C!LogBroadcast(t)
  /\ \A t : Controller!FifoBroadcast(t) <=> C!FifoBroadcast(t)
  /\ \A t : Controller!LeaveLoop(t) <=> C!LeaveLoop(t)
  /\ \A t : Controller!AddToCounter(t) <=> C!AddToCounter(t)
  /\ Controller!DeliverOwn <=> C!DeliverOwn
  /\ Controller!CountDelivery <=> C!CountDelivery
<1>1. Controller!Init <=> C!Init
  BY DEF Controller!Init, C!Init, Controller!Thread, C!Thread
<1>2. ASSUME NEW t
      PROVE  /\ Controller!LogBroadcast(t) <=> C!LogBroadcast(t)
             /\ Controller!LeaveLoop(t) <=> C!LeaveLoop(t)
  BY DEF Controller!LogBroadcast, C!LogBroadcast, Controller!LeaveLoop,
         C!LeaveLoop, Controller!InGroup, C!InGroup
<1>3. ASSUME NEW t
      PROVE  /\ Controller!FifoBroadcast(t) <=> C!FifoBroadcast(t)
             /\ Controller!AddToCounter(t) <=> C!AddToCounter(t)
  BY DEF Controller!FifoBroadcast, C!FifoBroadcast, Controller!AddToCounter,
         C!AddToCounter
<1>4. Controller!DeliverOwn <=> C!DeliverOwn
  BY DEF Controller!DeliverOwn, C!DeliverOwn
<1>5. Controller!CountDelivery <=> C!CountDelivery
  BY DEF Controller!CountDelivery, C!CountDelivery, Controller!AllCounted,
         C!AllCounted, Controller!GroupCounted, C!GroupCounted
<1> QED
  BY <1>1, <1>2, <1>3, <1>4, <1>5

-----------------------------------------------------------------------------
(* A step of the stack is a step or a stutter of every layer. *)
LEMMA UniformNext == [StackNext]_stackVars => [Next]_vars
<1> SUFFICES ASSUME StackNext
             PROVE  [Next]_vars
  BY DEF stackVars
<1>1. ASSUME NEW t \in {"main", "listen"}, GroupStep(t)
      PROVE  UNCHANGED vars
  BY <1>1 DEF GroupStep, vars
<1>2. ASSUME NEW t \in {"main", "listen"}, FifoBroadcast(t)
      PROVE  Next
  <2>1. Self \in Process /\ CallOf(t) \in Frame
    BY StackAssumption DEF CallOf, Frame
  <2>2. PICK m \in Msg : Broadcast(Self, CallOf(t), m)
    BY <1>2 DEF FifoBroadcast
  <2> QED
    BY <2>1, <2>2 DEF Next
<1>3. ASSUME NEW f \in Frame, UrbDeliver(f) \/ UrbReturn(f)
      PROVE  Next
  <2>1. Self \in Process /\ (Upcall(Self, f) \/ Return(Self, f))
    BY <1>3, StackAssumption DEF UrbDeliver, UrbReturn
  <2> QED
    BY <2>1 DEF Next
<1>4. CASE ScanStep \/ CountDelivery
  BY <1>4 DEF ScanStep, CountDelivery, vars
<1>5. CASE UniformStep
  BY <1>5 DEF UniformStep, Next
<1>6. ASSUME NEW p \in Process \ {Self}, NEW f \in Frame, OtherProcess(p, f)
      PROVE  Next
  BY <1>6 DEF OtherProcess, Next
<1> QED
  BY <1>1, <1>2, <1>3, <1>4, <1>5, <1>6 DEF StackNext

(* What UniformBroadcast hands over is a message. *)
LEMMA UpcallMessage ==
  ASSUME IInv, NEW p \in Process, NEW f \in Frame, Upcall(p, f)
  PROVE  /\ current[p][f] \in Msg /\ current[p][f] \in forwarded[p]
         /\ current[p][f] \in delivered[p] \ upcalls[p]
         /\ f = "bebDeliver" /\ pc[p][f] = "upcall"
  BY DEF Upcall, IInv, TypeOK, UpcallsAreDelivered, OnlyListenerDelivers,
         FramesHoldForwarded

LEMMA FifoNext == IInv /\ [StackNext]_stackVars => [F!Next]_(F!vars)
<1> SUFFICES ASSUME IInv, StackNext
             PROVE  [F!Next]_(F!vars)
  BY DEF stackVars, fifoVars, F!vars
<1>1. ASSUME UNCHANGED fifoVars
      PROVE  UNCHANGED F!vars
  BY <1>1 DEF fifoVars, F!vars
<1>2. ASSUME NEW f \in Frame, UrbDeliver(f)
      PROVE  F!Next
  <2>1. Upcall(Self, f) /\ Self \in Process
    BY <1>2, StackAssumption DEF UrbDeliver
  <2>2. PICK m \in Msg : F!urbDeliver(Origin[m], Payload[m])
    BY <1>2, <2>1, UpcallMessage, SameFifo DEF UrbDeliver
  <2>3. Origin[m] \in Process /\ Payload[m] \in 1 .. K
    BY MsgAssumption, StackAssumption
  <2> QED
    BY <2>2, <2>3 DEF F!Next
<1>3. CASE ScanStep
  BY <1>3, SameFifo DEF ScanStep, F!Next
<1> QED
  BY <1>1, <1>2, <1>3
     DEF StackNext, GroupStep, FifoBroadcast, UrbReturn, CountDelivery,
         UniformStep, OtherProcess

LEMMA ControllerNext ==
  F!IInv /\ [StackNext]_stackVars => [C!Next]_(C!vars)
<1> SUFFICES ASSUME F!IInv, StackNext
             PROVE  [C!Next]_(C!vars)
  BY DEF stackVars, fifoVars, groupVars, C!vars
<1>1. ASSUME UNCHANGED groupVars, fifoDelivered'[Self] = fifoDelivered[Self]
      PROVE  UNCHANGED C!vars
  BY <1>1 DEF groupVars, C!vars
<1>2. ASSUME NEW t \in {"main", "listen"}, GroupStep(t) \/ FifoBroadcast(t)
      PROVE  C!Next
  BY <1>2, SameController DEF GroupStep, FifoBroadcast, C!Next, C!Thread
<1>3. ASSUME NEW f \in Frame, UrbDeliver(f)
      PROVE  UNCHANGED C!vars
  BY <1>1, <1>3 DEF UrbDeliver, Fifo!urbDeliver
<1>4. CASE ScanStep
  <2>1. CASE Fifo!ScanDeliver /\ origin = Self
    BY <1>4, <2>1, SameController DEF ScanStep, C!Next, Fifo!ScanSkip,
       Fifo!ScanEnd, Fifo!ScanDeliver
  <2>2. CASE Fifo!ScanDeliver /\ origin # Self
    <3>1. UNCHANGED groupVars
      BY <1>4, <2>2 DEF ScanStep
    <3>2. fifoDelivered'[Self] = fifoDelivered[Self]
      BY <2>2 DEF Fifo!ScanDeliver, F!IInv, F!TypeOK
    <3> QED
      BY <1>1, <3>1, <3>2
  <2>3. CASE Fifo!ScanSkip \/ Fifo!ScanEnd
    <3>1. UNCHANGED fifoDelivered /\ ~Fifo!ScanDeliver
      BY <2>3 DEF Fifo!ScanSkip, Fifo!ScanEnd, Fifo!ScanDeliver
    <3> QED
      BY <1>1, <1>4, <3>1 DEF ScanStep
  <2> QED
    BY <1>4, <2>1, <2>2, <2>3 DEF ScanStep
<1>5. CASE CountDelivery
  BY <1>5, SameController DEF CountDelivery, C!Next
<1>6. ASSUME UNCHANGED <<fifoVars, groupVars>>
      PROVE  UNCHANGED C!vars
  BY <1>1, <1>6 DEF fifoVars
<1> QED
  BY <1>2, <1>3, <1>4, <1>5, <1>6
     DEF StackNext, UrbReturn, UniformStep, OtherProcess

LEMMA LayersStep ==
  ASSUME Layers, [StackNext]_stackVars
  PROVE  Layers'
<1>1. IInv' /\ F!IInv' /\ C!IInv'
  <2>1. [Next]_vars /\ [F!Next]_(F!vars) /\ [C!Next]_(C!vars)
    BY UniformNext, FifoNext, ControllerNext DEF Layers
  <2>2. F!IInv'
    BY <2>1, LayerAssumptions, F!NextIInv DEF Layers
  <2>3. C!IInv'
    BY <2>1, LayerAssumptions, C!NextIInv DEF Layers
  <2> QED
    BY <2>1, <2>2, <2>3, NextIInv DEF Layers
<1> QED
  BY <1>1 DEF Layers

-----------------------------------------------------------------------------
(* A message is known by its process and its number. *)
LEMMA PassedFacts ==
  ASSUME TypeOK, NEW q \in Process
  PROVE  /\ Passed(q) \subseteq 1 .. K
         /\ \A m \in Msg : Origin[m] = q =>
              (m \in forwarded[q] <=> Payload[m] \in Passed(q))
<1>1. forwarded[q] \subseteq Msg
  BY DEF TypeOK
<1>2. Passed(q) \subseteq 1 .. K
  BY <1>1, StackAssumption DEF Passed
<1>3. ASSUME NEW m \in Msg, Origin[m] = q
      PROVE  m \in forwarded[q] <=> Payload[m] \in Passed(q)
  <2>1. ASSUME NEW k \in forwarded[q], Origin[k] = q, Payload[k] = Payload[m]
        PROVE  k = m
    BY <1>1, <1>3, <2>1, StackAssumption
  <2> QED
    BY <1>3, <2>1 DEF Passed
<1> QED
  BY <1>2, <1>3

(* A call of broadcast() passes one packet more; no other step does. *)
LEMMA BroadcastPasses ==
  ASSUME IInv, NEW p \in Process, NEW f \in Frame, NEW m \in Msg,
         Broadcast(p, f, m)
  PROVE  /\ Origin[m] = p /\ Payload[m] \notin Passed(p)
         /\ Passed(p)' = Passed(p) \cup {Payload[m]}
         /\ \A q \in Process \ {p} : Passed(q)' = Passed(q)
<1>1. /\ Origin[m] = p /\ m \notin forwarded[p]
      /\ forwarded' = [forwarded EXCEPT ![p] = @ \cup {m}]
  BY DEF Broadcast
<1>2. /\ forwarded'[p] = forwarded[p] \cup {m}
      /\ \A q \in Process \ {p} : forwarded'[q] = forwarded[q]
  BY <1>1 DEF IInv, TypeOK
<1>3. Payload[m] \notin Passed(p)
  BY <1>1, PassedFacts DEF IInv
<1>4. Passed(p)' = Passed(p) \cup {Payload[m]}
  BY <1>1, <1>2 DEF Passed
<1>5. \A q \in Process \ {p} : Passed(q)' = Passed(q)
  BY <1>2 DEF Passed
<1> QED
  BY <1>1, <1>3, <1>4, <1>5

LEMMA NonePassed ==
  ASSUME IInv, UNCHANGED forwarded \/ \E p \in Process, pkt \in Packet :
                                        BebDeliver(p, pkt)
  PROVE  \A q \in Process : Passed(q)' = Passed(q)
<1>1. CASE UNCHANGED forwarded
  BY <1>1 DEF Passed
<1>2. ASSUME NEW p \in Process, NEW pkt \in Packet, BebDeliver(p, pkt),
             NEW q \in Process
      PROVE  Passed(q)' = Passed(q)
  <2>1. forwarded' = [forwarded EXCEPT ![p] = @ \cup {pkt.msg}]
    BY <1>2 DEF BebDeliver
  <2>2. pkt.msg \in forwarded[Origin[pkt.msg]]
    BY <1>2 DEF BebDeliver, Link!Deliver, IInv, SentAreForwarded, OriginFirst,
                Packet
  <2>3. {k \in forwarded'[q] : Origin[k] = q}
          = {k \in forwarded[q] : Origin[k] = q}
    BY <2>1, <2>2 DEF IInv, TypeOK
  <2> QED
    BY <2>3 DEF Passed
<1> QED
  BY <1>1, <1>2

(* The steps of UniformBroadcast that the stack leaves to it. *)
LEMMA UniformStepPasses ==
  ASSUME IInv, UniformStep
  PROVE  /\ \A q \in Process : Passed(q)' = Passed(q)
         /\ UNCHANGED <<upcalls, fifoVars, groupVars>>
<1>1. UNCHANGED <<upcalls, fifoVars, groupVars>>
  BY DEF UniformStep, SendOne, Conclude, BebDeliver, Crash
<1>2. UNCHANGED forwarded \/ \E p \in Process, pkt \in Packet :
                               BebDeliver(p, pkt)
  BY DEF UniformStep, SendOne, Conclude, Crash, stateVars
<1> QED
  BY <1>1, <1>2, NonePassed

(* They leave a call that is under way, and one that has returned, as it is. *)
LEMMA UniformStepFrames ==
  ASSUME IInv, NEW p \in Process,
         \/ UniformStep
         \/ \E q \in Process \ {p}, f \in Frame : OtherProcess(q, f)
  PROVE  /\ \A f \in Frame : pc[p][f] = "upper" =>
              pc'[p][f] = "upper" /\ current'[p][f] = current[p][f]
         /\ \A f \in Frame \ {"bebDeliver"} :
              pc[p][f] = "idle" => pc'[p][f] = "idle"
<1> DEFINE Kept ==
             /\ \A f \in Frame : pc[p][f] = "upper" =>
                  pc'[p][f] = "upper" /\ current'[p][f] = current[p][f]
             /\ \A f \in Frame \ {"bebDeliver"} :
                  pc[p][f] = "idle" => pc'[p][f] = "idle"
<1> USE DEF IInv, TypeOK
<1>1. ASSUME pc'[p] = pc[p], current'[p] = current[p]
      PROVE  Kept
  BY <1>1
<1>2. ASSUME NEW q \in Process, NEW f \in Frame,
             (\E r \in Process : SendOne(q, f, r))
      PROVE  Kept
  BY <1>1, <1>2 DEF SendOne
<1>3. ASSUME NEW q \in Process, NEW f \in Frame, Conclude(q, f)
      PROVE  Kept
  <2>1. /\ pc[q][f] = "send" /\ current' = current
        /\ \E s \in {"idle", "upcall"} : pc' = [pc EXCEPT ![q][f] = s]
    BY <1>3 DEF Conclude
  <2> QED
    BY <2>1
<1>4. ASSUME NEW q \in Process, NEW pkt \in Packet, BebDeliver(q, pkt)
      PROVE  Kept
  <2>1. /\ pc[q]["bebDeliver"] = "idle"
        /\ pc' = [pc EXCEPT ![q]["bebDeliver"] = "send"]
        /\ current' = [current EXCEPT ![q]["bebDeliver"] = pkt.msg]
    BY <1>4 DEF BebDeliver, StartSending
  <2> QED
    BY <2>1
<1>5. ASSUME NEW q \in Process, Crash(q)
      PROVE  Kept
  BY <1>1, <1>5 DEF Crash, frameVars
<1>6. CASE UniformStep
  BY <1>2, <1>3, <1>4, <1>5, <1>6 DEF UniformStep
<1>7. ASSUME NEW q \in Process \ {p}, NEW f \in Frame, OtherProcess(q, f)
      PROVE  Kept
  <2>1. ASSUME NEW m \in Msg, Broadcast(q, f, m)
        PROVE  pc'[p] = pc[p] /\ current'[p] = current[p]
    BY <2>1 DEF Broadcast, StartSending
  <2>2. CASE Upcall(q, f) \/ Return(q, f)
    BY <2>2 DEF Upcall, Return
  <2> QED
    BY <1>1, <1>7, <2>1, <2>2 DEF OtherProcess
<1> QED
  BY <1>6, <1>7

-----------------------------------------------------------------------------
(* The initial states satisfy the invariant. *)
LEMMA InitStackInv == StackInit => StackInv
<1> SUFFICES ASSUME StackInit
             PROVE  StackInv
  OBVIOUS
<1>1. Init /\ F!Init /\ C!Init
  BY SameFifo, SameController DEF StackInit
<1>2. Layers
  BY <1>1, LayerAssumptions, InitIInv, F!InitIInv, C!InitIInv DEF Layers
<1>3. \A q \in Process : Passed(q) = {}
  BY <1>1 DEF Init, Passed
<1>4. ArrivedAreUpcalls
  BY <1>1, MsgAssumption, StackAssumption
     DEF ArrivedAreUpcalls, Init, F!Init
<1>5. ArrivedPassed /\ CallUnderWay
  BY <1>1 DEF ArrivedPassed, CallUnderWay, F!Init
<1>6. InsideDelivery /\ SendReady
  BY <1>1, StackAssumption
     DEF InsideDelivery, SendReady, C!Init, C!Thread, Init, Frame
<1>7. InSequence
  <2>1. {} = 1 .. 0
    OBVIOUS
  <2> QED
    BY <1>3, <2>1 DEF InSequence
<1>8. HandedPassed
  BY <1>1, <1>3, StackAssumption DEF HandedPassed, C!Init
<1> QED
  BY <1>2, <1>4, <1>5, <1>6, <1>7, <1>8 DEF StackInv

(* The parts that speak of what has been passed on and what has arrived. *)
LEMMA NothingNew ==
  ASSUME StackInv, Layers', UNCHANGED <<upcalls, arrived, handed>>,
         \A q \in Process : Passed(q)' = Passed(q)
  PROVE  ArrivedAreUpcalls' /\ ArrivedPassed' /\ InSequence' /\ HandedPassed'
<1>1. ArrivedAreUpcalls'
  BY DEF StackInv, ArrivedAreUpcalls
<1>2. ArrivedPassed' /\ InSequence'
  BY DEF StackInv, ArrivedPassed, InSequence
<1>3. HandedPassed'
  BY StackAssumption DEF StackInv, HandedPassed
<1> QED
  BY <1>1, <1>2, <1>3

LEMMA GroupType ==
  ASSUME StackInv
  PROVE  /\ handed \in Nat
         /\ groupPC \in [{"main", "listen"} ->
                         {"loop", "send", "add", "done", "idle", "count"}]
<1>1. C!TypeOK /\ maxPackets \in Nat
  BY LoadAssumption DEF StackInv, Layers, C!IInv, C!TypeOK
<1> QED
  BY <1>1 DEF C!TypeOK, C!Thread

(* The turns of groupedBroadcast. *)
LEMMA GroupStepInv ==
  ASSUME StackInv, Layers', NEW t \in {"main", "listen"}, GroupStep(t)
  PROVE  StackInv'
<1>1. UNCHANGED <<vars, fifoVars, handed>> /\ Returned(t)
  BY DEF GroupStep, Controller!LogBroadcast, Controller!LeaveLoop,
         Controller!AddToCounter
<1>2. PICK s \in {"send", "add", "done", "idle"} :
        groupPC' = [groupPC EXCEPT ![t] = s]
  BY DEF GroupStep, Controller!LogBroadcast, Controller!LeaveLoop,
         Controller!AddToCounter
<1>3. /\ groupPC[t] # "idle"
      /\ \A u \in {"main", "listen"} \ {t} : groupPC'[u] = groupPC[u]
  BY <1>2, GroupType DEF GroupStep, Controller!LogBroadcast,
     Controller!LeaveLoop, Controller!AddToCounter
<1>4. \A q \in Process : Passed(q)' = Passed(q)
  BY <1>1, NonePassed DEF vars, stateVars, StackInv, Layers
<1>5. ArrivedAreUpcalls' /\ ArrivedPassed' /\ InSequence' /\ HandedPassed'
  BY <1>1, <1>4, NothingNew DEF vars, fifoVars
<1>6. CallUnderWay'
  BY <1>1 DEF StackInv, CallUnderWay, vars, fifoVars, frameVars
<1>7. InsideDelivery'
  <2>1. groupPC'["listen"] # "idle" => groupPC["listen"] # "idle"
    BY <1>3
  <2> QED
    BY <1>1, <2>1 DEF StackInv, InsideDelivery, vars, fifoVars, frameVars
<1>8. SendReady'
  <2>1. \A u \in {"main", "listen"} : Returned(u)' <=> Returned(u)
    BY <1>1 DEF Returned, CallOf, vars, frameVars
  <2> QED
    BY <1>1, <1>3, <2>1 DEF StackInv, SendReady
<1> QED
  BY <1>5, <1>6, <1>7, <1>8 DEF StackInv

(* fifo->broadcast: the packet handed over is the next one. *)
LEMMA FifoBroadcastInv ==
  ASSUME StackInv, Layers', NEW t \in {"main", "listen"}, FifoBroadcast(t)
  PROVE  StackInv'
<1> DEFINE f == CallOf(t)
<1>0. Self \in Process /\ f \in Frame \ {"bebDeliver"}
  BY StackAssumption DEF CallOf, Frame
<1>1. PICK m \in Msg : Payload[m] = turn[t] /\ Broadcast(Self, f, m)
  BY DEF FifoBroadcast
<1>2. /\ handed' = handed + 1 /\ groupPC[t] = "send"
      /\ groupPC' = [groupPC EXCEPT ![t] = "loop"]
      /\ UNCHANGED fifoVars
  BY DEF FifoBroadcast, Controller!FifoBroadcast
<1>3. /\ UNCHANGED upcalls
      /\ pc' = [pc EXCEPT ![Self][f] = "send"]
      /\ current' = [current EXCEPT ![Self][f] = m]
  BY <1>1 DEF Broadcast, StartSending
<1> HIDE DEF f
<1>4. /\ turn[t] = handed + 1 /\ handed \in Nat
      /\ groupPC'[t] = "loop"
      /\ \A u \in {"main", "listen"} \ {t} : groupPC'[u] = groupPC[u]
  <2>1. turn[t] = handed + 1
    BY <1>2 DEF StackInv, Layers, C!IInv, C!DuringGroup, C!Active, C!Thread
  <2> QED
    BY <1>2, <2>1, GroupType
<1>5. /\ Passed(Self)' = 1 .. handed + 1
      /\ \A q \in Process \ {Self} : Passed(q)' = Passed(q)
  <2>1. /\ Passed(Self)' = Passed(Self) \cup {handed + 1}
        /\ \A q \in Process \ {Self} : Passed(q)' = Passed(q)
    BY <1>0, <1>1, <1>4, BroadcastPasses DEF StackInv, Layers
  <2>2. 1 .. handed + 1 = (1 .. handed) \cup {handed + 1}
    BY <1>4
  <2> QED
    BY <2>1, <2>2 DEF StackInv, HandedPassed
<1>6. ArrivedAreUpcalls'
  BY <1>2, <1>3 DEF StackInv, ArrivedAreUpcalls, fifoVars
<1>7. ArrivedPassed'
  <2>1. Passed(Self) \subseteq Passed(Self)'
    BY <1>4, <1>5 DEF StackInv, HandedPassed
  <2> QED
    BY <1>2, <1>5, <2>1 DEF StackInv, ArrivedPassed, fifoVars
<1>8. CallUnderWay'
  BY <1>0, <1>2, <1>3
     DEF StackInv, CallUnderWay, fifoVars, Layers, IInv, TypeOK
<1>9. InsideDelivery'
  <2>1. CASE t = "main"
    BY <1>0, <1>2, <1>3, <1>4, <2>1
       DEF StackInv, InsideDelivery, fifoVars, f, CallOf, Layers, IInv, TypeOK
  <2>2. CASE t = "listen"
    <3>1. origin = Self
      BY <1>2, <2>2 DEF StackInv, InsideDelivery
    <3> QED
      BY <1>2, <3>1 DEF InsideDelivery, fifoVars
  <2> QED
    BY <2>1, <2>2
<1>10. SendReady'
  <2> SUFFICES ASSUME NEW u \in {"main", "listen"}, groupPC'[u] = "send"
               PROVE  Returned(u)'
    BY DEF SendReady
  <2>1. u # t /\ groupPC[u] = "send"
    BY <1>2, <1>4
  <2>2. pc[Self][CallOf(u)] = "idle" /\ CallOf(u) # f /\ CallOf(u) \in Frame
    BY <2>1 DEF StackInv, SendReady, Returned, CallOf, f, Frame
  <2> QED
    BY <1>0, <1>3, <2>2 DEF Returned, StackInv, Layers, IInv, TypeOK, CallOf
<1>11. InSequence' /\ HandedPassed'
  <2>1. handed + 1 \in Nat
    BY <1>4
  <2> QED
    BY <1>2, <1>5, <2>1 DEF StackInv, InSequence, HandedPassed
<1> QED
  BY <1>6, <1>7, <1>8, <1>9, <1>10, <1>11 DEF StackInv

(* The callback: the packet is new to FIFOBroadcast, and has been broadcast. *)
LEMMA UrbDeliverInv ==
  ASSUME StackInv, Layers', NEW f \in Frame, UrbDeliver(f)
  PROVE  StackInv'
<1> DEFINE m == current[Self][f]
<1>0. Self \in Process
  BY StackAssumption
<1>1. /\ f = "bebDeliver" /\ m \in Msg /\ m \in forwarded[Self]
      /\ upcalls' = [upcalls EXCEPT ![Self] = @ \cup {m}]
      /\ pc' = [pc EXCEPT ![Self][f] = "upper"]
      /\ UNCHANGED <<forwarded, current>>
  BY <1>0, UpcallMessage
     DEF UrbDeliver, Upcall, stateVars, StackInv, Layers
<1>2. /\ arrived' = [arrived EXCEPT ![Origin[m]] = @ \cup {Payload[m]}]
      /\ origin = NoOrigin /\ origin' = Origin[m]
      /\ UNCHANGED groupVars
  BY DEF UrbDeliver, Fifo!urbDeliver
<1> HIDE DEF m
<1>3. Origin[m] \in Process /\ Payload[m] \in 1 .. K
  BY <1>1, MsgAssumption, StackAssumption
<1>4. /\ arrived'[Origin[m]] = arrived[Origin[m]] \cup {Payload[m]}
      /\ \A q \in Process \ {Origin[m]} : arrived'[q] = arrived[q]
      /\ upcalls'[Self] = upcalls[Self] \cup {m}
  BY <1>0, <1>1, <1>2, <1>3
     DEF StackInv, Layers, F!IInv, F!TypeOK, IInv, TypeOK
<1>5. \A q \in Process : Passed(q)' = Passed(q)
  BY <1>1, NonePassed DEF StackInv, Layers
<1>6. ArrivedAreUpcalls'
  <2> SUFFICES ASSUME NEW k \in Msg
               PROVE  Payload[k] \in arrived'[Origin[k]]
                        <=> k \in upcalls'[Self]
    BY DEF ArrivedAreUpcalls
  <2>1. Origin[k] \in Process
    BY MsgAssumption
  <2>2. Origin[k] = Origin[m] /\ Payload[k] = Payload[m] => k = m
    BY <1>1, StackAssumption
  <2>3. Payload[k] \in arrived[Origin[k]] <=> k \in upcalls[Self]
    BY DEF StackInv, ArrivedAreUpcalls
  <2> QED
    BY <1>4, <2>1, <2>2, <2>3
<1>7. ArrivedPassed'
  <2>1. m \in forwarded[Origin[m]]
    BY <1>0, <1>1 DEF StackInv, Layers, IInv, OriginFirst
  <2>2. Payload[m] \in Passed(Origin[m])
    BY <1>1, <1>3, <2>1, PassedFacts DEF StackInv, Layers, IInv
  <2> QED
    BY <1>3, <1>4, <1>5, <2>2 DEF StackInv, ArrivedPassed
<1>8. CallUnderWay'
  BY <1>0, <1>1, <1>2 DEF CallUnderWay, StackInv, Layers, IInv, TypeOK, m
<1>9. groupPC["listen"] = "idle" /\ pc[Self]["nested"] = "idle"
  BY <1>0, <1>2, StackAssumption DEF StackInv, InsideDelivery
<1>10. InsideDelivery' /\ SendReady'
  <2>1. \A g \in Frame \ {"bebDeliver"} : pc'[Self][g] = pc[Self][g]
    BY <1>0, <1>1 DEF StackInv, Layers, IInv, TypeOK
  <2>2. "nested" \in Frame /\ "main" \in Frame
    BY DEF Frame
  <2>3. InsideDelivery'
    BY <1>2, <1>9, <2>1, <2>2 DEF InsideDelivery, groupVars
  <2>4. SendReady'
    BY <1>2, <2>1, <2>2 DEF StackInv, SendReady, Returned, CallOf, groupVars
  <2> QED
    BY <2>3, <2>4
<1>11. InSequence' /\ HandedPassed'
  BY <1>0, <1>2, <1>5 DEF StackInv, InSequence, HandedPassed, groupVars
<1> QED
  BY <1>6, <1>7, <1>8, <1>10, <1>11 DEF StackInv

(* The scan goes on when the callback has returned. *)
LEMMA ScanStepInv ==
  ASSUME StackInv, Layers', ScanStep
  PROVE  StackInv'
<1>1. /\ UNCHANGED <<vars, arrived, handed>>
      /\ groupPC["listen"] = "idle" /\ Returned("listen")
  BY DEF ScanStep, CallbackReturned, Fifo!ScanDeliver, Fifo!ScanSkip,
         Fifo!ScanEnd, Controller!DeliverOwn, groupVars
<1>2. \A q \in Process : Passed(q)' = Passed(q)
  BY <1>1, NonePassed DEF vars, stateVars, StackInv, Layers
<1>3. ArrivedAreUpcalls' /\ ArrivedPassed' /\ InSequence' /\ HandedPassed'
  BY <1>1, <1>2, NothingNew DEF vars
<1>4. pc[Self]["nested"] = "idle"
  BY <1>1 DEF Returned, CallOf
<1>5. CASE UNCHANGED groupVars
  <2>1. origin' = origin \/ origin' = NoOrigin
    BY DEF ScanStep, Fifo!ScanDeliver, Fifo!ScanSkip, Fifo!ScanEnd
  <2>2. CallUnderWay'
    BY <1>1, <2>1 DEF StackInv, CallUnderWay, vars, frameVars
  <2>3. InsideDelivery'
    BY <1>1, <1>4, <1>5 DEF InsideDelivery, vars, frameVars, groupVars
  <2>4. SendReady'
    BY <1>1, <1>5 DEF StackInv, SendReady, Returned, CallOf, vars, frameVars,
                      groupVars
  <2> QED
    BY <1>3, <2>2, <2>3, <2>4 DEF StackInv
<1>6. CASE origin = Self /\ UNCHANGED origin /\ Controller!DeliverOwn
  <2>1. groupPC' = [groupPC EXCEPT !["listen"] = "count"]
    BY <1>6 DEF Controller!DeliverOwn
  <2>2. groupPC'["listen"] = "count" /\ groupPC'["main"] = groupPC["main"]
    BY <2>1, GroupType
  <2>3. CallUnderWay' /\ InsideDelivery'
    BY <1>1, <1>6 DEF StackInv, CallUnderWay, InsideDelivery, vars, frameVars
  <2>4. SendReady'
    BY <1>1, <2>2 DEF StackInv, SendReady, Returned, CallOf, vars, frameVars
  <2> QED
    BY <1>3, <2>3, <2>4 DEF StackInv
<1> QED
  BY <1>5, <1>6 DEF ScanStep, Fifo!ScanDeliver

(* The delivery of an own packet is counted, and may start a group. *)
LEMMA CountDeliveryInv ==
  ASSUME StackInv, Layers', CountDelivery
  PROVE  StackInv'
<1>1. /\ UNCHANGED <<vars, fifoVars, handed>>
      /\ groupPC["listen"] = "count"
  BY DEF CountDelivery, Controller!CountDelivery
<1>2. PICK s \in {"idle", "loop"} : groupPC' = [groupPC EXCEPT !["listen"] = s]
  BY DEF CountDelivery, Controller!CountDelivery
<1>3. groupPC'["listen"] = s /\ groupPC'["main"] = groupPC["main"]
  BY <1>2, GroupType
<1>4. \A q \in Process : Passed(q)' = Passed(q)
  BY <1>1, NonePassed DEF vars, stateVars, StackInv, Layers
<1>5. ArrivedAreUpcalls' /\ ArrivedPassed' /\ InSequence' /\ HandedPassed'
  BY <1>1, <1>4, NothingNew DEF vars, fifoVars
<1>6. CallUnderWay' /\ InsideDelivery'
  BY <1>1 DEF StackInv, CallUnderWay, InsideDelivery, vars, fifoVars, frameVars
<1>7. SendReady'
  BY <1>1, <1>3 DEF StackInv, SendReady, Returned, CallOf, vars, frameVars
<1> QED
  BY <1>5, <1>6, <1>7 DEF StackInv

(* urbDeliver returns to the listener. *)
LEMMA UrbReturnInv ==
  ASSUME StackInv, Layers', NEW f \in Frame, UrbReturn(f)
  PROVE  StackInv'
<1>1. /\ UNCHANGED <<fifoVars, groupVars, forwarded, upcalls>>
      /\ origin = NoOrigin
      /\ pc' = [pc EXCEPT ![Self][f] = "idle"]
  BY DEF UrbReturn, Return, stateVars
<1>2. \A q \in Process : Passed(q)' = Passed(q)
  BY <1>1, NonePassed DEF StackInv, Layers
<1>3. ArrivedAreUpcalls' /\ ArrivedPassed' /\ InSequence' /\ HandedPassed'
  BY <1>1, <1>2, NothingNew DEF fifoVars, groupVars
<1>4. \A g \in Frame : pc[Self][g] = "idle" => pc'[Self][g] = "idle"
  BY <1>1, StackAssumption DEF StackInv, Layers, IInv, TypeOK
<1>5. "nested" \in Frame /\ "main" \in Frame
  BY DEF Frame
<1>6. CallUnderWay' /\ InsideDelivery'
  BY <1>1, <1>4, <1>5, StackAssumption
     DEF StackInv, CallUnderWay, InsideDelivery, fifoVars, groupVars
<1>7. SendReady'
  BY <1>1, <1>4, <1>5 DEF StackInv, SendReady, Returned, CallOf, groupVars
<1> QED
  BY <1>3, <1>6, <1>7 DEF StackInv

(* The parts that speak of frames. *)
LEMMA FramesKept ==
  ASSUME StackInv, UNCHANGED <<fifoVars, groupVars>>,
         \A f \in Frame : pc[Self][f] = "upper" =>
           pc'[Self][f] = "upper" /\ current'[Self][f] = current[Self][f],
         \A f \in Frame \ {"bebDeliver"} :
           pc[Self][f] = "idle" => pc'[Self][f] = "idle"
  PROVE  CallUnderWay' /\ InsideDelivery' /\ SendReady'
<1>1. {"bebDeliver", "nested", "main"} \subseteq Frame
  BY DEF Frame
<1>2. CallUnderWay'
  BY <1>1 DEF StackInv, CallUnderWay, fifoVars
<1>3. InsideDelivery'
  BY <1>1 DEF StackInv, InsideDelivery, fifoVars, groupVars
<1>4. SendReady'
  BY <1>1 DEF StackInv, SendReady, Returned, CallOf, groupVars
<1> QED
  BY <1>2, <1>3, <1>4

LEMMA UniformStepInv ==
  ASSUME StackInv, Layers', UniformStep
  PROVE  StackInv'
<1>1. /\ \A q \in Process : Passed(q)' = Passed(q)
      /\ UNCHANGED <<upcalls, fifoVars, groupVars>>
  BY UniformStepPasses DEF StackInv, Layers
<1>2. ArrivedAreUpcalls' /\ ArrivedPassed' /\ InSequence' /\ HandedPassed'
  BY <1>1, NothingNew DEF fifoVars, groupVars
<1>3. CallUnderWay' /\ InsideDelivery' /\ SendReady'
  BY <1>1, StackAssumption, UniformStepFrames, FramesKept DEF StackInv, Layers
<1> QED
  BY <1>2, <1>3 DEF StackInv

(* Another process broadcasts its next packet. *)
LEMMA NextPassed ==
  ASSUME StackInv, NEW p \in Process, NEW f \in Frame, NEW m \in Msg,
         ItsTurn(m), Broadcast(p, f, m), NEW k \in Nat, Passed(p) = 1 .. k
  PROVE  Payload[m] = k + 1 /\ Passed(p)' = 1 .. k + 1
<1>1. /\ Origin[m] = p /\ Payload[m] \notin 1 .. k
      /\ Passed(p)' = (1 .. k) \cup {Payload[m]}
  BY BroadcastPasses DEF StackInv, Layers
<1>2. Payload[m] \in Nat \ {0}
  BY StackAssumption
<1>3. ASSUME k + 1 < Payload[m]
      PROVE  FALSE
  <2>1. k + 1 \in 1 .. Payload[m] /\ k + 1 \notin 1 .. k
    BY <1>2, <1>3
  <2>2. PICK j \in Msg : Origin[j] = p /\ Payload[j] = k + 1
    BY <1>1, <2>1, StackAssumption
  <2>3. j \in forwarded[p]
    BY <1>1, <1>3, <2>2 DEF ItsTurn
  <2>4. k + 1 \in Passed(p)
    BY <2>2, <2>3 DEF Passed
  <2> QED
    BY <2>1, <2>4
<1>4. Payload[m] = k + 1
  BY <1>1, <1>2, <1>3
<1>5. (1 .. k) \cup {k + 1} = 1 .. k + 1
  OBVIOUS
<1> QED
  BY <1>1, <1>4, <1>5

LEMMA OtherProcessInv ==
  ASSUME StackInv, Layers', NEW p \in Process \ {Self}, NEW f \in Frame,
         OtherProcess(p, f)
  PROVE  StackInv'
<1>0. Self \in Process
  BY StackAssumption
<1>1. UNCHANGED <<fifoVars, groupVars>>
  BY DEF OtherProcess
<1>2. upcalls'[Self] = upcalls[Self]
  BY <1>0 DEF OtherProcess, Broadcast, Upcall, Return, StackInv, Layers, IInv,
              TypeOK
<1>3. CallUnderWay' /\ InsideDelivery' /\ SendReady'
  BY <1>0, <1>1, UniformStepFrames, FramesKept DEF StackInv, Layers
<1>4. ArrivedAreUpcalls'
  BY <1>1, <1>2 DEF StackInv, ArrivedAreUpcalls, fifoVars
<1>5. CASE Upcall(p, f) \/ Return(p, f)
  <2>1. UNCHANGED forwarded
    BY <1>5 DEF Upcall, Return, stateVars
  <2>2. \A q \in Process : Passed(q)' = Passed(q)
    BY <2>1, NonePassed DEF StackInv, Layers
  <2> QED
    BY <1>0, <1>1, <1>3, <1>4, <2>2
       DEF StackInv, ArrivedPassed, InSequence, HandedPassed, fifoVars,
           groupVars
<1>6. ASSUME NEW m \in Msg, ItsTurn(m), Broadcast(p, f, m)
      PROVE  StackInv'
  <2>1. PICK k \in Nat : Passed(p) = 1 .. k
    BY DEF StackInv, InSequence
  <2>2. Passed(p)' = 1 .. k + 1 /\ k + 1 \in Nat
    BY <1>6, <2>1, NextPassed
  <2>3. \A q \in Process \ {p} : Passed(q)' = Passed(q)
    BY <1>6, BroadcastPasses DEF StackInv, Layers
  <2>4. Passed(p) \subseteq Passed(p)'
    BY <2>1, <2>2
  <2>5. ArrivedPassed'
    BY <1>1, <2>3, <2>4 DEF StackInv, ArrivedPassed, fifoVars
  <2>6. InSequence'
    BY <2>2, <2>3 DEF StackInv, InSequence
  <2>7. HandedPassed'
    BY <1>0, <1>1, <2>3 DEF StackInv, HandedPassed, groupVars
  <2> QED
    BY <1>3, <1>4, <2>5, <2>6, <2>7 DEF StackInv
<1> QED
  BY <1>5, <1>6 DEF OtherProcess

LEMMA NextStackInv == StackInv /\ [StackNext]_stackVars => StackInv'
<1> SUFFICES ASSUME StackInv, [StackNext]_stackVars
             PROVE  StackInv'
  OBVIOUS
<1>1. Layers'
  BY LayersStep DEF StackInv
<1>2. CASE UNCHANGED stackVars
  <2>1. UNCHANGED <<vars, fifoVars, groupVars>>
    BY <1>2 DEF stackVars
  <2>2. \A q \in Process : Passed(q)' = Passed(q)
    BY <2>1 DEF Passed, vars, stateVars
  <2>3. ArrivedAreUpcalls' /\ ArrivedPassed' /\ InSequence' /\ HandedPassed'
    BY <1>1, <2>1, <2>2, NothingNew DEF vars, fifoVars, groupVars
  <2>4. CallUnderWay' /\ InsideDelivery' /\ SendReady'
    BY <2>1, FramesKept DEF vars, frameVars
  <2> QED
    BY <1>1, <2>3, <2>4 DEF StackInv
<1>3. CASE StackNext
  <2>1. ASSUME NEW t \in {"main", "listen"}, GroupStep(t)
        PROVE  StackInv'
    BY <1>1, <2>1, GroupStepInv
  <2>2. ASSUME NEW t \in {"main", "listen"}, FifoBroadcast(t)
        PROVE  StackInv'
    BY <1>1, <2>2, FifoBroadcastInv
  <2>3. ASSUME NEW f \in Frame, UrbDeliver(f)
        PROVE  StackInv'
    BY <1>1, <2>3, UrbDeliverInv
  <2>4. ASSUME NEW f \in Frame, UrbReturn(f)
        PROVE  StackInv'
    BY <1>1, <2>4, UrbReturnInv
  <2>5. ASSUME NEW p \in Process \ {Self}, NEW f \in Frame, OtherProcess(p, f)
        PROVE  StackInv'
    BY <1>1, <2>5, OtherProcessInv
  <2> QED
    BY <1>1, <1>3, <2>1, <2>2, <2>3, <2>4, <2>5, ScanStepInv,
       CountDeliveryInv, UniformStepInv DEF StackNext
<1> QED
  BY <1>2, <1>3

LEMMA StackInvariance == StackSpec => []StackInv
  BY InitStackInv, NextStackInv, PTL DEF StackSpec

-----------------------------------------------------------------------------
(* Put together, the layers still keep their invariants: each module was     *)
(* right about what its neighbours do.  UniformBroadcast leaves no message   *)
(* behind and calls back on the listener only; FIFOBroadcast holds nothing   *)
(* back without a reason; FIFOController starts a group only when the last   *)
(* one has been delivered and the other thread is not in one, and numbers the *)
(* messages in order.                                                        *)
THEOREM LayersHold ==
  StackSpec => [](/\ NoMissedDelivery /\ OnlyListenerDelivers /\ UniformMajority
                  /\ F!NoneHeldBack
                  /\ C!Paced /\ C!NumberedInOrder /\ C!SignalledAtEnd
                  /\ C!OneGroupAtATime)
<1>1. ASSUME StackInv
      PROVE  /\ NoMissedDelivery /\ OnlyListenerDelivers /\ UniformMajority
             /\ F!NoneHeldBack
             /\ C!Paced /\ C!NumberedInOrder /\ C!SignalledAtEnd
             /\ C!OneGroupAtATime
  <2>1. NoMissedDelivery /\ OnlyListenerDelivers /\ UniformMajority
    BY <1>1 DEF StackInv, Layers, IInv
  <2>2. F!NoneHeldBack
    BY <1>1, LayerAssumptions, F!NoneHeldBackHolds DEF StackInv, Layers
  <2>3. C!Paced
    BY <1>1, LayerAssumptions, C!PacedHolds DEF StackInv, Layers
  <2>4. C!NumberedInOrder /\ C!SignalledAtEnd
    BY <1>1 DEF StackInv, Layers, C!IInv
  <2>5. C!OneGroupAtATime
    BY <1>1 DEF StackInv, Layers, C!IInv, C!MainFirst, C!Active, C!Thread,
       C!OneGroupAtATime
  <2> QED
    BY <2>1, <2>2, <2>3, <2>4, <2>5
<1> QED
  BY <1>1, StackInvariance, PTL

(* In the stack, too, urbDeliver is called at most once per message at every *)
(* process, and only for a message that its origin has broadcast.            *)
THEOREM DeliversOnce == StackSpec => NoDuplication
<1> DEFINE Fresh ==
      \A p \in Process : \A f \in Frame :
        pc[p][f] = "upcall" /\ pc'[p][f] = "upper"
          => /\ current[p][f] \notin upcalls[p]
             /\ current[p][f] \in forwarded[Origin[current[p][f]]]
<1>1. StackInv => Fresh
  BY DEF StackInv, Layers, IInv, UpcallsAreDelivered, FramesHoldForwarded,
     OriginFirst
<1>2. StackInv /\ [StackNext]_stackVars => [Fresh]_vars
  BY <1>1
<1> QED
  BY <1>2, StackInvariance, PTL DEF StackSpec, NoDuplication

(* Every call finds the layer that is called ready for it. *)
THEOREM CallsAreReady == StackSpec => []CallsFit
<1>1. StackInv => CallsFit
  <2> SUFFICES ASSUME StackInv
               PROVE  CallsFit
    OBVIOUS
  <2>0. Self \in Process
    BY StackAssumption
  <2>1. ASSUME NEW f \in Frame, pc[Self][f] = "upcall"
        PROVE  LET m == current[Self][f]
               IN  origin = NoOrigin /\ Payload[m] \notin arrived[Origin[m]]
    <3>1. f = "bebDeliver"
      BY <2>0, <2>1 DEF StackInv, Layers, IInv, OnlyListenerDelivers
    <3>2. origin = NoOrigin
      BY <2>1, <3>1 DEF StackInv, CallUnderWay
    <3>3. current[Self][f] \in Msg \ upcalls[Self]
      BY <2>0, <2>1 DEF StackInv, Layers, IInv, TypeOK, UpcallsAreDelivered
    <3> QED
      BY <3>2, <3>3 DEF StackInv, ArrivedAreUpcalls
  <2>2. ASSUME origin = Self, Fifo!Scanning,
               Fifo!MyTurn(pendingSorted[Self][index])
        PROVE  Len(fifoDelivered[Self]) < handed
    <3> DEFINE n == pendingSorted[Self][index]
               l == Len(fifoDelivered[Self])
    <3>1. F!IInv /\ F!Scanning
      BY <2>2, SameFifo DEF StackInv, Layers
    <3>2. /\ index \in 1 .. Len(pendingSorted[Self])
          /\ n \in 1 .. K /\ seqNb = nextToDeliver[Self]
      BY <2>2, <3>1, LayerAssumptions, F!ScanFacts
    <3>3. n \in arrived[Self]
      BY <2>0, <3>1, <3>2 DEF F!IInv, F!Listed, F!Holds
    <3>4. n = l + 1
      BY <2>0, <2>2, <3>1, <3>2 DEF Fifo!MyTurn, F!IInv, F!InTurn
    <3>5. n \in 1 .. handed
      BY <2>0, <3>3 DEF StackInv, ArrivedPassed, HandedPassed
    <3>6. l \in Nat /\ handed \in Nat
      BY <2>0, <3>1, GroupType DEF F!IInv, F!TypeOK
    <3> HIDE DEF n, l
    <3>7. l < handed
      BY <3>4, <3>5, <3>6
    <3> QED
      BY <3>7 DEF l
  <2>3. ASSUME NEW t \in {"main", "listen"}, groupPC[t] = "send"
        PROVE  /\ Returned(t) /\ MayBroadcast(Self, CallOf(t))
               /\ \E m \in Msg \ forwarded[Self] :
                    Origin[m] = Self /\ Payload[m] = turn[t]
    <3>1. Returned(t)
      BY <2>3 DEF StackInv, SendReady
    <3>2. MayBroadcast(Self, CallOf(t))
      <4>1. CASE t = "main"
        BY <4>1 DEF MayBroadcast, CallOf
      <4>2. CASE t = "listen"
        <5>1. origin = Self
          BY <2>3, <4>2 DEF StackInv, InsideDelivery
        <5>2. origin # NoOrigin
          BY <2>0, <5>1, LayerAssumptions
        <5> QED
          BY <4>2, <5>1, <5>2 DEF MayBroadcast, CallOf, StackInv, CallUnderWay
      <4> QED
        BY <4>1, <4>2
    <3>3. /\ turn[t] = handed + 1 /\ turn[t] <= maxPackets
          /\ maxPackets \in Workloads /\ handed \in Nat
      BY <2>3, GroupType DEF StackInv, Layers, C!IInv, C!DuringGroup, C!Active,
         C!Thread, C!InGroup, C!TypeOK
    <3>4. turn[t] \in 1 .. maxPackets /\ turn[t] \notin 1 .. handed
      BY <3>3, LoadAssumption
    <3>5. PICK m \in Msg : Origin[m] = Self /\ Payload[m] = turn[t]
      BY <3>3, <3>4, LoadAssumption
    <3>6. m \notin forwarded[Self]
      BY <2>0, <3>4, <3>5, PassedFacts
         DEF StackInv, HandedPassed, Layers, IInv
    <3> QED
      BY <3>1, <3>2, <3>5, <3>6
  <2> QED
    BY <2>1, <2>2, <2>3 DEF CallsFit
<1> QED
  BY <1>1, StackInvariance, PTL

-----------------------------------------------------------------------------
(* The refinement.  The packets of a process as FIFO broadcast sees them, ... *)
Sent == [q \in Process |-> [n \in Passed(q) |-> n]]

(* ... and how many of them Self has delivered. *)
Turns ==
  [p \in {Self} |-> [q \in Process |-> Len(fifoDelivered[q]) + 1]]

LEMMA PromiseVars == Promise!fifoVars = <<Sent, Turns>>
  BY DEF Promise!fifoVars, Sent, Turns

(* One packet more is appended. *)
LEMMA OneMore ==
  ASSUME NEW k \in Nat
  PROVE  /\ [n \in 1 .. k |-> n] \in Seq(Nat)
         /\ Len([n \in 1 .. k |-> n]) = k
         /\ [n \in 1 .. k + 1 |-> n] = Append([n \in 1 .. k |-> n], k + 1)
<1> DEFINE s == [n \in 1 .. k |-> n]
           t == [n \in 1 .. k + 1 |-> n]
<1>1. s \in Seq(Nat) /\ Len(s) = k
  OBVIOUS
<1>2. t \in Seq(Nat) /\ Len(t) = k + 1
  OBVIOUS
<1>3. /\ Append(s, k + 1) \in Seq(Nat) /\ Len(Append(s, k + 1)) = k + 1
      /\ \A n \in 1 .. k : Append(s, k + 1)[n] = n
      /\ Append(s, k + 1)[k + 1] = k + 1
  BY <1>1, AppendProperties
<1>4. \A n \in 1 .. k + 1 : t[n] = Append(s, k + 1)[n]
  <2>1. \A n \in 1 .. k + 1 : n \in 1 .. k \/ n = k + 1
    OBVIOUS
  <2> QED
    BY <1>3, <2>1
<1>5. t = Append(s, k + 1)
  BY <1>2, <1>3, <1>4, SeqEqual
<1> QED
  BY <1>1, <1>5

(* A packet is passed to broadcast(). *)
LEMMA PassedIsBroadcast ==
  ASSUME StackInv, NEW p \in Process, NEW k \in Nat, Passed(p) = 1 .. k,
         Passed(p)' = 1 .. k + 1, k + 1 \in 1 .. K,
         \A q \in Process \ {p} : Passed(q)' = Passed(q),
         UNCHANGED fifoDelivered
  PROVE  Promise!Next
<1>1. Sent' = [Sent EXCEPT ![p] = Append(@, k + 1)]
  <2>1. /\ Sent[p] = [n \in 1 .. k |-> n]
        /\ Sent'[p] = [n \in 1 .. k + 1 |-> n]
    BY DEF Sent
  <2>2. Sent'[p] = Append(Sent[p], k + 1)
    BY <2>1, OneMore
  <2>3. \A q \in Process \ {p} : Sent'[q] = Sent[q]
    BY DEF Sent
  <2>4. /\ Sent = [q \in Process |-> Sent[q]]
        /\ Sent' = [q \in Process |-> Sent'[q]]
    BY DEF Sent
  <2> HIDE DEF Sent
  <2> QED
    BY <2>2, <2>3, <2>4
<1>2. Turns' = Turns
  BY DEF Turns
<1>3. Promise!Broadcast(p, k + 1)
  BY <1>1, <1>2 DEF Promise!Broadcast, Sent, Turns
<1> QED
  BY <1>3 DEF Promise!Next

(* A turn of the scan that delivers. *)
LEMMA ScanIsDeliver ==
  ASSUME StackInv, Fifo!ScanDeliver, UNCHANGED forwarded
  PROVE  Promise!Next
<1> DEFINE n == pendingSorted[origin][index]
           l == Len(fifoDelivered[origin])
<1>1. F!IInv /\ F!ScanDeliver /\ F!Scanning /\ n = seqNb
  BY SameFifo DEF StackInv, Layers, F!ScanDeliver, F!MyTurn
<1>2. /\ origin \in Process /\ index \in 1 .. Len(pendingSorted[origin])
      /\ n \in 1 .. K /\ seqNb = nextToDeliver[origin]
  BY <1>1, LayerAssumptions, F!ScanFacts
<1>3. /\ fifoDelivered' = [fifoDelivered EXCEPT ![origin] = Append(@, n)]
      /\ fifoDelivered \in [Process -> Seq(1 .. K)]
  BY <1>1 DEF F!ScanDeliver, F!IInv, F!TypeOK
<1>4. n \in arrived[origin] /\ n = l + 1
  BY <1>1, <1>2 DEF F!IInv, F!Listed, F!Holds, F!InTurn
<1>5. PICK k \in Nat : Passed(origin) = 1 .. k
  BY <1>2 DEF StackInv, InSequence
<1>6. n \in 1 .. k
  BY <1>2, <1>4, <1>5 DEF StackInv, ArrivedPassed
<1>7. /\ Sent[origin] = [j \in 1 .. k |-> j] /\ Len(Sent[origin]) = k
      /\ Turns[Self][origin] = l + 1
  <2>1. Sent[origin] = [j \in 1 .. k |-> j]
    BY <1>2, <1>5 DEF Sent
  <2> QED
    BY <1>2, <2>1, OneMore DEF Turns
<1>8. l \in Nat /\ Turns[Self][origin] <= Len(Sent[origin])
  <2>1. l \in Nat
    BY <1>2, <1>3
  <2> QED
    BY <1>4, <1>6, <1>7, <2>1
<1>9. Sent' = Sent
  BY DEF Sent, Passed
<1>10. Turns' = [Turns EXCEPT ![Self][origin] = @ + 1]
  <2>1. Len(fifoDelivered'[origin]) = l + 1
    BY <1>2, <1>3
  <2>2. \A q \in Process \ {origin} : fifoDelivered'[q] = fifoDelivered[q]
    BY <1>2, <1>3
  <2>3. \A q \in Process :
          Len(fifoDelivered'[q]) + 1 =
            IF q = origin THEN (l + 1) + 1 ELSE Len(fifoDelivered[q]) + 1
    BY <2>1, <2>2
  <2> QED
    BY <1>2, <2>3 DEF Turns
<1>11. PICK o \in Process : o = origin
  BY <1>2
<1>12. Promise!Deliver(Self, o)
  BY <1>8, <1>9, <1>10, <1>11 DEF Promise!Deliver, Sent, Turns
<1> QED
  BY <1>12 DEF Promise!Next

LEMMA NextPromise ==
  StackInv /\ [StackNext]_stackVars => [Promise!Next]_(Promise!fifoVars)
<1> SUFFICES ASSUME StackInv, [StackNext]_stackVars
             PROVE  [Promise!Next]_(Promise!fifoVars)
  OBVIOUS
<1>0. Self \in Process
  BY StackAssumption
<1>1. ASSUME UNCHANGED fifoDelivered, \A q \in Process : Passed(q)' = Passed(q)
      PROVE  UNCHANGED Promise!fifoVars
  BY <1>1, PromiseVars DEF Sent, Turns, Promise!fifoVars
<1>2. ASSUME UNCHANGED <<forwarded, fifoDelivered>>
      PROVE  UNCHANGED Promise!fifoVars
  BY <1>1, <1>2 DEF Passed
<1>3. ASSUME NEW t \in {"main", "listen"}, GroupStep(t)
      PROVE  UNCHANGED Promise!fifoVars
  BY <1>2, <1>3 DEF GroupStep, vars, stateVars, fifoVars
<1>4. ASSUME NEW t \in {"main", "listen"}, FifoBroadcast(t)
      PROVE  Promise!Next
  <2>1. PICK m \in Msg : Payload[m] = turn[t] /\ Broadcast(Self, CallOf(t), m)
    BY <1>4 DEF FifoBroadcast
  <2>2. /\ groupPC[t] = "send" /\ handed' = handed + 1 /\ UNCHANGED fifoVars
    BY <1>4 DEF FifoBroadcast, Controller!FifoBroadcast
  <2>3. StackInv'
    BY NextStackInv
  <2>4. Passed(Self) = 1 .. handed /\ Passed(Self)' = 1 .. handed + 1
    BY <1>0, <2>2, <2>3 DEF StackInv, HandedPassed
  <2>5. CallOf(t) \in Frame
    BY DEF CallOf, Frame
  <2>6. /\ Passed(Self)' = Passed(Self) \cup {Payload[m]}
        /\ \A q \in Process \ {Self} : Passed(q)' = Passed(q)
    BY <1>0, <2>1, <2>5, BroadcastPasses DEF StackInv, Layers
  <2>7. handed \in Nat /\ Payload[m] \in 1 .. K
    BY GroupType, StackAssumption
  <2>8. handed + 1 \in 1 .. K
    BY <2>4, <2>6, <2>7
  <2> QED
    BY <1>0, <2>2, <2>4, <2>6, <2>7, <2>8, PassedIsBroadcast DEF fifoVars
<1>5. ASSUME NEW f \in Frame, UrbDeliver(f) \/ UrbReturn(f)
      PROVE  UNCHANGED Promise!fifoVars
  BY <1>2, <1>5 DEF UrbDeliver, Upcall, Fifo!urbDeliver, UrbReturn, Return,
                    stateVars, fifoVars
<1>6. CASE ScanStep
  <2>1. UNCHANGED forwarded
    BY <1>6 DEF ScanStep, vars, stateVars
  <2>2. CASE Fifo!ScanDeliver
    BY <2>1, <2>2, ScanIsDeliver
  <2>3. CASE Fifo!ScanSkip \/ Fifo!ScanEnd
    BY <1>2, <2>1, <2>3 DEF Fifo!ScanSkip, Fifo!ScanEnd
  <2> QED
    BY <1>6, <2>2, <2>3 DEF ScanStep
<1>7. CASE CountDelivery
  BY <1>2, <1>7 DEF CountDelivery, vars, stateVars, fifoVars
<1>8. CASE UniformStep
  BY <1>1, <1>8, UniformStepPasses DEF StackInv, Layers, fifoVars
<1>9. ASSUME NEW p \in Process \ {Self}, NEW f \in Frame, OtherProcess(p, f)
      PROVE  [Promise!Next]_(Promise!fifoVars)
  <2>1. UNCHANGED fifoDelivered
    BY <1>9 DEF OtherProcess, fifoVars
  <2>2. CASE Upcall(p, f) \/ Return(p, f)
    BY <1>2, <2>1, <2>2 DEF Upcall, Return, stateVars
  <2>3. ASSUME NEW m \in Msg, ItsTurn(m), Broadcast(p, f, m)
        PROVE  Promise!Next
    <3>1. PICK k \in Nat : Passed(p) = 1 .. k
      BY DEF StackInv, InSequence
    <3>2. Payload[m] = k + 1 /\ Passed(p)' = 1 .. k + 1
      BY <2>3, <3>1, NextPassed
    <3>3. k + 1 \in 1 .. K
      BY <3>2, StackAssumption
    <3>4. \A q \in Process \ {p} : Passed(q)' = Passed(q)
      BY <2>3, BroadcastPasses DEF StackInv, Layers
    <3> QED
      BY <2>1, <3>1, <3>2, <3>3, <3>4, PassedIsBroadcast
  <2> QED
    BY <1>9, <2>2, <2>3 DEF OtherProcess
<1>10. CASE UNCHANGED stackVars
  BY <1>2, <1>10 DEF stackVars, vars, stateVars, fifoVars
<1> QED
  BY <1>3, <1>4, <1>5, <1>6, <1>7, <1>8, <1>9, <1>10 DEF StackNext

(* The three layers implement FIFO broadcast. *)
THEOREM StackIsFIFO == StackSpec => ImplementsFIFO
<1>1. StackInit => Promise!Init
  <2> SUFFICES ASSUME StackInit
               PROVE  Promise!Init
    OBVIOUS
  <2>1. \A q \in Process : forwarded[q] = {} /\ fifoDelivered[q] = <<>>
    BY DEF StackInit, Init, Fifo!Init
  <2>2. \A q \in Process : Passed(q) = {} /\ Len(fifoDelivered[q]) + 1 = 1
    BY <2>1 DEF Passed
  <2>3. [n \in {} |-> n] = <<>>
    OBVIOUS
  <2> QED
    BY <2>2, <2>3 DEF Promise!Init
<1>2. ASSUME StackInv, NEW q \in Process
      PROVE  fifoDelivered[q] = Promise!Delivered(Self, q)
  <2> DEFINE d == fifoDelivered[q]
             s == [n \in Passed(q) |-> n]
  <2>1. d \in Seq(1 .. K) /\ Len(d) \in Nat
    BY <1>2 DEF StackInv, Layers, F!IInv, F!TypeOK
  <2>2. \A n \in 1 .. Len(d) : d[n] = n /\ n \in Passed(q)
    BY <1>2 DEF StackInv, Layers, F!IInv, F!InTurn, ArrivedPassed
  <2>3. PICK k \in Nat : Passed(q) = 1 .. k
    BY <1>2 DEF StackInv, InSequence
  <2>4. s \in Seq(Nat) /\ Len(s) = k /\ \A n \in 1 .. k : s[n] = n
    BY <2>3, OneMore
  <2>5. Promise!Delivered(Self, q) = SubSeq(s, 1, Len(d))
    <3>1. Len(d) + 1 - 1 = Len(d)
      BY <2>1
    <3> QED
      BY <1>2, <3>1 DEF Promise!Delivered
  <2> HIDE DEF d, s
  <2>6. Len(d) <= k
    BY <2>1, <2>2, <2>3
  <2>7. \A n \in 1 .. Len(d) : s[n] = n /\ s[n] \in Nat
    BY <2>1, <2>4, <2>6
  <2>8. /\ SubSeq(s, 1, Len(d)) \in Seq(Nat)
        /\ Len(SubSeq(s, 1, Len(d))) = Len(d)
        /\ \A n \in 1 .. Len(d) : SubSeq(s, 1, Len(d))[n] = n
    BY <2>1, <2>4, <2>6, <2>7, SubSeqProperties
  <2>9. d \in Seq(Nat)
    BY <2>1, <2>2
  <2>10. d = SubSeq(s, 1, Len(d))
    BY <2>2, <2>8, <2>9, SeqEqual
  <2> QED
    BY <2>5, <2>10 DEF d
<1>3. StackInv => \A q \in Process :
        fifoDelivered[q] = Promise!Delivered(Self, q)
  BY <1>2
<1> QED
  BY <1>1, <1>3, NextPromise, StackInvariance, PTL
     DEF StackSpec, ImplementsFIFO, Promise!Spec

=============================================================================
