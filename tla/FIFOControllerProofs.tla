------------------------- MODULE FIFOControllerProofs -------------------------
(***************************************************************************)
(* Proofs about FIFOController, for every group size and every workload.     *)
(* The inductive invariant says what counter means: while a group is under   *)
(* way it is the payload the group began with, and everything before it has  *)
(* been delivered; between groups it is the payload of the next one.         *)
(***************************************************************************)
EXTENDS FIFOController, TLAPS

Active(t) == pc[t] \in {"loop", "send", "add"}

(* main() runs its group once; the listener waits for it, as the first group *)
(* is counted against counter = 1.                                           *)
MainFirst ==
  /\ pc["main"] \in {"loop", "send", "add", "done"}
  /\ pc["listen"] \in {"loop", "send", "add", "idle", "count"}
  /\ Active("main") => counter = 1 /\ ~Active("listen")

(* A delivery is counted right after it has been made. *)
Counted ==
  /\ nLocalDeliveries = IF pc["listen"] = "count" THEN delivered
                                                 ELSE delivered + 1
  /\ delivered <= handed

DuringGroup ==
  \A t \in Thread : Active(t) =>
    /\ i[t] = handed + 1
    /\ counter <= i[t] /\ i[t] <= counter + nPacketsPerBroadcast
    /\ counter <= delivered + 1
    /\ pc[t] = "send" => InGroup(t)
    /\ pc[t] = "add" => ~InGroup(t)
    /\ Len(broadcasts) = IF pc[t] = "send" THEN handed + 1 ELSE handed

BetweenGroups ==
  (\A t \in Thread : ~Active(t)) =>
    /\ Len(broadcasts) = handed
    /\ handed < counter
    /\ handed = maxPackets \/ handed = counter - 1
    /\ counter <= delivered + 1 + nPacketsPerBroadcast

FinishedWhenCounted == finished = 1 => nLocalDeliveries = maxPackets + 1

IInv ==
  /\ TypeOK
  /\ MainFirst
  /\ Counted
  /\ DuringGroup
  /\ BetweenGroups
  /\ NumberedInOrder
  /\ SignalledAtEnd
  /\ FinishedWhenCounted

-----------------------------------------------------------------------------
(* The initial states satisfy the invariant. *)
LEMMA InitIInv == Init => IInv
<1> SUFFICES ASSUME Init
             PROVE  IInv
  OBVIOUS
<1> USE GroupAssumption, WorkloadAssumption DEF Init, Thread
<1>1. TypeOK
  BY DEF TypeOK
<1>2. MainFirst /\ Counted /\ BetweenGroups
  BY DEF MainFirst, Active, Counted, BetweenGroups
<1>3. DuringGroup
  BY DEF DuringGroup, Active
<1>4. NumberedInOrder /\ SignalledAtEnd /\ FinishedWhenCounted
  BY DEF NumberedInOrder, SignalledAtEnd, FinishedWhenCounted
<1> QED
  BY <1>1, <1>2, <1>3, <1>4 DEF IInv

(* Facts about numbers that every step uses. *)
LEMMA Numbers ==
  ASSUME TypeOK
  PROVE  /\ maxPackets \in Nat /\ counter \in Nat /\ nLocalDeliveries \in Nat
         /\ handed \in Nat /\ delivered \in Nat /\ finished \in Nat
         /\ Len(broadcasts) \in Nat
         /\ \A t \in Thread : i[t] \in Nat
         /\ nPacketsPerBroadcast \in Nat /\ nPacketsPerBroadcast > 0
  BY GroupAssumption, WorkloadAssumption DEF TypeOK

(* A message is logged: it is the next one. *)
LEMMA LogBroadcastStep ==
  ASSUME IInv, NEW t \in Thread, LogBroadcast(t)
  PROVE  IInv'
<1> USE Numbers DEF IInv, LogBroadcast
<1>1. /\ i[t] = Len(broadcasts) + 1 /\ i[t] <= maxPackets
      /\ Active(t) /\ \A u \in Thread : u # t => ~Active(u)
  BY DEF DuringGroup, InGroup, MainFirst, Active, Thread
<1>2. /\ broadcasts' \in Seq(1 .. maxPackets)
      /\ Len(broadcasts') = Len(broadcasts) + 1
      /\ \A k \in DOMAIN broadcasts' :
           broadcasts'[k] = IF k = i[t] THEN i[t] ELSE broadcasts[k]
  BY <1>1 DEF TypeOK
<1>3. TypeOK' /\ MainFirst'
  BY <1>2 DEF TypeOK, MainFirst, Active, Thread
<1>4. Counted'
  BY DEF Counted, TypeOK, Thread
<1>5. DuringGroup'
  BY <1>1, <1>2 DEF DuringGroup, Active, InGroup, TypeOK, Thread
<1>6. BetweenGroups'
  BY DEF BetweenGroups, Active, TypeOK
<1>7. NumberedInOrder'
  BY <1>1, <1>2 DEF NumberedInOrder, TypeOK
<1>8. SignalledAtEnd' /\ FinishedWhenCounted'
  BY <1>1 DEF SignalledAtEnd, FinishedWhenCounted
<1> QED
  BY <1>3, <1>4, <1>5, <1>6, <1>7, <1>8

(* It is handed to FIFOBroadcast. *)
LEMMA FifoBroadcastStep ==
  ASSUME IInv, NEW t \in Thread, FifoBroadcast(t)
  PROVE  IInv'
<1> USE Numbers DEF IInv, FifoBroadcast
<1>1. /\ i[t] = handed + 1 /\ InGroup(t) /\ Len(broadcasts) = handed + 1
      /\ Active(t) /\ \A u \in Thread : u # t => ~Active(u)
  BY DEF DuringGroup, MainFirst, Active, Thread
<1>2. TypeOK' /\ MainFirst'
  BY <1>1, SMTT(20) DEF TypeOK, MainFirst, Active, Thread, InGroup
<1>3. Counted'
  BY DEF Counted, TypeOK, Thread
<1>4. DuringGroup'
  BY <1>1, SMTT(20) DEF DuringGroup, Active, InGroup, TypeOK, Thread
<1>5. BetweenGroups'
  BY DEF BetweenGroups, Active, TypeOK
<1>6. NumberedInOrder' /\ SignalledAtEnd' /\ FinishedWhenCounted'
  BY DEF NumberedInOrder, SignalledAtEnd, FinishedWhenCounted
<1> QED
  BY <1>2, <1>3, <1>4, <1>5, <1>6

LEMMA LeaveLoopStep ==
  ASSUME IInv, NEW t \in Thread, LeaveLoop(t)
  PROVE  IInv'
<1> USE Numbers DEF IInv, LeaveLoop
<1>1. TypeOK' /\ MainFirst'
  BY DEF TypeOK, MainFirst, Active, Thread
<1>2. Counted'
  BY DEF Counted, TypeOK, Thread
<1>3. DuringGroup'
  BY DEF DuringGroup, Active, InGroup, TypeOK, Thread
<1>4. BetweenGroups'
  BY DEF BetweenGroups, Active, TypeOK
<1>5. NumberedInOrder' /\ SignalledAtEnd' /\ FinishedWhenCounted'
  BY DEF NumberedInOrder, SignalledAtEnd, FinishedWhenCounted
<1> QED
  BY <1>1, <1>2, <1>3, <1>4, <1>5

(* The group ends at its size or at the end of the workload. *)
LEMMA AddToCounterStep ==
  ASSUME IInv, NEW t \in Thread, AddToCounter(t)
  PROVE  IInv'
<1> USE Numbers DEF IInv, AddToCounter
<1>1. /\ i[t] = handed + 1 /\ ~InGroup(t) /\ Len(broadcasts) = handed
      /\ counter <= i[t] /\ i[t] <= counter + nPacketsPerBroadcast
      /\ counter <= delivered + 1
      /\ Active(t) /\ \A u \in Thread : u # t => ~Active(u)
  BY DEF DuringGroup, MainFirst, Active, Thread
<1>2. handed <= maxPackets
  BY DEF TypeOK
<1>3. TypeOK' /\ MainFirst'
  BY DEF TypeOK, MainFirst, Active, Thread
<1>4. Counted'
  BY DEF Counted, TypeOK, Thread
<1>5. \A u \in Thread : ~Active(u)'
  BY <1>1 DEF Active, TypeOK, Thread
<1>6. DuringGroup'
  BY <1>5 DEF DuringGroup
<1>7. BetweenGroups'
  <2>1. handed = maxPackets \/ handed = counter' - 1
    BY <1>1, <1>2, SMTT(20) DEF InGroup
  <2> QED
    BY <1>1, <2>1 DEF BetweenGroups
<1>8. NumberedInOrder' /\ SignalledAtEnd' /\ FinishedWhenCounted'
  BY DEF NumberedInOrder, SignalledAtEnd, FinishedWhenCounted
<1> QED
  BY <1>3, <1>4, <1>6, <1>7, <1>8

LEMMA DeliverOwnStep ==
  ASSUME IInv, DeliverOwn
  PROVE  IInv'
<1> USE Numbers DEF IInv, DeliverOwn
<1>1. TypeOK' /\ MainFirst'
  BY DEF TypeOK, MainFirst, Active, Thread
<1>2. Counted'
  BY DEF Counted, TypeOK, Thread
<1>3. DuringGroup'
  BY DEF DuringGroup, Active, InGroup, TypeOK, Thread
<1>4. BetweenGroups'
  BY SMTT(20) DEF BetweenGroups, Active, TypeOK, Thread
<1>5. finished # 1
  BY DEF SignalledAtEnd, TypeOK
<1>6. NumberedInOrder' /\ SignalledAtEnd' /\ FinishedWhenCounted'
  BY <1>5 DEF NumberedInOrder, SignalledAtEnd, FinishedWhenCounted
<1> QED
  BY <1>1, <1>2, <1>3, <1>4, <1>6

(* The count reaches counter only when the previous group has been delivered *)
(* and main() has left its own; it reaches the end once.                     *)
LEMMA CountDeliveryStep ==
  ASSUME IInv, CountDelivery
  PROVE  IInv'
<1> USE Numbers DEF IInv, CountDelivery
<1>1. /\ nLocalDeliveries = delivered /\ nLocalDeliveries' = delivered + 1
      /\ nLocalDeliveries >= 1 /\ delivered <= handed
      /\ handed <= Len(broadcasts) /\ Len(broadcasts) <= maxPackets
  <2>1. handed <= Len(broadcasts)
    BY DEF DuringGroup, BetweenGroups, TypeOK
  <2> QED
    BY <2>1 DEF Counted, NumberedInOrder, TypeOK
<1>2. finished = 0
  BY <1>1 DEF SignalledAtEnd, FinishedWhenCounted
<1>3. /\ UNCHANGED <<maxPackets, counter, broadcasts, handed, delivered>>
      /\ ~Active("listen")
  BY DEF Active
<1>4. CASE AllCounted(nLocalDeliveries')
  <2>1. /\ delivered = maxPackets /\ Len(broadcasts) = maxPackets
        /\ finished' = 1 /\ i' = i
        /\ pc' = [pc EXCEPT !["listen"] = "idle"]
    BY <1>1, <1>2, <1>4 DEF AllCounted
  <2>2. TypeOK' /\ MainFirst' /\ Counted'
    BY <1>1, <2>1 DEF TypeOK, MainFirst, Active, Thread, Counted
  <2>3. DuringGroup' /\ BetweenGroups'
    BY <2>1 DEF DuringGroup, BetweenGroups, Active, InGroup, TypeOK, Thread
  <2>4. NumberedInOrder' /\ SignalledAtEnd' /\ FinishedWhenCounted'
    BY <1>1, <2>1 DEF NumberedInOrder, SignalledAtEnd, FinishedWhenCounted
  <2> QED
    BY <2>2, <2>3, <2>4
<1>5. CASE ~AllCounted(nLocalDeliveries') /\ GroupCounted(nLocalDeliveries')
  <2>1. /\ counter = delivered + 1 /\ delivered # maxPackets
        /\ finished' = finished
        /\ i' = [i EXCEPT !["listen"] = counter]
        /\ pc' = [pc EXCEPT !["listen"] = "loop"]
    BY <1>1, <1>5 DEF AllCounted, GroupCounted
  <2>2. counter # 1
    BY <1>1, <2>1
  <2>3. ~Active("main")
    BY <2>2 DEF MainFirst
  <2>4. handed = counter - 1 /\ Len(broadcasts) = handed
    BY <1>1, <1>3, <2>1, <2>3 DEF BetweenGroups, Thread
  <2>5. TypeOK' /\ MainFirst' /\ Counted'
    BY <1>1, <2>1, <2>3, <2>4 DEF TypeOK, MainFirst, Active, Thread, Counted
  <2>6. DuringGroup'
    BY <1>1, <2>1, <2>3, <2>4 DEF DuringGroup, Active, InGroup, TypeOK, Thread
  <2>7. BetweenGroups'
    BY <2>1 DEF BetweenGroups, Active, TypeOK, Thread
  <2>8. NumberedInOrder' /\ SignalledAtEnd' /\ FinishedWhenCounted'
    BY <1>2, <2>1 DEF NumberedInOrder, SignalledAtEnd, FinishedWhenCounted
  <2> QED
    BY <2>5, <2>6, <2>7, <2>8
<1>6. CASE ~AllCounted(nLocalDeliveries') /\ ~GroupCounted(nLocalDeliveries')
  <2>1. /\ delivered # maxPackets /\ finished' = finished /\ i' = i
        /\ pc' = [pc EXCEPT !["listen"] = "idle"]
    BY <1>1, <1>6 DEF AllCounted
  <2>2. TypeOK' /\ MainFirst' /\ Counted'
    BY <1>1, <2>1 DEF TypeOK, MainFirst, Active, Thread, Counted
  <2>3. DuringGroup' /\ BetweenGroups'
    BY <2>1 DEF DuringGroup, BetweenGroups, Active, InGroup, TypeOK, Thread
  <2>4. NumberedInOrder' /\ SignalledAtEnd' /\ FinishedWhenCounted'
    BY <1>2, <2>1 DEF NumberedInOrder, SignalledAtEnd, FinishedWhenCounted
  <2> QED
    BY <2>2, <2>3, <2>4
<1> QED
  BY <1>4, <1>5, <1>6

(* A step that changes nothing. *)
LEMMA StutterStep ==
  ASSUME IInv, UNCHANGED vars
  PROVE  IInv'
  BY DEF IInv, vars, TypeOK, MainFirst, Active, Counted, DuringGroup, InGroup,
         BetweenGroups, NumberedInOrder, SignalledAtEnd, FinishedWhenCounted

LEMMA NextIInv ==
  ASSUME IInv, [Next]_vars
  PROVE  IInv'
  BY LogBroadcastStep, FifoBroadcastStep, LeaveLoopStep, AddToCounterStep,
     DeliverOwnStep, CountDeliveryStep, StutterStep DEF Next

LEMMA Invariance == Spec => []IInv
<1>1. IInv /\ [Next]_vars => IInv'
  BY NextIInv
<1> QED
  BY <1>1, InitIInv, PTL DEF Spec

-----------------------------------------------------------------------------
(* Type correctness, for every size of the groups and every workload. *)
THEOREM TypeCorrect == Spec => []TypeOK
<1>1. IInv => TypeOK
  BY DEF IInv
<1> QED
  BY <1>1, Invariance, PTL

LEMMA PacedHolds == ASSUME IInv PROVE Paced
<1> USE Numbers DEF IInv, Paced
<1>1. CASE \E t \in Thread : Active(t)
  BY <1>1, SMTT(20) DEF DuringGroup, InGroup
<1>2. CASE \A t \in Thread : ~Active(t)
  BY <1>2 DEF BetweenGroups
<1> QED
  BY <1>1, <1>2

(* At most one group is ever under way (fifoController.cpp:24). *)
THEOREM FlowControl == Spec => []Paced
<1>1. IInv => Paced
  BY PacedHolds
<1> QED
  BY <1>1, Invariance, PTL

(* The payloads are 1, 2, ..., without gap or repetition at the boundary of  *)
(* two groups.                                                               *)
THEOREM BroadcastInOrder == Spec => []NumberedInOrder
<1>1. IInv => NumberedInOrder
  BY DEF IInv
<1> QED
  BY <1>1, Invariance, PTL

(* The two threads that run groupedBroadcast never do so at once, although   *)
(* no lock keeps them apart (fifoController.cpp:37 and 48).                  *)
THEOREM NeverTwoGroups == Spec => []OneGroupAtATime
<1>1. IInv => OneGroupAtATime
  BY DEF IInv, MainFirst, Active, OneGroupAtATime, Thread
<1> QED
  BY <1>1, Invariance, PTL

(* finishedBroadcasting() is called at most once, and only at the end.       *)
THEOREM SignalIsTrue == Spec => []SignalledAtEnd
<1>1. IInv => SignalledAtEnd
  BY DEF IInv
<1> QED
  BY <1>1, Invariance, PTL

=============================================================================
