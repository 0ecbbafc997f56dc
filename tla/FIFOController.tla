---------------------------- MODULE FIFOController ----------------------------
(***************************************************************************)
(* FIFOController (fifoController.cpp): a process broadcasts its messages in *)
(* groups of nPacketsPerBroadcast and starts a group when it has delivered   *)
(* the whole of the previous one itself.  main() runs the first group,       *)
(* through broadcast(); the listener thread runs the others, from inside     *)
(* deliver().  The field counter is shared by the two and is not protected   *)
(* by mtx; one read or write of it is one step here.                         *)
(*                                                                         *)
(* One process is modelled.  Deliveries of other processes' packets touch    *)
(* none of this state.  Own packets are delivered in order, on the listener  *)
(* thread, at any time after they were handed to FIFOBroadcast               *)
(* (BroadcastStack!CallsFit).                                                *)
(***************************************************************************)
EXTENDS Integers, Sequences

CONSTANTS
  nPacketsPerBroadcast,   \* 10 in the code
  Workloads               \* arguments that broadcast() is called with

ASSUME GroupAssumption == nPacketsPerBroadcast \in Nat \ {0}
ASSUME WorkloadAssumption == Workloads \subseteq Nat

Thread == {"main", "listen"}

VARIABLES
  maxPackets,         \* the number of messages to broadcast
  counter,            \* first payload of the next group
  nLocalDeliveries,   \* 1 + the number of own packets counted by deliver()
  pc,                 \* pc[t]: where thread t is
  i,                  \* i[t]: loop variable of groupedBroadcast in thread t
  broadcasts,         \* payloads passed to broadcastCB, in order
  handed,             \* number of own packets handed to FIFOBroadcast
  delivered,          \* number of own packets that FIFOBroadcast has delivered
  finished            \* number of calls of coordinator->finishedBroadcasting()

vars == <<maxPackets, counter, nLocalDeliveries, pc, i, broadcasts, handed,
          delivered, finished>>

(* The state when main() enters the loop of its groupedBroadcast. *)
Init ==
  /\ maxPackets \in Workloads
  /\ counter = 1
  /\ nLocalDeliveries = 1
  /\ pc = [t \in Thread |-> IF t = "main" THEN "loop" ELSE "idle"]
  /\ i = [t \in Thread |-> counter]
  /\ broadcasts = <<>>
  /\ handed = 0
  /\ delivered = 0
  /\ finished = 0

-----------------------------------------------------------------------------
(* groupedBroadcast(nPacketsPerBroadcast), in thread t *)

(* Mutant: one packet too many in a group. *)
GroupAndOne(t) ==
  i[t] <= maxPackets /\ i[t] <= counter + nPacketsPerBroadcast

InGroup(t) ==
  i[t] <= maxPackets /\ i[t] < counter + nPacketsPerBroadcast

(* The part of a turn under mtx: the packet is built and logged. *)
LogBroadcast(t) ==
  /\ pc[t] = "loop"
  /\ InGroup(t)
  /\ broadcasts' = Append(broadcasts, i[t])
  /\ pc' = [pc EXCEPT ![t] = "send"]
  /\ UNCHANGED <<maxPackets, counter, nLocalDeliveries, i, handed, delivered,
                 finished>>

(* fifo->broadcast(pkt): the packet may be delivered from now on. *)
FifoBroadcast(t) ==
  /\ pc[t] = "send"
  /\ handed' = handed + 1
  /\ i' = [i EXCEPT ![t] = @ + 1]
  /\ pc' = [pc EXCEPT ![t] = "loop"]
  /\ UNCHANGED <<maxPackets, counter, nLocalDeliveries, broadcasts, delivered,
                 finished>>

LeaveLoop(t) ==
  /\ pc[t] = "loop"
  /\ ~InGroup(t)
  /\ pc' = [pc EXCEPT ![t] = "add"]
  /\ UNCHANGED <<maxPackets, counter, nLocalDeliveries, i, broadcasts, handed,
                 delivered, finished>>

(* Mutant: the last packet of a group is the first of the next. *)
AddToCounterOneLess(t) ==
  /\ pc[t] = "add"
  /\ counter' = counter + nPacketsPerBroadcast - 1
  /\ pc' = [pc EXCEPT ![t] = IF t = "main" THEN "done" ELSE "idle"]
  /\ UNCHANGED <<maxPackets, nLocalDeliveries, i, broadcasts, handed,
                 delivered, finished>>

(* counter += n, and the return to main() or to the listener. *)
AddToCounter(t) ==
  /\ pc[t] = "add"
  /\ counter' = counter + nPacketsPerBroadcast
  /\ pc' = [pc EXCEPT ![t] = IF t = "main" THEN "done" ELSE "idle"]
  /\ UNCHANGED <<maxPackets, nLocalDeliveries, i, broadcasts, handed,
                 delivered, finished>>

-----------------------------------------------------------------------------
(* deliver(pkt) with an own packet, on the listener thread *)

(* fifoDeliver(pkt), under mtx. *)
DeliverOwn ==
  /\ pc["listen"] = "idle"
  /\ delivered < handed
  /\ delivered' = delivered + 1
  /\ pc' = [pc EXCEPT !["listen"] = "count"]
  /\ UNCHANGED <<maxPackets, counter, nLocalDeliveries, i, broadcasts, handed,
                 finished>>

(* Mutants: the count is taken to start at 0; it is one too low. *)
AllCountedEarly(n) == n = maxPackets
AllCountedLate(n) == n > maxPackets + 1

AllCounted(n) == n = maxPackets + 1

(* Mutant: a group starts when its first packets come back. *)
GroupCountedEarly(n) == n + 1 >= counter

GroupCounted(n) == n = counter

(* The increment of nLocalDeliveries and the two tests. *)
CountDelivery ==
  /\ pc["listen"] = "count"
  /\ nLocalDeliveries' = nLocalDeliveries + 1
  /\ \/ /\ AllCounted(nLocalDeliveries')
        /\ finished' = finished + 1
        /\ pc' = [pc EXCEPT !["listen"] = "idle"]
        /\ UNCHANGED i
     \/ /\ ~AllCounted(nLocalDeliveries')
        /\ GroupCounted(nLocalDeliveries')
        /\ i' = [i EXCEPT !["listen"] = counter]
        /\ pc' = [pc EXCEPT !["listen"] = "loop"]
        /\ UNCHANGED finished
     \/ /\ ~AllCounted(nLocalDeliveries')
        /\ ~GroupCounted(nLocalDeliveries')
        /\ pc' = [pc EXCEPT !["listen"] = "idle"]
        /\ UNCHANGED <<i, finished>>
  /\ UNCHANGED <<maxPackets, counter, broadcasts, handed, delivered>>

Next ==
  \/ \E t \in Thread :
       LogBroadcast(t) \/ FifoBroadcast(t) \/ LeaveLoop(t) \/ AddToCounter(t)
  \/ DeliverOwn
  \/ CountDelivery

(* Both threads run, and the layers below deliver what a process that stays  *)
(* up broadcasts (Validity of UniformBroadcast).                             *)
Fairness ==
  /\ \A t \in Thread :
       WF_vars(\/ LogBroadcast(t)
               \/ FifoBroadcast(t)
               \/ LeaveLoop(t)
               \/ AddToCounter(t))
  /\ WF_vars(DeliverOwn)
  /\ WF_vars(CountDelivery)

Spec == Init /\ [][Next]_vars /\ Fairness

-----------------------------------------------------------------------------
TypeOK ==
  /\ maxPackets \in Workloads
  /\ counter \in Nat
  /\ nLocalDeliveries \in 1 .. maxPackets + 1
  /\ pc \in [Thread -> {"loop", "send", "add", "done", "idle", "count"}]
  /\ i \in [Thread -> 1 .. maxPackets + 1]
  /\ broadcasts \in Seq(1 .. maxPackets)
  /\ handed \in 0 .. maxPackets
  /\ delivered \in 0 .. maxPackets
  /\ finished \in Nat

(* The flow control works: at most one group of own messages is under way.   *)
Paced == Len(broadcasts) <= delivered + nPacketsPerBroadcast

(* The messages are 1, 2, ... in this order, each broadcast once: the group  *)
(* of main() and those of the listener follow one another.                   *)
NumberedInOrder ==
  /\ \A k \in DOMAIN broadcasts : broadcasts[k] = k
  /\ Len(broadcasts) <= maxPackets

(* Never two groups at once, although counter has no lock. *)
OneGroupAtATime ==
  ~ \A t \in Thread : pc[t] \in {"loop", "send", "add"}

(* The notification handler is told once, and only when this process has    *)
(* broadcast everything and delivered it itself.                             *)
SignalledAtEnd ==
  /\ finished <= 1
  /\ finished = 1 => Len(broadcasts) = maxPackets /\ delivered = maxPackets

(* main.cpp:175: "Finished broadcasting will be called by the fifoController *)
(* once all packets have been broadcasted", hence at some time.              *)
EventuallyFinished == <>(finished = 1)

(* There are two reasons only why the notification is not sent: there is     *)
(* nothing to broadcast, and then it never is; or there is more than one     *)
(* group and the listener has counted the whole first one before main() has  *)
(* left groupedBroadcast, so that the comparison with counter is made too    *)
(* early, and never again.                                                   *)
FinishedUnlessOvertaken ==
  \/ maxPackets = 0 /\ [](finished = 0)
  \/ <>(finished = 1)
  \/ <>(/\ maxPackets > nPacketsPerBroadcast
        /\ pc["main"] # "done"
        /\ nLocalDeliveries > nPacketsPerBroadcast)

=============================================================================
