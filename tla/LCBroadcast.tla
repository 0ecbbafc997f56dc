------------------------------ MODULE LCBroadcast -----------------------------
(***************************************************************************)
(* LCBroadcast (lcb.cpp): localized causal broadcast with vector clocks over *)
(* a FIFO broadcast, together with the part of FIFOController that builds    *)
(* the packets (groupedBroadcast) and serialises deliveries (deliver) under  *)
(* its mutex mtx.  Each action below is one critical section of mtx, or the  *)
(* step outside it.                                                          *)
(*                                                                         *)
(* The FIFO layer is FIFOReliableBroadcast: it gives every process the       *)
(* packets of each process in the order they were broadcast.  The events "b" *)
(* and "d" of the output file are what the correctness of this layer is      *)
(* about: they are the variable log.                                         *)
(***************************************************************************)
EXTENDS Integers, SequencesExt

CONSTANTS
  Process,      \* the hosts of the hosts file
  Configs,      \* what the lines of the config file may be
  maxPackets,   \* bound: maxPackets[p] messages of p are followed
  Mortal,       \* bound: a process that may write its output before the others
  Logs          \* bound: the logs that the log checks are tried on

(* The config file lists a process among those that affect it, or has no     *)
(* lines for the processes (FIFO).                                           *)
Causal(config) == \A p \in Process : p \in config[p]
Fifo(config) == \A p \in Process : config[p] = {}

ASSUME ConfigsAssumption ==
  /\ Configs \subseteq [Process -> SUBSET Process]
  /\ \A config \in Configs : Causal(config) \/ Fifo(config)
ASSUME MaxPacketsAssumption == maxPackets \in [Process -> Nat]

VARIABLES
  Deps,         \* Deps[p]: localhost.dependencies of p, its line of the config
  next,         \* next[p]: payload of the next packet of p
  vectorClock,  \* vectorClock[p][q]: messages of q that p has delivered
  pending,      \* pending[p][q]: packets of q that wait at p
  outbox,       \* outbox[p]: the packet p has logged but not yet handed to
                \* FIFOBroadcast, if any
  fifoSent, fifoNext,   \* FIFOReliableBroadcast
  log           \* log[p]: the strings in logs, the lines of p's output file

vars == <<Deps, next, vectorClock, pending, outbox, fifoSent, fifoNext, log>>

Packet ==
  [peerID : Process, payload : Nat \ {0}, vectorClock : [Process -> Nat]]

FifoLayer == INSTANCE FIFOReliableBroadcast WITH Receiver <- Process

Init ==
  /\ Deps \in Configs
  /\ next = [p \in Process |-> 1]
  /\ vectorClock = [p \in Process |-> [q \in Process |-> 0]]
  /\ pending = [p \in Process |-> [q \in Process |-> <<>>]]
  /\ outbox = [p \in Process |-> <<>>]
  /\ FifoLayer!Init
  /\ log = [p \in Process |-> <<>>]

BroadcastEvent(n) == [type |-> "b", payload |-> n]
DeliverEvent(q, n) == [type |-> "d", peerID |-> q, payload |-> n]

Event ==
  [type : {"b"}, payload : Nat \ {0}]
    \cup [type : {"d"}, peerID : Process, payload : Nat \ {0}]

ASSUME MortalAssumption == Mortal \subseteq Process
ASSUME LogsAssumption == Logs \subseteq [Process -> Seq(Event)]

-----------------------------------------------------------------------------
(* Mutants: a packet does not depend on earlier ones of its process; it      *)
(* depends on nothing else.                                                  *)
ClockWithoutOwn(p) ==
  [q \in Process |-> IF q \in Deps[p] \ {p} THEN vectorClock[p][q] ELSE 0]
ClockOfOwn(p) == [q \in Process |-> IF q = p THEN vectorClock[p][q] ELSE 0]

(* The clock of a packet has the entries of the processes that affect p. *)
PacketClock(p) ==
  [q \in Process |-> IF q \in Deps[p] THEN vectorClock[p][q] ELSE 0]

(* One turn of the loop of groupedBroadcast up to mtx.unlock(): broadcastCB   *)
(* logs the broadcast, then delivers the message locally and counts it.      *)
Locked(p) == log[p] # <<>> /\ log[p][Len(log[p])].type = "b"

LogBroadcast(p) ==
  /\ next[p] <= maxPackets[p]
  /\ outbox[p] = <<>>
  /\ ~Locked(p)
  /\ log' = [log EXCEPT ![p] = Append(@, BroadcastEvent(next[p]))]
  /\ UNCHANGED <<Deps, next, vectorClock, pending, outbox, fifoSent, fifoNext>>

DeliverOwn(p) ==
  /\ Locked(p)
  /\ outbox' = [outbox EXCEPT ![p] =
       <<[peerID |-> p, payload |-> next[p], vectorClock |-> PacketClock(p)]>>]
  /\ next' = [next EXCEPT ![p] = @ + 1]
  /\ log' = [log EXCEPT ![p] = Append(@, DeliverEvent(p, next[p]))]
  /\ vectorClock' = [vectorClock EXCEPT ![p][p] = @ + 1]
  /\ UNCHANGED <<Deps, pending, fifoSent, fifoNext>>

(* fifo->broadcast(pkt), after mtx.unlock(). *)
FifoBroadcast(p) ==
  /\ outbox[p] # <<>>
  /\ FifoLayer!Broadcast(p, outbox[p][1])
  /\ outbox' = [outbox EXCEPT ![p] = <<>>]
  /\ UNCHANGED <<Deps, next, vectorClock, pending, log>>

-----------------------------------------------------------------------------
(* Mutant: only the order of the packet's own process is looked at. *)
CanDeliverOwnOrder(p, pkt) ==
  pkt.vectorClock[pkt.peerID] <= vectorClock[p][pkt.peerID]

canDeliver(p, pkt) ==
  \A q \in Process : pkt.vectorClock[q] <= vectorClock[p][q]

(* Mutant: the deliveries are not counted. *)
DeliverAllUncounted(p, pkt) ==
  LET q == pkt.peerID
      queue == Append(pending[p][q], pkt)
  IN  /\ pending' = [pending EXCEPT ![p][q] = <<>>]
      /\ log' = [log EXCEPT ![p] =
                   @ \o [i \in 1 .. Len(queue) |->
                           DeliverEvent(q, queue[i].payload)]]
      /\ UNCHANGED vectorClock

(* The scan of pending[pkt.peerID] when its test succeeds.  The test is      *)
(* about pkt and never about the packet the scan is at; deliveries only      *)
(* raise the clock, so that the scan delivers the whole queue, in order.     *)
DeliverAll(p, pkt) ==
  LET q == pkt.peerID
      queue == Append(pending[p][q], pkt)
  IN  /\ pending' = [pending EXCEPT ![p][q] = <<>>]
      /\ vectorClock' = [vectorClock EXCEPT ![p][q] = @ + Len(queue)]
      /\ log' = [log EXCEPT ![p] =
                   @ \o [i \in 1 .. Len(queue) |->
                           DeliverEvent(q, queue[i].payload)]]

(* Mutant: the packet is dropped. *)
Drop(p, pkt) == UNCHANGED <<pending, vectorClock, log>>

(* The scan when the test fails: it delivers nothing. *)
Keep(p, pkt) ==
  /\ pending' = [pending EXCEPT ![p][pkt.peerID] = Append(@, pkt)]
  /\ UNCHANGED <<vectorClock, log>>

(* FIFOController::deliver calls LCBroadcast::deliver under mtx.  An own     *)
(* packet has been delivered when it was broadcast.  No other queue than     *)
(* that of pkt.peerID is scanned.                                            *)
deliver(p, pkt) ==
  \/ /\ pkt.peerID = p
     /\ UNCHANGED <<vectorClock, pending, log>>
  \/ /\ pkt.peerID # p
     /\ canDeliver(p, pkt)
     /\ DeliverAll(p, pkt)
  \/ /\ pkt.peerID # p
     /\ ~canDeliver(p, pkt)
     /\ Keep(p, pkt)

FifoDeliver(p, q) ==
  /\ ~Locked(p)
  /\ FifoLayer!Deliver(p, q)
  /\ deliver(p, fifoSent[q][fifoNext[p][q]])
  /\ UNCHANGED <<Deps, next, outbox>>

Next ==
  \E p \in Process :
    \/ LogBroadcast(p)
    \/ DeliverOwn(p)
    \/ FifoBroadcast(p)
    \/ \E q \in Process : FifoDeliver(p, q)

(* No process crashes: each broadcasts all its messages, and the FIFO layer  *)
(* delivers what it has been given.                                          *)
Fairness ==
  \A p \in Process :
    /\ WF_vars(LogBroadcast(p))
    /\ WF_vars(DeliverOwn(p))
    /\ WF_vars(FifoBroadcast(p))
    /\ \A q \in Process : WF_vars(FifoDeliver(p, q))

Spec == Init /\ [][Next]_vars /\ Fairness

-----------------------------------------------------------------------------
(* The packets p has broadcast, in order. *)
Broadcasts(p) == fifoSent[p] \o outbox[p]

TypeOK ==
  /\ Deps \in Configs
  /\ next \in [Process -> Nat \ {0}]
  /\ vectorClock \in [Process -> [Process -> Nat]]
  /\ pending \in [Process -> [Process -> Seq(Packet)]]
  /\ outbox \in [Process -> Seq(Packet)]
  /\ fifoSent \in [Process -> Seq(Packet)]
  /\ fifoNext \in [Process -> [Process -> Nat \ {0}]]
  /\ log \in [Process -> Seq(Event)]

In(l, e) == \E i \in DOMAIN l : l[i] = e
Before(l, e, f) == \E i, j \in DOMAIN l : i < j /\ l[i] = e /\ l[j] = f

CausallyOrdered(logs) ==
  \A p, q \in Process : \A n \in 1 .. maxPackets[q] :
    In(logs[p], DeliverEvent(q, n)) =>
      \A r \in Deps[q] : \A k \in 1 .. maxPackets[r] :
        Before(logs[q], DeliverEvent(r, k), BroadcastEvent(n))
          => Before(logs[p], DeliverEvent(r, k), DeliverEvent(q, n))

(* Localized causal order, on the output files (README.md:193): what q had   *)
(* delivered from a process that affects it before it broadcast its n-th     *)
(* message, every process delivers before that message.                      *)
CausalOrder == CausallyOrdered(log)

BroadcastsOf(l) == {i \in DOMAIN l : l[i].type = "b"}
DeliveriesOf(l, q) == {i \in DOMAIN l : l[i].type = "d" /\ l[i].peerID = q}

(* The lines D of l have the payloads 1 .. k, each once and in this order. *)
CountUp(l, D, k) ==
  /\ {l[i].payload : i \in D} = 1 .. k
  /\ \A i, j \in D : i < j => l[i].payload < l[j].payload

(* Every log has the messages of each process in the order they were         *)
(* broadcast, without gap or repetition, and the vector clock counts them.   *)
ClockCountsLog ==
  \A p, q \in Process :
    CountUp(log[p], DeliveriesOf(log[p], q), vectorClock[p][q])

(* Nothing the FIFO layer has delivered is lost or delivered twice: it is    *)
(* counted by the clock or it waits, in order.                               *)
NothingLost ==
  \A p \in Process : \A q \in Process \ {p} :
    /\ vectorClock[p][q] + Len(pending[p][q]) = fifoNext[p][q] - 1
    /\ \A i \in DOMAIN pending[p][q] :
         pending[p][q][i].payload = vectorClock[p][q] + i

(* Causal order as the clocks see it: a process has delivered everything     *)
(* that the messages it has delivered depend on.                             *)
CausallyClosed ==
  \A p, q \in Process : \A i \in DOMAIN Broadcasts(q) :
    i <= vectorClock[p][q] =>
      \A r \in Process : Broadcasts(q)[i].vectorClock[r] <= vectorClock[p][r]

Validator == INSTANCE LogValidator WITH causalRelationships <- Deps

(* The handler of SIGTERM writes the log and calls exit(); in between, the   *)
(* other threads go on.  The output is the log as it was at some moment.     *)
Outputs(p, k) == [log EXCEPT ![p] = SubSeq(@, 1, k)]

(* A message that p has broadcast after writing its output. *)
MissingIn(outputs, p) ==
  \E q \in Process, n \in 1 .. maxPackets[p] :
    /\ In(outputs[q], DeliverEvent(p, n))
    /\ ~In(outputs[p], DeliverEvent(p, n))

(* test_validation.py:21 asserts of a run that the log checks accept its     *)
(* output.  They do, whenever one process writes its output before the       *)
(* others do, and with whatever lines.  The exception is a message that      *)
(* another process has delivered and that is missing in the output of its    *)
(* own: checkCausality does not find it there (validate.py:285).             *)
OutputsValidate ==
  \A p \in Mortal : \A k \in 0 .. Len(log[p]) :
    /\ Validator!fifoCheckAll(Outputs(p, k))
    /\ Validator!checkAll(Outputs(p, k)) <=> ~MissingIn(Outputs(p, k), p)

(* What the log checks accept, in the initial states: logs with the          *)
(* broadcasts and the messages of each process in order and, for             *)
(* LCausalBroadcastValidation, own messages delivered before they are        *)
(* broadcast, any number of times, when they are the next ones.  Without     *)
(* those, what is accepted is in localized causal order; with them, it need  *)
(* not be.                                                                   *)
InOrder(l, skipped) ==
  /\ \E k \in 0 .. Len(l) : CountUp(l, BroadcastsOf(l), k)
  /\ \A q \in Process : \E k \in 0 .. Len(l) :
       CountUp(l, DeliveriesOf(l, q) \ skipped, k)

Early(p, l) ==
  {k \in DeliveriesOf(l, p) :
     \A i \in 1 .. k - 1 : l[i] # BroadcastEvent(l[k].payload)}

ChecksMeanOrder ==
  log = [p \in Process |-> <<>>] => \A logs \in Logs :
    /\ \A p \in Process :
         LET l == logs[p]
             counted == DeliveriesOf(l, p) \ Early(p, l)
         IN  /\ Validator!fifoCheckProcess(l) <=> InOrder(l, {})
             /\ Validator!checkProcess(p, l) <=>
                  /\ InOrder(l, Early(p, l))
                  /\ \A k \in Early(p, l) :
                       CountUp(l, {i \in counted : i < k}, l[k].payload - 1)
    /\ Validator!checkAll(logs) /\ (\A p \in Process : Early(p, logs[p]) = {})
         => CausallyOrdered(logs)

(* With a config file that lists a process among those that affect it, a     *)
(* queue that has once been filled is never emptied: the packet that would   *)
(* trigger the scan depends on the packets in the queue.                     *)
NeverUnblocked ==
  [][\A p, q \in Process :
       pending[p][q] # <<>> => pending'[p][q] # <<>>]_vars

(* validate.py:274 expects, of a run without crashes, a line for every       *)
(* broadcast and for every delivery of every message: "if nLines !=          *)
(* self.messages * (self.processes + 1)".                                    *)
AllDelivered ==
  \A p, q \in Process : <>(vectorClock[p][q] = maxPackets[q])

=============================================================================
