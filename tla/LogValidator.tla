------------------------------ MODULE LogValidator -----------------------------
(***************************************************************************)
(* The log checks of validate.py, on the output files of all processes.  A   *)
(* log is a sequence of records, one per line: [type |-> "b", payload |-> n] *)
(* or [type |-> "d", peerID |-> q, payload |-> n].  The number of lines is    *)
(* only printed by the code and left out.                                    *)
(***************************************************************************)
EXTENDS Integers, FiniteSets, SequencesExt

CONSTANTS
  Process,
  causalRelationships   \* causalRelationships[p]: the processes that affect p

(* The variables of checkProcess: i, the next message to be broadcast, and   *)
(* nextMessage; ok is FALSE when the method has returned False.              *)
start == [i |-> 1, nextMessage |-> [q \in Process |-> 1], ok |-> TRUE]

(* A line breaks the order of the broadcasts, or of a sender's messages. *)
OutOfOrder(s, e) ==
  \/ e.type = "b" /\ e.payload # s.i
  \/ e.type = "d" /\ e.payload # s.nextMessage[e.peerID]

Advance(s, e) ==
  IF e.type = "b" THEN [s EXCEPT !.i = @ + 1]
  ELSE [s EXCEPT !.nextMessage[e.peerID] = e.payload + 1]

(* FifoBroadcastValidation.checkProcess, one line. *)
FifoLine(s, e) ==
  IF s.ok /\ ~OutOfOrder(s, e) THEN Advance(s, e) ELSE [s EXCEPT !.ok = FALSE]

(* LCausalBroadcastValidation.checkProcess, one line: an own message that is *)
(* delivered before it is broadcast is reported, and then skipped.  Mutant:  *)
(* the message to be broadcast next is let pass.                             *)
BeforeLastBroadcast(pid, s, e) ==
  e.type = "d" /\ e.peerID = pid /\ s.i < e.payload

BeforeBroadcast(pid, s, e) ==
  e.type = "d" /\ e.peerID = pid /\ s.i <= e.payload

LCausalLine(pid, s, e) ==
  IF s.ok /\ ~OutOfOrder(s, e) /\ BeforeBroadcast(pid, s, e)
    THEN s
    ELSE FifoLine(s, e)

(* The variables after each line. *)
fifoCheckProcess(log) ==
  LET state[k \in 0 .. Len(log)] ==
        IF k = 0 THEN start ELSE FifoLine(state[k - 1], log[k])
  IN  state[Len(log)].ok

checkProcess(pid, log) ==
  LET state[k \in 0 .. Len(log)] ==
        IF k = 0 THEN start ELSE LCausalLine(pid, state[k - 1], log[k])
  IN  state[Len(log)].ok

-----------------------------------------------------------------------------
(* vectorClocks of a log: the number of deliveries from every process before *)
(* the (last) delivery of message n of q.                                    *)
PositionsOf(log, q, n) ==
  {k \in DOMAIN log :
     log[k].type = "d" /\ log[k].peerID = q /\ log[k].payload = n}

vectorClock(log, q, n) ==
  LET positions == PositionsOf(log, q, n)
      k == CHOOSE k \in positions : \A j \in positions : j <= k
  IN  [r \in Process |->
         Cardinality({j \in 1 .. k - 1 :
                        log[j].type = "d" /\ log[j].peerID = r})]

(* Mutant: a delivery must come later than at the sender. *)
AtSenderFirst(p, s) == p > s

NotBefore(p, s) == p >= s

(* Every delivery comes after what its sender had delivered before its own,  *)
(* as far as it affects the sender.  A message that is missing in its        *)
(* sender's log raises an exception, which main() turns into a failure.      *)
checkCausality(logs) ==
  \A pid \in Process : \A k \in DOMAIN logs[pid] :
    logs[pid][k].type = "d" =>
      LET q == logs[pid][k].peerID
          n == logs[pid][k].payload
      IN  /\ PositionsOf(logs[q], q, n) # {}
          /\ \A r \in causalRelationships[q] :
               NotBefore(vectorClock(logs[pid], q, n)[r],
                         vectorClock(logs[q], q, n)[r])

fifoCheckAll(logs) == \A pid \in Process : fifoCheckProcess(logs[pid])

checkAll(logs) ==
  /\ \A pid \in Process : checkProcess(pid, logs[pid])
  /\ checkCausality(logs)

=============================================================================
