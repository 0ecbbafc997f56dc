------------------------------ MODULE StressTest ------------------------------
(***************************************************************************)
(* StressTest (validate.py): concurrent threads of the test script send      *)
(* SIGSTOP, SIGCONT and SIGTERM to the processes.  Every process has a       *)
(* ProcessInfo with a lock and the state the script believes it to be in;    *)
(* AtomicSaturatedCounter limits how many are terminated.                    *)
(*                                                                         *)
(* The three states name the three signals.  A turn of the loop that picks   *)
(* an operation that is not valid, or whose reservation fails, changes       *)
(* nothing and is a stuttering step.                                         *)
(***************************************************************************)
EXTENDS Integers, FiniteSets

CONSTANTS
  Process,      \* logicalPIDs
  Stresser,     \* the threads that run stress(); "concurrency" many
  attempts,     \* successful attempts that each of them makes
  NoAttempt

ASSUME StressAssumption ==
  /\ IsFiniteSet(Process) /\ Process # {}
  /\ attempts \in Nat
  /\ NoAttempt \notin [proc : Process, op : {"RUNNING", "STOPPED", "TERMINATED"}]

ProcessState == {"RUNNING", "STOPPED", "TERMINATED"}

VARIABLES
  state,                \* state[p]: ProcessInfo.state
  terminatedProcs,      \* value of the saturated counter
  chosen,               \* chosen[t]: the operation for which thread t holds
                        \* info.lock, between its checks and the signal
  selectProc,           \* selectProc[t]: t's list of processes to choose from
  successfulAttempts,   \* successfulAttempts[t]
  halted,               \* processes stopped by SIGSTOP
  sigterm               \* processes to which SIGTERM has been sent

stressVars ==
  <<state, terminatedProcs, chosen, selectProc, successfulAttempts>>
signalVars == <<halted, sigterm>>

StressInit ==
  /\ state = [p \in Process |-> "RUNNING"]
  /\ terminatedProcs = 0
  /\ chosen = [t \in Stresser |-> NoAttempt]
  /\ selectProc = [t \in Stresser |-> Process]
  /\ successfulAttempts = [t \in Stresser |-> 0]
  /\ halted = {}
  /\ sigterm = {}

-----------------------------------------------------------------------------
maxTerminatedProcesses ==
  IF Cardinality(Process) % 2 = 1
    THEN Cardinality(Process) \div 2
    ELSE (Cardinality(Process) - 1) \div 2

validStateTransition(now, desired) ==
  \/ now = "RUNNING" /\ desired \in {"STOPPED", "TERMINATED"}
  \/ now = "STOPPED" /\ desired = "RUNNING"

(* send_signal(stateToSignal(op)) to p. *)
Signal(p, op) ==
  /\ halted' = CASE op = "STOPPED" -> halted \cup {p}
                 [] op = "RUNNING" -> halted \ {p}
                 [] op = "TERMINATED" -> halted
  /\ sigterm' = IF op = "TERMINATED" THEN sigterm \cup {p} ELSE sigterm

(* Mutant: the lock in ProcessInfo is not taken. *)
NotLocked(p) == TRUE

LockFree(p) ==
  \A t \in Stresser : chosen[t] # NoAttempt => chosen[t].proc # p

(* Mutant: the counter is not incremented. *)
reserveNothing ==
  /\ terminatedProcs < maxTerminatedProcesses
  /\ UNCHANGED terminatedProcs

reserve ==
  /\ terminatedProcs < maxTerminatedProcesses
  /\ terminatedProcs' = terminatedProcs + 1

MoreAttempts(t) == successfulAttempts[t] < attempts

(* The first half of a turn, up to the sleep: the lock is taken, the state   *)
(* checked, and a termination reserved.                                      *)
Choose(t, p, op) ==
  /\ chosen[t] = NoAttempt
  /\ MoreAttempts(t)
  /\ p \in selectProc[t]
  /\ LockFree(p)
  /\ validStateTransition(state[p], op)
  /\ \/ /\ op = "TERMINATED"
        /\ reserve
        /\ selectProc' = [selectProc EXCEPT ![t] = @ \ {p}]
     \/ /\ op # "TERMINATED"
        /\ UNCHANGED <<terminatedProcs, selectProc>>
  /\ chosen' = [chosen EXCEPT ![t] = [proc |-> p, op |-> op]]
  /\ UNCHANGED <<state, successfulAttempts, signalVars>>

(* The second half: the signal is sent and the lock released. *)
Send(t) ==
  /\ chosen[t] # NoAttempt
  /\ Signal(chosen[t].proc, chosen[t].op)
  /\ state' = [state EXCEPT ![chosen[t].proc] = chosen[t].op]
  /\ successfulAttempts' = [successfulAttempts EXCEPT ![t] = @ + 1]
  /\ chosen' = [chosen EXCEPT ![t] = NoAttempt]
  /\ UNCHANGED <<terminatedProcs, selectProc>>

stress(t) ==
  \/ \E p \in Process, op \in ProcessState : Choose(t, p, op)
  \/ Send(t)

(* The join of all the threads in run(). *)
StressComplete == \A t \in Stresser : successfulAttempts[t] = attempts

(* Mutant: nobody is continued. *)
continueNothing == UNCHANGED <<stressVars, signalVars>>

(* continueStoppedProcesses sends SIGCONT and leaves the states as they are. *)
continueStoppedProcesses ==
  /\ halted' = halted \ {p \in Process : state[p] = "STOPPED"}
  /\ UNCHANGED <<stressVars, sigterm>>

terminateAllProcesses ==
  /\ halted' = halted \ {p \in Process : state[p] = "STOPPED"}
  /\ sigterm' = sigterm \cup {p \in Process : state[p] # "TERMINATED"}
  /\ UNCHANGED stressVars

-----------------------------------------------------------------------------
StressTypeOK ==
  /\ state \in [Process -> ProcessState]
  /\ terminatedProcs \in 0 .. maxTerminatedProcesses
  /\ chosen \in [Stresser -> {NoAttempt} \cup [proc : Process, op : ProcessState]]
  /\ selectProc \in [Stresser -> SUBSET Process]
  /\ successfulAttempts \in [Stresser -> 0 .. attempts]
  /\ halted \subseteq Process
  /\ sigterm \subseteq Process

=============================================================================
