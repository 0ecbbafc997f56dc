------------------------------ MODULE TestRunProofs ----------------------------
(***************************************************************************)
(* Proofs about TestRun, for every number of processes, threads of the       *)
(* stress test and attempts.  What the script believes of a process is true  *)
(* because ProcessInfo.lock is held from the check of a state to the signal  *)
(* (Locks, Believed); the counter is right because a termination is reserved *)
(* before it happens (Counted).                                              *)
(***************************************************************************)
EXTENDS TestRun, FiniteSetTheorems, TLAPS

BeforeTheEnd == script \notin {"exits", "validate"}

(* A thread that has chosen is alone with its process, whose state has not   *)
(* changed since it was checked.                                             *)
Locks ==
  \A t \in Stresser : chosen[t] # NoAttempt =>
    /\ validStateTransition(state[chosen[t].proc], chosen[t].op)
    /\ successfulAttempts[t] < attempts
    /\ \A u \in Stresser :
         chosen[u] # NoAttempt /\ chosen[u].proc = chosen[t].proc => u = t

(* ProcessInfo.state says which signals a process has been sent. *)
Believed ==
  /\ \A p \in halted : state[p] = "STOPPED"
  /\ script \notin {"barrier", "stress", "continue"} => halted = {}
  /\ BeforeTheEnd => sigterm = {p \in Process : state[p] = "TERMINATED"}

(* The processes for which a termination has been reserved. *)
Terminates(t) == chosen[t] # NoAttempt /\ chosen[t].op = "TERMINATED"
Reserved ==
  sigterm \cup {p \in Process :
                  \E t \in Stresser : Terminates(t) /\ chosen[t].proc = p}

Counted == BeforeTheEnd => terminatedProcs = Cardinality(Reserved)

(* The barrier opens for all, and only then do the tests begin. *)
Beyond(p) ==
  main[p] \in {"construct", "build", "broadcast", "log", "send", "sleep"}

Opened ==
  /\ \A p \in barrier : AtBarrier(p)
  /\ released # {} => barrier = Process
  /\ \A p \in Process : Beyond(p) => p \in released
  /\ script # "barrier" => released = Process
  /\ halted \cup sigterm # {} => script # "barrier"

(* FinishedSignal has counted the connections that it no longer watches. *)
Finishing ==
  /\ registered \subseteq connections
  /\ connections \ registered \subseteq finished \cup exited
  /\ waitFor = Cardinality(Process) - Cardinality(connections \ registered)

IInv ==
  /\ TypeOK
  /\ Locks
  /\ Believed
  /\ Counted
  /\ Opened
  /\ Finishing

ProcessTypeOK ==
  /\ main \in [Process -> {"parse", "connected", "waiting", "construct",
                           "build", "broadcast", "log", "send", "sleep"}]
  /\ listener \in [Process -> {"none", "listen", "log", "logged"}]
  /\ handler \in [Process -> {"none", "stopped", "exited"}]
  /\ logsMutex \in [Process -> {"free", "main", "listener"}]
  /\ finished \subseteq Process
  /\ overtaken \subseteq Process
  /\ died \subseteq Process

-----------------------------------------------------------------------------
LEMMA Processes ==
  /\ Cardinality(Process) \in Nat \ {0}
  /\ Cardinality({}) = 0
  /\ \A S \in SUBSET Process :
       /\ Cardinality(S) \in 0 .. Cardinality(Process)
       /\ Cardinality(S) = Cardinality(Process) => S = Process
       /\ \A T \in SUBSET S : Cardinality(T) <= Cardinality(S)
       /\ \A p \in Process \ S : Cardinality(S \cup {p}) = Cardinality(S) + 1
<1>1. Cardinality(Process) \in Nat /\ Cardinality(Process) # 0
  BY StressAssumption, FS_CardinalityType, FS_EmptySet
<1>2. ASSUME NEW S \in SUBSET Process
      PROVE  /\ Cardinality(S) \in 0 .. Cardinality(Process)
             /\ Cardinality(S) = Cardinality(Process) => S = Process
             /\ \A T \in SUBSET S : Cardinality(T) <= Cardinality(S)
             /\ \A p \in Process \ S :
                  Cardinality(S \cup {p}) = Cardinality(S) + 1
  <2>1. /\ IsFiniteSet(S)
        /\ Cardinality(S) <= Cardinality(Process)
        /\ Cardinality(Process) = Cardinality(S) => Process = S
    BY StressAssumption, FS_Subset
  <2>2. Cardinality(S) \in Nat
    BY <2>1, FS_CardinalityType
  <2>3. \A T \in SUBSET S : Cardinality(T) <= Cardinality(S)
    BY <2>1, FS_Subset
  <2>4. \A p \in Process \ S : Cardinality(S \cup {p}) = Cardinality(S) + 1
    BY <2>1, FS_AddElement
  <2> QED
    BY <1>1, <2>1, <2>2, <2>3, <2>4
<1> QED
  BY <1>1, <1>2, FS_EmptySet

LEMMA InitIInv == Init => IInv
<1> SUFFICES ASSUME Init
             PROVE  IInv
  OBVIOUS
<1> USE DEF Init, StressInit
<1>1. TypeOK
  <2>1. maxTerminatedProcesses \in Nat
    BY Processes DEF maxTerminatedProcesses
  <2>2. StressTypeOK
    BY <2>1, StressAssumption DEF StressTypeOK, ProcessState
  <2> QED
    BY <2>2, Processes DEF TypeOK
<1>2. Locks /\ Believed
  BY DEF Locks, Believed
<1>3. Counted
  <2>1. Reserved = {}
    BY DEF Reserved, Terminates
  <2> QED
    BY <2>1, Processes DEF Counted
<1>4. Opened
  BY DEF Opened, Beyond
<1>5. Finishing
  <2>1. connections \ registered = {}
    OBVIOUS
  <2> QED
    BY <2>1, Processes DEF Finishing
<1> QED
  BY <1>1, <1>2, <1>3, <1>4, <1>5 DEF IInv

-----------------------------------------------------------------------------
(* The steps of a process never take back what the barrier and the finish    *)
(* signal have seen.                                                         *)
LEMMA ProcessFacts ==
  ASSUME ProcessTypeOK, NEW p \in Process, ProcessStep(p)
  PROVE  /\ ProcessTypeOK'
         /\ finished \subseteq finished' /\ exited \subseteq exited'
         /\ \A q \in Process : AtBarrier(q) => AtBarrier(q)'
         /\ \A q \in Process : Beyond(q)' => Beyond(q) \/ q \in released
<1> USE DEF ProcessTypeOK, exited, AtBarrier, Beyond
<1>1. CASE Coordinator(p)
  BY <1>1 DEF Coordinator, MoveMain
<1>2. CASE ConnectBarrier(p)
  BY <1>2 DEF ConnectBarrier, MoveMain
<1>3. CASE PassBarrier(p)
  BY <1>3 DEF PassBarrier, MoveMain
<1>4. CASE StartListener(p)
  BY <1>4 DEF StartListener, MoveMain
<1>5. CASE Build(p)
  BY <1>5 DEF Build, MoveMain
<1>6. CASE DieEarly(p)
  BY <1>6 DEF DieEarly
<1>7. CASE LockInMain(p)
  BY <1>7 DEF LockInMain, MoveMain
<1>8. CASE UnlockInMain(p)
  BY <1>8 DEF UnlockInMain, MoveMain
<1>9. CASE AddToCounter(p)
  BY <1>9 DEF AddToCounter, MoveMain
<1>10. CASE LockInListener(p)
  BY <1>10 DEF LockInListener
<1>11. CASE UnlockInListener(p)
  BY <1>11 DEF UnlockInListener
<1>12. CASE finishedBroadcasting(p)
  BY <1>12 DEF finishedBroadcasting
<1>13. CASE Overtake(p)
  BY <1>13 DEF Overtake
<1>14. CASE signalHandler(p)
  BY <1>14 DEF signalHandler, MainRuns
<1>15. CASE WriteOutput(p)
  BY <1>15 DEF WriteOutput
<1> QED
  BY <1>1, <1>2, <1>3, <1>4, <1>5, <1>6, <1>7, <1>8, <1>9, <1>10, <1>11,
     <1>12, <1>13, <1>14, <1>15
     DEF ProcessStep

LEMMA ProcessIInv ==
  ASSUME IInv, NEW p \in Process, ProcessStep(p),
         UNCHANGED <<scriptVars, barrierVars, finishVars>>
  PROVE  IInv'
<1> USE DEF IInv
<1>1. /\ UNCHANGED <<state, terminatedProcs, chosen, selectProc,
                     successfulAttempts, halted, sigterm, script, messages>>
      /\ UNCHANGED <<barrier, released>>
      /\ UNCHANGED <<registered, connections, waitFor>>
  BY DEF scriptVars, stressVars, signalVars, barrierVars, finishVars
<1>2. /\ ProcessTypeOK'
      /\ finished \subseteq finished' /\ exited \subseteq exited'
      /\ \A q \in Process : AtBarrier(q) => AtBarrier(q)'
      /\ \A q \in Process : Beyond(q)' => Beyond(q) \/ q \in released
  BY ProcessFacts DEF TypeOK, ProcessTypeOK
<1>3. TypeOK'
  BY <1>1, <1>2 DEF TypeOK, StressTypeOK, ProcessTypeOK
<1>4. Locks' /\ Believed'
  BY <1>1 DEF Locks, Believed, BeforeTheEnd
<1>5. Counted'
  BY <1>1 DEF Counted, BeforeTheEnd, Reserved, Terminates
<1>6. Opened'
  <2>1. barrier \subseteq Process
    BY DEF TypeOK
  <2> QED
    BY <1>1, <1>2, <2>1 DEF Opened
<1>7. Finishing'
  BY <1>1, <1>2 DEF Finishing
<1> QED
  BY <1>3, <1>4, <1>5, <1>6, <1>7

LEMMA BarrierIInv ==
  ASSUME IInv, NEW p \in Process, BarrierAccept(p) \/ BarrierClose(p),
         UNCHANGED <<scriptVars, processVars, finishVars>>
  PROVE  IInv'
<1> USE DEF IInv
<1>1. /\ UNCHANGED <<state, terminatedProcs, chosen, selectProc,
                     successfulAttempts, halted, sigterm, script, messages>>
      /\ UNCHANGED <<main, listener, handler, logsMutex, finished,
                     overtaken, died>>
      /\ UNCHANGED <<registered, connections, waitFor>>
  BY DEF scriptVars, stressVars, signalVars, processVars, finishVars
<1>2. /\ barrier' \subseteq Process /\ released' \subseteq barrier'
      /\ barrier \subseteq barrier' /\ released \subseteq released'
      /\ \A q \in barrier' : AtBarrier(q)
      /\ released' # {} => barrier' = Process
  <2>1. /\ barrier \subseteq Process /\ released \subseteq barrier
        /\ \A q \in barrier : AtBarrier(q)
        /\ released # {} => barrier = Process
    BY DEF TypeOK, Opened
  <2>2. AllConnected(barrier) <=> barrier = Process
    BY <2>1, Processes DEF AllConnected
  <2>3. CASE BarrierAccept(p)
    BY <2>1, <2>2, <2>3 DEF BarrierAccept
  <2>4. CASE BarrierClose(p)
    BY <2>1, <2>2, <2>4 DEF BarrierClose
  <2> QED
    BY <2>3, <2>4
<1>3. TypeOK'
  BY <1>1, <1>2 DEF TypeOK, StressTypeOK
<1>4. Locks' /\ Believed'
  BY <1>1 DEF Locks, Believed, BeforeTheEnd
<1>5. Counted'
  BY <1>1 DEF Counted, BeforeTheEnd, Reserved, Terminates
<1>6. Opened'
  <2>1. /\ \A q \in barrier' : AtBarrier(q)'
        /\ \A q \in Process : Beyond(q)' => q \in released'
    BY <1>1, <1>2 DEF Opened, AtBarrier, Beyond
  <2>2. script' # "barrier" => released' = Process
    BY <1>1, <1>2 DEF Opened
  <2> QED
    BY <1>1, <1>2, <2>1, <2>2 DEF Opened
<1>7. Finishing'
  BY <1>1 DEF Finishing, exited
<1> QED
  BY <1>3, <1>4, <1>5, <1>6, <1>7

LEMMA FinishIInv ==
  ASSUME IInv, NEW p \in Process, FinishAccept(p) \/ FinishReadEnd(p),
         UNCHANGED <<scriptVars, processVars, barrierVars>>
  PROVE  IInv'
<1> DEFINE done == connections \ registered
<1> USE DEF IInv
<1>1. /\ UNCHANGED <<state, terminatedProcs, chosen, selectProc,
                     successfulAttempts, halted, sigterm, script, messages>>
      /\ UNCHANGED <<main, listener, handler, logsMutex, finished,
                     overtaken, died>>
      /\ UNCHANGED <<barrier, released>>
  BY DEF scriptVars, stressVars, signalVars, processVars, barrierVars
<1>2. /\ connections \subseteq Process /\ registered \subseteq connections
      /\ done \subseteq finished \cup exited
      /\ waitFor = Cardinality(Process) - Cardinality(done)
      /\ waitFor \in 0 .. Cardinality(Process)
  BY DEF TypeOK, Finishing
<1>3. ASSUME FinishAccept(p)
      PROVE  /\ connections' \subseteq Process
             /\ registered' \subseteq connections'
             /\ done' \subseteq finished \cup exited
             /\ waitFor' = Cardinality(Process) - Cardinality(done')
             /\ waitFor' \in 0 .. Cardinality(Process)
  <2>1. /\ connections' = connections \cup {p}
        /\ registered' = registered \cup {p}
        /\ waitFor' = waitFor /\ p \notin connections
    BY <1>3 DEF FinishAccept
  <2>2. done' = done
    BY <2>1
  <2> QED
    BY <1>2, <2>1, <2>2
<1>4. ASSUME FinishReadEnd(p)
      PROVE  /\ connections' \subseteq Process
             /\ registered' \subseteq connections'
             /\ done' \subseteq finished \cup exited
             /\ waitFor' = Cardinality(Process) - Cardinality(done')
             /\ waitFor' \in 0 .. Cardinality(Process)
  <2>1. /\ connections' = connections /\ p \in registered
        /\ registered' = registered \ {p}
        /\ waitFor' = waitFor - 1 /\ waitFor > 0
        /\ p \in finished \cup exited
    BY <1>4 DEF FinishReadEnd
  <2>2. done' = done \cup {p} /\ p \in Process \ done
    BY <1>2, <2>1
  <2>3. done \in SUBSET Process
    BY <1>2
  <2> HIDE DEF done
  <2>4. Cardinality(done \cup {p}) = Cardinality(done) + 1
    BY <2>2, <2>3, Processes
  <2>5. Cardinality(done) \in Nat /\ Cardinality(Process) \in Nat
    BY <2>3, Processes
  <2>6. /\ waitFor' = Cardinality(Process) - Cardinality(done')
        /\ waitFor' \in 0 .. Cardinality(Process)
    BY <1>2, <2>1, <2>2, <2>4, <2>5
  <2>7. done' \subseteq finished \cup exited
    BY <1>2, <2>1, <2>2
  <2> QED
    BY <1>2, <2>1, <2>6, <2>7
<1>5. /\ connections' \subseteq Process /\ registered' \subseteq connections'
      /\ done' \subseteq finished \cup exited
      /\ waitFor' = Cardinality(Process) - Cardinality(done')
      /\ waitFor' \in 0 .. Cardinality(Process)
  BY <1>3, <1>4
<1>6. TypeOK'
  <2>1. registered' \subseteq Process
    BY <1>5
  <2> QED
    BY <1>1, <1>5, <2>1 DEF TypeOK, StressTypeOK
<1>7. Locks' /\ Believed'
  BY <1>1 DEF Locks, Believed, BeforeTheEnd
<1>8. Counted'
  BY <1>1 DEF Counted, BeforeTheEnd, Reserved, Terminates
<1>9. Opened'
  BY <1>1 DEF Opened, AtBarrier, Beyond
<1>10. Finishing'
  BY <1>1, <1>5 DEF Finishing, exited
<1> QED
  BY <1>6, <1>7, <1>8, <1>9, <1>10

-----------------------------------------------------------------------------
(* The steps of the script. *)
LEMMA ChooseIInv ==
  ASSUME IInv, NEW t \in Stresser, NEW p \in Process, NEW op \in ProcessState,
         script = "stress", Choose(t, p, op),
         UNCHANGED <<script, messages, processVars, barrierVars,
                     finishVars>>
  PROVE  IInv'
<1> DEFINE r == [proc |-> p, op |-> op]
<1> USE DEF IInv
<1>1. /\ UNCHANGED <<script, messages, main, listener, handler, logsMutex,
                     finished, overtaken, died>>
      /\ UNCHANGED <<barrier, released, registered, connections, waitFor>>
  BY DEF processVars, barrierVars, finishVars
<1>2. /\ chosen[t] = NoAttempt /\ LockFree(p)
      /\ successfulAttempts[t] < attempts
      /\ validStateTransition(state[p], op)
      /\ chosen' = [chosen EXCEPT ![t] = r]
      /\ UNCHANGED <<state, successfulAttempts, halted, sigterm>>
  BY DEF Choose, MoreAttempts, signalVars
<1>3. \/ /\ op = "TERMINATED"
         /\ terminatedProcs < maxTerminatedProcesses
         /\ terminatedProcs' = terminatedProcs + 1
         /\ selectProc' = [selectProc EXCEPT ![t] = @ \ {p}]
      \/ op # "TERMINATED" /\ UNCHANGED <<terminatedProcs, selectProc>>
  BY DEF Choose, reserve
<1>4. /\ r \in [proc : Process, op : ProcessState] /\ r # NoAttempt
      /\ r.proc = p /\ r.op = op
  BY StressAssumption DEF ProcessState
<1> HIDE DEF r
<1>5. /\ chosen'[t] = r
      /\ \A u \in Stresser \ {t} : chosen'[u] = chosen[u]
  BY <1>2 DEF TypeOK, StressTypeOK
<1>6. TypeOK'
  <2>1. maxTerminatedProcesses \in Nat
    BY Processes DEF maxTerminatedProcesses
  <2>2. terminatedProcs' \in 0 .. maxTerminatedProcesses
    BY <1>3, <2>1 DEF TypeOK, StressTypeOK
  <2>3. selectProc' \in [Stresser -> SUBSET Process]
    BY <1>3 DEF TypeOK, StressTypeOK
  <2>4. chosen' \in
          [Stresser -> {NoAttempt} \cup [proc : Process, op : ProcessState]]
    BY <1>2, <1>4 DEF TypeOK, StressTypeOK
  <2>5. StressTypeOK'
    BY <1>2, <2>2, <2>3, <2>4 DEF TypeOK, StressTypeOK
  <2> QED
    BY <1>1, <2>5 DEF TypeOK
<1>7. Locks'
  <2> SUFFICES ASSUME NEW u \in Stresser, chosen'[u] # NoAttempt
               PROVE  /\ validStateTransition(state[chosen'[u].proc],
                                              chosen'[u].op)
                      /\ successfulAttempts[u] < attempts
                      /\ \A w \in Stresser :
                           /\ chosen'[w] # NoAttempt
                           /\ chosen'[w].proc = chosen'[u].proc
                           => w = u
    BY <1>2 DEF Locks, validStateTransition
  <2>1. \A w \in Stresser \ {t} :
          chosen'[w] # NoAttempt => chosen'[w].proc # p
    BY <1>2, <1>5 DEF LockFree
  <2>2. CASE u = t
    BY <1>2, <1>4, <1>5, <2>1, <2>2
  <2>3. CASE u # t
    <3>1. chosen'[u] = chosen[u] /\ chosen[u].proc # p
      BY <1>5, <2>1, <2>3
    <3> QED
      BY <1>4, <1>5, <2>3, <3>1 DEF Locks
  <2> QED
    BY <2>2, <2>3
<1>8. Believed'
  BY <1>1, <1>2 DEF Believed, BeforeTheEnd
<1>9. Counted'
  <2>1. /\ BeforeTheEnd /\ terminatedProcs = Cardinality(Reserved)
        /\ sigterm = {q \in Process : state[q] = "TERMINATED"}
    BY DEF Counted, Believed, BeforeTheEnd
  <2>2. /\ ~Terminates(t) /\ Terminates(t)' = (op = "TERMINATED")
        /\ \A u \in Stresser \ {t} :
             /\ Terminates(u)' = Terminates(u)
             /\ Terminates(u) => chosen[u].proc # p
    BY <1>2, <1>4, <1>5 DEF Terminates, LockFree
  <2>3. CASE op = "TERMINATED"
    <3>1. state[p] = "RUNNING"
      BY <1>2, <2>3 DEF validStateTransition
    <3>2. p \notin Reserved /\ Reserved \in SUBSET Process
      BY <2>1, <2>2, <3>1 DEF Reserved, TypeOK, StressTypeOK
    <3>3. Reserved' = Reserved \cup {p}
      <4>1. \A q \in Process :
              (\E u \in Stresser : Terminates(u)' /\ chosen'[u].proc = q) <=>
                q = p \/ \E u \in Stresser : Terminates(u) /\ chosen[u].proc = q
        BY <1>4, <1>5, <2>2, <2>3
      <4> QED
        BY <1>2, <4>1 DEF Reserved
    <3>4. Cardinality(Reserved') = Cardinality(Reserved) + 1
      BY <3>2, <3>3, Processes
    <3> QED
      BY <1>3, <2>1, <2>3, <3>4 DEF Counted
  <2>4. CASE op # "TERMINATED"
    <3>1. Reserved' = Reserved
      BY <1>2, <1>5, <2>2, <2>4 DEF Reserved
    <3> QED
      BY <1>3, <2>1, <2>4, <3>1 DEF Counted
  <2> QED
    BY <2>3, <2>4
<1>10. Opened' /\ Finishing'
  BY <1>1, <1>2 DEF Opened, AtBarrier, Beyond, Finishing, exited
<1> QED
  BY <1>6, <1>7, <1>8, <1>9, <1>10

LEMMA SendIInv ==
  ASSUME IInv, NEW t \in Stresser, script = "stress", Send(t),
         UNCHANGED <<script, messages, processVars, barrierVars,
                     finishVars>>
  PROVE  IInv'
<1> DEFINE p == chosen[t].proc
           op == chosen[t].op
<1> USE DEF IInv
<1>1. /\ UNCHANGED <<script, messages, main, listener, handler, logsMutex,
                     finished, overtaken, died>>
      /\ UNCHANGED <<barrier, released, registered, connections, waitFor>>
  BY DEF processVars, barrierVars, finishVars
<1>2. /\ chosen[t] # NoAttempt /\ Signal(p, op)
      /\ state' = [state EXCEPT ![p] = op]
      /\ successfulAttempts' = [successfulAttempts EXCEPT ![t] = @ + 1]
      /\ chosen' = [chosen EXCEPT ![t] = NoAttempt]
      /\ UNCHANGED <<terminatedProcs, selectProc>>
  BY DEF Send
<1>3. p \in Process /\ op \in ProcessState
  BY <1>2 DEF TypeOK, StressTypeOK
<1>4. /\ validStateTransition(state[p], op) /\ successfulAttempts[t] < attempts
      /\ \A u \in Stresser \ {t} : chosen[u] # NoAttempt => chosen[u].proc # p
  BY <1>2 DEF Locks
<1>5. /\ chosen'[t] = NoAttempt /\ state'[p] = op
      /\ \A u \in Stresser \ {t} :
           /\ chosen'[u] = chosen[u]
           /\ successfulAttempts'[u] = successfulAttempts[u]
      /\ \A q \in Process \ {p} : state'[q] = state[q]
  BY <1>2, <1>3 DEF TypeOK, StressTypeOK
<1>6. \/ /\ op = "STOPPED" /\ halted' = halted \cup {p} /\ sigterm' = sigterm
         /\ state[p] = "RUNNING"
      \/ /\ op = "RUNNING" /\ halted' = halted \ {p} /\ sigterm' = sigterm
         /\ state[p] = "STOPPED"
      \/ /\ op = "TERMINATED" /\ halted' = halted
         /\ sigterm' = sigterm \cup {p} /\ state[p] = "RUNNING"
  BY <1>2, <1>3, <1>4 DEF Signal, ProcessState, validStateTransition
<1> HIDE DEF p, op
<1>7. TypeOK'
  <2>1. /\ state' \in [Process -> ProcessState]
        /\ halted' \subseteq Process /\ sigterm' \subseteq Process
    BY <1>2, <1>3, <1>6 DEF TypeOK, StressTypeOK
  <2>2. successfulAttempts' \in [Stresser -> 0 .. attempts]
    <3>1. successfulAttempts[t] + 1 \in 0 .. attempts
      BY <1>4, StressAssumption DEF TypeOK, StressTypeOK
    <3> QED
      BY <1>2, <3>1 DEF TypeOK, StressTypeOK
  <2>3. chosen' \in
          [Stresser -> {NoAttempt} \cup [proc : Process, op : ProcessState]]
    BY <1>2 DEF TypeOK, StressTypeOK
  <2>4. StressTypeOK'
    BY <1>2, <2>1, <2>2, <2>3 DEF TypeOK, StressTypeOK
  <2> QED
    BY <1>1, <2>4 DEF TypeOK
<1>8. Locks'
  <2> SUFFICES ASSUME NEW u \in Stresser, chosen'[u] # NoAttempt
               PROVE  /\ validStateTransition(state'[chosen'[u].proc],
                                              chosen'[u].op)
                      /\ successfulAttempts'[u] < attempts
                      /\ \A w \in Stresser :
                           /\ chosen'[w] # NoAttempt
                           /\ chosen'[w].proc = chosen'[u].proc
                           => w = u
    BY DEF Locks, validStateTransition
  <2>1. u # t /\ chosen'[u] = chosen[u] /\ chosen[u].proc # p
    BY <1>4, <1>5
  <2>2. chosen[u].proc \in Process
    BY <2>1 DEF TypeOK, StressTypeOK
  <2>3. state'[chosen'[u].proc] = state[chosen[u].proc]
    BY <1>5, <2>1, <2>2
  <2>4. \A w \in Stresser : chosen'[w] # NoAttempt => chosen'[w] = chosen[w]
    BY <1>5
  <2> QED
    BY <1>5, <2>1, <2>3, <2>4 DEF Locks
<1>9. Believed'
  <2>1. \A q \in halted' : state'[q] = "STOPPED"
    BY <1>3, <1>5, <1>6 DEF Believed, TypeOK, StressTypeOK
  <2>2. sigterm = {q \in Process : state[q] = "TERMINATED"}
    BY DEF Believed, BeforeTheEnd
  <2>3. sigterm' = {q \in Process : state'[q] = "TERMINATED"}
    BY <1>3, <1>5, <1>6, <2>2
  <2> QED
    BY <1>1, <2>1, <2>3 DEF Believed
<1>10. Counted'
  <2>1. /\ BeforeTheEnd /\ terminatedProcs = Cardinality(Reserved)
    BY DEF Counted, BeforeTheEnd
  <2>2. /\ Terminates(t) = (op = "TERMINATED") /\ ~Terminates(t)'
        /\ \A u \in Stresser \ {t} : Terminates(u)' = Terminates(u)
    BY <1>2, <1>5 DEF Terminates, op
  <2>3. sigterm' = IF op = "TERMINATED" THEN sigterm \cup {p} ELSE sigterm
    BY <1>6
  <2>4. \A q \in Process :
          (\E u \in Stresser : Terminates(u) /\ chosen[u].proc = q) <=>
            \/ op = "TERMINATED" /\ q = p
            \/ \E u \in Stresser : Terminates(u)' /\ chosen'[u].proc = q
    BY <1>5, <2>2 DEF p
  <2>5. Reserved' = Reserved
    BY <1>3, <2>3, <2>4 DEF Reserved
  <2> QED
    BY <1>2, <2>1, <2>5 DEF Counted
<1>11. Opened' /\ Finishing'
  BY <1>1 DEF Opened, AtBarrier, Beyond, Finishing, exited
<1> QED
  BY <1>7, <1>8, <1>9, <1>10, <1>11

LEMMA ScriptIInv ==
  ASSUME IInv, ScriptStep, UNCHANGED <<processVars, barrierVars, finishVars>>
  PROVE  IInv'
<1> USE DEF IInv
<1>1. /\ UNCHANGED <<main, listener, handler, logsMutex, finished,
                     overtaken, died>>
      /\ UNCHANGED <<barrier, released, registered, connections, waitFor>>
  BY DEF processVars, barrierVars, finishVars
<1>2. UNCHANGED <<state, terminatedProcs, chosen, selectProc,
                  successfulAttempts, messages>>
  BY DEF ScriptStep, JoinBarrier, JoinStress, ContinueStopped,
         JoinFinishSignal, TerminateAll, JoinMonitors, MoveScript, stressVars,
         continueStoppedProcesses, terminateAllProcesses
<1>3. \/ /\ script = "barrier" /\ script' = "stress" /\ released = Process
         /\ UNCHANGED signalVars
      \/ /\ script = "stress" /\ script' = "continue" /\ UNCHANGED signalVars
      \/ /\ script = "continue" /\ script' = "join"
         /\ halted' = halted \ {p \in Process : state[p] = "STOPPED"}
         /\ sigterm' = sigterm
      \/ /\ script = "join" /\ script' = "input" /\ UNCHANGED signalVars
      \/ /\ script = "input" /\ script' = "exits"
         /\ halted' \subseteq halted /\ sigterm' \subseteq Process
      \/ /\ script = "exits" /\ script' = "validate" /\ UNCHANGED signalVars
  BY DEF ScriptStep, JoinBarrier, JoinStress, ContinueStopped,
         JoinFinishSignal, TerminateAll, JoinMonitors, MoveScript,
         continueStoppedProcesses, terminateAllProcesses, TypeOK, StressTypeOK
<1> USE DEF signalVars
<1>4. /\ halted' \subseteq halted /\ sigterm' \subseteq Process
      /\ script' \notin {"exits", "validate"} =>
           sigterm' = sigterm /\ script \notin {"exits", "validate"}
      /\ script' # "barrier" /\ released = Process
      /\ script' \in {"stress", "continue", "join", "input", "exits", "validate"}
  BY <1>3 DEF TypeOK, StressTypeOK, Opened
<1>5. TypeOK'
  BY <1>1, <1>2, <1>4 DEF TypeOK, StressTypeOK
<1>6. Locks'
  BY <1>2 DEF Locks, validStateTransition
<1>7. Believed'
  <2>1. halted \subseteq {p \in Process : state[p] = "STOPPED"}
    BY DEF Believed, TypeOK, StressTypeOK
  <2>2. script' \notin {"barrier", "stress", "continue"} => halted' = {}
    BY <1>3, <2>1 DEF Believed
  <2> QED
    BY <1>2, <1>4, <2>2 DEF Believed, BeforeTheEnd
<1>8. Counted'
  BY <1>2, <1>4 DEF Counted, BeforeTheEnd, Reserved, Terminates
<1>9. Opened' /\ Finishing'
  BY <1>1, <1>4 DEF Opened, AtBarrier, Beyond, Finishing, exited
<1> QED
  BY <1>5, <1>6, <1>7, <1>8, <1>9

LEMMA Invariance == Spec => []IInv
<1>1. ASSUME IInv, [Next]_vars
      PROVE  IInv'
  <2>1. ASSUME NEW p \in Process, ProcessStep(p),
               UNCHANGED <<scriptVars, barrierVars, finishVars>>
        PROVE  IInv'
    BY <1>1, <2>1, ProcessIInv
  <2>2. ASSUME NEW p \in Process, BarrierAccept(p) \/ BarrierClose(p),
               UNCHANGED <<scriptVars, processVars, finishVars>>
        PROVE  IInv'
    BY <1>1, <2>2, BarrierIInv
  <2>3. ASSUME NEW p \in Process, FinishAccept(p) \/ FinishReadEnd(p),
               UNCHANGED <<scriptVars, processVars, barrierVars>>
        PROVE  IInv'
    BY <1>1, <2>3, FinishIInv
  <2>4. ASSUME ScriptStep, UNCHANGED <<processVars, barrierVars, finishVars>>
        PROVE  IInv'
    BY <1>1, <2>4, ScriptIInv
  <2>5. ASSUME NEW t \in Stresser, StressStep(t),
               UNCHANGED <<processVars, barrierVars, finishVars>>
        PROVE  IInv'
    <3>1. script = "stress" /\ stress(t) /\ UNCHANGED <<script, messages>>
      BY <2>5 DEF StressStep
    <3>2. ASSUME NEW p \in Process, NEW op \in ProcessState, Choose(t, p, op)
          PROVE  IInv'
      BY <1>1, <2>5, <3>1, <3>2, ChooseIInv
    <3>3. CASE Send(t)
      BY <1>1, <2>5, <3>1, <3>3, SendIInv
    <3> QED
      BY <3>1, <3>2, <3>3 DEF stress
  <2>6. CASE UNCHANGED vars
    BY <1>1, <2>6
       DEF vars, scriptVars, stressVars, signalVars, processVars, barrierVars,
           finishVars, IInv, TypeOK, StressTypeOK, Locks, validStateTransition,
           Believed, BeforeTheEnd, Counted, Reserved, Terminates, Opened,
           AtBarrier, Beyond, Finishing, exited
  <2> QED
    BY <1>1, <2>1, <2>2, <2>3, <2>4, <2>5, <2>6 DEF Next, Terminating
<1> QED
  BY <1>1, InitIInv, PTL DEF Spec

-----------------------------------------------------------------------------
(* validate.py and the processes keep their variables within their types;    *)
(* the saturated counter and FinishedSignal.waitFor stay within bounds.      *)
THEOREM TypeCorrect == Spec => []TypeOK
<1>1. IInv => TypeOK
  BY DEF IInv
<1> QED
  BY <1>1, Invariance, PTL

(* However many threads it runs, the stress test terminates only a minority: *)
(* a termination is reserved before the signal is sent.                      *)
THEOREM OnlyAMinority == Spec => []MinorityTerminated
<1>1. ASSUME IInv
      PROVE  MinorityTerminated
  <2> SUFFICES ASSUME BeforeTheEnd
               PROVE  2 * Cardinality(sigterm) < Cardinality(Process)
    BY DEF MinorityTerminated, BeforeTheEnd
  <2>1. terminatedProcs = Cardinality(Reserved)
    BY <1>1 DEF IInv, Counted
  <2>2. Reserved \in SUBSET Process /\ sigterm \in SUBSET Reserved
    BY <1>1 DEF IInv, TypeOK, StressTypeOK, Reserved
  <2>3. Cardinality(sigterm) <= Cardinality(Reserved)
    BY <2>2, Processes
  <2>4. terminatedProcs \in 0 .. maxTerminatedProcesses
    BY <1>1 DEF IInv, TypeOK, StressTypeOK
  <2>5. Cardinality(sigterm) \in Nat /\ Cardinality(Process) \in Nat \ {0}
    BY <2>2, Processes
  <2>6. /\ maxTerminatedProcesses \in Int
        /\ 2 * maxTerminatedProcesses < Cardinality(Process)
    BY <2>5 DEF maxTerminatedProcesses
  <2> QED
    BY <2>1, <2>3, <2>4, <2>5, <2>6
<1> QED
  BY <1>1, Invariance, PTL

(* No process passes the barrier, and none is sent a signal, before the last *)
(* has reached it.                                                           *)
THEOREM NobodyStartsEarly == Spec => []StartTogether
<1>1. ASSUME IInv
      PROVE  StartTogether
  <2>1. released = Process => \A q \in Process : AtBarrier(q)
    BY <1>1 DEF IInv, TypeOK, Opened
  <2>2. \A p \in Process :
          Beyond(p) \/ p \in halted \cup sigterm =>
            \A q \in Process : AtBarrier(q)
    BY <1>1, <2>1 DEF IInv, Opened
  <2> QED
    BY <2>2 DEF StartTogether, Beyond
<1> QED
  BY <1>1, Invariance, PTL

(* No process is left stopped that has been sent SIGTERM, whatever the       *)
(* threads and the end of the script do.                                     *)
THEOREM SigtermIsHandled == Spec => []NotStoppedAtSigterm
<1>1. ASSUME IInv
      PROVE  NotStoppedAtSigterm
  <2>1. CASE BeforeTheEnd
    BY <1>1, <2>1 DEF IInv, Believed, NotStoppedAtSigterm
  <2>2. CASE ~BeforeTheEnd
    BY <1>1, <2>2 DEF IInv, Believed, BeforeTheEnd, NotStoppedAtSigterm
  <2> QED
    BY <2>1, <2>2
<1> QED
  BY <1>1, Invariance, PTL

(* FinishedSignal.wait returns only when every process has closed its        *)
(* connection or exited, none counted twice.                                 *)
THEOREM ScriptWaitsForAll == Spec => []FinishedOrExited
<1>1. ASSUME IInv, waitFor = 0
      PROVE  connections = Process /\ finished \cup exited = Process
  <2> DEFINE done == connections \ registered
  <2>1. /\ done \in SUBSET Process /\ connections \in SUBSET Process
        /\ done \subseteq finished \cup exited
        /\ finished \cup exited \subseteq Process
        /\ 0 = Cardinality(Process) - Cardinality(done)
    BY <1>1 DEF IInv, TypeOK, Finishing, exited
  <2> HIDE DEF done
  <2>2. Cardinality(done) \in Nat /\ Cardinality(Process) \in Nat
    BY <2>1, Processes
  <2>3. Cardinality(done) = Cardinality(Process)
    BY <2>1, <2>2
  <2>4. done = Process
    BY <2>1, <2>3, Processes
  <2> QED
    BY <2>1, <2>4 DEF done
<1>2. IInv => FinishedOrExited
  BY <1>1 DEF FinishedOrExited
<1> QED
  BY <1>2, Invariance, PTL

-----------------------------------------------------------------------------
(* The threads of a process hold logsMutex only where they log, the listener *)
(* is there from the time the layers are built, and an early packet leaves   *)
(* main() where it was.                                                      *)
Threads ==
  \A p \in Process :
    /\ handler[p] # "none" => p \in sigterm
    /\ p \in died => main[p] = "build"
    /\ logsMutex[p] = "main" => main[p] = "log"
    /\ logsMutex[p] = "listener" => listener[p] = "log"
    /\ listener[p] # "none"
         <=> main[p] \in {"build", "broadcast", "log", "send", "sleep"}

(* A thread no longer selects only processes that are terminated, or about   *)
(* to be.                                                                    *)
Selectable ==
  \A t \in Stresser : \A p \in Process \ selectProc[t] :
    \/ state[p] = "TERMINATED"
    \/ \E u \in Stresser : Terminates(u) /\ chosen[u].proc = p

AllSignalled == script \in {"exits", "validate"} => sigterm = Process

WaitInv == Threads /\ Selectable /\ AllSignalled

LEMMA InitWaitInv == Init => WaitInv
<1> SUFFICES ASSUME Init
             PROVE  WaitInv
  OBVIOUS
<1>1. Threads
  BY DEF Init, Threads
<1>2. Selectable
  BY DEF Init, StressInit, Selectable
<1>3. AllSignalled
  BY DEF Init, AllSignalled
<1> QED
  BY <1>1, <1>2, <1>3 DEF WaitInv

LEMMA ThreadsStep ==
  ASSUME ProcessTypeOK, Threads, NEW p \in Process, ProcessStep(p),
         UNCHANGED <<halted, sigterm>>
  PROVE  Threads'
<1> USE DEF ProcessTypeOK, Threads
<1>1. CASE Coordinator(p)
  BY <1>1 DEF Coordinator, MoveMain, MainRuns, Running
<1>2. CASE ConnectBarrier(p)
  BY <1>2 DEF ConnectBarrier, MoveMain
<1>3. CASE PassBarrier(p)
  BY <1>3 DEF PassBarrier, MoveMain
<1>4. CASE StartListener(p)
  <2>1. /\ main[p] = "construct"
        /\ main' = [main EXCEPT ![p] = "build"]
        /\ listener' = [listener EXCEPT ![p] = "listen"]
        /\ UNCHANGED <<handler, logsMutex, finished, overtaken, died>>
    BY <1>4 DEF StartListener, MoveMain
  <2>2. p \notin died /\ logsMutex[p] = "free" /\ listener[p] = "none"
    BY <2>1
  <2> QED
    BY <2>1, <2>2
<1>5. CASE Build(p)
  BY <1>5 DEF Build, MoveMain, MainRuns, Running, exited
<1>6. CASE DieEarly(p)
  BY <1>6 DEF DieEarly
<1>7. CASE LockInMain(p)
  BY <1>7 DEF LockInMain, MoveMain
<1>8. CASE UnlockInMain(p)
  BY <1>8 DEF UnlockInMain, MoveMain
<1>9. CASE AddToCounter(p)
  BY <1>9 DEF AddToCounter, MoveMain
<1>10. CASE LockInListener(p)
  BY <1>10 DEF LockInListener
<1>11. CASE UnlockInListener(p)
  BY <1>11 DEF UnlockInListener
<1>12. CASE finishedBroadcasting(p)
  BY <1>12 DEF finishedBroadcasting
<1>13. CASE Overtake(p)
  BY <1>13 DEF Overtake
<1>14. CASE signalHandler(p)
  BY <1>14 DEF signalHandler, MainRuns
<1>15. CASE WriteOutput(p)
  BY <1>15 DEF WriteOutput
<1> QED
  BY <1>1, <1>2, <1>3, <1>4, <1>5, <1>6, <1>7, <1>8, <1>9, <1>10, <1>11,
     <1>12, <1>13, <1>14, <1>15
     DEF ProcessStep

(* Steps of the script leave the threads of the processes where they are. *)
LEMMA ThreadsKept ==
  ASSUME Threads, UNCHANGED processVars, sigterm \subseteq sigterm'
  PROVE  Threads'
BY DEF Threads, processVars

LEMMA SelectableKept ==
  ASSUME Selectable, UNCHANGED stressVars
  PROVE  Selectable'
BY DEF Selectable, Terminates, stressVars

LEMMA ChooseWait ==
  ASSUME IInv, WaitInv, NEW t \in Stresser, NEW p \in Process,
         NEW op \in ProcessState, script = "stress", Choose(t, p, op),
         UNCHANGED <<script, processVars>>
  PROVE  WaitInv'
<1> DEFINE r == [proc |-> p, op |-> op]
<1>1. /\ chosen[t] = NoAttempt
      /\ chosen' = [chosen EXCEPT ![t] = r]
      /\ UNCHANGED <<state, halted, sigterm>>
      /\ \/ op = "TERMINATED" /\ selectProc' = [selectProc EXCEPT ![t] = @ \ {p}]
         \/ UNCHANGED selectProc
  BY DEF Choose, signalVars
<1>2. r # NoAttempt /\ r.proc = p /\ r.op = op
  BY StressAssumption DEF ProcessState
<1> HIDE DEF r
<1>3. /\ chosen'[t] = r
      /\ \A u \in Stresser \ {t} : chosen'[u] = chosen[u]
  BY <1>1 DEF IInv, TypeOK, StressTypeOK
<1>4. Threads' /\ AllSignalled'
  BY <1>1, ThreadsKept DEF WaitInv, AllSignalled
<1>5. Selectable'
  <2> SUFFICES ASSUME NEW u \in Stresser, NEW q \in Process, q \notin selectProc'[u]
               PROVE  \/ state'[q] = "TERMINATED"
                      \/ \E w \in Stresser : Terminates(w)' /\ chosen'[w].proc = q
    BY DEF Selectable
  <2>1. CASE q \notin selectProc[u]
    <3>1. \/ state[q] = "TERMINATED"
          \/ \E w \in Stresser : Terminates(w) /\ chosen[w].proc = q
      BY <2>1 DEF WaitInv, Selectable
    <3>2. ASSUME NEW w \in Stresser, Terminates(w), chosen[w].proc = q
          PROVE  Terminates(w)' /\ chosen'[w].proc = q
      BY <1>1, <1>3, <3>2 DEF Terminates
    <3> QED
      BY <1>1, <3>1, <3>2
  <2>2. CASE q \in selectProc[u]
    <3>1. q = p /\ op = "TERMINATED"
      BY <1>1, <2>2 DEF IInv, TypeOK, StressTypeOK
    <3>2. Terminates(t)' /\ chosen'[t].proc = q
      BY <1>2, <1>3, <3>1 DEF Terminates
    <3> QED
      BY <3>2
  <2> QED
    BY <2>1, <2>2
<1> QED
  BY <1>4, <1>5 DEF WaitInv

LEMMA SendWait ==
  ASSUME IInv, WaitInv, NEW t \in Stresser, script = "stress", Send(t),
         UNCHANGED <<script, processVars>>
  PROVE  WaitInv'
<1> DEFINE p == chosen[t].proc
           op == chosen[t].op
<1>1. /\ chosen[t] # NoAttempt /\ Signal(p, op)
      /\ state' = [state EXCEPT ![p] = op]
      /\ chosen' = [chosen EXCEPT ![t] = NoAttempt]
      /\ UNCHANGED selectProc
  BY DEF Send
<1>2. p \in Process /\ state[p] # "TERMINATED"
  BY <1>1 DEF IInv, TypeOK, StressTypeOK, Locks, validStateTransition
<1>3. sigterm \subseteq sigterm'
  BY <1>1 DEF Signal
<1>4. state'[p] = op /\ \A q \in Process : q # p => state'[q] = state[q]
  BY <1>1, <1>2 DEF IInv, TypeOK, StressTypeOK
<1>5. \A u \in Stresser : u # t => chosen'[u] = chosen[u]
  BY <1>1 DEF IInv, TypeOK, StressTypeOK
<1>6. Terminates(t) => op = "TERMINATED"
  BY DEF Terminates
<1>7. Selectable'
  <2> SUFFICES ASSUME NEW u \in Stresser, NEW q \in Process, q \notin selectProc[u]
               PROVE  \/ state'[q] = "TERMINATED"
                      \/ \E w \in Stresser : Terminates(w)' /\ chosen'[w].proc = q
    BY <1>1 DEF Selectable
  <2>1. \/ state[q] = "TERMINATED"
        \/ \E w \in Stresser : Terminates(w) /\ chosen[w].proc = q
    BY DEF WaitInv, Selectable
  <2>2. CASE state[q] = "TERMINATED"
    BY <1>2, <1>4, <2>2
  <2>3. ASSUME NEW w \in Stresser, Terminates(w), chosen[w].proc = q, w # t
        PROVE  Terminates(w)' /\ chosen'[w].proc = q
    BY <1>5, <2>3 DEF Terminates
  <2>4. Terminates(t) /\ chosen[t].proc = q => state'[q] = "TERMINATED"
    BY <1>4, <1>6
  <2> QED
    BY <2>1, <2>2, <2>3, <2>4
<1>8. Threads' /\ AllSignalled'
  BY <1>3, ThreadsKept DEF WaitInv, AllSignalled
<1> QED
  BY <1>7, <1>8 DEF WaitInv

LEMMA ScriptWait ==
  ASSUME IInv, WaitInv, ScriptStep, UNCHANGED processVars
  PROVE  WaitInv'
<1>1. UNCHANGED stressVars
  BY DEF ScriptStep, JoinBarrier, JoinStress, ContinueStopped,
         JoinFinishSignal, TerminateAll, JoinMonitors, continueStoppedProcesses,
         terminateAllProcesses
<1>2. \/ script' \notin {"exits", "validate"} /\ sigterm' = sigterm
      \/ /\ script = "input"
         /\ sigterm' = sigterm \cup {p \in Process : state[p] # "TERMINATED"}
      \/ script = "exits" /\ sigterm' = sigterm
  BY DEF ScriptStep, JoinBarrier, JoinStress, ContinueStopped,
         JoinFinishSignal, TerminateAll, JoinMonitors, MoveScript,
         continueStoppedProcesses, terminateAllProcesses, signalVars
<1>3. sigterm \subseteq sigterm'
  BY <1>2
<1>4. AllSignalled'
  <2>1. CASE script = "input"
    <3>1. sigterm = {p \in Process : state[p] = "TERMINATED"}
      BY <2>1 DEF IInv, Believed, BeforeTheEnd
    <3> QED
      BY <1>2, <2>1, <3>1 DEF AllSignalled
  <2>2. CASE script = "exits"
    BY <1>2, <2>2 DEF WaitInv, AllSignalled
  <2>3. CASE script' \notin {"exits", "validate"}
    BY <2>3 DEF AllSignalled
  <2> QED
    BY <1>2, <2>1, <2>2, <2>3
<1> QED
  BY <1>1, <1>3, <1>4, ThreadsKept, SelectableKept DEF WaitInv

LEMMA WaitInvariance == Spec => []WaitInv
<1>1. ASSUME IInv, WaitInv, [Next]_vars
      PROVE  WaitInv'
  <2>1. ASSUME NEW p \in Process, ProcessStep(p),
               UNCHANGED <<scriptVars, barrierVars, finishVars>>
        PROVE  WaitInv'
    <3>1. UNCHANGED <<stressVars, halted, sigterm, script>>
      BY <2>1 DEF scriptVars, signalVars
    <3>2. Threads'
      BY <1>1, <2>1, <3>1, ThreadsStep DEF WaitInv, IInv, TypeOK, ProcessTypeOK
    <3>3. Selectable' /\ AllSignalled'
      BY <1>1, <3>1, SelectableKept DEF WaitInv, AllSignalled
    <3> QED
      BY <3>2, <3>3 DEF WaitInv
  <2>2. ASSUME UNCHANGED <<scriptVars, processVars>>
        PROVE  WaitInv'
    <3>1. UNCHANGED <<stressVars, sigterm, script, processVars>>
      BY <2>2 DEF scriptVars, signalVars
    <3> QED
      BY <1>1, <3>1, ThreadsKept, SelectableKept DEF WaitInv, AllSignalled
  <2>3. ASSUME ScriptStep, UNCHANGED <<processVars, barrierVars, finishVars>>
        PROVE  WaitInv'
    BY <1>1, <2>3, ScriptWait
  <2>4. ASSUME NEW t \in Stresser, StressStep(t),
               UNCHANGED <<processVars, barrierVars, finishVars>>
        PROVE  WaitInv'
    <3>1. script = "stress" /\ stress(t) /\ UNCHANGED <<script, messages>>
      BY <2>4 DEF StressStep
    <3>2. ASSUME NEW p \in Process, NEW op \in ProcessState, Choose(t, p, op)
          PROVE  WaitInv'
      BY <1>1, <2>4, <3>1, <3>2, ChooseWait
    <3>3. CASE Send(t)
      BY <1>1, <2>4, <3>1, <3>3, SendWait
    <3> QED
      BY <3>1, <3>2, <3>3 DEF stress
  <2>5. CASE UNCHANGED vars
    BY <2>2, <2>5 DEF vars
  <2> QED
    BY <1>1, <2>1, <2>2, <2>3, <2>4, <2>5 DEF Next, Terminating
<1> QED
  BY <1>1, InitWaitInv, Invariance, PTL DEF Spec

-----------------------------------------------------------------------------
(* A process that has passed the barrier and is not stopped can go on, or    *)
(* hangs, has exited, or sleeps in main() with a listener that listens.      *)
Sleeps(p) ==
  /\ p \notin sigterm /\ main[p] = "sleep" /\ listener[p] \in {"listen", "logged"}

LEMMA MovesOrSleeps ==
  ASSUME IInv, WaitInv, NEW p \in Process, released = Process, halted = {}
  PROVE  ProcessCanMove(p) \/ Hung(p) \/ p \in exited \/ Sleeps(p)
<1> SUFFICES ASSUME p \notin exited, ~Hung(p), ~ProcessCanMove(p)
             PROVE  Sleeps(p)
  OBVIOUS
<1>1. /\ handler[p] \in {"none", "stopped"}
      /\ logsMutex[p] \in {"free", "main", "listener"}
      /\ listener[p] \in {"none", "listen", "log", "logged"}
      /\ main[p] \in {"parse", "connected", "waiting", "construct",
                      "build", "broadcast", "log", "send", "sleep"}
  BY DEF IInv, TypeOK, exited
<1>2. Running(p) /\ listener[p] # "log"
  BY DEF Running, ProcessCanMove
<1>3. logsMutex[p] # "listener" /\ (logsMutex[p] = "main" => main[p] = "log")
  BY <1>2 DEF WaitInv, Threads
<1>4. handler[p] = "none"
  BY <1>1, <1>2, <1>3 DEF Hung, ProcessCanMove
<1>5. ~MainCanMove(p)
  BY <1>2, <1>4 DEF ProcessCanMove
<1>6. p \notin sigterm /\ main[p] = "sleep"
  BY <1>1, <1>3, <1>5 DEF MainCanMove
<1>7. listener[p] # "none"
  BY <1>6 DEF WaitInv, Threads
<1> QED
  BY <1>1, <1>2, <1>6, <1>7 DEF Sleeps

LEMMA BarrierGoesOn == IInv /\ WaitInv /\ script = "barrier" => CanMove
<1> SUFFICES ASSUME IInv, WaitInv, script = "barrier", ~CanMove
             PROVE  FALSE
  OBVIOUS
<1>1. halted = {} /\ sigterm = {}
  BY DEF IInv, Opened
<1>2. \A p \in Process : handler[p] = "none"
  BY <1>1 DEF WaitInv, Threads
<1>3. ASSUME NEW p \in Process
      PROVE  AtBarrier(p)
  <2> SUFFICES ASSUME main[p] \in {"parse", "connected"}
               PROVE  FALSE
    BY DEF AtBarrier
  <2>1. p \notin died
    BY DEF WaitInv, Threads
  <2>2. Running(p)
    BY <1>1, <1>2, <2>1 DEF Running, exited
  <2>3. ProcessCanMove(p)
    BY <1>2, <2>2 DEF ProcessCanMove, MainCanMove
  <2> QED
    BY <2>3 DEF CanMove
<1>4. AllConnected(barrier) <=> barrier = Process
  BY Processes DEF AllConnected, IInv, TypeOK
<1>5. \A p \in Process : ~BarrierCanMove(p)
  BY DEF CanMove
<1>6. barrier = Process
  BY <1>3, <1>4, <1>5 DEF BarrierCanMove, IInv, TypeOK
<1>7. released = Process
  BY <1>4, <1>5, <1>6 DEF BarrierCanMove, IInv, TypeOK
<1> QED
  BY <1>7 DEF CanMove, ScriptCanMove

LEMMA StressGoesOn ==
  IInv /\ WaitInv /\ MinorityTerminated /\ script = "stress" => CanMove
<1> SUFFICES ASSUME IInv, WaitInv, MinorityTerminated, script = "stress", ~CanMove
             PROVE  FALSE
  OBVIOUS
<1>1. PICK t \in Stresser : successfulAttempts[t] # attempts
  BY DEF CanMove, ScriptCanMove, StressComplete
<1>2. MoreAttempts(t)
  <2>1. successfulAttempts[t] \in 0 .. attempts /\ attempts \in Nat
    BY StressAssumption DEF IInv, TypeOK, StressTypeOK
  <2> QED
    BY <1>1, <2>1 DEF MoreAttempts
<1>3. \A u \in Stresser : ~StresserCanMove(u)
  BY DEF CanMove
<1>4. \A u \in Stresser : chosen[u] = NoAttempt
  BY <1>3 DEF StresserCanMove
<1>5. PICK p \in Process : p \notin sigterm
  <2>1. sigterm \in SUBSET Process
    BY DEF IInv, TypeOK, StressTypeOK
  <2>2. 2 * Cardinality(sigterm) < Cardinality(Process)
    BY DEF MinorityTerminated
  <2>3. Cardinality(Process) \in Nat \ {0}
    BY Processes
  <2>4. sigterm # Process
    BY <2>2, <2>3
  <2> QED
    BY <2>1, <2>4
<1>6. state[p] # "TERMINATED"
  BY <1>5 DEF IInv, Believed, BeforeTheEnd
<1>7. p \in selectProc[t]
  BY <1>4, <1>6 DEF WaitInv, Selectable, Terminates
<1>8. LockFree(p)
  BY <1>4 DEF LockFree
<1>9. StresserCanMove(t)
  BY <1>2, <1>4, <1>6, <1>7, <1>8 DEF StresserCanMove
<1> QED
  BY <1>3, <1>9

LEMMA JoinGoesOn ==
  ASSUME IInv, WaitInv, MinorityTerminated, script = "join",
         \A p \in Process : ~Hung(p),
         \A p \in Process \ exited : ~Stalled(p)
  PROVE  CanMove \/ (died # {} /\ 2 * Cardinality(exited) >= Cardinality(Process))
<1> SUFFICES ASSUME ~CanMove
             PROVE  died # {} /\ 2 * Cardinality(exited) >= Cardinality(Process)
  OBVIOUS
<1>1. /\ halted = {} /\ released = Process
      /\ \A p \in Process : AtBarrier(p)
  BY DEF IInv, TypeOK, Believed, Opened
<1>2. /\ \A p \in Process : ~ProcessCanMove(p) /\ ~FinishSignalCanMove(p)
      /\ waitFor # 0
  BY DEF CanMove, ScriptCanMove
<1>3. \A p \in Process \ exited : Sleeps(p)
  BY <1>1, <1>2, MovesOrSleeps
<1>4. waitFor > 0 /\ connections \subseteq Process /\ registered \subseteq Process
  <2>1. waitFor \in 0 .. Cardinality(Process) /\ Cardinality(Process) \in Nat
    BY Processes DEF IInv, TypeOK
  <2>2. waitFor > 0
    BY <1>2, <2>1
  <2> QED
    BY <2>2 DEF IInv, TypeOK
<1>5. connections = Process
  BY <1>1, <1>2, <1>4 DEF FinishSignalCanMove, Connected, AtBarrier
<1>6. PICK p \in registered : p \in Process /\ p \notin finished \cup exited
  <2>1. registered # {}
    <3>1. waitFor = Cardinality(Process) - Cardinality(connections \ registered)
      BY DEF IInv, Finishing
    <3>2. Cardinality(Process) \in Nat
      BY Processes
    <3>3. connections \ registered # Process
      BY <1>4, <3>1, <3>2
    <3> QED
      BY <1>5, <3>3
  <2> QED
    BY <1>2, <1>4, <2>1 DEF FinishSignalCanMove
<1>7. Sleeps(p) /\ Running(p)
  BY <1>1, <1>3, <1>6 DEF Running
<1>8. ~(2 * Cardinality(Listeners) > Cardinality(Process))
  <2>1. messages > 0
    <3>1. messages \in Nat /\ messages # 0
      BY <1>6, MessagesAssumption DEF IInv, TypeOK, Stalled
    <3> QED
      BY <3>1
  <2>2. p \notin finished \cup overtaken
    BY <1>6 DEF Stalled
  <2> QED
    BY <1>2, <1>6, <1>7, <2>1, <2>2
       DEF ProcessCanMove, GroupCounted, Sent, Sleeps
<1> DEFINE alive == Process \ exited
<1>9. /\ exited \in SUBSET Process /\ Listeners \in SUBSET Process
      /\ alive \in SUBSET Listeners
  <2>1. exited \in SUBSET Process /\ died \in SUBSET exited
    BY DEF IInv, TypeOK, exited
  <2> QED
    BY <1>3, <2>1 DEF Sleeps, Listeners
<1>10. 2 * Cardinality(exited) >= Cardinality(Process)
  <2>1. /\ Cardinality(alive) <= Cardinality(Listeners)
        /\ Cardinality(alive) \in Nat /\ Cardinality(Listeners) \in Nat
        /\ Cardinality(Process) \in Nat /\ Cardinality(exited) \in Nat
    <3>1. alive \in SUBSET Process
      OBVIOUS
    <3> HIDE DEF alive
    <3> QED
      BY <1>9, <3>1, Processes
  <2>2. Cardinality(alive) = Cardinality(Process) - Cardinality(exited)
    <3>1. IsFiniteSet(Process) /\ IsFiniteSet(exited)
      BY <1>9, StressAssumption, FS_Subset
    <3>2. /\ Cardinality(Process \ exited)
               = Cardinality(Process) - Cardinality(Process \cap exited)
          /\ Process \cap exited = exited
      BY <1>9, <3>1, FS_Difference
    <3> QED
      BY <3>2
  <2> HIDE DEF alive
  <2> QED
    BY <1>8, <2>1, <2>2
<1>11. died # {}
  <2> SUFFICES ASSUME died = {}
               PROVE  FALSE
    OBVIOUS
  <2>1. exited \in SUBSET sigterm /\ sigterm \in SUBSET Process
    BY DEF exited, WaitInv, Threads, IInv, TypeOK, StressTypeOK
  <2>2. /\ Cardinality(exited) <= Cardinality(sigterm)
        /\ Cardinality(exited) \in Nat /\ Cardinality(sigterm) \in Nat
        /\ Cardinality(Process) \in Nat
    BY <1>9, <2>1, Processes
  <2>3. 2 * Cardinality(sigterm) < Cardinality(Process)
    BY DEF MinorityTerminated
  <2> QED
    BY <1>10, <2>2, <2>3
<1> QED
  BY <1>10, <1>11

LEMMA ExitsGoOn ==
  ASSUME IInv, WaitInv, script = "exits", \A p \in Process : ~Hung(p)
  PROVE  CanMove
<1> SUFFICES ASSUME exited # Process
             PROVE  CanMove
  BY DEF CanMove, ScriptCanMove
<1>1. halted = {} /\ released = Process /\ sigterm = Process
  BY DEF IInv, Believed, Opened, WaitInv, AllSignalled
<1>2. PICK p \in Process : p \notin exited
  BY DEF exited, IInv, TypeOK
<1>3. ProcessCanMove(p)
  BY <1>1, <1>2, MovesOrSleeps DEF Sleeps
<1> QED
  BY <1>3 DEF CanMove

(* A run of the test script goes on until it validates the outputs, whoever  *)
(* is stopped, terminated or ended by an early packet when (validate.py:     *)
(* 458-512), for every workload, unless a handler hangs, early packets leave *)
(* no majority, or a process that has not exited never signals that it has   *)
(* finished: its first group was overtaken, or it has nothing to broadcast.  *)
THEOREM NoDeadlock == Spec => []RunEnds
<1>1. ASSUME IInv, WaitInv, MinorityTerminated
      PROVE  RunEnds
  <2>1. script \in {"barrier", "stress", "continue", "join", "input", "exits",
                    "validate"}
    BY <1>1 DEF IInv, TypeOK
  <2>2. CASE script = "barrier"
    BY <1>1, <2>2, BarrierGoesOn DEF RunEnds, Over
  <2>3. CASE script = "stress"
    BY <1>1, <2>3, StressGoesOn DEF RunEnds, Over
  <2>4. CASE script \in {"continue", "input"}
    BY <2>4 DEF RunEnds, Over, CanMove, ScriptCanMove
  <2>5. CASE script = "join"
    BY <1>1, <2>5, JoinGoesOn DEF RunEnds, Over
  <2>6. CASE script = "exits"
    BY <1>1, <2>6, ExitsGoOn DEF RunEnds, Over
  <2>7. CASE script = "validate"
    BY <2>7 DEF RunEnds, Over
  <2> QED
    BY <2>1, <2>2, <2>3, <2>4, <2>5, <2>6, <2>7
<1> QED
  BY <1>1, Invariance, WaitInvariance, OnlyAMinority, PTL

=============================================================================
