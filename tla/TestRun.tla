-------------------------------- MODULE TestRun -------------------------------
(***************************************************************************)
(* A run of the system under the test script: main() of validate.py with its *)
(* Barrier (barrier.py), FinishedSignal (finishedSignal.py) and StressTest   *)
(* threads, and the processes with their Coordinator (barrier.hpp), their    *)
(* main() and their signal handler (main.cpp).                               *)
(*                                                                         *)
(* Of the broadcasts of a process only two things are kept: that main() and  *)
(* the listener log events under logsMutex, and whether the listener counts  *)
(* the deliveries of the first group of messages before or after main() has  *)
(* added it to counter: on this depends if finishedBroadcasting() is ever    *)
(* called (FIFOController models the groups).  The handler runs on the       *)
(* thread of main(): Linux delivers a signal to a process to its main thread *)
(* if it can.                                                                *)
(***************************************************************************)
EXTENDS StressTest

CONSTANTS
  nPacketsPerBroadcast,   \* 10 in the code
  Workloads,              \* bound: what --messages may be
  nLogged                 \* bound: listeners that log a delivery

ASSUME MessagesAssumption ==
  nPacketsPerBroadcast \in Nat \ {0} /\ Workloads \subseteq Nat

VARIABLES
  main,         \* main[p]: where main() is
  listener,     \* listener[p]: where the listener thread is
  handler,      \* handler[p]: where the signal handler is
  logsMutex,    \* logsMutex[p]: the thread that holds it, or "free"
  finished,     \* processes that have closed signalFd_
  overtaken,    \* processes whose listener has counted the first group before
                \* main() has added it to counter
  died,         \* processes that an exception in the listener has ended
  barrier,      \* pids in the connections of Barrier.wait
  released,     \* those that it has closed
  registered,   \* pids whose connections the selector watches
  connections,  \* pids whose id FinishedSignal.read has received
  waitFor,      \* FinishedSignal.waitFor
  script,       \* where main() of validate.py is
  messages      \* messages that each process broadcasts

processVars == <<main, listener, handler, logsMutex, finished,
                 overtaken, died>>
barrierVars == <<barrier, released>>
finishVars == <<registered, connections, waitFor>>
scriptVars == <<stressVars, signalVars, script, messages>>
vars == <<scriptVars, processVars, barrierVars, finishVars>>

Init ==
  /\ StressInit
  /\ main = [p \in Process |-> "parse"]
  /\ listener = [p \in Process |-> "none"]
  /\ handler = [p \in Process |-> "none"]
  /\ logsMutex = [p \in Process |-> "free"]
  /\ finished = {}
  /\ overtaken = {}
  /\ died = {}
  /\ barrier = {}
  /\ released = {}
  /\ registered = {}
  /\ connections = {}
  /\ waitFor = Cardinality(Process)
  /\ script = "barrier"
  /\ messages \in Workloads

-----------------------------------------------------------------------------
(* A process *)

Connected(p) == main[p] # "parse"                \* to the finish signal
AtBarrier(p) == main[p] \notin {"parse", "connected"}
exited == died \cup {p \in Process : handler[p] = "exited"}

(* The threads of a process run unless it is stopped or has exited; main()   *)
(* never comes back from the handler.                                        *)
Running(p) == p \notin halted \cup exited
MainRuns(p) == Running(p) /\ handler[p] = "none"

MoveMain(p, from, to) ==
  /\ MainRuns(p)
  /\ main[p] = from
  /\ main' = [main EXCEPT ![p] = to]

(* The constructor of Coordinator connects to the finish signal ... *)
Coordinator(p) ==
  /\ MoveMain(p, "parse", "connected")
  /\ UNCHANGED <<listener, handler, logsMutex, finished, overtaken, died>>

(* ... and waitOnBarrier to the barrier, where it blocks in recv() until the *)
(* connection is closed.                                                     *)
ConnectBarrier(p) ==
  /\ MoveMain(p, "connected", "waiting")
  /\ UNCHANGED <<listener, handler, logsMutex, finished, overtaken, died>>

PassBarrier(p) ==
  /\ p \in released
  /\ MoveMain(p, "waiting", "construct")
  /\ UNCHANGED <<listener, handler, logsMutex, finished, overtaken, died>>

(* new LCBroadcast starts the listener first ... *)
StartListener(p) ==
  /\ MoveMain(p, "construct", "build")
  /\ listener' = [listener EXCEPT ![p] = "listen"]
  /\ UNCHANGED <<handler, logsMutex, finished, overtaken, died>>

(* ... and then builds what the listener uses. *)
Build(p) ==
  /\ MoveMain(p, "build", "broadcast")
  /\ UNCHANGED <<listener, handler, logsMutex, finished, overtaken, died>>

(* Packets of p are on their way. *)
Sent(p) == messages > 0 /\ main[p] \in {"send", "sleep"}

(* In between, a packet of a process that is ahead may end this one; Startup *)
(* models how.                                                               *)
DieEarly(p) ==
  /\ Running(p)
  /\ main[p] = "build"
  /\ \E q \in Process : Sent(q)
  /\ died' = died \cup {p}
  /\ UNCHANGED <<main, listener, handler, logsMutex, finished, overtaken>>

(* broadcastCB, called from the loop of groupedBroadcast in main(), logs a   *)
(* message under logsMutex.  One turn of the loop is enough.                 *)
LockInMain(p) ==
  /\ messages > 0
  /\ MoveMain(p, "broadcast", "log")
  /\ logsMutex[p] = "free"
  /\ logsMutex' = [logsMutex EXCEPT ![p] = "main"]
  /\ UNCHANGED <<listener, handler, finished, overtaken, died>>

UnlockInMain(p) ==
  /\ MoveMain(p, "log", "send")
  /\ logsMutex' = [logsMutex EXCEPT ![p] = "free"]
  /\ UNCHANGED <<listener, handler, finished, overtaken, died>>

(* The loop ends when the packets of the group have been handed over, or at  *)
(* once if there are none; counter += n, and main() sleeps for ever.         *)
AddToCounter(p) ==
  /\ \/ MoveMain(p, "send", "sleep")
     \/ messages = 0 /\ MoveMain(p, "broadcast", "sleep")
  /\ UNCHANGED <<listener, handler, logsMutex, finished, overtaken, died>>

(* receivePacket, called from the listener, which goes on for a packet after *)
(* the handler's stop() (PerfectLink models the flag).  One packet whose     *)
(* delivery is logged is enough, at a few processes.                         *)
LockInListener(p) ==
  /\ Running(p)
  /\ listener[p] = "listen"
  /\ logsMutex[p] = "free"
  /\ \E q \in Process : Sent(q)
  /\ Cardinality({q \in Process : listener[q] \in {"log", "logged"}}) < nLogged
  /\ logsMutex' = [logsMutex EXCEPT ![p] = "listener"]
  /\ listener' = [listener EXCEPT ![p] = "log"]
  /\ UNCHANGED <<main, handler, finished, overtaken, died>>

UnlockInListener(p) ==
  /\ Running(p)
  /\ listener[p] = "log"
  /\ logsMutex' = [logsMutex EXCEPT ![p] = "free"]
  /\ listener' = [listener EXCEPT ![p] = "logged"]
  /\ UNCHANGED <<main, handler, finished, overtaken, died>>

Listeners == {q \in Process \ died : listener[q] # "none"}

(* The listener counts the last own delivery of the first group, for which a *)
(* majority must have been listening and have not died ...                   *)
GroupCounted(p) ==
  /\ Running(p)
  /\ listener[p] \in {"listen", "logged"}
  /\ Sent(p)
  /\ p \notin finished \cup overtaken
  /\ 2 * Cardinality(Listeners) > Cardinality(Process)

(* ... which is the last of all if there is one group; otherwise it starts   *)
(* the next, and counts the last of all some time later, if main() has added *)
(* the first to counter.                                                     *)
finishedBroadcasting(p) ==
  /\ GroupCounted(p)
  /\ messages <= nPacketsPerBroadcast \/ main[p] = "sleep"
  /\ finished' = finished \cup {p}
  /\ UNCHANGED <<main, listener, handler, logsMutex, overtaken, died>>

(* If main() has not, the comparison with counter fails, and is not made     *)
(* again: there are no more own deliveries.                                  *)
Overtake(p) ==
  /\ GroupCounted(p)
  /\ messages > nPacketsPerBroadcast /\ main[p] = "send"
  /\ overtaken' = overtaken \cup {p}
  /\ UNCHANGED <<main, listener, handler, logsMutex, finished, died>>

(* signalHandler interrupts main() wherever it is, sets the stop flags ...   *)
signalHandler(p) ==
  /\ MainRuns(p)
  /\ p \in sigterm
  /\ handler' = [handler EXCEPT ![p] = "stopped"]
  /\ UNCHANGED <<main, listener, logsMutex, finished, overtaken, died>>

(* ... locks logsMutex, writes the output and exits.  std::mutex does not    *)
(* let the thread that holds it lock it again.                               *)
WriteOutput(p) ==
  /\ Running(p)
  /\ handler[p] = "stopped"
  /\ logsMutex[p] = "free"
  /\ handler' = [handler EXCEPT ![p] = "exited"]
  /\ UNCHANGED <<main, listener, logsMutex, finished, overtaken, died>>

ProcessStep(p) ==
  \/ Coordinator(p)
  \/ ConnectBarrier(p)
  \/ PassBarrier(p)
  \/ StartListener(p)
  \/ Build(p)
  \/ DieEarly(p)
  \/ LockInMain(p)
  \/ UnlockInMain(p)
  \/ AddToCounter(p)
  \/ LockInListener(p)
  \/ UnlockInListener(p)
  \/ finishedBroadcasting(p)
  \/ Overtake(p)
  \/ signalHandler(p)
  \/ WriteOutput(p)

-----------------------------------------------------------------------------
(* Barrier.wait *)

(* Mutant: the barrier opens when one process is missing. *)
AlmostAll(pids) == Cardinality(pids) >= Cardinality(Process) - 1

AllConnected(pids) == Cardinality(pids) = Cardinality(Process)

BarrierAccept(p) ==
  /\ ~AllConnected(barrier)
  /\ AtBarrier(p)
  /\ p \notin barrier
  /\ barrier' = barrier \cup {p}
  /\ UNCHANGED released

(* One turn of the loop that closes the connections. *)
BarrierClose(p) ==
  /\ AllConnected(barrier)
  /\ p \in barrier \ released
  /\ released' = released \cup {p}
  /\ UNCHANGED barrier

(* FinishedSignal.wait calls accept and then read, for the id, when the      *)
(* selector says so ...                                                      *)
FinishAccept(p) ==
  /\ waitFor > 0
  /\ Connected(p)
  /\ p \notin connections
  /\ connections' = connections \cup {p}
  /\ registered' = registered \cup {p}
  /\ UNCHANGED waitFor

(* Mutant: the connection stays registered and is read again. *)
FinishReadEndAgain(p) ==
  /\ waitFor > 0
  /\ p \in registered
  /\ p \in finished \cup exited
  /\ waitFor' = waitFor - 1
  /\ UNCHANGED <<registered, connections>>

(* ... and read again when the process has closed its connection or exited.  *)
FinishReadEnd(p) ==
  /\ waitFor > 0
  /\ p \in registered
  /\ p \in finished \cup exited
  /\ waitFor' = waitFor - 1
  /\ registered' = registered \ {p}
  /\ UNCHANGED connections

-----------------------------------------------------------------------------
(* main() of validate.py *)

MoveScript(from, to) ==
  script = from /\ script' = to /\ UNCHANGED messages

JoinBarrier ==
  /\ MoveScript("barrier", "stress")
  /\ released = Process
  /\ UNCHANGED <<stressVars, signalVars>>

StressStep(t) ==
  script = "stress" /\ stress(t) /\ UNCHANGED <<script, messages>>

JoinStress ==
  /\ StressComplete
  /\ MoveScript("stress", "continue")
  /\ UNCHANGED <<stressVars, signalVars>>

ContinueStopped ==
  /\ MoveScript("continue", "join")
  /\ continueStoppedProcesses

JoinFinishSignal ==
  /\ waitFor = 0
  /\ MoveScript("join", "input")
  /\ UNCHANGED <<stressVars, signalVars>>

(* The user hits Enter. *)
TerminateAll ==
  /\ MoveScript("input", "exits")
  /\ terminateAllProcesses

(* The monitors have seen every process exit. *)
JoinMonitors ==
  /\ exited = Process
  /\ MoveScript("exits", "validate")
  /\ UNCHANGED <<stressVars, signalVars>>

ScriptStep ==
  \/ JoinBarrier
  \/ JoinStress
  \/ ContinueStopped
  \/ JoinFinishSignal
  \/ TerminateAll
  \/ JoinMonitors

(* The handler of p waits for a mutex that its own thread holds. *)
Hung(p) == handler[p] = "stopped" /\ logsMutex[p] = "main"

(* finishedBroadcasting is never called at p: there is nothing to broadcast, *)
(* or the first group has been overtaken (FIFOController!EventuallyFinished  *)
(* is violated).                                                             *)
Stalled(p) == messages = 0 \/ p \in overtaken

(* The outputs have been written; or a run need not get there: a handler     *)
(* hangs, the script waits for a process that has stalled, or early packets  *)
(* and terminations together leave no majority.                              *)
Over ==
  \/ script = "validate"
  \/ \E p \in Process : Hung(p)
  \/ script = "join" /\ \E p \in Process \ exited : Stalled(p)
  \/ /\ script = "join" /\ died # {}
     /\ 2 * Cardinality(exited) >= Cardinality(Process)

(* Only then may nothing happen any more. *)
Terminating == Over /\ UNCHANGED vars

Next ==
  \/ /\ \E p \in Process : ProcessStep(p)
     /\ UNCHANGED <<scriptVars, barrierVars, finishVars>>
  \/ /\ \E p \in Process : BarrierAccept(p) \/ BarrierClose(p)
     /\ UNCHANGED <<scriptVars, processVars, finishVars>>
  \/ /\ \E p \in Process : FinishAccept(p) \/ FinishReadEnd(p)
     /\ UNCHANGED <<scriptVars, processVars, barrierVars>>
  \/ /\ ScriptStep \/ \E t \in Stresser : StressStep(t)
     /\ UNCHANGED <<processVars, barrierVars, finishVars>>
  \/ Terminating

Spec == Init /\ [][Next]_vars

-----------------------------------------------------------------------------
TypeOK ==
  /\ StressTypeOK
  /\ main \in [Process -> {"parse", "connected", "waiting", "construct",
                           "build", "broadcast", "log", "send", "sleep"}]
  /\ listener \in [Process -> {"none", "listen", "log", "logged"}]
  /\ handler \in [Process -> {"none", "stopped", "exited"}]
  /\ logsMutex \in [Process -> {"free", "main", "listener"}]
  /\ finished \subseteq Process
  /\ overtaken \subseteq Process
  /\ died \subseteq Process
  /\ barrier \subseteq Process
  /\ released \subseteq barrier
  /\ registered \subseteq Process
  /\ connections \subseteq Process
  /\ waitFor \in 0 .. Cardinality(Process)
  /\ script \in {"barrier", "stress", "continue", "join", "input", "exits",
                 "validate"}
  /\ messages \in Workloads

(* As long as the broadcasts may go on, the stress test has terminated only  *)
(* a minority, whatever its threads do at once: the assumption of            *)
(* UniformBroadcast.                                                         *)
MinorityTerminated ==
  script \in {"barrier", "stress", "continue", "join"} =>
    2 * Cardinality(sigterm) < Cardinality(Process)

(* No process broadcasts, and none is sent a signal, before every process    *)
(* has installed its handler and reached the barrier.                        *)
StartTogether ==
  \A p \in Process :
    main[p] \in {"construct", "build", "broadcast", "log", "send", "sleep"}
        \/ p \in halted \cup sigterm
      => \A q \in Process : AtBarrier(q)

(* A process that has been sent SIGTERM is not stopped, so that it handles   *)
(* the signal; the lock in ProcessInfo keeps another thread from stopping    *)
(* it, and terminateAllProcesses continues those whose state is out of date. *)
NotStoppedAtSigterm == halted \cap sigterm = {}

(* When the script has stopped waiting, every process has finished its       *)
(* broadcasts or exited, each counted once, and each has the end time that   *)
(* the script then looks up.                                                 *)
FinishedOrExited ==
  waitFor = 0 => connections = Process /\ finished \cup exited = Process

(* What there is to do, as far as RunEnds needs it: each disjunct is the     *)
(* guard of an action.                                                       *)
MainCanMove(p) ==
  \/ p \in sigterm                                          \* signalHandler
  \/ main[p] \in {"parse", "connected", "construct", "build", "log", "send"}
  \/ main[p] = "waiting" /\ p \in released                  \* PassBarrier
  \/ /\ main[p] = "broadcast"              \* LockInMain or AddToCounter
     /\ logsMutex[p] = "free" \/ messages = 0

ProcessCanMove(p) ==
  /\ Running(p)
  /\ \/ handler[p] = "none" /\ MainCanMove(p)
     \/ handler[p] = "stopped" /\ logsMutex[p] = "free"     \* WriteOutput
     \/ listener[p] = "log"                                 \* UnlockInListener
     \/ GroupCounted(p) /\ main[p] = "sleep"           \* finishedBroadcasting

BarrierCanMove(p) ==
  \/ ~AllConnected(barrier) /\ AtBarrier(p) /\ p \notin barrier
  \/ AllConnected(barrier) /\ p \in barrier \ released

FinishSignalCanMove(p) ==
  /\ waitFor > 0
  /\ \/ Connected(p) /\ p \notin connections
     \/ p \in registered /\ p \in finished \cup exited

StresserCanMove(t) ==
  /\ script = "stress"
  /\ \/ chosen[t] # NoAttempt
     \/ /\ chosen[t] = NoAttempt /\ MoreAttempts(t)
        /\ \E p \in selectProc[t] : LockFree(p) /\ state[p] # "TERMINATED"

ScriptCanMove ==
  \/ script = "barrier" /\ released = Process
  \/ script = "stress" /\ StressComplete
  \/ script \in {"continue", "input"}
  \/ script = "join" /\ waitFor = 0
  \/ script = "exits" /\ exited = Process

CanMove ==
  \/ \E p \in Process :
       ProcessCanMove(p) \/ BarrierCanMove(p) \/ FinishSignalCanMove(p)
  \/ ScriptCanMove \/ \E t \in Stresser : StresserCanMove(t)

(* The threads of the script and of the processes never all wait for one     *)
(* another, whoever is stopped, terminated or ended by an early packet when: *)
(* until the run is Over, somebody can go on.  It is over early for three    *)
(* reasons only, a handler that hangs, a process that never signals the end  *)
(* of its broadcasts, and too many that end early.  That the guards in       *)
(* CanMove are those of the actions is what TLC's deadlock check says.       *)
RunEnds == CanMove \/ Over

(* README.md:134: "A process that receives a SIGTERM or SIGINT signal must   *)
(* immediately stop its execution with the exception of writing to an output *)
(* log file".  A process that hangs in its handler never does.               *)
SigtermExits == \A p \in Process : ~Hung(p)

=============================================================================
