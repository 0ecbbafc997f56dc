# A verification of the broadcast stack

The repository is a stack of broadcast algorithms in C++ over UDP
(`src/template_cpp/src`), ending in *localized causal broadcast*, with a Python
script (`src/validate.py`) that runs many processes, disturbs them with signals
and checks their output. This directory holds TLA+ models of the stack and of
the test run, TLC configurations that check them on small instances, and proofs
checked by TLAPS.

## 1. The system

### Components

| component | state | operations | talks to |
|---|---|---|---|
| `PerfectLink` (`perfectlink.cpp`) | `delivered`, `waitingAcks`, `stopFlag` | `send`, `listen` (thread), `resendMessages` (thread), `stop` | UDP below, `pp2pDeliver` callback above, which `beb.cpp:13` sets to the `bebDeliver` of `UniformBroadcast` |
| `BeBroadcast` (`beb.cpp`) | peers | `bebBroadcast`: one `send` per peer; its `pp2pDeliver` is never used | link |
| `UniformBroadcast` (`urb.cpp`) | `forwarded`, `acks`, `delivered` under `lock` | `broadcast`, `bebDeliver` | beb, `urbDeliver` callback |
| `FIFOBroadcast` (`fifob.cpp`) | `pendingSorted`, `nextToDeliver` | `broadcast`, `urbDeliver` | urb, `fifoDeliver` callback |
| `FIFOController` (`fifoController.cpp`) | `counter`, `nLocalDeliveries`, `vectorClock`, mutex `mtx` | `broadcast`, `groupedBroadcast`, `deliver` | fifo, lcb, coordinator |
| `LCBroadcast` (`lcb.cpp`) | `pending`, the clock in the controller | `broadcast`, `deliver` | controller, log |
| `main.cpp` | `logs` under `logsMutex` | `main`, `signalHandler`, `broadcastCB`, `receivePacket` | everything |
| `Coordinator` (`barrier.hpp`) | two TCP connections | constructor, `waitOnBarrier`, `finishedBroadcasting` | `Barrier`, `FinishedSignal` |
| `Barrier` (`barrier.py`), `FinishedSignal` (`finishedSignal.py`) | connections, `waitFor` | `wait` | processes, script |
| `StressTest`, `main` (`validate.py`) | `ProcessInfo.state`, saturated counter | `stress` (threads), `continueStoppedProcesses`, `terminateAllProcesses` | signals to the processes |
| log checks (`validate.py`) | counters and clocks per log | `checkProcess`, `checkCausality` | output files |
| `Parser` (`parser.hpp`) | command line, hosts, config file | constructor, `parseInternal`, `hosts`, `parseDependencies` | files that `validate.py` writes |
| `Packet` (`packet.hpp`) | ids, payload, clock, `ack` | `equals` | every layer |
| `TC`, Java template, build files | configuration | - | - |

### Behaviours that are hard

* Each process has three threads: `main()`, on which SIGTERM is handled too, the
  listener, on which every callback of every layer runs and which therefore
  broadcasts as well, and the resend thread. `main()` and the listener meet in
  `UniformBroadcast`, `FIFOController` and `logs`.
* `PerfectLink::send` stores a packet in `waitingAcks` only after `sendto`; the
  resend thread works on a copy; the stop flag is read before blocking calls.
* `UniformBroadcast::broadcast` sends without its lock and `bebDeliver` with it;
  `FIFOBroadcast::urbDeliver` gives up its lock around a callback.
* `FIFOController::counter` is read and written by two threads without a lock.
* Processes crash in the middle of a broadcast; datagrams are lost, duplicated
  and reordered.
* `LCBroadcast` queues packets that come before what they depend on.
* The listener runs before the layers above the link are built, while the other
  processes, released by the same barrier, already broadcast.
* The output of a process is written by the signal handler while the other two
  threads, and the other processes, go on.
* The test script stops, continues and terminates processes from several
  threads and then waits for them.

### What makes each component correct

* Link: no duplication, no creation, delivery unless an end stops; nothing given
  to `send` is forgotten, in whatever order acknowledgements come.
* Uniform broadcast: validity, uniform agreement, no duplication, no creation;
  no deliverable message left behind; the upcall on one thread only.
* FIFO broadcast: per-origin order and nothing held back without a gap.
* Controller: at most a group under way, each message once, notification once
  and at the end.
* Causal broadcast: localized causal order in every log, clocks that agree with
  the log, nothing lost.
* Log checks: they accept the outputs of every run of the algorithm, and what they accept is
  in causal order.
* Parser and start-up: what the script writes is read back; a process that comes late dies,
  or delivers all the same and with a majority.
* Test run: a minority is terminated, all start together, a terminated process
  exits, the script does not wait for ever, or only for reasons that are known.

`PROJECT.json` lists the hazards one by one with the lines where they bite.

## 2. The modules

| module | models | built on |
|---|---|---|
| `ReliableLink` | abstract: what the link promises | - |
| `PerfectLink` | `perfectlink.cpp` | implements `ReliableLink` |
| `UniformReliableBroadcast` | abstract: what `urb.cpp` promises | - |
| `UniformBroadcast` | `urb.cpp`, loop of `beb.cpp` | uses `ReliableLink`'s actions, implements `UniformReliableBroadcast` |
| `FIFOReliableBroadcast` | abstract: what `fifob.cpp` promises | - |
| `FIFOBroadcast` | `fifob.cpp` at one process | under a caller that delivers each packet once, on one thread |
| `FIFOController` | grouping in `fifoController.cpp`, one process | under a layer that delivers own packets in order |
| `BroadcastStack` | the calls between these three layers, at one process | composes `UniformBroadcast`, `FIFOBroadcast`, `FIFOController`, implements `FIFOReliableBroadcast` |
| `LCBroadcast` | `lcb.cpp` and the clocks in `fifoController.cpp`, all processes | uses `FIFOReliableBroadcast`'s actions |
| `LogValidator` | the log checks of `validate.py`, as operators | used by `LCBroadcast` |
| `Parser` | `parser.hpp` and the functions of `validate.py` that write what it reads, as operators | - |
| `Startup` | the constructors, one process, under the listener they have started | extends `Parser` |
| `StressTest` | the stress threads of `validate.py` | - |
| `TestRun` | `main()` of `validate.py`, `barrier.py`, `finishedSignal.py`, `barrier.hpp`, `main.cpp` | extends `StressTest` |
| `PerfectLinkProofs`, `UniformBroadcastProofs`, `FIFOBroadcastProofs`, `FIFOControllerProofs`, `BroadcastStackProofs`, `LCBroadcastProofs`, `StartupProofs`, `TestRunProofs` | theorems (section 5) | each extends its module |
| `MC*` | small instances | |

The stack is cut at its interfaces: a layer is modelled over the abstract
promise of the layer below, not over its code. The link below
`UniformBroadcast` is `ReliableLink`, which `PerfectLink` is shown to implement
with retransmission and losses. The FIFO layer below `LCBroadcast` is `FIFOReliableBroadcast`, which
`BroadcastStack` is shown to implement. Each step of a model is a critical section of
the code, or a single access where there is no lock.

**PerfectLink.** `net` is the set of datagrams on the way; `sendto` may lose one,
receiving one may leave a copy. `UpperSend`, `StoreWaiting` are the two halves of
`send()`; `ListenCheck`, `ListenRecv`, `Upcall` the loop of `listen()`;
`ResendWake`, `ResendOne` that of `resendMessages()`. `equals` and `ackKey` are the two
comparisons of the code, one over packets with their `ack` flag, one without.
A message is one value; the vector clock and the type play no part in the link.

**UniformBroadcast.** A call of `broadcast()` by `main()`, one by the listener
from inside a delivery, and a call of `bebDeliver()` are three *frames*. `Broadcast` and
`BebDeliver` are their first critical sections, `SendOne` a turn of
`bebBroadcast`, `Conclude` the last critical section with `canDeliver`, `Upcall` and `Return`
the callback. `Locked` says that `bebDeliver` holds the lock while it relays.

**FIFOBroadcast.** `urbDeliver` inserts, then `ScanDeliver`/`ScanSkip` go through the
list and `ScanEnd` stores `seqNb`. The module has one caller, which
gives it each packet once; that it has no other is `CallsFit` of `BroadcastStack`.

**FIFOController.** `LogBroadcast`, `FifoBroadcast`, `LeaveLoop`, `AddToCounter` are
`groupedBroadcast` in either thread; `DeliverOwn`, `CountDelivery` are `deliver`.
The reads of `counter` in a loop test are one step.

**BroadcastStack.** What `FIFOBroadcast` and `FIFOController` say of one process is put on top of `UniformBroadcast` at the
process `Self`; a step of the stack is a step of the layers in which the code is at that moment, two of them when one
calls the other: `FifoBroadcast` is `fifo->broadcast`, hence `urb->broadcast`; `UrbDeliver` the callback of
`bebDeliver`; in `ScanStep` `fifoDeliver` is called, which is `FIFOController::deliver`. A caller goes on when
the callee has returned (`Returned`, `CallbackReturned`, `UrbReturn`), so that the listener broadcasts its
groups inside a delivery (frame `nested`). The `delivered` of `FIFOController` is `Len(fifoDelivered[Self])`. Of the
upper layers of the other processes only the order of their packets is kept (`ItsTurn`); `Self` may be any process.

**LCBroadcast.** `Deps` is what the processes have read from their config files; it is chosen at the
start from `Configs` and stays. `LogBroadcast` and `DeliverOwn` are a turn of `groupedBroadcast` under
`mtx`, up to and from the line of the broadcast: `main()` or the listener is `Locked` in between, and a
signal handler may write the output at this point. `FifoBroadcast` hands the packet over after the mutex is
released; `FifoDeliver` is `LCBroadcast::deliver`, whose scan delivers the whole queue
(`DeliverAll`) or nothing (`Keep`). `log[p]` is what `p` would write to its output file.

**LogValidator.** A check of a log applies `LCausalLine` (or `FifoLine`) to one line after the
other; `vectorClock` is the clock the script attaches to a delivery. It is pure:
`LCBroadcast` applies it to its variable `log` (`OutputsValidate`) and to logs that no
process need have written (`ChecksMeanOrder`).

**Parser.** A file is a sequence of lines, a line of the hosts file a host or `Blank`, a line of the config file
a sequence of numbers; `stoul` maps words to numbers. `generateConfig`,
`fifoGenerateConfig` and `startProcesses` are the script's side; the rest is the
parser's, one operator per method, with what it refuses (`parseInternal`, `hostsOK`). Every line ends with a
newline, as the script writes it; that matters in `parseDependencies` only, where a short file without it would
have its last line read again.

**Startup.** `todo` lists what the constructors of `UniformBroadcast`, `FIFOBroadcast` and
`LCBroadcast` have still to store of what the listener reads; `Build` stores the next one. `Receive`,
`Relay`, `Evaluate`, `FifoDeliver`, `LcbDeliver` follow one packet up through the
layers, each as far as it needs something that may not be there yet: an empty callback or a
missing entry ends the process (`died`), an incomplete `correctProcesses` makes
`receivedAllAcks` compare with a smaller majority. A container that is read while it is being
changed is found as it was before or after, or the process dies of it (`Race`).

**TestRun.** `main`, `listener` and `handler` are the threads of a process as far
as the script and `logsMutex` see them; `script` is `main()` of `validate.py`. The choice of the next operation and
the sending of the signal are two steps of a stress thread, which sleeps in
between. `StartListener` and `Build` are the constructors, between which `DieEarly` may end
the process, as `Startup` shows in detail. Of the groups of `FIFOController` it keeps what decides if the process
ever signals its end: `AddToCounter` is `main()` leaving `groupedBroadcast`, `GroupCounted` the listener having
counted the own deliveries of the first group, and then either `finishedBroadcasting` follows or, if there is a second
group and `main()` has not yet been at `AddToCounter`, `Overtake`, after which it never does. `messages` is the number
given to `--messages`; with none the loop of `main()` is not entered and nothing is ever counted.

## 3. The runs

`tlc -workers 2 -config <cfg> <module>`; every run takes less than three minutes.

| run (cfg) | instance | what it shows |
|---|---|---|
| `PerfectLink_fanout` | one message to two destinations, one of them stops; 239k states | `NeverForgotten`: whatever the order of ack, insertion and retransmission, an unreceived packet is retransmitted; `RecordedIsHandedUp`, `NoDuplication` |
| `PerfectLink_roundtrip` | a message and its relay back, one process stops; 67k states | `ImplementsReliableLink`, delivery included; `QuietAfterNextPacket`: after `stop()` the listener handles at most one more packet |
| `UniformBroadcast_one` | one message, three processes, the origin or another may crash anywhere | `UniformMajority`, `UniformAgreement`, `Validity`, `ImplementsURB` |
| `FIFOBroadcast_order` | four packets of each of two origins in every order | `FifoOrder`, `NoneHeldBack`, `EventuallyDelivered` |
| `FIFOController_groups` | workloads 0, 1, 9, 10, 11, 20, 21, 25 with the group size 10 of the code | `Paced`, `NumberedInOrder`, `OneGroupAtATime`, `SignalledAtEnd`, `FinishedUnlessOvertaken` |
| `BroadcastStack_calls` | two processes, three own messages in groups of two, the second group from inside a delivery, and two messages of the other; 180k states | `NoMissedDelivery`, `OnlyListenerDelivers`, `NoDuplication` with both threads in `UniformBroadcast` at once; `CallsFit`: every call finds the layer that is called ready for it; `ImplementsFIFO` |
| `FIFOController_stall` | workload 11 | **violated**: `EventuallyFinished` |
| `LCBroadcast_causal` | three processes, four messages; two affect each other and one affects the third, or no process is listed (FIFO); 247k states | `CausalOrder`, `ClockCountsLog`, `NothingLost`, `CausallyClosed`, `NeverUnblocked`; `OutputsValidate`: the test script accepts the outputs whenever the run is ended and whenever one process writes its output before the others, but for a message that is missing in the output of its own process; `ChecksMeanOrder`: what the script accepts, of any logs, is in causal order |
| `LCBroadcast_stuck` | a chain of dependencies, three messages | **violated**: `AllDelivered` |
| `Startup` | two, three or four processes, the messages of two of them; 328k states | `MajorityUnlessEarly`, `SurvivesOnceBuilt`, `EventuallyLogged`; in its initial states `ReadsWhatTheScriptWrote`, `CompactHosts` (files without repeated ids) |
| `TestRun_stress` | three processes, two stress threads, an attempt each, 0 or 11 messages; 1.5M states | `MinorityTerminated`, `StartTogether`, `NotStoppedAtSigterm`, `FinishedOrExited`; `RunEnds`: the script waits for ever for four reasons only, a handler that hangs, an overtaken first group, nothing to broadcast, or packets that come during start-up and leave no majority |
| `TestRun_sigterm` | the same with one stress thread | **violated**: `SigtermExits` |

The type invariant `TypeOK` of a module is proved for every instance (section 5); the one
of `Startup`, which says that the constructors store no more and no less than they should, is checked in its run, too. Deadlock is checked for `PerfectLink_fanout` and
`_roundtrip`, where some process never stops, and for the two runs of `TestRun`, where a run that is over may stutter
(`Over`); the other systems stop when all is delivered or when the process has died.

### Bounds, and why they are enough

* Three processes are the fewest with a minority that may crash; with two the
  majority is everybody. Odd and even sizes are told apart only by the majority
  arithmetic, which the proofs cover for all sizes.
* Link: the comparisons in `equals` and `ackKey` can confuse packets that differ
  in destination (`fanout`) or in direction and `ack` flag (`roundtrip`); the
  two workloads hold one pair of each kind. `Relays` says which packets `main()`
  never sends itself.
* `Mortal`, `Stoppable`: who may crash or stop. `UniformBroadcast` allows a
  minority, as README.md:134 of the repository does.
* FIFO: with four packets a list can have a gap in front, in the middle and two gaps.
* Controller: workloads that end one before, at and one after a group boundary,
  for one, two and three groups, and the empty one.
* Stack: two processes are enough for the calls, since no step of the upper layers looks at the others; three own
  messages in groups of two need a second group, begun by the listener, and the other's two can come in either order.
* Causal: `maxPackets` messages of each process are followed and `Configs` are the config files tried;
  `Mortal` is the process that may write its output early, at every length of its log. `Logs` are the logs
  that `ChecksMeanOrder` tries: all pairs of logs of up to three lines over four different ones (7 225 pairs).
  Two messages of one process give an order within it, and three
  processes a dependency that is passed on.
* Start-up: with up to three processes a majority of those known so far is still one of all; four (`Sizes`)
  are the fewest where it need not be. `Followed` names the messages that are followed, of two peers, so that
  one may come early and the other late. `HostsFiles` are all files of up to three lines, each blank or a
  host with an id from 0 to 4: gaps, repetitions, a missing first or last id.
* Test run: two threads can both reserve a termination, or choose the same
  process; three processes allow one termination. One packet whose delivery is
  logged is enough to contend for `logsMutex`; `nLogged` is the number of listeners that log one. `Workloads` has
  the two that can stall, none and more than a group; with a single group the process signals its end at the same
  points as with two that are not overtaken, or earlier, and the proofs cover every workload.

### Fairness

* Threads keep running while their process does: weak fairness on their steps.
* The network is fair-lossy: strong fairness on "a retransmission of this packet
  reaches the network" and on its reception. This is the assumption without
  which no retransmission protocol works, and `tc` loses 10-15 % at random.
* Above the link: strong fairness on the delivery of a sent packet whose sender is up, because the
  listener is away from `listen()` again and again. Below it stands
  `PerfectLink_roundtrip`.
* `FIFOController`: own packets are delivered in the end (`Validity` of
  `UniformBroadcast`). `LCBroadcast`: the same for every packet, and no crash.
* `Startup`: the constructors and the listener go on; the links of the peers in `up` repeat their packets until
  they are received.
* `BroadcastStack` has none: its properties are safety.
* `TestRun` needs none. Nothing in it repeats for ever (each attempt, phase and
  connection is counted), so that a run goes on until nothing is left to do;
  `RunEnds` says that this is only when it is `Over`, which includes the ways in which the script waits for ever.

## 4. What the violated runs show

1. `FIFOController_stall` (code bug). `main()` adds to `counter` after its last
   `fifo->broadcast`. If the listener has counted the ten own deliveries of the
   first group by then, `nLocalDeliveries == counter` is never true again: the
   eleventh message is never broadcast and `finishedBroadcasting` never called.
   `FinishedUnlessOvertaken` says that this, and an empty workload, are the only ways. The test script then waits
   for ever (`validate.py:482`), although nobody hangs or has died: these are two of the exceptions in `RunEnds`.
2. `LCBroadcast_stuck` (code bug). `deliver` tests the clock of the packet that
   has just come, for every packet in the queue, and looks at one queue only. A
   packet that came before what it depends on is not looked at when that is
   delivered; later packets of its process depend on it and fail the test too.
   `NeverUnblocked` says that a queue once filled is never emptied when, as the
   test script does, a process is listed among those that affect it. Safety is not touched: `CausalOrder` holds.
3. `TestRun_sigterm` (code bug). The signal handler locks `logsMutex` on the
   thread it has interrupted. If that thread is in `broadcastCB` or
   `receivePacket` the process hangs, and the script with it.

Two more differences are stated as properties that hold, with the exception in them:

* README.md:134 of the repository wants a terminated process to handle no received packet. The listener
  handles at most one more after `stop()`, since it reads the flag only before `recv`
  (`QuietAfterNextPacket`).
* The constructor of `PerfectLink` starts the listener before the layers above are built. A packet that
  comes in between may end the process, and with four or more processes a message may be
  delivered that no majority has (`MajorityUnlessEarly`, `SurvivesOnceBuilt`: only then).
  `EventuallyLogged` says what is not lost.

## 5. What is proved

Every safety invariant and action property that a passing run checks is proved, and the safety part of the three
refinements. A theorem holds for all values of the constants under the assumptions named in the
modules, which TLC evaluates on every run:

* at least two processes (`ProcessAssumption`; `SizesAssumption` for the sizes that the script starts, with a word for
  every number up to them), which the hosts parser enforces;
* workloads and group sizes that are numbers (`MessagesAssumption` in `TestRun`);
* config files in which each process is among those that affect it or none is listed (`ConfigsAssumption`);
* processes that may end early are processes (`MortalAssumption`), logs are made of lines that a process can
  write (`LogsAssumption`), hosts files of hosts and blank lines (`HostsFilesAssumption`), and a
  blank line is not a host (`BlankAssumption`).

In each proof module the conjuncts of `IInv` together are inductive, and one lemma per action shows it.

**PerfectLinkProofs** - any processes, packets and stops, and a network that loses, duplicates and reorders.

| theorem | property |
|---|---|
| `TypeCorrect` | `TypeOK` |
| `StaysUntilDelivered` | `NeverForgotten` |
| `HandedUp` | `RecordedIsHandedUp` |
| `UpcallOnce` | `NoDuplication` |
| `StopTakesEffect` | `QuietAfterNextPacket` |
| `LinkIsReliable` | each step is one of `ReliableLink` or a stutter |

`NeverForgotten` rests on `AckedIsDelivered`: an ack on its way is the ack of a packet that its destination
has received, and `ackKey` matches it with that packet only. `HandedUpIsRecorded` and `OnlySent` give
the refinement: what is handed up was sent, and not handed up before.

**UniformBroadcastProofs** - any processes, messages, origins and crashes.

| theorem | property |
|---|---|
| `TypeCorrect` | `TypeOK` |
| `DeliveredByMajority` | `UniformMajority`: a delivered message has been forwarded by a majority |
| `NothingMissed` | `NoMissedDelivery` |
| `ListenerDelivers` | `OnlyListenerDelivers` |
| `UpcallOnce` | `NoDuplication`: the callback at most once, only for broadcast messages |
| `LayerIsUniform` | each step is one of `UniformReliableBroadcast` or a stutter: a message becomes stable when a majority has forwarded it |

* `AcksAreTrue`, `SentAreForwarded`, `FramesHoldForwarded`, `OriginFirst`: an
  acknowledgement `<<m, q>>` at any process, or a packet of `q` with `m`, means that `q` has
  forwarded `m`, and a forwarded message has been forwarded by its origin -- so
  that counting acknowledgements counts forwarders;
* `NoMissedDelivery` itself: acknowledgements only grow in `bebDeliver()`, which
  evaluates `canDeliver` before it gives up the lock -- so that whenever
  `broadcast()` can take the lock to conclude, its message is delivered or not
  deliverable, which gives `OnlyListenerDelivers`;
* `UpcallsAreDelivered`: a message about to go to the callback is in `delivered`
  and not in `upcalls`; everything in `upcalls` is in `delivered`.

The arithmetic of the majority is used for its monotonicity in the set of
acknowledgements and for `1 <= |Process| \div 2`, which is why two hosts are needed:
the origin's own acknowledgement is never a majority, and `broadcast()` in `main()` never runs the callback.

**FIFOBroadcastProofs** - any origins and number of packets, in any order of arrival.

| theorem | property |
|---|---|
| `TypeCorrect` | `TypeOK` |
| `PacketsInOrder` | `FifoOrder` |
| `OnePassIsEnough` | `NoneHeldBack` |

`Listed`: the list of an origin is sorted and holds what has arrived. `InTurn`: `nextToDeliver` counts the
deliveries. `Scanned`: behind the scan, nothing has the payload `seqNb`; it is because the list is sorted that
this survives a delivery, and why one pass is enough.

**FIFOControllerProofs** - any workload and group size.

| theorem | property |
|---|---|
| `TypeCorrect` | `TypeOK` |
| `FlowControl` | `Paced` |
| `BroadcastInOrder` | `NumberedInOrder` |
| `NeverTwoGroups` | `OneGroupAtATime` |
| `SignalIsTrue` | `SignalledAtEnd` |

No lock keeps the two threads apart. They are because the listener's group needs `nLocalDeliveries = counter`,
and `counter = 1` until `main()` has finished its own (`MainFirst`); `DuringGroup` and `BetweenGroups` relate
the loop variable, `counter` and the packets handed over, inside a group and outside.

**BroadcastStackProofs** - any processes, crashes, group size and workload, `Self` any of the processes.

| theorem | property |
|---|---|
| `LayersHold` | `UniformMajority`, `NoMissedDelivery`, `OnlyListenerDelivers`, `NoneHeldBack`, `Paced`, `NumberedInOrder`, `SignalledAtEnd`, `OneGroupAtATime`, of the layers put together |
| `DeliversOnce` | `NoDuplication`, of the layers put together |
| `CallsAreReady` | `CallsFit` |
| `StackIsFIFO` | `ImplementsFIFO`: initial states and steps of the stack are those of `FIFOReliableBroadcast` or stutters |

Every step of the stack is shown to be a step or a stutter of each layer (`UniformNext`, `FifoNext`, `ControllerNext`), so that
what `UniformBroadcastProofs`, `FIFOBroadcastProofs` and `FIFOControllerProofs` have shown of a step (`NextIInv`) is used as it
stands: the invariants of the three layers hold together (`Layers`). The steps of the upper layers have guards for which
those modules take the layer below on trust: that a packet has not arrived before, and that an own packet
that is delivered has been handed over. Here these are proved, which needs what the layers know of each other:
what has arrived is what the callback got (`ArrivedAreUpcalls`) and has been passed to `broadcast` (`ArrivedPassed`);
`urbDeliver` runs only inside the callback of the listener (`CallUnderWay`) and the
listener's group only inside the delivery of an own packet (`InsideDelivery`); the packets of a process are passed on as
1, 2, 3, ... (`InSequence`), its own as far as `handed` says (`HandedPassed`). `CallsFit` follows. `StackIsFIFO`
then needs that what has been passed to `broadcast` is an initial segment of the numbers.

**LCBroadcastProofs** - any processes, config files, numbers of messages and, for the log
checks, any logs.

| theorem | property |
|---|---|
| `TypeCorrect` | `TypeOK` |
| `CountedOrWaiting` | `NothingLost` |
| `DependenciesFirst` | `CausallyClosed` |
| `LocalizedCausalOrder` | `CausalOrder`, of the lines of the output files |
| `QueuesNeverEmpty` | `NeverUnblocked` |
| `ClockCountsLines` | `ClockCountsLog` |
| `ChecksAcceptOrder` | `ChecksMeanOrder`: exactly which logs the checks accept, and that these are in causal order |
| `RunsValidate` | `OutputsValidate`: which outputs of a run they accept, at any time |

`deliver()` tests only the packet that has come and then delivers the whole queue. That is safe since the clocks of
a process's packets grow (`GrowingClocks`) and the queue holds the packets just before the
new one (`Queued`): what is enough for the last is enough for all, and `Closed` stays true.
`LogInv` then ties the clocks to the lines: a log has the deliveries that the clock counts
(`LogHasCounted`), and what a process had delivered before a broadcast is in the clock of the packet
(`ClockHasEarlier`). `QueueInv` says that a packet counts the earlier ones of its process, so that none can
be delivered while one of them waits.

The theorems about the log checks need `LineInv` besides, about the order of the lines: an own message is
delivered on the line after its broadcast (`OwnFollows`, which only `mtx` makes true), the last line of a locked
process is the broadcast of its next message (`LastIsNext`), and the lines of each process are `Increasing`. The checks
themselves are loops over a log; a loop is a recursive function, and what holds of its state after every line
(`Means`: `i` and `nextMessage` are what the lines so far count up to) is shown by induction
on the line (`CountTo`, from the well-foundedness of `<`). `VectorClockCounts` then says that `vectorClocks` of a checked
log counts deliveries from 1, so that the comparison of two numbers in `checkCausality` compares two
sets of messages. `ChecksMeanOrder` is about all logs, not only those that the algorithm can write.

**StartupProofs** - any number of processes, any way they affect each other, any hosts files.

| theorem | property |
|---|---|
| `TypeCorrect` | `TypeOK` |
| `ParserReadsScript` | `ReadsWhatTheScriptWrote` |
| `AcceptedHostsAreCompact` | `CompactHosts` |
| `MajorityAtStart` | `MajorityUnlessEarly` |
| `BuiltSurvives` | `SurvivesOnceBuilt` |

First the parser's loops: `KeptElements` and `KeptButOne` say what a loop that leaves elements out collects, again by
induction on the line. `SortedHosts`: a sort by ids that are 1 .. n puts each host at the place of its id
(`IncreasingIsIdentity`), so that a process finds itself and its peers are the others in order (`PeersInOrder`,
which is then part of the invariant). `AllTaken` is the pigeonhole by which n different ids from 1 to n are
all of them; it is why `CompactHosts` speaks of files in which no id is repeated: the parser does not notice a
repeated id that takes the place of another. `Listening` says how far the packet has come that the listener holds; with `CtorItems`, what the
constructors store, it gives `SurvivesOnceBuilt`. `MajorityUnlessEarly` is inductive with these: when `correctProcesses` is
complete, its majority is one of all, and otherwise the process and the sender of the packet have acknowledged, which are
a majority of three.

**TestRunProofs** - any processes, stress threads, attempts, workloads and group size.

| theorem | property |
|---|---|
| `TypeCorrect` | `TypeOK` |
| `OnlyAMinority` | `MinorityTerminated` |
| `NobodyStartsEarly` | `StartTogether` |
| `SigtermIsHandled` | `NotStoppedAtSigterm` |
| `ScriptWaitsForAll` | `FinishedOrExited` |
| `NoDeadlock` | `RunEnds` |

`Counted`: the saturated counter is the number of the processes that have been terminated or for which a thread
has reserved it. `Locks`: a thread that has chosen is alone with its process until the signal is sent;
with it `Believed`, that `ProcessInfo.state` says which signals have been sent. `Opened` is about
the barrier, `Finishing` about the connections that `FinishedSignal` has counted.

`NoDeadlock` needs a second invariant, `WaitInv`: who can hold `logsMutex` at what line, that a process in its handler has
been sent SIGTERM, that the listener is there from the start of the constructors on, that a stress thread has given up
only processes that are terminated or about to be (`Selectable`), and that at the end all have been sent SIGTERM. With
these, in each phase of the script somebody can go on: a process that has been let through the barrier moves, hangs,
has exited or sleeps with a listener (`MovesOrSleeps`); if all that are left sleep, they are a majority, and a process
that the script still waits for can finish unless it has stalled (`Stalled`: overtaken, or without messages). `CanMove` lists the guards of the actions that are used; that they are
the guards is what the deadlock check of the runs says, which finds a successor of every state that they reach.

Only model-checked:

* every liveness property, and so the liveness half of the refinements of `ReliableLink` and
  `UniformReliableBroadcast`: `UniformAgreement`, `Validity`,
  `EventuallyDelivered`, `FinishedUnlessOvertaken`, `EventuallyLogged` (beyond the prover);
* that the guards in `CanMove` are those of the actions (`ENABLED`).

## 6. What is not modelled

* Contents of datagrams, sockets and their errors (a failing `sendto` counts as a loss), printing.
* The parser's resolution of host names, files that cannot be read, and lines that are not of the form of the
  file, which end the process or the parse before anything else happens.
* A clock index outside the array of `Packet` (128 entries); the growth of the lists.
* A crash in `LCBroadcast`, other than that its output stops: the layers below deliver the packets of a
  process that has crashed everywhere or nowhere (`UniformBroadcast`), and a process that receives no more
  takes no more steps.
* An exception in a thread of the barrier or of `FinishedSignal`, for a connection that ends early or an id that
  arrives in parts.
* The end of the threads that `exit()` does not wait for (`main.cpp:62`).
* Reading of the output files and the count of their lines; the unused URB and FIFO modes of
  `main()`; `TC`, whose effects are the network of `PerfectLink`; the Java template; build files.

## 7. Plan

Done, in this order: `PerfectLink`, `UniformBroadcast` and its first theorems,
`FIFOBroadcast`, `FIFOController`, `LCBroadcast`, `StressTest` and `TestRun`, `LogValidator`; then
`Parser` and `Startup`, early outputs in `LCBroadcast`, early deaths in `TestRun`, the
safety theorems of all the layers and of the test run, and those of the start, the parser and the log checks;
`BroadcastStack`, the composition of the three middle layers and the theorem that they implement what `LCBroadcast` is built on.

Left for later:

1. The controller's groups in `LCBroadcast`: there a process broadcasts at any time, which allows
   more than the groups do, so that what is proved carries over; the ways in which a stalled group
   (`FIFOController_stall`) and a stuck queue (`LCBroadcast_stuck`) meet are not seen.
2. `PerfectLink` under `UniformBroadcast` in one module: the two meet in `ReliableLink`, whose actions the one
   uses and the other implements.
3. The unused modes of `main()`, and partial reads in `barrier.py` and `finishedSignal.py`.
