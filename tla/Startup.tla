-------------------------------- MODULE Startup --------------------------------
(***************************************************************************)
(* One process from the end of the barrier (main.cpp:174) until the          *)
(* constructor of LCBroadcast returns.  PerfectLink's constructor, which is  *)
(* called first, starts the listener; the constructors around it then store *)
(* what the listener's callbacks use, one pointer, callback or table entry   *)
(* after the other, while the peers, released by the same barrier, already   *)
(* broadcast.                                                               *)
(*                                                                         *)
(* Each peer broadcasts one message, its first, which depends on nothing and *)
(* is named by the id of the peer.  A packet <<m, s>> is the copy of message *)
(* m that s has broadcast or relayed; the link repeats it until it is        *)
(* received, and hands it up once (PerfectLink).  The process itself         *)
(* broadcasts nothing before it is built.                                   *)
(***************************************************************************)
EXTENDS Parser

CONSTANTS
  Sizes,      \* bound: numbers of processes
  Followed,   \* bound: the messages that are followed
  HostsFiles, \* bound: hosts files that somebody may have written
  NoPacket

(* validate.py starts two processes at least, and has a word for each number. *)
ASSUME SizesAssumption ==
  /\ Sizes \subseteq Nat \ {0, 1}
  /\ \A size \in Sizes : 1 .. size \subseteq Range(stoul)
ASSUME HostsFilesAssumption == HostsFiles \subseteq Seq({Blank} \cup Host)

VARIABLES
  id, peers,        \* the process, and the ids of its peers
  up,               \* the peers that do not crash: a majority, with id
  todo,             \* what the constructors have still to store, in order
  stored,           \* what they have stored
  received,         \* packets the listener has received
  pc, packet,       \* where the listener is, and with which packet
  forwarded,        \* UniformBroadcast: messages this process has relayed
  delivered,        \* UniformBroadcast: messages it has delivered
  log,              \* messages that have reached lcbDeliver
  early             \* history: packets that were looked at while
                    \* correctProcesses was incomplete

process == <<id, peers, up>>
vars == <<process, todo, stored, received, pc, packet, forwarded, delivered, log,
          early>>

n == Len(peers) + 1
Packet == (ToSet(peers) \cap Followed) \X ToSet(peers)

-----------------------------------------------------------------------------
(* What the constructors store, of what the listener reads; fields without a *)
(* key have the key 0.                                                       *)

Field(name) == <<name, 0>>
Entries(table, ids) == [k \in DOMAIN ids |-> <<table, ids[k]>>]

UniformBroadcastCtor(i, ps) ==
  <<Field("beb"), Field("urbDeliver")>>
    \o Entries("correctProcesses", Append(ps, i))

(* Mutant: no list for the messages of the last peer. *)
FIFOBroadcastCtorButLast(i, ps) ==
  UniformBroadcastCtor(i, ps) \o Entries("pendingSorted", Append(Front(ps), i))

(* nextToDeliver gets an entry whenever pendingSorted does. *)
FIFOBroadcastCtor(i, ps) ==
  UniformBroadcastCtor(i, ps) \o Entries("pendingSorted", Append(ps, i))

LCBroadcastCtor(i, ps) == FIFOBroadcastCtor(i, ps) \o Entries("pending", ps)

Built == todo = <<>>

Init ==
  /\ \E size \in Sizes : \E pid \in 1 .. size :
       /\ id = idOf(startProcesses(pid))
       /\ LET others == getPeers(hostsLines(size), id)
          IN  peers = [k \in DOMAIN others |-> others[k].id]
  /\ up \in {u \in SUBSET ToSet(peers) : 2 * (Cardinality(u) + 1) > n}
  /\ todo = LCBroadcastCtor(id, peers)
  /\ stored = {}
  /\ received = {}
  /\ pc = "recv"
  /\ packet = NoPacket
  /\ forwarded = {}
  /\ delivered = {}
  /\ log = {}
  /\ early = {}

Build ==
  /\ pc # "died"
  /\ ~Built
  /\ stored' = stored \cup {Head(todo)}
  /\ todo' = Tail(todo)
  /\ UNCHANGED <<process, received, pc, packet, forwarded, delivered, log,
                 early>>

-----------------------------------------------------------------------------
(* The listener *)

(* PerfectLink hands the packet up, and bebDeliver stores it in acks. *)
Receive(pkt) ==
  /\ pc = "recv"
  /\ pkt \in Packet \ received
  /\ received' = received \cup {pkt}
  /\ packet' = pkt
  /\ pc' = IF pkt[1] \in forwarded THEN "evaluate" ELSE "relay"
  /\ UNCHANGED <<process, todo, stored, forwarded, delivered, log, early>>

(* What is read before it is stored ends the process: an empty callback and  *)
(* a missing entry throw, a pointer points nowhere.                          *)
Needs(item, step) == pc' = IF item \in stored THEN step ELSE "died"

Relay ==
  /\ pc = "relay"
  /\ forwarded' = forwarded \cup {packet[1]}
  /\ Needs(Field("beb"), "evaluate")
  /\ UNCHANGED <<process, todo, stored, received, packet, delivered, log, early>>

correctProcesses == {p \in 1 .. n : <<"correctProcesses", p>> \in stored}
Ackers(m) == {s \in ToSet(peers) : <<m, s>> \in received} \cup
             IF m \in forwarded THEN {id} ELSE {}

(* Mutants: all the processes are needed; half of them is enough. *)
receivedFromAll(m) == correctProcesses \subseteq Ackers(m)
receivedHalfOfAcks(m) ==
  2 * Cardinality(Ackers(m) \cap correctProcesses) >=
    Cardinality(correctProcesses)

receivedAllAcks(m) ==
  Cardinality(Ackers(m) \cap correctProcesses) >
    Cardinality(correctProcesses) \div 2

Evaluate ==
  /\ pc = "evaluate"
  /\ \/ /\ receivedAllAcks(packet[1]) /\ packet[1] \notin delivered
        /\ delivered' = delivered \cup {packet[1]}
        /\ Needs(Field("urbDeliver"), "fifo")
     \/ /\ ~receivedAllAcks(packet[1]) \/ packet[1] \in delivered
        /\ pc' = "recv"
        /\ UNCHANGED delivered
  /\ early' = IF correctProcesses = 1 .. n THEN early
                                           ELSE early \cup {packet}
  /\ UNCHANGED <<process, todo, stored, received, packet, forwarded, log>>

FifoDeliver ==
  /\ pc = "fifo"
  /\ Needs(<<"pendingSorted", packet[1]>>, "lcb")
  /\ UNCHANGED <<process, todo, stored, received, packet, forwarded, delivered, log,
                 early>>

LcbDeliver ==
  /\ pc = "lcb"
  /\ Needs(<<"pending", packet[1]>>, "recv")
  /\ log' = IF pc' = "recv" THEN log \cup {packet[1]} ELSE log
  /\ UNCHANGED <<process, todo, stored, received, packet, forwarded, delivered,
                 early>>

(* Until all is stored, the listener reads what another thread is changing:  *)
(* it finds it as it was before or after, or the process dies of it.         *)
Race ==
  /\ pc \notin {"recv", "died"}
  /\ ~Built
  /\ pc' = "died"
  /\ UNCHANGED <<process, todo, stored, received, packet, forwarded, delivered, log,
                 early>>

Next ==
  \/ Build
  \/ \E pkt \in Packet : Receive(pkt)
  \/ Relay \/ Evaluate \/ FifoDeliver \/ LcbDeliver
  \/ Race

(* Both threads run, and the links of the peers that are up repeat their     *)
(* packets.                                                                  *)
Fairness ==
  /\ WF_vars(Build)
  /\ WF_vars(Relay) /\ WF_vars(Evaluate)
  /\ WF_vars(FifoDeliver) /\ WF_vars(LcbDeliver)
  /\ \A m, s \in UNION {1 .. k : k \in Sizes} : WF_vars(s \in up /\ Receive(<<m, s>>))

Spec == Init /\ [][Next]_vars /\ Fairness

-----------------------------------------------------------------------------
TypeOK ==
  /\ n \in Sizes
  /\ {id} \cup ToSet(peers) = 1 .. n
  /\ up \subseteq ToSet(peers)
  /\ stored \cup ToSet(todo) = ToSet(LCBroadcastCtor(id, peers))
  /\ received \subseteq Packet
  /\ pc \in {"recv", "relay", "evaluate", "fifo", "lcb", "died"}
  /\ packet \in received \cup {NoPacket}
  /\ log \subseteq delivered /\ delivered \subseteq forwarded
  /\ forwarded \subseteq ToSet(peers)
  /\ early \subseteq received

(* A majority has every message that is delivered, unless a packet of it was *)
(* looked at while correctProcesses was being filled and there are more than *)
(* three processes: the majority of one peer is that peer.                   *)
MajorityUnlessEarly ==
  \A m \in delivered :
    \/ 2 * Cardinality(Ackers(m)) > n
    \/ n > 3 /\ \E s \in ToSet(peers) : <<m, s>> \in early

(* No packet ends a process whose constructors have returned. *)
SurvivesOnceBuilt == [][Built => pc' # "died"]_vars

(* A process that starts while its peers already broadcast dies, or logs     *)
(* every message in the end, unless it looked at all the packets of the      *)
(* message before correctProcesses was complete: what was received before    *)
(* that is not lost as long as one packet of the message comes after it.     *)
EventuallyLogged ==
  \A m \in Followed :
    <>(m \in ToSet(peers) => \/ m \in log
                        \/ pc = "died"
                        \/ \A s \in up : <<m, s>> \in early)

-----------------------------------------------------------------------------
(* What the parser makes of its files, in the initial states. *)

JustReleased == stored = {} /\ received = {}

(* The processes that affect each other, as main() of the script draws them: *)
(* the first process is affected by no other, the last one by all.           *)
Drawn ==
  {affects \in [1 .. n -> SUBSET (1 .. n)] :
     affects[1] = {} /\ affects[n] = 1 .. n}

(* The files and the command line that the script writes (validate.py) are   *)
(* read back as they were meant: the process finds its number, its host and  *)
(* the others in the order of their ids, the number of messages, and the     *)
(* processes that affect it, none when the config file has no lines for them. *)
ReadsWhatTheScriptWrote ==
  JustReleased => \A affects \in Drawn, messages \in Followed :
    LET argv == startProcesses(id)
        files == generateConfig(n, messages, affects)
        fifoFiles == fifoGenerateConfig(n, messages)
    IN  /\ parseInternal(argv)
        /\ hostsPath(argv) = "hosts" /\ configPath(argv) = "config"
        /\ hostsOK(files.hosts)
        /\ localhost(files.hosts, id) = files.hosts[id]
        /\ \A i, j \in DOMAIN peers : i < j => peers[i] < peers[j]
        /\ parseNMessages(files.config) = messages
        /\ parseDependencies(files.config, id) = affects[id] \cup {id}
        /\ parseNMessages(fifoFiles.config) = messages
        /\ parseDependencies(fifoFiles.config, id) = {}

(* Of the hosts files in which no id is repeated, the parser accepts those    *)
(* with the ids 1 .. the number of hosts, as its message says (parser.hpp:    *)
(* 234), whatever their order and wherever blank lines are; the position of   *)
(* an id is then within the vector clock.  It takes a file with the ids 1, 1  *)
(* and 3 as well: repetitions are not looked for.                             *)
CompactHosts ==
  JustReleased => \A file \in HostsFiles :
    LET found == Hosts(file)
    IN  (\A i, j \in DOMAIN found : i # j => found[i].id # found[j].id) =>
          /\ hostsOK(file) <=> Len(found) >= 2 /\ Ids(file) = 1 .. Len(found)
          /\ hostsOK(file) =>
               \A h \in Ids(file) :
                 /\ hosts(file)[h].id = h
                 /\ h <= Len(getPeers(file, localhost(file, h).id)) + 1

=============================================================================
