--------------------------------- MODULE Parser --------------------------------
(***************************************************************************)
(* Parser (parser.hpp), and the script functions that write what it reads:   *)
(* generateConfig and startProcesses (validate.py).                          *)
(*                                                                         *)
(* The hosts file is a sequence of lines, each blank or a host; IP address   *)
(* and port of a host are one value addr.  The config file is a sequence of  *)
(* lines, each a sequence of numbers.  The command line is argv without the  *)
(* name of the program.  A path is the name of the file in a record of       *)
(* files.  A parse that fails ends the process.                              *)
(***************************************************************************)
EXTENDS Integers, SequencesExt

CONSTANTS
  stoul,      \* stoul[w]: the number that the word w spells
  Blank       \* a blank line

Host == [id : Nat, addr : Nat]

ASSUME BlankAssumption == Blank \notin Host

str(n) == CHOOSE w \in DOMAIN stoul : stoul[w] = n

(* What a loop over s collects that goes on at the elements outside S. *)
Kept(s, S) ==
  LET kept[k \in 0 .. Len(s)] ==
        IF k = 0 THEN <<>>
        ELSE IF s[k] \in S THEN Append(kept[k - 1], s[k]) ELSE kept[k - 1]
  IN  kept[Len(s)]

-----------------------------------------------------------------------------
(* What the script writes, for the processes 1 .. n *)

(* main(): a process comes first in the list of those that affect it. *)
causalRelationships(n, affects) ==
  [i \in 1 .. n |-> <<i>> \o Kept([j \in 1 .. n |-> j], affects[i] \ {i})]

hostsLines(n) == [i \in 1 .. n |-> [id |-> i, addr |-> i]]

fifoGenerateConfig(n, messages) ==
  [hosts |-> hostsLines(n), config |-> <<<<messages>>>>]

generateConfig(n, messages, affects) ==
  [hosts  |-> hostsLines(n),
   config |-> <<<<messages>>>> \o causalRelationships(n, affects)]

startProcesses(pid) ==
  <<"--id", str(pid), "--hosts", "hosts", "--barrier", "127.0.0.1:10000",
    "--signal", "127.0.0.1:11000", "--output", "proc.output", "config">>

-----------------------------------------------------------------------------
(* The command line *)

(* Each option has one place; what comes after the last is ignored. *)
parseInternal(argv) ==
  /\ Len(argv) >= 11
  /\ argv[1] = "--id" /\ argv[2] \in DOMAIN stoul
  /\ argv[3] = "--hosts"
  /\ argv[5] = "--barrier"
  /\ argv[7] = "--signal"
  /\ argv[9] = "--output"

idOf(argv) == stoul[argv[2]]
hostsPath(argv) == argv[4]
configPath(argv) == argv[11]

-----------------------------------------------------------------------------
(* The hosts file *)

Hosts(file) == Kept(file, ToSet(file) \ {Blank})
Ids(file) == {h.id : h \in ToSet(Hosts(file))}

(* Mutant: ids may start anywhere. *)
hostsEndOK(file) ==
  /\ Len(Hosts(file)) >= 2
  /\ Len(Hosts(file)) \in Ids(file)
  /\ \A i \in Ids(file) : i <= Len(Hosts(file))

(* hosts() wants two hosts at least; it compares the smallest id with 1 and  *)
(* the largest with the number of hosts, and does not look for repetitions.  *)
hostsOK(file) ==
  /\ Len(Hosts(file)) >= 2
  /\ 1 \in Ids(file) /\ \A i \in Ids(file) : i >= 1
  /\ Len(Hosts(file)) \in Ids(file)
  /\ \A i \in Ids(file) : i <= Len(Hosts(file))

(* std::sort: some order in which the ids do not decrease. *)
hosts(file) ==
  LET found == Hosts(file)
      order == CHOOSE f \in Bijection(DOMAIN found, DOMAIN found) :
                 \A i, j \in DOMAIN found :
                   i < j => found[f[i]].id <= found[f[j]].id
  IN  [k \in DOMAIN found |-> found[order[k]]]

(* The constructor: one host is this process, the others are its peers. *)
localhost(file, id) ==
  CHOOSE h \in ToSet(Hosts(file)) : h.id = id

(* Mutant: this process is among its peers. *)
getPeersAll(file, id) == hosts(file)

getPeers(file, id) ==
  Kept(hosts(file), {h \in ToSet(hosts(file)) : h.id # id})

-----------------------------------------------------------------------------
(* The config file *)

parseNMessages(config) == config[1][1]

(* Mutant: the number of messages is taken for a process's line. *)
parseDependenciesLineEarly(config, id) ==
  IF id <= Len(config) THEN ToSet(config[id]) ELSE {}

(* The last line that the loop gets.  When the file is too short, getline    *)
(* has left an empty one, if the last line of the file ends with a newline,  *)
(* as every line does that the script writes; without it the last line would *)
(* be read again, which is not modelled.                                     *)
parseDependencies(config, id) ==
  IF id + 1 <= Len(config) THEN ToSet(config[id + 1]) ELSE {}

=============================================================================
