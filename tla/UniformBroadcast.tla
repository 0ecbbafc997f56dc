--------------------------- MODULE UniformBroadcast ---------------------------
(***************************************************************************)
(* UniformBroadcast (urb.cpp) over BeBroadcast (beb.cpp): majority-ack       *)
(* uniform reliable broadcast.  The perfect link below is ReliableLink.      *)
(*                                                                         *)
(* Two methods run, on two threads: broadcast(), on the thread of main() or, *)
(* from inside the delivery of an own message, on the listener; and          *)
(* bebDeliver(), on the listener.  Each method call is a frame.  Both send   *)
(* to every peer, evaluate canDeliver and run the urbDeliver callback; but   *)
(* bebDeliver holds the lock while it sends and broadcast does not.          *)
(*                                                                         *)
(* A message is the pair (peerID, payload); type, ack and vectorClock are    *)
(* functions of it.  A packet adds the sender and the destination.           *)
(***************************************************************************)
EXTENDS Integers, FiniteSets

CONSTANTS
  Process,      \* the hosts of the hosts file
  Msg,          \* application messages
  Origin,       \* Origin[m]: the peerID of m
  Mortal,       \* bound: the processes that may crash
  NoMsg

(* Parser::hosts refuses a hosts file with fewer than two hosts. *)
ASSUME ProcessAssumption == IsFiniteSet(Process) /\ Cardinality(Process) >= 2
ASSUME MsgAssumption == Origin \in [Msg -> Process] /\ NoMsg \notin Msg

Packet == [msg : Msg, senderID : Process, destinationID : Process]

(* "main" and "nested" are calls of broadcast(), by main() and by the        *)
(* listener; "bebDeliver" is the listener's call of bebDeliver().            *)
Frame == {"main", "nested", "bebDeliver"}

VARIABLES
  sent, got, crashed,   \* ReliableLink
  forwarded,    \* forwarded[p]: messages p has broadcast or relayed
  acks,         \* acks[p]: pairs <<m, q>>, q is known to have sent m
  delivered,    \* delivered[p]: the list of delivered messages
  pc,           \* pc[p][f]: where frame f is
  current,      \* current[p][f]: the message of frame f
  todo,         \* todo[p][f]: peers that bebBroadcast has still to send to
  upcalls       \* upcalls[p]: history, messages passed to urbDeliver

linkVars == <<sent, got, crashed>>
stateVars == <<forwarded, acks, delivered>>
frameVars == <<pc, current, todo>>
vars == <<linkVars, stateVars, frameVars, upcalls>>

Link == INSTANCE ReliableLink

Init ==
  /\ Link!Init
  /\ forwarded = [p \in Process |-> {}]
  /\ acks = [p \in Process |-> {}]
  /\ delivered = [p \in Process |-> {}]
  /\ pc = [p \in Process |-> [f \in Frame |-> "idle"]]
  /\ current = [p \in Process |-> [f \in Frame |-> NoMsg]]
  /\ todo = [p \in Process |-> [f \in Frame |-> {}]]
  /\ upcalls = [p \in Process |-> {}]

-----------------------------------------------------------------------------
Ackers(p, m) == {q \in Process : <<m, q>> \in acks[p]}

(* Mutants: half of the processes are enough; all of them are needed. *)
AtLeastHalf(p, m) ==
  Cardinality(Ackers(p, m)) >= Cardinality(Process) \div 2
AllProcesses(p, m) == Ackers(p, m) = Process

(* nReceived > correctProcesses.size() / 2, in integers. *)
receivedAllAcks(p, m) ==
  Cardinality(Ackers(p, m)) > Cardinality(Process) \div 2

(* Mutant: a delivered message may be delivered again. *)
CanDeliverAgain(p, m) == receivedAllAcks(p, m) /\ m \in forwarded[p]

canDeliver(p, m) ==
  /\ receivedAllAcks(p, m)
  /\ m \in forwarded[p]
  /\ m \notin delivered[p]

(* Mutant: bebDeliver() gives up the lock before it relays. *)
NeverLocked(p) == FALSE

Locked(p) == pc[p]["bebDeliver"] = "send"

(* Frame f starts to send m to peers. *)
StartSending(p, f, m, peers) ==
  /\ pc' = [pc EXCEPT ![p][f] = "send"]
  /\ current' = [current EXCEPT ![p][f] = m]
  /\ todo' = [todo EXCEPT ![p][f] = peers]

(* main() broadcasts, and so does the listener while an own message is being *)
(* delivered (FIFOController::deliver).                                      *)
MayBroadcast(p, f) ==
  \/ f = "main"
  \/ /\ f = "nested"
     /\ pc[p]["bebDeliver"] = "upper"
     /\ Origin[current[p]["bebDeliver"]] = p

(* The first critical section of broadcast().  FIFOController numbers its    *)
(* packets, so that no message is broadcast twice.                           *)
Broadcast(p, f, m) ==
  /\ p \notin crashed
  /\ Origin[m] = p
  /\ m \notin forwarded[p]
  /\ pc[p][f] = "idle"
  /\ MayBroadcast(p, f)
  /\ ~Locked(p)
  /\ forwarded' = [forwarded EXCEPT ![p] = @ \cup {m}]
  /\ acks' = [acks EXCEPT ![p] = @ \cup {<<m, p>>}]
  /\ StartSending(p, f, m, Process \ {p})
  /\ UNCHANGED <<linkVars, delivered, upcalls>>

(* One turn of the loop of bebBroadcast; the order of the peers is free. *)
SendOne(p, f, q) ==
  /\ pc[p][f] = "send"
  /\ q \in todo[p][f]
  /\ Link!Send([msg |-> current[p][f], senderID |-> p, destinationID |-> q])
  /\ todo' = [todo EXCEPT ![p][f] = @ \ {q}]
  /\ UNCHANGED <<stateVars, pc, current, upcalls>>

(* Mutant: a packet of another process is not relayed. *)
RelayToNobody(p, m) == {}

(* The first copy of a message is relayed to every peer. *)
RelayTargets(p, m) == IF m \in forwarded[p] THEN {} ELSE Process \ {p}

(* storeAck for the sender of pkt and, with the relay, for p itself. *)
StoreAcks(p, pkt) ==
  acks' = [acks EXCEPT ![p] = @ \cup {<<pkt.msg, pkt.senderID>>} \cup
             (IF pkt.msg \in forwarded[p] THEN {} ELSE {<<pkt.msg, p>>})]

(* Mutant: an acknowledgement of a known message is only stored. *)
BebDeliverFirstOnly(p, pkt) ==
  /\ pkt.destinationID = p
  /\ pc[p]["bebDeliver"] = "idle"
  /\ Link!Deliver(pkt)
  /\ StoreAcks(p, pkt)
  /\ forwarded' = [forwarded EXCEPT ![p] = @ \cup {pkt.msg}]
  /\ IF pkt.msg \in forwarded[p]
       THEN UNCHANGED frameVars
       ELSE StartSending(p, "bebDeliver", pkt.msg, Process \ {p})
  /\ UNCHANGED <<delivered, upcalls>>

(* bebDeliver() up to the relay, from the moment it has the lock.  The       *)
(* listener handles one packet at a time.                                    *)
BebDeliver(p, pkt) ==
  /\ pkt.destinationID = p
  /\ pc[p]["bebDeliver"] = "idle"
  /\ Link!Deliver(pkt)
  /\ StoreAcks(p, pkt)
  /\ forwarded' = [forwarded EXCEPT ![p] = @ \cup {pkt.msg}]
  /\ StartSending(p, "bebDeliver", pkt.msg, RelayTargets(p, pkt.msg))
  /\ UNCHANGED <<delivered, upcalls>>

(* The last critical section of broadcast() and the end of that of           *)
(* bebDeliver().                                                             *)
Conclude(p, f) ==
  /\ p \notin crashed
  /\ pc[p][f] = "send"
  /\ todo[p][f] = {}
  /\ f = "bebDeliver" \/ ~Locked(p)
  /\ IF canDeliver(p, current[p][f])
       THEN /\ delivered' = [delivered EXCEPT ![p] = @ \cup {current[p][f]}]
            /\ pc' = [pc EXCEPT ![p][f] = "upcall"]
       ELSE /\ pc' = [pc EXCEPT ![p][f] = "idle"]
            /\ UNCHANGED delivered
  /\ UNCHANGED <<linkVars, forwarded, acks, current, todo, upcalls>>

(* The call of urbDeliver, outside the lock ... *)
Upcall(p, f) ==
  /\ p \notin crashed
  /\ pc[p][f] = "upcall"
  /\ upcalls' = [upcalls EXCEPT ![p] = @ \cup {current[p][f]}]
  /\ pc' = [pc EXCEPT ![p][f] = "upper"]
  /\ UNCHANGED <<linkVars, stateVars, current, todo>>

(* ... and its return, after every broadcast made from inside it. *)
Return(p, f) ==
  /\ p \notin crashed
  /\ pc[p][f] = "upper"
  /\ f = "bebDeliver" => pc[p]["nested"] = "idle"
  /\ pc' = [pc EXCEPT ![p][f] = "idle"]
  /\ UNCHANGED <<linkVars, stateVars, current, todo, upcalls>>

(* README.md:134: "at most a minority (e.g., 1 out of 3; 2 out of 5; 4 out   *)
(* of 10, ...) processes may crash in one execution".                        *)
Crash(p) ==
  /\ p \in Mortal
  /\ 2 * (Cardinality(crashed) + 1) < Cardinality(Process)
  /\ Link!Crash(p)
  /\ UNCHANGED <<stateVars, frameVars, upcalls>>

Next ==
  \/ \E p \in Process, f \in Frame :
       \/ \E m \in Msg : Broadcast(p, f, m)
       \/ \E q \in Process : SendOne(p, f, q)
       \/ Conclude(p, f)
       \/ Upcall(p, f)
       \/ Return(p, f)
  \/ \E p \in Process :
       \/ \E pkt \in Packet : BebDeliver(p, pkt)
       \/ Crash(p)

(* Threads keep running while their process does, and the link delivers what *)
(* a process that stays up has sent (ReliableLink!Fairness), as soon as the  *)
(* listener is back in listen(): strong fairness, because it is away from    *)
(* there again and again.                                                    *)
Fairness ==
  /\ \A p \in Process, f \in Frame :
       WF_vars(\/ \E q \in Process : SendOne(p, f, q)
               \/ Conclude(p, f)
               \/ Upcall(p, f)
               \/ Return(p, f))
  /\ \A pkt \in Packet :
       SF_vars(pkt.senderID \notin crashed /\ BebDeliver(pkt.destinationID, pkt))

Spec == Init /\ [][Next]_vars /\ Fairness

-----------------------------------------------------------------------------
TypeOK ==
  /\ sent \subseteq Packet
  /\ got \subseteq sent
  /\ crashed \subseteq Process
  /\ forwarded \in [Process -> SUBSET Msg]
  /\ acks \in [Process -> SUBSET (Msg \X Process)]
  /\ delivered \in [Process -> SUBSET Msg]
  /\ pc \in [Process -> [Frame -> {"idle", "send", "upcall", "upper"}]]
  /\ current \in [Process -> [Frame -> Msg \cup {NoMsg}]]
  /\ todo \in [Process -> [Frame -> SUBSET Process]]
  /\ upcalls \in [Process -> SUBSET Msg]

Majority(Q) == Cardinality(Q) > Cardinality(Process) \div 2

Forwarders(m) == {q \in Process : m \in forwarded[q]}

(* Uniformity rests on this: when a process delivers a message, even one     *)
(* that crashes at once, a majority has forwarded it, hence a correct        *)
(* process that will bring it to everybody.                                  *)
UniformMajority ==
  \A p \in Process : \A m \in delivered[p] : Majority(Forwarders(m))

(* A deliverable message is never left behind: canDeliver is only evaluated  *)
(* at the end of broadcast() and bebDeliver() for the message at hand, and   *)
(* yet whenever it is true bebDeliver() is about to evaluate it.             *)
NoMissedDelivery ==
  \A p \in Process, m \in Msg :
    canDeliver(p, m) => Locked(p) /\ current[p]["bebDeliver"] = m

(* The callback only ever runs on the listener thread, although broadcast()  *)
(* has the code to run it on main()'s: FIFOBroadcast::urbDeliver, which      *)
(* gives up its lock half-way, counts on it.                                 *)
OnlyListenerDelivers ==
  \A p \in Process, f \in Frame :
    pc[p][f] \in {"upcall", "upper"} => f = "bebDeliver"

(* The callback runs once per message, and only for a message its origin has *)
(* passed to broadcast().                                                    *)
NoDuplication ==
  [][\A p \in Process : \A f \in Frame :
       pc[p][f] = "upcall" /\ pc'[p][f] = "upper"
         => /\ current[p][f] \notin upcalls[p]
            /\ current[p][f] \in forwarded[Origin[current[p][f]]]]_vars

(* Uniform agreement: what any process has delivered, every process that     *)
(* does not crash delivers.                                                  *)
UniformAgreement ==
  \A m \in Msg :
    (\E p \in Process : m \in upcalls[p])
      ~> \A p \in Process \ crashed : m \in upcalls[p]

(* Validity: a process that does not crash delivers what it broadcasts.      *)
Validity ==
  \A m \in Msg :
    m \in forwarded[Origin[m]]
      ~> m \in upcalls[Origin[m]] \/ Origin[m] \in crashed

(* The layer implements uniform reliable broadcast; a message is stable once *)
(* a majority has forwarded it.                                              *)
URB == INSTANCE UniformReliableBroadcast WITH
  requested <- {m \in Msg : m \in forwarded[Origin[m]]},
  stable <- {m \in Msg : Majority(Forwarders(m))},
  delivered <- upcalls
ImplementsURB == URB!Spec

=============================================================================
