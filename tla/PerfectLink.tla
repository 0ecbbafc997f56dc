----------------------------- MODULE PerfectLink -----------------------------
(***************************************************************************)
(* PerfectLink (perfectlink.cpp) over UDP: acknowledgements, retransmission *)
(* and duplicate suppression.  Three threads of each process use the link:  *)
(*   "main"    the thread of main(), which broadcasts, and on which the     *)
(*             SIGTERM handler runs;                                        *)
(*   "listen"  PerfectLink::listen, which also runs the upper layers'       *)
(*             callback and whatever they send from it;                     *)
(*   "resend"  PerfectLink::resendMessages.                                 *)
(* The pair (peerID, payload) that names an application message is one      *)
(* value msg.  A packet's type is FIFO or ACK as its ack flag says, and its *)
(* vector clock is a function of msg that neither equals() nor ackKey()     *)
(* reads: both fields are left out.                                         *)
(***************************************************************************)
EXTENDS FiniteSets

CONSTANTS
  Process,      \* host ids
  Workload,     \* the data packets the upper layer sends, each once
  Relays,       \* those of them that carry another process's message
  Stoppable,    \* bound: the processes that may receive SIGTERM
  NoPacket

Thread == {"main", "listen", "resend"}

DataPacket(m, p, q) ==
  [msg |-> m, senderID |-> p, destinationID |-> q, ack |-> FALSE]

Ack(pkt) == [pkt EXCEPT !.ack = TRUE]
Packet == Workload \cup {Ack(pkt) : pkt \in Workload}

ASSUME WorkloadAssumption ==
  /\ NoPacket \notin Packet
  /\ Relays \subseteq Workload
  /\ \A pkt \in Workload :
       /\ pkt = DataPacket(pkt.msg, pkt.senderID, pkt.destinationID)
       /\ pkt.senderID \in Process
       /\ pkt.destinationID \in Process \ {pkt.senderID}

(* An acknowledgement travels back to the packet's sender. *)
Addressee(pkt) == IF pkt.ack THEN pkt.senderID ELSE pkt.destinationID

(* Mutant: one entry for all the destinations of a broadcast. *)
AckKeyPerMessage(pkt) == <<pkt.msg, pkt.senderID>>

ackKey(pkt) == <<pkt.msg, pkt.senderID, pkt.destinationID>>

(* Mutants: a comparison by message only; one that misses data packets. *)
EqualMessages(a, b) == a.msg = b.msg
EqualAcks(a, b) == a.ack /\ a = b

equals(a, b) == a = b

VARIABLES
  net,            \* datagrams on the way or waiting in a socket's buffer
  delivered,      \* delivered[p]: the listener's list of what it has received
  waitingAcks,    \* waitingAcks[p]: sent packets with no ack yet
  sending,        \* sending[p][t]: packet that thread t has passed to sendto()
                  \* and not yet stored in waitingAcks
  listenPC,       \* where the listener is
  incoming,       \* the packet the listener is handing to the upper layer
  toResend,       \* rest of the resend thread's copy of waitingAcks
  stopFlag,       \* processes whose SIGTERM handler has called stop()
  exited,         \* processes whose handler has called exit()
  sent,           \* history: packets the upper layer has passed to send()
  pp2pDelivered   \* history: packets passed to the pp2pDeliver callback

vars == <<net, delivered, waitingAcks, sending, listenPC,
          incoming, toResend, stopFlag, exited, sent, pp2pDelivered>>

Init ==
  /\ net = {}
  /\ delivered = [p \in Process |-> {}]
  /\ waitingAcks = [p \in Process |-> {}]
  /\ sending = [p \in Process |-> [t \in Thread |-> NoPacket]]
  /\ listenPC = [p \in Process |-> "check"]
  /\ incoming = [p \in Process |-> NoPacket]
  /\ toResend = [p \in Process |-> {}]
  /\ stopFlag = {}
  /\ exited = {}
  /\ sent = {}
  /\ pp2pDelivered = [p \in Process |-> {}]

-----------------------------------------------------------------------------
(* send(): sendto first, the insertion into waitingAcks afterwards, so that *)
(* the acknowledgement may be handled in between.                           *)

(* UDP may drop the datagram, at any point of its way. *)
sendto(pkt) == net' \in {net, net \cup {pkt}}

PutOnWire(p, t, pkt) ==
  /\ p \notin exited
  /\ sending[p][t] = NoPacket
  /\ sendto(pkt)
  /\ sending' = [sending EXCEPT ![p][t] = pkt]

(* The upper layer sends from main(), its own messages only, or from inside  *)
(* the callback.                                                             *)
MaySend(p, t, pkt) ==
  \/ t = "main" /\ pkt \notin Relays /\ p \notin stopFlag
  \/ t = "listen" /\ listenPC[p] = "upper"

UpperSend(p, t, pkt) ==
  /\ pkt \in Workload \ sent
  /\ pkt.senderID = p
  /\ MaySend(p, t, pkt)
  /\ PutOnWire(p, t, pkt)
  /\ sent' = sent \cup {pkt}
  /\ UNCHANGED <<delivered, waitingAcks, listenPC, incoming, toResend,
                 stopFlag, exited, pp2pDelivered>>

(* Mutant: a packet is sent once and never stored. *)
StoreNothing(p, t) ==
  /\ p \notin exited
  /\ sending[p][t] # NoPacket
  /\ sending' = [sending EXCEPT ![p][t] = NoPacket]
  /\ UNCHANGED <<net, delivered, waitingAcks, listenPC, incoming, toResend,
                 stopFlag, exited, sent, pp2pDelivered>>

(* The handler of SIGTERM interrupts main() for good. *)
StoreWaiting(p, t) ==
  /\ p \notin exited
  /\ sending[p][t] # NoPacket
  /\ ~(t = "main" /\ p \in stopFlag)
  /\ waitingAcks' = [waitingAcks EXCEPT ![p] = @ \cup {sending[p][t]}]
  /\ sending' = [sending EXCEPT ![p][t] = NoPacket]
  /\ UNCHANGED <<net, delivered, listenPC, incoming, toResend, stopFlag,
                 exited, sent, pp2pDelivered>>

-----------------------------------------------------------------------------
(* listen() *)

(* Mutant: the listener does not look at the flag. *)
ListenCheckNoFlag(p) ==
  /\ p \notin exited
  /\ sending[p]["listen"] = NoPacket
  /\ listenPC[p] \in {"check", "upper"}
  /\ listenPC' = [listenPC EXCEPT ![p] = "recv"]
  /\ UNCHANGED <<net, delivered, waitingAcks, sending, incoming, toResend,
                 stopFlag, exited, sent, pp2pDelivered>>

ListenCheck(p) ==
  /\ p \notin exited
  /\ sending[p]["listen"] = NoPacket
  /\ listenPC[p] \in {"check", "upper"}
  /\ listenPC' = [listenPC EXCEPT ![p] =
                     IF p \in stopFlag THEN "done" ELSE "recv"]
  /\ UNCHANGED <<net, delivered, waitingAcks, sending, incoming, toResend,
                 stopFlag, exited, sent, pp2pDelivered>>

(* A datagram leaves the network when it is received, unless UDP has made    *)
(* another copy of it; replies are put there.                                *)
Receive(pkt, replies) ==
  net' \in {net \cup replies, (net \ {pkt}) \cup replies}

(* handleAck, for the first and for any further copy of an ack. *)
ReceiveAck(p, pkt) ==
  /\ pkt.ack
  /\ Receive(pkt, {})
  /\ waitingAcks' = [waitingAcks EXCEPT ![p] =
                        {w \in @ : ackKey(w) # ackKey(pkt)}]
  /\ listenPC' = [listenPC EXCEPT ![p] = "check"]
  /\ UNCHANGED incoming

KnownPacket(p, pkt) == \E d \in delivered[p] : equals(d, pkt)

(* UDP may drop the ack as well. *)
Reply(pkt) == \E ack \in {{}, {Ack(pkt)}} : Receive(pkt, ack)

(* Mutant: the stop flag is read again before the callback. *)
ReceiveDataUnlessStopped(p, pkt) ==
  /\ ~pkt.ack
  /\ Reply(pkt)
  /\ IF KnownPacket(p, pkt) \/ p \in stopFlag
       THEN /\ listenPC' = [listenPC EXCEPT ![p] = "check"]
            /\ UNCHANGED incoming
       ELSE /\ incoming' = [incoming EXCEPT ![p] = pkt]
            /\ listenPC' = [listenPC EXCEPT ![p] = "upcall"]
  /\ UNCHANGED waitingAcks

(* handlePacket answers every copy; only the first goes to the upper layer. *)
ReceiveData(p, pkt) ==
  /\ ~pkt.ack
  /\ Reply(pkt)
  /\ \/ /\ ~KnownPacket(p, pkt)
        /\ incoming' = [incoming EXCEPT ![p] = pkt]
        /\ listenPC' = [listenPC EXCEPT ![p] = "upcall"]
     \/ /\ KnownPacket(p, pkt)
        /\ listenPC' = [listenPC EXCEPT ![p] = "check"]
        /\ UNCHANGED incoming
  /\ UNCHANGED waitingAcks

ListenRecv(p, pkt) ==
  /\ p \notin exited
  /\ listenPC[p] = "recv"
  /\ pkt \in net
  /\ Addressee(pkt) = p
  /\ ReceiveAck(p, pkt) \/ ReceiveData(p, pkt)
  /\ delivered' = [delivered EXCEPT ![p] = @ \cup {pkt}]
  /\ UNCHANGED <<sending, toResend, stopFlag, exited, sent, pp2pDelivered>>

Upcall(p) ==
  /\ p \notin exited
  /\ listenPC[p] = "upcall"
  /\ pp2pDelivered' = [pp2pDelivered EXCEPT ![p] = @ \cup {incoming[p]}]
  /\ incoming' = [incoming EXCEPT ![p] = NoPacket]
  /\ listenPC' = [listenPC EXCEPT ![p] = "upper"]
  /\ UNCHANGED <<net, delivered, waitingAcks, sending, toResend, stopFlag,
                 exited, sent>>

-----------------------------------------------------------------------------
(* resendMessages(): copy waitingAcks under the lock, then send every packet *)
(* of the copy, acknowledged meanwhile or not.  The stop flag is only read   *)
(* before a copy is made.                                                    *)

ResendWake(p) ==
  /\ p \notin exited \cup stopFlag
  /\ toResend[p] = {}
  /\ sending[p]["resend"] = NoPacket
  /\ toResend' = [toResend EXCEPT ![p] = waitingAcks[p]]
  /\ UNCHANGED <<net, delivered, waitingAcks, sending, listenPC, incoming,
                 stopFlag, exited, sent, pp2pDelivered>>

ResendOne(p, pkt) ==
  /\ pkt \in toResend[p]
  /\ PutOnWire(p, "resend", pkt)
  /\ toResend' = [toResend EXCEPT ![p] = @ \ {pkt}]
  /\ UNCHANGED <<delivered, waitingAcks, listenPC, incoming, stopFlag, exited,
                 sent, pp2pDelivered>>

-----------------------------------------------------------------------------
(* stop() from the signal handler, which then writes the log and exits. *)

Stop(p) ==
  /\ p \in Stoppable \ stopFlag
  /\ stopFlag' = stopFlag \cup {p}
  /\ UNCHANGED <<net, delivered, waitingAcks, sending, listenPC, incoming,
                 toResend, exited, sent, pp2pDelivered>>

Exit(p) ==
  /\ p \in stopFlag \ exited
  /\ exited' = exited \cup {p}
  /\ UNCHANGED <<net, delivered, waitingAcks, sending, listenPC, incoming,
                 toResend, stopFlag, sent, pp2pDelivered>>

Next ==
  \/ \E p \in Process :
       \/ \E t \in Thread : \E pkt \in Workload : UpperSend(p, t, pkt)
       \/ \E t \in Thread : StoreWaiting(p, t)
       \/ ListenCheck(p)
       \/ \E pkt \in Packet : ListenRecv(p, pkt)
       \/ Upcall(p)
       \/ ResendWake(p)
       \/ \E pkt \in Workload : ResendOne(p, pkt)
       \/ Stop(p)
       \/ Exit(p)

(* Every thread keeps running while its process does and the handler reaches *)
(* exit().  UDP is fair-lossy: of the transmissions of a datagram that is    *)
(* sent again and again some are not dropped, and recv() gets to each        *)
(* datagram that is not.                                                     *)
Fairness ==
  /\ \A p \in Process :
       /\ \A t \in Thread : WF_vars(StoreWaiting(p, t))
       /\ WF_vars(ListenCheck(p))
       /\ WF_vars(Upcall(p))
       /\ WF_vars(ResendWake(p))
       /\ WF_vars(\E pkt \in Workload : ResendOne(p, pkt))
       /\ WF_vars(Exit(p))
  /\ \A pkt \in Workload :
       SF_vars(ResendOne(pkt.senderID, pkt) /\ pkt \in net')
  /\ \A pkt \in Packet : SF_vars(ListenRecv(Addressee(pkt), pkt))

Spec == Init /\ [][Next]_vars /\ Fairness

-----------------------------------------------------------------------------
TypeOK ==
  /\ net \subseteq Packet
  /\ delivered \in [Process -> SUBSET Packet]
  /\ waitingAcks \in [Process -> SUBSET Workload]
  /\ sending \in [Process -> [Thread -> Workload \cup {NoPacket}]]
  /\ listenPC \in [Process -> {"check", "recv", "upcall", "upper", "done"}]
  /\ incoming \in [Process -> Workload \cup {NoPacket}]
  /\ toResend \in [Process -> SUBSET Workload]
  /\ stopFlag \subseteq Process
  /\ exited \subseteq stopFlag
  /\ sent \subseteq Workload
  /\ pp2pDelivered \in [Process -> SUBSET Workload]

(* A packet given to send() is never forgotten: it waits for its ack, a      *)
(* thread is about to make it wait, or its destination has received it -- so *)
(* an ack handled before the insertion into waitingAcks, or one that answers *)
(* another destination's copy, never stops the retransmission too early.     *)
NeverForgotten ==
  \A pkt \in sent :
    \/ pkt \in waitingAcks[pkt.senderID]
    \/ pkt \in delivered[pkt.destinationID]
    \/ \E t \in Thread : sending[pkt.senderID][t] = pkt

(* What the listener has recorded as delivered has gone to the upper layer,  *)
(* or goes there before the next packet is received.                         *)
RecordedIsHandedUp ==
  \A p \in Process : \A pkt \in delivered[p] :
    \/ pkt.ack
    \/ pkt \in pp2pDelivered[p]
    \/ listenPC[p] = "upcall" /\ incoming[p] = pkt

(* The callback never runs twice for one packet, however often the packet is *)
(* retransmitted or duplicated on the way.                                   *)
NoDuplication ==
  [][\A p \in Process : listenPC[p] = "upcall" /\ listenPC'[p] = "upper"
        => incoming[p] \notin pp2pDelivered[p]]_vars

(* The link implements ReliableLink, a process being crashed once its        *)
(* handler has called exit().  In particular, a packet handed to send()      *)
(* reaches the callback of its destination unless one of the two stops,      *)
(* whatever UDP loses, duplicates and reorders on the way.                   *)
Link == INSTANCE ReliableLink WITH
  Packet <- Workload,
  got <- UNION {pp2pDelivered[p] : p \in Process},
  crashed <- exited
ImplementsReliableLink == Link!Spec

(* README.md:134 wants a process that receives SIGTERM not to handle any     *)
(* received packet.  listen() reads the flag only before it blocks in        *)
(* recv(), so that it still handles the packet that wakes it up, and never   *)
(* another one.                                                              *)
QuietAfterNextPacket ==
  \A p \in Stoppable : \A pkt \in {k \in Packet : Addressee(k) = p} :
    [](p \in stopFlag /\ listenPC[p] # "recv" /\ pkt \notin delivered[p]
         => [](pkt \notin delivered[p]))

=============================================================================
