--------------------------- MODULE PerfectLinkProofs ---------------------------
(***************************************************************************)
(* Proofs about PerfectLink, for all processes, packets and crashes: what    *)
(* the link promises whatever UDP does, and that every step is a step of     *)
(* ReliableLink.  The key of the argument is AckedIsDelivered: an ack on its *)
(* way says the truth about its own packet, and about no other one.          *)
(***************************************************************************)
EXTENDS PerfectLink, TLAPS

AckedIsDelivered ==
  \A pkt \in Workload : Ack(pkt) \in net => pkt \in delivered[pkt.destinationID]

(* No packet appears anywhere that the upper layer has not sent. *)
OnlySent ==
  /\ net \cap Workload \subseteq sent
  /\ \A p \in Process :
       /\ waitingAcks[p] \cup toResend[p] \subseteq sent
       /\ \A t \in Thread : sending[p][t] \in sent \cup {NoPacket}
       /\ delivered[p] \cap Workload \subseteq sent

(* What has been handed up, or is about to be, is recorded, where it belongs. *)
HandedUpIsRecorded ==
  \A p \in Process :
    /\ \A pkt \in delivered[p] : Addressee(pkt) = p
    /\ pp2pDelivered[p] \subseteq delivered[p]
    /\ listenPC[p] = "upcall" =>
         /\ incoming[p] \in Workload
         /\ incoming[p] \in delivered[p] \ pp2pDelivered[p]

IInv ==
  /\ TypeOK
  /\ NeverForgotten
  /\ RecordedIsHandedUp
  /\ AckedIsDelivered
  /\ OnlySent
  /\ HandedUpIsRecorded

-----------------------------------------------------------------------------
(* A data packet and its ack. *)
LEMMA PacketFacts ==
  ASSUME NEW pkt \in Workload
  PROVE  /\ ~pkt.ack /\ Ack(pkt).ack
         /\ pkt # NoPacket /\ Ack(pkt) \notin Workload
         /\ pkt.senderID \in Process /\ pkt.destinationID \in Process
         /\ Addressee(pkt) = pkt.destinationID
         /\ Addressee(Ack(pkt)) = pkt.senderID
         /\ ackKey(Ack(pkt)) = ackKey(pkt)
<1>1. pkt = DataPacket(pkt.msg, pkt.senderID, pkt.destinationID)
  BY WorkloadAssumption
<1>2. ~pkt.ack
  BY <1>1 DEF DataPacket
<1>3. /\ Ack(pkt).ack /\ Ack(pkt).msg = pkt.msg
      /\ Ack(pkt).senderID = pkt.senderID
      /\ Ack(pkt).destinationID = pkt.destinationID
  BY <1>1 DEF DataPacket, Ack
<1>4. Ack(pkt) \notin Workload
  <2> SUFFICES ASSUME Ack(pkt) \in Workload
               PROVE  ~Ack(pkt).ack
    BY <1>3
  <2> QED
    BY WorkloadAssumption DEF DataPacket
<1> QED
  BY <1>2, <1>3, <1>4, WorkloadAssumption DEF Addressee, ackKey, Packet

(* The key of a data packet names it. *)
LEMMA KeyIsUnique ==
  ASSUME NEW a \in Workload, NEW b \in Workload, ackKey(a) = ackKey(b)
  PROVE  a = b
  BY WorkloadAssumption DEF ackKey, DataPacket

LEMMA PacketKinds ==
  ASSUME NEW pkt \in Packet
  PROVE  /\ pkt.ack => \E w \in Workload : pkt = Ack(w)
         /\ ~pkt.ack => pkt \in Workload
  BY PacketFacts DEF Packet

-----------------------------------------------------------------------------
LEMMA InitIInv == Init => IInv
<1> SUFFICES ASSUME Init
             PROVE  IInv
  OBVIOUS
<1> USE DEF Init
<1>1. TypeOK
  BY DEF TypeOK
<1>2. NeverForgotten /\ RecordedIsHandedUp /\ AckedIsDelivered
  BY DEF NeverForgotten, RecordedIsHandedUp, AckedIsDelivered
<1>3. OnlySent /\ HandedUpIsRecorded
  BY DEF OnlySent, HandedUpIsRecorded
<1> QED
  BY <1>1, <1>2, <1>3 DEF IInv

(* A transmission, by the upper layer or by the resend thread, disturbs      *)
(* nothing: its packet is in the hands of the thread.                        *)
LEMMA UpperSendStep ==
  ASSUME IInv, NEW p \in Process, NEW t \in Thread, NEW pkt \in Workload,
         UpperSend(p, t, pkt)
  PROVE  IInv'
<1> USE DEF IInv, UpperSend, PutOnWire, sendto
<1>1. TypeOK'
  BY DEF TypeOK, Packet
<1>2. NeverForgotten'
  BY PacketFacts DEF TypeOK, NeverForgotten
<1>3. RecordedIsHandedUp' /\ HandedUpIsRecorded'
  BY DEF RecordedIsHandedUp, HandedUpIsRecorded
<1>4. AckedIsDelivered'
  BY PacketFacts DEF AckedIsDelivered
<1>5. OnlySent'
  BY DEF TypeOK, OnlySent
<1> QED
  BY <1>1, <1>2, <1>3, <1>4, <1>5

LEMMA ResendOneStep ==
  ASSUME IInv, NEW p \in Process, NEW pkt \in Workload, ResendOne(p, pkt)
  PROVE  IInv'
<1> USE DEF IInv, ResendOne, PutOnWire, sendto, Thread
<1>1. TypeOK'
  BY DEF TypeOK, Packet
<1>2. NeverForgotten'
  BY PacketFacts DEF TypeOK, NeverForgotten
<1>3. RecordedIsHandedUp' /\ HandedUpIsRecorded'
  BY DEF RecordedIsHandedUp, HandedUpIsRecorded
<1>4. AckedIsDelivered'
  BY PacketFacts DEF AckedIsDelivered
<1>5. OnlySent'
  BY DEF TypeOK, OnlySent
<1> QED
  BY <1>1, <1>2, <1>3, <1>4, <1>5

(* The packet passes from the thread to waitingAcks. *)
LEMMA StoreWaitingStep ==
  ASSUME IInv, NEW p \in Process, NEW t \in Thread, StoreWaiting(p, t)
  PROVE  IInv'
<1> USE DEF IInv, StoreWaiting
<1>1. TypeOK'
  BY DEF TypeOK
<1>2. NeverForgotten'
  BY PacketFacts DEF TypeOK, NeverForgotten
<1>3. RecordedIsHandedUp' /\ HandedUpIsRecorded' /\ AckedIsDelivered'
  BY DEF RecordedIsHandedUp, HandedUpIsRecorded, AckedIsDelivered
<1>4. OnlySent'
  BY DEF TypeOK, OnlySent
<1> QED
  BY <1>1, <1>2, <1>3, <1>4

LEMMA ListenCheckStep ==
  ASSUME IInv, NEW p \in Process, ListenCheck(p)
  PROVE  IInv'
<1> USE DEF IInv, ListenCheck
<1>1. TypeOK'
  BY DEF TypeOK
<1>2. NeverForgotten' /\ AckedIsDelivered' /\ OnlySent'
  BY DEF NeverForgotten, AckedIsDelivered, OnlySent
<1>3. RecordedIsHandedUp' /\ HandedUpIsRecorded'
  BY DEF TypeOK, RecordedIsHandedUp, HandedUpIsRecorded
<1> QED
  BY <1>1, <1>2, <1>3

(* An ack takes out of waitingAcks one packet only, which has arrived. *)
LEMMA ReceiveAckStep ==
  ASSUME IInv, NEW p \in Process, NEW pkt \in Packet, ListenRecv(p, pkt),
         ReceiveAck(p, pkt)
  PROVE  IInv'
<1> USE DEF IInv, ListenRecv, ReceiveAck, Receive
<1>1. PICK w \in Workload : pkt = Ack(w)
  BY PacketKinds
<1>2. w \in delivered[w.destinationID]
  BY <1>1 DEF AckedIsDelivered
<1>3. TypeOK'
  BY DEF TypeOK
<1>4. NeverForgotten'
  <2> SUFFICES ASSUME NEW k \in sent, k \in waitingAcks[k.senderID],
                      k \notin waitingAcks'[k.senderID]
               PROVE  k = w
    BY <1>2, PacketFacts DEF TypeOK, NeverForgotten
  <2>1. k \in Workload /\ ackKey(k) = ackKey(pkt)
    BY DEF TypeOK
  <2> QED
    BY <1>1, <2>1, PacketFacts, KeyIsUnique
<1>5. RecordedIsHandedUp' /\ HandedUpIsRecorded'
  BY <1>1, PacketFacts DEF TypeOK, RecordedIsHandedUp, HandedUpIsRecorded
<1>6. AckedIsDelivered'
  BY PacketFacts DEF TypeOK, AckedIsDelivered
<1>7. OnlySent'
  BY <1>1, PacketFacts DEF TypeOK, OnlySent
<1> QED
  BY <1>3, <1>4, <1>5, <1>6, <1>7

(* A data packet is recorded before its ack can be received. *)
LEMMA ReceiveDataStep ==
  ASSUME IInv, NEW p \in Process, NEW pkt \in Packet, ListenRecv(p, pkt),
         ReceiveData(p, pkt)
  PROVE  IInv'
<1> USE DEF IInv, ListenRecv, ReceiveData, Reply, Receive
<1>1. pkt \in Workload /\ pkt.destinationID = p
  BY PacketKinds, PacketFacts
<1>2. net' \subseteq net \cup {Ack(pkt)}
  OBVIOUS
<1>3. TypeOK'
  <2>1. net' \subseteq Packet
    BY <1>1, <1>2 DEF TypeOK, Packet
  <2>2. listenPC' \in [Process -> {"check", "recv", "upcall", "upper", "done"}]
    BY DEF TypeOK
  <2>3. incoming' \in [Process -> Workload \cup {NoPacket}]
    BY <1>1, SMTT(20) DEF TypeOK
  <2>4. delivered' \in [Process -> SUBSET Packet]
    BY DEF TypeOK
  <2> QED
    BY <2>1, <2>2, <2>3, <2>4 DEF TypeOK
<1>4. NeverForgotten'
  BY PacketFacts DEF TypeOK, NeverForgotten
<1>5. RecordedIsHandedUp'
  BY DEF TypeOK, RecordedIsHandedUp, KnownPacket, equals
<1>6. AckedIsDelivered'
  <2> SUFFICES ASSUME NEW w \in Workload, Ack(w) \in net'
               PROVE  w \in delivered'[w.destinationID]
    BY DEF AckedIsDelivered
  <2>1. CASE Ack(w) \in net
    BY <2>1, PacketFacts DEF TypeOK, AckedIsDelivered
  <2>2. CASE Ack(w) = Ack(pkt)
    <3>1. w = pkt
      BY <1>1, <2>2, PacketFacts, KeyIsUnique
    <3> QED
      BY <1>1, <3>1 DEF TypeOK
  <2> QED
    BY <1>2, <2>1, <2>2
<1>7. OnlySent'
  BY <1>1, <1>2, PacketFacts DEF TypeOK, OnlySent
<1>8. HandedUpIsRecorded'
  BY <1>1 DEF TypeOK, HandedUpIsRecorded, KnownPacket, equals
<1> QED
  BY <1>3, <1>4, <1>5, <1>6, <1>7, <1>8

LEMMA UpcallStep ==
  ASSUME IInv, NEW p \in Process, Upcall(p)
  PROVE  IInv'
<1> USE DEF IInv, Upcall
<1>1. TypeOK'
  BY DEF TypeOK, HandedUpIsRecorded
<1>2. NeverForgotten' /\ AckedIsDelivered' /\ OnlySent'
  BY DEF NeverForgotten, AckedIsDelivered, OnlySent
<1>3. RecordedIsHandedUp'
  BY DEF TypeOK, RecordedIsHandedUp
<1>4. HandedUpIsRecorded'
  BY DEF TypeOK, HandedUpIsRecorded
<1> QED
  BY <1>1, <1>2, <1>3, <1>4

LEMMA ResendWakeStep ==
  ASSUME IInv, NEW p \in Process, ResendWake(p)
  PROVE  IInv'
<1> USE DEF IInv, ResendWake
<1>1. TypeOK'
  BY DEF TypeOK
<1>2. NeverForgotten' /\ RecordedIsHandedUp' /\ AckedIsDelivered'
  BY DEF NeverForgotten, RecordedIsHandedUp, AckedIsDelivered
<1>3. OnlySent' /\ HandedUpIsRecorded'
  BY DEF TypeOK, OnlySent, HandedUpIsRecorded
<1> QED
  BY <1>1, <1>2, <1>3

(* The signal handler, and a step that changes nothing. *)
LEMMA StopStep ==
  ASSUME IInv, NEW p \in Process, Stop(p) \/ Exit(p) \/ UNCHANGED vars
  PROVE  IInv'
<1> USE DEF IInv, Stop, Exit, vars
<1>1. TypeOK'
  BY DEF TypeOK
<1>2. NeverForgotten' /\ RecordedIsHandedUp' /\ AckedIsDelivered'
  BY DEF NeverForgotten, RecordedIsHandedUp, AckedIsDelivered
<1>3. OnlySent' /\ HandedUpIsRecorded'
  BY DEF OnlySent, HandedUpIsRecorded
<1> QED
  BY <1>1, <1>2, <1>3

LEMMA Invariance == Spec => []IInv
<1>1. ASSUME IInv, [Next]_vars
      PROVE  IInv'
  <2>1. CASE UNCHANGED vars
    BY <1>1, <2>1 DEF IInv, vars, TypeOK, NeverForgotten, RecordedIsHandedUp,
       AckedIsDelivered, OnlySent, HandedUpIsRecorded
  <2>2. CASE Next
    <3> PICK p \in Process :
          \/ \E t \in Thread : \E pkt \in Workload : UpperSend(p, t, pkt)
          \/ \E t \in Thread : StoreWaiting(p, t)
          \/ ListenCheck(p)
          \/ \E pkt \in Packet : ListenRecv(p, pkt)
          \/ Upcall(p)
          \/ ResendWake(p)
          \/ \E pkt \in Workload : ResendOne(p, pkt)
          \/ Stop(p)
          \/ Exit(p)
      BY <2>2 DEF Next
    <3>1. ASSUME NEW pkt \in Packet, ListenRecv(p, pkt)
          PROVE  IInv'
      <4>1. ReceiveAck(p, pkt) \/ ReceiveData(p, pkt)
        BY <3>1 DEF ListenRecv
      <4> QED
        BY <1>1, <3>1, <4>1, ReceiveAckStep, ReceiveDataStep
    <3> QED
      BY <1>1, <3>1, UpperSendStep, StoreWaitingStep, ListenCheckStep,
         UpcallStep, ResendWakeStep, ResendOneStep, StopStep
  <2> QED
    BY <1>1, <2>1, <2>2
<1> QED
  BY <1>1, InitIInv, PTL DEF Spec

-----------------------------------------------------------------------------
(* Type correctness, for every set of processes and packets. *)
THEOREM TypeCorrect == Spec => []TypeOK
<1>1. IInv => TypeOK
  BY DEF IInv
<1> QED
  BY <1>1, Invariance, PTL

(* A packet given to send() is not forgotten before its destination has it   *)
(* (perfectlink.cpp:74 stores it after sendto()).                            *)
THEOREM StaysUntilDelivered == Spec => []NeverForgotten
<1>1. IInv => NeverForgotten
  BY DEF IInv
<1> QED
  BY <1>1, Invariance, PTL

(* What the listener has recorded goes to the upper layer. *)
THEOREM HandedUp == Spec => []RecordedIsHandedUp
<1>1. IInv => RecordedIsHandedUp
  BY DEF IInv
<1> QED
  BY <1>1, Invariance, PTL

(* The callback runs once for a packet, however often UDP duplicates it.     *)
THEOREM UpcallOnce == Spec => NoDuplication
<1> DEFINE Fresh ==
      \A p \in Process : listenPC[p] = "upcall" /\ listenPC'[p] = "upper"
        => incoming[p] \notin pp2pDelivered[p]
<1>1. IInv => Fresh
  BY DEF IInv, HandedUpIsRecorded
<1>2. IInv /\ [Next]_vars => [Fresh]_vars
  BY <1>1
<1> QED
  BY <1>2, Invariance, PTL DEF Spec, NoDuplication

(* After stop() the listener handles the packet that wakes it up, and no     *)
(* other one (perfectlink.cpp:135).                                          *)
THEOREM StopTakesEffect == Spec => QuietAfterNextPacket
<1> SUFFICES ASSUME NEW p \in Stoppable, NEW pkt \in {k \in Packet : Addressee(k) = p}
             PROVE  Spec => [](p \in stopFlag /\ listenPC[p] # "recv"
                                  /\ pkt \notin delivered[p]
                                => [](pkt \notin delivered[p]))
  BY DEF QuietAfterNextPacket
<1> DEFINE Unread == pkt \notin delivered[p]
           Stopped == p \in stopFlag /\ listenPC[p] # "recv" /\ Unread
<1>1. Stopped => Unread
  OBVIOUS
<1>2. ASSUME IInv, [Next]_vars, Stopped
      PROVE  Stopped'
  <2>1. p \in Process
    BY <1>2 DEF IInv, TypeOK
  <2>2. CASE UNCHANGED vars
    BY <1>2, <2>2 DEF vars
  <2>3. ASSUME NEW q \in Process, ListenCheck(q)
        PROVE  Stopped'
    BY <1>2, <2>1, <2>3 DEF ListenCheck, IInv, TypeOK
  <2>4. ASSUME NEW q \in Process, NEW k \in Packet, ListenRecv(q, k)
        PROVE  Stopped'
    BY <1>2, <2>1, <2>4 DEF ListenRecv, ReceiveAck, ReceiveData, IInv, TypeOK
  <2>5. ASSUME NEW q \in Process, Upcall(q)
        PROVE  Stopped'
    BY <1>2, <2>1, <2>5 DEF Upcall, IInv, TypeOK
  <2>6. CASE Next /\ UNCHANGED <<listenPC, delivered>>
    BY <1>2, <2>6 DEF Next, UpperSend, StoreWaiting, ListenCheck, ListenRecv,
       Upcall, ResendWake, ResendOne, Stop, Exit
  <2> QED
    BY <1>2, <2>2, <2>3, <2>4, <2>5, <2>6 DEF Next, UpperSend, StoreWaiting,
       ResendWake, ResendOne, Stop, Exit
<1>3. Spec => [](Stopped => []Unread)
  BY <1>1, <1>2, Invariance, PTL DEF Spec
<1> QED
  BY <1>3

-----------------------------------------------------------------------------
(* Every step of the link is a step of ReliableLink or leaves it unchanged.  *)
got == UNION {pp2pDelivered[p] : p \in Process}

(* A packet is handed up at its destination, and nowhere else. *)
LEMMA UpcallIsDeliver ==
  ASSUME IInv, NEW p \in Process, Upcall(p)
  PROVE  \E pkt \in Workload : Link!Deliver(pkt)
<1>a. PICK pkt \in Workload : pkt = incoming[p]
  BY DEF IInv, HandedUpIsRecorded, Upcall
<1>1. /\ pkt \in delivered[p] \ pp2pDelivered[p]
      /\ Addressee(pkt) = p
  BY <1>a DEF IInv, HandedUpIsRecorded, Upcall
<1>2. pkt.destinationID = p
  BY <1>1, PacketFacts
<1>3. pkt \in sent
  BY <1>1 DEF IInv, OnlySent
<1>4. pkt \notin got
  <2> SUFFICES ASSUME NEW q \in Process, pkt \in pp2pDelivered[q]
               PROVE  FALSE
    BY DEF got
  <2>1. Addressee(pkt) = q
    BY DEF IInv, HandedUpIsRecorded
  <2> QED
    BY <1>1, <2>1
<1>5. got' = got \cup {pkt}
  BY <1>a DEF got, Upcall, IInv, TypeOK
<1>6. UNCHANGED <<sent, exited>> /\ p \notin exited
  BY DEF Upcall
<1> QED
  BY <1>2, <1>3, <1>4, <1>5, <1>6 DEF got, Link!Deliver

LEMMA LinkStep ==
  ASSUME IInv, [Next]_vars
  PROVE  [Link!Next]_(Link!linkVars)
<1>1. ASSUME NEW p \in Process, Upcall(p)
      PROVE  Link!Next
  <2>1. \E pkt \in Workload : Link!Deliver(pkt)
    BY <1>1, UpcallIsDeliver
  <2> QED
    BY <2>1 DEF Link!Next
<1>2. ASSUME NEW p \in Process, NEW t \in Thread, NEW pkt \in Workload,
             UpperSend(p, t, pkt)
      PROVE  Link!Next
  <2>1. Link!Send(pkt)
    BY <1>2 DEF UpperSend, PutOnWire, Link!Send
  <2> QED
    BY <2>1 DEF Link!Next
<1>3. ASSUME NEW p \in Process, Exit(p)
      PROVE  Link!Next
  <2>1. Link!Crash(p)
    BY <1>3 DEF Exit, Link!Crash
  <2> QED
    BY <2>1 DEF Link!Next
<1>4. ASSUME UNCHANGED <<sent, pp2pDelivered, exited>>
      PROVE  UNCHANGED Link!linkVars
  BY <1>4 DEF Link!linkVars
<1>5. CASE UNCHANGED vars
  BY <1>4, <1>5 DEF vars
<1>6. CASE Next
  BY <1>1, <1>2, <1>3, <1>4, <1>6 DEF Next, StoreWaiting, ListenCheck,
     ListenRecv, ResendWake, ResendOne, Stop
<1> QED
  BY <1>5, <1>6

(* The safety half of ImplementsReliableLink. *)
THEOREM LinkIsReliable == Spec => Link!Init /\ [][Link!Next]_(Link!linkVars)
<1>1. Init => Link!Init
  BY DEF Init, Link!Init
<1>2. IInv /\ [Next]_vars => [Link!Next]_(Link!linkVars)
  BY LinkStep
<1> QED
  BY <1>1, <1>2, Invariance, PTL DEF Spec

=============================================================================
