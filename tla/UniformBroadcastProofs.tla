------------------------ MODULE UniformBroadcastProofs ------------------------
(***************************************************************************)
(* Proofs about UniformBroadcast, for every number of processes (at least    *)
(* two), every set of messages and every crash pattern.  The inductive       *)
(* invariant is IInv.                                                        *)
(***************************************************************************)
EXTENDS UniformBroadcast, FiniteSetTheorems, TLAPS

(* A frame works on a message that its process has forwarded. *)
FramesHoldForwarded ==
  \A p \in Process, f \in Frame :
    pc[p][f] # "idle" => current[p][f] \in forwarded[p]

(* Only forwarded messages travel. *)
SentAreForwarded == \A pkt \in sent : pkt.msg \in forwarded[pkt.senderID]

(* What a process knows of others is true, and it has forwarded itself what  *)
(* it knows others have.                                                     *)
AcksAreTrue ==
  \A p, q \in Process, m \in Msg :
    <<m, q>> \in acks[p] => m \in forwarded[q] /\ m \in forwarded[p]

(* Nobody forwards a message that its origin has not broadcast. *)
OriginFirst ==
  \A p \in Process : \A m \in forwarded[p] : m \in forwarded[Origin[m]]

(* The callback is about to run only for what it has not had yet. *)
UpcallsAreDelivered ==
  \A p \in Process :
    /\ upcalls[p] \subseteq delivered[p]
    /\ \A f \in Frame : pc[p][f] = "upcall" =>
         current[p][f] \in delivered[p] \ upcalls[p]

IInv ==
  /\ TypeOK
  /\ FramesHoldForwarded
  /\ SentAreForwarded
  /\ AcksAreTrue
  /\ OriginFirst
  /\ UniformMajority
  /\ NoMissedDelivery
  /\ OnlyListenerDelivers
  /\ UpcallsAreDelivered

-----------------------------------------------------------------------------
(* A superset of a majority is one. *)
LEMMA MajorityMonotone ==
  ASSUME NEW R \in SUBSET Process, NEW Q \in SUBSET R, Majority(Q)
  PROVE  Majority(R)
<1>1. IsFiniteSet(R) /\ IsFiniteSet(Process)
  BY ProcessAssumption, FS_Subset
<1>2. IsFiniteSet(Q) /\ Cardinality(Q) <= Cardinality(R)
  BY <1>1, FS_Subset
<1>3. /\ Cardinality(Q) \in Nat
      /\ Cardinality(R) \in Nat
      /\ Cardinality(Process) \in Nat
  BY <1>1, <1>2, FS_CardinalityType
<1> QED
  BY <1>2, <1>3 DEF Majority

(* One process alone is no majority. *)
LEMMA NotAlone ==
  ASSUME NEW p \in Process
  PROVE  ~Majority({p})
<1>1. Cardinality({p}) = 1
  BY FS_Singleton
<1>2. Cardinality(Process) \in Nat /\ Cardinality(Process) >= 2
  BY ProcessAssumption, FS_CardinalityType
<1> QED
  BY <1>1, <1>2 DEF Majority

(* The initial states satisfy the invariant. *)
LEMMA InitIInv == Init => IInv
<1> SUFFICES ASSUME Init
             PROVE  IInv
  OBVIOUS
<1> USE DEF Init, Link!Init
<1>1. TypeOK
  BY DEF TypeOK
<1>2. FramesHoldForwarded /\ OnlyListenerDelivers
  BY DEF FramesHoldForwarded, OnlyListenerDelivers
<1>3. SentAreForwarded /\ AcksAreTrue /\ OriginFirst
  BY DEF SentAreForwarded, AcksAreTrue, OriginFirst
<1>4. UniformMajority /\ UpcallsAreDelivered
  BY DEF UniformMajority, UpcallsAreDelivered
<1>5. NoMissedDelivery
  BY DEF NoMissedDelivery, canDeliver
<1> QED
  BY <1>1, <1>2, <1>3, <1>4, <1>5 DEF IInv

(* broadcast(): the message is new to its origin, so that the origin's own   *)
(* acknowledgement is the only one and no majority is reached.               *)
LEMMA BroadcastStep ==
  ASSUME IInv, NEW p \in Process, NEW f \in Frame, NEW m \in Msg,
         Broadcast(p, f, m)
  PROVE  IInv'
<1> USE DEF Broadcast, StartSending, linkVars
<1>0. f # "bebDeliver"
  BY DEF MayBroadcast
<1>1. TypeOK'
  BY MsgAssumption DEF IInv, TypeOK
<1>2. FramesHoldForwarded' /\ OnlyListenerDelivers'
  BY DEF IInv, TypeOK, FramesHoldForwarded, OnlyListenerDelivers
<1>3. SentAreForwarded' /\ OriginFirst'
  BY MsgAssumption DEF IInv, TypeOK, SentAreForwarded, OriginFirst, Packet
<1>4. AcksAreTrue'
  BY DEF IInv, TypeOK, AcksAreTrue
<1>5. UniformMajority'
  <2> SUFFICES ASSUME NEW q \in Process, NEW n \in delivered[q]
               PROVE  Majority(Forwarders(n))'
    BY DEF UniformMajority
  <2>1. Majority(Forwarders(n))
    BY DEF IInv, UniformMajority
  <2>2. Forwarders(n) \subseteq Forwarders(n)' /\ Forwarders(n)' \subseteq Process
    BY DEF IInv, TypeOK, Forwarders
  <2> QED
    BY <2>1, <2>2, MajorityMonotone DEF Majority
<1>6. NoMissedDelivery'
  <2> SUFFICES ASSUME NEW q \in Process, NEW n \in Msg, canDeliver(q, n)'
               PROVE  (Locked(q) /\ current[q]["bebDeliver"] = n)'
    BY DEF NoMissedDelivery
  <2>1. CASE q = p /\ n = m
    <3>1. Ackers(p, m)' = {p}
      BY DEF IInv, TypeOK, AcksAreTrue, Ackers
    <3> QED
      BY <2>1, <3>1, NotAlone DEF canDeliver, receivedAllAcks, Majority
  <2>2. CASE ~(q = p /\ n = m)
    <3>1. Ackers(q, n)' = Ackers(q, n)
      BY <2>2 DEF IInv, TypeOK, Ackers
    <3>2. canDeliver(q, n)
      BY <2>2, <3>1 DEF IInv, TypeOK, canDeliver, receivedAllAcks
    <3>3. Locked(q) /\ current[q]["bebDeliver"] = n
      BY <3>2 DEF IInv, NoMissedDelivery
    <3> QED
      BY <3>3, <1>0 DEF IInv, TypeOK, Locked
  <2> QED
    BY <2>1, <2>2
<1>7. UpcallsAreDelivered'
  BY DEF IInv, TypeOK, UpcallsAreDelivered
<1> QED
  BY <1>1, <1>2, <1>3, <1>4, <1>5, <1>6, <1>7 DEF IInv

(* Steps that only forward more keep every delivered message's majority. *)
LEMMA MajorityKept ==
  ASSUME TypeOK, TypeOK', UniformMajority,
         \A q \in Process : forwarded[q] \subseteq forwarded'[q],
         UNCHANGED delivered
  PROVE  UniformMajority'
<1> SUFFICES ASSUME NEW q \in Process, NEW n \in delivered[q]
             PROVE  Majority(Forwarders(n))'
  BY DEF UniformMajority
<1>1. Majority(Forwarders(n))
  BY DEF UniformMajority
<1>2. Forwarders(n) \subseteq Forwarders(n)' /\ Forwarders(n)' \subseteq Process
  BY DEF Forwarders
<1> QED
  BY <1>1, <1>2, MajorityMonotone DEF Majority

(* bebBroadcast sends what the frame's process has forwarded. *)
LEMMA SendOneStep ==
  ASSUME IInv, NEW p \in Process, NEW f \in Frame, NEW q \in Process,
         SendOne(p, f, q)
  PROVE  IInv'
<1> USE DEF SendOne, Link!Send, stateVars
<1>0. current[p][f] \in forwarded[p]
  BY DEF IInv, FramesHoldForwarded
<1>1. TypeOK'
  BY <1>0 DEF IInv, TypeOK, Packet
<1>2. FramesHoldForwarded' /\ OnlyListenerDelivers' /\ UpcallsAreDelivered'
  BY DEF IInv, FramesHoldForwarded, OnlyListenerDelivers, UpcallsAreDelivered
<1>3. SentAreForwarded' /\ OriginFirst' /\ AcksAreTrue'
  BY <1>0 DEF IInv, SentAreForwarded, OriginFirst, AcksAreTrue
<1>4. UniformMajority'
  BY <1>1, MajorityKept DEF IInv
<1>5. NoMissedDelivery'
  BY DEF IInv, NoMissedDelivery, canDeliver, receivedAllAcks, Ackers, Locked
<1> QED
  BY <1>1, <1>2, <1>3, <1>4, <1>5 DEF IInv

(* bebDeliver() takes the lock; only the message at hand may have become     *)
(* deliverable.                                                              *)
LEMMA BebDeliverStep ==
  ASSUME IInv, NEW p \in Process, NEW pkt \in Packet, BebDeliver(p, pkt)
  PROVE  IInv'
<1> USE DEF BebDeliver, StartSending, StoreAcks, RelayTargets, Link!Deliver
<1>0. /\ pkt.msg \in Msg
      /\ pkt.senderID \in Process
      /\ pkt.msg \in forwarded[pkt.senderID]
  BY DEF IInv, SentAreForwarded, Packet
<1>1. TypeOK'
  <2>1. /\ sent' \subseteq Packet
        /\ got' \subseteq sent'
        /\ crashed' \subseteq Process
    BY DEF IInv, TypeOK
  <2>2. /\ forwarded' \in [Process -> SUBSET Msg]
        /\ acks' \in [Process -> SUBSET (Msg \X Process)]
        /\ delivered' \in [Process -> SUBSET Msg]
    BY <1>0 DEF IInv, TypeOK
  <2>3. /\ pc' \in [Process -> [Frame -> {"idle", "send", "upcall", "upper"}]]
        /\ current' \in [Process -> [Frame -> Msg \cup {NoMsg}]]
        /\ todo' \in [Process -> [Frame -> SUBSET Process]]
        /\ upcalls' \in [Process -> SUBSET Msg]
    BY <1>0 DEF IInv, TypeOK, Frame
  <2> QED
    BY <2>1, <2>2, <2>3 DEF TypeOK
<1>2. FramesHoldForwarded' /\ OnlyListenerDelivers'
  BY DEF IInv, TypeOK, FramesHoldForwarded, OnlyListenerDelivers, Frame
<1>3. SentAreForwarded' /\ OriginFirst'
  <2>1. SentAreForwarded'
    BY DEF IInv, TypeOK, SentAreForwarded, Packet
  <2>2. OriginFirst'
    BY <1>0, MsgAssumption DEF IInv, TypeOK, OriginFirst
  <2> QED
    BY <2>1, <2>2
<1>4. AcksAreTrue'
  BY <1>0 DEF IInv, TypeOK, AcksAreTrue
<1>5. UniformMajority'
  BY <1>1, MajorityKept DEF IInv, TypeOK
<1>6. NoMissedDelivery'
  <2> SUFFICES ASSUME NEW q \in Process, NEW n \in Msg, canDeliver(q, n)'
               PROVE  (Locked(q) /\ current[q]["bebDeliver"] = n)'
    BY DEF NoMissedDelivery
  <2>1. CASE q = p /\ n = pkt.msg
    BY <2>1 DEF IInv, TypeOK, Locked, Frame
  <2>2. CASE ~(q = p /\ n = pkt.msg)
    <3>1. Ackers(q, n)' = Ackers(q, n)
      BY <2>2 DEF IInv, TypeOK, Ackers
    <3>2. canDeliver(q, n)
      BY <2>2, <3>1 DEF IInv, TypeOK, canDeliver, receivedAllAcks
    <3>3. Locked(q) /\ current[q]["bebDeliver"] = n
      BY <3>2 DEF IInv, NoMissedDelivery
    <3>4. q # p
      BY <3>3 DEF Locked
    <3> QED
      BY <3>3, <3>4 DEF IInv, TypeOK, Locked
  <2> QED
    BY <2>1, <2>2
<1>7. UpcallsAreDelivered'
  BY DEF IInv, TypeOK, UpcallsAreDelivered, Frame
<1> QED
  BY <1>1, <1>2, <1>3, <1>4, <1>5, <1>6, <1>7 DEF IInv

(* The end of both methods: canDeliver is only true on the listener, for the *)
(* message at hand, and then a majority has sent it.                         *)
LEMMA ConcludeStep ==
  ASSUME IInv, NEW p \in Process, NEW f \in Frame, Conclude(p, f)
  PROVE  IInv'
<1> USE DEF Conclude, linkVars
<1> DEFINE m == current[p][f]
<1>0. m \in forwarded[p] /\ m \in Msg
  BY DEF IInv, TypeOK, FramesHoldForwarded
<1>a. PICK s \in {"idle", "upcall"} : pc' = [pc EXCEPT ![p][f] = s]
  BY DEF Conclude
<1>b. delivered' \in [Process -> SUBSET Msg]
  <2>1. CASE canDeliver(p, m)
    <3>1. delivered' = [delivered EXCEPT ![p] = @ \cup {m}]
      BY <2>1
    <3>2. m \in Msg /\ delivered \in [Process -> SUBSET Msg]
      BY <1>0 DEF IInv, TypeOK
    <3> HIDE DEF m
    <3> QED
      BY <3>1, <3>2
  <2>2. CASE ~canDeliver(p, m)
    BY <2>2 DEF IInv, TypeOK
  <2> QED
    BY <2>1, <2>2
<1>1. TypeOK'
  BY <1>a, <1>b DEF IInv, TypeOK
<1>2. FramesHoldForwarded'
  BY <1>a DEF IInv, TypeOK, FramesHoldForwarded
<1>3. SentAreForwarded' /\ OriginFirst' /\ AcksAreTrue'
  BY DEF IInv, SentAreForwarded, OriginFirst, AcksAreTrue
<1>4. canDeliver(p, m) => f = "bebDeliver"
  BY <1>0 DEF IInv, NoMissedDelivery
<1>5. UniformMajority'
  <2> SUFFICES ASSUME NEW q \in Process, NEW n \in delivered[q]'
               PROVE  Majority(Forwarders(n))
    BY DEF UniformMajority, Majority, Forwarders
  <2>1. CASE n \in delivered[q]
    BY <2>1 DEF IInv, UniformMajority
  <2>2. CASE n \notin delivered[q]
    <3>1. q = p /\ n = m /\ receivedAllAcks(p, m)
      BY <2>2 DEF IInv, TypeOK, canDeliver
    <3>2. Majority(Ackers(p, m))
      BY <3>1 DEF receivedAllAcks, Majority
    <3>3. Ackers(p, m) \subseteq Forwarders(m) /\ Forwarders(m) \subseteq Process
      BY <1>0 DEF IInv, AcksAreTrue, Ackers, Forwarders
    <3> QED
      BY <3>1, <3>2, <3>3, MajorityMonotone
  <2> QED
    BY <2>1, <2>2
<1>6. NoMissedDelivery'
  <2> SUFFICES ASSUME NEW q \in Process, NEW n \in Msg, canDeliver(q, n)'
               PROVE  (Locked(q) /\ current[q]["bebDeliver"] = n)'
    BY DEF NoMissedDelivery
  <2>0. canDeliver(q, n)
    <3>1. delivered[q] \subseteq delivered'[q]
      <4>1. CASE canDeliver(p, m)
        BY <4>1, SMTT(20) DEF IInv, TypeOK
      <4>2. CASE ~canDeliver(p, m)
        BY <4>2
      <4> QED
        BY <4>1, <4>2
    <3> QED
      BY <3>1 DEF canDeliver, receivedAllAcks, Ackers
  <2>1. ~(q = p /\ n = m)
    <3>1. CASE canDeliver(p, m)
      BY <3>1, <1>0 DEF IInv, TypeOK, canDeliver
    <3>2. CASE ~canDeliver(p, m)
      BY <3>2, <2>0
    <3> QED
      BY <3>1, <3>2
  <2>2. Locked(q) /\ current[q]["bebDeliver"] = n
    BY <2>0 DEF IInv, NoMissedDelivery
  <2>3. ~(q = p /\ f = "bebDeliver")
    BY <2>1, <2>2
  <2>4. q # p
    BY <2>2, <2>3
  <2> QED
    BY <2>2, <2>4, <1>a DEF IInv, TypeOK, Locked
<1>7. OnlyListenerDelivers'
  <2>1. CASE canDeliver(p, m)
    BY <2>1, <1>4, SMTT(20) DEF IInv, TypeOK, OnlyListenerDelivers
  <2>2. CASE ~canDeliver(p, m)
    <3>1. pc' = [pc EXCEPT ![p][f] = "idle"]
      BY <2>2
    <3> QED
      BY <3>1 DEF IInv, TypeOK, OnlyListenerDelivers
  <2> QED
    BY <2>1, <2>2
<1>8. UpcallsAreDelivered'
  BY <1>0 DEF IInv, TypeOK, UpcallsAreDelivered, canDeliver
<1> QED
  BY <1>1, <1>2, <1>3, <1>5, <1>6, <1>7, <1>8 DEF IInv

(* The callback takes the message at hand; only one frame can be there.      *)
LEMMA UpcallStep ==
  ASSUME IInv, NEW p \in Process, NEW f \in Frame, Upcall(p, f)
  PROVE  IInv'
<1> USE DEF Upcall, linkVars, stateVars
<1>0. f = "bebDeliver" /\ current[p][f] \in delivered[p] /\ delivered[p] \subseteq Msg
  BY DEF IInv, TypeOK, OnlyListenerDelivers, UpcallsAreDelivered
<1>1. TypeOK'
  BY <1>0 DEF IInv, TypeOK
<1>2. FramesHoldForwarded' /\ OnlyListenerDelivers'
  BY DEF IInv, TypeOK, FramesHoldForwarded, OnlyListenerDelivers
<1>3. SentAreForwarded' /\ OriginFirst' /\ AcksAreTrue'
  BY DEF IInv, SentAreForwarded, OriginFirst, AcksAreTrue
<1>4. UniformMajority'
  BY <1>1, MajorityKept DEF IInv
<1>5. NoMissedDelivery'
  <2>1. \A q \in Process, n \in Msg : canDeliver(q, n)' => canDeliver(q, n)
    BY DEF canDeliver, receivedAllAcks, Ackers
  <2>2. ASSUME NEW q \in Process, Locked(q)
        PROVE  Locked(q)' /\ current'[q] = current[q]
    BY <2>2 DEF IInv, TypeOK, Locked
  <2> QED
    BY <2>1, <2>2 DEF IInv, NoMissedDelivery
<1>6. UpcallsAreDelivered'
  BY <1>0 DEF IInv, TypeOK, UpcallsAreDelivered, OnlyListenerDelivers
<1> QED
  BY <1>1, <1>2, <1>3, <1>4, <1>5, <1>6 DEF IInv

LEMMA ReturnStep ==
  ASSUME IInv, NEW p \in Process, NEW f \in Frame, Return(p, f)
  PROVE  IInv'
<1> USE DEF Return, linkVars, stateVars
<1>1. TypeOK'
  BY DEF IInv, TypeOK
<1>2. FramesHoldForwarded' /\ OnlyListenerDelivers' /\ UpcallsAreDelivered'
  BY DEF IInv, TypeOK, FramesHoldForwarded, OnlyListenerDelivers,
         UpcallsAreDelivered
<1>3. SentAreForwarded' /\ OriginFirst' /\ AcksAreTrue'
  BY DEF IInv, SentAreForwarded, OriginFirst, AcksAreTrue
<1>4. UniformMajority'
  BY <1>1, MajorityKept DEF IInv
<1>5. NoMissedDelivery'
  <2>1. \A q \in Process, n \in Msg : canDeliver(q, n)' => canDeliver(q, n)
    BY DEF canDeliver, receivedAllAcks, Ackers
  <2>2. ASSUME NEW q \in Process, Locked(q)
        PROVE  Locked(q)' /\ current'[q] = current[q]
    BY <2>2 DEF IInv, TypeOK, Locked
  <2> QED
    BY <2>1, <2>2 DEF IInv, NoMissedDelivery
<1> QED
  BY <1>1, <1>2, <1>3, <1>4, <1>5 DEF IInv

(* A crash, or a step that changes nothing, disturbs no part. *)
LEMMA CrashStep ==
  ASSUME IInv, UNCHANGED <<sent, got, stateVars, frameVars, upcalls>>,
         crashed' \subseteq Process
  PROVE  IInv'
<1> USE DEF stateVars, frameVars
<1>1. TypeOK'
  BY DEF IInv, TypeOK
<1>2. FramesHoldForwarded' /\ OnlyListenerDelivers' /\ UpcallsAreDelivered'
  BY DEF IInv, FramesHoldForwarded, OnlyListenerDelivers, UpcallsAreDelivered
<1>3. SentAreForwarded' /\ OriginFirst' /\ AcksAreTrue'
  BY DEF IInv, SentAreForwarded, OriginFirst, AcksAreTrue
<1>4. UniformMajority'
  BY <1>1, MajorityKept DEF IInv
<1>5. NoMissedDelivery'
  BY DEF IInv, NoMissedDelivery, canDeliver, receivedAllAcks, Ackers, Locked
<1> QED
  BY <1>1, <1>2, <1>3, <1>4, <1>5 DEF IInv

(* Every step keeps the invariant. *)
LEMMA NextIInv == IInv /\ [Next]_vars => IInv'
<1> SUFFICES ASSUME IInv, [Next]_vars
             PROVE  IInv'
  OBVIOUS
<1>1. ASSUME NEW p \in Process, NEW f \in Frame, NEW m \in Msg,
             Broadcast(p, f, m)
      PROVE  IInv'
  BY <1>1, BroadcastStep
<1>2. ASSUME NEW p \in Process, NEW f \in Frame, NEW q \in Process,
             SendOne(p, f, q)
      PROVE  IInv'
  BY <1>2, SendOneStep
<1>3. ASSUME NEW p \in Process, NEW f \in Frame,
             Conclude(p, f) \/ Upcall(p, f) \/ Return(p, f)
      PROVE  IInv'
  BY <1>3, ConcludeStep, UpcallStep, ReturnStep
<1>4. ASSUME NEW p \in Process, NEW pkt \in Packet, BebDeliver(p, pkt)
      PROVE  IInv'
  BY <1>4, BebDeliverStep
<1>5. ASSUME NEW p \in Process, Crash(p)
      PROVE  IInv'
  <2>1. crashed' \subseteq Process
    BY <1>5 DEF Crash, Link!Crash, IInv, TypeOK
  <2> QED
    BY <1>5, <2>1, CrashStep DEF Crash, Link!Crash
<1>6. CASE UNCHANGED vars
  <2>1. crashed' \subseteq Process
    BY <1>6 DEF vars, linkVars, IInv, TypeOK
  <2> QED
    BY <1>6, <2>1, CrashStep DEF vars, linkVars
<1> QED
  BY <1>1, <1>2, <1>3, <1>4, <1>5, <1>6 DEF Next

(* IInv holds throughout every execution of the layer. *)
THEOREM InvariantHolds == Spec => []IInv
  BY InitIInv, NextIInv, PTL DEF Spec

(* Every variable keeps its type; in particular a packet is only received    *)
(* after it has been sent.                                                   *)
THEOREM TypeCorrect == Spec => []TypeOK
<1>1. IInv => TypeOK
  BY DEF IInv
<1> QED
  BY <1>1, InvariantHolds, PTL

(* A delivered message is in the hands of a majority, hence of a correct     *)
(* process: the majority test of receivedAllAcks suffices for uniformity.    *)
THEOREM DeliveredByMajority == Spec => []UniformMajority
<1>1. IInv => UniformMajority
  BY DEF IInv
<1> QED
  BY <1>1, InvariantHolds, PTL

(* No message that canDeliver accepts is left behind when a method returns.  *)
THEOREM NothingMissed == Spec => []NoMissedDelivery
<1>1. IInv => NoMissedDelivery
  BY DEF IInv
<1> QED
  BY <1>1, InvariantHolds, PTL

(* The urbDeliver callback runs on the listener thread alone. *)
THEOREM ListenerDelivers == Spec => []OnlyListenerDelivers
<1>1. IInv => OnlyListenerDelivers
  BY DEF IInv
<1> QED
  BY <1>1, InvariantHolds, PTL

(* The callback runs at most once per message, and only for a message that   *)
(* its origin has broadcast.                                                 *)
THEOREM UpcallOnce == Spec => NoDuplication
<1> DEFINE Fresh ==
      \A p \in Process : \A f \in Frame :
        pc[p][f] = "upcall" /\ pc'[p][f] = "upper"
          => /\ current[p][f] \notin upcalls[p]
             /\ current[p][f] \in forwarded[Origin[current[p][f]]]
<1>1. IInv => Fresh
  BY DEF IInv, UpcallsAreDelivered, FramesHoldForwarded, OriginFirst
<1>2. IInv /\ [Next]_vars => [Fresh]_vars
  BY <1>1
<1> QED
  BY <1>2, InvariantHolds, PTL DEF Spec, NoDuplication

-----------------------------------------------------------------------------
(* The refinement.  A step of the layer is one of the abstract broadcast, or *)
(* a stutter of it.                                                          *)
Requested == {m \in Msg : m \in forwarded[Origin[m]]}
Stable == {m \in Msg : Majority(Forwarders(m))}

(* A step that makes nobody forward anything. *)
LEMMA SameForwarders ==
  ASSUME UNCHANGED forwarded
  PROVE  Requested' = Requested /\ Stable' = Stable
BY DEF Requested, Stable, Forwarders, Majority

LEMMA BroadcastURB ==
  ASSUME IInv, NEW p \in Process, NEW f \in Frame, NEW m \in Msg,
         Broadcast(p, f, m)
  PROVE  URB!Broadcast(m)
<1> USE DEF IInv
<1>1. /\ p \notin crashed /\ Origin[m] = p /\ m \notin forwarded[p]
      /\ forwarded' = [forwarded EXCEPT ![p] = @ \cup {m}]
      /\ UNCHANGED <<upcalls, crashed>>
  BY DEF Broadcast, linkVars
<1>2. /\ forwarded'[p] = forwarded[p] \cup {m}
      /\ \A q \in Process \ {p} : forwarded'[q] = forwarded[q]
  BY <1>1 DEF TypeOK
<1>3. Requested' = Requested \cup {m} /\ m \notin Requested
  <2>1. \A n \in Msg : n \in forwarded'[Origin[n]] <=>
                         n = m \/ n \in forwarded[Origin[n]]
    BY <1>1, <1>2, MsgAssumption
  <2> QED
    BY <1>1, <2>1 DEF Requested
<1>4. Stable' = Stable
  <2>1. \A n \in Msg \ {m} : Forwarders(n)' = Forwarders(n)
    BY <1>2 DEF Forwarders
  <2>2. Forwarders(m) = {} /\ Forwarders(m)' = {p}
    <3>1. \A q \in Process : m \notin forwarded[q]
      BY <1>1 DEF OriginFirst
    <3> QED
      BY <1>2, <3>1 DEF Forwarders
  <2>3. ~Majority(Forwarders(m)) /\ ~Majority(Forwarders(m)')
    <3>1. ~Majority({p})
      BY NotAlone
    <3>2. ~Majority({})
      BY <3>1, MajorityMonotone
    <3> QED
      BY <2>2, <3>1, <3>2
  <2>4. \A n \in Msg : Majority(Forwarders(n)') <=> Majority(Forwarders(n))
    BY <2>1, <2>3
  <2> QED
    BY <2>4 DEF Stable, Majority
<1> QED
  BY <1>1, <1>3, <1>4 DEF URB!Broadcast, Requested, Stable

LEMMA BebDeliverURB ==
  ASSUME IInv, NEW p \in Process, NEW pkt \in Packet, BebDeliver(p, pkt)
  PROVE  URB!Stabilise(pkt.msg) \/ UNCHANGED URB!urbVars
<1> DEFINE m == pkt.msg
<1> USE DEF IInv
<1>1. /\ m \in Msg /\ pkt \in sent /\ m \in forwarded[Origin[m]]
      /\ forwarded' = [forwarded EXCEPT ![p] = @ \cup {m}]
      /\ UNCHANGED <<upcalls, crashed>>
  BY DEF BebDeliver, Link!Deliver, SentAreForwarded, OriginFirst, Packet
<1> HIDE DEF m
<1>2. /\ forwarded'[p] = forwarded[p] \cup {m}
      /\ \A q \in Process \ {p} : forwarded'[q] = forwarded[q]
  BY <1>1 DEF TypeOK
<1>3. Requested' = Requested /\ m \in Requested
  <2>1. \A n \in Msg : n \in forwarded'[Origin[n]] <=> n \in forwarded[Origin[n]]
    BY <1>1, <1>2, MsgAssumption
  <2> QED
    BY <1>1, <2>1 DEF Requested
<1>4. Stable' = Stable \/ (m \notin Stable /\ Stable' = Stable \cup {m})
  <2>1. \A n \in Msg \ {m} : Forwarders(n)' = Forwarders(n)
    BY <1>2 DEF Forwarders
  <2>2. /\ Forwarders(m)' \in SUBSET Process
        /\ Forwarders(m) \in SUBSET (Forwarders(m)')
    BY <1>2 DEF Forwarders
  <2>3. Majority(Forwarders(m)) => Majority(Forwarders(m)')
    BY <2>2, MajorityMonotone
  <2>4. \A n \in Msg : n \in Stable' <=> Majority(Forwarders(n)')
    BY DEF Stable, Majority
  <2>5. \A n \in Msg : n \in Stable <=> Majority(Forwarders(n))
    BY DEF Stable
  <2>6. Stable \subseteq Msg /\ Stable' \subseteq Msg
    BY DEF Stable
  <2>7. \A n \in Msg \ {m} : n \in Stable' <=> n \in Stable
    BY <2>1, <2>4, <2>5
  <2>8. m \in Stable => m \in Stable'
    BY <1>1, <2>3, <2>4, <2>5
  <2> QED
    BY <1>1, <2>6, <2>7, <2>8
<1>5. URB!Stabilise(m) \/ UNCHANGED URB!urbVars
  BY <1>1, <1>3, <1>4 DEF URB!Stabilise, URB!urbVars, Requested, Stable
<1> QED
  BY <1>5 DEF m

LEMMA UpcallURB ==
  ASSUME IInv, NEW p \in Process, NEW f \in Frame, Upcall(p, f)
  PROVE  URB!Deliver(p, current[p][f])
<1> DEFINE m == current[p][f]
<1> USE DEF IInv
<1>1. /\ p \notin crashed
      /\ upcalls' = [upcalls EXCEPT ![p] = @ \cup {m}]
      /\ UNCHANGED <<forwarded, crashed>>
      /\ m \in delivered[p] \ upcalls[p]
  BY DEF Upcall, linkVars, stateVars, UpcallsAreDelivered
<1>2. m \in Stable
  BY <1>1 DEF TypeOK, UniformMajority, Stable
<1>3. Requested' = Requested /\ Stable' = Stable
  BY <1>1, SameForwarders
<1> QED
  BY <1>1, <1>2, <1>3 DEF URB!Deliver, Requested, Stable

LEMMA NextURB == IInv /\ [Next]_vars => [URB!Next]_(URB!urbVars)
<1> SUFFICES ASSUME IInv, [Next]_vars
             PROVE  [URB!Next]_(URB!urbVars)
  OBVIOUS
<1>1. ASSUME UNCHANGED <<forwarded, upcalls, crashed>>
      PROVE  UNCHANGED URB!urbVars
  BY <1>1, SameForwarders DEF URB!urbVars, Requested, Stable
<1>2. ASSUME NEW p \in Process, NEW f \in Frame, NEW m \in Msg,
             Broadcast(p, f, m)
      PROVE  URB!Next
  BY <1>2, BroadcastURB DEF URB!Next
<1>3. ASSUME NEW p \in Process, NEW f \in Frame, NEW q \in Process,
             SendOne(p, f, q)
      PROVE  UNCHANGED URB!urbVars
  BY <1>1, <1>3 DEF SendOne, Link!Send, stateVars
<1>4. ASSUME NEW p \in Process, NEW f \in Frame,
             Conclude(p, f) \/ Return(p, f)
      PROVE  UNCHANGED URB!urbVars
  BY <1>1, <1>4 DEF Conclude, Return, linkVars, stateVars
<1>5. ASSUME NEW p \in Process, NEW f \in Frame, Upcall(p, f)
      PROVE  URB!Next
  <2>1. current[p][f] \in Msg
    BY <1>5 DEF Upcall, IInv, TypeOK, UpcallsAreDelivered
  <2> QED
    BY <1>5, <2>1, UpcallURB DEF URB!Next
<1>6. ASSUME NEW p \in Process, NEW pkt \in Packet, BebDeliver(p, pkt)
      PROVE  URB!Next \/ UNCHANGED URB!urbVars
  <2>1. pkt.msg \in Msg
    BY DEF Packet
  <2> QED
    BY <1>6, <2>1, BebDeliverURB DEF URB!Next
<1>7. ASSUME NEW p \in Process, Crash(p)
      PROVE  URB!Next
  <2>1. /\ p \notin crashed /\ crashed' = crashed \cup {p}
        /\ UNCHANGED <<forwarded, upcalls>>
    BY <1>7 DEF Crash, Link!Crash, stateVars
  <2>2. URB!Crash(p)
    BY <2>1, SameForwarders DEF URB!Crash, Requested, Stable
  <2> QED
    BY <2>2 DEF URB!Next
<1>8. CASE UNCHANGED vars
  BY <1>1, <1>8 DEF vars, linkVars, stateVars
<1> QED
  BY <1>2, <1>3, <1>4, <1>5, <1>6, <1>7, <1>8 DEF Next

(* The layer implements uniform reliable broadcast: the safety half of       *)
(* ImplementsURB.                                                            *)
THEOREM LayerIsUniform == Spec => URB!Init /\ [][URB!Next]_(URB!urbVars)
<1>1. Init => URB!Init
  <2> SUFFICES ASSUME Init
               PROVE  URB!Init
    OBVIOUS
  <2>1. \A q \in Process : forwarded[q] = {}
    BY DEF Init
  <2>2. {m \in Msg : m \in forwarded[Origin[m]]} = {}
    BY <2>1, MsgAssumption
  <2>3. {m \in Msg : Majority(Forwarders(m))} = {}
    <3>1. \A m \in Msg : Forwarders(m) = {}
      BY <2>1 DEF Forwarders
    <3>2. ~Majority({})
      BY ProcessAssumption, FS_EmptySet, FS_CardinalityType DEF Majority
    <3> QED
      BY <3>1, <3>2
  <2> QED
    BY <2>2, <2>3 DEF Init, Link!Init, URB!Init
<1>2. IInv /\ [Next]_vars => [URB!Next]_(URB!urbVars)
  BY NextURB
<1> QED
  BY <1>1, <1>2, InvariantHolds, PTL DEF Spec

=============================================================================
