--------------------------- MODULE LCBroadcastProofs ---------------------------
(***************************************************************************)
(* Proofs about LCBroadcast, for every set of processes, every config file   *)
(* and every number of messages.  The argument for CausallyClosed: the test  *)
(* of deliver() looks at the new packet only and then delivers the whole     *)
(* queue, which is right because the clocks of a process grow               *)
(* (GrowingClocks) and because the queue holds just what is missing          *)
(* (Queued).                                                                 *)
(***************************************************************************)
EXTENDS LCBroadcast, SequenceTheorems, FiniteSetTheorems, TLAPS

(* The packets of a process are its messages, in order; the one it has       *)
(* logged and not yet sent is the last one.                                  *)
Numbered ==
  \A q \in Process :
    /\ Len(outbox[q]) <= 1
    /\ Locked(q) => outbox[q] = <<>>
    /\ Len(Broadcasts(q)) = next[q] - 1
    /\ vectorClock[q][q] = next[q] - 1
    /\ \A i \in 1 .. Len(Broadcasts(q)) :
         Broadcasts(q)[i].peerID = q /\ Broadcasts(q)[i].payload = i

(* Every clock that q has put into a packet is below its present one, as far *)
(* as q is affected, and they grow.                                          *)
GrowingClocks ==
  \A q, r \in Process : \A i \in 1 .. Len(Broadcasts(q)) :
    /\ Broadcasts(q)[i].vectorClock[r] <= PacketClock(q)[r]
    /\ \A j \in 1 .. i :
         Broadcasts(q)[j].vectorClock[r] <= Broadcasts(q)[i].vectorClock[r]

(* The queue of q at p is what the FIFO layer has delivered and the clock    *)
(* does not count.                                                           *)
Queued ==
  \A p \in Process : \A q \in Process \ {p} :
    /\ fifoNext[p][q] <= Len(fifoSent[q]) + 1
    /\ vectorClock[p][q] + Len(pending[p][q]) = fifoNext[p][q] - 1
    /\ \A i \in 1 .. Len(pending[p][q]) :
         pending[p][q][i] = fifoSent[q][vectorClock[p][q] + i]

Closed ==
  \A p, q, r \in Process : \A i \in 1 .. Len(Broadcasts(q)) :
    i <= vectorClock[p][q] =>
      Broadcasts(q)[i].vectorClock[r] <= vectorClock[p][r]

IInv ==
  /\ TypeOK
  /\ Numbered
  /\ GrowingClocks
  /\ Queued
  /\ Closed

-----------------------------------------------------------------------------
(* Sequences and clocks. *)
LEMMA ConcatFacts ==
  ASSUME NEW S, NEW s \in Seq(S), NEW t \in Seq(S)
  PROVE  /\ s \o t \in Seq(S)
         /\ Len(s \o t) = Len(s) + Len(t)
         /\ \A i \in 1 .. Len(s) : i \in 1 .. Len(s \o t) /\ (s \o t)[i] = s[i]
         /\ Len(s) <= Len(s \o t)
         /\ t = <<>> => s \o t = s
<1>1. /\ s \o t \in Seq(S)
      /\ Len(s \o t) = Len(s) + Len(t)
      /\ \A i \in 1 .. Len(s) + Len(t) :
           (s \o t)[i] = IF i <= Len(s) THEN s[i] ELSE t[i - Len(s)]
  BY ConcatProperties
<1>2. \A i \in 1 .. Len(s) : i \in 1 .. Len(s) + Len(t) /\ i <= Len(s)
  OBVIOUS
<1>3. Len(s) <= Len(s) + Len(t)
  OBVIOUS
<1> QED
  BY <1>1, <1>2, <1>3, ConcatEmptySeq

(* What waits has been sent. *)
LEMMA QueueFits ==
  ASSUME NEW S, NEW queue \in Seq(S), NEW all \in Seq(S),
         NEW c \in Nat, NEW k \in Nat, c + Len(queue) = k - 1, k <= Len(all) + 1
  PROVE  /\ c <= Len(all)
         /\ \A i \in 1 .. Len(queue) : c + i \in 1 .. Len(all)
  OBVIOUS

LEMMA AppendFacts ==
  ASSUME NEW S, NEW s \in Seq(S), NEW e \in S, NEW n \in Nat, n = Len(s) + 1
  PROVE  /\ Append(s, e) \in Seq(S)
         /\ Len(Append(s, e)) = n
         /\ Append(s, e)[n] = e
         /\ \A i \in 1 .. n - 1 : Append(s, e)[i] = s[i] /\ s[i] \in S
  OBVIOUS

LEMMA BumpClock ==
  ASSUME NEW vc \in [Process -> [Process -> Nat]], NEW k \in Nat,
         NEW p \in Process, NEW q \in Process, NEW vcp,
         vcp = [vc EXCEPT ![p][q] = @ + k]
  PROVE  /\ vcp \in [Process -> [Process -> Nat]]
         /\ vcp[p][q] = vc[p][q] + k
         /\ \A a \in Process \ {p} : vcp[a] = vc[a]
         /\ \A a \in Process, b \in Process \ {q} : vcp[a][b] = vc[a][b]
         /\ \A a, b \in Process : vc[a][b] <= vcp[a][b]
<1>1. vc[p] \in [Process -> Nat] /\ vc[p][q] + k \in Nat
  OBVIOUS
<1>2. /\ vcp[p] = [vc[p] EXCEPT ![q] = @ + k]
      /\ \A a \in Process \ {p} : vcp[a] = vc[a]
  OBVIOUS
<1>3. vcp[p] \in [Process -> Nat]
  BY <1>1, <1>2
<1>4. \A b \in Process : vcp[p][b] = IF b = q THEN vc[p][b] + k ELSE vc[p][b]
  BY <1>1, <1>2
<1>5. vcp \in [Process -> [Process -> Nat]]
  BY <1>3
<1>6. ASSUME NEW a \in Process, NEW b \in Process
      PROVE  vc[a][b] <= vcp[a][b]
  <2>1. vc[a][b] \in Nat
    OBVIOUS
  <2> QED
    BY <1>2, <1>4, <2>1
<1>7. ASSUME NEW a \in Process, NEW b \in Process \ {q}
      PROVE  vcp[a][b] = vc[a][b]
  BY <1>2, <1>4
<1> QED
  BY <1>2, <1>4, <1>5, <1>6, <1>7

(* The packets of a process are those it has sent and then the one it holds. *)
LEMMA BroadcastsFacts ==
  ASSUME TypeOK, NEW q \in Process
  PROVE  /\ Broadcasts(q) \in Seq(Packet)
         /\ Len(Broadcasts(q)) = Len(fifoSent[q]) + Len(outbox[q])
         /\ \A i \in 1 .. Len(fifoSent[q]) :
              i \in 1 .. Len(Broadcasts(q)) /\ Broadcasts(q)[i] = fifoSent[q][i]
         /\ outbox[q] = <<>> => Broadcasts(q) = fifoSent[q]
<1>1. fifoSent[q] \in Seq(Packet) /\ outbox[q] \in Seq(Packet)
  BY DEF TypeOK
<1> QED
  BY <1>1, ConcatFacts, ZenonT(40) DEF Broadcasts

LEMMA PacketClockType ==
  ASSUME TypeOK, NEW p \in Process
  PROVE  /\ PacketClock(p) \in [Process -> Nat]
         /\ \A q \in Process : PacketClock(p)[q] <= vectorClock[p][q]
<1>1. \A q \in Process : vectorClock[p][q] \in Nat
  BY DEF TypeOK
<1>2. ASSUME NEW q \in Process
      PROVE  /\ PacketClock(p)[q] \in Nat
             /\ PacketClock(p)[q] <= vectorClock[p][q]
  BY <1>1 DEF PacketClock
<1> QED
  BY <1>2 DEF PacketClock

LEMMA InitIInv == Init => IInv
<1> SUFFICES ASSUME Init
             PROVE  IInv
  OBVIOUS
<1> USE DEF Init, FifoLayer!Init
<1>1. \A q \in Process : Broadcasts(q) = <<>>
  BY DEF Broadcasts
<1>2. TypeOK
  BY DEF TypeOK
<1>3. Numbered
  BY <1>1 DEF Numbered
<1>4. GrowingClocks /\ Closed
  BY <1>1 DEF GrowingClocks, Closed
<1>5. Queued
  BY DEF Queued
<1> QED
  BY <1>2, <1>3, <1>4, <1>5 DEF IInv

(* The line of a broadcast is written, under the lock. *)
LEMMA LogBroadcastStep ==
  ASSUME IInv, NEW p \in Process, LogBroadcast(p)
  PROVE  IInv'
<1> USE DEF IInv, LogBroadcast
<1>1. \A q \in Process : /\ Broadcasts(q)' = Broadcasts(q)
                         /\ PacketClock(q)' = PacketClock(q)
                         /\ q # p => Locked(q)' = Locked(q)
  BY DEF Broadcasts, PacketClock, Locked, TypeOK
<1>2. TypeOK'
  <2>1. BroadcastEvent(next[p]) \in Event
    BY DEF BroadcastEvent, Event, TypeOK
  <2> QED
    BY <2>1, SMTT(20) DEF TypeOK
<1>3. Numbered'
  BY <1>1 DEF Numbered
<1>4. GrowingClocks' /\ Closed'
  BY <1>1 DEF GrowingClocks, Closed
<1>5. Queued'
  BY DEF Queued
<1> QED
  BY <1>2, <1>3, <1>4, <1>5

(* A new packet: its clock is above the clocks of the earlier ones, and      *)
(* nobody else has delivered it.                                             *)
LEMMA DeliverOwnStep ==
  ASSUME IInv, NEW p \in Process, DeliverOwn(p)
  PROVE  IInv'
<1> USE DEF IInv
<1> DEFINE pkt == [peerID |-> p, payload |-> next[p],
                   vectorClock |-> PacketClock(p)]
           n == next[p]
<1>1. pkt \in Packet /\ pkt.vectorClock = PacketClock(p)
  BY PacketClockType DEF Packet, TypeOK
<1>2. /\ n \in Nat \ {0} /\ n = Len(Broadcasts(p)) + 1
      /\ n = vectorClock[p][p] + 1
      /\ Broadcasts(p) = fifoSent[p] /\ Broadcasts(p) \in Seq(Packet)
  BY BroadcastsFacts, SMTT(20) DEF Numbered, TypeOK, DeliverOwn
<1>3. Broadcasts(p)' = Append(Broadcasts(p), pkt)
  BY <1>2 DEF Broadcasts, TypeOK, DeliverOwn
<1>4. \A q \in Process \ {p} : /\ Broadcasts(q)' = Broadcasts(q)
                               /\ Locked(q)' = Locked(q)
                               /\ PacketClock(q)' = PacketClock(q)
  BY DEF Broadcasts, Locked, PacketClock, TypeOK, DeliverOwn
<1>5. ~Locked(p)'
  BY DEF Locked, TypeOK, DeliverEvent, Event, DeliverOwn
<1>6. TypeOK'
  <2>1. DeliverEvent(p, next[p]) \in Event
    BY DEF DeliverEvent, Event, TypeOK
  <2> QED
    BY <1>1, <2>1, SMTT(20) DEF TypeOK, DeliverOwn
<1>7. /\ vectorClock' \in [Process -> [Process -> Nat]]
      /\ vectorClock'[p][p] = n
      /\ \A q \in Process \ {p} : vectorClock'[q] = vectorClock[q]
      /\ \A q \in Process, r \in Process \ {p} :
           vectorClock'[q][r] = vectorClock[q][r]
      /\ \A q, r \in Process : vectorClock[q][r] <= vectorClock'[q][r]
  BY <1>2, BumpClock, ZenonT(40) DEF TypeOK, DeliverOwn
<1>8. /\ Len(Broadcasts(p)') = n
      /\ \A i \in 1 .. n - 1 : /\ Broadcasts(p)'[i] = Broadcasts(p)[i]
                               /\ Broadcasts(p)[i] \in Packet
      /\ Broadcasts(p)'[n] = pkt
  BY <1>1, <1>2, <1>3, AppendFacts
<1> HIDE DEF n, pkt
<1>9. Numbered'
  <2>1. ASSUME NEW q \in Process \ {p}
        PROVE  /\ outbox'[q] = outbox[q] /\ next'[q] = next[q]
               /\ vectorClock'[q][q] = vectorClock[q][q]
    BY <1>7 DEF TypeOK, DeliverOwn
  <2>2. Len(outbox'[p]) = 1 /\ next'[p] = n + 1
    BY DEF TypeOK, DeliverOwn, n
  <2>3. ASSUME NEW i \in 1 .. n
        PROVE  Broadcasts(p)'[i].peerID = p /\ Broadcasts(p)'[i].payload = i
    <3>1. CASE i = n
      BY <1>8, <3>1 DEF n, pkt
    <3>2. CASE i # n
      <4>1. i \in 1 .. n - 1 /\ i \in 1 .. Len(Broadcasts(p))
        BY <1>2, <3>2
      <4> QED
        BY <1>8, <4>1 DEF Numbered
    <3> QED
      BY <3>1, <3>2
  <2>4. ASSUME NEW q \in Process
        PROVE  /\ Len(outbox'[q]) <= 1
               /\ Locked(q)' => outbox'[q] = <<>>
               /\ Len(Broadcasts(q)') = next'[q] - 1
               /\ vectorClock'[q][q] = next'[q] - 1
               /\ \A i \in 1 .. Len(Broadcasts(q)') :
                    /\ Broadcasts(q)'[i].peerID = q
                    /\ Broadcasts(q)'[i].payload = i
    <3>1. CASE q = p
      <4>1. next'[p] - 1 = n
        BY <1>2, <2>2
      <4>2. Len(outbox'[p]) <= 1
        BY <2>2
      <4> QED
        BY <1>5, <1>7, <1>8, <2>3, <3>1, <4>1, <4>2
    <3>2. CASE q # p
      BY <1>4, <2>1, <3>2 DEF Numbered
    <3> QED
      BY <3>1, <3>2
  <2> QED
    BY <2>4 DEF Numbered
<1>10. ASSUME NEW r \in Process
       PROVE  /\ PacketClock(p)[r] \in Nat
              /\ PacketClock(p)'[r] \in Nat
              /\ PacketClock(p)[r] <= PacketClock(p)'[r]
              /\ PacketClock(p)[r] <= vectorClock[p][r]
  <2>1. vectorClock[p][r] \in Nat /\ vectorClock'[p][r] \in Nat
    BY <1>7 DEF TypeOK
  <2>2. Deps' = Deps
    BY DEF DeliverOwn
  <2>3. vectorClock[p][r] <= vectorClock'[p][r]
    BY <1>7
  <2> QED
    BY <2>1, <2>2, <2>3 DEF PacketClock
<1>11. GrowingClocks'
  <2>1. ASSUME NEW r \in Process, NEW i \in 1 .. n
        PROVE  /\ Broadcasts(p)'[i].vectorClock[r] \in Nat
               /\ Broadcasts(p)'[i].vectorClock[r] <= PacketClock(p)[r]
    <3>1. CASE i = n
      BY <1>1, <1>8, <1>10, <3>1
    <3>2. CASE i \in 1 .. n - 1
      <4>1. i \in 1 .. Len(Broadcasts(p))
        BY <1>2, <3>2
      <4>2. Broadcasts(p)'[i] = Broadcasts(p)[i] /\ Broadcasts(p)[i] \in Packet
        BY <1>8, <3>2
      <4> QED
        BY <4>1, <4>2 DEF GrowingClocks, Packet
    <3> QED
      BY <1>2, <3>1, <3>2
  <2>2. ASSUME NEW r \in Process, NEW i \in 1 .. n, NEW j \in 1 .. i
        PROVE  Broadcasts(p)'[j].vectorClock[r]
                 <= Broadcasts(p)'[i].vectorClock[r]
    <3>1. CASE i = n
      BY <1>1, <1>2, <1>8, <2>1, <3>1
    <3>2. CASE i \in 1 .. n - 1
      <4>1. i \in 1 .. Len(Broadcasts(p)) /\ j \in 1 .. n - 1
        BY <1>2, <3>2
      <4>2. /\ Broadcasts(p)'[i] = Broadcasts(p)[i]
            /\ Broadcasts(p)'[j] = Broadcasts(p)[j]
        BY <1>8, <3>2, <4>1
      <4> QED
        BY <4>1, <4>2 DEF GrowingClocks
    <3> QED
      BY <1>2, <3>1, <3>2
  <2>3. ASSUME NEW r \in Process, NEW i \in 1 .. n
        PROVE  Broadcasts(p)'[i].vectorClock[r] <= PacketClock(p)'[r]
    BY <1>10, <2>1
  <2>4. ASSUME NEW q \in Process, NEW r \in Process,
               NEW i \in 1 .. Len(Broadcasts(q)')
        PROVE  /\ Broadcasts(q)'[i].vectorClock[r] <= PacketClock(q)'[r]
               /\ \A j \in 1 .. i : Broadcasts(q)'[j].vectorClock[r]
                                      <= Broadcasts(q)'[i].vectorClock[r]
    <3>1. CASE q = p
      BY <1>8, <2>2, <2>3, <3>1
    <3>2. CASE q # p
      BY <1>4, <3>2 DEF GrowingClocks
    <3> QED
      BY <3>1, <3>2
  <2> QED
    BY <2>4 DEF GrowingClocks
<1>12. Queued'
  <2>1. UNCHANGED <<pending, fifoSent, fifoNext>>
    BY DEF DeliverOwn
  <2>2. \A o \in Process : \A q \in Process \ {o} :
          vectorClock'[o][q] = vectorClock[o][q]
    BY <1>7
  <2> QED
    BY <2>1, <2>2 DEF Queued
<1>13. Closed'
  <2> SUFFICES ASSUME NEW o \in Process, NEW q \in Process, NEW r \in Process,
                      NEW i \in 1 .. Len(Broadcasts(q)'),
                      i <= vectorClock'[o][q]
               PROVE  Broadcasts(q)'[i].vectorClock[r] <= vectorClock'[o][r]
    BY DEF Closed
  <2>0. vectorClock[o][r] \in Nat /\ vectorClock'[o][r] \in Nat
    BY <1>7 DEF TypeOK
  <2>1. CASE i \in 1 .. Len(Broadcasts(q)) /\ i <= vectorClock[o][q]
    <3>1. Broadcasts(q)'[i] = Broadcasts(q)[i]
      BY <1>2, <1>4, <1>8, <2>1
    <3>2. Broadcasts(q)[i] \in Packet
      BY <2>1, BroadcastsFacts, ElementOfSeq
    <3>3. Broadcasts(q)[i].vectorClock[r] \in Nat
      BY <3>2 DEF Packet
    <3>4. Broadcasts(q)[i].vectorClock[r] <= vectorClock[o][r]
      BY <2>1 DEF Closed
    <3>5. vectorClock[o][r] <= vectorClock'[o][r]
      BY <1>7
    <3> QED
      BY <2>0, <3>1, <3>3, <3>4, <3>5
  <2>2. CASE q = p /\ i = n /\ o = p
    BY <1>1, <1>7, <1>8, <1>10, <2>0, <2>2
  <2>3. CASE q # p
    BY <1>4, <1>7, <2>1, <2>3
  <2>4. CASE q = p /\ i # n
    <3>1. i \in 1 .. n - 1
      BY <1>2, <1>8, <2>4
    <3>2. vectorClock[o][p] \in Nat
      BY DEF TypeOK
    <3>3. i <= vectorClock[o][p]
      <4>1. CASE o = p
        BY <1>2, <3>1, <3>2, <4>1
      <4>2. CASE o # p
        BY <1>7, <2>4, <4>2
      <4> QED
        BY <4>1, <4>2
    <3> QED
      BY <1>2, <2>1, <2>4, <3>1, <3>3
  <2>5. CASE q = p /\ i = n /\ o # p
    <3>1. /\ fifoNext[o][p] <= Len(fifoSent[p]) + 1
          /\ vectorClock[o][p] + Len(pending[o][p]) = fifoNext[o][p] - 1
      BY <2>5 DEF Queued
    <3>2. /\ fifoNext[o][p] \in Nat /\ vectorClock[o][p] \in Nat
          /\ pending[o][p] \in Seq(Packet) /\ fifoSent[p] \in Seq(Packet)
      BY DEF TypeOK
    <3>a. vectorClock[o][p] <= Len(fifoSent[p])
      BY <3>1, <3>2, QueueFits
    <3>3. vectorClock[o][p] < n
      BY <1>2, <3>2, <3>a
    <3>4. vectorClock'[o][p] = vectorClock[o][p]
      BY <1>7, <2>5
    <3> QED
      BY <1>2, <2>5, <3>2, <3>3, <3>4
  <2> QED
    BY <2>2, <2>3, <2>4, <2>5
<1> QED
  BY <1>6, <1>9, <1>11, <1>12, <1>13

(* The packet goes from the outbox to the FIFO layer. *)
LEMMA HandedOver ==
  ASSUME IInv, NEW p \in Process, FifoBroadcast(p)
  PROVE  /\ fifoSent' = [fifoSent EXCEPT ![p] = @ \o outbox[p]]
         /\ outbox' = [outbox EXCEPT ![p] = <<>>]
         /\ UNCHANGED <<Deps, next, vectorClock, pending, fifoNext, log>>
<1>1. fifoSent[p] \in Seq(Packet) /\ outbox[p] \in Seq(Packet)
  BY DEF IInv, TypeOK
<1>2. Len(outbox[p]) = 1
  <2> DEFINE n == Len(outbox[p])
  <2>1. outbox[p] # <<>>
    BY DEF FifoBroadcast
  <2>2. n \in Nat /\ n # 0
    BY <1>1, <2>1
  <2>3. n <= 1
    BY DEF IInv, Numbered
  <2> HIDE DEF n
  <2>4. n = 1
    BY <2>2, <2>3
  <2> QED
    BY <2>4 DEF n
<1>3. outbox[p] = <<outbox[p][1]>> /\ outbox[p][1] \in Packet
  BY <1>1, <1>2
<1>4. Append(fifoSent[p], outbox[p][1]) = fifoSent[p] \o outbox[p]
  <2>1. Append(fifoSent[p], outbox[p][1]) = fifoSent[p] \o <<outbox[p][1]>>
    BY <1>1, <1>3, AppendIsConcat
  <2> QED
    BY <1>3, <2>1
<1> QED
  BY <1>4 DEF FifoBroadcast, FifoLayer!Broadcast, IInv, TypeOK

LEMMA FifoBroadcastStep ==
  ASSUME IInv, NEW p \in Process, FifoBroadcast(p)
  PROVE  IInv'
<1> USE DEF IInv
<1>1. fifoSent[p] \in Seq(Packet) /\ outbox[p] \in Seq(Packet)
  BY DEF TypeOK
<1>2. /\ fifoSent'[p] = fifoSent[p] \o outbox[p]
      /\ outbox'[p] = <<>>
      /\ \A q \in Process \ {p} :
           fifoSent'[q] = fifoSent[q] /\ outbox'[q] = outbox[q]
      /\ UNCHANGED <<Deps, next, vectorClock, pending, fifoNext, log>>
  BY HandedOver DEF TypeOK
<1>3. /\ fifoSent'[p] \in Seq(Packet)
      /\ fifoSent'[p] \o outbox'[p] = fifoSent'[p]
  BY <1>1, <1>2, ConcatFacts
<1>4. \A q \in Process : /\ Broadcasts(q)' = Broadcasts(q)
                         /\ PacketClock(q)' = PacketClock(q)
                         /\ Locked(q)' = Locked(q)
  BY <1>2, <1>3 DEF Broadcasts, PacketClock, Locked
<1>5. TypeOK'
  <2>1. fifoSent' \in [Process -> Seq(Packet)]
    BY <1>1, <1>3, HandedOver DEF TypeOK
  <2>2. outbox' \in [Process -> Seq(Packet)]
    <3>1. /\ outbox' = [outbox EXCEPT ![p] = <<>>]
          /\ <<>> \in Seq(Packet)
          /\ outbox \in [Process -> Seq(Packet)]
      BY HandedOver DEF TypeOK
    <3> QED
      BY <3>1
  <2> QED
    BY <1>2, <2>1, <2>2 DEF TypeOK
<1>6. Numbered'
  <2>1. \A q \in Process : Len(outbox'[q]) <= 1
    BY <1>2 DEF Numbered
  <2>2. \A q \in Process : Locked(q)' => outbox'[q] = <<>>
    BY <1>2, <1>4 DEF Numbered
  <2> QED
    BY <1>2, <1>4, <2>1, <2>2 DEF Numbered
<1>7. GrowingClocks' /\ Closed'
  BY <1>2, <1>4 DEF GrowingClocks, Closed
<1>8. Queued'
  <2>1. ASSUME NEW q \in Process
        PROVE  /\ Len(fifoSent[q]) <= Len(fifoSent'[q])
               /\ \A i \in 1 .. Len(fifoSent[q]) : fifoSent'[q][i] = fifoSent[q][i]
    <3>1. fifoSent[q] \in Seq(Packet) /\ outbox[q] \in Seq(Packet)
      BY DEF TypeOK
    <3>2. CASE q = p
      <4>1. /\ Len(fifoSent[p]) <= Len(fifoSent[p] \o outbox[p])
            /\ \A i \in 1 .. Len(fifoSent[p]) :
                 (fifoSent[p] \o outbox[p])[i] = fifoSent[p][i]
        BY <3>1, <3>2, ConcatFacts
      <4> QED
        BY <1>2, <3>2, <4>1
    <3>3. CASE q # p
      BY <1>2, <3>1, <3>3
    <3> QED
      BY <3>2, <3>3
  <2> SUFFICES ASSUME NEW o \in Process, NEW q \in Process \ {o}
               PROVE  /\ fifoNext[o][q] <= Len(fifoSent'[q]) + 1
                      /\ \A i \in 1 .. Len(pending[o][q]) :
                           pending[o][q][i] = fifoSent'[q][vectorClock[o][q] + i]
    BY <1>2 DEF Queued
  <2>2. /\ fifoSent[q] \in Seq(Packet) /\ fifoSent'[q] \in Seq(Packet)
        /\ pending[o][q] \in Seq(Packet)
        /\ fifoNext[o][q] \in Nat /\ vectorClock[o][q] \in Nat
    BY <1>5 DEF TypeOK
  <2>3. /\ fifoNext[o][q] <= Len(fifoSent[q]) + 1
        /\ vectorClock[o][q] + Len(pending[o][q]) = fifoNext[o][q] - 1
    BY DEF Queued
  <2>4. fifoNext[o][q] <= Len(fifoSent'[q]) + 1
    BY <2>1, <2>2, <2>3
  <2>5. ASSUME NEW i \in 1 .. Len(pending[o][q])
        PROVE  pending[o][q][i] = fifoSent'[q][vectorClock[o][q] + i]
    <3>1. vectorClock[o][q] + i \in 1 .. Len(fifoSent[q])
      BY <2>2, <2>3, QueueFits
    <3>2. pending[o][q][i] = fifoSent[q][vectorClock[o][q] + i]
      BY DEF Queued
    <3> QED
      BY <2>1, <3>1, <3>2
  <2> QED
    BY <2>4, <2>5
<1> QED
  BY <1>5, <1>6, <1>7, <1>8

-----------------------------------------------------------------------------
(* What the FIFO layer delivers. *)
LEMMA NextPacket ==
  ASSUME IInv, NEW p \in Process, NEW q \in Process, FifoDeliver(p, q),
         NEW pkt, pkt = fifoSent[q][fifoNext[p][q]]
  PROVE  /\ pkt \in Packet /\ pkt.peerID = q
         /\ fifoNext[p][q] \in 1 .. Len(fifoSent[q])
         /\ fifoNext[p][q] \in 1 .. Len(Broadcasts(q))
         /\ pkt = Broadcasts(q)[fifoNext[p][q]]
<1>1. fifoSent[q] \in Seq(Packet) /\ fifoNext[p][q] \in Nat \ {0}
  BY DEF IInv, TypeOK
<1>2. fifoNext[p][q] \in 1 .. Len(fifoSent[q])
  BY <1>1 DEF FifoDeliver, FifoLayer!Deliver
<1>3. /\ fifoNext[p][q] \in 1 .. Len(Broadcasts(q))
      /\ Broadcasts(q)[fifoNext[p][q]] = pkt
  BY <1>2, BroadcastsFacts DEF IInv
<1>4. pkt.peerID = q
  BY <1>3 DEF IInv, Numbered
<1>5. pkt \in Packet
  BY <1>1, <1>2, ElementOfSeq
<1> QED
  BY <1>2, <1>3, <1>4, <1>5

(* A step that broadcasts nothing and lowers no clock. *)
LEMMA ClocksStillGrow ==
  ASSUME IInv, TypeOK', UNCHANGED <<Deps, outbox, fifoSent>>,
         \A o, r \in Process : vectorClock[o][r] <= vectorClock'[o][r]
  PROVE  /\ \A q \in Process : Broadcasts(q)' = Broadcasts(q)
         /\ GrowingClocks'
<1>1. \A q \in Process : Broadcasts(q)' = Broadcasts(q)
  BY DEF Broadcasts
<1>2. ASSUME NEW q \in Process, NEW r \in Process,
             NEW i \in 1 .. Len(Broadcasts(q))
      PROVE  Broadcasts(q)[i].vectorClock[r] <= PacketClock(q)'[r]
  <2>1. vectorClock[q][r] \in Nat /\ vectorClock'[q][r] \in Nat
    BY DEF IInv, TypeOK
  <2>2. /\ PacketClock(q)[r] \in Nat /\ PacketClock(q)'[r] \in Nat
        /\ PacketClock(q)[r] <= PacketClock(q)'[r]
    BY <2>1 DEF PacketClock
  <2>3. Broadcasts(q)[i] \in Packet
    BY BroadcastsFacts, ElementOfSeq DEF IInv
  <2>4. Broadcasts(q)[i].vectorClock[r] \in Nat
    BY <2>3 DEF Packet
  <2>5. Broadcasts(q)[i].vectorClock[r] <= PacketClock(q)[r]
    BY DEF IInv, GrowingClocks
  <2> QED
    BY <2>2, <2>4, <2>5
<1>3. GrowingClocks'
  BY <1>1, <1>2 DEF IInv, GrowingClocks
<1> QED
  BY <1>1, <1>3

(* An own packet comes back. *)
LEMMA OwnPacketStep ==
  ASSUME IInv, NEW p \in Process, FifoDeliver(p, p)
  PROVE  IInv'
<1> USE DEF IInv
<1> DEFINE pkt == fifoSent[p][fifoNext[p][p]]
<1>1. pkt.peerID = p
  BY NextPacket
<1>2. /\ UNCHANGED <<Deps, next, vectorClock, pending, outbox, fifoSent, log>>
      /\ fifoNext' = [fifoNext EXCEPT ![p][p] = @ + 1]
  BY <1>1 DEF FifoDeliver, FifoLayer!Deliver, deliver
<1>3. /\ fifoNext' \in [Process -> [Process -> Nat \ {0}]]
      /\ \A o \in Process : \A q \in Process \ {o} :
           fifoNext'[o][q] = fifoNext[o][q]
  BY <1>2 DEF TypeOK
<1>4. TypeOK'
  BY <1>2, <1>3 DEF TypeOK
<1>a. Queued'
  BY <1>2, <1>3 DEF Queued
<1>5. Numbered' /\ Closed' /\ GrowingClocks'
  BY <1>2 DEF Numbered, Closed, GrowingClocks, Broadcasts, Locked, PacketClock
<1> QED
  BY <1>4, <1>a, <1>5

(* The test fails and the packet waits. *)
LEMMA KeepStep ==
  ASSUME IInv, NEW p \in Process, NEW q \in Process \ {p}, FifoDeliver(p, q),
         Keep(p, fifoSent[q][fifoNext[p][q]])
  PROVE  IInv'
<1> USE DEF IInv
<1> DEFINE k == fifoNext[p][q]
           pkt == fifoSent[q][k]
           queue == pending[p][q]
           c == vectorClock[p][q]
<1>1. /\ pkt \in Packet /\ pkt.peerID = q /\ k \in 1 .. Len(fifoSent[q])
  BY NextPacket
<1>2. /\ UNCHANGED <<Deps, next, vectorClock, outbox, fifoSent, log>>
      /\ pending' = [pending EXCEPT ![p][q] = Append(@, pkt)]
      /\ fifoNext' = [fifoNext EXCEPT ![p][q] = @ + 1]
  BY <1>1 DEF FifoDeliver, FifoLayer!Deliver, Keep
<1>3. /\ queue \in Seq(Packet) /\ fifoSent[q] \in Seq(Packet)
      /\ k \in Nat /\ c \in Nat
  BY DEF TypeOK
<1>4. Append(queue, pkt) \in Seq(Packet)
  BY <1>1, <1>3
<1>5. TypeOK'
  <2>1. pending' \in [Process -> [Process -> Seq(Packet)]]
    BY <1>2, <1>4 DEF TypeOK
  <2>2. fifoNext' \in [Process -> [Process -> Nat \ {0}]]
    <3>1. fifoNext[p] \in [Process -> Nat \ {0}]
      BY DEF TypeOK
    <3>a. k + 1 \in Nat \ {0}
      BY <1>3
    <3>2. [fifoNext[p] EXCEPT ![q] = k + 1] \in [Process -> Nat \ {0}]
      BY <3>1, <3>a
    <3> QED
      BY <1>2, <3>2 DEF TypeOK
  <2> QED
    BY <1>2, <2>1, <2>2 DEF TypeOK
<1>6. Numbered' /\ Closed' /\ GrowingClocks'
  BY <1>2, ZenonT(40)
     DEF Numbered, Closed, GrowingClocks, Broadcasts, Locked, PacketClock
<1>7. Queued'
  <2> SUFFICES ASSUME NEW o \in Process, NEW r \in Process \ {o}
               PROVE  /\ fifoNext'[o][r] <= Len(fifoSent[r]) + 1
                      /\ vectorClock[o][r] + Len(pending'[o][r])
                           = fifoNext'[o][r] - 1
                      /\ \A i \in 1 .. Len(pending'[o][r]) :
                           pending'[o][r][i]
                             = fifoSent[r][vectorClock[o][r] + i]
    BY <1>2 DEF Queued
  <2>1. CASE o = p /\ r = q
    <3>1. pending'[p][q] = Append(queue, pkt) /\ fifoNext'[p][q] = k + 1
      BY <1>2 DEF TypeOK
    <3>2. /\ c + Len(queue) = k - 1
          /\ \A i \in 1 .. Len(queue) : queue[i] = fifoSent[q][c + i]
      BY DEF Queued
    <3> HIDE DEF k, pkt, queue, c
    <3>3. /\ Len(Append(queue, pkt)) = Len(queue) + 1
          /\ Append(queue, pkt)[Len(queue) + 1] = pkt
          /\ \A i \in 1 .. Len(queue) : Append(queue, pkt)[i] = queue[i]
      BY <1>1, <1>3
    <3>4. k + 1 <= Len(fifoSent[q]) + 1 /\ c + (Len(queue) + 1) = (k + 1) - 1
      BY <1>1, <1>3, <3>2
    <3>5. ASSUME NEW i \in 1 .. Len(queue) + 1
          PROVE  Append(queue, pkt)[i] = fifoSent[q][c + i]
      <4>1. CASE i = Len(queue) + 1
        <5>1. c + i = k
          BY <1>3, <3>2, <4>1
        <5> QED
          BY <3>3, <4>1, <5>1 DEF pkt
      <4>2. CASE i # Len(queue) + 1
        <5>1. i \in 1 .. Len(queue)
          BY <1>3, <4>2
        <5> QED
          BY <3>2, <3>3, <5>1
      <4> QED
        BY <4>1, <4>2
    <3> QED
      BY <2>1, <3>1, <3>3, <3>4, <3>5 DEF c
  <2>2. CASE ~(o = p /\ r = q)
    <3>1. pending'[o][r] = pending[o][r] /\ fifoNext'[o][r] = fifoNext[o][r]
      BY <1>2, <2>2 DEF TypeOK
    <3> QED
      BY <3>1 DEF Queued
  <2> QED
    BY <2>1, <2>2
<1> QED
  BY <1>5, <1>6, <1>7

(* The test succeeds and the whole queue is delivered: its packets depend on *)
(* less than the last one.                                                   *)
LEMMA DeliverAllStep ==
  ASSUME IInv, NEW p \in Process, NEW q \in Process \ {p}, FifoDeliver(p, q),
         canDeliver(p, fifoSent[q][fifoNext[p][q]]),
         DeliverAll(p, fifoSent[q][fifoNext[p][q]])
  PROVE  IInv'
<1> USE DEF IInv
<1> DEFINE k == fifoNext[p][q]
           pkt == fifoSent[q][k]
           queue == Append(pending[p][q], pkt)
           c == vectorClock[p][q]
           lines == [i \in 1 .. Len(queue) |-> DeliverEvent(q, queue[i].payload)]
<1>1. /\ pkt \in Packet /\ pkt.peerID = q
      /\ k \in 1 .. Len(fifoSent[q]) /\ k \in 1 .. Len(Broadcasts(q))
      /\ pkt = Broadcasts(q)[k]
  BY NextPacket
<1>2. /\ UNCHANGED <<Deps, next, outbox, fifoSent>>
      /\ pending' = [pending EXCEPT ![p][q] = <<>>]
      /\ vectorClock' = [vectorClock EXCEPT ![p][q] = @ + Len(queue)]
      /\ log' = [log EXCEPT ![p] = @ \o lines]
      /\ fifoNext' = [fifoNext EXCEPT ![p][q] = @ + 1]
      /\ ~Locked(p)
  BY <1>1 DEF FifoDeliver, FifoLayer!Deliver, DeliverAll
<1>3. /\ pending[p][q] \in Seq(Packet) /\ fifoSent[q] \in Seq(Packet)
      /\ k \in Nat \ {0} /\ c \in Nat
  BY DEF TypeOK
<1>4. c + Len(pending[p][q]) = k - 1
  BY DEF Queued
<1> HIDE DEF k, c, pkt
<1>5. /\ queue \in Seq(Packet) /\ Len(queue) \in Nat \ {0}
      /\ c + Len(queue) = k
  <2>1. ASSUME NEW w \in Seq(Packet), c + Len(w) = k - 1
        PROVE  /\ Append(w, pkt) \in Seq(Packet)
               /\ Len(Append(w, pkt)) \in Nat \ {0}
               /\ c + Len(Append(w, pkt)) = k
    <3>1. Len(w) \in Nat /\ Len(w) + 1 \in Nat \ {0}
      OBVIOUS
    <3>2. /\ Append(w, pkt) \in Seq(Packet)
          /\ Len(Append(w, pkt)) = Len(w) + 1
      BY <1>1, <3>1, AppendFacts
    <3>3. c + (Len(w) + 1) = k
      BY <1>3, <2>1, <3>1
    <3> QED
      BY <3>1, <3>2, <3>3
  <2> QED
    BY <1>3, <1>4, <2>1
<1> HIDE DEF queue
<1>6. /\ vectorClock' \in [Process -> [Process -> Nat]]
      /\ vectorClock'[p][q] = k
      /\ \A o \in Process \ {p} : vectorClock'[o] = vectorClock[o]
      /\ \A o \in Process, r \in Process \ {q} :
           vectorClock'[o][r] = vectorClock[o][r]
      /\ \A o, r \in Process : vectorClock[o][r] <= vectorClock'[o][r]
  <2>1. /\ Len(queue) \in Nat /\ vectorClock[p][q] + Len(queue) = k
        /\ vectorClock \in [Process -> [Process -> Nat]]
    BY <1>5 DEF TypeOK, c
  <2> QED
    BY <1>2, <2>1, BumpClock, SMTT(60)
<1>7. /\ lines \in Seq(Event) /\ Len(lines) = Len(queue)
      /\ \A i \in 1 .. Len(queue) : lines[i].type = "d"
  <2>1. \A i \in 1 .. Len(queue) : queue[i] \in Packet
    BY <1>5, ElementOfSeq
  <2>2. \A i \in 1 .. Len(queue) : /\ DeliverEvent(q, queue[i].payload) \in Event
                                   /\ DeliverEvent(q, queue[i].payload).type = "d"
    BY <2>1 DEF Packet, Event, DeliverEvent
  <2> QED
    BY <1>5, <2>2
<1>8. /\ log' \in [Process -> Seq(Event)]
      /\ ~Locked(p)'
      /\ \A o \in Process \ {p} : Locked(o)' = Locked(o)
  <2> HIDE DEF lines
  <2>1. /\ log[p] \in Seq(Event) /\ log'[p] = log[p] \o lines
        /\ \A o \in Process \ {p} : log'[o] = log[o]
    BY <1>2 DEF TypeOK
  <2>2. /\ log'[p] \in Seq(Event)
        /\ Len(log'[p]) = Len(log[p]) + Len(lines)
        /\ \A i \in 1 .. Len(log[p]) + Len(lines) :
             log'[p][i] = IF i <= Len(log[p]) THEN log[p][i]
                          ELSE lines[i - Len(log[p])]
    <3>1. lines \in Seq(Event)
      BY <1>7
    <3> QED
      BY <2>1, <3>1, ConcatProperties
  <2>3. ASSUME NEW u \in Seq(Event), NEW n \in Nat \ {0}
        PROVE  /\ Len(u) + n \in 1 .. Len(u) + n
               /\ ~(Len(u) + n <= Len(u))
               /\ (Len(u) + n) - Len(u) = n
               /\ n \in 1 .. n
    OBVIOUS
  <2>4. log'[p][Len(log'[p])].type = "d"
    BY <1>5, <1>7, <2>1, <2>2, <2>3
  <2>5. ~Locked(p)'
    BY <2>4 DEF Locked
  <2>6. log' \in [Process -> Seq(Event)]
    BY <1>2, <2>1, <2>2 DEF TypeOK
  <2> QED
    BY <2>1, <2>5, <2>6 DEF Locked
<1>9. /\ pending' \in [Process -> [Process -> Seq(Packet)]]
      /\ pending'[p][q] = <<>>
      /\ \A o, r \in Process : o # p \/ r # q => pending'[o][r] = pending[o][r]
  <2>1. <<>> \in Seq(Packet)
    OBVIOUS
  <2> QED
    BY <1>2, <2>1 DEF TypeOK
<1>10. /\ fifoNext' \in [Process -> [Process -> Nat \ {0}]]
       /\ fifoNext'[p][q] = k + 1
       /\ \A o, r \in Process : o # p \/ r # q => fifoNext'[o][r] = fifoNext[o][r]
  <2>1. fifoNext' = [fifoNext EXCEPT ![p][q] = k + 1] /\ k + 1 \in Nat \ {0}
    BY <1>2, <1>3 DEF k
  <2> QED
    BY <2>1 DEF TypeOK
<1>11. TypeOK'
  BY <1>2, <1>6, <1>8, <1>9, <1>10 DEF TypeOK
<1>12. (\A o \in Process : Broadcasts(o)' = Broadcasts(o)) /\ GrowingClocks'
  BY <1>2, <1>6, <1>11, ClocksStillGrow
<1>13. Numbered'
  <2>1. \A o \in Process : vectorClock'[o][o] = vectorClock[o][o]
    BY <1>6
  <2>2. \A o \in Process : Locked(o)' => outbox[o] = <<>>
    BY <1>8 DEF Numbered
  <2> QED
    BY <1>2, <1>12, <2>1, <2>2 DEF Numbered
<1>14. Queued'
  <2>a. fifoSent' = fifoSent
    BY <1>2
  <2> SUFFICES ASSUME NEW o \in Process, NEW r \in Process \ {o}
               PROVE  /\ fifoNext'[o][r] <= Len(fifoSent[r]) + 1
                      /\ vectorClock'[o][r] + Len(pending'[o][r])
                           = fifoNext'[o][r] - 1
                      /\ \A i \in 1 .. Len(pending'[o][r]) :
                           pending'[o][r][i]
                             = fifoSent[r][vectorClock'[o][r] + i]
    BY <2>a DEF Queued
  <2>1. CASE o = p /\ r = q
    <3>1. k + 1 <= Len(fifoSent[q]) + 1 /\ k + Len(<<>>) = (k + 1) - 1
      BY <1>1, <1>3
    <3>2. \A i \in 1 .. Len(<<>>) : FALSE
      OBVIOUS
    <3> QED
      BY <1>6, <1>9, <1>10, <2>1, <3>1, <3>2
  <2>2. CASE ~(o = p /\ r = q)
    <3>1. /\ pending'[o][r] = pending[o][r] /\ fifoNext'[o][r] = fifoNext[o][r]
          /\ vectorClock'[o][r] = vectorClock[o][r]
      BY <1>6, <1>9, <1>10, <2>2, ZenonT(40)
    <3> QED
      BY <3>1 DEF Queued
  <2> QED
    BY <2>1, <2>2
<1>15. Closed'
  <2> SUFFICES ASSUME NEW o \in Process, NEW s \in Process, NEW r \in Process,
                      NEW i \in 1 .. Len(Broadcasts(s)),
                      i <= vectorClock'[o][s]
               PROVE  Broadcasts(s)[i].vectorClock[r] <= vectorClock'[o][r]
    BY <1>12 DEF Closed
  <2>1. /\ vectorClock[o][r] \in Nat /\ vectorClock'[o][r] \in Nat
        /\ vectorClock[o][r] <= vectorClock'[o][r]
    BY <1>6 DEF TypeOK
  <2>2. Broadcasts(s)[i].vectorClock[r] \in Nat
    <3>1. Broadcasts(s)[i] \in Packet
      BY BroadcastsFacts, ElementOfSeq
    <3> QED
      BY <3>1 DEF Packet
  <2>3. CASE o = p /\ s = q
    <3>1. i \in 1 .. k
      BY <1>3, <1>6, <2>3
    <3>2. Broadcasts(q)[i].vectorClock[r] <= Broadcasts(q)[k].vectorClock[r]
      BY <1>1, <3>1 DEF GrowingClocks
    <3>3. pkt.vectorClock[r] <= vectorClock[p][r] /\ pkt.vectorClock[r] \in Nat
      BY <1>1 DEF canDeliver, Packet, pkt, k
    <3> QED
      BY <1>1, <2>1, <2>2, <2>3, <3>2, <3>3, SMTT(20)
  <2>4. CASE ~(o = p /\ s = q)
    <3>1. vectorClock'[o][s] = vectorClock[o][s]
      BY <1>6, <2>4
    <3>2. Broadcasts(s)[i].vectorClock[r] <= vectorClock[o][r]
      BY <3>1 DEF Closed
    <3> QED
      BY <2>1, <2>2, <3>2
  <2> QED
    BY <2>3, <2>4
<1> QED
  BY <1>11, <1>12, <1>13, <1>14, <1>15

LEMMA Invariance == Spec => []IInv
<1>1. ASSUME IInv, NEW p \in Process, NEW q \in Process, FifoDeliver(p, q)
      PROVE  IInv'
  <2> DEFINE pkt == fifoSent[q][fifoNext[p][q]]
  <2>1. pkt.peerID = q
    BY <1>1, NextPacket
  <2>2. q = p \/ (q # p /\ canDeliver(p, pkt) /\ DeliverAll(p, pkt))
              \/ (q # p /\ Keep(p, pkt))
    BY <1>1, <2>1 DEF FifoDeliver, FifoLayer!Deliver, deliver
  <2> QED
    BY <1>1, <2>2, OwnPacketStep, DeliverAllStep, KeepStep
<1>2. ASSUME IInv, UNCHANGED vars
      PROVE  IInv'
  <2> USE DEF vars
  <2>1. TypeOK' /\ Queued'
    BY <1>2 DEF IInv, TypeOK, Queued
  <2>2. Numbered' /\ GrowingClocks' /\ Closed'
    BY <1>2, ZenonT(40) DEF IInv, Numbered, GrowingClocks, Closed, Broadcasts, Locked,
       PacketClock
  <2> QED
    BY <2>1, <2>2 DEF IInv
<1>3. ASSUME IInv, [Next]_vars
      PROVE  IInv'
  BY <1>1, <1>2, <1>3, LogBroadcastStep, DeliverOwnStep, FifoBroadcastStep
     DEF Next
<1> QED
  BY <1>3, InitIInv, PTL DEF Spec

-----------------------------------------------------------------------------
(* Type correctness, for every config file and number of messages. *)
THEOREM TypeCorrect == Spec => []TypeOK
<1>1. IInv => TypeOK
  BY DEF IInv
<1> QED
  BY <1>1, Invariance, PTL

LEMMA NothingLostInv == IInv => NothingLost
<1> SUFFICES ASSUME IInv, NEW p \in Process, NEW q \in Process \ {p}
             PROVE  /\ vectorClock[p][q] + Len(pending[p][q])
                         = fifoNext[p][q] - 1
                    /\ \A i \in DOMAIN pending[p][q] :
                         pending[p][q][i].payload = vectorClock[p][q] + i
  BY DEF NothingLost
<1>1. /\ vectorClock[p][q] + Len(pending[p][q]) = fifoNext[p][q] - 1
      /\ fifoNext[p][q] <= Len(fifoSent[q]) + 1
  BY DEF IInv, Queued
<1>2. /\ pending[p][q] \in Seq(Packet) /\ fifoSent[q] \in Seq(Packet)
      /\ vectorClock[p][q] \in Nat /\ fifoNext[p][q] \in Nat
  BY DEF IInv, TypeOK
<1>3. ASSUME NEW i \in 1 .. Len(pending[p][q])
      PROVE  pending[p][q][i].payload = vectorClock[p][q] + i
  <2>1. vectorClock[p][q] + i \in 1 .. Len(fifoSent[q])
    BY <1>1, <1>2, QueueFits
  <2>2. /\ vectorClock[p][q] + i \in 1 .. Len(Broadcasts(q))
        /\ fifoSent[q][vectorClock[p][q] + i]
             = Broadcasts(q)[vectorClock[p][q] + i]
    BY <2>1, BroadcastsFacts DEF IInv
  <2> QED
    BY <2>2 DEF IInv, Queued, Numbered
<1> QED
  BY <1>1, <1>2, <1>3, LenProperties

(* What the FIFO layer has delivered is counted by the clock or waits in its *)
(* queue, in order (lcb.cpp:40-62).                                          *)
THEOREM CountedOrWaiting == Spec => []NothingLost
<1>1. IInv => NothingLost
  BY NothingLostInv
<1> QED
  BY <1>1, Invariance, PTL

(* A process has delivered all that the messages it has delivered depend on, *)
(* although deliver() tests only the packet that triggers the scan           *)
(* (lcb.cpp:44).                                                             *)
THEOREM DependenciesFirst == Spec => []CausallyClosed
<1>1. IInv => CausallyClosed
  <2>1. ASSUME IInv, NEW q \in Process
        PROVE  DOMAIN Broadcasts(q) = 1 .. Len(Broadcasts(q))
    BY <2>1, BroadcastsFacts, LenProperties DEF IInv
  <2> QED
    BY <2>1 DEF IInv, Closed, CausallyClosed
<1> QED
  BY <1>1, Invariance, PTL

-----------------------------------------------------------------------------
(* A queue that has been filled is never emptied: a packet depends on all    *)
(* the earlier ones of its process, so that none can be delivered while one  *)
(* of them waits.  Without dependencies nothing ever waits.                  *)

(* With dependencies, a packet counts the earlier ones of its process. *)
CountsEarlier ==
  Causal(Deps) => \A q \in Process : \A i \in 1 .. Len(Broadcasts(q)) :
                    Broadcasts(q)[i].vectorClock[q] = i - 1

(* Without, it depends on nothing, and nothing waits. *)
Independent ==
  Fifo(Deps) =>
    /\ \A q, r \in Process : \A i \in 1 .. Len(Broadcasts(q)) :
         Broadcasts(q)[i].vectorClock[r] = 0
    /\ \A p, q \in Process : pending[p][q] = <<>>

QueueInv == CountsEarlier /\ Independent

-----------------------------------------------------------------------------
(* A step leaves the packets of a process alone, or adds one. *)
LEMMA PacketsGrow ==
  ASSUME IInv, [Next]_vars, NEW q \in Process
  PROVE  \/ Broadcasts(q)' = Broadcasts(q)
         \/ \E pkt \in Packet :
              /\ Broadcasts(q)' = Append(Broadcasts(q), pkt)
              /\ pkt.vectorClock = PacketClock(q)
<1>1. CASE UNCHANGED vars
  BY <1>1 DEF vars, Broadcasts
<1>2. ASSUME NEW p \in Process, LogBroadcast(p)
      PROVE  Broadcasts(q)' = Broadcasts(q)
  BY <1>2 DEF LogBroadcast, Broadcasts
<1>3. ASSUME NEW p \in Process, DeliverOwn(p)
      PROVE  \/ Broadcasts(q)' = Broadcasts(q)
             \/ \E pkt \in Packet :
                  /\ Broadcasts(q)' = Append(Broadcasts(q), pkt)
                  /\ pkt.vectorClock = PacketClock(q)
  <2> DEFINE pkt == [peerID |-> p, payload |-> next[p],
                     vectorClock |-> PacketClock(p)]
  <2>1. CASE q = p
    <3>1. pkt \in Packet /\ pkt.vectorClock = PacketClock(p)
      BY PacketClockType DEF IInv, Packet, TypeOK
    <3>2. Broadcasts(p) = fifoSent[p] /\ fifoSent[p] \in Seq(Packet)
      BY <1>3, BroadcastsFacts DEF IInv, Numbered, TypeOK, DeliverOwn
    <3>3. Broadcasts(p)' = Append(Broadcasts(p), pkt)
      BY <1>3, <3>2 DEF IInv, Broadcasts, TypeOK, DeliverOwn
    <3> QED
      BY <2>1, <3>1, <3>3
  <2>2. CASE q # p
    BY <1>3, <2>2 DEF IInv, Broadcasts, TypeOK, DeliverOwn
  <2> QED
    BY <2>1, <2>2
<1>4. ASSUME NEW p \in Process, FifoBroadcast(p)
      PROVE  Broadcasts(q)' = Broadcasts(q)
  <2>1. fifoSent[q] \in Seq(Packet) /\ outbox[q] \in Seq(Packet)
    BY DEF IInv, TypeOK
  <2>2. CASE q = p
    <3>1. fifoSent'[p] = fifoSent[p] \o outbox[p] /\ outbox'[p] = <<>>
      BY <1>4, HandedOver DEF IInv, TypeOK
    <3>2. fifoSent[p] \o outbox[p] \in Seq(Packet)
      BY <2>1, <2>2, ConcatFacts
    <3>3. (fifoSent[p] \o outbox[p]) \o <<>> = fifoSent[p] \o outbox[p]
      BY <3>2, ConcatEmptySeq
    <3> QED
      BY <2>2, <3>1, <3>3 DEF Broadcasts
  <2>3. CASE q # p
    BY <1>4, <2>3 DEF FifoBroadcast, FifoLayer!Broadcast, Broadcasts, IInv, TypeOK
  <2> QED
    BY <2>2, <2>3
<1>5. ASSUME NEW p \in Process, NEW r \in Process, FifoDeliver(p, r)
      PROVE  Broadcasts(q)' = Broadcasts(q)
  BY <1>5 DEF FifoDeliver, FifoLayer!Deliver, Broadcasts
<1> QED
  BY <1>1, <1>2, <1>3, <1>4, <1>5 DEF Next

(* What the FIFO layer delivers finds an empty queue or waits. *)
LEMMA QueueStays ==
  ASSUME IInv, QueueInv, NEW p \in Process, NEW q \in Process,
         FifoDeliver(p, q)
  PROVE  /\ \A o, r \in Process :
              pending[o][r] # <<>> => pending'[o][r] # <<>>
         /\ Fifo(Deps) => \A o, r \in Process : pending'[o][r] = <<>>
<1> DEFINE k == fifoNext[p][q]
           pkt == fifoSent[q][k]
           queue == pending[p][q]
<1>1. /\ pkt \in Packet /\ pkt.peerID = q
      /\ k \in 1 .. Len(Broadcasts(q)) /\ pkt = Broadcasts(q)[k]
  BY NextPacket
<1>2. queue \in Seq(Packet) /\ vectorClock[p][q] \in Nat /\ k \in Nat
  BY DEF IInv, TypeOK
<1>3. CASE q = p
  <2>1. UNCHANGED pending
    BY <1>1, <1>3 DEF FifoDeliver, FifoLayer!Deliver, deliver
  <2> QED
    BY <2>1 DEF QueueInv, Independent
<1>4. CASE q # p /\ ~canDeliver(p, pkt)
  <2>1. pending' = [pending EXCEPT ![p][q] = Append(@, pkt)]
    BY <1>1, <1>4 DEF FifoDeliver, FifoLayer!Deliver, deliver, Keep
  <2>2. Append(queue, pkt) # <<>>
    BY <1>1, <1>2
  <2>3. \A o, r \in Process : pending[o][r] # <<>> => pending'[o][r] # <<>>
    BY <2>1, <2>2 DEF IInv, TypeOK
  <2>4. ~Fifo(Deps)
    <3>1. \A r \in Process : vectorClock[p][r] \in Nat
      BY DEF IInv, TypeOK
    <3>2. Fifo(Deps) => \A r \in Process : pkt.vectorClock[r] = 0
      BY <1>1 DEF QueueInv, Independent
    <3> QED
      BY <1>4, <3>1, <3>2 DEF canDeliver
  <2> QED
    BY <2>3, <2>4
<1>5. CASE q # p /\ canDeliver(p, pkt)
  <2>1. pending' = [pending EXCEPT ![p][q] = <<>>]
    BY <1>1, <1>5 DEF FifoDeliver, FifoLayer!Deliver, deliver, DeliverAll
  <2>2. queue = <<>>
    <3>1. Deps \in Configs
      BY DEF IInv, TypeOK
    <3>2. CASE Fifo(Deps)
      BY <3>2 DEF QueueInv, Independent
    <3>3. CASE Causal(Deps)
      <4>1. pkt.vectorClock[q] = k - 1
        BY <1>1, <3>3 DEF QueueInv, CountsEarlier
      <4>2. vectorClock[p][q] + Len(queue) = k - 1
        BY <1>5 DEF IInv, Queued
      <4>3. k - 1 <= vectorClock[p][q]
        BY <1>5, <4>1 DEF canDeliver
      <4>4. Len(queue) = 0
        BY <1>2, <4>2, <4>3
      <4> QED
        BY <1>2, <4>4
    <3> QED
      BY <3>1, <3>2, <3>3, ConfigsAssumption
  <2>3. \A o, r \in Process : pending'[o][r] = pending[o][r]
    BY <2>1, <2>2 DEF IInv, TypeOK
  <2> QED
    BY <2>3 DEF QueueInv, Independent
<1> QED
  BY <1>3, <1>4, <1>5

(* The queues of a step. *)
LEMMA QueuesStay ==
  ASSUME IInv, QueueInv, [Next]_vars
  PROVE  /\ \A o, r \in Process :
              pending[o][r] # <<>> => pending'[o][r] # <<>>
         /\ Fifo(Deps) => \A o, r \in Process : pending'[o][r] = <<>>
<1>1. ASSUME UNCHANGED pending
      PROVE  /\ \A o, r \in Process :
                  pending[o][r] # <<>> => pending'[o][r] # <<>>
             /\ Fifo(Deps) => \A o, r \in Process : pending'[o][r] = <<>>
  BY <1>1 DEF QueueInv, Independent
<1>2. \/ UNCHANGED pending
      \/ \E p, q \in Process : FifoDeliver(p, q)
  BY DEF Next, vars, LogBroadcast, DeliverOwn, FifoBroadcast
<1> QED
  BY <1>1, <1>2, QueueStays

LEMMA QueueInvStep ==
  ASSUME IInv, QueueInv, [Next]_vars
  PROVE  QueueInv'
<1>1. Deps' = Deps
  BY DEF Next, vars, LogBroadcast, DeliverOwn, FifoBroadcast, FifoDeliver
<1>2. ASSUME NEW q \in Process
      PROVE  /\ Broadcasts(q) \in Seq(Packet)
             /\ Len(Broadcasts(q)) \in Nat
             /\ vectorClock[q][q] = Len(Broadcasts(q))
  <2>1. Broadcasts(q) \in Seq(Packet)
    BY BroadcastsFacts DEF IInv
  <2> QED
    BY <2>1 DEF IInv, Numbered
<1>3. ASSUME NEW q \in Process, NEW i \in 1 .. Len(Broadcasts(q)')
      PROVE  \/ /\ i \in 1 .. Len(Broadcasts(q))
                /\ Broadcasts(q)'[i] = Broadcasts(q)[i]
             \/ /\ i = Len(Broadcasts(q)) + 1
                /\ Broadcasts(q)'[i].vectorClock = PacketClock(q)
  <2>1. CASE Broadcasts(q)' = Broadcasts(q)
    BY <2>1
  <2>2. ASSUME NEW pkt \in Packet,
               Broadcasts(q)' = Append(Broadcasts(q), pkt),
               pkt.vectorClock = PacketClock(q)
        PROVE  \/ /\ i \in 1 .. Len(Broadcasts(q))
                  /\ Broadcasts(q)'[i] = Broadcasts(q)[i]
               \/ /\ i = Len(Broadcasts(q)) + 1
                  /\ Broadcasts(q)'[i].vectorClock = PacketClock(q)
    BY <1>2, <2>2
  <2> QED
    BY <2>1, <2>2, PacketsGrow
<1>4. CountsEarlier'
  <2> SUFFICES ASSUME Causal(Deps), NEW q \in Process,
                      NEW i \in 1 .. Len(Broadcasts(q)')
               PROVE  Broadcasts(q)'[i].vectorClock[q] = i - 1
    BY <1>1 DEF CountsEarlier, Causal
  <2>1. PacketClock(q)[q] = Len(Broadcasts(q))
    BY <1>2 DEF Causal, PacketClock
  <2> QED
    BY <1>2, <1>3, <2>1 DEF QueueInv, CountsEarlier
<1>5. Independent'
  <2> SUFFICES ASSUME Fifo(Deps)
               PROVE  /\ \A q, r \in Process :
                           \A i \in 1 .. Len(Broadcasts(q)') :
                             Broadcasts(q)'[i].vectorClock[r] = 0
                      /\ \A p, q \in Process : pending'[p][q] = <<>>
    BY <1>1 DEF Independent, Fifo
  <2>1. \A q, r \in Process : PacketClock(q)[r] = 0
    BY DEF Fifo, PacketClock
  <2>2. \A q, r \in Process : \A i \in 1 .. Len(Broadcasts(q)') :
          Broadcasts(q)'[i].vectorClock[r] = 0
    BY <1>3, <2>1 DEF QueueInv, Independent
  <2> QED
    BY <2>2, QueuesStay
<1> QED
  BY <1>4, <1>5 DEF QueueInv

(* A packet that had to wait, and every later one of its process, waits for  *)
(* ever: deliver() scans a queue only when a new packet of the same process  *)
(* comes, and tests the clock of that packet (lcb.cpp:44).                   *)
THEOREM QueuesNeverEmpty == Spec => NeverUnblocked
<1>1. ASSUME Init
      PROVE  QueueInv
  <2>1. \A q \in Process : Broadcasts(q) = <<>>
    BY <1>1 DEF Init, FifoLayer!Init, Broadcasts
  <2> QED
    BY <1>1, <2>1 DEF Init, FifoLayer!Init, QueueInv, CountsEarlier, Independent
<1>2. IInv /\ QueueInv /\ [Next]_vars => QueueInv'
  BY QueueInvStep
<1>3. IInv /\ QueueInv /\ [Next]_vars =>
        [\A p, q \in Process :
           pending[p][q] # <<>> => pending'[p][q] # <<>>]_vars
  BY QueuesStay
<1> QED
  BY <1>1, <1>2, <1>3, Invariance, PTL DEF Spec, NeverUnblocked

-----------------------------------------------------------------------------
(* Localized causal order of the output files.  So far it is shown of the    *)
(* vector clocks; here the clocks are shown to agree with the lines of the   *)
(* logs.                                                                     *)

Payload == Nat \ {0}

(* The log has the deliveries that the clock counts, ...                     *)
LogHasCounted ==
  \A p, q \in Process, n \in Payload :
    In(log[p], DeliverEvent(q, n)) <=> n <= vectorClock[p][q]

(* ... and the broadcasts; one that has no packet yet is the last line.      *)
LogHasBroadcasts ==
  \A q \in Process, n \in Payload :
    In(log[q], BroadcastEvent(n)) =>
      n <= next[q] /\ (n = next[q] => Locked(q))

(* What a process has delivered before a broadcast is in the packet's clock. *)
ClockHasEarlier ==
  \A q \in Process, k, n \in Payload : \A r \in Deps[q] :
    n <= Len(Broadcasts(q))
        /\ Before(log[q], DeliverEvent(r, k), BroadcastEvent(n))
      => k <= Broadcasts(q)[n].vectorClock[r]

Ordered ==
  \A p, q \in Process, k, n \in Payload : \A r \in Deps[q] :
    In(log[p], DeliverEvent(q, n))
        /\ Before(log[q], DeliverEvent(r, k), BroadcastEvent(n))
      => Before(log[p], DeliverEvent(r, k), DeliverEvent(q, n))

LogInv ==
  /\ LogHasCounted
  /\ LogHasBroadcasts
  /\ ClockHasEarlier
  /\ Ordered

-----------------------------------------------------------------------------
(* Lines of a log that grows. *)
LEMMA AppendIn ==
  ASSUME NEW S, NEW s \in Seq(S), NEW e \in S, NEW x, NEW y
  PROVE  /\ In(Append(s, e), x) <=> In(s, x) \/ x = e
         /\ Before(Append(s, e), x, y) <=> Before(s, x, y) \/ (In(s, x) /\ y = e)
<1> DEFINE t == Append(s, e)
           n == Len(s)
<1>1. /\ n \in Nat /\ DOMAIN s = 1 .. n
      /\ DOMAIN t = 1 .. n + 1
      /\ t[n + 1] = e /\ \A i \in 1 .. n : t[i] = s[i]
  OBVIOUS
<1> HIDE DEF t, n
<1>2. In(t, x) <=> In(s, x) \/ x = e
  BY <1>1 DEF In
<1>3. ASSUME Before(t, x, y)
      PROVE  Before(s, x, y) \/ (In(s, x) /\ y = e)
  <2>1. PICK i \in 1 .. n + 1, j \in 1 .. n + 1 : i < j /\ t[i] = x /\ t[j] = y
    BY <1>1, <1>3 DEF Before
  <2>2. i \in 1 .. n /\ s[i] = x
    BY <1>1, <2>1
  <2>3. CASE j = n + 1
    BY <1>1, <2>1, <2>2, <2>3 DEF In
  <2>4. CASE j \in 1 .. n
    BY <1>1, <2>1, <2>2, <2>4 DEF Before
  <2> QED
    BY <1>1, <2>3, <2>4
<1>4. ASSUME Before(s, x, y)
      PROVE  Before(t, x, y)
  <2>1. PICK i \in 1 .. n, j \in 1 .. n : i < j /\ s[i] = x /\ s[j] = y
    BY <1>1, <1>4 DEF Before
  <2>2. i \in 1 .. n + 1 /\ j \in 1 .. n + 1
    BY <1>1
  <2> QED
    BY <1>1, <2>1, <2>2 DEF Before
<1>5. ASSUME In(s, x), y = e
      PROVE  Before(t, x, y)
  <2>1. PICK i \in 1 .. n : s[i] = x
    BY <1>1, <1>5 DEF In
  <2>2. i \in 1 .. n + 1 /\ n + 1 \in 1 .. n + 1 /\ i < n + 1
    BY <1>1
  <2> QED
    BY <1>1, <1>5, <2>1, <2>2 DEF Before
<1> QED
  BY <1>2, <1>3, <1>4, <1>5 DEF t

LEMMA ConcatIn ==
  ASSUME NEW S, NEW s \in Seq(S), NEW t \in Seq(S), NEW x, NEW y
  PROVE  /\ In(s \o t, x) <=> In(s, x) \/ In(t, x)
         /\ Before(s, x, y) => Before(s \o t, x, y)
         /\ In(s, x) /\ In(t, y) => Before(s \o t, x, y)
         /\ Before(s \o t, x, y) /\ ~In(t, y) => Before(s, x, y)
<1> DEFINE u == s \o t
           m == Len(s)
           n == Len(t)
<1>1. /\ m \in Nat /\ n \in Nat
      /\ DOMAIN s = 1 .. m /\ DOMAIN t = 1 .. n
      /\ u \in Seq(S) /\ Len(u) = m + n
      /\ \A i \in 1 .. m + n : u[i] = IF i <= m THEN s[i] ELSE t[i - m]
  BY ConcatProperties, LenProperties
<1>2. DOMAIN u = 1 .. m + n
  BY <1>1, LenProperties
<1> HIDE DEF u, m, n
<1>3. \A i \in 1 .. m : i \in 1 .. m + n /\ u[i] = s[i]
  BY <1>1
<1>4. \A i \in 1 .. n : m + i \in 1 .. m + n /\ u[m + i] = t[i]
  <2> TAKE i \in 1 .. n
  <2>1. m + i \in 1 .. m + n /\ ~(m + i <= m) /\ (m + i) - m = i
    BY <1>1
  <2> QED
    BY <1>1, <2>1
<1>5. \A i \in 1 .. m + n : \/ i \in 1 .. m
                            \/ i - m \in 1 .. n /\ u[i] = t[i - m]
  <2> TAKE i \in 1 .. m + n
  <2>1. i \in 1 .. m \/ (i - m \in 1 .. n /\ ~(i <= m))
    BY <1>1
  <2> QED
    BY <1>1, <2>1
<1>6. In(u, x) <=> In(s, x) \/ In(t, x)
  BY <1>1, <1>2, <1>3, <1>4, <1>5, ZenonT(40) DEF In
<1>7. Before(s, x, y) => Before(u, x, y)
  BY <1>1, <1>2, <1>3 DEF Before
<1>8. ASSUME In(s, x), In(t, y)
      PROVE  Before(u, x, y)
  <2>1. PICK i \in 1 .. m : s[i] = x
    BY <1>1, <1>8 DEF In
  <2>2. PICK j \in 1 .. n : t[j] = y
    BY <1>1, <1>8 DEF In
  <2>3. i < m + j
    BY <1>1
  <2> QED
    BY <1>2, <1>3, <1>4, <2>1, <2>2, <2>3 DEF Before
<1>9. ASSUME Before(u, x, y), ~In(t, y)
      PROVE  Before(s, x, y)
  <2>1. PICK i \in 1 .. m + n, j \in 1 .. m + n : i < j /\ u[i] = x /\ u[j] = y
    BY <1>2, <1>9 DEF Before
  <2>2. j \in 1 .. m
    BY <1>1, <1>5, <1>9, <2>1 DEF In
  <2>3. i \in 1 .. m
    BY <1>1, <2>1, <2>2
  <2> QED
    BY <1>1, <1>3, <2>1, <2>2, <2>3 DEF Before
<1> QED
  BY <1>6, <1>7, <1>8, <1>9 DEF u

LEMMA BeforeIn ==
  ASSUME NEW l, NEW x, NEW y, Before(l, x, y)
  PROVE  In(l, x) /\ In(l, y)
  BY DEF Before, In

(* No two different lines are equal. *)
LEMMA EventFacts ==
  ASSUME NEW q \in Process, NEW r \in Process, NEW k \in Payload, NEW n \in Payload
  PROVE  /\ DeliverEvent(q, k) # BroadcastEvent(n)
         /\ DeliverEvent(q, k) = DeliverEvent(r, n) <=> q = r /\ k = n
         /\ BroadcastEvent(k) = BroadcastEvent(n) <=> k = n
         /\ DeliverEvent(q, k) \in Event /\ BroadcastEvent(k) \in Event
<1>1. DeliverEvent(q, k).type # BroadcastEvent(n).type
  BY DEF DeliverEvent, BroadcastEvent
<1>2. /\ DeliverEvent(q, k).peerID = q /\ DeliverEvent(q, k).payload = k
      /\ DeliverEvent(r, n).peerID = r /\ DeliverEvent(r, n).payload = n
      /\ BroadcastEvent(k).payload = k /\ BroadcastEvent(n).payload = n
  BY DEF DeliverEvent, BroadcastEvent
<1> QED
  BY <1>1, <1>2 DEF DeliverEvent, BroadcastEvent, Event, Payload

(* Nobody counts a message that has no packet. *)
LEMMA CountedIsSent ==
  ASSUME IInv, NEW p \in Process, NEW q \in Process
  PROVE  vectorClock[p][q] \in Nat /\ vectorClock[p][q] <= next[q] - 1
<1>1. vectorClock[p][q] \in Nat /\ next[q] \in Nat \ {0}
  BY DEF IInv, TypeOK
<1>2. CASE p = q
  BY <1>1, <1>2 DEF IInv, Numbered
<1>3. CASE p # q
  <2>1. /\ pending[p][q] \in Seq(Packet) /\ fifoSent[q] \in Seq(Packet)
        /\ outbox[q] \in Seq(Packet) /\ fifoNext[p][q] \in Nat
    BY DEF IInv, TypeOK
  <2>2. /\ vectorClock[p][q] + Len(pending[p][q]) = fifoNext[p][q] - 1
        /\ fifoNext[p][q] <= Len(fifoSent[q]) + 1
    BY <1>3 DEF IInv, Queued
  <2>3. vectorClock[p][q] <= Len(fifoSent[q])
    BY <1>1, <2>1, <2>2, QueueFits
  <2>4. Len(fifoSent[q]) <= Len(fifoSent[q] \o outbox[q])
    BY <2>1, ConcatFacts
  <2>5. Len(fifoSent[q] \o outbox[q]) = next[q] - 1
    BY DEF IInv, Numbered, Broadcasts
  <2> QED
    BY <1>1, <2>1, <2>3, <2>4, <2>5
<1> QED
  BY <1>2, <1>3

-----------------------------------------------------------------------------
LEMMA InitLogInv == Init => LogInv
<1> SUFFICES ASSUME Init
             PROVE  LogInv
  OBVIOUS
<1>1. ASSUME NEW p \in Process, NEW x, NEW y
      PROVE  ~In(log[p], x) /\ ~Before(log[p], x, y)
  BY DEF Init, FifoLayer!Init, In, Before
<1>2. LogHasCounted
  BY <1>1, SMTT(20) DEF LogHasCounted, Init, FifoLayer!Init, Payload
<1> QED
  BY <1>1, <1>2 DEF LogInv, LogHasBroadcasts, ClockHasEarlier, Ordered

(* A step that leaves the logs, the clocks and the packets alone. *)
LEMMA LogStutter ==
  ASSUME LogInv, UNCHANGED <<Deps, next, vectorClock, log>>,
         \A q \in Process : Broadcasts(q)' = Broadcasts(q)
  PROVE  LogInv'
<1>1. \A q \in Process : Locked(q)' = Locked(q)
  BY DEF Locked
<1>2. LogHasCounted'
  BY DEF LogInv, LogHasCounted
<1>3. LogHasBroadcasts'
  BY <1>1 DEF LogInv, LogHasBroadcasts
<1>4. ClockHasEarlier'
  BY DEF LogInv, ClockHasEarlier
<1>5. Ordered'
  BY DEF LogInv, Ordered
<1> QED
  BY <1>2, <1>3, <1>4, <1>5 DEF LogInv

(* The line of a broadcast: nobody has delivered the message yet. *)
LEMMA LogBroadcastLines ==
  ASSUME IInv, LogInv, NEW p \in Process, LogBroadcast(p)
  PROVE  LogInv'
<1> DEFINE e == BroadcastEvent(next[p])
<1>1. /\ UNCHANGED <<Deps, next, vectorClock, pending, outbox, fifoSent>>
      /\ log' = [log EXCEPT ![p] = Append(@, e)]
  BY DEF LogBroadcast
<1>2. /\ next \in [Process -> Payload] /\ Deps \in [Process -> SUBSET Process]
      /\ log \in [Process -> Seq(Event)]
  BY ConfigsAssumption DEF IInv, TypeOK, Payload
<1>3. /\ log'[p] = Append(log[p], e) /\ log[p] \in Seq(Event) /\ e \in Event
      /\ \A o \in Process \ {p} : log'[o] = log[o]
  BY <1>1, <1>2, EventFacts
<1>4. /\ \A q \in Process : Broadcasts(q)' = Broadcasts(q)
      /\ \A q \in Process : Len(Broadcasts(q)) = next[q] - 1
  BY <1>1 DEF Broadcasts, IInv, Numbered
<1>5. /\ \A q \in Process \ {p} : Locked(q)' = Locked(q)
      /\ Locked(p)'
  <2>1. /\ log'[p] # <<>>
        /\ log'[p][Len(log'[p])] = e
    BY <1>3
  <2> QED
    BY <1>3, <2>1 DEF Locked, BroadcastEvent
<1> HIDE DEF e
<1>6. ASSUME NEW o \in Process, NEW x, NEW y
      PROVE  /\ In(log'[o], x) <=> In(log[o], x) \/ (o = p /\ x = e)
             /\ Before(log'[o], x, y) <=>
                  Before(log[o], x, y) \/ (o = p /\ In(log[o], x) /\ y = e)
  <2>1. CASE o = p
    <3>1. /\ In(Append(log[p], e), x) <=> In(log[p], x) \/ x = e
          /\ Before(Append(log[p], e), x, y) <=>
               Before(log[p], x, y) \/ (In(log[p], x) /\ y = e)
      BY <1>3, AppendIn
    <3> QED
      BY <1>3, <2>1, <3>1
  <2>2. CASE o # p
    BY <1>3, <2>2
  <2> QED
    BY <2>1, <2>2
<1>7. \A q \in Process, n \in Payload :
        /\ DeliverEvent(q, n) # e
        /\ BroadcastEvent(n) = e <=> n = next[p]
  BY <1>2, EventFacts DEF e
<1>8. LogHasCounted'
  BY <1>1, <1>6, <1>7 DEF LogInv, LogHasCounted
<1>9. LogHasBroadcasts'
  <2> SUFFICES ASSUME NEW q \in Process, NEW n \in Payload,
                      In(log'[q], BroadcastEvent(n))
               PROVE  n <= next[q] /\ (n = next[q] => Locked(q)')
    BY <1>1 DEF LogHasBroadcasts
  <2>1. CASE q = p /\ n = next[p]
    BY <1>2, <1>5, <2>1 DEF Payload
  <2>2. CASE In(log[q], BroadcastEvent(n))
    BY <1>5, <2>2 DEF LogInv, LogHasBroadcasts
  <2> QED
    BY <1>6, <1>7, <2>1, <2>2
<1>10. ClockHasEarlier'
  <2> SUFFICES ASSUME NEW q \in Process, NEW k \in Payload, NEW n \in Payload,
                      NEW r \in Deps[q], n <= Len(Broadcasts(q)),
                      Before(log'[q], DeliverEvent(r, k), BroadcastEvent(n))
               PROVE  k <= Broadcasts(q)[n].vectorClock[r]
    BY <1>1, <1>4 DEF ClockHasEarlier
  <2>1. n # next[q]
    BY <1>2, <1>4 DEF Payload
  <2>2. Before(log[q], DeliverEvent(r, k), BroadcastEvent(n))
    BY <1>6, <1>7, <2>1
  <2> QED
    BY <2>2 DEF LogInv, ClockHasEarlier
<1>11. Ordered'
  <2> SUFFICES ASSUME NEW o \in Process, NEW q \in Process,
                      NEW k \in Payload, NEW n \in Payload, NEW r \in Deps[q],
                      In(log'[o], DeliverEvent(q, n)),
                      Before(log'[q], DeliverEvent(r, k), BroadcastEvent(n))
               PROVE  Before(log'[o], DeliverEvent(r, k), DeliverEvent(q, n))
    BY <1>1 DEF Ordered
  <2>1. In(log[o], DeliverEvent(q, n))
    BY <1>6, <1>7
  <2>2. n # next[q]
    <3>1. /\ n <= vectorClock[o][q]
          /\ vectorClock[o][q] \in Nat /\ vectorClock[o][q] <= next[q] - 1
      BY <2>1, CountedIsSent DEF LogInv, LogHasCounted
    <3> QED
      BY <1>2, <3>1 DEF Payload
  <2>3. Before(log[q], DeliverEvent(r, k), BroadcastEvent(n))
    BY <1>6, <1>7, <2>2
  <2>4. Before(log[o], DeliverEvent(r, k), DeliverEvent(q, n))
    BY <2>1, <2>3 DEF LogInv, Ordered
  <2> QED
    BY <1>6, <2>4
<1> QED
  BY <1>8, <1>9, <1>10, <1>11 DEF LogInv

(* The own delivery: the packet's clock has all that was delivered before.   *)
LEMMA DeliverOwnLines ==
  ASSUME IInv, LogInv, NEW p \in Process, DeliverOwn(p)
  PROVE  LogInv'
<1> DEFINE n0 == next[p]
           e == DeliverEvent(p, n0)
           pkt == [peerID |-> p, payload |-> n0, vectorClock |-> PacketClock(p)]
<1>1. /\ UNCHANGED <<Deps, pending, fifoSent>> /\ Locked(p)
      /\ log' = [log EXCEPT ![p] = Append(@, e)]
      /\ next' = [next EXCEPT ![p] = @ + 1]
      /\ vectorClock' = [vectorClock EXCEPT ![p][p] = @ + 1]
      /\ outbox' = [outbox EXCEPT ![p] = <<pkt>>]
  BY DEF DeliverOwn
<1>2. /\ next \in [Process -> Payload] /\ Deps \in [Process -> SUBSET Process]
      /\ log \in [Process -> Seq(Event)] /\ n0 \in Nat
      /\ vectorClock \in [Process -> [Process -> Nat]]
  BY ConfigsAssumption DEF IInv, TypeOK, Payload
<1>3. /\ log'[p] = Append(log[p], e) /\ log[p] \in Seq(Event) /\ e \in Event
      /\ \A o \in Process \ {p} : log'[o] = log[o]
  BY <1>1, <1>2, EventFacts
<1>4. /\ next'[p] = n0 + 1
      /\ \A q \in Process \ {p} : next'[q] = next[q]
  BY <1>1, <1>2
<1>5. /\ vectorClock[p][p] = n0 - 1 /\ vectorClock'[p][p] = n0
      /\ \A q \in Process \ {p} : vectorClock'[q] = vectorClock[q]
      /\ \A q \in Process, r \in Process \ {p} :
           vectorClock'[q][r] = vectorClock[q][r]
  <2>1. vectorClock[p][p] = n0 - 1 /\ (n0 - 1) + 1 = n0
    BY <1>2 DEF IInv, Numbered
  <2> QED
    BY <1>1, <1>2, <2>1, BumpClock
<1>6. /\ Len(Broadcasts(p)) = n0 - 1 /\ Len(Broadcasts(p)') = n0
      /\ \A i \in 1 .. n0 - 1 : Broadcasts(p)'[i] = Broadcasts(p)[i]
      /\ Broadcasts(p)'[n0].vectorClock = PacketClock(p)
  <2>1. /\ Broadcasts(p) = fifoSent[p] /\ Broadcasts(p) \in Seq(Packet)
        /\ Len(Broadcasts(p)) = n0 - 1 /\ outbox[p] = <<>>
    BY <1>1, BroadcastsFacts DEF IInv, Numbered
  <2>2. pkt \in Packet /\ pkt.vectorClock = PacketClock(p)
    BY <1>2, PacketClockType DEF Packet, IInv, Payload
  <2>3. Broadcasts(p)' = Append(Broadcasts(p), pkt)
    BY <1>1, <2>1 DEF Broadcasts, IInv, TypeOK
  <2>4. n0 = Len(Broadcasts(p)) + 1
    BY <1>2, <2>1
  <2> QED
    BY <1>2, <2>1, <2>2, <2>3, <2>4, AppendFacts
<1>7. \A q \in Process \ {p} : /\ Broadcasts(q)' = Broadcasts(q)
                               /\ Locked(q)' = Locked(q)
  BY <1>1, <1>3 DEF Broadcasts, Locked, IInv, TypeOK
<1> HIDE DEF e, n0, pkt
<1>8. ASSUME NEW o \in Process, NEW x, NEW y
      PROVE  /\ In(log'[o], x) <=> In(log[o], x) \/ (o = p /\ x = e)
             /\ Before(log'[o], x, y) <=>
                  Before(log[o], x, y) \/ (o = p /\ In(log[o], x) /\ y = e)
  <2>1. CASE o = p
    <3>1. /\ In(Append(log[p], e), x) <=> In(log[p], x) \/ x = e
          /\ Before(Append(log[p], e), x, y) <=>
               Before(log[p], x, y) \/ (In(log[p], x) /\ y = e)
      BY <1>3, AppendIn
    <3> QED
      BY <1>3, <2>1, <3>1
  <2>2. CASE o # p
    BY <1>3, <2>2
  <2> QED
    BY <2>1, <2>2
<1>9. n0 \in Payload /\ n0 = next[p]
  BY <1>2 DEF n0
<1>10. \A q \in Process, n \in Payload :
         /\ BroadcastEvent(n) # e
         /\ DeliverEvent(q, n) = e <=> q = p /\ n = n0
  BY <1>9, EventFacts DEF e
<1>11. LogHasCounted'
  <2> SUFFICES ASSUME NEW o \in Process, NEW q \in Process, NEW n \in Payload
               PROVE  In(log'[o], DeliverEvent(q, n)) <=> n <= vectorClock'[o][q]
    BY DEF LogHasCounted
  <2>1. In(log[o], DeliverEvent(q, n)) <=> n <= vectorClock[o][q]
    BY DEF LogInv, LogHasCounted
  <2>2. CASE o = p /\ q = p
    <3>1. n <= n0 <=> n <= n0 - 1 \/ n = n0
      BY <1>9 DEF Payload
    <3> QED
      BY <1>5, <1>8, <1>10, <2>1, <2>2, <3>1
  <2>3. CASE ~(o = p /\ q = p)
    <3>1. vectorClock'[o][q] = vectorClock[o][q]
      BY <1>5, <2>3
    <3> QED
      BY <1>8, <1>10, <2>1, <2>3, <3>1
  <2> QED
    BY <2>2, <2>3
<1>12. LogHasBroadcasts'
  <2> SUFFICES ASSUME NEW q \in Process, NEW n \in Payload,
                      In(log'[q], BroadcastEvent(n))
               PROVE  n <= next'[q] /\ (n = next'[q] => Locked(q)')
    BY DEF LogHasBroadcasts
  <2>1. n <= next[q] /\ (n = next[q] => Locked(q))
    BY <1>8, <1>10 DEF LogInv, LogHasBroadcasts
  <2>2. CASE q = p
    BY <1>4, <1>9, <2>1, <2>2 DEF Payload
  <2>3. CASE q # p
    BY <1>4, <1>7, <2>1, <2>3
  <2> QED
    BY <2>2, <2>3
<1>13. ClockHasEarlier'
  <2> SUFFICES ASSUME NEW q \in Process, NEW k \in Payload, NEW n \in Payload,
                      NEW r \in Deps[q], n <= Len(Broadcasts(q)'),
                      Before(log'[q], DeliverEvent(r, k), BroadcastEvent(n))
               PROVE  k <= Broadcasts(q)'[n].vectorClock[r]
    BY <1>1 DEF ClockHasEarlier
  <2>1. Before(log[q], DeliverEvent(r, k), BroadcastEvent(n))
    BY <1>8, <1>10
  <2>2. CASE q # p
    BY <1>7, <2>1, <2>2 DEF LogInv, ClockHasEarlier
  <2>3. CASE q = p /\ n # n0
    <3>1. n \in 1 .. n0 - 1 /\ n <= Len(Broadcasts(p))
      BY <1>6, <1>9, <2>3 DEF Payload
    <3> QED
      BY <1>6, <2>1, <2>3, <3>1 DEF LogInv, ClockHasEarlier
  <2>4. CASE q = p /\ n = n0
    <3>1. r \in Process
      BY <1>2
    <3>2. In(log[p], DeliverEvent(r, k))
      BY <2>1, <2>4, BeforeIn
    <3>3. k <= vectorClock[p][r]
      BY <3>1, <3>2 DEF LogInv, LogHasCounted
    <3>4. PacketClock(p)[r] = vectorClock[p][r]
      BY <2>4, <3>1 DEF PacketClock
    <3> QED
      BY <1>6, <2>4, <3>3, <3>4
  <2> QED
    BY <2>2, <2>3, <2>4
<1>14. Ordered'
  <2> SUFFICES ASSUME NEW o \in Process, NEW q \in Process,
                      NEW k \in Payload, NEW n \in Payload, NEW r \in Deps[q],
                      In(log'[o], DeliverEvent(q, n)),
                      Before(log'[q], DeliverEvent(r, k), BroadcastEvent(n))
               PROVE  Before(log'[o], DeliverEvent(r, k), DeliverEvent(q, n))
    BY <1>1 DEF Ordered
  <2>1. Before(log[q], DeliverEvent(r, k), BroadcastEvent(n))
    BY <1>8, <1>10
  <2>2. CASE In(log[o], DeliverEvent(q, n))
    <3>1. Before(log[o], DeliverEvent(r, k), DeliverEvent(q, n))
      BY <2>1, <2>2 DEF LogInv, Ordered
    <3> QED
      BY <1>8, <3>1
  <2>3. CASE o = p /\ q = p /\ n = n0
    <3>1. In(log[p], DeliverEvent(r, k))
      BY <2>1, <2>3, BeforeIn
    <3> QED
      BY <1>8, <1>10, <2>3, <3>1
  <2> QED
    BY <1>8, <1>10, <2>2, <2>3
<1> QED
  BY <1>11, <1>12, <1>13, <1>14 DEF LogInv

(* The lines that the scan of a queue adds to the log. *)
LEMMA DeliverAllAppends ==
  ASSUME IInv, NEW p \in Process, NEW q \in Process \ {p},
         FifoDeliver(p, q), canDeliver(p, fifoSent[q][fifoNext[p][q]]),
         DeliverAll(p, fifoSent[q][fifoNext[p][q]])
  PROVE  /\ fifoNext[p][q] \in Nat /\ vectorClock[p][q] \in Nat
         /\ vectorClock[p][q] < fifoNext[p][q]
         /\ vectorClock'[p][q] = fifoNext[p][q]
         /\ \A o \in Process, r \in Process :
              o # p \/ r # q => vectorClock'[o][r] = vectorClock[o][r]
         /\ \E lines \in Seq(Event) :
              /\ log'[p] = log[p] \o lines
              /\ Len(lines) = fifoNext[p][q] - vectorClock[p][q]
              /\ \A i \in 1 .. Len(lines) :
                   lines[i] = DeliverEvent(q, vectorClock[p][q] + i)
         /\ \A o \in Process \ {p} : log'[o] = log[o]
<1> DEFINE k == fifoNext[p][q]
           pkt == fifoSent[q][k]
           queue == Append(pending[p][q], pkt)
           c == vectorClock[p][q]
           lines == [i \in 1 .. Len(queue) |-> DeliverEvent(q, queue[i].payload)]
<1>1. /\ pkt \in Packet /\ pkt.peerID = q
      /\ k \in 1 .. Len(Broadcasts(q)) /\ pkt = Broadcasts(q)[k]
  BY NextPacket
<1>2. /\ UNCHANGED <<Deps, next, outbox, fifoSent>>
      /\ vectorClock' = [vectorClock EXCEPT ![p][q] = @ + Len(queue)]
      /\ log' = [log EXCEPT ![p] = @ \o lines]
      /\ ~Locked(p)
  BY <1>1 DEF FifoDeliver, FifoLayer!Deliver, DeliverAll
<1>3. /\ pending[p][q] \in Seq(Packet) /\ k \in Nat \ {0} /\ c \in Nat
      /\ log \in [Process -> Seq(Event)]
      /\ vectorClock \in [Process -> [Process -> Nat]]
      /\ Deps \in [Process -> SUBSET Process]
  <2>1. TypeOK
    BY DEF IInv
  <2>2. pending[p] \in [Process -> Seq(Packet)]
    BY <2>1 DEF TypeOK
  <2>3. fifoNext[p] \in [Process -> Nat \ {0}]
    BY <2>1 DEF TypeOK
  <2>4. vectorClock \in [Process -> [Process -> Nat]]
    BY <2>1 DEF TypeOK
  <2>5. log \in [Process -> Seq(Event)]
    BY <2>1 DEF TypeOK
  <2>6. Deps \in [Process -> SUBSET Process]
    BY <2>1, ConfigsAssumption DEF TypeOK
  <2> QED
    BY <2>2, <2>3, <2>4, <2>5, <2>6
<1>4. /\ c + Len(pending[p][q]) = k - 1
      /\ \A i \in 1 .. Len(pending[p][q]) :
           pending[p][q][i].payload = c + i
  <2>1. \A i \in 1 .. Len(pending[p][q]) :
          i \in DOMAIN pending[p][q]
    BY <1>3, LenProperties
  <2> QED
    BY <2>1, NothingLostInv DEF NothingLost
<1>5. pkt.payload = k
  BY <1>1 DEF IInv, Numbered
<1> HIDE DEF k, c, pkt
<1>6. /\ queue \in Seq(Packet) /\ Len(queue) \in Nat \ {0}
      /\ c + Len(queue) = k /\ c < k
      /\ \A i \in 1 .. Len(queue) : queue[i].payload = c + i
  <2>1. ASSUME NEW w \in Seq(Packet), c + Len(w) = k - 1,
               \A i \in 1 .. Len(w) : w[i].payload = c + i
        PROVE  /\ Append(w, pkt) \in Seq(Packet)
               /\ Len(Append(w, pkt)) \in Nat \ {0}
               /\ c + Len(Append(w, pkt)) = k /\ c < k
               /\ \A i \in 1 .. Len(Append(w, pkt)) :
                    Append(w, pkt)[i].payload = c + i
    <3>1. /\ Append(w, pkt) \in Seq(Packet)
          /\ Len(Append(w, pkt)) = Len(w) + 1 /\ Len(w) \in Nat
          /\ Append(w, pkt)[Len(w) + 1] = pkt
          /\ \A i \in 1 .. Len(w) : Append(w, pkt)[i] = w[i]
      BY <1>1, <2>1
    <3>2. c + (Len(w) + 1) = k /\ c < k
      BY <1>3, <2>1
    <3>3. \A i \in 1 .. Len(w) + 1 : i \in 1 .. Len(w) \/ i = Len(w) + 1
      BY <2>1
    <3>4. Len(w) + 1 \in Nat \ {0}
      BY <2>1
    <3> QED
      BY <1>5, <2>1, <3>1, <3>2, <3>3, <3>4
  <2> QED
    BY <1>3, <1>4, <2>1
<1> HIDE DEF queue
<1>7. /\ vectorClock'[p][q] = k
      /\ \A o \in Process, r \in Process :
           o # p \/ r # q => vectorClock'[o][r] = vectorClock[o][r]
  <2>1. Len(queue) \in Nat /\ vectorClock[p][q] + Len(queue) = k
    BY <1>6 DEF c
  <2> QED
    BY <1>2, <1>3, <2>1, BumpClock
<1>8. /\ lines \in Seq(Event) /\ Len(lines) = k - c
      /\ \A i \in 1 .. Len(lines) : lines[i] = DeliverEvent(q, c + i)
  <2>1. ASSUME NEW i \in 1 .. Len(queue)
        PROVE  /\ DeliverEvent(q, queue[i].payload) \in Event
               /\ DeliverEvent(q, queue[i].payload) = DeliverEvent(q, c + i)
    <3>1. queue[i] \in Packet
      BY <1>6, ElementOfSeq
    <3> QED
      BY <1>6, <3>1 DEF Packet, Event, DeliverEvent
  <2>2. DOMAIN lines = 1 .. Len(queue) /\ Len(queue) \in Nat
    BY <1>6
  <2>3. \A i \in 1 .. Len(queue) : lines[i] = DeliverEvent(q, c + i)
    BY <2>1
  <2>4. lines \in Seq(Event)
    BY <1>6, <2>1
  <2> HIDE DEF lines
  <2>5. Len(lines) = Len(queue)
    BY <2>2, <2>4, LenProperties
  <2>6. Len(lines) = k - c
    BY <1>3, <1>6, <2>5
  <2> QED
    BY <2>3, <2>4, <2>5, <2>6
<1>9. /\ log'[p] = log[p] \o lines
      /\ \A o \in Process \ {p} : log'[o] = log[o]
  BY <1>2, <1>3
<1> HIDE DEF lines
<1>10. \E w \in Seq(Event) :
         /\ log'[p] = log[p] \o w
         /\ Len(w) = k - c
         /\ \A i \in 1 .. Len(w) : w[i] = DeliverEvent(q, c + i)
  BY <1>8, <1>9
<1> QED
  BY <1>3, <1>6, <1>7, <1>9, <1>10 DEF k, c

(* The queue is delivered: what its packets depend on has its lines already. *)
LEMMA DeliverAllLines ==
  ASSUME IInv, LogInv, NEW p \in Process, NEW q \in Process \ {p},
         FifoDeliver(p, q), canDeliver(p, fifoSent[q][fifoNext[p][q]]),
         DeliverAll(p, fifoSent[q][fifoNext[p][q]])
  PROVE  LogInv'
<1> DEFINE k == fifoNext[p][q]
           pkt == fifoSent[q][k]
           c == vectorClock[p][q]
<1>1. /\ pkt \in Packet /\ pkt.peerID = q
      /\ k \in 1 .. Len(Broadcasts(q)) /\ pkt = Broadcasts(q)[k]
  BY NextPacket
<1>2. /\ UNCHANGED <<Deps, next, outbox, fifoSent>>
      /\ ~Locked(p)
  BY DEF FifoDeliver, FifoLayer!Deliver
<1>3. /\ k \in Nat \ {0} /\ c \in Nat
      /\ log \in [Process -> Seq(Event)]
      /\ vectorClock \in [Process -> [Process -> Nat]]
      /\ Deps \in [Process -> SUBSET Process]
  <2>1. TypeOK
    BY DEF IInv
  <2>2. fifoNext[p] \in [Process -> Nat \ {0}]
    BY <2>1 DEF TypeOK
  <2>3. vectorClock \in [Process -> [Process -> Nat]]
    BY <2>1 DEF TypeOK
  <2>4. log \in [Process -> Seq(Event)]
    BY <2>1 DEF TypeOK
  <2>5. Deps \in [Process -> SUBSET Process]
    BY <2>1, ConfigsAssumption DEF TypeOK
  <2> QED
    BY <2>2, <2>3, <2>4, <2>5
<1>6. c < k
  BY DeliverAllAppends
<1>7. /\ vectorClock'[p][q] = k
      /\ \A o \in Process, r \in Process :
           o # p \/ r # q => vectorClock'[o][r] = vectorClock[o][r]
  BY DeliverAllAppends
<1>8. PICK lines \in Seq(Event) :
        /\ log'[p] = log[p] \o lines
        /\ Len(lines) = k - c
        /\ \A i \in 1 .. Len(lines) : lines[i] = DeliverEvent(q, c + i)
  BY DeliverAllAppends
<1>9. /\ log'[p] = log[p] \o lines
      /\ \A o \in Process \ {p} : log'[o] = log[o]
      /\ \A x : In(lines, x) <=>
           \E i \in 1 .. k - c : x = DeliverEvent(q, c + i)
  <2>1. DOMAIN lines = 1 .. k - c
    BY <1>8, LenProperties
  <2>2. \A i \in 1 .. k - c : lines[i] = DeliverEvent(q, c + i)
    BY <1>8
  <2> HIDE DEF k, c, pkt
  <2>3. \A x : In(lines, x) <=> \E i \in 1 .. k - c : x = DeliverEvent(q, c + i)
    BY <2>1, <2>2 DEF In
  <2> QED
    BY <1>8, <2>3, DeliverAllAppends
<1> HIDE DEF k, c, pkt
<1>10. \A n \in Payload, r \in Process :
         /\ ~In(lines, BroadcastEvent(n))
         /\ In(lines, DeliverEvent(r, n)) <=> r = q /\ c < n /\ n <= k
  <2> TAKE n \in Payload, r \in Process
  <2>1. \A i \in 1 .. k - c : c + i \in Payload /\ c + i <= k /\ c < c + i
    BY <1>3, <1>6 DEF Payload
  <2>2. ASSUME In(lines, DeliverEvent(r, n))
        PROVE  r = q /\ c < n /\ n <= k
    <3>1. PICK i \in 1 .. k - c : DeliverEvent(r, n) = DeliverEvent(q, c + i)
      BY <1>9, <2>2
    <3>2. r = q /\ n = c + i
      BY <2>1, <3>1, EventFacts
    <3> QED
      BY <2>1, <3>2
  <2>3. ASSUME r = q, c < n, n <= k
        PROVE  In(lines, DeliverEvent(r, n))
    <3>1. n - c \in 1 .. k - c /\ c + (n - c) = n
      BY <1>3, <1>6, <2>3 DEF Payload
    <3> QED
      BY <1>9, <2>3, <3>1
  <2>4. ~In(lines, BroadcastEvent(n))
    BY <1>9, <2>1, EventFacts
  <2> QED
    BY <2>2, <2>3, <2>4
<1>11. ASSUME NEW o \in Process, NEW x, NEW y
       PROVE  /\ In(log'[o], x) <=> In(log[o], x) \/ (o = p /\ In(lines, x))
              /\ Before(log[o], x, y) => Before(log'[o], x, y)
              /\ o = p /\ In(log[p], x) /\ In(lines, y) => Before(log'[o], x, y)
              /\ Before(log'[o], x, y) /\ ~In(lines, y) => Before(log[o], x, y)
  <2>1. CASE o = p
    <3>1. log[p] \in Seq(Event)
      BY <1>3
    <3>2. /\ In(log[p] \o lines, x) <=> In(log[p], x) \/ In(lines, x)
          /\ Before(log[p], x, y) => Before(log[p] \o lines, x, y)
          /\ In(log[p], x) /\ In(lines, y) => Before(log[p] \o lines, x, y)
          /\ Before(log[p] \o lines, x, y) /\ ~In(lines, y)
               => Before(log[p], x, y)
      BY <1>8, <3>1, ConcatIn
    <3> QED
      BY <1>9, <2>1, <3>2
  <2>2. CASE o # p
    BY <1>9, <2>2
  <2> QED
    BY <2>1, <2>2
<1>12. LogHasCounted'
  <2> SUFFICES ASSUME NEW o \in Process, NEW r \in Process, NEW n \in Payload
               PROVE  In(log'[o], DeliverEvent(r, n)) <=> n <= vectorClock'[o][r]
    BY DEF LogHasCounted
  <2>1. In(log[o], DeliverEvent(r, n)) <=> n <= vectorClock[o][r]
    BY DEF LogInv, LogHasCounted
  <2>2. CASE o = p /\ r = q
    <3>1. n <= k <=> n <= c \/ (c < n /\ n <= k)
      <4>1. c \in Nat /\ k \in Nat /\ n \in Nat /\ c < k
        BY <1>3, <1>6 DEF Payload
      <4> QED
        BY <4>1
    <3> QED
      BY <1>7, <1>10, <1>11, <2>1, <2>2, <3>1 DEF c
  <2>3. CASE ~(o = p /\ r = q)
    BY <1>7, <1>10, <1>11, <2>1, <2>3
  <2> QED
    BY <2>2, <2>3
<1>13. LogHasBroadcasts'
  <2> SUFFICES ASSUME NEW o \in Process, NEW n \in Payload,
                      In(log'[o], BroadcastEvent(n))
               PROVE  n <= next[o] /\ (n = next[o] => Locked(o)')
    BY <1>2 DEF LogHasBroadcasts
  <2>1. In(log[o], BroadcastEvent(n))
    BY <1>10, <1>11
  <2>2. n <= next[o] /\ (n = next[o] => Locked(o))
    BY <2>1 DEF LogInv, LogHasBroadcasts
  <2>3. Locked(o) => Locked(o)'
    BY <1>2, <1>9 DEF Locked
  <2> QED
    BY <2>2, <2>3
<1>14. \A o \in Process : Broadcasts(o)' = Broadcasts(o)
  BY <1>2 DEF Broadcasts
<1>15. ClockHasEarlier'
  BY <1>2, <1>10, <1>11, <1>14 DEF LogInv, ClockHasEarlier
<1>16. Ordered'
  <2> SUFFICES ASSUME NEW o \in Process, NEW s \in Process,
                      NEW m \in Payload, NEW n \in Payload, NEW r \in Deps[s],
                      In(log'[o], DeliverEvent(s, n)),
                      Before(log'[s], DeliverEvent(r, m), BroadcastEvent(n))
               PROVE  Before(log'[o], DeliverEvent(r, m), DeliverEvent(s, n))
    BY <1>2 DEF Ordered
  <2>1. Before(log[s], DeliverEvent(r, m), BroadcastEvent(n)) /\ r \in Process
    BY <1>3, <1>10, <1>11
  <2>2. CASE In(log[o], DeliverEvent(s, n))
    <3>1. Before(log[o], DeliverEvent(r, m), DeliverEvent(s, n))
      BY <2>1, <2>2 DEF LogInv, Ordered
    <3> QED
      BY <1>11, <3>1
  <2>3. CASE o = p /\ In(lines, DeliverEvent(s, n))
    <3>1. s = q /\ n <= k /\ n \in 1 .. k /\ n \in 1 .. Len(Broadcasts(q))
      <4>1. s = q /\ n <= k
        BY <1>10, <2>3
      <4>2. Broadcasts(q) \in Seq(Packet)
        BY BroadcastsFacts DEF IInv
      <4>3. ASSUME NEW w \in Seq(Packet), k \in 1 .. Len(w)
            PROVE  n \in 1 .. k /\ n \in 1 .. Len(w)
        <5>1. n \in Nat \ {0} /\ k \in Nat /\ Len(w) \in Nat
          BY <1>3, LenProperties DEF Payload
        <5> QED
          BY <4>1, <4>3, <5>1
      <4> QED
        BY <1>1, <4>1, <4>2, <4>3
    <3>2. m <= Broadcasts(q)[n].vectorClock[r]
      <4>1. n <= Len(Broadcasts(q))
        BY <3>1
      <4> QED
        BY <2>1, <3>1, <4>1 DEF LogInv, ClockHasEarlier
    <3>3. Broadcasts(q)[n].vectorClock[r] <= Broadcasts(q)[k].vectorClock[r]
      BY <1>1, <2>1, <3>1 DEF IInv, GrowingClocks
    <3>4. pkt.vectorClock[r] <= vectorClock[p][r]
      BY <2>1 DEF canDeliver, pkt, k
    <3>5. /\ Broadcasts(q)[n].vectorClock[r] \in Nat
          /\ pkt.vectorClock[r] \in Nat /\ vectorClock[p][r] \in Nat
      <4>1. Broadcasts(q)[n] \in Packet
        BY <3>1, BroadcastsFacts, ElementOfSeq DEF IInv
      <4>2. /\ Broadcasts(q)[n].vectorClock \in [Process -> Nat]
            /\ pkt.vectorClock \in [Process -> Nat]
            /\ vectorClock[p] \in [Process -> Nat]
        BY <1>1, <1>3, <4>1 DEF Packet
      <4> QED
        BY <2>1, <4>2
    <3>6. m <= vectorClock[p][r]
      BY <1>1, <3>2, <3>3, <3>4, <3>5, SMTT(20) DEF Payload
    <3>7. In(log[p], DeliverEvent(r, m))
      BY <2>1, <3>6 DEF LogInv, LogHasCounted
    <3> QED
      BY <1>11, <2>3, <3>7
  <2> QED
    BY <1>11, <2>2, <2>3
<1> QED
  BY <1>12, <1>13, <1>15, <1>16 DEF LogInv

-----------------------------------------------------------------------------
LEMMA LogInvariance == Spec => []LogInv
<1>1. ASSUME IInv, LogInv, NEW p \in Process, NEW q \in Process,
             FifoDeliver(p, q)
      PROVE  LogInv'
  <2> DEFINE pkt == fifoSent[q][fifoNext[p][q]]
  <2>1. pkt.peerID = q
    BY <1>1, NextPacket
  <2>2. CASE q # p /\ canDeliver(p, pkt) /\ DeliverAll(p, pkt)
    BY <1>1, <2>2, DeliverAllLines
  <2>3. CASE UNCHANGED <<vectorClock, log>>
    <3>1. /\ UNCHANGED <<Deps, next, vectorClock, log, outbox, fifoSent>>
      BY <1>1, <2>3 DEF FifoDeliver, FifoLayer!Deliver
    <3> QED
      BY <1>1, <3>1, LogStutter DEF Broadcasts
  <2> QED
    BY <1>1, <2>1, <2>2, <2>3 DEF FifoDeliver, FifoLayer!Deliver, deliver, Keep
<1>2. ASSUME IInv, LogInv, NEW p \in Process, FifoBroadcast(p)
      PROVE  LogInv'
  <2>1. \A q \in Process : Broadcasts(q)' = Broadcasts(q)
    <3>1. /\ fifoSent[p] \in Seq(Packet) /\ outbox[p] \in Seq(Packet)
          /\ fifoSent'[p] = fifoSent[p] \o outbox[p] /\ outbox'[p] = <<>>
          /\ \A q \in Process \ {p} :
               fifoSent'[q] = fifoSent[q] /\ outbox'[q] = outbox[q]
      BY <1>2, HandedOver DEF IInv, TypeOK
    <3>2. (fifoSent[p] \o outbox[p]) \o <<>> = fifoSent[p] \o outbox[p]
      BY <3>1, ConcatProperties, ConcatEmptySeq
    <3> QED
      BY <3>1, <3>2 DEF Broadcasts
  <2> QED
    BY <1>2, <2>1, LogStutter DEF FifoBroadcast, FifoLayer!Broadcast
<1>3. ASSUME LogInv, UNCHANGED vars
      PROVE  LogInv'
  BY <1>3, LogStutter DEF vars, Broadcasts
<1>4. ASSUME IInv, LogInv, [Next]_vars
      PROVE  LogInv'
  BY <1>1, <1>2, <1>3, <1>4, LogBroadcastLines, DeliverOwnLines DEF Next
<1> QED
  BY <1>4, InitLogInv, Invariance, PTL DEF Spec

(* Localized causal order of the output files (README.md:193): what a        *)
(* process has delivered, from those that affect it, before a broadcast,     *)
(* every process delivers before that message.                               *)
THEOREM LocalizedCausalOrder == Spec => []CausalOrder
<1>1. LogInv => CausalOrder
  BY DEF LogInv, Ordered, CausalOrder, CausallyOrdered, Payload
<1> QED
  BY <1>1, LogInvariance, PTL

-----------------------------------------------------------------------------
(* The lines of a log: the broadcasts and the messages of a process come in  *)
(* the order of their numbers, all the earlier broadcasts are there, and an  *)
(* own message is delivered on the line after its broadcast, which only      *)
(* mtx makes true.                                                           *)

SameKind(e, f) ==
  \/ e.type = "b" /\ f.type = "b"
  \/ e.type = "d" /\ f.type = "d" /\ e.peerID = f.peerID

Increasing(l) ==
  \A i, j \in DOMAIN l :
    i < j /\ SameKind(l[i], l[j]) => l[i].payload < l[j].payload

OwnFollows ==
  \A p \in Process : \A i \in DOMAIN log[p] :
    log[p][i].type = "d" /\ log[p][i].peerID = p =>
      i - 1 \in DOMAIN log[p] /\ log[p][i - 1] = BroadcastEvent(log[p][i].payload)

LastIsNext ==
  \A p \in Process :
    Locked(p) => log[p][Len(log[p])] = BroadcastEvent(next[p])

AllBroadcast ==
  \A p \in Process : \A n \in 1 .. next[p] - 1 : In(log[p], BroadcastEvent(n))

Bounded ==
  \A p \in Process : /\ next[p] <= maxPackets[p] + 1
                     /\ Locked(p) => next[p] <= maxPackets[p]

LineInv ==
  /\ \A p \in Process : Increasing(log[p])
  /\ OwnFollows
  /\ LastIsNext
  /\ AllBroadcast
  /\ Bounded

(* A line is what its fields say. *)
LEMMA EventShape ==
  ASSUME NEW e \in Event
  PROVE  /\ e.type \in {"b", "d"} /\ e.payload \in Payload
         /\ e.type = "b" => e = BroadcastEvent(e.payload)
         /\ e.type = "d" => /\ e.peerID \in Process
                            /\ e = DeliverEvent(e.peerID, e.payload)
<1>1. CASE e \in [type : {"b"}, payload : Nat \ {0}]
  BY <1>1 DEF BroadcastEvent, Payload
<1>2. CASE e \in [type : {"d"}, peerID : Process, payload : Nat \ {0}]
  BY <1>2 DEF DeliverEvent, Payload
<1> QED
  BY <1>1, <1>2 DEF Event

LEMMA ConcatIncreases ==
  ASSUME NEW s \in Seq(Event), NEW t \in Seq(Event),
         Increasing(s), Increasing(t),
         \A i \in 1 .. Len(s), j \in 1 .. Len(t) :
           SameKind(s[i], t[j]) => s[i].payload < t[j].payload
  PROVE  Increasing(s \o t)
<1> DEFINE u == s \o t
           m == Len(s)
           n == Len(t)
<1>1. /\ m \in Nat /\ n \in Nat
      /\ DOMAIN s = 1 .. m /\ DOMAIN t = 1 .. n
      /\ u \in Seq(Event) /\ Len(u) = m + n
      /\ \A i \in 1 .. m + n : u[i] = IF i <= m THEN s[i] ELSE t[i - m]
  BY ConcatProperties, LenProperties
<1>2. DOMAIN u = 1 .. m + n
  BY <1>1, LenProperties
<1>3. \A i \in 1 .. m, j \in 1 .. n :
        SameKind(s[i], t[j]) => s[i].payload < t[j].payload
  OBVIOUS
<1> HIDE DEF u, m, n
<1> SUFFICES ASSUME NEW i \in 1 .. m + n, NEW j \in 1 .. m + n, i < j,
                    SameKind(u[i], u[j])
             PROVE  u[i].payload < u[j].payload
  BY <1>2 DEF Increasing, u
<1>4. CASE j <= m
  <2>1. i \in 1 .. m /\ j \in 1 .. m /\ u[i] = s[i] /\ u[j] = s[j]
    BY <1>1, <1>4
  <2> QED
    BY <1>1, <2>1 DEF Increasing
<1>5. CASE i <= m /\ m < j
  <2>1. i \in 1 .. m /\ j - m \in 1 .. n /\ u[i] = s[i] /\ u[j] = t[j - m]
    BY <1>1, <1>5
  <2> QED
    BY <1>3, <2>1
<1>6. CASE m < i
  <2>1. /\ i - m \in 1 .. n /\ j - m \in 1 .. n /\ i - m < j - m
        /\ u[i] = t[i - m] /\ u[j] = t[j - m]
    BY <1>1, <1>6
  <2> QED
    BY <1>1, <2>1 DEF Increasing
<1> QED
  BY <1>1, <1>4, <1>5, <1>6

(* A log to which t is added, no own delivery without its broadcast. *)
LEMMA LinesGrow ==
  ASSUME IInv, LineInv, NEW p \in Process, NEW t \in Seq(Event),
         log'[p] = log[p] \o t, \A o \in Process \ {p} : log'[o] = log[o],
         Increasing(t),
         \A i \in 1 .. Len(log[p]), j \in 1 .. Len(t) :
           SameKind(log[p][i], t[j]) => log[p][i].payload < t[j].payload,
         \A j \in 1 .. Len(t) : t[j].type = "d" /\ t[j].peerID = p =>
           /\ j = 1 /\ Len(log[p]) # 0
           /\ log[p][Len(log[p])] = BroadcastEvent(t[1].payload)
  PROVE  /\ \A o \in Process : Increasing(log'[o])
         /\ OwnFollows'
         /\ \A o \in Process : \A x : In(log[o], x) => In(log'[o], x)
<1>1. log[p] \in Seq(Event)
  BY DEF IInv, TypeOK
<1>2. \A o \in Process : Increasing(log'[o])
  <2>1. Increasing(log[p] \o t)
    BY <1>1, ConcatIncreases DEF LineInv
  <2> QED
    BY <2>1 DEF LineInv
<1>3. OwnFollows'
  <2> SUFFICES ASSUME NEW o \in Process, NEW i \in DOMAIN log'[o],
                      log'[o][i].type = "d", log'[o][i].peerID = o
               PROVE  /\ i - 1 \in DOMAIN log'[o]
                      /\ log'[o][i - 1] = BroadcastEvent(log'[o][i].payload)
    BY DEF OwnFollows
  <2>1. CASE o # p
    BY <2>1 DEF LineInv, OwnFollows
  <2>2. CASE o = p
    <3> DEFINE s == log[p]
               u == log'[p]
               m == Len(s)
               n == Len(t)
    <3>1. /\ m \in Nat /\ n \in Nat
          /\ DOMAIN s = 1 .. m /\ DOMAIN t = 1 .. n
          /\ u \in Seq(Event) /\ Len(u) = m + n
          /\ \A x \in 1 .. m + n : u[x] = IF x <= m THEN s[x] ELSE t[x - m]
      BY <1>1, ConcatProperties, LenProperties
    <3>2. DOMAIN u = 1 .. m + n
      BY <3>1, LenProperties
    <3>3. \A j \in 1 .. n : t[j].type = "d" /\ t[j].peerID = p =>
            j = 1 /\ m # 0 /\ s[m] = BroadcastEvent(t[1].payload)
      OBVIOUS
    <3>4. \A x \in 1 .. m : s[x].type = "d" /\ s[x].peerID = p =>
            x - 1 \in 1 .. m /\ s[x - 1] = BroadcastEvent(s[x].payload)
      BY <3>1 DEF LineInv, OwnFollows
    <3>5. i \in 1 .. m + n /\ u[i].type = "d" /\ u[i].peerID = p
      BY <2>2, <3>2
    <3> HIDE DEF s, u, m, n
    <3>6. CASE i <= m
      <4>1. i \in 1 .. m /\ u[i] = s[i]
        BY <3>1, <3>5, <3>6
      <4>2. i - 1 \in 1 .. m /\ s[i - 1] = BroadcastEvent(u[i].payload)
        BY <3>4, <3>5, <4>1
      <4>3. i - 1 \in 1 .. m + n /\ u[i - 1] = s[i - 1]
        BY <3>1, <4>2
      <4> QED
        BY <2>2, <3>2, <4>2, <4>3 DEF u
    <3>7. CASE ~(i <= m)
      <4>1. i - m \in 1 .. n /\ u[i] = t[i - m]
        BY <3>1, <3>5, <3>7
      <4>2. i - m = 1 /\ m # 0 /\ s[m] = BroadcastEvent(t[1].payload)
        BY <3>3, <3>5, <4>1
      <4>3. i - 1 = m
        BY <3>1, <3>5, <4>2
      <4>4. m \in 1 .. m + n /\ m <= m
        BY <3>1, <4>2
      <4>5. u[m] = s[m]
        BY <3>1, <4>4
      <4> QED
        BY <2>2, <3>2, <4>1, <4>2, <4>3, <4>4, <4>5 DEF u
    <3> QED
      BY <3>6, <3>7
  <2> QED
    BY <2>1, <2>2
<1>4. \A o \in Process : \A x : In(log[o], x) => In(log'[o], x)
  <2>1. \A x : In(log[p], x) => In(log[p] \o t, x)
    BY <1>1, ConcatIn
  <2> QED
    BY <2>1
<1> QED
  BY <1>2, <1>3, <1>4

(* A line e at the end. *)
LEMMA OneLineMore ==
  ASSUME IInv, LineInv, NEW p \in Process, NEW e \in Event,
         log' = [log EXCEPT ![p] = Append(@, e)],
         \A i \in 1 .. Len(log[p]) :
           SameKind(log[p][i], e) => log[p][i].payload < e.payload,
         e.type = "d" /\ e.peerID = p =>
           Len(log[p]) # 0 /\ log[p][Len(log[p])] = BroadcastEvent(e.payload)
  PROVE  /\ \A o \in Process : Increasing(log'[o])
         /\ OwnFollows'
         /\ \A o \in Process : \A x : In(log[o], x) => In(log'[o], x)
         /\ log'[p] # <<>> /\ log'[p][Len(log'[p])] = e
         /\ \A o \in Process \ {p} : log'[o] = log[o]
<1>1. log \in [Process -> Seq(Event)] /\ log[p] \in Seq(Event)
  BY DEF IInv, TypeOK
<1>2. /\ log'[p] = Append(log[p], e)
      /\ \A o \in Process \ {p} : log'[o] = log[o]
  BY <1>1
<1>3. Append(log[p], e) = log[p] \o <<e>>
  BY <1>1, AppendIsConcat
<1>4. /\ <<e>> \in Seq(Event) /\ Len(<<e>>) = 1 /\ DOMAIN <<e>> = {1}
      /\ <<e>>[1] = e
  OBVIOUS
<1>5. Increasing(<<e>>)
  BY <1>4 DEF Increasing
<1>6. \A j \in 1 .. Len(<<e>>) : <<e>>[j] = e /\ j = 1
  BY <1>4
<1>7. log'[p] # <<>> /\ log'[p][Len(log'[p])] = e
  BY <1>1, <1>2
<1>8. /\ \A o \in Process : Increasing(log'[o])
      /\ OwnFollows'
      /\ \A o \in Process : \A x : In(log[o], x) => In(log'[o], x)
  BY <1>2, <1>3, <1>4, <1>5, <1>6, LinesGrow
<1> QED
  BY <1>2, <1>7, <1>8

(* The step of each action. *)
LEMMA InitLineInv == Init => LineInv
<1> SUFFICES ASSUME Init
             PROVE  LineInv
  OBVIOUS
<1>1. \A p \in Process : log[p] = <<>> /\ next[p] = 1 /\ ~Locked(p)
  BY DEF Init, FifoLayer!Init, Locked
<1>2. (\A p \in Process : Increasing(log[p])) /\ OwnFollows
  BY <1>1 DEF Increasing, OwnFollows
<1>3. LastIsNext /\ AllBroadcast
  BY <1>1 DEF LastIsNext, AllBroadcast
<1>4. Bounded
  BY <1>1, MaxPacketsAssumption DEF Bounded
<1> QED
  BY <1>2, <1>3, <1>4 DEF LineInv

(* What a log has, by its numbers. *)
LEMMA LinesAreCounted ==
  ASSUME IInv, LogInv, NEW p \in Process, NEW i \in 1 .. Len(log[p])
  PROVE  /\ log[p][i] \in Event /\ log[p][i].payload \in Payload
         /\ log[p][i].type = "b" =>
              /\ log[p][i].payload <= next[p]
              /\ log[p][i].payload = next[p] => Locked(p)
         /\ log[p][i].type = "d" =>
              /\ log[p][i].peerID \in Process
              /\ log[p][i].payload <= vectorClock[p][log[p][i].peerID]
<1> DEFINE e == log[p][i]
<1>1. log[p] \in Seq(Event)
  BY DEF IInv, TypeOK
<1>2. e \in Event /\ In(log[p], e)
  BY <1>1, LenProperties, ElementOfSeq DEF In
<1> HIDE DEF e
<1>3. /\ e.payload \in Payload
      /\ e.type = "b" => e = BroadcastEvent(e.payload)
      /\ e.type = "d" => /\ e.peerID \in Process
                         /\ e = DeliverEvent(e.peerID, e.payload)
  BY <1>2, EventShape
<1>4. e.type = "b" => /\ e.payload <= next[p]
                      /\ e.payload = next[p] => Locked(p)
  BY <1>2, <1>3 DEF LogInv, LogHasBroadcasts
<1>5. e.type = "d" => e.payload <= vectorClock[p][e.peerID]
  BY <1>2, <1>3 DEF LogInv, LogHasCounted
<1> QED
  BY <1>2, <1>3, <1>4, <1>5 DEF e

LEMMA LogBroadcastLine ==
  ASSUME IInv, LogInv, LineInv, NEW p \in Process, LogBroadcast(p)
  PROVE  LineInv'
<1> DEFINE e == BroadcastEvent(next[p])
<1>1. /\ UNCHANGED next /\ ~Locked(p) /\ next[p] <= maxPackets[p]
      /\ log' = [log EXCEPT ![p] = Append(@, e)]
  BY DEF LogBroadcast
<1>2. next[p] \in Payload /\ e \in Event /\ e.type = "b" /\ e.payload = next[p]
  BY EventFacts, SMTT(25) DEF IInv, TypeOK, Payload, BroadcastEvent
<1> HIDE DEF e
<1>3. \A i \in 1 .. Len(log[p]) :
        SameKind(log[p][i], e) => log[p][i].payload < e.payload
  <2> SUFFICES ASSUME NEW i \in 1 .. Len(log[p]), SameKind(log[p][i], e)
               PROVE  log[p][i].payload < e.payload
    OBVIOUS
  <2>1. log[p][i].type = "b"
    BY <1>2 DEF SameKind
  <2>2. /\ log[p][i].payload <= next[p] /\ log[p][i].payload # next[p]
        /\ log[p][i].payload \in Payload
    BY <1>1, <2>1, LinesAreCounted
  <2> QED
    BY <1>2, <2>2 DEF Payload
<1>4. /\ \A o \in Process : Increasing(log'[o])
      /\ OwnFollows'
      /\ \A o \in Process : \A x : In(log[o], x) => In(log'[o], x)
      /\ log'[p][Len(log'[p])] = e
      /\ \A o \in Process \ {p} : log'[o] = log[o]
  BY <1>1, <1>2, <1>3, OneLineMore
<1>5. \A o \in Process \ {p} : Locked(o)' = Locked(o)
  BY <1>4 DEF Locked
<1>6. LastIsNext'
  BY <1>1, <1>4, <1>5 DEF LineInv, LastIsNext, e
<1>7. AllBroadcast'
  BY <1>1, <1>4 DEF LineInv, AllBroadcast
<1>8. Bounded'
  BY <1>1, <1>5 DEF LineInv, Bounded
<1> QED
  BY <1>4, <1>6, <1>7, <1>8 DEF LineInv

LEMMA DeliverOwnLine ==
  ASSUME IInv, LogInv, LineInv, NEW p \in Process, DeliverOwn(p)
  PROVE  LineInv'
<1> DEFINE e == DeliverEvent(p, next[p])
<1>1. /\ next' = [next EXCEPT ![p] = @ + 1] /\ Locked(p)
      /\ log' = [log EXCEPT ![p] = Append(@, e)]
  BY DEF DeliverOwn
<1>2. /\ next \in [Process -> Payload] /\ next[p] \in Nat /\ next[p] \in Payload
      /\ e \in Event /\ e.type = "d" /\ e.peerID = p /\ e.payload = next[p]
  BY EventFacts DEF IInv, TypeOK, Payload, DeliverEvent
<1> HIDE DEF e
<1>3. \A i \in 1 .. Len(log[p]) :
        SameKind(log[p][i], e) => log[p][i].payload < e.payload
  <2> SUFFICES ASSUME NEW i \in 1 .. Len(log[p]), SameKind(log[p][i], e)
               PROVE  log[p][i].payload < e.payload
    OBVIOUS
  <2>1. log[p][i].type = "d" /\ log[p][i].peerID = p
    BY <1>2 DEF SameKind
  <2>2. log[p][i].payload <= vectorClock[p][p] /\ log[p][i].payload \in Nat
    BY <2>1, LinesAreCounted DEF Payload
  <2>3. vectorClock[p][p] = next[p] - 1
    BY DEF IInv, Numbered
  <2> QED
    BY <1>2, <2>2, <2>3
<1>4. /\ log[p] \in Seq(Event) /\ Len(log[p]) # 0
      /\ log[p][Len(log[p])] = BroadcastEvent(e.payload)
  BY <1>1, <1>2 DEF IInv, TypeOK, Locked, LineInv, LastIsNext
<1>5. /\ \A o \in Process : Increasing(log'[o])
      /\ OwnFollows'
      /\ \A o \in Process : \A x : In(log[o], x) => In(log'[o], x)
      /\ log'[p][Len(log'[p])] = e
      /\ \A o \in Process \ {p} : log'[o] = log[o]
  BY <1>1, <1>2, <1>3, <1>4, OneLineMore
<1>6. /\ ~Locked(p)'
      /\ \A o \in Process \ {p} : Locked(o)' = Locked(o)
      /\ \A o \in Process \ {p} : next'[o] = next[o]
      /\ next'[p] = next[p] + 1
  BY <1>1, <1>2, <1>5 DEF Locked
<1>7. LastIsNext'
  BY <1>5, <1>6 DEF LineInv, LastIsNext
<1>8. AllBroadcast'
  <2> SUFFICES ASSUME NEW o \in Process, NEW n \in 1 .. next'[o] - 1
               PROVE  In(log'[o], BroadcastEvent(n))
    BY DEF AllBroadcast
  <2>1. CASE o = p /\ n = next[p]
    <3>1. In(log[p], BroadcastEvent(n))
      BY <1>2, <1>4, <2>1, LenProperties DEF In
    <3> QED
      BY <1>5, <2>1, <3>1
  <2>2. CASE n \in 1 .. next[o] - 1
    BY <1>5, <2>2 DEF LineInv, AllBroadcast
  <2>3. o = p => n \in 1 .. next[p] - 1 \/ n = next[p]
    BY <1>2, <1>6
  <2> QED
    BY <1>6, <2>1, <2>2, <2>3
<1>9. Bounded'
  <2> SUFFICES ASSUME NEW o \in Process
               PROVE  /\ next'[o] <= maxPackets[o] + 1
                      /\ Locked(o)' => next'[o] <= maxPackets[o]
    BY DEF Bounded
  <2>1. CASE o # p
    BY <1>6, <2>1 DEF LineInv, Bounded
  <2>2. CASE o = p
    <3>1. next[p] <= maxPackets[p] /\ maxPackets[p] \in Nat
      BY <1>1, MaxPacketsAssumption DEF LineInv, Bounded
    <3> QED
      BY <1>2, <1>6, <2>2, <3>1
  <2> QED
    BY <2>1, <2>2
<1> QED
  BY <1>5, <1>7, <1>8, <1>9 DEF LineInv

LEMMA DeliverAllLine ==
  ASSUME IInv, LogInv, LineInv, NEW p \in Process, NEW q \in Process \ {p},
         FifoDeliver(p, q), canDeliver(p, fifoSent[q][fifoNext[p][q]]),
         DeliverAll(p, fifoSent[q][fifoNext[p][q]])
  PROVE  LineInv'
<1> DEFINE c == vectorClock[p][q]
<1>1. c \in Nat /\ UNCHANGED next /\ ~Locked(p) /\ log[p] \in Seq(Event)
  BY DeliverAllAppends DEF FifoDeliver, FifoLayer!Deliver, IInv, TypeOK
<1>2. PICK t \in Seq(Event) :
        /\ log'[p] = log[p] \o t
        /\ \A i \in 1 .. Len(t) : t[i] = DeliverEvent(q, c + i)
  <2>1. PICK t \in Seq(Event) :
          /\ log'[p] = log[p] \o t
          /\ Len(t) = fifoNext[p][q] - vectorClock[p][q]
          /\ \A i \in 1 .. Len(t) :
               t[i] = DeliverEvent(q, vectorClock[p][q] + i)
    BY DeliverAllAppends
  <2>2. \A i \in 1 .. Len(t) : t[i] = DeliverEvent(q, c + i)
    BY <2>1
  <2> HIDE DEF c
  <2> QED
    BY <2>1, <2>2
<1>3. \A o \in Process \ {p} : log'[o] = log[o]
  BY DeliverAllAppends
<1> HIDE DEF c
<1>4. \A j \in 1 .. Len(t) : /\ t[j].type = "d" /\ t[j].peerID = q
                             /\ t[j].payload = c + j
  <2>1. ASSUME NEW n
        PROVE  /\ DeliverEvent(q, n).type = "d"
               /\ DeliverEvent(q, n).peerID = q
               /\ DeliverEvent(q, n).payload = n
    BY DEF DeliverEvent
  <2> QED
    BY <1>2, <2>1
<1>5. Increasing(t)
  <2>1. DOMAIN t = 1 .. Len(t) /\ Len(t) \in Nat
    BY LenProperties
  <2> QED
    BY <1>1, <1>4, <2>1 DEF Increasing
<1>6. \A i \in 1 .. Len(log[p]), j \in 1 .. Len(t) :
        SameKind(log[p][i], t[j]) => log[p][i].payload < t[j].payload
  <2> SUFFICES ASSUME NEW i \in 1 .. Len(log[p]), NEW j \in 1 .. Len(t),
                      SameKind(log[p][i], t[j])
               PROVE  log[p][i].payload < t[j].payload
    OBVIOUS
  <2>1. log[p][i].type = "d" /\ log[p][i].peerID = q
    BY <1>4 DEF SameKind
  <2>2. log[p][i].payload <= c /\ log[p][i].payload \in Nat
    BY <2>1, LinesAreCounted DEF Payload, c
  <2>3. t[j].payload = c + j /\ j \in Nat \ {0}
    BY <1>4, LenProperties
  <2> QED
    BY <1>1, <2>2, <2>3
<1>7. /\ \A o \in Process : Increasing(log'[o])
      /\ OwnFollows'
      /\ \A o \in Process : \A x : In(log[o], x) => In(log'[o], x)
  <2>1. \A j \in 1 .. Len(t) : ~(t[j].peerID = p)
    BY <1>4
  <2> QED
    BY <1>2, <1>3, <1>5, <1>6, <2>1, LinesGrow
<1>8. ~Locked(p)' /\ \A o \in Process \ {p} : Locked(o)' = Locked(o)
  <2>1. log'[p] = <<>> \/ log'[p][Len(log'[p])].type # "b"
    <3>1. /\ Len(log[p]) \in Nat /\ Len(t) \in Nat
          /\ log'[p] \in Seq(Event) /\ Len(log'[p]) = Len(log[p]) + Len(t)
          /\ \A i \in 1 .. Len(log[p]) + Len(t) :
               log'[p][i] = IF i <= Len(log[p]) THEN log[p][i]
                                                ELSE t[i - Len(log[p])]
      BY <1>1, <1>2, ConcatProperties, LenProperties
    <3>2. CASE Len(t) = 0
      <4>1. log'[p] = log[p]
        BY <1>1, <1>2, <3>2, EmptySeq, ConcatEmptySeq
      <4> QED
        BY <1>1, <4>1 DEF Locked
    <3>3. CASE Len(t) # 0
      <4> DEFINE m == Len(log[p])
                 n == Len(t)
      <4>1. m + n \in 1 .. m + n /\ ~(m + n <= m) /\ (m + n) - m = n /\ n \in 1 .. n
        BY <3>1, <3>3
      <4>2. log'[p][m + n] = t[n]
        BY <3>1, <4>1
      <4> QED
        BY <1>4, <3>1, <4>1, <4>2
    <3> QED
      BY <3>2, <3>3
  <2> QED
    BY <1>3, <2>1 DEF Locked
<1>9. LastIsNext' /\ AllBroadcast' /\ Bounded'
  BY <1>1, <1>3, <1>7, <1>8
     DEF LineInv, LastIsNext, AllBroadcast, Bounded
<1> QED
  BY <1>7, <1>9 DEF LineInv

LEMMA LineInvariance == Spec => []LineInv
<1>1. ASSUME LineInv, UNCHANGED <<next, log>>
      PROVE  LineInv'
  <2>1. \A p \in Process : Locked(p)' = Locked(p)
    BY <1>1 DEF Locked
  <2>2. (\A p \in Process : Increasing(log'[p])) /\ OwnFollows'
    BY <1>1 DEF LineInv, OwnFollows
  <2>3. LastIsNext' /\ AllBroadcast' /\ Bounded'
    BY <1>1, <2>1 DEF LineInv, LastIsNext, AllBroadcast, Bounded
  <2> QED
    BY <2>2, <2>3 DEF LineInv
<1>2. ASSUME IInv, LogInv, LineInv, NEW p \in Process, NEW q \in Process,
             FifoDeliver(p, q)
      PROVE  LineInv'
  <2> DEFINE pkt == fifoSent[q][fifoNext[p][q]]
  <2>1. pkt.peerID = q
    BY <1>2, NextPacket
  <2>2. CASE q # p /\ canDeliver(p, pkt) /\ DeliverAll(p, pkt)
    BY <1>2, <2>2, DeliverAllLine
  <2>3. CASE UNCHANGED log
    BY <1>1, <1>2, <2>3 DEF FifoDeliver, FifoLayer!Deliver
  <2> QED
    BY <1>2, <2>1, <2>2, <2>3 DEF FifoDeliver, FifoLayer!Deliver, deliver, Keep
<1>3. ASSUME IInv, LogInv, LineInv, [Next]_vars
      PROVE  LineInv'
  <2>1. UNCHANGED vars => UNCHANGED <<next, log>>
    BY DEF vars
  <2>2. \A p \in Process : FifoBroadcast(p) => UNCHANGED <<next, log>>
    BY DEF FifoBroadcast, FifoLayer!Broadcast
  <2> QED
    BY <1>1, <1>2, <1>3, <2>1, <2>2, LogBroadcastLine, DeliverOwnLine DEF Next
<1> QED
  BY <1>3, InitLineInv, LogInvariance, Invariance, PTL DEF Spec

(* The lines of each process in a log are numbered 1, 2, 3, ...               *)
LEMMA LinesCountUp ==
  ASSUME IInv, LogInv, LineInv, NEW p \in Process, NEW q \in Process
  PROVE  CountUp(log[p], DeliveriesOf(log[p], q), vectorClock[p][q])
<1> DEFINE D == DeliveriesOf(log[p], q)
           c == vectorClock[p][q]
<1>1. log[p] \in Seq(Event) /\ DOMAIN log[p] = 1 .. Len(log[p]) /\ c \in Nat
  BY LenProperties DEF IInv, TypeOK
<1>2. \A i, j \in D : i < j => log[p][i].payload < log[p][j].payload
  BY DEF LineInv, Increasing, DeliveriesOf, SameKind
<1>3. \A i \in D : log[p][i].payload \in 1 .. c
  <2> TAKE i \in D
  <2>1. i \in 1 .. Len(log[p]) /\ log[p][i].type = "d" /\ log[p][i].peerID = q
    BY <1>1 DEF DeliveriesOf
  <2>2. log[p][i].payload <= c /\ log[p][i].payload \in Nat \ {0}
    BY <2>1, LinesAreCounted DEF Payload
  <2> QED
    BY <1>1, <2>2
<1>4. \A n \in 1 .. c : \E i \in D : log[p][i].payload = n
  <2> TAKE n \in 1 .. c
  <2>1. n \in Payload /\ n <= c
    BY <1>1 DEF Payload
  <2>2. In(log[p], DeliverEvent(q, n))
    BY <2>1 DEF LogInv, LogHasCounted
  <2>3. PICK i \in DOMAIN log[p] : log[p][i] = DeliverEvent(q, n)
    BY <2>2 DEF In
  <2> QED
    BY <2>3 DEF DeliverEvent, DeliveriesOf
<1> QED
  BY <1>2, <1>3, <1>4 DEF CountUp

(* Every log has the messages of each process in order, without gap or       *)
(* repetition, as many as the clock counts (main.cpp:86, lcb.cpp:50-60), for *)
(* every number of processes and of messages.                                *)
THEOREM ClockCountsLines == Spec => []ClockCountsLog
<1>1. IInv /\ LogInv /\ LineInv => ClockCountsLog
  BY LinesCountUp DEF ClockCountsLog
<1> QED
  BY <1>1, Invariance, LogInvariance, LineInvariance, PTL

-----------------------------------------------------------------------------
(* Induction, on a set of numbers. *)
LEMMA Induction ==
  ASSUME NEW n \in Nat, NEW T, 0 \in T,
         \A k \in 1 .. n : k - 1 \in T => k \in T
  PROVE  \A k \in 0 .. n : k \in T
<1> DEFINE R == OpToRel(<, Nat)
           U == {k \in 0 .. n : k \notin T}
<1>1. SUFFICES ASSUME U # {}
               PROVE  FALSE
  OBVIOUS
<1>2. U \subseteq Nat
  OBVIOUS
<1>3. IsWellFoundedOn(R, Nat)
  BY NatLessThanWellFounded
<1> HIDE DEF R, U
<1>4. PICK k \in U : \A j \in U : ~ (<<j, k>> \in R)
  BY <1>1, <1>2, <1>3, WFMin
<1> USE DEF U
<1>5. k \in 1 .. n /\ k - 1 \in 0 .. n /\ k - 1 < k
  BY <1>4
<1>6. k - 1 \in T
  <2>1. <<k - 1, k>> \in R
    BY <1>2, <1>5, Zenon DEF R, OpToRel
  <2> QED
    BY <1>4, <1>5, <2>1
<1> QED
  BY <1>4, <1>5, <1>6

(* A pass over n lines has a state before and after each of them. *)
IsPass(b, n, step, f) ==
  f[0] = b /\ \A k \in 1 .. n : f[k] = step[k][f[k - 1]]

LEMMA PassExists ==
  ASSUME NEW S, NEW b \in S, NEW n \in Nat, NEW step \in [1 .. n -> [S -> S]]
  PROVE  \E f \in [0 .. n -> S] : IsPass(b, n, step, f)
<1> DEFINE Passes(m, f) ==
             f[0] = b /\ \A k \in 1 .. m : f[k] = step[k][f[k - 1]]
           T == {m \in 0 .. n : \E f \in [0 .. m -> S] : Passes(m, f)}
<1>1. 0 \in T
  <2> DEFINE f == [k \in 0 .. 0 |-> b]
  <2>1. f \in [0 .. 0 -> S] /\ f[0] = b
    OBVIOUS
  <2>2. \A k \in 1 .. 0 : FALSE
    OBVIOUS
  <2> HIDE DEF f
  <2>3. Passes(0, f)
    BY <2>1, <2>2
  <2> QED
    BY <2>1, <2>3
<1>2. ASSUME NEW m \in 1 .. n, m - 1 \in T
      PROVE  m \in T
  <2>1. PICK f \in [0 .. m - 1 -> S] : Passes(m - 1, f)
    BY <1>2
  <2> DEFINE g == [k \in 0 .. m |-> IF k = m THEN step[m][f[m - 1]] ELSE f[k]]
  <2>2. f[m - 1] \in S
    <3>1. m - 1 \in 0 .. m - 1
      OBVIOUS
    <3> QED
      BY <3>1
  <2>3. step[m][f[m - 1]] \in S
    BY <2>2
  <2>4. \A k \in 0 .. m : k = m \/ k \in 0 .. m - 1
    OBVIOUS
  <2>5. g \in [0 .. m -> S]
    BY <2>3, <2>4
  <2>6. \A k \in 0 .. m - 1 : g[k] = f[k]
    OBVIOUS
  <2>7. g[m] = step[m][f[m - 1]]
    OBVIOUS
  <2> HIDE DEF g
  <2>8. g[0] = b
    BY <2>1, <2>6
  <2>9. ASSUME NEW k \in 1 .. m
        PROVE  g[k] = step[k][g[k - 1]]
    <3>1. g[k - 1] = f[k - 1]
      <4>1. k - 1 \in 0 .. m - 1
        OBVIOUS
      <4> QED
        BY <2>6, <4>1
    <3>2. CASE k = m
      BY <2>7, <3>1, <3>2
    <3>3. CASE k # m
      <4>1. k \in 1 .. m - 1 /\ k \in 0 .. m - 1
        BY <3>3
      <4>2. g[k] = f[k]
        BY <2>6, <4>1
      <4>3. f[k] = step[k][f[k - 1]]
        BY <2>1, <4>1
      <4> QED
        BY <3>1, <4>2, <4>3
    <3> QED
      BY <3>2, <3>3
  <2>10. Passes(m, g)
    BY <2>8, <2>9
  <2>11. \E h \in [0 .. m -> S] : Passes(m, h)
    <3> HIDE DEF Passes
    <3> QED
      BY <2>5, <2>10
  <2>12. m \in 0 .. n
    OBVIOUS
  <2> HIDE DEF Passes
  <2> QED
    BY <2>11, <2>12, Zenon
<1> HIDE DEF T
<1>3. n \in T
  <2>1. \A k \in 0 .. n : k \in T
    BY <1>1, <1>2, Induction
  <2> QED
    BY <2>1
<1>4. PICK f \in [0 .. n -> S] : Passes(n, f)
  BY <1>3 DEF T
<1> QED
  BY <1>4 DEF IsPass

-----------------------------------------------------------------------------
(* What the log checks accept, for every log.  The state of checkProcess     *)
(* after a line is what the lines up to it count to.                         *)

Upto(D, k) == {i \in D : i <= k}

LEMMA CountUpOne ==
  ASSUME NEW l, NEW D, NEW x, NEW c \in Nat,
         \A i \in D : i < x /\ l[i].payload \in Payload,
         ~(x < x), \A i \in D : ~(x < i), l[x].payload \in Payload
  PROVE  CountUp(l, D \cup {x}, c) <=>
           c # 0 /\ CountUp(l, D, c - 1) /\ l[x].payload = c
<1>1. ASSUME CountUp(l, D \cup {x}, c)
      PROVE  c # 0 /\ CountUp(l, D, c - 1) /\ l[x].payload = c
  <2>1. {l[i].payload : i \in D \cup {x}} = 1 .. c
    BY <1>1 DEF CountUp
  <2>2. \A i \in D : l[i].payload < l[x].payload /\ l[i].payload \in 1 .. c
    BY <1>1, <2>1 DEF CountUp
  <2>3. l[x].payload \in 1 .. c /\ c \in 1 .. c
    BY <2>1
  <2>4. l[x].payload = c
    <3>1. PICK i \in D \cup {x} : l[i].payload = c
      BY <2>1, <2>3
    <3>2. ~(i \in D)
      BY <2>2, <2>3, <3>1
    <3> QED
      BY <3>1, <3>2
  <2>5. {l[i].payload : i \in D} = 1 .. c - 1
    <3>1. \A i \in D : l[i].payload \in 1 .. c - 1
      BY <2>2, <2>4
    <3>2. ASSUME NEW m \in 1 .. c - 1
          PROVE  \E i \in D : l[i].payload = m
      <4>1. m \in 1 .. c /\ m # c
        OBVIOUS
      <4>2. PICK i \in D \cup {x} : l[i].payload = m
        BY <2>1, <4>1
      <4> QED
        BY <2>4, <4>1, <4>2
    <3> QED
      BY <3>1, <3>2
  <2> QED
    BY <1>1, <2>3, <2>4, <2>5 DEF CountUp
<1>2. ASSUME c # 0, CountUp(l, D, c - 1), l[x].payload = c
      PROVE  CountUp(l, D \cup {x}, c)
  <2>1. {l[i].payload : i \in D} = 1 .. c - 1
    BY <1>2 DEF CountUp
  <2>2. \A i \in D : l[i].payload \in 1 .. c - 1
    BY <2>1
  <2>3. (1 .. c - 1) \cup {c} = 1 .. c
    BY <1>2
  <2>4. {l[i].payload : i \in D \cup {x}} = 1 .. c
    BY <1>2, <2>1, <2>3
  <2>5. \A i \in D : l[i].payload < c
    BY <2>2
  <2>6. \A i, j \in D \cup {x} : i < j => l[i].payload < l[j].payload
    BY <1>2, <2>5 DEF CountUp
  <2> QED
    BY <2>4, <2>6 DEF CountUp
<1> QED
  BY <1>1, <1>2

LEMMA CountUpUnique ==
  ASSUME NEW l, NEW D, NEW c \in Nat, NEW d \in Nat,
         CountUp(l, D, c), CountUp(l, D, d)
  PROVE  c = d
<1>1. 1 .. c = 1 .. d
  BY DEF CountUp
<1> QED
  BY <1>1

(* Line k is, or is not, the next of the lines D. *)
LEMMA CountUpNext ==
  ASSUME NEW l \in Seq(Event), NEW D \in SUBSET (1 .. Len(l)), NEW k \in D
  PROVE  /\ \A n \in Nat : CountUp(l, Upto(D, k - 1), n) =>
              /\ (\E c \in Nat : CountUp(l, Upto(D, k), c)) <=>
                   l[k].payload = n + 1
              /\ l[k].payload = n + 1 => CountUp(l, Upto(D, k), n + 1)
         /\ (\E c \in Nat : CountUp(l, Upto(D, k), c)) =>
              \E c \in Nat : CountUp(l, Upto(D, k - 1), c)
<1> DEFINE U == Upto(D, k - 1)
<1>1. \A i \in 1 .. Len(l) : i \in Nat /\ l[i].payload \in Payload
  BY LenProperties, ElementOfSeq, EventShape
<1>2. /\ \A i \in U : i < k /\ ~(k < i) /\ l[i].payload \in Payload
      /\ ~(k < k) /\ l[k].payload \in Payload
  BY <1>1 DEF Upto
<1>3. Upto(D, k) = U \cup {k}
  <2>1. \A i \in D : i <= k <=> i <= k - 1 \/ i = k
    BY <1>1
  <2>2. k <= k
    BY <1>1
  <2> QED
    BY <2>1, <2>2 DEF Upto
<1> HIDE DEF U
<1>4. ASSUME NEW c \in Nat
      PROVE  CountUp(l, U \cup {k}, c) <=>
               c # 0 /\ CountUp(l, U, c - 1) /\ l[k].payload = c
  BY <1>2, CountUpOne
<1>5. ASSUME NEW n \in Nat, CountUp(l, U, n)
      PROVE  /\ (\E c \in Nat : CountUp(l, U \cup {k}, c)) <=>
                  l[k].payload = n + 1
             /\ l[k].payload = n + 1 => CountUp(l, U \cup {k}, n + 1)
  <2>1. ASSUME NEW c \in Nat, CountUp(l, U \cup {k}, c)
        PROVE  l[k].payload = n + 1
    <3>1. c # 0 /\ CountUp(l, U, c - 1) /\ l[k].payload = c
      BY <1>4, <2>1
    <3>2. c - 1 \in Nat
      BY <3>1
    <3>3. c - 1 = n
      BY <1>5, <3>1, <3>2, CountUpUnique
    <3> QED
      BY <3>1, <3>3
  <2>2. ASSUME l[k].payload = n + 1
        PROVE  CountUp(l, U \cup {k}, n + 1) /\ n + 1 \in Nat
    <3>1. n + 1 \in Nat /\ n + 1 # 0 /\ (n + 1) - 1 = n
      OBVIOUS
    <3> QED
      BY <1>4, <1>5, <2>2, <3>1
  <2> QED
    BY <2>1, <2>2
<1>6. ASSUME NEW c \in Nat, CountUp(l, U \cup {k}, c)
      PROVE  \E d \in Nat : CountUp(l, U, d)
  <2>1. c # 0 /\ CountUp(l, U, c - 1) /\ c - 1 \in Nat
    BY <1>4, <1>6
  <2> QED
    BY <2>1
<1> QED
  BY <1>3, <1>5, <1>6 DEF U

LEMMA UptoSame ==
  ASSUME NEW n \in Nat, NEW D \in SUBSET (1 .. n), NEW k \in 1 .. n, k \notin D
  PROVE  Upto(D, k) = Upto(D, k - 1)
<1>1. \A i \in D : i <= k <=> i <= k - 1
  OBVIOUS
<1> QED
  BY <1>1 DEF Upto

LEMMA UptoAll ==
  ASSUME NEW n \in Nat, NEW D \in SUBSET (1 .. n)
  PROVE  Upto(D, n) = D /\ Upto(D, 0) = {}
<1>1. \A i \in D : i <= n /\ ~(i <= 0)
  OBVIOUS
<1> QED
  BY <1>1 DEF Upto

-----------------------------------------------------------------------------
CheckState ==
  [i : Payload, nextMessage : [Process -> Payload], ok : BOOLEAN]

(* What one line makes of the variables. *)
LEMMA OneLineChecked ==
  ASSUME NEW pid, NEW s \in CheckState, NEW e \in Event,
         NEW t, t = Validator!LCausalLine(pid, s, e)
  PROVE  /\ t \in CheckState
         /\ e.type = "b" =>
              /\ t.ok <=> s.ok /\ e.payload = s.i
              /\ t.ok => t.i = s.i + 1 /\ t.nextMessage = s.nextMessage
         /\ e.type = "d" =>
              /\ t.ok <=> s.ok /\ e.payload = s.nextMessage[e.peerID]
              /\ t.ok /\ e.peerID = pid /\ s.i <= e.payload => t = s
              /\ t.ok /\ ~(e.peerID = pid /\ s.i <= e.payload) =>
                   /\ t.i = s.i
                   /\ t.nextMessage =
                        [s.nextMessage EXCEPT ![e.peerID] = e.payload + 1]
<1> USE DEF Validator!LCausalLine, Validator!FifoLine, Validator!OutOfOrder,
            Validator!BeforeBroadcast, Validator!Advance
<1>1. /\ e.payload \in Payload /\ e.type \in {"b", "d"}
      /\ e.type = "d" => e.peerID \in Process
  BY EventShape
<1>2. /\ s.i \in Payload /\ s.nextMessage \in [Process -> Payload]
      /\ s.ok \in BOOLEAN
  BY DEF CheckState
<1>3. [s EXCEPT !.ok = FALSE] \in CheckState
  BY DEF CheckState
<1>4. CASE e.type = "b"
  <2>1. t = IF s.ok /\ e.payload = s.i THEN [s EXCEPT !.i = @ + 1]
                                       ELSE [s EXCEPT !.ok = FALSE]
    BY <1>4
  <2>2. /\ [s EXCEPT !.i = @ + 1] \in CheckState
        /\ [s EXCEPT !.i = @ + 1].i = s.i + 1
        /\ [s EXCEPT !.i = @ + 1].ok = s.ok
        /\ [s EXCEPT !.i = @ + 1].nextMessage = s.nextMessage
    BY <1>2 DEF CheckState, Payload
  <2>3. [s EXCEPT !.ok = FALSE].ok = FALSE
    BY DEF CheckState
  <2> QED
    BY <1>2, <1>3, <1>4, <2>1, <2>2, <2>3
<1>5. CASE e.type = "d"
  <2> DEFINE a == [s EXCEPT !.nextMessage[e.peerID] = e.payload + 1]
  <2>1. t = IF s.ok /\ e.payload = s.nextMessage[e.peerID]
            THEN IF e.peerID = pid /\ s.i <= e.payload THEN s ELSE a
            ELSE [s EXCEPT !.ok = FALSE]
    BY <1>5
  <2>2. e.payload + 1 \in Payload
    BY <1>1 DEF Payload
  <2>3. /\ a \in CheckState /\ a.i = s.i /\ a.ok = s.ok
        /\ a.nextMessage = [s.nextMessage EXCEPT ![e.peerID] = e.payload + 1]
    BY <1>1, <1>2, <1>5, <2>2 DEF CheckState
  <2>4. [s EXCEPT !.ok = FALSE].ok = FALSE
    BY DEF CheckState
  <2> HIDE DEF a
  <2> QED
    BY <1>2, <1>3, <1>5, <2>1, <2>3, <2>4
<1> QED
  BY <1>1, <1>4, <1>5

(* The lines up to k are in order, but for own messages that are delivered   *)
(* before they are broadcast; each of those is the next one when it comes.   *)
Counted(l, p, q) == DeliveriesOf(l, q) \ Early(p, l)

InOrderUpto(l, p, k) ==
  /\ \E c \in Nat : CountUp(l, Upto(BroadcastsOf(l), k), c)
  /\ \A q \in Process : \E c \in Nat : CountUp(l, Upto(Counted(l, p, q), k), c)
  /\ \A j \in Upto(Early(p, l), k) :
       CountUp(l, Upto(Counted(l, p, p), j - 1), l[j].payload - 1)

Means(l, p, k, s) ==
  /\ s.ok <=> InOrderUpto(l, p, k)
  /\ s.ok => /\ s.i <= k + 1
             /\ CountUp(l, Upto(BroadcastsOf(l), k), s.i - 1)
             /\ \A q \in Process :
                  /\ s.nextMessage[q] <= k + 1
                  /\ CountUp(l, Upto(Counted(l, p, q), k), s.nextMessage[q] - 1)

LEMMA LineSets ==
  ASSUME NEW l \in Seq(Event), NEW p
  PROVE  /\ Len(l) \in Nat /\ DOMAIN l = 1 .. Len(l)
         /\ BroadcastsOf(l) \subseteq 1 .. Len(l)
         /\ Early(p, l) \subseteq 1 .. Len(l)
         /\ \A q : Counted(l, p, q) \subseteq 1 .. Len(l)
         /\ \A k \in 1 .. Len(l) :
              /\ l[k] \in Event /\ l[k].payload \in Payload
              /\ k \in BroadcastsOf(l) <=> l[k].type = "b"
              /\ k \in Early(p, l) =>
                   l[k].type = "d" /\ l[k].peerID = p /\ p \in Process
              /\ \A q : k \in Counted(l, p, q) <=>
                   l[k].type = "d" /\ l[k].peerID = q /\ k \notin Early(p, l)
<1>1. Len(l) \in Nat /\ DOMAIN l = 1 .. Len(l)
  BY LenProperties
<1>2. \A k \in 1 .. Len(l) : /\ l[k] \in Event /\ l[k].payload \in Payload
                             /\ l[k].type = "d" => l[k].peerID \in Process
  BY ElementOfSeq, EventShape
<1> QED
  BY <1>1, <1>2 DEF BroadcastsOf, Early, Counted, DeliveriesOf

(* A message that a line delivers has been broadcast before if and only if   *)
(* its number is below i.                                                    *)
LEMMA EarlyMeans ==
  ASSUME NEW l \in Seq(Event), NEW p, NEW k \in 1 .. Len(l), NEW c \in Nat,
         CountUp(l, Upto(BroadcastsOf(l), k - 1), c),
         l[k].type = "d", l[k].peerID = p
  PROVE  k \in Early(p, l) <=> c < l[k].payload
<1> DEFINE B == Upto(BroadcastsOf(l), k - 1)
           n == l[k].payload
<1>1. n \in Payload /\ k \in DeliveriesOf(l, p)
  BY LineSets DEF DeliveriesOf
<1>2. k \in Early(p, l) <=> \A i \in 1 .. k - 1 : l[i] # BroadcastEvent(n)
  BY <1>1 DEF Early
<1>3. {l[i].payload : i \in B} = 1 .. c
  BY DEF CountUp
<1>4. \A i \in 1 .. k - 1 : i \in 1 .. Len(l) /\ i <= k - 1
  BY LenProperties
<1>5. \A i \in B : i \in 1 .. k - 1 /\ l[i] = BroadcastEvent(l[i].payload)
  <2> TAKE i \in B
  <2>1. i \in BroadcastsOf(l) /\ i <= k - 1 /\ i \in 1 .. Len(l)
    BY LineSets DEF Upto
  <2>2. l[i] \in Event /\ l[i].type = "b"
    BY <2>1, LineSets
  <2>3. i \in 1 .. k - 1
    BY <2>1, LenProperties
  <2> QED
    BY <2>2, <2>3, EventShape
<1>6. \A i \in 1 .. k - 1 : l[i] = BroadcastEvent(n) => i \in B
  <2> TAKE i \in 1 .. k - 1
  <2> HAVE l[i] = BroadcastEvent(n)
  <2>1. l[i].type = "b"
    BY DEF BroadcastEvent
  <2> QED
    BY <1>4, <2>1, LineSets DEF Upto
<1>7. BroadcastEvent(n).payload = n
  BY DEF BroadcastEvent
<1> HIDE DEF B, n
<1>8. (\E i \in 1 .. k - 1 : l[i] = BroadcastEvent(n)) <=> n \in 1 .. c
  <2>1. ASSUME NEW i \in 1 .. k - 1, l[i] = BroadcastEvent(n)
        PROVE  n \in 1 .. c
    BY <1>3, <1>6, <1>7, <2>1
  <2>2. ASSUME n \in 1 .. c
        PROVE  \E i \in 1 .. k - 1 : l[i] = BroadcastEvent(n)
    <3>1. PICK i \in B : l[i].payload = n
      BY <1>3, <2>2
    <3> QED
      BY <1>5, <3>1
  <2> QED
    BY <2>1, <2>2
<1>9. n \in 1 .. c <=> ~(c < n)
  BY <1>1 DEF Payload
<1> QED
  BY <1>2, <1>8, <1>9 DEF n

(* One line. *)
LEMMA MeansStep ==
  ASSUME NEW l \in Seq(Event), NEW p, NEW k \in 1 .. Len(l),
         NEW s \in CheckState, Means(l, p, k - 1, s),
         NEW t, t = Validator!LCausalLine(p, s, l[k])
  PROVE  t \in CheckState /\ Means(l, p, k, t)
<1> DEFINE e == l[k]
           B == BroadcastsOf(l)
           C(q) == Counted(l, p, q)
           E == Early(p, l)
<1>1. /\ Len(l) \in Nat /\ k \in Nat \ {0} /\ e \in Event /\ e.payload \in Payload
      /\ e.type \in {"b", "d"}
      /\ e.type = "d" => e.peerID \in Process
      /\ s.i \in Payload /\ s.nextMessage \in [Process -> Payload]
      /\ s.ok \in BOOLEAN
  BY LineSets, EventShape DEF CheckState
<1>2. /\ B \subseteq 1 .. Len(l) /\ E \subseteq 1 .. Len(l)
      /\ \A q : C(q) \subseteq 1 .. Len(l)
      /\ k \in B <=> e.type = "b"
      /\ k \in E => e.type = "d" /\ e.peerID = p /\ p \in Process
      /\ \A q : k \in C(q) <=> e.type = "d" /\ e.peerID = q /\ k \notin E
  BY LineSets
<1>3. /\ t \in CheckState
      /\ e.type = "b" =>
           /\ t.ok <=> s.ok /\ e.payload = s.i
           /\ t.ok => t.i = s.i + 1 /\ t.nextMessage = s.nextMessage
      /\ e.type = "d" =>
           /\ t.ok <=> s.ok /\ e.payload = s.nextMessage[e.peerID]
           /\ t.ok /\ e.peerID = p /\ s.i <= e.payload => t = s
           /\ t.ok /\ ~(e.peerID = p /\ s.i <= e.payload) =>
                /\ t.i = s.i
                /\ t.nextMessage =
                     [s.nextMessage EXCEPT ![e.peerID] = e.payload + 1]
  <2>1. e \in Event /\ t = Validator!LCausalLine(p, s, e)
    BY <1>1
  <2> HIDE DEF e
  <2> QED
    BY <2>1, OneLineChecked, SMTT(25)
<1>4. /\ s.ok <=> InOrderUpto(l, p, k - 1)
      /\ s.ok => /\ s.i <= k /\ s.i - 1 \in Nat
                 /\ CountUp(l, Upto(B, k - 1), s.i - 1)
                 /\ \A q \in Process :
                      /\ s.nextMessage[q] <= k /\ s.nextMessage[q] - 1 \in Nat
                      /\ CountUp(l, Upto(C(q), k - 1), s.nextMessage[q] - 1)
  <2>1. (k - 1) + 1 = k
    BY <1>1
  <2>2. s.i - 1 \in Nat /\ \A q \in Process : s.nextMessage[q] - 1 \in Nat
    BY <1>1 DEF Payload
  <2> QED
    BY <2>1, <2>2 DEF Means
<1>5. /\ k \notin B => Upto(B, k) = Upto(B, k - 1)
      /\ k \notin E => Upto(E, k) = Upto(E, k - 1)
      /\ \A q : k \notin C(q) => Upto(C(q), k) = Upto(C(q), k - 1)
  BY <1>1, <1>2, UptoSame
<1>6. /\ InOrderUpto(l, p, k - 1) <=>
           /\ \E c \in Nat : CountUp(l, Upto(B, k - 1), c)
           /\ \A q \in Process : \E c \in Nat : CountUp(l, Upto(C(q), k - 1), c)
           /\ \A j \in Upto(E, k - 1) :
                CountUp(l, Upto(C(p), j - 1), l[j].payload - 1)
      /\ InOrderUpto(l, p, k) <=>
           /\ \E c \in Nat : CountUp(l, Upto(B, k), c)
           /\ \A q \in Process : \E c \in Nat : CountUp(l, Upto(C(q), k), c)
           /\ \A j \in Upto(E, k) :
                CountUp(l, Upto(C(p), j - 1), l[j].payload - 1)
  BY DEF InOrderUpto
<1> SUFFICES /\ t.ok <=> InOrderUpto(l, p, k)
             /\ t.ok => /\ t.i <= k + 1
                        /\ CountUp(l, Upto(B, k), t.i - 1)
                        /\ \A q \in Process :
                             /\ t.nextMessage[q] <= k + 1
                             /\ CountUp(l, Upto(C(q), k), t.nextMessage[q] - 1)
  BY <1>3 DEF Means
<1>7. /\ s.i <= k => s.i + 1 <= k + 1 /\ s.i <= k + 1
      /\ (s.i + 1) - 1 = s.i /\ (s.i - 1) + 1 = s.i
      /\ \A q \in Process :
           /\ s.nextMessage[q] <= k => s.nextMessage[q] + 1 <= k + 1
                                       /\ s.nextMessage[q] <= k + 1
           /\ (s.nextMessage[q] + 1) - 1 = s.nextMessage[q]
           /\ (s.nextMessage[q] - 1) + 1 = s.nextMessage[q]
  BY <1>1 DEF Payload
<1> HIDE DEF e, B, C, E
<1>8. CASE e.type = "b"
  <2>1. k \in B /\ k \notin E /\ \A q : k \notin C(q)
    BY <1>2, <1>8
  <2>2. /\ \A n \in Nat : CountUp(l, Upto(B, k - 1), n) =>
             /\ (\E c \in Nat : CountUp(l, Upto(B, k), c)) <=> e.payload = n + 1
             /\ e.payload = n + 1 => CountUp(l, Upto(B, k), n + 1)
        /\ (\E c \in Nat : CountUp(l, Upto(B, k), c)) =>
             \E c \in Nat : CountUp(l, Upto(B, k - 1), c)
    BY <1>2, <2>1, CountUpNext DEF e
  <2>3. InOrderUpto(l, p, k) => s.ok
    BY <1>4, <1>5, <1>6, <2>1, <2>2
  <2>4. s.ok => /\ InOrderUpto(l, p, k) <=> e.payload = s.i
                /\ e.payload = s.i => CountUp(l, Upto(B, k), s.i)
    BY <1>4, <1>5, <1>6, <1>7, <2>1, <2>2
  <2>5. t.ok <=> InOrderUpto(l, p, k)
    BY <1>3, <1>8, <2>3, <2>4
  <2>6. ASSUME t.ok
        PROVE  /\ t.i <= k + 1
               /\ CountUp(l, Upto(B, k), t.i - 1)
               /\ \A q \in Process :
                    /\ t.nextMessage[q] <= k + 1
                    /\ CountUp(l, Upto(C(q), k), t.nextMessage[q] - 1)
    <3>1. s.ok /\ e.payload = s.i /\ t.i = s.i + 1 /\ t.nextMessage = s.nextMessage
      BY <1>3, <1>8, <2>6
    <3> QED
      BY <1>4, <1>5, <1>7, <2>1, <2>4, <3>1
  <2> QED
    BY <2>5, <2>6
<1>9. CASE e.type = "d" /\ k \notin E
  <2> DEFINE q == e.peerID
  <2>1. /\ q \in Process /\ k \in C(q) /\ k \notin B
        /\ \A r : r # q => k \notin C(r)
    BY <1>1, <1>2, <1>9
  <2>2. /\ \A n \in Nat : CountUp(l, Upto(C(q), k - 1), n) =>
             /\ (\E c \in Nat : CountUp(l, Upto(C(q), k), c)) <=>
                  e.payload = n + 1
             /\ e.payload = n + 1 => CountUp(l, Upto(C(q), k), n + 1)
        /\ (\E c \in Nat : CountUp(l, Upto(C(q), k), c)) =>
             \E c \in Nat : CountUp(l, Upto(C(q), k - 1), c)
    BY <1>2, <2>1, CountUpNext DEF e
  <2>3. s.ok => ~(e.peerID = p /\ s.i <= e.payload)
    <3> SUFFICES ASSUME s.ok, e.peerID = p
                 PROVE  ~(s.i <= e.payload)
      OBVIOUS
    <3>1. ~(s.i - 1 < e.payload)
      BY <1>4, <1>9, EarlyMeans DEF e, B, E
    <3> QED
      BY <1>1, <3>1 DEF Payload
  <2> HIDE DEF q
  <2>4. InOrderUpto(l, p, k) => s.ok
    <3>1. ASSUME InOrderUpto(l, p, k), NEW r \in Process
          PROVE  \E c \in Nat : CountUp(l, Upto(C(r), k - 1), c)
      BY <1>5, <1>6, <2>1, <2>2, <3>1
    <3> QED
      BY <1>4, <1>5, <1>6, <1>9, <2>1, <3>1
  <2>5. s.ok => /\ InOrderUpto(l, p, k) <=> e.payload = s.nextMessage[q]
                /\ e.payload = s.nextMessage[q] =>
                     CountUp(l, Upto(C(q), k), s.nextMessage[q])
    <3> HAVE s.ok
    <3>1. /\ (\E c \in Nat : CountUp(l, Upto(C(q), k), c)) <=>
               e.payload = s.nextMessage[q]
          /\ e.payload = s.nextMessage[q] =>
               CountUp(l, Upto(C(q), k), s.nextMessage[q])
      BY <1>4, <1>7, <2>1, <2>2
    <3>2. \A r \in Process \ {q} : \E c \in Nat : CountUp(l, Upto(C(r), k), c)
      BY <1>4, <1>5, <2>1
    <3> QED
      BY <1>4, <1>5, <1>6, <1>9, <2>1, <3>1, <3>2
  <2>6. t.ok <=> InOrderUpto(l, p, k)
    BY <1>3, <1>9, <2>4, <2>5 DEF q
  <2>7. ASSUME t.ok
        PROVE  /\ t.i <= k + 1
               /\ CountUp(l, Upto(B, k), t.i - 1)
               /\ \A r \in Process :
                    /\ t.nextMessage[r] <= k + 1
                    /\ CountUp(l, Upto(C(r), k), t.nextMessage[r] - 1)
    <3>1. /\ s.ok /\ e.payload = s.nextMessage[q] /\ t.i = s.i
          /\ t.nextMessage = [s.nextMessage EXCEPT ![q] = s.nextMessage[q] + 1]
      BY <1>3, <1>9, <2>3, <2>7 DEF q
    <3>2. t.i <= k + 1 /\ CountUp(l, Upto(B, k), t.i - 1)
      BY <1>4, <1>5, <1>7, <2>1, <3>1
    <3>3. /\ t.nextMessage[q] = s.nextMessage[q] + 1
          /\ \A r \in Process \ {q} : t.nextMessage[r] = s.nextMessage[r]
      BY <1>1, <2>1, <3>1
    <3>4. /\ t.nextMessage[q] <= k + 1
          /\ CountUp(l, Upto(C(q), k), t.nextMessage[q] - 1)
      BY <1>4, <1>7, <2>1, <2>5, <3>1, <3>3
    <3>5. \A r \in Process \ {q} :
            /\ t.nextMessage[r] <= k + 1
            /\ CountUp(l, Upto(C(r), k), t.nextMessage[r] - 1)
      BY <1>4, <1>5, <1>7, <2>1, <3>1, <3>3
    <3> QED
      BY <3>2, <3>4, <3>5
  <2> QED
    BY <2>6, <2>7
<1>10. CASE k \in E
  <2>1. /\ e.type = "d" /\ e.peerID = p /\ p \in Process /\ k \notin B
        /\ \A q : k \notin C(q)
    BY <1>2, <1>10
  <2>2. Upto(E, k) = Upto(E, k - 1) \cup {k}
    <3>1. \A i \in E : i <= k <=> i <= k - 1 \/ i = k
      BY <1>1, <1>2
    <3> QED
      BY <1>10, <3>1 DEF Upto
  <2>3. InOrderUpto(l, p, k) <=>
          s.ok /\ CountUp(l, Upto(C(p), k - 1), e.payload - 1)
    BY <1>4, <1>5, <1>6, <2>1, <2>2 DEF e
  <2>4. s.ok => s.i <= e.payload
    <3> HAVE s.ok
    <3>1. s.i - 1 < e.payload
      BY <1>4, <1>10, <2>1, EarlyMeans DEF e, B, E
    <3> QED
      BY <1>1, <3>1 DEF Payload
  <2>5. s.ok => (CountUp(l, Upto(C(p), k - 1), e.payload - 1) <=>
                   e.payload = s.nextMessage[p])
    <3> HAVE s.ok
    <3>1. /\ s.nextMessage[p] - 1 \in Nat /\ s.nextMessage[p] \in Nat
          /\ CountUp(l, Upto(C(p), k - 1), s.nextMessage[p] - 1)
          /\ e.payload - 1 \in Nat /\ e.payload \in Nat
      BY <1>1, <1>4, <2>1 DEF Payload
    <3>2. ASSUME CountUp(l, Upto(C(p), k - 1), e.payload - 1)
          PROVE  e.payload = s.nextMessage[p]
      <4>1. e.payload - 1 = s.nextMessage[p] - 1
        BY <3>1, <3>2, CountUpUnique
      <4> QED
        BY <3>1, <4>1
    <3> QED
      BY <3>1, <3>2
  <2>6. t.ok <=> InOrderUpto(l, p, k)
    BY <1>3, <2>1, <2>3, <2>5
  <2>7. t.ok => t = s
    BY <1>3, <2>1, <2>4
  <2> QED
    BY <1>3, <1>4, <1>5, <1>7, <2>1, <2>6, <2>7
<1> QED
  BY <1>1, <1>8, <1>9, <1>10

LEMMA StartChecked ==
  /\ Validator!start.i = 1 /\ Validator!start.ok = TRUE
  /\ Validator!start.nextMessage = [q \in Process |-> 1]
  /\ Validator!start \in CheckState
<1>1. [q \in Process |-> 1] \in [Process -> Payload] /\ 1 \in Payload
  BY DEF Payload
<1> QED
  BY <1>1 DEF Validator!start, CheckState

(* The variables of checkProcess after each line. *)
LEMMA StateMeans ==
  ASSUME NEW l \in Seq(Event), NEW p, NEW f,
         \A k \in 0 .. Len(l) :
           f[k] = IF k = 0 THEN Validator!start
                  ELSE Validator!LCausalLine(p, f[k - 1], l[k])
  PROVE  f[Len(l)] \in CheckState /\ Means(l, p, Len(l), f[Len(l)])
<1> DEFINE n == Len(l)
           T == {k \in 0 .. n : f[k] \in CheckState /\ Means(l, p, k, f[k])}
<1>1. n \in Nat
  BY LenProperties
<1>2. 0 \in T
  <2>1. /\ Upto(BroadcastsOf(l), 0) = {} /\ Upto(Early(p, l), 0) = {}
        /\ \A q : Upto(Counted(l, p, q), 0) = {}
    BY <1>1, LineSets, UptoAll
  <2>2. CountUp(l, {}, 0)
    BY DEF CountUp
  <2>3. InOrderUpto(l, p, 0)
    BY <2>1, <2>2 DEF InOrderUpto
  <2>4. f[0] = Validator!start
    BY <1>1
  <2>5. /\ Validator!start.i = 1 /\ Validator!start.ok = TRUE
        /\ Validator!start.nextMessage = [q \in Process |-> 1]
        /\ Validator!start \in CheckState
    BY StartChecked
  <2>6. \A q \in Process : f[0].nextMessage[q] = 1
    BY <2>4, <2>5
  <2>7. Means(l, p, 0, f[0])
    <3>1. 1 <= 0 + 1 /\ 1 - 1 = 0
      OBVIOUS
    <3>2. f[0].i = 1 /\ f[0].ok = TRUE
      BY <2>4, <2>5
    <3> QED
      BY <2>1, <2>2, <2>3, <2>6, <3>1, <3>2 DEF Means
  <2> QED
    BY <1>1, <2>4, <2>5, <2>7
<1>3. ASSUME NEW k \in 1 .. n, k - 1 \in T
      PROVE  k \in T
  <2>1. k \in 0 .. n /\ k # 0
    BY <1>1
  <2>2. f[k] = Validator!LCausalLine(p, f[k - 1], l[k])
    BY <2>1
  <2>3. f[k] \in CheckState /\ Means(l, p, k, f[k])
    BY <1>3, <2>2, MeansStep
  <2> QED
    BY <2>1, <2>3
<1> HIDE DEF T
<1>4. \A k \in 0 .. n : k \in T
  BY <1>1, <1>2, <1>3, Induction
<1> QED
  BY <1>1, <1>4 DEF T

(* There are such variables, so that the recursive definition has a value.   *)
LEMMA StateExists ==
  ASSUME NEW l \in Seq(Event), NEW p
  PROVE  \E f \in [0 .. Len(l) -> CheckState] :
           \A k \in 0 .. Len(l) :
             f[k] = IF k = 0 THEN Validator!start
                    ELSE Validator!LCausalLine(p, f[k - 1], l[k])
<1> DEFINE n == Len(l)
           step == [k \in 1 .. n |->
                      [s \in CheckState |-> Validator!LCausalLine(p, s, l[k])]]
<1>1. n \in Nat /\ \A k \in 1 .. n : l[k] \in Event
  BY LineSets
<1>2. step \in [1 .. n -> [CheckState -> CheckState]]
  BY <1>1, OneLineChecked
<1>3. Validator!start \in CheckState
  BY StartChecked
<1>4. \A k \in 1 .. n, s \in CheckState :
        step[k][s] = Validator!LCausalLine(p, s, l[k])
  OBVIOUS
<1> HIDE DEF step, n
<1>5. PICK f \in [0 .. n -> CheckState] : IsPass(Validator!start, n, step, f)
  BY <1>1, <1>2, <1>3, PassExists, Zenon
<1>6. \A k \in 0 .. n : k # 0 => k \in 1 .. n /\ f[k - 1] \in CheckState
  <2> TAKE k \in 0 .. n
  <2> HAVE k # 0
  <2>1. k \in 1 .. n /\ k - 1 \in 0 .. n
    BY <1>1
  <2> QED
    BY <2>1
<1>7. \A k \in 0 .. n : f[k] = IF k = 0 THEN Validator!start
                               ELSE Validator!LCausalLine(p, f[k - 1], l[k])
  BY <1>4, <1>5, <1>6 DEF IsPass
<1> QED
  BY <1>7 DEF n

(* A pass over all lines ends with ok if and only if they are in order. *)
LEMMA PassMeans ==
  ASSUME NEW l \in Seq(Event), NEW p, NEW f,
         \A k \in 0 .. Len(l) :
           f[k] = IF k = 0 THEN Validator!start
                  ELSE Validator!LCausalLine(p, f[k - 1], l[k])
  PROVE  f[Len(l)].ok <=>
           /\ InOrder(l, Early(p, l))
           /\ \A k \in Early(p, l) :
                CountUp(l, {i \in Counted(l, p, p) : i < k}, l[k].payload - 1)
<1> DEFINE n == Len(l)
           s == f[n]
           B == BroadcastsOf(l)
           C(q) == Counted(l, p, q)
           E == Early(p, l)
<1>1. /\ n \in Nat /\ B \subseteq 1 .. n /\ E \subseteq 1 .. n
      /\ \A q : C(q) \subseteq 1 .. n
  BY LineSets
<1>2. s \in CheckState /\ Means(l, p, n, s)
  BY StateMeans
<1>3. /\ Upto(B, n) = B /\ Upto(E, n) = E
      /\ \A q : Upto(C(q), n) = C(q)
  BY <1>1, UptoAll
<1>4. \A k \in E : Upto(C(p), k - 1) = {i \in C(p) : i < k}
  <2> TAKE k \in E
  <2>1. \A i \in C(p) : i <= k - 1 <=> i < k
    BY <1>1
  <2> QED
    BY <2>1 DEF Upto
<1>5. s.ok <=> /\ \E c \in Nat : CountUp(l, B, c)
               /\ \A q \in Process : \E c \in Nat : CountUp(l, C(q), c)
               /\ \A k \in E :
                    CountUp(l, {i \in C(p) : i < k}, l[k].payload - 1)
  <2>1. s.ok <=> /\ \E c \in Nat : CountUp(l, Upto(B, n), c)
                 /\ \A q \in Process : \E c \in Nat : CountUp(l, Upto(C(q), n), c)
                 /\ \A k \in Upto(E, n) :
                      CountUp(l, Upto(C(p), k - 1), l[k].payload - 1)
    BY <1>2 DEF Means, InOrderUpto
  <2> HIDE DEF B, C, E, s
  <2> QED
    BY <1>3, <1>4, <2>1
<1>6. ASSUME s.ok
      PROVE  /\ \E c \in 0 .. n : CountUp(l, B, c)
             /\ \A q \in Process : \E c \in 0 .. n : CountUp(l, C(q), c)
  <2>1. /\ s.i <= n + 1 /\ CountUp(l, B, s.i - 1)
        /\ \A q \in Process : /\ s.nextMessage[q] <= n + 1
                              /\ CountUp(l, C(q), s.nextMessage[q] - 1)
    <3>1. /\ s.i <= n + 1 /\ CountUp(l, Upto(B, n), s.i - 1)
          /\ \A q \in Process : /\ s.nextMessage[q] <= n + 1
                                /\ CountUp(l, Upto(C(q), n), s.nextMessage[q] - 1)
      BY <1>2, <1>6 DEF Means
    <3> HIDE DEF B, C, E, s
    <3> QED
      BY <1>3, <3>1
  <2>2. s.i \in Nat \ {0} /\ \A q \in Process : s.nextMessage[q] \in Nat \ {0}
    BY <1>2 DEF CheckState, Payload
  <2> HIDE DEF B, C, E, s, n
  <2>3. s.i - 1 \in 0 .. n
    BY <1>1, <2>1, <2>2
  <2>4. \A q \in Process : s.nextMessage[q] - 1 \in 0 .. n
    BY <1>1, <2>1, <2>2
  <2> QED
    BY <2>1, <2>3, <2>4
<1>7. InOrder(l, E) <=> /\ \E c \in 0 .. n : CountUp(l, B, c)
                        /\ \A q \in Process : \E c \in 0 .. n : CountUp(l, C(q), c)
  BY DEF InOrder, Counted
<1>8. 0 .. n \subseteq Nat
  BY <1>1
<1> HIDE DEF B, C, E, s, n
<1>9. s.ok <=> /\ InOrder(l, E)
               /\ \A k \in E :
                    CountUp(l, {i \in C(p) : i < k}, l[k].payload - 1)
  BY <1>5, <1>6, <1>7, <1>8
<1> QED
  BY <1>9 DEF B, C, E, s, n

LEMMA CheckProcessMeans ==
  ASSUME NEW l \in Seq(Event), NEW p
  PROVE  Validator!checkProcess(p, l) <=>
           /\ InOrder(l, Early(p, l))
           /\ \A k \in Early(p, l) :
                CountUp(l, {i \in Counted(l, p, p) : i < k}, l[k].payload - 1)
<1> DEFINE n == Len(l)
           G(f) == [k \in 0 .. n |->
                      IF k = 0 THEN Validator!start
                      ELSE Validator!LCausalLine(p, f[k - 1], l[k])]
           g == CHOOSE f : f = G(f)
<1>1. PICK f \in [0 .. n -> CheckState] :
        \A k \in 0 .. n : f[k] = IF k = 0 THEN Validator!start
                                 ELSE Validator!LCausalLine(p, f[k - 1], l[k])
  BY StateExists
<1>2. f = G(f)
  BY <1>1
<1>3. Validator!checkProcess(p, l) <=> g[n].ok
  BY DEF Validator!checkProcess
<1> HIDE DEF G
<1>4. g = G(g)
  BY <1>2
<1> HIDE DEF g
<1>5. \A k \in 0 .. n : g[k] = IF k = 0 THEN Validator!start
                               ELSE Validator!LCausalLine(p, g[k - 1], l[k])
  BY <1>4 DEF G
<1> QED
  BY <1>3, <1>5, PassMeans

(* No process has the identifier that the lines of fifoCheckProcess are      *)
(* compared with.                                                            *)
LEMMA FifoCheckProcessMeans ==
  ASSUME NEW l \in Seq(Event)
  PROVE  Validator!fifoCheckProcess(l) <=> InOrder(l, {})
<1>1. PICK p : p \notin Process
  BY NoSetContainsEverything
<1>2. Early(p, l) = {}
  BY <1>1, LineSets
<1> DEFINE n == Len(l)
           G(f) == [k \in 0 .. n |-> IF k = 0 THEN Validator!start
                                     ELSE Validator!FifoLine(f[k - 1], l[k])]
           g == CHOOSE f : f = G(f)
<1>3. \A k \in 1 .. n : \A s :
        Validator!LCausalLine(p, s, l[k]) = Validator!FifoLine(s, l[k])
  <2> TAKE k \in 1 .. n
  <2> TAKE s
  <2>1. ~(l[k].type = "d" /\ l[k].peerID = p)
    BY <1>1, LineSets, EventShape
  <2> QED
    BY <2>1 DEF Validator!LCausalLine, Validator!BeforeBroadcast
<1>4. \A k \in 0 .. n : k # 0 => k \in 1 .. n
  BY LenProperties
<1>5. PICK f \in [0 .. n -> CheckState] :
        \A k \in 0 .. n : f[k] = IF k = 0 THEN Validator!start
                                 ELSE Validator!LCausalLine(p, f[k - 1], l[k])
  BY StateExists
<1>6. f = G(f)
  BY <1>3, <1>4, <1>5
<1>7. Validator!fifoCheckProcess(l) <=> g[n].ok
  BY DEF Validator!fifoCheckProcess
<1> HIDE DEF G
<1>8. g = G(g)
  BY <1>6
<1> HIDE DEF g
<1>9. \A k \in 0 .. n : g[k] = IF k = 0 THEN Validator!start
                               ELSE Validator!LCausalLine(p, g[k - 1], l[k])
  BY <1>3, <1>4, <1>8 DEF G
<1>10. g[n].ok <=> InOrder(l, Early(p, l))
  BY <1>2, <1>9, PassMeans
<1> QED
  BY <1>2, <1>7, <1>10

-----------------------------------------------------------------------------
(* Vector clocks of a log, for lines that count up. *)
LEMMA CountUpPrefix ==
  ASSUME NEW l \in Seq(Event), NEW D \in SUBSET (1 .. Len(l)),
         NEW c \in Nat, CountUp(l, D, c), NEW m \in 0 .. Len(l)
  PROVE  \E d \in Nat : CountUp(l, Upto(D, m), d)
<1> DEFINE n == Len(l)
           T == {j \in 0 .. n : \E d \in Nat : CountUp(l, Upto(D, n - j), d)}
<1>1. n \in Nat
  BY LenProperties
<1>2. 0 \in T
  <2>1. n - 0 = n /\ Upto(D, n) = D
    BY <1>1, UptoAll
  <2> QED
    BY <1>1, <2>1
<1>3. ASSUME NEW j \in 1 .. n, j - 1 \in T
      PROVE  j \in T
  <2> DEFINE k == n - (j - 1)
  <2>1. k \in 1 .. n /\ k - 1 = n - j /\ j \in 0 .. n
    BY <1>1
  <2>2. \E d \in Nat : CountUp(l, Upto(D, k), d)
    BY <1>3
  <2> HIDE DEF k
  <2>3. \E d \in Nat : CountUp(l, Upto(D, k - 1), d)
    <3>1. CASE k \in D
      BY <2>2, <3>1, CountUpNext
    <3>2. CASE k \notin D
      BY <1>1, <2>1, <2>2, <3>2, UptoSame
    <3> QED
      BY <3>1, <3>2
  <2> QED
    BY <2>1, <2>3
<1> HIDE DEF T
<1>4. \A j \in 0 .. n : j \in T
  BY <1>1, <1>2, <1>3, Induction
<1>5. n - m \in 0 .. n /\ n - (n - m) = m
  BY <1>1
<1>6. n - m \in T
  BY <1>4, <1>5
<1> QED
  BY <1>5, <1>6 DEF T

LEMMA CountUpCardinality ==
  ASSUME NEW l \in Seq(Event), NEW D \in SUBSET (1 .. Len(l)),
         NEW c \in Nat, CountUp(l, D, c)
  PROVE  Cardinality(D) = c /\ c <= Len(l)
<1> DEFINE n == Len(l)
           f == [i \in D |-> l[i].payload]
<1>1. n \in Nat /\ D \subseteq Nat
  BY LenProperties
<1>2. /\ IsFiniteSet(1 .. n) /\ Cardinality(1 .. n) = n
      /\ Cardinality(1 .. c) = c
  <2>1. ASSUME NEW m \in Nat
        PROVE  IsFiniteSet(1 .. m) /\ Cardinality(1 .. m) = m
    <3>1. IsFiniteSet(1 .. m) /\ Cardinality(1 .. m) = IF 1 > m THEN 0 ELSE m - 1 + 1
      BY FS_Interval
    <3>2. (IF 1 > m THEN 0 ELSE m - 1 + 1) = m
      OBVIOUS
    <3> QED
      BY <3>1, <3>2
  <2> QED
    BY <1>1, <2>1
<1>3. IsFiniteSet(D) /\ Cardinality(D) <= n
  BY <1>2, FS_Subset
<1>4. {l[i].payload : i \in D} = 1 .. c
  BY DEF CountUp
<1>5. f \in [D -> 1 .. c] /\ \A k \in 1 .. c : \E i \in D : f[i] = k
  BY <1>4
<1>6. \A i, j \in D : i < j => f[i] < f[j]
  BY DEF CountUp
<1> HIDE DEF f
<1>7. \A i, j \in D : f[i] = f[j] => i = j
  <2> TAKE i, j \in D
  <2> HAVE f[i] = f[j]
  <2>1. i \in Nat /\ j \in Nat /\ f[i] \in 1 .. c /\ f[j] \in 1 .. c
    BY <1>1, <1>5
  <2>2. ~(i < j) /\ ~(j < i)
    BY <1>6, <2>1
  <2> QED
    BY <2>1, <2>2
<1>8. f \in Bijection(D, 1 .. c)
  BY <1>5, <1>7 DEF Bijection, Injection, Surjection, IsInjective
<1>9. Cardinality(1 .. c) = Cardinality(D)
  BY <1>3, <1>8, FS_Bijection DEF ExistsBijection
<1> QED
  BY <1>2, <1>3, <1>9

(* Equal payloads are on the same line. *)
LEMMA CountUpInjective ==
  ASSUME NEW l \in Seq(Event), NEW D \in SUBSET (1 .. Len(l)),
         NEW c \in Nat, CountUp(l, D, c),
         NEW i \in D, NEW j \in D, l[i].payload = l[j].payload
  PROVE  i = j
<1>1. i \in Nat /\ j \in Nat /\ l[i].payload \in Nat
  BY LenProperties, ElementOfSeq, EventShape DEF Payload
<1>2. ~(i < j) /\ ~(j < i)
  BY <1>1 DEF CountUp
<1> QED
  BY <1>1, <1>2

(* The instance has the definition of FiniteSets under another name. *)
LEMMA SameCardinality ==
  ASSUME NEW S
  PROVE  Validator!Cardinality(S) = Cardinality(S)
  BY DEF Validator!Cardinality, Cardinality

LEMMA VectorClockCounts ==
  ASSUME NEW l \in Seq(Event), NEW q \in Process, NEW n \in Payload,
         NEW i \in 1 .. Len(l), l[i] = DeliverEvent(q, n), NEW r \in Process,
         \E c \in Nat : CountUp(l, DeliveriesOf(l, q), c),
         \E c \in Nat : CountUp(l, DeliveriesOf(l, r), c)
  PROVE  /\ Validator!vectorClock(l, q, n)[r] \in Nat
         /\ CountUp(l, Upto(DeliveriesOf(l, r), i - 1),
                    Validator!vectorClock(l, q, n)[r])
         /\ \A j \in 1 .. Len(l) : l[j] = DeliverEvent(q, n) => j = i
<1> DEFINE P == Validator!PositionsOf(l, q, n)
           D == DeliveriesOf(l, r)
<1>1. /\ Len(l) \in Nat /\ DOMAIN l = 1 .. Len(l)
      /\ D \subseteq 1 .. Len(l) /\ DeliveriesOf(l, q) \subseteq 1 .. Len(l)
  BY LenProperties DEF DeliveriesOf
<1>2. /\ \A j \in 1 .. Len(l) : l[j] = DeliverEvent(q, n) =>
           j \in DeliveriesOf(l, q) /\ l[j].payload = n
      /\ \A j \in P : j \in DeliveriesOf(l, q) /\ l[j].payload = n
      /\ i \in P
  BY <1>1 DEF DeliveriesOf, Validator!PositionsOf, DeliverEvent
<1>3. \A j \in DeliveriesOf(l, q) : l[j].payload = n => j = i
  BY <1>1, <1>2, CountUpInjective
<1>4. P = {i}
  BY <1>2, <1>3
<1> HIDE DEF P
<1>5. Validator!vectorClock(l, q, n)[r] = Cardinality(Upto(D, i - 1))
  <2> DEFINE k == CHOOSE k \in P : \A j \in P : j <= k
  <2>1. k = i
    BY <1>1, <1>4
  <2>2. {j \in 1 .. i - 1 : l[j].type = "d" /\ l[j].peerID = r} = Upto(D, i - 1)
    <3>1. \A j \in 1 .. Len(l) : j <= i - 1 <=> j \in 1 .. i - 1
      BY <1>1
    <3>2. \A j \in 1 .. i - 1 : j \in 1 .. Len(l)
      BY <1>1
    <3> QED
      BY <1>1, <3>1, <3>2 DEF Upto, DeliveriesOf
  <2>3. Validator!vectorClock(l, q, n) =
          [x \in Process |->
             Cardinality({j \in 1 .. k - 1 : l[j].type = "d" /\ l[j].peerID = x})]
    BY SameCardinality DEF Validator!vectorClock, P
  <2> HIDE DEF k
  <2> QED
    BY <2>1, <2>2, <2>3
<1>6. i - 1 \in 0 .. Len(l) /\ Upto(D, i - 1) \in SUBSET (1 .. Len(l))
  BY <1>1 DEF Upto
<1>7. PICK d \in Nat : CountUp(l, Upto(D, i - 1), d)
  <2>1. PICK c \in Nat : CountUp(l, D, c)
    OBVIOUS
  <2> QED
    BY <1>1, <1>6, <2>1, CountUpPrefix
<1> HIDE DEF D
<1>8. Cardinality(Upto(D, i - 1)) = d
  BY <1>6, <1>7, CountUpCardinality
<1> QED
  BY <1>2, <1>3, <1>5, <1>7, <1>8 DEF D

(* Position i of l has a message after the one with number k of r. *)
LEMMA CountedBefore ==
  ASSUME NEW l \in Seq(Event), NEW r \in Process, NEW i \in 1 .. Len(l),
         NEW v \in Nat, CountUp(l, Upto(DeliveriesOf(l, r), i - 1), v),
         NEW k \in Payload
  PROVE  k <= v <=> \E a \in 1 .. Len(l) : a < i /\ l[a] = DeliverEvent(r, k)
<1> DEFINE D == Upto(DeliveriesOf(l, r), i - 1)
<1>1. Len(l) \in Nat /\ DOMAIN l = 1 .. Len(l)
  BY LenProperties
<1>2. {l[a].payload : a \in D} = 1 .. v
  BY DEF CountUp
<1>3. \A a \in 1 .. Len(l) : a <= i - 1 <=> a < i
  BY <1>1
<1>4. \A a \in D : /\ a \in 1 .. Len(l) /\ a < i
                   /\ l[a] = DeliverEvent(r, l[a].payload)
  <2> TAKE a \in D
  <2>1. /\ a \in 1 .. Len(l) /\ a <= i - 1
        /\ l[a].type = "d" /\ l[a].peerID = r
    BY <1>1 DEF Upto, DeliveriesOf
  <2>2. l[a] \in Event
    BY <2>1, ElementOfSeq
  <2> QED
    BY <1>3, <2>1, <2>2, EventShape
<1>5. \A a \in 1 .. Len(l) :
        a < i /\ l[a] = DeliverEvent(r, k) => a \in D /\ l[a].payload = k
  BY <1>1, <1>3 DEF Upto, DeliveriesOf, DeliverEvent
<1>6. k \in 1 .. v <=> k <= v
  BY DEF Payload
<1> HIDE DEF D
<1>7. k \in 1 .. v <=> \E a \in D : l[a].payload = k
  BY <1>2
<1> QED
  BY <1>4, <1>5, <1>6, <1>7

(* Logs that the checks accept are in localized causal order, if they have   *)
(* no message of their own before its broadcast.                             *)
LEMMA AcceptedIsCausal ==
  ASSUME TypeOK, NEW logs \in [Process -> Seq(Event)],
         Validator!checkAll(logs), \A p \in Process : Early(p, logs[p]) = {}
  PROVE  CausallyOrdered(logs)
<1>1. Deps \in [Process -> SUBSET Process]
  BY ConfigsAssumption DEF TypeOK
<1>2. ASSUME NEW p \in Process
      PROVE  /\ logs[p] \in Seq(Event) /\ Len(logs[p]) \in Nat
             /\ DOMAIN logs[p] = 1 .. Len(logs[p])
             /\ \E c \in Nat : CountUp(logs[p], BroadcastsOf(logs[p]), c)
             /\ \A q \in Process :
                  \E c \in Nat : CountUp(logs[p], DeliveriesOf(logs[p], q), c)
  <2> DEFINE l == logs[p]
  <2>1. l \in Seq(Event) /\ Len(l) \in Nat /\ DOMAIN l = 1 .. Len(l)
    BY LenProperties
  <2>2. Validator!checkProcess(p, l)
    BY DEF Validator!checkAll
  <2>3. InOrder(l, {})
    BY <2>1, <2>2, CheckProcessMeans
  <2>4. \A q \in Process : DeliveriesOf(l, q) \ {} = DeliveriesOf(l, q)
    OBVIOUS
  <2>5. 0 .. Len(l) \subseteq Nat
    BY <2>1
  <2> HIDE DEF l
  <2>6. \A q \in Process : \E c \in Nat : CountUp(l, DeliveriesOf(l, q), c)
    BY <2>3, <2>4, <2>5 DEF InOrder
  <2>7. \E c \in Nat : CountUp(l, BroadcastsOf(l), c)
    BY <2>3, <2>5 DEF InOrder
  <2> QED
    BY <2>1, <2>6, <2>7 DEF l
<1> SUFFICES ASSUME NEW p \in Process, NEW q \in Process,
                    NEW n \in 1 .. maxPackets[q],
                    In(logs[p], DeliverEvent(q, n)),
                    NEW r \in Deps[q], NEW k \in 1 .. maxPackets[r],
                    Before(logs[q], DeliverEvent(r, k), BroadcastEvent(n))
             PROVE  Before(logs[p], DeliverEvent(r, k), DeliverEvent(q, n))
  BY DEF CausallyOrdered
<1> DEFINE l == logs[p]
           m == logs[q]
<1>3. r \in Process /\ n \in Payload /\ k \in Payload
  BY <1>1 DEF Payload
<1>4. PICK i \in 1 .. Len(l) : l[i] = DeliverEvent(q, n)
  BY <1>2 DEF In
<1>5. PICK a \in 1 .. Len(m), b \in 1 .. Len(m) :
        a < b /\ m[a] = DeliverEvent(r, k) /\ m[b] = BroadcastEvent(n)
  BY <1>2 DEF Before
<1>6. /\ Validator!PositionsOf(m, q, n) # {}
      /\ Validator!vectorClock(l, q, n)[r] >= Validator!vectorClock(m, q, n)[r]
  <2>1. /\ i \in DOMAIN l /\ l[i].type = "d"
        /\ l[i].peerID = q /\ l[i].payload = n
    BY <1>2, <1>4 DEF DeliverEvent
  <2> QED
    BY <2>1 DEF Validator!checkAll, Validator!checkCausality, Validator!NotBefore
<1>7. PICK j \in 1 .. Len(m) : m[j] = DeliverEvent(q, n)
  <2>1. PICK j \in 1 .. Len(m) :
          m[j].type = "d" /\ m[j].peerID = q /\ m[j].payload = n
    BY <1>2, <1>6 DEF Validator!PositionsOf
  <2>2. m[j] \in Event
    BY <1>2, <2>1, ElementOfSeq
  <2> QED
    BY <2>1, <2>2, EventShape
<1>8. b < j
  <2>1. j \notin Early(q, m) /\ j \in DeliveriesOf(m, q) /\ m[j].payload = n
    BY <1>2, <1>7 DEF DeliveriesOf, DeliverEvent
  <2>2. PICK x \in 1 .. j - 1 : m[x] = BroadcastEvent(n)
    BY <2>1 DEF Early
  <2>3. x \in 1 .. Len(m) /\ x < j
    BY <1>2
  <2>4. /\ x \in BroadcastsOf(m) /\ b \in BroadcastsOf(m)
        /\ m[x].payload = m[b].payload /\ BroadcastsOf(m) \subseteq 1 .. Len(m)
    BY <1>2, <1>5, <2>2, <2>3, SMTT(25) DEF BroadcastsOf, BroadcastEvent
  <2>5. PICK c \in Nat : CountUp(m, BroadcastsOf(m), c)
    BY <1>2
  <2>6. x = b
    BY <1>2, <2>4, <2>5, CountUpInjective
  <2> QED
    BY <2>3, <2>6
<1>9. /\ Validator!vectorClock(l, q, n)[r] \in Nat
      /\ CountUp(l, Upto(DeliveriesOf(l, r), i - 1),
                 Validator!vectorClock(l, q, n)[r])
  BY <1>2, <1>3, <1>4, VectorClockCounts
<1>10. /\ Validator!vectorClock(m, q, n)[r] \in Nat
       /\ CountUp(m, Upto(DeliveriesOf(m, r), j - 1),
                  Validator!vectorClock(m, q, n)[r])
  <2>1. /\ m \in Seq(Event) /\ j \in 1 .. Len(m) /\ m[j] = DeliverEvent(q, n)
        /\ \E c \in Nat : CountUp(m, DeliveriesOf(m, q), c)
        /\ \E c \in Nat : CountUp(m, DeliveriesOf(m, r), c)
    BY <1>2, <1>3, <1>7
  <2> HIDE DEF m
  <2> QED
    BY <1>3, <2>1, VectorClockCounts
<1>11. k <= Validator!vectorClock(m, q, n)[r]
  <2>1. m \in Seq(Event) /\ \E x \in 1 .. Len(m) : x < j /\ m[x] = DeliverEvent(r, k)
    BY <1>2, <1>5, <1>8
  <2> DEFINE w == Validator!vectorClock(m, q, n)[r]
  <2>2. w \in Nat /\ CountUp(m, Upto(DeliveriesOf(m, r), j - 1), w)
    BY <1>10
  <2> HIDE DEF m, w
  <2>3. k <= w
    BY <1>3, <1>7, <2>1, <2>2, CountedBefore
  <2> QED
    BY <2>3 DEF w
<1>12. k <= Validator!vectorClock(l, q, n)[r]
  <2> DEFINE v == Validator!vectorClock(l, q, n)[r]
             w == Validator!vectorClock(m, q, n)[r]
  <2>1. v \in Nat /\ w \in Nat /\ k \in Nat /\ v >= w /\ k <= w
    BY <1>3, <1>6, <1>9, <1>10, <1>11 DEF Payload
  <2> HIDE DEF v, w
  <2>2. k <= v
    BY <2>1
  <2> QED
    BY <2>2 DEF v
<1>13. PICK x \in 1 .. Len(l) : x < i /\ l[x] = DeliverEvent(r, k)
  <2> DEFINE v == Validator!vectorClock(l, q, n)[r]
  <2>1. /\ l \in Seq(Event) /\ v \in Nat /\ k <= v
        /\ CountUp(l, Upto(DeliveriesOf(l, r), i - 1), v)
    BY <1>2, <1>9, <1>12
  <2> HIDE DEF l, v
  <2> QED
    BY <1>3, <1>4, <2>1, CountedBefore
<1> QED
  BY <1>2, <1>4, <1>13 DEF Before

(* What the log checks accept (validate.py:156 and validate.py:226), of any  *)
(* logs whatever: exactly the logs with the broadcasts and the messages of   *)
(* each process in order, up to the own messages that checkProcess lets pass *)
(* before their broadcast; without those, only logs in causal order.         *)
THEOREM ChecksAcceptOrder == Spec => []ChecksMeanOrder
<1>1. ASSUME TypeOK
      PROVE  ChecksMeanOrder
  <2> SUFFICES ASSUME NEW logs \in Logs
               PROVE  /\ \A p \in Process :
                         LET l == logs[p]
                             counted == DeliveriesOf(l, p) \ Early(p, l)
                         IN  /\ Validator!fifoCheckProcess(l) <=> InOrder(l, {})
                             /\ Validator!checkProcess(p, l) <=>
                                  /\ InOrder(l, Early(p, l))
                                  /\ \A k \in Early(p, l) :
                                       CountUp(l, {i \in counted : i < k},
                                               l[k].payload - 1)
                      /\ Validator!checkAll(logs)
                           /\ (\A p \in Process : Early(p, logs[p]) = {})
                         => CausallyOrdered(logs)
    BY DEF ChecksMeanOrder
  <2>1. logs \in [Process -> Seq(Event)]
    BY LogsAssumption
  <2>2. ASSUME NEW p \in Process
        PROVE  LET l == logs[p]
                   counted == DeliveriesOf(l, p) \ Early(p, l)
               IN  /\ Validator!fifoCheckProcess(l) <=> InOrder(l, {})
                   /\ Validator!checkProcess(p, l) <=>
                        /\ InOrder(l, Early(p, l))
                        /\ \A k \in Early(p, l) :
                             CountUp(l, {i \in counted : i < k}, l[k].payload - 1)
    <3>1. logs[p] \in Seq(Event)
      BY <2>1
    <3> QED
      BY <3>1, FifoCheckProcessMeans, CheckProcessMeans DEF Counted
  <2> QED
    BY <1>1, <2>1, <2>2, AcceptedIsCausal
<1>2. IInv => TypeOK
  BY DEF IInv
<1> QED
  BY <1>1, <1>2, Invariance, PTL

-----------------------------------------------------------------------------
(* The output files of a run. *)
LEMMA BroadcastsCountUp ==
  ASSUME IInv, LogInv, LineInv, NEW p \in Process
  PROVE  \E c \in Nat : CountUp(log[p], BroadcastsOf(log[p]), c)
<1> DEFINE B == BroadcastsOf(log[p])
           c == IF Locked(p) THEN next[p] ELSE next[p] - 1
<1>1. /\ log[p] \in Seq(Event) /\ DOMAIN log[p] = 1 .. Len(log[p])
      /\ Len(log[p]) \in Nat /\ next[p] \in Nat \ {0} /\ c \in Nat
  BY LenProperties DEF IInv, TypeOK
<1>2. \A i, j \in B : i < j => log[p][i].payload < log[p][j].payload
  BY DEF LineInv, Increasing, BroadcastsOf, SameKind
<1>3. \A i \in B : log[p][i].payload \in 1 .. c
  <2> TAKE i \in B
  <2>1. i \in 1 .. Len(log[p]) /\ log[p][i].type = "b"
    BY <1>1 DEF BroadcastsOf
  <2>2. /\ log[p][i].payload <= next[p] /\ log[p][i].payload \in Nat \ {0}
        /\ log[p][i].payload = next[p] => Locked(p)
    BY <2>1, LinesAreCounted DEF Payload
  <2> QED
    BY <1>1, <2>2
<1>4. \A n \in 1 .. c : \E i \in B : log[p][i].payload = n
  <2> TAKE n \in 1 .. c
  <2>1. PICK i \in DOMAIN log[p] : log[p][i] = BroadcastEvent(n)
    <3>1. CASE n \in 1 .. next[p] - 1
      BY <3>1 DEF LineInv, AllBroadcast, In
    <3>2. CASE n = next[p]
      <4>1. Locked(p)
        BY <1>1, <3>2
      <4>2. Len(log[p]) # 0
        BY <1>1, <4>1, EmptySeq DEF Locked
      <4>3. Len(log[p]) \in DOMAIN log[p]
        BY <1>1, <4>2
      <4> QED
        BY <3>2, <4>1, <4>3 DEF LineInv, LastIsNext
    <3> QED
      BY <1>1, <3>1, <3>2
  <2> QED
    BY <2>1 DEF BroadcastEvent, BroadcastsOf
<1> HIDE DEF B, c
<1>5. {log[p][i].payload : i \in B} = 1 .. c
  BY <1>3, <1>4
<1>6. CountUp(log[p], B, c)
  BY <1>2, <1>5 DEF CountUp
<1> QED
  BY <1>1, <1>6 DEF B

LEMMA PrefixFacts ==
  ASSUME NEW l \in Seq(Event), NEW k \in 0 .. Len(l),
         NEW m, m = SubSeq(l, 1, k)
  PROVE  /\ m \in Seq(Event) /\ Len(m) = k /\ DOMAIN m = 1 .. k
         /\ \A i \in 1 .. k : i \in 1 .. Len(l) /\ m[i] = l[i]
         /\ BroadcastsOf(m) = Upto(BroadcastsOf(l), k)
         /\ \A q : DeliveriesOf(m, q) = Upto(DeliveriesOf(l, q), k)
         /\ \A D \in SUBSET (1 .. k) : \A c :
              CountUp(l, D, c) => CountUp(m, D, c)
<1>1. Len(l) \in Nat /\ DOMAIN l = 1 .. Len(l)
  BY LenProperties
<1>2. m \in Seq(Event) /\ Len(m) = k /\ \A i \in 1 .. k : m[i] = l[i]
  <2>1. /\ 1 \in 1 .. Len(l) + 1 /\ k \in 1 - 1 .. Len(l)
        /\ k - 1 + 1 = k /\ \A i \in 1 .. k : 1 + i - 1 = i
    BY <1>1
  <2>2. /\ m \in Seq(Event) /\ Len(m) = k - 1 + 1
        /\ \A i \in 1 .. k - 1 + 1 : m[i] = l[1 + i - 1]
    BY <2>1, SubSeqProperties
  <2> QED
    BY <2>1, <2>2
<1>3. DOMAIN m = 1 .. k
  BY <1>2, LenProperties
<1>4. \A i \in 1 .. Len(l) : i <= k <=> i \in 1 .. k
  BY <1>1
<1>5. \A i \in 1 .. k : i \in 1 .. Len(l)
  BY <1>1
<1>6. BroadcastsOf(m) = Upto(BroadcastsOf(l), k)
  BY <1>1, <1>2, <1>3, <1>4, <1>5 DEF BroadcastsOf, Upto
<1>7. \A q : DeliveriesOf(m, q) = Upto(DeliveriesOf(l, q), k)
  BY <1>1, <1>2, <1>3, <1>4, <1>5 DEF DeliveriesOf, Upto
<1>8. ASSUME NEW D \in SUBSET (1 .. k), NEW c, CountUp(l, D, c)
      PROVE  CountUp(m, D, c)
  <2>1. \A i \in D : m[i] = l[i]
    BY <1>2
  <2>2. {m[i].payload : i \in D} = {l[i].payload : i \in D}
    BY <2>1
  <2> QED
    BY <1>8, <2>1, <2>2 DEF CountUp
<1> QED
  BY <1>2, <1>3, <1>5, <1>6, <1>7, <1>8

(* l begins as s does, and has the messages of each process in order. *)
BeginsAs(l, s) ==
  /\ l \in Seq(Event) /\ Len(l) \in Nat /\ DOMAIN l = 1 .. Len(l)
  /\ \A i \in 1 .. Len(l) : i \in 1 .. Len(s) /\ l[i] = s[i]
  /\ \A q \in Process : \E c \in Nat : CountUp(l, DeliveriesOf(l, q), c)

LEMMA OutputFacts ==
  ASSUME IInv, LogInv, LineInv, NEW p \in Process, NEW k \in 0 .. Len(log[p]),
         NEW o \in Process, NEW l, l = Outputs(p, k)[o]
  PROVE  /\ BeginsAs(l, log[o])
         /\ o # p => l = log[o]
         /\ InOrder(l, {}) /\ Early(o, l) = {}
<1>1. /\ log \in [Process -> Seq(Event)] /\ log[o] \in Seq(Event)
      /\ Len(log[o]) \in Nat /\ DOMAIN log[o] = 1 .. Len(log[o])
      /\ vectorClock[o] \in [Process -> Nat]
  BY LenProperties DEF IInv, TypeOK
<1>2. PICK m \in 0 .. Len(log[o]) :
        l = SubSeq(log[o], 1, m) /\ (o # p => l = log[o])
  <2>1. CASE o = p
    BY <1>1, <2>1 DEF Outputs
  <2>2. CASE o # p
    <3>1. l = log[o] /\ Len(log[o]) \in 0 .. Len(log[o])
      BY <1>1, <2>2 DEF Outputs
    <3>2. log[o] = SubSeq(log[o], 1, Len(log[o]))
      BY <1>1, SubSeqFull
    <3> QED
      BY <3>1, <3>2
  <2> QED
    BY <2>1, <2>2
<1>3. /\ l \in Seq(Event) /\ Len(l) = m /\ DOMAIN l = 1 .. m
      /\ \A i \in 1 .. m : i \in 1 .. Len(log[o]) /\ l[i] = log[o][i]
      /\ BroadcastsOf(l) = Upto(BroadcastsOf(log[o]), m)
      /\ \A q : DeliveriesOf(l, q) = Upto(DeliveriesOf(log[o], q), m)
      /\ \A D \in SUBSET (1 .. m) : \A c :
           CountUp(log[o], D, c) => CountUp(l, D, c)
  BY <1>1, <1>2, PrefixFacts
<1>4. ASSUME NEW D \in SUBSET (1 .. Len(log[o])),
             \E c \in Nat : CountUp(log[o], D, c)
      PROVE  \E c \in Nat : CountUp(l, Upto(D, m), c)
  <2>1. PICK c \in Nat : CountUp(log[o], Upto(D, m), c)
    BY <1>1, <1>4, CountUpPrefix
  <2>2. \A i \in D : i <= m => i \in 1 .. m
    BY <1>1
  <2>3. Upto(D, m) \in SUBSET (1 .. m)
    BY <2>2 DEF Upto
  <2> QED
    BY <1>3, <2>1, <2>3
<1>5. ASSUME NEW q \in Process
      PROVE  \E c \in Nat : CountUp(l, DeliveriesOf(l, q), c)
  <2>1. CountUp(log[o], DeliveriesOf(log[o], q), vectorClock[o][q])
    BY LinesCountUp
  <2>2. DeliveriesOf(log[o], q) \in SUBSET (1 .. Len(log[o]))
    BY <1>1 DEF DeliveriesOf
  <2>3. vectorClock[o][q] \in Nat
    BY <1>1
  <2> QED
    BY <1>3, <1>4, <2>1, <2>2, <2>3
<1>6. \E c \in Nat : CountUp(l, BroadcastsOf(l), c)
  <2>1. BroadcastsOf(log[o]) \in SUBSET (1 .. Len(log[o]))
    BY <1>1 DEF BroadcastsOf
  <2> QED
    BY <1>3, <1>4, <2>1, BroadcastsCountUp
<1>7. InOrder(l, {})
  <2>1. ASSUME NEW D \in SUBSET (1 .. Len(l)), \E c \in Nat : CountUp(l, D, c)
        PROVE  \E c \in 0 .. Len(l) : CountUp(l, D, c)
    <3>1. PICK c \in Nat : CountUp(l, D, c)
      BY <2>1
    <3>2. c <= Len(l) /\ Len(l) \in Nat
      BY <1>3, <3>1, CountUpCardinality, LenProperties
    <3>3. c \in 0 .. Len(l)
      BY <3>2
    <3> QED
      BY <3>1, <3>3
  <2>2. /\ BroadcastsOf(l) \in SUBSET (1 .. Len(l))
        /\ \A q \in Process : DeliveriesOf(l, q) \in SUBSET (1 .. Len(l))
        /\ \A q \in Process : DeliveriesOf(l, q) \ {} = DeliveriesOf(l, q)
    BY <1>3 DEF BroadcastsOf, DeliveriesOf
  <2>3. \E c \in 0 .. Len(l) : CountUp(l, BroadcastsOf(l), c)
    BY <1>6, <2>1, <2>2
  <2>4. \A q \in Process :
          \E c \in 0 .. Len(l) : CountUp(l, DeliveriesOf(l, q) \ {}, c)
    BY <1>5, <2>1, <2>2
  <2> QED
    BY <2>3, <2>4 DEF InOrder
<1>8. Early(o, l) = {}
  <2> SUFFICES ASSUME NEW i \in Early(o, l)
               PROVE  FALSE
    OBVIOUS
  <2>1. /\ i \in 1 .. m /\ l[i].type = "d" /\ l[i].peerID = o
        /\ \A x \in 1 .. i - 1 : l[x] # BroadcastEvent(l[i].payload)
    BY <1>3 DEF Early, DeliveriesOf
  <2>2. /\ i - 1 \in 1 .. Len(log[o])
        /\ log[o][i - 1] = BroadcastEvent(log[o][i].payload)
    BY <1>1, <1>3, <2>1, SMTT(30) DEF LineInv, OwnFollows
  <2>3. i - 1 \in 1 .. i - 1 /\ i - 1 \in 1 .. m
    BY <1>1, <2>1, <2>2
  <2> QED
    BY <1>3, <2>1, <2>2, <2>3
<1>9. Len(l) \in Nat /\ 1 .. Len(l) = 1 .. m
  BY <1>1, <1>3
<1> QED
  BY <1>2, <1>3, <1>5, <1>7, <1>8, <1>9, Zenon DEF BeginsAs

(* A message that is delivered in an output and missing in its sender's own  *)
(* is one that the sender broadcast after it wrote its output.               *)
LEMMA OnlyMissing ==
  ASSUME IInv, LogInv, LineInv, NEW p \in Process, NEW k \in 0 .. Len(log[p]),
         ~MissingIn(Outputs(p, k), p),
         NEW o \in Process, NEW q \in Process, NEW n \in Payload,
         In(Outputs(p, k)[o], DeliverEvent(q, n))
  PROVE  In(Outputs(p, k)[q], DeliverEvent(q, n))
<1> DEFINE l == Outputs(p, k)[o]
<1>1. /\ DOMAIN l = 1 .. Len(l)
      /\ \A i \in 1 .. Len(l) : i \in 1 .. Len(log[o]) /\ l[i] = log[o][i]
  BY OutputFacts DEF BeginsAs
<1>2. In(log[o], DeliverEvent(q, n))
  <2>1. log[o] \in Seq(Event) /\ DOMAIN log[o] = 1 .. Len(log[o])
    BY LenProperties DEF IInv, TypeOK
  <2> QED
    BY <1>1, <2>1 DEF In
<1>3. /\ n <= vectorClock[o][q] /\ vectorClock[o][q] \in Nat
      /\ vectorClock[o][q] <= next[q] - 1 /\ next[q] \in Nat
      /\ vectorClock[q][q] = next[q] - 1
  BY <1>2, CountedIsSent DEF LogInv, LogHasCounted, IInv, TypeOK, Numbered
<1>4. CASE q = p
  <2>1. next[p] <= maxPackets[p] + 1 /\ maxPackets[p] \in Nat
    BY MaxPacketsAssumption DEF LineInv, Bounded
  <2>2. n \in 1 .. maxPackets[p]
    BY <1>3, <1>4, <2>1 DEF Payload
  <2> QED
    BY <1>4, <2>2 DEF MissingIn
<1>5. CASE q # p
  <2>1. n <= vectorClock[q][q]
    BY <1>3 DEF Payload
  <2>2. In(log[q], DeliverEvent(q, n))
    BY <2>1 DEF LogInv, LogHasCounted
  <2>3. Outputs(p, k)[q] = log[q]
    BY <1>5, OutputFacts
  <2> QED
    BY <2>2, <2>3
<1> QED
  BY <1>4, <1>5

(* The delivery of message n of q on line i of o comes after what q had      *)
(* delivered, from r, before its own, on line j.                             *)
LEMMA OutputsInOrder ==
  ASSUME IInv, LogInv, LineInv, NEW p \in Process, NEW k \in 0 .. Len(log[p]),
         NEW o \in Process, NEW q \in Process, NEW n \in Payload,
         NEW r \in Deps[q], r \in Process,
         NEW i \in 1 .. Len(Outputs(p, k)[o]),
         Outputs(p, k)[o][i] = DeliverEvent(q, n),
         NEW j \in 1 .. Len(Outputs(p, k)[q]),
         Outputs(p, k)[q][j] = DeliverEvent(q, n)
  PROVE  Validator!vectorClock(Outputs(p, k)[o], q, n)[r]
           >= Validator!vectorClock(Outputs(p, k)[q], q, n)[r]
<1> DEFINE l == Outputs(p, k)[o]
           m == Outputs(p, k)[q]
           v == Validator!vectorClock(l, q, n)[r]
           w == Validator!vectorClock(m, q, n)[r]
<1>1. /\ l = Outputs(p, k)[o] /\ m = Outputs(p, k)[q]
      /\ l[i] = DeliverEvent(q, n) /\ m[j] = DeliverEvent(q, n)
  OBVIOUS
<1>2. i \in 1 .. Len(l) /\ j \in 1 .. Len(m)
  OBVIOUS
<1> HIDE DEF l, m
<1>3. BeginsAs(l, log[o]) /\ BeginsAs(m, log[q])
  BY <1>1, OutputFacts
<1>4. /\ l \in Seq(Event) /\ Len(l) \in Nat /\ DOMAIN l = 1 .. Len(l)
      /\ \A x \in 1 .. Len(l) : x \in 1 .. Len(log[o]) /\ l[x] = log[o][x]
      /\ m \in Seq(Event) /\ Len(m) \in Nat /\ DOMAIN m = 1 .. Len(m)
      /\ \A x \in 1 .. Len(m) : x \in 1 .. Len(log[q]) /\ m[x] = log[q][x]
  BY <1>3 DEF BeginsAs
<1>5. /\ log[o] \in Seq(Event) /\ DOMAIN log[o] = 1 .. Len(log[o])
      /\ log[q] \in Seq(Event) /\ DOMAIN log[q] = 1 .. Len(log[q])
      /\ Len(log[o]) \in Nat /\ Len(log[q]) \in Nat
      /\ \A y \in Process :
           /\ DeliveriesOf(log[o], y) \in SUBSET (1 .. Len(log[o]))
           /\ vectorClock[o][y] \in Nat
           /\ CountUp(log[o], DeliveriesOf(log[o], y), vectorClock[o][y])
  <2>1. /\ log \in [Process -> Seq(Event)]
        /\ vectorClock \in [Process -> [Process -> Nat]]
    BY DEF IInv, TypeOK
  <2>2. \A x \in Process : /\ log[x] \in Seq(Event) /\ Len(log[x]) \in Nat
                           /\ DOMAIN log[x] = 1 .. Len(log[x])
    BY <2>1, LenProperties
  <2>3. \A y \in Process : DeliveriesOf(log[o], y) \in SUBSET (1 .. Len(log[o]))
    BY <2>2 DEF DeliveriesOf
  <2> QED
    BY <2>1, <2>2, <2>3, LinesCountUp
<1>6. v \in Nat /\ CountUp(l, Upto(DeliveriesOf(l, r), i - 1), v)
  BY <1>1, <1>2, <1>3, VectorClockCounts DEF BeginsAs
<1>7. w \in Nat /\ CountUp(m, Upto(DeliveriesOf(m, r), j - 1), w)
  BY <1>1, <1>2, <1>3, VectorClockCounts DEF BeginsAs
<1> HIDE DEF v, w
<1>8. SUFFICES ASSUME v < w
               PROVE  FALSE
  <2>1. v >= w
    BY <1>6, <1>7, <1>8
  <2> QED
    BY <2>1 DEF v, w, l, m
<1>9. w \in Payload /\ w <= w
  BY <1>6, <1>7, <1>8 DEF Payload
<1>10. PICK a \in 1 .. Len(m) : a < j /\ m[a] = DeliverEvent(r, w)
  <2>1. ASSUME NEW x \in Payload
        PROVE  x <= w <=> \E a \in 1 .. Len(m) : a < j /\ m[a] = DeliverEvent(r, x)
    BY <1>2, <1>4, <1>7, CountedBefore
  <2> QED
    BY <1>9, <2>1, Zenon
<1>11. Before(log[q], DeliverEvent(r, w), BroadcastEvent(n))
  <2>1. log[q][j] = DeliverEvent(q, n) /\ log[q][a] = DeliverEvent(r, w)
    BY <1>1, <1>2, <1>4, <1>10
  <2>2. j - 1 \in DOMAIN log[q] /\ log[q][j - 1] = BroadcastEvent(n)
    <3>1. j \in DOMAIN log[q]
      BY <1>2, <1>4, <1>5
    <3>2. /\ log[q][j].type = "d"
          /\ log[q][j].peerID = q /\ log[q][j].payload = n
      BY <2>1 DEF DeliverEvent
    <3> QED
      BY <3>1, <3>2 DEF LineInv, OwnFollows
  <2>3. a # j - 1
    BY <1>9, <2>1, <2>2, EventFacts
  <2>4. a < j - 1 /\ a \in DOMAIN log[q]
    BY <1>2, <1>4, <1>5, <1>10, <2>3
  <2> QED
    BY <2>1, <2>2, <2>4 DEF Before
<1>12. In(log[o], DeliverEvent(q, n)) /\ i \in 1 .. Len(log[o])
       /\ log[o][i] = DeliverEvent(q, n)
  BY <1>1, <1>2, <1>4, <1>5 DEF In
<1>13. Before(log[o], DeliverEvent(r, w), DeliverEvent(q, n))
  BY <1>9, <1>11, <1>12 DEF LogInv, Ordered
<1>14. PICK x \in 1 .. Len(log[o]), y \in 1 .. Len(log[o]) :
         /\ x < y /\ log[o][x] = DeliverEvent(r, w)
         /\ log[o][y] = DeliverEvent(q, n)
  BY <1>5, <1>13 DEF Before
<1>15. y = i
  <2>1. /\ y \in DeliveriesOf(log[o], q) /\ i \in DeliveriesOf(log[o], q)
        /\ log[o][y].payload = log[o][i].payload
    BY <1>5, <1>12, <1>14, SMTT(25) DEF DeliveriesOf, DeliverEvent
  <2> QED
    BY <1>5, <2>1, CountUpInjective
<1>16. x \in 1 .. Len(l) /\ x < i /\ l[x] = DeliverEvent(r, w)
  <2>1. x \in 1 .. Len(l) /\ x < i
    BY <1>2, <1>4, <1>5, <1>14, <1>15
  <2> QED
    BY <1>4, <1>14, <2>1
<1>17. w <= v
  BY <1>2, <1>4, <1>6, <1>9, <1>16, CountedBefore
<1> QED
  BY <1>6, <1>7, <1>8, <1>17

(* The log checks (validate.py) accept the output files of a run, whenever   *)
(* one of the processes stops, unless they miss a message that it broadcast  *)
(* after it wrote its output; then they do not.                              *)
THEOREM RunsValidate == Spec => []OutputsValidate
<1>1. ASSUME IInv, LogInv, LineInv, NEW p \in Mortal, NEW k \in 0 .. Len(log[p])
      PROVE  /\ Validator!fifoCheckAll(Outputs(p, k))
             /\ Validator!checkAll(Outputs(p, k)) <=> ~MissingIn(Outputs(p, k), p)
  <2> DEFINE outs == Outputs(p, k)
  <2>1. p \in Process /\ Deps \in [Process -> SUBSET Process]
    BY <1>1, MortalAssumption, ConfigsAssumption DEF IInv, TypeOK
  <2>2. \A o \in Process :
          BeginsAs(outs[o], log[o]) /\ InOrder(outs[o], {}) /\ Early(o, outs[o]) = {}
    BY <1>1, <2>1, OutputFacts
  <2>3. \A o \in Process : /\ outs[o] \in Seq(Event)
                           /\ DOMAIN outs[o] = 1 .. Len(outs[o])
    BY <2>2 DEF BeginsAs
  <2> HIDE DEF outs
  <2>4. Validator!fifoCheckAll(outs)
    BY <2>2, <2>3, FifoCheckProcessMeans DEF Validator!fifoCheckAll
  <2>5. \A o \in Process : Validator!checkProcess(o, outs[o])
    BY <2>2, <2>3, CheckProcessMeans
  <2>6. ASSUME MissingIn(outs, p)
        PROVE  ~Validator!checkCausality(outs)
    <3>1. PICK q \in Process, n \in 1 .. maxPackets[p] :
            /\ In(outs[q], DeliverEvent(p, n))
            /\ ~In(outs[p], DeliverEvent(p, n))
      BY <2>6 DEF MissingIn
    <3>2. PICK i \in DOMAIN outs[q] :
            outs[q][i].type = "d" /\ outs[q][i].peerID = p /\ outs[q][i].payload = n
      BY <3>1 DEF In, DeliverEvent
    <3>3. Validator!PositionsOf(outs[p], p, n) = {}
      <4> SUFFICES ASSUME NEW j \in Validator!PositionsOf(outs[p], p, n)
                   PROVE  FALSE
        OBVIOUS
      <4>1. /\ j \in 1 .. Len(outs[p]) /\ outs[p][j].type = "d"
            /\ outs[p][j].peerID = p /\ outs[p][j].payload = n
        BY <2>1, <2>3 DEF Validator!PositionsOf
      <4>2. outs[p][j] \in Event
        BY <2>1, <2>3, <4>1, ElementOfSeq
      <4>3. outs[p][j] = DeliverEvent(p, n)
        BY <4>1, <4>2, EventShape
      <4> QED
        BY <2>1, <2>3, <3>1, <4>1, <4>3 DEF In
    <3> QED
      BY <3>2, <3>3 DEF Validator!checkCausality
  <2>7. ASSUME ~MissingIn(outs, p)
        PROVE  Validator!checkCausality(outs)
    <3> SUFFICES ASSUME NEW o \in Process, NEW i \in DOMAIN outs[o],
                        outs[o][i].type = "d"
                 PROVE  LET q == outs[o][i].peerID
                            n == outs[o][i].payload
                        IN  /\ Validator!PositionsOf(outs[q], q, n) # {}
                            /\ \A r \in Deps[q] :
                                 Validator!vectorClock(outs[o], q, n)[r]
                                   >= Validator!vectorClock(outs[q], q, n)[r]
      BY DEF Validator!checkCausality, Validator!NotBefore
    <3> DEFINE q == outs[o][i].peerID
               n == outs[o][i].payload
    <3>1. i \in 1 .. Len(outs[o]) /\ outs[o][i] \in Event
      BY <2>3, ElementOfSeq
    <3>2. q \in Process /\ n \in Payload /\ outs[o][i] = DeliverEvent(q, n)
      BY <3>1, EventShape
    <3> HIDE DEF q, n
    <3>3. In(outs[o], DeliverEvent(q, n))
      BY <3>2 DEF In
    <3>4. In(outs[q], DeliverEvent(q, n))
      BY <1>1, <2>1, <2>7, <3>2, <3>3, OnlyMissing DEF outs
    <3>5. PICK j \in 1 .. Len(outs[q]) : outs[q][j] = DeliverEvent(q, n)
      BY <2>3, <3>2, <3>4 DEF In
    <3>6. Validator!PositionsOf(outs[q], q, n) # {}
      BY <2>3, <3>2, <3>5 DEF Validator!PositionsOf, DeliverEvent
    <3>7. ASSUME NEW r \in Deps[q]
          PROVE  Validator!vectorClock(outs[o], q, n)[r]
                   >= Validator!vectorClock(outs[q], q, n)[r]
      <4>1. r \in Process
        BY <2>1, <3>2
      <4> QED
        BY <1>1, <2>1, <3>1, <3>2, <3>5, <4>1, OutputsInOrder DEF outs
    <3> QED
      BY <3>6, <3>7 DEF q, n
  <2> QED
    BY <2>4, <2>5, <2>6, <2>7 DEF Validator!checkAll, outs
<1>2. IInv /\ LogInv /\ LineInv => OutputsValidate
  BY <1>1 DEF OutputsValidate
<1> QED
  BY <1>2, Invariance, LogInvariance, LineInvariance, PTL

=============================================================================
