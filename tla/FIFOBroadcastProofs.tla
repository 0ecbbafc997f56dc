-------------------------- MODULE FIFOBroadcastProofs --------------------------
(***************************************************************************)
(* Proofs about FIFOBroadcast, for all origins, numbers of messages and      *)
(* orders of arrival.  The list of an origin is strictly sorted and holds    *)
(* what has arrived (Listed); that is why one pass over it delivers all that *)
(* can be delivered (Scanned).                                               *)
(***************************************************************************)
EXTENDS FIFOBroadcast, SequenceTheorems, WellFoundedInduction, TLAPS

(* The list of an origin. *)
Holds(list, x) == \E i \in 1 .. Len(list) : list[i] = x

Sorted(list) == \A i, j \in 1 .. Len(list) : i < j => list[i] < list[j]

Listed ==
  \A o \in Origin :
    /\ Sorted(pendingSorted[o])
    /\ \A n \in 1 .. K : n \in arrived[o] <=>
         Holds(pendingSorted[o], n)

(* The deliveries of an origin. *)
InTurn ==
  \A o \in Origin :
    /\ nextToDeliver[o] = Len(fifoDelivered[o]) + 1
    /\ \A k \in 1 .. Len(fifoDelivered[o]) :
         fifoDelivered[o][k] = k /\ k \in arrived[o]

(* The scan has left nothing behind that has its turn. *)
Scanned ==
  origin # NoOrigin =>
    /\ seqNb = nextToDeliver[origin]
    /\ index \in 1 .. Len(pendingSorted[origin]) + 1
    /\ \A j \in 1 .. index - 1 : pendingSorted[origin][j] # seqNb

OthersDone == \A o \in Origin \ {origin} : nextToDeliver[o] \notin arrived[o]

IInv ==
  /\ TypeOK
  /\ Listed
  /\ InTurn
  /\ Scanned
  /\ OthersDone

-----------------------------------------------------------------------------
(* addToPending keeps the list sorted. *)
LEMMA Least ==
  ASSUME NEW T \in SUBSET Nat, T # {}
  PROVE  \E m \in T : \A k \in T : m <= k
<1>1. PICK m \in T : \A k \in T : ~(<<k, m>> \in OpToRel(<, Nat))
  BY NatLessThanWellFounded, WFMin
<1>2. ASSUME NEW k \in T
      PROVE  m <= k
  <2>1. ~(k < m)
    BY <1>1 DEF OpToRel
  <2> QED
    BY <2>1
<1> QED
  BY <1>2

LEMMA Payloads ==
  ASSUME NEW list \in Seq(1 .. K)
  PROVE  /\ Len(list) \in Nat
         /\ \A i \in 1 .. Len(list) : list[i] \in 1 .. K
<1> DEFINE S == 1 .. K
<1>1. list \in Seq(S)
  OBVIOUS
<1> HIDE DEF S
<1>2. Len(list) \in Nat /\ \A i \in 1 .. Len(list) : list[i] \in S
  BY <1>1
<1> QED
  BY <1>2 DEF S

LEMMA PlaceFacts ==
  ASSUME NEW list \in Seq(1 .. K), NEW n \in 1 .. K, NEW k, k = Place(list, n)
  PROVE  /\ k \in 1 .. Len(list) + 1
         /\ k = Len(list) + 1 \/ n < list[k]
         /\ \A j \in 1 .. k - 1 : n >= list[j]
<1> DEFINE T == {i \in 1 .. Len(list) + 1 : i = Len(list) + 1 \/ n < list[i]}
<1>1. Len(list) + 1 \in T /\ T \in SUBSET Nat
  OBVIOUS
<1>2. PICK m \in T : \A i \in T : m <= i
  BY <1>1, Least
<1>3. ASSUME NEW j \in 1 .. m - 1
      PROVE  n >= list[j]
  <2>1. j \in 1 .. Len(list) /\ j \notin T
    BY <1>2
  <2>2. ~(n < list[j])
    BY <2>1
  <2>3. list[j] \in 1 .. K
    BY <2>1, ElementOfSeq
  <2> QED
    BY <2>2, <2>3
<1>4. \E i \in 1 .. Len(list) + 1 :
        /\ i = Len(list) + 1 \/ n < list[i]
        /\ \A j \in 1 .. i - 1 : n >= list[j]
  BY <1>2, <1>3
<1> QED
  BY <1>4 DEF Place

LEMMA InsertFacts ==
  ASSUME NEW S, NEW s \in Seq(S), NEW e \in S, NEW k \in 1 .. Len(s) + 1,
         NEW t, t = InsertAt(s, k, e)
  PROVE  /\ t \in Seq(S) /\ Len(t) = Len(s) + 1
         /\ t[k] = e
         /\ \A j \in 1 .. k - 1 : t[j] = s[j]
         /\ \A j \in k .. Len(s) : t[j + 1] = s[j]
<1> DEFINE a == SubSeq(s, 1, k - 1)
           b == SubSeq(s, k, Len(s))
           n == Len(s)
<1>1. /\ n \in Nat /\ k \in Int /\ k - 1 \in Int
      /\ \A j \in 1 .. n : s[j] \in S
  OBVIOUS
<1>2. /\ a \in Seq(S) /\ Len(a) = k - 1
      /\ \A j \in 1 .. k - 1 : a[j] = s[j]
  <2>1. \A j \in 1 .. k - 1 : s[j] \in S
    BY <1>1
  <2>2. /\ a \in Seq(S)
        /\ Len(a) = IF 1 <= k - 1 THEN (k - 1) - 1 + 1 ELSE 0
        /\ \A j \in 1 .. (k - 1) - 1 + 1 : a[j] = s[1 + j - 1]
    BY <1>1, <2>1, SubSeqProperties
  <2> QED
    BY <1>1, <2>2
<1>3. /\ b \in Seq(S) /\ Len(b) = n - k + 1
      /\ \A j \in 1 .. n - k + 1 : b[j] = s[k + j - 1]
  <2>1. \A j \in k .. n : s[j] \in S
    BY <1>1
  <2>2. /\ b \in Seq(S)
        /\ Len(b) = IF k <= n THEN n - k + 1 ELSE 0
        /\ \A j \in 1 .. n - k + 1 : b[j] = s[k + j - 1]
    BY <1>1, <2>1, SubSeqProperties
  <2> QED
    BY <1>1, <2>2
<1>4. /\ a \o <<e>> \in Seq(S) /\ Len(a \o <<e>>) = k
      /\ (a \o <<e>>)[k] = e
      /\ \A j \in 1 .. k - 1 : (a \o <<e>>)[j] = s[j]
  <2>1. a \o <<e>> = Append(a, e)
    BY <1>2, AppendIsConcat
  <2>2. /\ Append(a, e) \in Seq(S) /\ Len(Append(a, e)) = Len(a) + 1
        /\ \A j \in 1 .. Len(a) : Append(a, e)[j] = a[j]
        /\ Append(a, e)[Len(a) + 1] = e
    BY <1>2, AppendProperties
  <2> QED
    BY <1>1, <1>2, <2>1, <2>2
<1>5. t = (a \o <<e>>) \o b
  BY DEF InsertAt
<1> DEFINE c == a \o <<e>>
<1>10. c \in Seq(S) /\ Len(c) = k /\ t = c \o b
  BY <1>4, <1>5
<1> HIDE DEF a, b, c, n
<1>6. /\ t \in Seq(S) /\ Len(t) = k + (n - k + 1)
      /\ \A i \in 1 .. k + (n - k + 1) :
           t[i] = IF i <= k THEN c[i] ELSE b[i - k]
  <2>1. /\ c \o b \in Seq(S)
        /\ Len(c \o b) = Len(c) + Len(b)
        /\ \A i \in 1 .. Len(c) + Len(b) :
             (c \o b)[i] = IF i <= Len(c) THEN c[i] ELSE b[i - Len(c)]
    BY <1>3, <1>10, ConcatProperties
  <2> QED
    BY <1>3, <1>10, <2>1
<1>7. Len(t) = n + 1 /\ t[k] = e
  BY <1>1, <1>4, <1>6 DEF c, n
<1>8. ASSUME NEW j \in 1 .. k - 1
      PROVE  t[j] = s[j]
  <2>1. j \in 1 .. k + (n - k + 1) /\ j <= k
    BY <1>1 DEF n
  <2> QED
    BY <1>4, <1>6, <2>1 DEF c
<1>9. ASSUME NEW j \in k .. n
      PROVE  t[j + 1] = s[j]
  <2>1. /\ j + 1 \in 1 .. k + (n - k + 1) /\ ~(j + 1 <= k)
        /\ (j + 1) - k \in 1 .. n - k + 1
        /\ k + ((j + 1) - k) - 1 = j
    BY <1>1
  <2>2. t[j + 1] = b[(j + 1) - k]
    BY <1>6, <2>1
  <2> QED
    BY <1>3, <2>1, <2>2
<1> QED
  BY <1>6, <1>7, <1>8, <1>9 DEF n

LEMMA InsertSorted ==
  ASSUME NEW list \in Seq(1 .. K), Sorted(list), NEW n \in 1 .. K,
         \A i \in 1 .. Len(list) : list[i] # n,
         NEW new, new = InsertAt(list, Place(list, n), n)
  PROVE  /\ new \in Seq(1 .. K)
         /\ Sorted(new)
         /\ \A x \in 1 .. K : Holds(new, x) <=> x = n \/ Holds(list, x)
<1> DEFINE k == Place(list, n)
           m == Len(list)
<1>1. /\ m \in Nat /\ \A i \in 1 .. m : list[i] \in 1 .. K /\ list[i] # n
      /\ \A i, j \in 1 .. m : i < j => list[i] < list[j]
  <2>1. \A i \in 1 .. Len(list) : list[i] \in 1 .. K
    BY ElementOfSeq
  <2>2. \A i, j \in 1 .. Len(list) : i < j => list[i] < list[j]
    BY DEF Sorted
  <2> QED
    BY <2>1, <2>2, LenProperties
<1>2. /\ k \in 1 .. m + 1
      /\ k = m + 1 \/ n < list[k]
      /\ \A j \in 1 .. k - 1 : n >= list[j]
  BY PlaceFacts
<1>3. /\ new \in Seq(1 .. K) /\ Len(new) = m + 1
      /\ new[k] = n
      /\ \A j \in 1 .. k - 1 : new[j] = list[j]
      /\ \A j \in k .. m : new[j + 1] = list[j]
  <2>1. k \in 1 .. Len(list) + 1 /\ new = InsertAt(list, k, n)
    BY <1>2
  <2> DEFINE S == 1 .. K
  <2>2. list \in Seq(S) /\ n \in S
    OBVIOUS
  <2> HIDE DEF k, S
  <2>3. /\ new \in Seq(S) /\ Len(new) = Len(list) + 1
        /\ new[k] = n
        /\ \A j \in 1 .. k - 1 : new[j] = list[j]
        /\ \A j \in k .. Len(list) : new[j + 1] = list[j]
    BY <2>1, <2>2, InsertFacts
  <2> QED
    BY <2>3 DEF S
<1> HIDE DEF k, m
<1>4. \A j \in k + 1 .. m + 1 : new[j] = list[j - 1] /\ j - 1 \in k .. m
  <2> TAKE j \in k + 1 .. m + 1
  <2>1. j - 1 \in k .. m /\ (j - 1) + 1 = j
    BY <1>1, <1>2
  <2> QED
    BY <1>3, <2>1
<1>5. \A j \in 1 .. k - 1 : j \in 1 .. m /\ list[j] < n
  <2> TAKE j \in 1 .. k - 1
  <2>1. j \in 1 .. m
    BY <1>1, <1>2
  <2>2. list[j] \in 1 .. K /\ list[j] # n /\ n >= list[j]
    BY <1>1, <1>2, <2>1
  <2> QED
    BY <2>1, <2>2
<1>6. \A j \in k .. m : j \in 1 .. m /\ n < list[j]
  <2> TAKE j \in k .. m
  <2>1. j \in 1 .. m /\ k \in 1 .. m /\ n < list[k]
    BY <1>1, <1>2
  <2>2. j = k \/ list[k] < list[j]
    BY <1>1, <1>2, <2>1
  <2>3. list[j] \in 1 .. K /\ list[k] \in 1 .. K
    BY <1>1, <2>1
  <2> QED
    BY <2>1, <2>2, <2>3
<1>7. Sorted(new)
  <2> SUFFICES ASSUME NEW i \in 1 .. m + 1, NEW j \in 1 .. m + 1, i < j
               PROVE  new[i] < new[j]
    BY <1>3 DEF Sorted
  <2>1. CASE i \in 1 .. k - 1 /\ j \in 1 .. k - 1
    BY <1>1, <1>3, <1>5, <2>1
  <2>2. CASE i \in 1 .. k - 1 /\ j = k
    BY <1>3, <1>5, <2>2
  <2>3. CASE i \in 1 .. k - 1 /\ j \in k + 1 .. m + 1
    <3>1. new[i] = list[i] /\ new[j] = list[j - 1] /\ j - 1 \in k .. m
      BY <1>3, <1>4, <2>3
    <3>2. list[i] < n /\ n < list[j - 1]
      BY <1>5, <1>6, <2>3, <3>1
    <3>3. list[i] \in 1 .. K /\ list[j - 1] \in 1 .. K
      BY <1>1, <1>5, <1>6, <2>3, <3>1
    <3> QED
      BY <3>1, <3>2, <3>3
  <2>4. CASE i = k /\ j \in k + 1 .. m + 1
    BY <1>3, <1>4, <1>6, <2>4
  <2>5. CASE i \in k + 1 .. m + 1 /\ j \in k + 1 .. m + 1
    <3>1. /\ new[i] = list[i - 1] /\ new[j] = list[j - 1]
          /\ i - 1 \in k .. m /\ j - 1 \in k .. m
      BY <1>4, <2>5
    <3>2. i - 1 \in 1 .. m /\ j - 1 \in 1 .. m /\ i - 1 < j - 1
      BY <1>6, <3>1
    <3> QED
      BY <1>1, <3>1, <3>2
  <2> QED
    BY <1>1, <1>2, <2>1, <2>2, <2>3, <2>4, <2>5
<1>8. ASSUME NEW i \in 1 .. m + 1
      PROVE  new[i] = n \/ \E j \in 1 .. m : list[j] = new[i]
  <2>1. i \in 1 .. k - 1 \/ i = k \/ i \in k + 1 .. m + 1
    BY <1>1, <1>2
  <2> QED
    BY <1>3, <1>4, <1>5, <1>6, <2>1
<1>9. ASSUME NEW j \in 1 .. m
      PROVE  \E i \in 1 .. m + 1 : new[i] = list[j]
  <2>1. CASE j \in 1 .. k - 1
    <3>1. j \in 1 .. m + 1
      BY <1>1
    <3> QED
      BY <1>3, <2>1, <3>1
  <2>2. CASE j \in k .. m
    <3>1. j + 1 \in 1 .. m + 1
      BY <1>1
    <3> QED
      BY <1>3, <2>2, <3>1
  <2> QED
    BY <1>1, <1>2, <2>1, <2>2
<1>10. \A x : x = n => \E i \in 1 .. m + 1 : new[i] = x
  BY <1>2, <1>3
<1>11. \A x : (\E i \in 1 .. m + 1 : new[i] = x) <=>
                 x = n \/ \E j \in 1 .. m : list[j] = x
  BY <1>8, <1>9, <1>10
<1> QED
  BY <1>3, <1>7, <1>11 DEF m, Holds

-----------------------------------------------------------------------------
(* Every step keeps the invariant. *)
LEMMA InitIInv == Init => IInv
<1> SUFFICES ASSUME Init
             PROVE  IInv
  OBVIOUS
<1> USE DEF Init
<1>1. \A o \in Origin :
        /\ pendingSorted[o] = <<>> /\ fifoDelivered[o] = <<>>
        /\ arrived[o] = {} /\ nextToDeliver[o] = 1
  OBVIOUS
<1>2. TypeOK
  BY KAssumption DEF TypeOK
<1>3. Listed
  <2>1. \A o \in Origin : Len(pendingSorted[o]) = 0
    BY <1>1
  <2> QED
    BY <1>1, <2>1 DEF Listed, Holds, Sorted
<1>4. InTurn
  <2>1. \A o \in Origin : Len(fifoDelivered[o]) = 0
    BY <1>1
  <2> QED
    BY <1>1, <2>1 DEF InTurn
<1> QED
  BY <1>1, <1>2, <1>3, <1>4 DEF IInv, Scanned, OthersDone

LEMMA urbDeliverIInv ==
  ASSUME IInv, NEW o \in Origin, NEW n \in 1 .. K, urbDeliver(o, n)
  PROVE  IInv'
<1> DEFINE old == pendingSorted[o]
           new == InsertAt(old, Place(old, n), n)
<1> USE DEF IInv
<1>1. /\ origin = NoOrigin /\ n \notin arrived[o]
      /\ arrived' = [arrived EXCEPT ![o] = @ \cup {n}]
      /\ pendingSorted' = [pendingSorted EXCEPT ![o] = new]
      /\ origin' = o /\ seqNb' = nextToDeliver[o] /\ index' = 1
      /\ UNCHANGED <<nextToDeliver, fifoDelivered>>
  BY DEF urbDeliver, addToPending
<1>2. old \in Seq(1 .. K) /\ Sorted(old)
  BY DEF TypeOK, Listed, Holds
<1>3. \A i \in 1 .. Len(old) : old[i] # n
  BY <1>1 DEF Listed, Holds
<1> HIDE DEF new, old
<1>4. /\ new \in Seq(1 .. K)
      /\ Sorted(new)
      /\ \A x \in 1 .. K : Holds(new, x) <=> x = n \/ Holds(old, x)
  <2>1. new = InsertAt(old, Place(old, n), n)
    BY DEF new
  <2> QED
    BY <1>2, <1>3, <2>1, InsertSorted
<1> USE DEF old
<1>5. /\ arrived'[o] = arrived[o] \cup {n} /\ pendingSorted'[o] = new
      /\ \A q \in Origin \ {o} :
           arrived'[q] = arrived[q] /\ pendingSorted'[q] = pendingSorted[q]
  BY <1>1 DEF TypeOK
<1>6. TypeOK'
  <2>1. arrived' \in [Origin -> SUBSET (1 .. K)]
    BY <1>1 DEF TypeOK
  <2>2. pendingSorted' \in [Origin -> Seq(1 .. K)]
    BY <1>1, <1>4 DEF TypeOK
  <2>3. seqNb' \in 0 .. K + 1
    BY <1>1, KAssumption DEF TypeOK
  <2> QED
    BY <1>1, <2>1, <2>2, <2>3 DEF TypeOK
<1>7. Listed'
  <2>1. ASSUME NEW q \in Origin
        PROVE  /\ Sorted(pendingSorted'[q])
               /\ \A m \in 1 .. K : m \in arrived'[q] <=>
                    Holds(pendingSorted'[q], m)
    <3>1. CASE q = o
      <4>1. Sorted(new)
        BY <1>4
      <4>2. \A m \in 1 .. K : m \in arrived[o] <=> Holds(old, m)
        BY DEF Listed, Holds
      <4>3. \A m \in 1 .. K : m \in arrived[o] \cup {n} <=> Holds(new, m)
        BY <1>4, <4>2
      <4> QED
        BY <1>5, <3>1, <4>1, <4>3
    <3>2. CASE q # o
      BY <1>5, <3>2 DEF Listed, Holds
    <3> QED
      BY <3>1, <3>2
  <2> QED
    BY <2>1 DEF Listed, Sorted, Holds
<1>8. InTurn'
  BY <1>1, <1>5 DEF InTurn
<1>9. Scanned'
  <2>1. Len(new) \in Nat
    BY <1>4
  <2> QED
    BY <1>1, <1>5, <2>1 DEF Scanned
<1>10. OthersDone'
  <2>1. \A q \in Origin : q # NoOrigin
    BY NoOriginAssumption
  <2>2. \A q \in Origin : nextToDeliver[q] \notin arrived[q]
    BY <1>1, <2>1 DEF OthersDone
  <2> QED
    BY <1>1, <1>5, <2>2 DEF OthersDone
<1> QED
  BY <1>6, <1>7, <1>8, <1>9, <1>10

(* What the scan sees. *)
LEMMA ScanFacts ==
  ASSUME IInv, Scanning
  PROVE  /\ origin \in Origin
         /\ index \in 1 .. Len(pendingSorted[origin])
         /\ pendingSorted[origin] \in Seq(1 .. K)
         /\ pendingSorted[origin][index] \in 1 .. K
         /\ seqNb = nextToDeliver[origin]
         /\ seqNb \in 1 .. K + 1
<1>1. origin \in Origin /\ pendingSorted[origin] \in Seq(1 .. K)
  BY DEF IInv, TypeOK, Scanning
<1>2. /\ Len(pendingSorted[origin]) \in Nat
      /\ \A i \in 1 .. Len(pendingSorted[origin]) :
           pendingSorted[origin][i] \in 1 .. K
  BY <1>1, Payloads
<1>3. index \in 1 .. Len(pendingSorted[origin]) + 1
      /\ index <= Len(pendingSorted[origin])
  BY DEF IInv, Scanned, Scanning
<1>4. index \in 1 .. Len(pendingSorted[origin])
  BY <1>2, <1>3
<1>5. seqNb = nextToDeliver[origin] /\ seqNb \in 1 .. K + 1
  BY <1>1 DEF IInv, Scanned, Scanning, TypeOK
<1> QED
  BY <1>1, <1>2, <1>4, <1>5

LEMMA ScanDeliverIInv == ASSUME IInv, ScanDeliver PROVE IInv'
<1> DEFINE list == pendingSorted[origin]
           out == fifoDelivered[origin]
           n == list[index]
<1> USE DEF IInv
<1>1. /\ Scanning /\ n = seqNb
      /\ seqNb' = seqNb + 1
      /\ nextToDeliver' = [nextToDeliver EXCEPT ![origin] = seqNb + 1]
      /\ fifoDelivered' = [fifoDelivered EXCEPT ![origin] = Append(@, n)]
      /\ index' = index + 1
      /\ UNCHANGED <<arrived, pendingSorted, origin>>
  BY DEF ScanDeliver, MyTurn
<1>2. /\ origin \in Origin /\ index \in 1 .. Len(list)
      /\ list \in Seq(1 .. K) /\ n \in 1 .. K /\ seqNb = nextToDeliver[origin]
  BY <1>1, ScanFacts
<1>3. /\ nextToDeliver'[origin] = seqNb + 1
      /\ fifoDelivered'[origin] = Append(out, n)
      /\ \A o \in Origin \ {origin} :
           /\ nextToDeliver'[o] = nextToDeliver[o]
           /\ fifoDelivered'[o] = fifoDelivered[o]
  BY <1>1, <1>2 DEF TypeOK
<1>4. TypeOK'
  <2>1. seqNb + 1 \in 1 .. K + 1
    BY <1>1, <1>2, KAssumption
  <2>2. nextToDeliver' \in [Origin -> 1 .. K + 1]
    BY <1>1, <2>1 DEF TypeOK
  <2>3. fifoDelivered' \in [Origin -> Seq(1 .. K)]
    BY <1>1, <1>2 DEF TypeOK
  <2>4. seqNb' \in 0 .. K + 1 /\ index' \in Nat
    BY <1>1, <2>1, KAssumption DEF TypeOK
  <2> QED
    BY <1>1, <2>2, <2>3, <2>4 DEF TypeOK
<1>5. Listed'
  BY <1>1 DEF Listed, Holds, Sorted
<1>6. InTurn'
  <2>1. out \in Seq(1 .. K)
    BY <1>2 DEF TypeOK
  <2>2. n \in arrived[origin]
    BY <1>2 DEF Listed, Holds
  <2>3. /\ n = Len(out) + 1
        /\ \A k \in 1 .. Len(out) : out[k] = k /\ k \in arrived[origin]
    BY <1>1, <1>2 DEF InTurn
  <2> HIDE DEF out, n
  <2>4. /\ Len(Append(out, n)) = n
        /\ \A k \in 1 .. n :
             Append(out, n)[k] = k /\ k \in arrived[origin]
    <3>1. /\ Len(out) \in Nat /\ Len(Append(out, n)) = Len(out) + 1
          /\ \A k \in 1 .. Len(out) : Append(out, n)[k] = out[k]
          /\ Append(out, n)[Len(out) + 1] = n
      BY <1>2, <2>1, AppendProperties
    <3> QED
      BY <2>2, <2>3, <3>1
  <2>5. ASSUME NEW o \in Origin
        PROVE  /\ nextToDeliver'[o] = Len(fifoDelivered'[o]) + 1
               /\ \A k \in 1 .. Len(fifoDelivered'[o]) :
                    fifoDelivered'[o][k] = k /\ k \in arrived'[o]
    <3>1. CASE o = origin
      BY <1>1, <1>3, <2>4, <3>1
    <3>2. CASE o # origin
      BY <1>1, <1>3, <3>2 DEF InTurn
    <3> QED
      BY <3>1, <3>2
  <2> QED
    BY <2>5 DEF InTurn
<1>7. Scanned'
  <2>1. \A j \in 1 .. index : list[j] # seqNb + 1
    <3> SUFFICES ASSUME NEW j \in 1 .. index
                 PROVE  list[j] # seqNb + 1
      OBVIOUS
    <3>1. j \in 1 .. Len(list) /\ list[j] \in 1 .. K
      BY <1>2, Payloads
    <3>2. j = index \/ list[j] < n
      BY <1>2, <3>1 DEF Listed, Holds, Sorted
    <3> QED
      BY <1>1, <1>2, <3>1, <3>2
  <2>2. index + 1 \in 1 .. Len(list) + 1 /\ (index + 1) - 1 = index
    BY <1>2
  <2> QED
    BY <1>1, <1>3, <2>1, <2>2 DEF Scanned
<1>8. OthersDone'
  BY <1>1, <1>3 DEF OthersDone
<1> QED
  BY <1>4, <1>5, <1>6, <1>7, <1>8

LEMMA ScanSkipIInv == ASSUME IInv, ScanSkip PROVE IInv'
<1> USE DEF IInv
<1>1. /\ Scanning /\ pendingSorted[origin][index] # seqNb
      /\ index' = index + 1
      /\ UNCHANGED <<arrived, pendingSorted, nextToDeliver, origin, seqNb,
                     fifoDelivered>>
  BY DEF ScanSkip, MyTurn
<1>2. /\ origin \in Origin /\ index \in 1 .. Len(pendingSorted[origin])
      /\ seqNb = nextToDeliver[origin]
  BY <1>1, ScanFacts
<1>3. TypeOK'
  BY <1>1, <1>2 DEF TypeOK
<1>4. Listed' /\ InTurn' /\ OthersDone'
  BY <1>1 DEF Listed, Holds, Sorted, InTurn, OthersDone
<1>5. Scanned'
  <2>1. \A j \in 1 .. index : pendingSorted[origin][j] # seqNb
    <3>1. \A j \in 1 .. index : j = index \/ j \in 1 .. index - 1
      BY <1>2
    <3> QED
      BY <1>1, <3>1 DEF Scanned, Scanning
  <2>2. /\ index + 1 \in 1 .. Len(pendingSorted[origin]) + 1
        /\ (index + 1) - 1 = index
    BY <1>2
  <2> QED
    BY <1>1, <1>2, <2>1, <2>2 DEF Scanned
<1> QED
  BY <1>3, <1>4, <1>5

LEMMA ScanEndIInv == ASSUME IInv, ScanEnd PROVE IInv'
<1> DEFINE list == pendingSorted[origin]
<1> USE DEF IInv
<1>1. /\ origin # NoOrigin /\ ~Scanning
      /\ nextToDeliver' = [nextToDeliver EXCEPT ![origin] = seqNb]
      /\ origin' = NoOrigin
      /\ UNCHANGED <<arrived, pendingSorted, seqNb, index, fifoDelivered>>
  BY DEF ScanEnd
<1>2. /\ origin \in Origin /\ list \in Seq(1 .. K)
      /\ seqNb = nextToDeliver[origin] /\ seqNb \in 1 .. K + 1
  BY <1>1 DEF TypeOK, Scanned
<1>3. nextToDeliver' = nextToDeliver
  BY <1>1, <1>2 DEF TypeOK
<1>4. TypeOK' /\ Listed' /\ InTurn' /\ Scanned'
  BY <1>1, <1>3 DEF TypeOK, Listed, Holds, Sorted, InTurn, Scanned
<1>5. seqNb \notin arrived[origin]
  <2>1. Len(list) \in Nat /\ index \in 1 .. Len(list) + 1
        /\ ~(index <= Len(list))
    BY <1>1, <1>2 DEF Scanned, Scanning
  <2>2. \A j \in 1 .. Len(list) : list[j] # seqNb
    <3>1. index - 1 = Len(list)
      BY <2>1
    <3> QED
      BY <1>1, <3>1 DEF Scanned
  <2>3. seqNb \notin 1 .. K \/ seqNb \notin arrived[origin]
    BY <1>2, <2>2 DEF Listed, Holds
  <2> QED
    BY <1>2, <2>3 DEF TypeOK
<1>6. OthersDone'
  BY <1>1, <1>2, <1>3, <1>5 DEF OthersDone
<1> QED
  BY <1>4, <1>6

LEMMA NextIInv ==
  ASSUME IInv, [Next]_vars
  PROVE  IInv'
<1>1. ASSUME NEW o \in Origin, NEW n \in 1 .. K, urbDeliver(o, n)
      PROVE  IInv'
  BY <1>1, urbDeliverIInv
<1>2. CASE ScanDeliver
  BY <1>2, ScanDeliverIInv
<1>3. CASE ScanSkip
  BY <1>3, ScanSkipIInv
<1>4. CASE ScanEnd
  BY <1>4, ScanEndIInv
<1>5. CASE UNCHANGED vars
  BY <1>5
     DEF vars, IInv, TypeOK, Listed, Holds, Sorted, InTurn, Scanned, OthersDone
<1> QED
  BY <1>1, <1>2, <1>3, <1>4, <1>5 DEF Next

LEMMA Invariance == Spec => []IInv
<1>1. IInv /\ [Next]_vars => IInv'
  BY NextIInv
<1> QED
  BY <1>1, InitIInv, PTL DEF Spec

-----------------------------------------------------------------------------
(* fifob.cpp keeps one list and one counter for each process of the hosts    *)
(* file, and its counters stay within one of the number of messages.         *)
THEOREM TypeCorrect == Spec => []TypeOK
<1>1. IInv => TypeOK
  BY DEF IInv
<1> QED
  BY <1>1, Invariance, PTL

(* fifoDeliver is called with the packets of an origin in the order of their *)
(* broadcast and without a gap, whatever the order of their arrival.         *)
THEOREM PacketsInOrder == Spec => []FifoOrder
<1>1. ASSUME IInv
      PROVE  FifoOrder
  <2> SUFFICES ASSUME NEW o \in Origin
               PROVE  /\ \A k \in DOMAIN fifoDelivered[o] :
                           fifoDelivered[o][k] = k
                      /\ ToSet(fifoDelivered[o]) \subseteq arrived[o]
    BY DEF FifoOrder
  <2>1. fifoDelivered[o] \in Seq(1 .. K)
    BY <1>1 DEF IInv, TypeOK
  <2>2. DOMAIN fifoDelivered[o] = 1 .. Len(fifoDelivered[o])
    BY <2>1
  <2>3. \A k \in 1 .. Len(fifoDelivered[o]) :
          fifoDelivered[o][k] = k /\ k \in arrived[o]
    BY <1>1 DEF IInv, InTurn
  <2> QED
    BY <2>2, <2>3 DEF ToSet
<1> QED
  BY <1>1, Invariance, PTL

LEMMA NoneHeldBackHolds == ASSUME IInv PROVE NoneHeldBack
<1>1. \A o \in Origin : o # NoOrigin
  BY NoOriginAssumption
<1> QED
  BY <1>1 DEF IInv, OthersDone, NoneHeldBack

(* When urbDeliver has returned, no packet whose turn has come is left on    *)
(* the list: one pass is enough.                                             *)
THEOREM OnePassIsEnough == Spec => []NoneHeldBack
<1>1. IInv => NoneHeldBack
  BY NoneHeldBackHolds
<1> QED
  BY <1>1, Invariance, PTL

=============================================================================
