----------------------------- MODULE StartupProofs -----------------------------
(***************************************************************************)
(* Startup and Parser, for any number of processes, any hosts files and any  *)
(* words for the numbers.  First what the parser's loops and its sort do,    *)
(* then an inductive invariant of the constructors and the listener.         *)
(***************************************************************************)
EXTENDS Startup, SequenceTheorems, FiniteSetTheorems, TLAPS

(* Induction, on a set of numbers. *)
LEMMA CountTo ==
  ASSUME NEW m \in Nat, NEW T, 0 \in T,
         \A k \in 1 .. m : k - 1 \in T => k \in T
  PROVE  \A k \in 0 .. m : k \in T
<1> DEFINE R == OpToRel(<, Nat)
           U == {k \in 0 .. m : k \notin T}
<1>1. SUFFICES ASSUME U # {}
               PROVE  FALSE
  OBVIOUS
<1>2. U \subseteq Nat
  OBVIOUS
<1>3. IsWellFoundedOn(R, Nat)
  BY NatLessThanWellFounded
<1> HIDE DEF R, U
<1>4. PICK k \in U : \A j \in U : ~ (<<j, k>> \in R)
  BY <1>1, <1>2, <1>3, WFMin
<1> USE DEF U
<1>5. k \in 1 .. m /\ k - 1 \in 0 .. m /\ k - 1 < k
  BY <1>4
<1>6. k - 1 \in T
  <2>1. <<k - 1, k>> \in R
    BY <1>2, <1>5, Zenon DEF R, OpToRel
  <2> QED
    BY <1>4, <1>5, <2>1
<1> QED
  BY <1>4, <1>5, <1>6

-----------------------------------------------------------------------------
(* The loop that Kept stands for. *)

KeptNext(s, S, t, k) == IF s[k] \in S THEN Append(t, s[k]) ELSE t

KeptAfter(s, S, f, m) ==
  f[0] = <<>> /\ \A k \in 1 .. m : f[k] = KeptNext(s, S, f[k - 1], k)

LEMMA KeptExists ==
  ASSUME NEW s, NEW S, NEW m \in Nat
  PROVE  \E f : DOMAIN f = 0 .. m /\ f = [k \in 0 .. m |-> f[k]]
                /\ KeptAfter(s, S, f, m)
<1> DEFINE Passes(j, f) == /\ f = [k \in 0 .. j |-> f[k]]
                           /\ KeptAfter(s, S, f, j)
           T == {j \in 0 .. m : \E f : Passes(j, f)}
<1>1. 0 \in T
  <2> DEFINE f == [k \in 0 .. 0 |-> <<>>]
  <2>1. /\ f = [k \in 0 .. 0 |-> f[k]] /\ f[0] = <<>>
        /\ \A k \in 1 .. 0 : FALSE
    OBVIOUS
  <2> HIDE DEF f
  <2>2. Passes(0, f)
    BY <2>1 DEF KeptAfter
  <2> QED
    BY <2>2
<1>2. ASSUME NEW j \in 1 .. m, j - 1 \in T
      PROVE  j \in T
  <2>1. PICK f : Passes(j - 1, f)
    BY <1>2
  <2> DEFINE g == [k \in 0 .. j |-> IF k = j THEN KeptNext(s, S, f[j - 1], j)
                                    ELSE f[k]]
  <2>2. \A k \in 0 .. j : k # j => k \in 0 .. j - 1
    OBVIOUS
  <2>3. /\ g = [k \in 0 .. j |-> g[k]]
        /\ g[j] = KeptNext(s, S, f[j - 1], j)
        /\ \A k \in 0 .. j - 1 : g[k] = f[k]
    OBVIOUS
  <2> HIDE DEF g
  <2>4. f[0] = <<>> /\ \A k \in 1 .. j - 1 : f[k] = KeptNext(s, S, f[k - 1], k)
    BY <2>1 DEF KeptAfter
  <2>5. g[0] = <<>>
    BY <2>3, <2>4
  <2>6. ASSUME NEW k \in 1 .. j
        PROVE  g[k] = KeptNext(s, S, g[k - 1], k)
    <3>1. k - 1 \in 0 .. j - 1
      OBVIOUS
    <3>2. g[k - 1] = f[k - 1]
      BY <2>3, <3>1
    <3>3. CASE k = j
      BY <2>3, <3>2, <3>3
    <3>4. CASE k # j
      <4>1. k \in 1 .. j - 1 /\ k \in 0 .. j - 1
        BY <3>4
      <4> QED
        BY <2>3, <2>4, <3>2, <4>1
    <3> QED
      BY <3>3, <3>4
  <2>7. Passes(j, g)
    BY <2>3, <2>5, <2>6 DEF KeptAfter
  <2> HIDE DEF Passes
  <2> QED
    BY <2>7
<1> HIDE DEF T
<1>3. m \in 0 .. m /\ \A j \in 0 .. m : j \in T
  BY <1>1, <1>2, CountTo
<1>4. PICK f : Passes(m, f)
  BY <1>3 DEF T
<1> QED
  BY <1>4

LEMMA KeptIs ==
  ASSUME NEW R, NEW s \in Seq(R), NEW S
  PROVE  \E f : Kept(s, S) = f[Len(s)] /\ KeptAfter(s, S, f, Len(s))
<1> DEFINE m == Len(s)
           G(f) == [k \in 0 .. m |->
                      IF k = 0 THEN <<>>
                      ELSE IF s[k] \in S THEN Append(f[k - 1], s[k]) ELSE f[k - 1]]
           g == CHOOSE f : f = G(f)
<1>1. m \in Nat
  BY LenProperties
<1>2. Kept(s, S) = g[m]
  BY DEF Kept
<1>3. PICK f : f = [k \in 0 .. m |-> f[k]] /\ KeptAfter(s, S, f, m)
  BY <1>1, KeptExists
<1>4. \A k \in 0 .. m : k # 0 => k \in 1 .. m
  BY <1>1
<1>5. f = G(f)
  BY <1>3, <1>4 DEF KeptAfter, KeptNext
<1> HIDE DEF G
<1>6. g = G(g)
  BY <1>5
<1> HIDE DEF g
<1>7. \A k \in 1 .. m : k \in 0 .. m /\ k # 0
  BY <1>1
<1>8. 0 \in 0 .. m
  BY <1>1
<1>9. KeptAfter(s, S, g, m)
  BY <1>6, <1>7, <1>8 DEF G, KeptAfter, KeptNext
<1> QED
  BY <1>2, <1>9

LEMMA AppendToSet ==
  ASSUME NEW R, NEW t \in Seq(R), NEW e \in R
  PROVE  /\ Append(t, e) \in Seq(R) /\ Len(Append(t, e)) = Len(t) + 1
         /\ \A i \in 1 .. Len(t) : Append(t, e)[i] = t[i]
         /\ Append(t, e)[Len(t) + 1] = e
         /\ ToSet(Append(t, e)) = ToSet(t) \cup {e}
<1> DEFINE u == Append(t, e)
           m == Len(t)
<1>1. /\ u \in Seq(R) /\ Len(u) = m + 1 /\ m \in Nat
      /\ \A i \in 1 .. m : u[i] = t[i]
      /\ u[m + 1] = e
      /\ DOMAIN u = 1 .. m + 1 /\ DOMAIN t = 1 .. m
  BY AppendProperties, LenProperties
<1> HIDE DEF u, m
<1>2. ToSet(u) = ToSet(t) \cup {e}
  <2>1. 1 .. m + 1 = 1 .. m \cup {m + 1}
    BY <1>1
  <2> QED
    BY <1>1, <2>1 DEF ToSet
<1> QED
  BY <1>1, <1>2 DEF u, m

(* The elements that are kept. *)
LEMMA KeptElements ==
  ASSUME NEW R, NEW s \in Seq(R), NEW S
  PROVE  Kept(s, S) \in Seq(R \cap S) /\ ToSet(Kept(s, S)) = ToSet(s) \cap S
<1> DEFINE m == Len(s)
           First(k) == {s[i] : i \in 1 .. k}
<1>1. m \in Nat /\ DOMAIN s = 1 .. m /\ \A k \in 1 .. m : s[k] \in R
  BY LenProperties, ElementOfSeq
<1>2. PICK f : Kept(s, S) = f[m] /\ KeptAfter(s, S, f, m)
  BY KeptIs
<1> DEFINE T == {k \in 0 .. m : /\ f[k] \in Seq(R \cap S)
                                /\ ToSet(f[k]) = First(k) \cap S}
<1>3. 0 \in T
  <2>1. f[0] = <<>> /\ <<>> \in Seq(R \cap S) /\ 0 \in 0 .. m
    BY <1>1, <1>2, EmptySeq DEF KeptAfter
  <2>2. ToSet(<<>>) = {} /\ First(0) = {}
    BY DEF ToSet
  <2> QED
    BY <2>1, <2>2
<1>4. ASSUME NEW k \in 1 .. m, k - 1 \in T
      PROVE  k \in T
  <2>1. /\ f[k] = KeptNext(s, S, f[k - 1], k)
        /\ f[k - 1] \in Seq(R \cap S) /\ ToSet(f[k - 1]) = First(k - 1) \cap S
    BY <1>2, <1>4 DEF KeptAfter
  <2>2. First(k) = First(k - 1) \cup {s[k]}
    <3>1. 1 .. k = 1 .. k - 1 \cup {k}
      OBVIOUS
    <3> QED
      BY <3>1
  <2>3. k \in 0 .. m
    OBVIOUS
  <2> HIDE DEF First
  <2>4. CASE s[k] \in S
    <3>1. s[k] \in R \cap S /\ f[k] = Append(f[k - 1], s[k])
      BY <1>1, <2>1, <2>4 DEF KeptNext
    <3>2. f[k] \in Seq(R \cap S) /\ ToSet(f[k]) = ToSet(f[k - 1]) \cup {s[k]}
      BY <2>1, <3>1, AppendToSet
    <3> QED
      BY <2>1, <2>2, <2>3, <3>1, <3>2
  <2>5. CASE s[k] \notin S
    BY <2>1, <2>2, <2>3, <2>5 DEF KeptNext
  <2> QED
    BY <2>4, <2>5
<1> HIDE DEF T
<1>5. m \in T
  <2>1. \A k \in 0 .. m : k \in T
    BY <1>1, <1>3, <1>4, CountTo
  <2> QED
    BY <1>1, <2>1
<1> QED
  BY <1>1, <1>2, <1>5 DEF T, ToSet

(* All elements are kept, or all but the one at j. *)
LEMMA KeptButOne ==
  ASSUME NEW R, NEW s \in Seq(R), NEW S, NEW j \in 1 .. Len(s) + 1,
         \A i \in 1 .. Len(s) : s[i] \in S <=> i # j
  PROVE  /\ Kept(s, S) \in Seq(R)
         /\ Len(Kept(s, S)) = IF j <= Len(s) THEN Len(s) - 1 ELSE Len(s)
         /\ \A i \in 1 .. Len(Kept(s, S)) :
              Kept(s, S)[i] = IF i < j THEN s[i] ELSE s[i + 1]
<1> DEFINE m == Len(s)
           Length(k) == IF j <= k THEN k - 1 ELSE k
<1>1. m \in Nat /\ DOMAIN s = 1 .. m /\ \A k \in 1 .. m : s[k] \in R
  BY LenProperties, ElementOfSeq
<1>2. PICK f : Kept(s, S) = f[m] /\ KeptAfter(s, S, f, m)
  BY KeptIs
<1> DEFINE T == {k \in 0 .. m :
                   /\ f[k] \in Seq(R) /\ Len(f[k]) = Length(k)
                   /\ \A i \in 1 .. Length(k) :
                        f[k][i] = IF i < j THEN s[i] ELSE s[i + 1]}
<1>3. 0 \in T
  <2>1. f[0] = <<>> /\ <<>> \in Seq(R) /\ Len(<<>>) = 0 /\ 0 \in 0 .. m
    BY <1>1, <1>2, EmptySeq DEF KeptAfter
  <2>2. Length(0) = 0 /\ \A i \in 1 .. 0 : FALSE
    OBVIOUS
  <2> HIDE DEF Length
  <2> QED
    BY <2>1, <2>2
<1>4. ASSUME NEW k \in 1 .. m, k - 1 \in T
      PROVE  k \in T
  <2>1. /\ f[k] = KeptNext(s, S, f[k - 1], k)
        /\ f[k - 1] \in Seq(R) /\ Len(f[k - 1]) = Length(k - 1)
        /\ \A i \in 1 .. Length(k - 1) :
             f[k - 1][i] = IF i < j THEN s[i] ELSE s[i + 1]
    BY <1>2, <1>4 DEF KeptAfter
  <2>2. k \in 0 .. m
    OBVIOUS
  <2>3. CASE k # j
    <3>1. s[k] \in R /\ f[k] = Append(f[k - 1], s[k])
      BY <1>1, <2>1, <2>3 DEF KeptNext
    <3>2. /\ f[k] \in Seq(R) /\ Len(f[k]) = Len(f[k - 1]) + 1
          /\ \A i \in 1 .. Len(f[k - 1]) : f[k][i] = f[k - 1][i]
          /\ f[k][Len(f[k - 1]) + 1] = s[k]
      <4> DEFINE t == f[k - 1]
      <4>1. t \in Seq(R) /\ f[k] = Append(t, s[k])
        BY <2>1, <3>1
      <4> HIDE DEF t
      <4>2. /\ f[k] \in Seq(R) /\ Len(f[k]) = Len(t) + 1
            /\ \A i \in 1 .. Len(t) : f[k][i] = t[i]
            /\ f[k][Len(t) + 1] = s[k]
        BY <3>1, <4>1, AppendToSet
      <4> QED
        BY <4>2 DEF t
    <3>3. /\ Length(k) = Length(k - 1) + 1
          /\ Length(k) \in Nat /\ Length(k - 1) \in Nat
          /\ k = IF Length(k) < j THEN Length(k) ELSE Length(k) + 1
      BY <1>1, <2>3
    <3> HIDE DEF Length
    <3>4. \A i \in 1 .. Length(k) : i \in 1 .. Length(k - 1) \/ i = Length(k)
      BY <3>3
    <3>5. f[k] \in Seq(R) /\ Len(f[k]) = Length(k)
      BY <2>1, <3>2, <3>3
    <3>6. ASSUME NEW i \in 1 .. Length(k)
          PROVE  f[k][i] = IF i < j THEN s[i] ELSE s[i + 1]
      <4>1. CASE i = Length(k)
        <5>1. f[k][i] = s[k] /\ s[k] = IF i < j THEN s[i] ELSE s[i + 1]
          BY <2>1, <3>2, <3>3, <4>1
        <5> QED
          BY <5>1
      <4>2. CASE i \in 1 .. Length(k - 1)
        <5>1. f[k][i] = f[k - 1][i]
          BY <2>1, <3>2, <4>2
        <5> QED
          BY <2>1, <4>2, <5>1
      <4> QED
        BY <3>4, <4>1, <4>2
    <3> QED
      BY <2>2, <3>5, <3>6
  <2>4. CASE k = j
    <3>1. f[k] = f[k - 1]
      BY <1>1, <2>1, <2>4 DEF KeptNext
    <3>2. Length(k) = Length(k - 1)
      BY <1>1, <2>4
    <3> HIDE DEF Length
    <3> QED
      BY <2>1, <2>2, <3>1, <3>2
  <2> QED
    BY <2>3, <2>4
<1> HIDE DEF T
<1>5. m \in T
  <2>1. \A k \in 0 .. m : k \in T
    BY <1>1, <1>3, <1>4, CountTo
  <2> QED
    BY <1>1, <2>1
<1> QED
  BY <1>1, <1>2, <1>5 DEF T

-----------------------------------------------------------------------------
(* The sort of hosts(). *)

LEMMA IncreasingIsIdentity ==
  ASSUME NEW m \in Nat, NEW x \in [1 .. m -> 1 .. m],
         \A i, j \in 1 .. m : i < j => x[i] < x[j]
  PROVE  \A k \in 1 .. m : x[k] = k
<1> DEFINE T == {k \in 0 .. m : k # 0 => k <= x[k]}
           U == {k \in 0 .. m : k # m => x[m - k] <= m - k}
<1>1. 0 \in T
  OBVIOUS
<1>2. ASSUME NEW k \in 1 .. m, k - 1 \in T
      PROVE  k \in T
  <2>1. x[k] \in 1 .. m /\ k \in 0 .. m
    OBVIOUS
  <2>2. CASE k = 1
    BY <2>1, <2>2
  <2>3. CASE k # 1
    <3>1. k - 1 \in 1 .. m /\ k - 1 < k
      BY <2>3
    <3>2. x[k - 1] < x[k] /\ k - 1 <= x[k - 1] /\ x[k - 1] \in 1 .. m
      BY <1>2, <3>1
    <3> QED
      BY <2>1, <3>2
  <2> QED
    BY <2>2, <2>3
<1>3. 0 \in U
  OBVIOUS
<1>4. ASSUME NEW k \in 1 .. m, k - 1 \in U
      PROVE  k \in U
  <2> SUFFICES ASSUME k # m
               PROVE  x[m - k] <= m - k
    OBVIOUS
  <2>1. /\ m - k \in 1 .. m /\ m - (k - 1) \in 1 .. m
        /\ m - k < m - (k - 1) /\ k - 1 # m
    OBVIOUS
  <2>2. /\ x[m - k] < x[m - (k - 1)] /\ x[m - (k - 1)] <= m - (k - 1)
        /\ x[m - k] \in 1 .. m /\ x[m - (k - 1)] \in 1 .. m
    BY <1>4, <2>1
  <2> QED
    BY <2>2
<1> HIDE DEF T, U
<1>5. \A k \in 0 .. m : k \in T
  BY <1>1, <1>2, CountTo
<1>6. \A k \in 0 .. m : k \in U
  BY <1>3, <1>4, CountTo
<1> QED
  <2> TAKE k \in 1 .. m
  <2>1. k \in 0 .. m /\ m - k \in 0 .. m /\ m - (m - k) = k /\ m - k # m
    OBVIOUS
  <2>2. k \in T /\ m - k \in U
    BY <1>5, <1>6, <2>1
  <2>3. k <= x[k]
    BY <2>2 DEF T
  <2>4. x[m - (m - k)] <= m - (m - k)
    BY <2>1, <2>2 DEF U
  <2>5. x[k] <= k
    BY <2>1, <2>4
  <2> QED
    BY <2>3, <2>5

(* The hosts of a file, if their ids are 1 .. the number of hosts. *)
Compact(file) ==
  /\ Hosts(file) \in Seq(Host)
  /\ {Hosts(file)[i].id : i \in 1 .. Len(Hosts(file))} = 1 .. Len(Hosts(file))
  /\ \A i, j \in 1 .. Len(Hosts(file)) :
       Hosts(file)[i].id = Hosts(file)[j].id => i = j

LEMMA SortedHosts ==
  ASSUME NEW file, Compact(file)
  PROVE  /\ hosts(file) \in Seq(Host) /\ Len(hosts(file)) = Len(Hosts(file))
         /\ \A k \in 1 .. Len(Hosts(file)) : hosts(file)[k].id = k
<1> DEFINE found == Hosts(file)
           m == Len(found)
           Sorted(f) ==
             \A i, j \in DOMAIN found : i < j => found[f[i]].id <= found[f[j]].id
           order == CHOOSE f \in Bijection(DOMAIN found, DOMAIN found) : Sorted(f)
<1>1. /\ found \in Seq(Host) /\ m \in Nat /\ DOMAIN found = 1 .. m
      /\ \A i \in 1 .. m : found[i] \in Host /\ found[i].id \in 1 .. m
      /\ \A k \in 1 .. m : \E i \in 1 .. m : found[i].id = k
      /\ \A i, j \in 1 .. m : found[i].id = found[j].id => i = j
  <2>1. found \in Seq(Host) /\ m \in Nat /\ DOMAIN found = 1 .. m
    BY LenProperties DEF Compact
  <2>2. {found[i].id : i \in 1 .. m} = 1 .. m
    BY DEF Compact
  <2>3. \A i, j \in 1 .. m : found[i].id = found[j].id => i = j
    BY DEF Compact
  <2> HIDE DEF found, m
  <2>4. \A i \in 1 .. m : found[i].id \in 1 .. m
    BY <2>2
  <2>5. \A k \in 1 .. m : \E i \in 1 .. m : found[i].id = k
    BY <2>2
  <2>6. \A i \in 1 .. m : found[i] \in Host
    BY <2>1, ElementOfSeq DEF m
  <2> QED
    BY <2>1, <2>3, <2>4, <2>5, <2>6
<1>2. hosts(file) = [k \in DOMAIN found |-> found[order[k]]]
  BY DEF hosts
<1> HIDE DEF found, m
<1> DEFINE g == [k \in 1 .. m |-> CHOOSE i \in 1 .. m : found[i].id = k]
<1>3. \A k \in 1 .. m : g[k] \in 1 .. m /\ found[g[k]].id = k
  BY <1>1
<1>4. g \in [1 .. m -> 1 .. m]
  BY <1>3
<1> HIDE DEF g
<1>5. \A i, j \in 1 .. m : g[i] = g[j] => i = j
  BY <1>3
<1>6. \A k \in 1 .. m : \E i \in 1 .. m : g[i] = k
  <2> TAKE k \in 1 .. m
  <2> DEFINE c == found[k].id
  <2>1. c \in 1 .. m
    BY <1>1
  <2>2. g[c] \in 1 .. m /\ found[g[c]].id = found[k].id
    BY <1>3, <2>1
  <2>3. g[c] = k
    BY <1>1, <2>2
  <2> QED
    BY <2>1, <2>3
<1>7. g \in Bijection(DOMAIN found, DOMAIN found)
  BY <1>1, <1>4, <1>5, <1>6 DEF Bijection, Injection, Surjection, IsInjective
<1>8. Sorted(g)
  <2> SUFFICES ASSUME NEW i \in 1 .. m, NEW j \in 1 .. m, i < j
               PROVE  found[g[i]].id <= found[g[j]].id
    BY <1>1
  <2>1. found[g[i]].id = i /\ found[g[j]].id = j
    BY <1>3
  <2> QED
    BY <2>1
<1> HIDE DEF Sorted
<1>9. order \in Bijection(DOMAIN found, DOMAIN found) /\ Sorted(order)
  BY <1>7, <1>8
<1> HIDE DEF order
<1>10. /\ order \in [1 .. m -> 1 .. m]
       /\ \A i, j \in 1 .. m : order[i] = order[j] => i = j
  BY <1>1, <1>9 DEF Bijection, Injection, IsInjective
<1> DEFINE x == [k \in 1 .. m |-> found[order[k]].id]
<1>11. x \in [1 .. m -> 1 .. m]
  BY <1>1, <1>10
<1>12. \A i, j \in 1 .. m : i < j => x[i] < x[j]
  <2> TAKE i, j \in 1 .. m
  <2> HAVE i < j
  <2>1. x[i] <= x[j]
    BY <1>1, <1>9 DEF Sorted
  <2>2. order[i] # order[j] /\ order[i] \in 1 .. m /\ order[j] \in 1 .. m
    BY <1>10
  <2>3. x[i] # x[j]
    BY <1>1, <2>2
  <2>4. x[i] \in 1 .. m /\ x[j] \in 1 .. m
    BY <1>11
  <2> HIDE DEF x
  <2> QED
    BY <2>1, <2>3, <2>4
<1>13. \A k \in 1 .. m : x[k] = k
  <2> HIDE DEF x
  <2> QED
    BY <1>1, <1>11, <1>12, IncreasingIsIdentity
<1>14. \A k \in 1 .. m : found[order[k]] \in Host /\ found[order[k]].id = k
  BY <1>1, <1>10, <1>13
<1>15. hosts(file) \in [1 .. m -> Host]
  BY <1>1, <1>2, <1>14
<1>16. hosts(file) \in Seq(Host) /\ Len(hosts(file)) = m
  <2>1. hosts(file) \in Seq(Host)
    BY <1>1, <1>15, SeqDef
  <2>2. DOMAIN hosts(file) = 1 .. m
    BY <1>15
  <2> QED
    BY <1>1, <2>1, <2>2, LenProperties
<1>17. \A k \in 1 .. m : hosts(file)[k].id = k
  BY <1>1, <1>2, <1>14
<1> QED
  BY <1>16, <1>17 DEF found, m

(* The peers of a process, in the order of their ids. *)
LEMMA PeersOf ==
  ASSUME NEW file, Compact(file), NEW pid \in 1 .. Len(Hosts(file))
  PROVE  /\ getPeers(file, pid) \in Seq(Host)
         /\ Len(getPeers(file, pid)) = Len(Hosts(file)) - 1
         /\ \A k \in 1 .. Len(Hosts(file)) - 1 :
              getPeers(file, pid)[k].id = IF k < pid THEN k ELSE k + 1
<1> DEFINE s == hosts(file)
           m == Len(Hosts(file))
           S == {h \in ToSet(s) : h.id # pid}
<1>1. m \in Nat /\ s \in Seq(Host) /\ Len(s) = m /\ \A k \in 1 .. m : s[k].id = k
  BY SortedHosts, LenProperties DEF Compact
<1>2. DOMAIN s = 1 .. m
  BY <1>1, LenProperties
<1> HIDE DEF s, m
<1>3. \A i \in 1 .. Len(s) : s[i] \in S <=> i # pid
  BY <1>1, <1>2 DEF ToSet
<1>4. pid \in 1 .. Len(s) + 1 /\ pid <= Len(s)
  BY <1>1 DEF m
<1> HIDE DEF S
<1>5. /\ Kept(s, S) \in Seq(Host) /\ Len(Kept(s, S)) = Len(s) - 1
      /\ \A i \in 1 .. Len(Kept(s, S)) :
           Kept(s, S)[i] = IF i < pid THEN s[i] ELSE s[i + 1]
  BY <1>1, <1>3, <1>4, KeptButOne
<1>6. getPeers(file, pid) = Kept(s, S)
  BY DEF getPeers, s, S
<1>7. \A k \in 1 .. m - 1 : k \in 1 .. m /\ k + 1 \in 1 .. m
  BY <1>1
<1> QED
  BY <1>1, <1>5, <1>6, <1>7 DEF m

-----------------------------------------------------------------------------
(* The files of the script, and the peers that a process finds in them. *)
LEMMA ScriptHosts ==
  ASSUME NEW size \in Nat
  PROVE  /\ Hosts(hostsLines(size)) = hostsLines(size)
         /\ hostsLines(size) \in Seq(Host) /\ Len(hostsLines(size)) = size
         /\ \A i \in 1 .. size : hostsLines(size)[i] = [id |-> i, addr |-> i]
         /\ Compact(hostsLines(size))
<1> DEFINE s == hostsLines(size)
           S == ToSet(s) \ {Blank}
<1>1. s \in [1 .. size -> Host]
  BY DEF hostsLines, Host
<1>2. \A i \in 1 .. size : s[i] = [id |-> i, addr |-> i]
  BY DEF hostsLines
<1> HIDE DEF s
<1>3. s \in Seq(Host)
  BY <1>1, SeqDef
<1>4. Len(s) = size /\ DOMAIN s = 1 .. size
  <2>1. DOMAIN s = 1 .. size
    BY <1>1
  <2> QED
    BY <1>3, <2>1, LenProperties
<1>5. \A i \in 1 .. Len(s) : s[i] \in S <=> i # size + 1
  <2> TAKE i \in 1 .. Len(s)
  <2>1. s[i] \in Host /\ s[i] \in ToSet(s) /\ i # size + 1
    BY <1>1, <1>4 DEF ToSet
  <2> QED
    BY <2>1, BlankAssumption
<1> HIDE DEF S
<1>6. /\ Kept(s, S) \in Seq(Host) /\ Len(Kept(s, S)) = Len(s)
      /\ \A i \in 1 .. Len(Kept(s, S)) : Kept(s, S)[i] = s[i]
  <2>1. size + 1 \in 1 .. Len(s) + 1 /\ ~(size + 1 <= Len(s))
    BY <1>4
  <2>2. \A i \in 1 .. Len(s) : i < size + 1
    BY <1>4
  <2>3. /\ Kept(s, S) \in Seq(Host) /\ Len(Kept(s, S)) = Len(s)
        /\ \A i \in 1 .. Len(Kept(s, S)) :
             Kept(s, S)[i] = IF i < size + 1 THEN s[i] ELSE s[i + 1]
    BY <1>3, <1>5, <2>1, KeptButOne
  <2> QED
    BY <2>2, <2>3
<1>7. Kept(s, S) = s
  BY <1>3, <1>6, SeqEqual
<1>8. Hosts(s) = s
  BY <1>7 DEF Hosts, S
<1>9. Compact(s)
  <2>1. \A i \in 1 .. size : s[i].id = i
    <3> TAKE i \in 1 .. size
    <3>1. s[i] = [id |-> i, addr |-> i]
      BY <1>2
    <3> QED
      BY <3>1
  <2>2. {s[i].id : i \in 1 .. size} = 1 .. size
    BY <2>1
  <2> QED
    BY <1>3, <1>4, <1>8, <2>1, <2>2 DEF Compact
<1> QED
  BY <1>2, <1>3, <1>4, <1>8, <1>9 DEF s

(* Every process knows the others by their ids, in order. *)
PeersInOrder ==
  /\ n \in Sizes /\ id \in 1 .. n /\ peers \in Seq(Nat)
  /\ \A k \in 1 .. n - 1 : peers[k] = IF k < id THEN k ELSE k + 1

LEMMA PeerSet ==
  ASSUME PeersInOrder
  PROVE  /\ n \in Nat \ {0, 1} /\ Len(peers) = n - 1 /\ DOMAIN peers = 1 .. n - 1
         /\ ToSet(peers) = (1 .. n) \ {id} /\ id \in Nat
<1>1. /\ n \in Nat \ {0, 1} /\ Len(peers) = n - 1 /\ DOMAIN peers = 1 .. n - 1
      /\ id \in Nat
  BY SizesAssumption, LenProperties DEF PeersInOrder, n
<1> DEFINE m == n
<1>2. /\ m \in Nat /\ id \in 1 .. m /\ DOMAIN peers = 1 .. m - 1
      /\ \A k \in 1 .. m - 1 : peers[k] = IF k < id THEN k ELSE k + 1
  BY <1>1 DEF PeersInOrder
<1> HIDE DEF m
<1>3. \A k \in 1 .. m - 1 : peers[k] \in (1 .. m) \ {id}
  BY <1>2
<1>4. \A q \in (1 .. m) \ {id} : \E k \in 1 .. m - 1 : peers[k] = q
  <2> TAKE q \in (1 .. m) \ {id}
  <2>1. CASE q < id
    BY <1>2, <2>1
  <2>2. CASE q > id
    <3>1. q - 1 \in 1 .. m - 1 /\ ~(q - 1 < id) /\ (q - 1) + 1 = q
      BY <1>2, <2>2
    <3> QED
      BY <1>2, <3>1
  <2> QED
    BY <1>2, <2>1, <2>2
<1>5. ToSet(peers) = (1 .. m) \ {id}
  BY <1>2, <1>3, <1>4 DEF ToSet
<1> QED
  BY <1>1, <1>5 DEF m

LEMMA ScriptId ==
  ASSUME NEW size \in Sizes, NEW pid \in 1 .. size
  PROVE  /\ str(pid) \in DOMAIN stoul /\ stoul[str(pid)] = pid
         /\ idOf(startProcesses(pid)) = pid
<1>1. \E w \in DOMAIN stoul : stoul[w] = pid
  BY SizesAssumption DEF Range
<1>2. str(pid) \in DOMAIN stoul /\ stoul[str(pid)] = pid
  BY <1>1 DEF str
<1>3. startProcesses(pid)[2] = str(pid)
  BY DEF startProcesses
<1> QED
  BY <1>2, <1>3 DEF idOf

LEMMA InitPeers == Init => PeersInOrder
<1> SUFFICES ASSUME Init
             PROVE  PeersInOrder
  OBVIOUS
<1>1. PICK size \in Sizes : \E pid \in 1 .. size :
        /\ id = idOf(startProcesses(pid))
        /\ LET others == getPeers(hostsLines(size), id)
           IN  peers = [k \in DOMAIN others |-> others[k].id]
  BY DEF Init
<1> PICK pid \in 1 .. size :
      /\ id = idOf(startProcesses(pid))
      /\ LET others == getPeers(hostsLines(size), id)
         IN  peers = [k \in DOMAIN others |-> others[k].id]
  BY <1>1
<1>2. size \in Nat \ {0, 1} /\ id = pid
  BY SizesAssumption, ScriptId
<1> DEFINE others == getPeers(hostsLines(size), pid)
<1>3. /\ Compact(hostsLines(size)) /\ Len(Hosts(hostsLines(size))) = size
      /\ pid \in 1 .. Len(Hosts(hostsLines(size)))
  BY <1>2, ScriptHosts
<1>4. /\ others \in Seq(Host) /\ Len(others) = size - 1
      /\ \A k \in 1 .. size - 1 : others[k].id = IF k < pid THEN k ELSE k + 1
  BY <1>3, PeersOf
<1>5. peers = [k \in DOMAIN others |-> others[k].id]
  BY <1>2
<1> HIDE DEF others
<1>6. DOMAIN others = 1 .. size - 1
  BY <1>4, LenProperties
<1>7. /\ DOMAIN peers = 1 .. size - 1
      /\ \A k \in 1 .. size - 1 : peers[k] = IF k < pid THEN k ELSE k + 1
  BY <1>4, <1>5, <1>6
<1>8. peers \in [1 .. size - 1 -> Nat]
  <2>1. \A k \in 1 .. size - 1 : (IF k < pid THEN k ELSE k + 1) \in Nat
    BY <1>2
  <2>2. \A k \in 1 .. size - 1 : others[k].id \in Nat
    BY <1>4, <2>1
  <2> QED
    BY <1>5, <1>6, <2>2
<1>9. peers \in Seq(Nat) /\ Len(peers) = size - 1
  <2>1. peers \in Seq(Nat)
    BY <1>2, <1>8, SeqDef
  <2>2. Len(peers) \in Nat /\ 1 .. Len(peers) = 1 .. size - 1
    BY <1>7, <2>1, LenProperties
  <2> QED
    BY <1>2, <2>1, <2>2
<1>10. n = size
  BY <1>2, <1>9 DEF n
<1> QED
  BY <1>2, <1>7, <1>9, <1>10 DEF PeersInOrder

-----------------------------------------------------------------------------
(* What the constructors store. *)

Tables == {"beb", "urbDeliver", "correctProcesses", "pendingSorted", "pending"}
Item == Tables \X Nat

LEMMA ConcatToSet ==
  ASSUME NEW R, NEW s \in Seq(R), NEW t \in Seq(R)
  PROVE  s \o t \in Seq(R) /\ ToSet(s \o t) = ToSet(s) \cup ToSet(t)
<1> DEFINE u == s \o t
           a == Len(s)
           b == Len(t)
<1>1. /\ u \in Seq(R) /\ Len(u) = a + b /\ a \in Nat /\ b \in Nat
      /\ \A i \in 1 .. a + b : u[i] = IF i <= a THEN s[i] ELSE t[i - a]
  BY ConcatProperties, LenProperties
<1>2. DOMAIN u = 1 .. a + b /\ DOMAIN s = 1 .. a /\ DOMAIN t = 1 .. b
  BY <1>1, LenProperties
<1> HIDE DEF u, a, b
<1>3. \A i \in 1 .. a + b : (i \in 1 .. a /\ u[i] = s[i])
                            \/ (i - a \in 1 .. b /\ u[i] = t[i - a])
  BY <1>1
<1>4. \A i \in 1 .. a : i \in 1 .. a + b /\ u[i] = s[i]
  BY <1>1
<1>5. \A i \in 1 .. b : i + a \in 1 .. a + b /\ u[i + a] = t[i]
  <2> TAKE i \in 1 .. b
  <2>1. i + a \in 1 .. a + b /\ ~(i + a <= a) /\ (i + a) - a = i
    BY <1>1
  <2> QED
    BY <1>1, <2>1
<1>6. ToSet(u) = ToSet(s) \cup ToSet(t)
  <2>1. ASSUME NEW x \in ToSet(u)
        PROVE  x \in ToSet(s) \cup ToSet(t)
    BY <1>2, <1>3, <2>1 DEF ToSet
  <2>2. ASSUME NEW x \in ToSet(s) \cup ToSet(t)
        PROVE  x \in ToSet(u)
    BY <1>2, <1>4, <1>5, <2>2 DEF ToSet
  <2> QED
    BY <2>1, <2>2
<1> QED
  BY <1>1, <1>6 DEF u

LEMMA EntriesFacts ==
  ASSUME NEW table \in Tables, NEW ids \in Seq(Nat)
  PROVE  /\ Entries(table, ids) \in Seq(Item)
         /\ ToSet(Entries(table, ids)) = {<<table, q>> : q \in ToSet(ids)}
<1> DEFINE e == Entries(table, ids)
           m == Len(ids)
<1>1. m \in Nat /\ DOMAIN ids = 1 .. m /\ \A k \in 1 .. m : ids[k] \in Nat
  BY LenProperties, ElementOfSeq
<1>2. e = [k \in 1 .. m |-> <<table, ids[k]>>]
  BY <1>1 DEF Entries
<1> HIDE DEF e, m
<1>3. e \in [1 .. m -> Item]
  BY <1>1, <1>2 DEF Item
<1>4. e \in Seq(Item)
  BY <1>1, <1>3, SeqDef
<1>5. ToSet(e) = {<<table, q>> : q \in ToSet(ids)}
  BY <1>1, <1>2 DEF ToSet
<1> QED
  BY <1>4, <1>5 DEF e

LEMMA CtorItems ==
  ASSUME NEW i \in Nat, NEW ps \in Seq(Nat)
  PROVE  /\ LCBroadcastCtor(i, ps) \in Seq(Item)
         /\ {Field("beb"), Field("urbDeliver")} \subseteq ToSet(LCBroadcastCtor(i, ps))
         /\ \A q \in ToSet(ps) \cup {i} :
              /\ <<"correctProcesses", q>> \in ToSet(LCBroadcastCtor(i, ps))
              /\ <<"pendingSorted", q>> \in ToSet(LCBroadcastCtor(i, ps))
         /\ \A q \in ToSet(ps) : <<"pending", q>> \in ToSet(LCBroadcastCtor(i, ps))
<1> DEFINE two == <<Field("beb"), Field("urbDeliver")>>
           all == Append(ps, i)
           urb == Entries("correctProcesses", all)
           fifo == Entries("pendingSorted", all)
           lcb == Entries("pending", ps)
<1> HIDE DEF all
<1>1. two \in Seq(Item) /\ ToSet(two) = {Field("beb"), Field("urbDeliver")}
  <2>1. Field("beb") \in Item /\ Field("urbDeliver") \in Item
    BY DEF Field, Item, Tables
  <2>2. two \in Seq(Item) /\ DOMAIN two = 1 .. 2
    BY <2>1
  <2>3. 1 .. 2 = {1, 2} /\ two[1] = Field("beb") /\ two[2] = Field("urbDeliver")
    OBVIOUS
  <2> HIDE DEF two
  <2> QED
    BY <2>2, <2>3 DEF ToSet
<1>2. all \in Seq(Nat) /\ ToSet(all) = ToSet(ps) \cup {i}
  BY AppendToSet DEF all
<1> HIDE DEF two
<1>3. urb \in Seq(Item) /\ ToSet(urb) = {<<"correctProcesses", q>> : q \in ToSet(all)}
  <2>1. "correctProcesses" \in Tables
    BY DEF Tables
  <2> QED
    BY <1>2, <2>1, EntriesFacts
<1>4. fifo \in Seq(Item) /\ ToSet(fifo) = {<<"pendingSorted", q>> : q \in ToSet(all)}
  <2>1. "pendingSorted" \in Tables
    BY DEF Tables
  <2> QED
    BY <1>2, <2>1, EntriesFacts
<1>5. lcb \in Seq(Item) /\ ToSet(lcb) = {<<"pending", q>> : q \in ToSet(ps)}
  <2>1. "pending" \in Tables
    BY DEF Tables
  <2> QED
    BY <2>1, EntriesFacts
<1> DEFINE u == two \o urb
           f == u \o fifo
<1>6. LCBroadcastCtor(i, ps) = f \o lcb
  BY DEF LCBroadcastCtor, FIFOBroadcastCtor, UniformBroadcastCtor, two, all
<1> HIDE DEF urb, fifo, lcb
<1>7. u \in Seq(Item) /\ ToSet(u) = ToSet(two) \cup ToSet(urb)
  BY <1>1, <1>3, ConcatToSet
<1> HIDE DEF u
<1>8. f \in Seq(Item) /\ ToSet(f) = ToSet(u) \cup ToSet(fifo)
  BY <1>4, <1>7, ConcatToSet
<1> HIDE DEF f
<1>9. f \o lcb \in Seq(Item) /\ ToSet(f \o lcb) = ToSet(f) \cup ToSet(lcb)
  BY <1>5, <1>8, ConcatToSet
<1> DEFINE items == ToSet(LCBroadcastCtor(i, ps))
<1>10. items = ToSet(two) \cup ToSet(urb) \cup ToSet(fifo) \cup ToSet(lcb)
  BY <1>6, <1>7, <1>8, <1>9
<1> HIDE DEF items
<1>11. /\ {Field("beb"), Field("urbDeliver")} \subseteq items
       /\ \A q \in ToSet(ps) \cup {i} :
            <<"correctProcesses", q>> \in items /\ <<"pendingSorted", q>> \in items
       /\ \A q \in ToSet(ps) : <<"pending", q>> \in items
  BY <1>1, <1>2, <1>3, <1>4, <1>5, <1>10
<1> QED
  BY <1>6, <1>9, <1>11 DEF items

-----------------------------------------------------------------------------
(* The listener holds a packet that it has received, of a message that it    *)
(* has relayed and delivered, as far as it has come.                         *)
Listening ==
  /\ pc \in {"relay", "evaluate", "fifo", "lcb"} => packet \in received
  /\ pc \in {"evaluate", "fifo", "lcb"} => packet[1] \in forwarded
  /\ pc \in {"fifo", "lcb"} => packet[1] \in delivered
  /\ todo \in Seq(Item)

IInv ==
  /\ TypeOK
  /\ PeersInOrder
  /\ Listening
  /\ MajorityUnlessEarly

LEMMA InitIInv == Init => IInv
<1> SUFFICES ASSUME Init
             PROVE  IInv
  OBVIOUS
<1>1. PeersInOrder
  BY InitPeers
<1>2. /\ n \in Sizes /\ ToSet(peers) = (1 .. n) \ {id} /\ id \in Nat
      /\ peers \in Seq(Nat) /\ id \in 1 .. n
  BY <1>1, PeerSet DEF PeersInOrder
<1>3. todo = LCBroadcastCtor(id, peers) /\ todo \in Seq(Item)
  BY <1>2, CtorItems DEF Init
<1>4. up \subseteq ToSet(peers)
  BY DEF Init
<1>5. TypeOK
  BY <1>2, <1>3, <1>4 DEF Init, TypeOK
<1>6. Listening
  BY <1>3 DEF Init, Listening
<1>7. MajorityUnlessEarly
  BY DEF Init, MajorityUnlessEarly
<1> QED
  BY <1>1, <1>5, <1>6, <1>7 DEF IInv

LEMMA HeadTailToSet ==
  ASSUME NEW R, NEW s \in Seq(R), s # <<>>
  PROVE  Tail(s) \in Seq(R) /\ ToSet(s) = {Head(s)} \cup ToSet(Tail(s))
<1> DEFINE t == Tail(s)
           m == Len(s)
<1>1. /\ t \in Seq(R) /\ Len(t) = m - 1 /\ m \in Nat \ {0}
      /\ \A i \in 1 .. m - 1 : t[i] = s[i + 1]
      /\ Head(s) = s[1]
  BY HeadTailProperties, EmptySeq, LenProperties
<1>2. DOMAIN s = 1 .. m /\ DOMAIN t = 1 .. m - 1
  BY <1>1, LenProperties
<1> HIDE DEF t, m
<1>3. \A i \in 1 .. m : i = 1 \/ (i - 1 \in 1 .. m - 1 /\ (i - 1) + 1 = i)
  BY <1>1
<1>4. \A i \in 1 .. m : s[i] = s[1] \/ (i - 1 \in 1 .. m - 1 /\ t[i - 1] = s[i])
  BY <1>1, <1>3
<1>5. 1 \in 1 .. m /\ \A i \in 1 .. m - 1 : i + 1 \in 1 .. m /\ t[i] = s[i + 1]
  BY <1>1
<1>6. ToSet(s) = {s[1]} \cup ToSet(t)
  <2>1. ASSUME NEW x \in ToSet(s)
        PROVE  x \in {s[1]} \cup ToSet(t)
    BY <1>2, <1>4, <2>1 DEF ToSet
  <2>2. ASSUME NEW x \in {s[1]} \cup ToSet(t)
        PROVE  x \in ToSet(s)
    BY <1>2, <1>5, <2>2 DEF ToSet
  <2> QED
    BY <2>1, <2>2
<1> QED
  BY <1>1, <1>6 DEF t

-----------------------------------------------------------------------------
(* A majority remains one. *)

LEMMA Sizing ==
  ASSUME NEW m \in Nat, NEW T \in SUBSET (1 .. m), NEW S \in SUBSET T
  PROVE  /\ IsFiniteSet(T) /\ Cardinality(T) \in Nat
         /\ IsFiniteSet(S) /\ Cardinality(S) \in Nat
         /\ Cardinality(S) <= Cardinality(T)
         /\ Cardinality(1 .. m) = m
<1>1. IsFiniteSet(1 .. m) /\ Cardinality(1 .. m) = m
  <2>1. 1 \in Int /\ m \in Int /\ (IF 1 > m THEN 0 ELSE m - 1 + 1) = m
    OBVIOUS
  <2> QED
    BY <2>1, FS_Interval
<1>2. IsFiniteSet(T)
  BY <1>1, FS_Subset
<1>3. IsFiniteSet(S) /\ Cardinality(S) <= Cardinality(T)
  BY <1>2, FS_Subset
<1> QED
  BY <1>1, <1>2, <1>3, FS_CardinalityType

LEMMA AckersAreProcesses ==
  ASSUME PeersInOrder, NEW m
  PROVE  Ackers(m) \subseteq 1 .. n
BY PeerSet DEF Ackers, PeersInOrder

(* The process and its peers never change. *)
LEMMA SameProcess ==
  ASSUME PeersInOrder, UNCHANGED process
  PROVE  PeersInOrder' /\ n' = n /\ ToSet(peers)' = ToSet(peers) /\ Packet' = Packet
BY DEF PeersInOrder, process, n, Packet

LEMMA MajorityKept ==
  ASSUME PeersInOrder, MajorityUnlessEarly, UNCHANGED <<process, delivered>>,
         received \subseteq received', forwarded \subseteq forwarded',
         early \subseteq early'
  PROVE  MajorityUnlessEarly'
<1>1. n' = n /\ n \in Nat /\ PeersInOrder' /\ peers' = peers /\ id' = id
  BY SameProcess, PeerSet DEF process
<1> SUFFICES ASSUME NEW m \in delivered
             PROVE  \/ 2 * Cardinality(Ackers(m)') > n
                    \/ n > 3 /\ \E s \in ToSet(peers) : <<m, s>> \in early'
  BY <1>1 DEF MajorityUnlessEarly
<1>2. Ackers(m) \subseteq Ackers(m)'
  BY <1>1 DEF Ackers
<1>3. Ackers(m)' \subseteq 1 .. n
  <2>1. ToSet(peers) \subseteq 1 .. n /\ id \in 1 .. n
    BY PeerSet DEF PeersInOrder
  <2> QED
    BY <1>1, <2>1 DEF Ackers
<1>4. CASE 2 * Cardinality(Ackers(m)) > n
  <2> DEFINE A == Ackers(m)
             B == Ackers(m)'
  <2>1. A \in SUBSET B /\ B \in SUBSET (1 .. n)
    BY <1>2, <1>3
  <2>2. 2 * Cardinality(A) > n
    BY <1>4
  <2> HIDE DEF A, B
  <2>3. /\ Cardinality(A) \in Nat /\ Cardinality(B) \in Nat
        /\ Cardinality(A) <= Cardinality(B)
    BY <1>1, <2>1, Sizing
  <2>4. 2 * Cardinality(B) > n
    BY <1>1, <2>2, <2>3
  <2> QED
    BY <2>4 DEF B
<1>5. CASE n > 3 /\ \E s \in ToSet(peers) : <<m, s>> \in early
  BY <1>5
<1> QED
  BY <1>4, <1>5 DEF MajorityUnlessEarly

-----------------------------------------------------------------------------
(* Each step preserves the invariant. *)

LEMMA BuildKeeps == IInv /\ Build => IInv'
<1> SUFFICES ASSUME IInv, Build
             PROVE  IInv'
  OBVIOUS
<1> USE DEF IInv
<1>1. PeersInOrder' /\ n' = n /\ ToSet(peers)' = ToSet(peers) /\ Packet' = Packet
  BY SameProcess DEF Build
<1>2. MajorityUnlessEarly'
  BY MajorityKept DEF Build
<1>3. /\ todo' \in Seq(Item) /\ ToSet(todo) = {Head(todo)} \cup ToSet(todo')
      /\ stored' = stored \cup {Head(todo)}
  BY HeadTailToSet DEF Listening, Build, Built
<1>4. TypeOK'
  <2>1. stored' \cup ToSet(todo)' = ToSet(LCBroadcastCtor(id, peers))'
    <3>1. ToSet(LCBroadcastCtor(id, peers))' = ToSet(LCBroadcastCtor(id, peers))
      BY DEF Build, process
    <3>2. stored' \cup ToSet(todo') = stored \cup ToSet(todo)
      BY <1>3
    <3> QED
      BY <3>1, <3>2 DEF TypeOK
  <2> QED
    BY <1>1, <2>1 DEF TypeOK, Build, process
<1>5. Listening'
  BY <1>3 DEF Listening, Build
<1> QED
  BY <1>1, <1>2, <1>4, <1>5

LEMMA ReceiveKeeps ==
  ASSUME IInv, NEW pkt \in Packet, Receive(pkt)
  PROVE  IInv'
<1> USE DEF IInv
<1>1. PeersInOrder' /\ n' = n /\ ToSet(peers)' = ToSet(peers) /\ Packet' = Packet
  BY SameProcess DEF Receive
<1>2. MajorityUnlessEarly'
  BY MajorityKept DEF Receive
<1>3. TypeOK'
  BY <1>1 DEF TypeOK, Receive, process
<1>4. Listening'
  BY DEF Listening, Receive
<1> QED
  BY <1>1, <1>2, <1>3, <1>4

(* The message of the packet that the listener holds is one of a peer. *)
LEMMA Held ==
  ASSUME IInv, pc \in {"relay", "evaluate", "fifo", "lcb"}
  PROVE  /\ packet \in received /\ packet = <<packet[1], packet[2]>>
         /\ packet[1] \in ToSet(peers) /\ packet[2] \in ToSet(peers)
<1>1. packet \in received /\ packet \in Packet
  BY DEF IInv, TypeOK, Listening
<1> QED
  BY <1>1 DEF Packet

LEMMA RelayKeeps == IInv /\ Relay => IInv'
<1> SUFFICES ASSUME IInv, Relay
             PROVE  IInv'
  OBVIOUS
<1>1. PeersInOrder' /\ n' = n /\ ToSet(peers)' = ToSet(peers) /\ Packet' = Packet
  BY SameProcess DEF Relay, IInv
<1>2. MajorityUnlessEarly'
  BY MajorityKept DEF Relay, IInv
<1>3. packet \in received /\ packet[1] \in ToSet(peers)
  BY Held DEF Relay
<1>4. TypeOK'
  BY <1>1, <1>3 DEF TypeOK, Relay, Needs, process, IInv
<1>5. Listening'
  BY <1>3 DEF Listening, Relay, Needs, IInv
<1> QED
  BY <1>1, <1>2, <1>4, <1>5 DEF IInv

LEMMA FifoDeliverKeeps == IInv /\ FifoDeliver => IInv'
<1> SUFFICES ASSUME IInv, FifoDeliver
             PROVE  IInv'
  OBVIOUS
<1> USE DEF IInv
<1>1. PeersInOrder' /\ n' = n /\ ToSet(peers)' = ToSet(peers) /\ Packet' = Packet
  BY SameProcess DEF FifoDeliver
<1>2. MajorityUnlessEarly'
  BY MajorityKept DEF FifoDeliver
<1>3. TypeOK'
  BY <1>1 DEF TypeOK, FifoDeliver, Needs, process
<1>4. Listening'
  BY DEF Listening, FifoDeliver, Needs
<1> QED
  BY <1>1, <1>2, <1>3, <1>4

LEMMA LcbDeliverKeeps == IInv /\ LcbDeliver => IInv'
<1> SUFFICES ASSUME IInv, LcbDeliver
             PROVE  IInv'
  OBVIOUS
<1> USE DEF IInv
<1>1. PeersInOrder' /\ n' = n /\ ToSet(peers)' = ToSet(peers) /\ Packet' = Packet
  BY SameProcess DEF LcbDeliver
<1>2. MajorityUnlessEarly'
  BY MajorityKept DEF LcbDeliver
<1>3. packet[1] \in delivered
  BY DEF Listening, LcbDeliver
<1>4. TypeOK'
  BY <1>1, <1>3 DEF TypeOK, LcbDeliver, Needs, process
<1>5. Listening'
  BY DEF Listening, LcbDeliver, Needs
<1> QED
  BY <1>1, <1>2, <1>4, <1>5

LEMMA RaceKeeps == IInv /\ Race => IInv'
<1> SUFFICES ASSUME IInv, Race
             PROVE  IInv'
  OBVIOUS
<1> USE DEF IInv
<1>1. PeersInOrder' /\ n' = n /\ ToSet(peers)' = ToSet(peers) /\ Packet' = Packet
  BY SameProcess DEF Race
<1>2. MajorityUnlessEarly'
  BY MajorityKept DEF Race
<1>3. TypeOK'
  BY <1>1 DEF TypeOK, Race, process
<1>4. Listening'
  BY DEF Listening, Race
<1> QED
  BY <1>1, <1>2, <1>3, <1>4


(* What is delivered now has a majority, unless its packet is an early one.  *)
LEMMA DeliveredByMajority ==
  ASSUME IInv, Evaluate, receivedAllAcks(packet[1])
  PROVE  \/ 2 * Cardinality(Ackers(packet[1])) > n
         \/ n > 3 /\ packet \in early'
<1> DEFINE A == Ackers(packet[1])
           C == correctProcesses
<1>1. /\ PeersInOrder /\ n \in Nat \ {0, 1} /\ id \in 1 .. n
      /\ ToSet(peers) = (1 .. n) \ {id}
  BY PeerSet DEF IInv, PeersInOrder
<1>2. /\ packet \in received /\ packet = <<packet[1], packet[2]>>
      /\ packet[1] \in forwarded /\ packet[2] \in ToSet(peers)
  BY Held DEF Evaluate, IInv, Listening
<1>3. A \subseteq 1 .. n
  BY <1>1, AckersAreProcesses
<1>4. id \in A /\ packet[2] \in A /\ packet[2] # id
  BY <1>1, <1>2 DEF Ackers
<1>5. CASE C = 1 .. n
  <2>1. A \cap C = A
    BY <1>3, <1>5
  <2>2. Cardinality(A) > n \div 2 /\ Cardinality(A) \in Nat
    <3>1. Cardinality(A \cap C) > Cardinality(C) \div 2
      BY DEF receivedAllAcks
    <3>2. Cardinality(1 .. n) = n /\ Cardinality(A) \in Nat
      BY <1>1, <1>3, Sizing
    <3> QED
      BY <1>5, <2>1, <3>1, <3>2
  <2> HIDE DEF A
  <2>3. 2 * Cardinality(A) > n
    BY <1>1, <2>2
  <2> QED
    BY <2>3 DEF A
<1>6. CASE C # 1 .. n
  <2>1. packet \in early'
    BY <1>6 DEF Evaluate
  <2>2. CASE n > 3
    BY <2>1, <2>2
  <2>3. CASE n <= 3
    <3> DEFINE two == {id} \cup {packet[2]}
    <3>1. two \in SUBSET A /\ A \in SUBSET (1 .. n)
      BY <1>3, <1>4
    <3>2. Cardinality({id}) = 1 /\ IsFiniteSet({id}) /\ packet[2] \notin {id}
      BY <1>4, FS_Singleton
    <3>3. Cardinality(two) = 2
      BY <3>2, FS_AddElement
    <3> HIDE DEF two, A
    <3>4. Cardinality(two) <= Cardinality(A) /\ Cardinality(A) \in Nat
      BY <1>1, <3>1, Sizing
    <3>5. 2 * Cardinality(A) > n
      BY <1>1, <2>3, <3>3, <3>4
    <3> QED
      BY <3>5 DEF A
  <2> QED
    BY <1>1, <2>2, <2>3
<1> QED
  BY <1>5, <1>6

LEMMA EvaluateKeeps == IInv /\ Evaluate => IInv'
<1> SUFFICES ASSUME IInv, Evaluate
             PROVE  IInv'
  OBVIOUS
<1>1. PeersInOrder' /\ n' = n /\ ToSet(peers)' = ToSet(peers) /\ Packet' = Packet
  BY SameProcess DEF Evaluate, IInv
<1>2. /\ packet \in received /\ packet = <<packet[1], packet[2]>>
      /\ packet[1] \in forwarded /\ packet[2] \in ToSet(peers)
  BY Held DEF Evaluate, IInv, Listening
<1>3. early \subseteq early' /\ early' \subseteq early \cup {packet}
  BY DEF Evaluate
<1>4. UNCHANGED <<process, todo, stored, received, packet, forwarded, log>>
  BY DEF Evaluate
<1>5. CASE receivedAllAcks(packet[1]) /\ packet[1] \notin delivered
  <2>1. /\ delivered' = delivered \cup {packet[1]}
        /\ pc' = IF Field("urbDeliver") \in stored THEN "fifo" ELSE "died"
    BY <1>5 DEF Evaluate, Needs
  <2>2. TypeOK'
    BY <1>1, <1>2, <1>3, <1>4, <2>1 DEF TypeOK, IInv, process
  <2>3. Listening'
    BY <1>2, <1>4, <2>1 DEF Listening, IInv
  <2>4. MajorityUnlessEarly'
    <3> SUFFICES ASSUME NEW m \in delivered'
                 PROVE  \/ 2 * Cardinality(Ackers(m)) > n
                        \/ n > 3 /\ \E s \in ToSet(peers) : <<m, s>> \in early'
      <4>1. \A m : Ackers(m)' = Ackers(m)
        BY <1>1, <1>4 DEF Ackers, process
      <4> QED
        BY <1>1, <4>1 DEF MajorityUnlessEarly
    <3>1. CASE m \in delivered
      BY <1>3, <3>1 DEF IInv, MajorityUnlessEarly
    <3>2. CASE m = packet[1]
      <4>1. \/ 2 * Cardinality(Ackers(m)) > n
            \/ n > 3 /\ packet \in early'
        BY <1>5, <3>2, DeliveredByMajority
      <4> QED
        BY <1>2, <3>2, <4>1
    <3> QED
      BY <2>1, <3>1, <3>2
  <2> QED
    BY <1>1, <2>2, <2>3, <2>4 DEF IInv
<1>6. CASE ~(receivedAllAcks(packet[1]) /\ packet[1] \notin delivered)
  <2>1. pc' = "recv" /\ delivered' = delivered
    BY <1>6 DEF Evaluate
  <2>2. TypeOK'
    BY <1>1, <1>2, <1>3, <1>4, <2>1 DEF TypeOK, IInv, process
  <2>3. Listening'
    BY <1>4, <2>1 DEF Listening, IInv
  <2>4. MajorityUnlessEarly'
    BY <1>3, <1>4, <2>1, MajorityKept DEF IInv
  <2> QED
    BY <1>1, <2>2, <2>3, <2>4 DEF IInv
<1> QED
  BY <1>5, <1>6

LEMMA StutterKeeps == IInv /\ UNCHANGED vars => IInv'
<1> SUFFICES ASSUME IInv, UNCHANGED vars
             PROVE  IInv'
  OBVIOUS
<1>1. PeersInOrder' /\ n' = n /\ ToSet(peers)' = ToSet(peers) /\ Packet' = Packet
  BY SameProcess DEF vars, IInv
<1>2. MajorityUnlessEarly'
  BY MajorityKept DEF vars, IInv
<1>3. TypeOK'
  BY <1>1 DEF TypeOK, vars, process, IInv
<1>4. Listening'
  BY DEF Listening, vars, IInv
<1> QED
  BY <1>1, <1>2, <1>3, <1>4 DEF IInv

LEMMA StepKeeps == IInv /\ [Next]_vars => IInv'
<1> SUFFICES ASSUME IInv, [Next]_vars
             PROVE  IInv'
  OBVIOUS
<1>1. CASE Build
  BY <1>1, BuildKeeps
<1>2. CASE \E pkt \in Packet : Receive(pkt)
  BY <1>2, ReceiveKeeps
<1>3. CASE Relay
  BY <1>3, RelayKeeps
<1>4. CASE Evaluate
  BY <1>4, EvaluateKeeps
<1>5. CASE FifoDeliver
  BY <1>5, FifoDeliverKeeps
<1>6. CASE LcbDeliver
  BY <1>6, LcbDeliverKeeps
<1>7. CASE Race
  BY <1>7, RaceKeeps
<1>8. CASE UNCHANGED vars
  BY <1>8, StutterKeeps
<1> QED
  BY <1>1, <1>2, <1>3, <1>4, <1>5, <1>6, <1>7, <1>8 DEF Next

LEMMA Invariance == Spec => []IInv
<1>1. Init => IInv
  BY InitIInv
<1>2. IInv /\ [Next]_vars => IInv'
  BY StepKeeps
<1> QED
  BY <1>1, <1>2, PTL DEF Spec

(* Type correctness of the start, for every number of processes: the          *)
(* constructors store what they have set out to store and nothing else, and   *)
(* the listener delivers only what it has relayed.                            *)
THEOREM TypeCorrect == Spec => []TypeOK
<1>1. IInv => TypeOK
  BY DEF IInv
<1> QED
  BY <1>1, Invariance, PTL

(* What a process delivers while its layers are still being constructed has   *)
(* been acknowledged by a majority of all the processes, however many there   *)
(* are, unless there are more than three and it has looked at one of the       *)
(* message's packets before correctProcesses was complete.                    *)
THEOREM MajorityAtStart == Spec => []MajorityUnlessEarly
<1>1. IInv => MajorityUnlessEarly
  BY DEF IInv
<1> QED
  BY <1>1, Invariance, PTL

(* Once the constructors have returned no packet makes the process read what  *)
(* is not there: they have stored an entry for every process whose messages   *)
(* may come, whatever the number of processes.                                *)
THEOREM BuiltSurvives == Spec => SurvivesOnceBuilt
<1>1. IInv /\ [Next]_vars => [Built => pc' # "died"]_vars
  <2> SUFFICES ASSUME IInv, Next, Built
               PROVE  pc' # "died" \/ UNCHANGED vars
    OBVIOUS
  <2>1. ToSet(todo) = {}
    BY DEF Built, ToSet
  <2>2. stored = ToSet(LCBroadcastCtor(id, peers))
    BY <2>1 DEF IInv, TypeOK
  <2>3. id \in Nat /\ peers \in Seq(Nat)
    BY PeerSet DEF IInv, PeersInOrder
  <2>4. /\ Field("beb") \in stored /\ Field("urbDeliver") \in stored
        /\ \A q \in ToSet(peers) :
             <<"pendingSorted", q>> \in stored /\ <<"pending", q>> \in stored
    BY <2>2, <2>3, CtorItems
  <2>5. pc \in {"relay", "evaluate", "fifo", "lcb"} => packet[1] \in ToSet(peers)
    BY Held
  <2>6. CASE \E pkt \in Packet : Receive(pkt)
    BY <2>6 DEF Receive
  <2>7. CASE Relay
    BY <2>4, <2>7 DEF Relay, Needs
  <2>8. CASE Evaluate
    BY <2>4, <2>8 DEF Evaluate, Needs
  <2>9. CASE FifoDeliver
    BY <2>4, <2>5, <2>9 DEF FifoDeliver, Needs
  <2>10. CASE LcbDeliver
    BY <2>4, <2>5, <2>10 DEF LcbDeliver, Needs
  <2> QED
    BY <2>6, <2>7, <2>8, <2>9, <2>10 DEF Next, Build, Race
<1>2. Spec => [][Next]_vars
  BY DEF Spec
<1> QED
  BY <1>1, <1>2, Invariance, PTL DEF SurvivesOnceBuilt


-----------------------------------------------------------------------------
(* What the parser makes of its files. *)

LEMMA IdsAre ==
  ASSUME NEW file, Hosts(file) \in Seq(Host)
  PROVE  /\ Len(Hosts(file)) \in Nat /\ DOMAIN Hosts(file) = 1 .. Len(Hosts(file))
         /\ \A i \in 1 .. Len(Hosts(file)) : Hosts(file)[i].id \in Nat
         /\ Ids(file) = {Hosts(file)[i].id : i \in 1 .. Len(Hosts(file))}
<1> DEFINE found == Hosts(file)
           m == Len(found)
<1>1. m \in Nat /\ DOMAIN found = 1 .. m /\ \A i \in 1 .. m : found[i] \in Host
  BY LenProperties, ElementOfSeq
<1> HIDE DEF m
<1>2. \A i \in 1 .. m : found[i].id \in Nat
  BY <1>1 DEF Host
<1>3. Ids(file) = {found[i].id : i \in 1 .. m}
  BY <1>1 DEF Ids, ToSet
<1> QED
  BY <1>1, <1>2, <1>3 DEF m

LEMMA FoundHosts ==
  ASSUME NEW file \in Seq({Blank} \cup Host)
  PROVE  Hosts(file) \in Seq(Host)
<1> DEFINE S == ToSet(file) \ {Blank}
           R == {Blank} \cup Host
<1>1. Kept(file, S) \in Seq(R \cap S)
  <2> HIDE DEF S
  <2> QED
    BY KeptElements
<1>2. R \cap S \subseteq Host
  OBVIOUS
<1> HIDE DEF R, S
<1>3. /\ Len(Kept(file, S)) \in Nat
      /\ Kept(file, S) \in [1 .. Len(Kept(file, S)) -> R \cap S]
  BY <1>1, LenProperties
<1>4. Kept(file, S) \in [1 .. Len(Kept(file, S)) -> Host]
  BY <1>2, <1>3
<1>5. Kept(file, S) \in Seq(Host)
  BY <1>3, <1>4, SeqDef
<1>6. Hosts(file) = Kept(file, S)
  BY DEF Hosts, S
<1> QED
  BY <1>5, <1>6

(* m different numbers of 1 .. m are all of them. *)
LEMMA AllTaken ==
  ASSUME NEW m \in Nat, NEW f \in [1 .. m -> 1 .. m],
         \A i, j \in 1 .. m : i # j => f[i] # f[j]
  PROVE  {f[i] : i \in 1 .. m} = 1 .. m
<1> DEFINE S == 1 .. m
<1>1. IsFiniteSet(S)
  BY Sizing
<1>2. f \in Injection(S, S)
  BY DEF Injection, IsInjective
<1> HIDE DEF S
<1>3. f \in Surjection(S, S)
  BY <1>1, <1>2, FS_Injection
<1> QED
  BY <1>3 DEF Surjection, S

LEMMA AcceptedIsCompact ==
  ASSUME NEW file, Hosts(file) \in Seq(Host),
         \A i, j \in DOMAIN Hosts(file) :
           i # j => Hosts(file)[i].id # Hosts(file)[j].id,
         hostsOK(file)
  PROVE  Compact(file) /\ Ids(file) = 1 .. Len(Hosts(file))
<1> DEFINE found == Hosts(file)
           m == Len(found)
           f == [i \in 1 .. m |-> found[i].id]
<1>1. /\ m \in Nat /\ DOMAIN found = 1 .. m
      /\ \A i \in 1 .. m : found[i].id \in Nat
      /\ Ids(file) = {found[i].id : i \in 1 .. m}
  BY IdsAre
<1>2. \A i \in Ids(file) : i >= 1 /\ i <= m
  BY DEF hostsOK
<1>3. \A i, j \in 1 .. m : i # j => found[i].id # found[j].id
  BY <1>1
<1> HIDE DEF m, found
<1>4. \A i \in 1 .. m : found[i].id \in 1 .. m
  BY <1>1, <1>2
<1>5. /\ f \in [1 .. m -> 1 .. m]
      /\ \A i, j \in 1 .. m : i # j => f[i] # f[j]
      /\ {f[i] : i \in 1 .. m} = {found[i].id : i \in 1 .. m}
  BY <1>3, <1>4
<1> HIDE DEF f
<1>6. {f[i] : i \in 1 .. m} = 1 .. m
  BY <1>1, <1>5, AllTaken
<1>7. {found[i].id : i \in 1 .. m} = 1 .. m
  BY <1>5, <1>6
<1> QED
  BY <1>1, <1>3, <1>7 DEF Compact, m, found

(* In a hosts file that the parser accepts, each host finds itself. *)
LEMMA LocalhostOf ==
  ASSUME NEW file, Compact(file), NEW pid \in 1 .. Len(Hosts(file))
  PROVE  localhost(file, pid) \in ToSet(Hosts(file)) /\ localhost(file, pid).id = pid
<1> DEFINE found == Hosts(file)
           m == Len(found)
<1>1. pid \in {found[i].id : i \in 1 .. m} /\ DOMAIN found = 1 .. m
  BY LenProperties DEF Compact
<1> HIDE DEF m, found
<1>2. \E h \in ToSet(found) : h.id = pid
  BY <1>1 DEF ToSet
<1> QED
  BY <1>2 DEF localhost, found

(* The parser accepts, of all hosts files without repeated ids, those whose    *)
(* ids are 1 .. the number of hosts, sorts them, and leaves the host out of    *)
(* its peers: for every file, however long, and whatever its blank lines.     *)
THEOREM AcceptedHostsAreCompact == Spec => []CompactHosts
<1>1. CompactHosts
  <2> SUFFICES ASSUME NEW file \in HostsFiles,
                      \A i, j \in DOMAIN Hosts(file) :
                        i # j => Hosts(file)[i].id # Hosts(file)[j].id
               PROVE  /\ hostsOK(file) <=> /\ Len(Hosts(file)) >= 2
                                           /\ Ids(file) = 1 .. Len(Hosts(file))
                      /\ hostsOK(file) =>
                           \A h \in Ids(file) :
                             /\ hosts(file)[h].id = h
                             /\ h <= Len(getPeers(file, localhost(file, h).id)) + 1
    BY DEF CompactHosts
  <2>1. Hosts(file) \in Seq(Host)
    BY HostsFilesAssumption, FoundHosts
  <2>2. Len(Hosts(file)) \in Nat
    BY <2>1, IdsAre
  <2>3. ASSUME hostsOK(file)
        PROVE  /\ Len(Hosts(file)) >= 2 /\ Compact(file)
               /\ Ids(file) = 1 .. Len(Hosts(file))
    <3>1. Len(Hosts(file)) >= 2
      BY <2>3 DEF hostsOK
    <3> QED
      BY <2>1, <2>3, <3>1, AcceptedIsCompact
  <2>4. ASSUME Len(Hosts(file)) >= 2, Ids(file) = 1 .. Len(Hosts(file))
        PROVE  hostsOK(file)
    BY <2>2, <2>4 DEF hostsOK
  <2>5. ASSUME hostsOK(file), NEW h \in Ids(file)
        PROVE  /\ hosts(file)[h].id = h
               /\ h <= Len(getPeers(file, localhost(file, h).id)) + 1
    <3>1. Compact(file) /\ h \in 1 .. Len(Hosts(file))
      BY <2>3, <2>5
    <3>2. hosts(file)[h].id = h
      BY <3>1, SortedHosts
    <3>3. localhost(file, h).id = h
      BY <3>1, LocalhostOf
    <3>4. Len(getPeers(file, h)) = Len(Hosts(file)) - 1
      BY <3>1, PeersOf
    <3> QED
      BY <2>2, <3>1, <3>2, <3>3, <3>4
  <2> QED
    BY <2>3, <2>4, <2>5
<1> QED
  BY <1>1, PTL


IsConfigOf(config, size, messages, pid, affecting) ==
  /\ config[1] = <<messages>>
  /\ Len(config) = size + 1
  /\ ToSet(config[pid + 1]) = {pid} \cup affecting

LEMMA ConfigLines ==
  ASSUME NEW size \in Nat, NEW affects \in [1 .. size -> SUBSET (1 .. size)],
         NEW messages, NEW pid \in 1 .. size
  PROVE  IsConfigOf(generateConfig(size, messages, affects).config,
                    size, messages, pid, affects[pid])
<1> DEFINE all == [j \in 1 .. size |-> j]
           line(i) == <<i>> \o Kept(all, affects[i] \ {i})
           lines == causalRelationships(size, affects)
           first == <<<<messages>>>>
           R == Seq(Nat) \cup {<<messages>>}
<1>1. all \in Seq(Nat) /\ ToSet(all) = 1 .. size
  <2>1. all \in [1 .. size -> Nat]
    OBVIOUS
  <2>2. ToSet(all) = 1 .. size
    BY DEF ToSet
  <2> HIDE DEF all
  <2> QED
    BY <2>1, <2>2, SeqDef
<1> HIDE DEF all
<1>2. ASSUME NEW i \in 1 .. size
      PROVE  line(i) \in Seq(Nat) /\ ToSet(line(i)) = {i} \cup affects[i]
  <2> DEFINE S == affects[i] \ {i}
             rest == Kept(all, S)
             own == <<i>>
  <2>1. Kept(all, S) \in Seq(Nat \cap S) /\ ToSet(Kept(all, S)) = ToSet(all) \cap S
    <3> HIDE DEF S
    <3> QED
      BY <1>1, KeptElements
  <2>2. Nat \cap S = S /\ ToSet(all) \cap S = S
    BY <1>1
  <2>3. rest \in Seq(S) /\ ToSet(rest) = S
    BY <2>1, <2>2
  <2>4. S \subseteq Nat
    OBVIOUS
  <2> HIDE DEF S, rest
  <2>5. rest \in Seq(Nat)
    <3>1. Len(rest) \in Nat /\ rest \in [1 .. Len(rest) -> S]
      BY <2>3, LenProperties
    <3>2. rest \in [1 .. Len(rest) -> Nat]
      BY <2>4, <3>1
    <3> QED
      BY <3>1, <3>2, SeqDef
  <2>6. own \in Seq(Nat) /\ ToSet(own) = {i}
    <3>1. own \in Seq(Nat) /\ DOMAIN own = 1 .. 1 /\ own[1] = i /\ 1 .. 1 = {1}
      OBVIOUS
    <3> HIDE DEF own
    <3> QED
      BY <3>1 DEF ToSet
  <2> HIDE DEF own
  <2>7. own \o rest \in Seq(Nat) /\ ToSet(own \o rest) = ToSet(own) \cup ToSet(rest)
    BY <2>5, <2>6, ConcatToSet
  <2>8. line(i) = own \o rest
    BY DEF own, rest, S
  <2>9. {i} \cup S = {i} \cup affects[i]
    BY DEF S
  <2> HIDE DEF line
  <2> QED
    BY <2>3, <2>6, <2>7, <2>8, <2>9
<1>3. lines = [i \in 1 .. size |-> line(i)]
  BY DEF causalRelationships, all
<1> HIDE DEF line, lines
<1>4. lines \in [1 .. size -> R]
  BY <1>2, <1>3
<1>5. lines \in Seq(R) /\ Len(lines) = size
  <2> HIDE DEF R
  <2>1. lines \in Seq(R) /\ DOMAIN lines = 1 .. size
    BY <1>4, SeqDef
  <2> QED
    BY <2>1, LenProperties
<1>6. first \in Seq(R) /\ Len(first) = 1 /\ first[1] = <<messages>>
  OBVIOUS
<1> HIDE DEF first, R
<1> DEFINE config == first \o lines
<1>7. /\ Len(config) = Len(first) + Len(lines)
      /\ \A i \in 1 .. Len(first) + Len(lines) :
           config[i] = IF i <= Len(first) THEN first[i] ELSE lines[i - Len(first)]
  BY <1>5, <1>6, ConcatProperties
<1>8. generateConfig(size, messages, affects).config = config
  BY DEF generateConfig, first, lines
<1> HIDE DEF config
<1>9. config[1] = <<messages>> /\ Len(config) = size + 1
  BY <1>5, <1>6, <1>7
<1>10. config[pid + 1] = line(pid)
  <2>1. /\ pid + 1 \in 1 .. Len(first) + Len(lines) /\ ~(pid + 1 <= Len(first))
        /\ (pid + 1) - Len(first) = pid
    BY <1>5, <1>6
  <2>2. config[pid + 1] = lines[pid]
    BY <1>7, <2>1
  <2> QED
    BY <1>3, <2>2
<1>11. ToSet(config[pid + 1]) = {pid} \cup affects[pid]
  BY <1>2, <1>10
<1> QED
  BY <1>8, <1>9, <1>11 DEF IsConfigOf

LEMMA ScriptHostsFound ==
  ASSUME NEW size \in Nat \ {0, 1}, NEW pid \in 1 .. size
  PROVE  /\ hostsOK(hostsLines(size))
         /\ localhost(hostsLines(size), pid) = hostsLines(size)[pid]
<1> DEFINE file == hostsLines(size)
<1>1. /\ Hosts(file) = file /\ file \in Seq(Host) /\ Len(file) = size
      /\ \A i \in 1 .. size : file[i] = [id |-> i, addr |-> i]
      /\ Compact(file)
  BY ScriptHosts
<1> HIDE DEF file
<1>2. DOMAIN file = 1 .. size
  BY <1>1, LenProperties
<1>3. \A i \in 1 .. size : file[i].id = i
  BY <1>1
<1>4. Ids(file) = 1 .. size
  BY <1>1, <1>2, <1>3 DEF Ids, ToSet
<1>5. hostsOK(file)
  BY <1>1, <1>4 DEF hostsOK
<1>6. file[pid] \in ToSet(file) /\ file[pid].id = pid
  BY <1>2, <1>3 DEF ToSet
<1>7. \A h \in ToSet(file) : h.id = pid => h = file[pid]
  BY <1>2, <1>3 DEF ToSet
<1>8. localhost(file, pid) = file[pid]
  BY <1>1, <1>6, <1>7 DEF localhost
<1> QED
  BY <1>5, <1>8 DEF file

(* What the script writes is read back as it was meant by every process, for   *)
(* every number of processes, every way they affect each other and every      *)
(* number of messages.                                                        *)
THEOREM ParserReadsScript == Spec => []ReadsWhatTheScriptWrote
<1>1. IInv => ReadsWhatTheScriptWrote
  <2> SUFFICES ASSUME IInv, NEW affects \in Drawn, NEW messages \in Followed
               PROVE  LET argv == startProcesses(id)
                          files == generateConfig(n, messages, affects)
                          fifoFiles == fifoGenerateConfig(n, messages)
                      IN  /\ parseInternal(argv)
                          /\ hostsPath(argv) = "hosts" /\ configPath(argv) = "config"
                          /\ hostsOK(files.hosts)
                          /\ localhost(files.hosts, id) = files.hosts[id]
                          /\ \A i, j \in DOMAIN peers : i < j => peers[i] < peers[j]
                          /\ parseNMessages(files.config) = messages
                          /\ parseDependencies(files.config, id) = affects[id] \cup {id}
                          /\ parseNMessages(fifoFiles.config) = messages
                          /\ parseDependencies(fifoFiles.config, id) = {}
    BY DEF ReadsWhatTheScriptWrote
  <2> DEFINE size == n
             argv == startProcesses(id)
             files == generateConfig(size, messages, affects)
             fifoFiles == fifoGenerateConfig(size, messages)
  <2>1. /\ size \in Sizes /\ size \in Nat \ {0, 1} /\ id \in 1 .. size
        /\ DOMAIN peers = 1 .. size - 1
        /\ \A k \in 1 .. size - 1 : peers[k] = IF k < id THEN k ELSE k + 1
        /\ affects \in [1 .. size -> SUBSET (1 .. size)]
    BY PeerSet DEF IInv, PeersInOrder, Drawn
  <2> HIDE DEF size
  <2>2. parseInternal(argv) /\ hostsPath(argv) = "hosts" /\ configPath(argv) = "config"
    <3>1. str(id) \in DOMAIN stoul
      BY <2>1, ScriptId
    <3> QED
      BY <3>1 DEF startProcesses, parseInternal, hostsPath, configPath
  <2>3. files.hosts = hostsLines(size)
    BY DEF generateConfig
  <2>4. hostsOK(files.hosts) /\ localhost(files.hosts, id) = files.hosts[id]
    BY <2>1, <2>3, ScriptHostsFound
  <2>5. \A i, j \in DOMAIN peers : i < j => peers[i] < peers[j]
    BY <2>1
  <2>6. /\ files.config[1] = <<messages>> /\ Len(files.config) = size + 1
        /\ ToSet(files.config[id + 1]) = {id} \cup affects[id]
    <3> HIDE DEF argv, fifoFiles
    <3>1. /\ size \in Nat /\ id \in 1 .. size
          /\ affects \in [1 .. size -> SUBSET (1 .. size)]
      BY <2>1
    <3>2. IsConfigOf(files.config, size, messages, id, affects[id])
      BY <3>1, ConfigLines
    <3> HIDE DEF files
    <3> QED
      BY <3>2 DEF IsConfigOf
  <2>7. parseNMessages(files.config) = messages
    BY <2>6 DEF parseNMessages
  <2>8. parseDependencies(files.config, id) = affects[id] \cup {id}
    <3>1. id + 1 <= Len(files.config)
      BY <2>1, <2>6
    <3> QED
      BY <2>6, <3>1 DEF parseDependencies
  <2>9. fifoFiles.config = <<<<messages>>>>
    BY DEF fifoGenerateConfig
  <2>10. parseNMessages(fifoFiles.config) = messages
    BY <2>9 DEF parseNMessages
  <2>11. parseDependencies(fifoFiles.config, id) = {}
    <3>1. Len(fifoFiles.config) = 1 /\ ~(id + 1 <= 1)
      BY <2>1, <2>9
    <3> QED
      BY <3>1 DEF parseDependencies
  <2> HIDE DEF argv, files, fifoFiles
  <2>12. /\ parseInternal(argv)
         /\ hostsPath(argv) = "hosts" /\ configPath(argv) = "config"
         /\ hostsOK(files.hosts)
         /\ localhost(files.hosts, id) = files.hosts[id]
         /\ \A i, j \in DOMAIN peers : i < j => peers[i] < peers[j]
         /\ parseNMessages(files.config) = messages
         /\ parseDependencies(files.config, id) = affects[id] \cup {id}
         /\ parseNMessages(fifoFiles.config) = messages
         /\ parseDependencies(fifoFiles.config, id) = {}
    BY <2>2, <2>4, <2>5, <2>7, <2>8, <2>10, <2>11
  <2> QED
    BY <2>12 DEF argv, files, fifoFiles, size
<1> QED
  BY <1>1, Invariance, PTL


================================================================================
