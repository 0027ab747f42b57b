--------------------------- MODULE SequenceLemmas ---------------------------
(* Facts about sequences and finite sets of numbers that the proofs about  *)
(* several components need.                                                *)
EXTENDS SequencesExt, SortedSets, SequenceTheorems, FiniteSetTheorems,
        WellFoundedInduction, TLAPS

\* The least number of a set.
LEMMA LeastNat ==
  ASSUME NEW T, T \subseteq Nat, T # {}
  PROVE  \E x \in T : \A y \in T : x <= y
<1>1. IsWellFoundedOn(OpToRel(<, Nat), Nat)
  BY NatLessThanWellFounded
<1>2. PICK x \in T : \A y \in T : ~(<<y, x>> \in OpToRel(<, Nat))
  BY <1>1, WFMin
<1>3. \A y \in T : ~(y < x)
  BY <1>2 DEF OpToRel
<1> QED  BY <1>3

\* What holds at the end of a range and of every number before one for which
\* it does, holds of all.
LEMMA Downward ==
  ASSUME NEW n \in Nat, NEW T, n \in T, \A i \in 1..n - 1 : i + 1 \in T => i \in T
  PROVE  \A i \in 1..n : i \in T
<1> SUFFICES ASSUME NEW i \in 1..n, i \notin T  PROVE FALSE
  OBVIOUS
<1> DEFINE Bad == {k \in Nat : n - k \in 1..n /\ n - k \notin T}
<1>1. n - i \in Bad /\ Bad \subseteq Nat
  OBVIOUS
<1>2. PICK k \in Bad : \A l \in Bad : k <= l
  <2> HIDE DEF Bad
  <2> QED  BY <1>1, LeastNat
<1>3. k \in Nat /\ n - k \in 1..n /\ n - k \notin T
  OBVIOUS
<1>4. k # 0
  BY <1>3
<1>5. k - 1 \in Nat /\ n - (k - 1) \in 1..n /\ (n - k) + 1 = n - (k - 1)
  BY <1>3, <1>4
<1>6. n - (k - 1) \in T
  BY <1>2, <1>5
<1>7. n - k \in 1..n - 1
  BY <1>3, <1>4
<1> QED  BY <1>3, <1>5, <1>6, <1>7

\* A sequence after an element is put at its end.
LEMMA AppendFacts ==
  ASSUME NEW T, NEW s \in Seq(T), NEW x \in T
  PROVE  /\ Append(s, x) \in Seq(T) /\ Len(Append(s, x)) = Len(s) + 1 /\ Len(s) \in Nat
         /\ \A k \in 1..Len(s) : Append(s, x)[k] = s[k]
         /\ Append(s, x)[Len(s) + 1] = x
OBVIOUS

\* A sequence after its first element is taken.
LEMMA TailFacts ==
  ASSUME NEW T, NEW s \in Seq(T), Len(s) >= 1
  PROVE  /\ Tail(s) \in Seq(T) /\ Len(Tail(s)) = Len(s) - 1 /\ Len(s) \in Nat
         /\ \A k \in 1..Len(s) - 1 : Tail(s)[k] = s[k + 1]
OBVIOUS

\* A sequence after an element is taken out of its place.
LEMMA RemovedFacts ==
  ASSUME NEW s \in Seq(Nat), NEW p \in DOMAIN s
  PROVE  /\ RemoveAt(s, p) \in Seq(Nat) /\ Len(RemoveAt(s, p)) = Len(s) - 1
         /\ \A k \in 1..Len(s) - 1 : RemoveAt(s, p)[k] = IF k < p THEN s[k] ELSE s[k + 1]
<1> DEFINE t == RemoveAt(s, p)
           n == Len(s)
<1>1. n \in Nat /\ DOMAIN s = 1..n /\ p \in 1..n /\ \A k \in 1..n : s[k] \in Nat
  OBVIOUS
<1> DEFINE a == SubSeq(s, 1, p - 1)  b == SubSeq(s, p + 1, n)
<1>2. a \in Seq(Nat) /\ Len(a) = p - 1 /\ \A k \in 1..p - 1 : a[k] = s[k]
  BY <1>1
<1>3. b \in Seq(Nat) /\ Len(b) = n - p /\ \A k \in 1..n - p : b[k] = s[k + p]
  <2>1. p + 1 \in 1..n + 1 /\ n - (p + 1) + 1 = n - p
    BY <1>1
  <2>2. \A k \in p + 1..n : s[k] \in Nat
    BY <1>1
  <2>3. b \in Seq(Nat)
    BY <1>1, <2>2
  <2>4. Len(b) = n - p
    BY <1>1, <2>1
  <2>5. ASSUME NEW k \in 1..n - p  PROVE b[k] = s[k + p]
    BY <1>1
  <2> QED  BY <2>3, <2>4, <2>5
<1>4. t = a \o b
  BY DEF RemoveAt
<1> HIDE DEF a, b, t
<1>5. /\ t \in Seq(Nat) /\ Len(t) = Len(a) + Len(b)
      /\ \A k \in 1..Len(a) + Len(b) : t[k] = IF k <= Len(a) THEN a[k] ELSE b[k - Len(a)]
  BY <1>2, <1>3, <1>4, ConcatProperties
<1> HIDE DEF n
<1>6. ASSUME NEW k \in 1..n - 1  PROVE t[k] = IF k < p THEN s[k] ELSE s[k + 1]
  <2>1. k \in 1..Len(a) + Len(b)
    BY <1>1, <1>2, <1>3
  <2>2. CASE k < p
    <3>1. k \in 1..p - 1 /\ k <= Len(a)
      BY <1>1, <1>2, <2>2
    <3> QED  BY <1>2, <1>5, <2>1, <2>2, <3>1
  <2>3. CASE ~(k < p)
    <3>1. ~(k <= Len(a)) /\ k - Len(a) \in 1..n - p /\ k - Len(a) + p = k + 1
      BY <1>1, <1>2, <2>3
    <3>2. b[k - Len(a)] = s[k + 1]
      BY <1>3, <3>1
    <3>3. t[k] = b[k - Len(a)]
      BY <1>5, <2>1, <3>1
    <3> QED  BY <2>3, <3>2, <3>3
  <2> QED  BY <2>2, <2>3
<1> QED  BY <1>1, <1>2, <1>3, <1>5, <1>6 DEF t, n

\* Sorted: the elements of a finite set of numbers, in order.
LEMMA SortedFacts ==
  ASSUME NEW S, S \subseteq Nat, IsFiniteSet(S)
  PROVE  /\ Sorted(S) \in Seq(S) /\ Len(Sorted(S)) = Cardinality(S) /\ Cardinality(S) \in Nat
         /\ \A x \in S : \E k \in 1..Cardinality(S) : Sorted(S)[k] = x
         /\ \A k \in 1..Cardinality(S) : Sorted(S)[k] \in S
         /\ \A k, l \in 1..Cardinality(S) : k < l => Sorted(S)[k] < Sorted(S)[l]
<1> DEFINE Low(x) == {y \in S : y <= x}
           N == Cardinality(S)
           f == [x \in S |-> Cardinality(Low(x))]
           e(k) == CHOOSE x \in S : Cardinality(Low(x)) = k
<1>1. N \in Nat
  BY FS_CardinalityType
<1>2. \A x \in S : Cardinality(Low(x)) \in 1..N
  <2> TAKE x \in S
  <2>1. Low(x) \in SUBSET S /\ x \in Low(x)
    OBVIOUS
  <2> HIDE DEF Low
  <2>2. IsFiniteSet(Low(x)) /\ Cardinality(Low(x)) <= N
    BY <2>1, FS_Subset
  <2>3. Cardinality(Low(x)) \in Nat /\ Cardinality(Low(x)) # 0
    BY <2>1, <2>2, FS_CardinalityType, FS_EmptySet
  <2> QED  BY <1>1, <2>2, <2>3
<1>3. ASSUME NEW x \in S, NEW z \in S, x < z
      PROVE  Cardinality(Low(x)) < Cardinality(Low(z))
  <2>1. Low(x) \in SUBSET Low(z) /\ Low(z) \in SUBSET S /\ Low(x) # Low(z)
    <3>1. z \in Low(z) /\ z \notin Low(x)
      BY <1>3
    <3>2. \A y \in S : y <= x => y <= z
      BY <1>3
    <3> QED  BY <3>1, <3>2
  <2>2. Cardinality(Low(x)) \in 1..N /\ Cardinality(Low(z)) \in 1..N
    BY <1>2
  <2> HIDE DEF Low
  <2>3. IsFiniteSet(Low(z))
    BY <2>1, FS_Subset
  <2>4. Cardinality(Low(x)) <= Cardinality(Low(z)) /\ Cardinality(Low(x)) # Cardinality(Low(z))
    BY <2>1, <2>3, FS_Subset
  <2> QED  BY <1>1, <2>2, <2>4
<1> HIDE DEF Low
<1>4. f \in Injection(S, 1..N)
  <2>1. f \in [S -> 1..N]
    BY <1>2
  <2>2. ASSUME NEW x \in S, NEW z \in S, f[x] = f[z]  PROVE x = z
    <3>1. Cardinality(Low(x)) = Cardinality(Low(z)) /\ Cardinality(Low(x)) \in 1..N
      BY <1>2, <2>2
    <3>2. ~(x < z) /\ ~(z < x)
      BY <1>1, <1>3, <3>1
    <3> QED  BY <3>2
  <2> QED  BY <2>1, <2>2 DEF Injection, IsInjective
<1>5. \A k \in 1..N : \E x \in S : Cardinality(Low(x)) = k
  <2>1. IsFiniteSet(1..N) /\ Cardinality(1..N) = N
    BY <1>1, FS_Interval
  <2> HIDE DEF f
  <2>2. f \in Surjection(S, 1..N)
    BY <1>4, <2>1, FS_Injection
  <2> USE DEF f
  <2> QED  BY <2>2 DEF Surjection
<1>6. \A k \in 1..N : e(k) \in S /\ Cardinality(Low(e(k))) = k
  BY <1>5
<1>7. Sorted(S) = [k \in 1..N |-> e(k)]
  BY DEF Sorted, Low
<1> HIDE DEF e, N
<1>8. Sorted(S) \in Seq(S) /\ Len(Sorted(S)) = N /\ \A k \in 1..N : Sorted(S)[k] = e(k)
  <2>1. \A k \in 1..N : e(k) \in S
    BY <1>6
  <2> QED  BY <1>1, <1>7, <2>1
<1>9. \A x \in S : \E k \in 1..N : e(k) = x
  <2> TAKE x \in S
  <2>1. PICK k \in 1..N : k = Cardinality(Low(x))
    BY <1>2
  <2>2. e(k) \in S /\ Cardinality(Low(e(k))) = Cardinality(Low(x))
    BY <1>6, <2>1
  <2>3. PICK z \in S : z = e(k)
    BY <2>2
  <2>4. Cardinality(Low(z)) = Cardinality(Low(x)) /\ Cardinality(Low(x)) \in Nat
    BY <1>1, <2>1, <2>2, <2>3
  <2>5. ~(x < z) /\ ~(z < x)
    BY <1>3, <2>4
  <2>6. z = x
    BY <2>5
  <2> QED  BY <2>3, <2>6
<1>10. ASSUME NEW k \in 1..N, NEW l \in 1..N, k < l  PROVE e(k) < e(l)
  <2>1. PICK x \in S, z \in S : x = e(k) /\ z = e(l)
    BY <1>6
  <2>2. Cardinality(Low(x)) = k /\ Cardinality(Low(z)) = l
    BY <1>6, <2>1
  <2>3. ~(z < x) /\ z # x
    BY <1>1, <1>3, <1>10, <2>2
  <2>4. x < z
    BY <2>3
  <2> QED  BY <2>1, <2>4
<1> QED  BY <1>1, <1>6, <1>8, <1>9, <1>10 DEF N

\* A sequence after an element is put into it.
LEMMA InsertedFacts ==
  ASSUME NEW T, NEW s \in Seq(T), NEW p \in 1..Len(s) + 1, NEW x \in T
  PROVE  /\ InsertAt(s, p, x) \in Seq(T) /\ Len(InsertAt(s, p, x)) = Len(s) + 1
         /\ Len(s) \in Nat
         /\ \A k \in 1..p - 1 : InsertAt(s, p, x)[k] = s[k]
         /\ InsertAt(s, p, x)[p] = x
         /\ \A k \in p + 1..Len(s) + 1 : InsertAt(s, p, x)[k] = s[k - 1]
<1> DEFINE n == Len(s)
           a == SubSeq(s, 1, p - 1)  b == SubSeq(s, p, n)  c == <<x>>
<1>1. n \in Nat /\ \A k \in 1..n : s[k] \in T
  OBVIOUS
<1>2. a \in Seq(T) /\ Len(a) = p - 1 /\ \A k \in 1..p - 1 : a[k] = s[k]
  BY <1>1
<1>3. b \in Seq(T) /\ Len(b) = n - p + 1 /\ \A k \in 1..n - p + 1 : b[k] = s[k + p - 1]
  <2>1. \A k \in p..n : s[k] \in T
    BY <1>1
  <2>2. b \in Seq(T) /\ Len(b) = IF p <= n THEN n - p + 1 ELSE 0
    BY <1>1, <2>1, SubSeqProperties
  <2>3. ASSUME NEW k \in 1..n - p + 1  PROVE b[k] = s[k + p - 1]
    BY <1>1
  <2> QED  BY <1>1, <2>2, <2>3
<1>4. c \in Seq(T) /\ Len(c) = 1 /\ c[1] = x
  OBVIOUS
<1>5. InsertAt(s, p, x) = (a \o c) \o b
  BY DEF InsertAt
<1> HIDE DEF a, b, c, n
<1>6. /\ a \o c \in Seq(T) /\ Len(a \o c) = p
      /\ \A k \in 1..p - 1 : (a \o c)[k] = s[k]
      /\ (a \o c)[p] = x
  <2>1. /\ a \o c \in Seq(T) /\ Len(a \o c) = Len(a) + Len(c)
        /\ \A k \in 1..Len(a) + Len(c) :
              (a \o c)[k] = IF k <= Len(a) THEN a[k] ELSE c[k - Len(a)]
    BY <1>2, <1>4, ConcatProperties
  <2>2. Len(a) + Len(c) = p /\ p - Len(a) = 1 /\ p \in 1..p
    BY <1>1, <1>2, <1>4
  <2>3. \A k \in 1..p - 1 : k \in 1..p /\ k <= Len(a)
    BY <1>1, <1>2
  <2>4. ~(p <= Len(a))
    BY <1>1, <1>2
  <2> QED  BY <1>2, <1>4, <2>1, <2>2, <2>3, <2>4
<1>7. PICK d \in Seq(T) : d = a \o c
  BY <1>6
<1>8. /\ d \o b \in Seq(T) /\ Len(d \o b) = Len(d) + Len(b)
      /\ \A k \in 1..Len(d) + Len(b) : (d \o b)[k] = IF k <= Len(d) THEN d[k] ELSE b[k - Len(d)]
  BY <1>3, ConcatProperties
<1>9. Len(d) = p /\ Len(d) + Len(b) = n + 1
  <2>1. Len(d) = p
    BY <1>6, <1>7
  <2>2. p \in Int
    BY <1>1
  <2> QED  BY <1>1, <1>3, <2>1, <2>2
<1>10. \A k \in 1..p : k \in 1..n + 1 /\ k <= Len(d)
  BY <1>1, <1>9 DEF n
<1>11. ASSUME NEW k \in p + 1..n + 1  PROVE (d \o b)[k] = s[k - 1]
  <2>1. /\ k \in 1..n + 1 /\ ~(k <= Len(d)) /\ k - Len(d) \in 1..n - p + 1
        /\ k - Len(d) + p - 1 = k - 1
    BY <1>1, <1>9
  <2>2. b[k - Len(d)] = s[k - 1]
    BY <1>3, <2>1
  <2>3. (d \o b)[k] = b[k - Len(d)]
    BY <1>8, <1>9, <2>1
  <2> QED  BY <2>2, <2>3
<1>12. \A k \in 1..p - 1 : k \in 1..p
  BY <1>1
<1>13. p \in 1..p
  BY <1>1
<1> QED  BY <1>1, <1>5, <1>6, <1>7, <1>8, <1>9, <1>10, <1>11, <1>12, <1>13 DEF n

\* The elements that remain keep their order.
LEMMA RemainingFacts ==
  ASSUME NEW U, NEW s \in Seq(U), NEW T
  PROVE  /\ Remaining(s, T) \in Seq(U)
         /\ \E m \in Seq(1..Len(s)) :
              /\ Len(m) = Len(Remaining(s, T))
              /\ \A k \in 1..Len(m) : /\ m[k] \in 1..Len(s) /\ s[m[k]] \notin T
                                      /\ Remaining(s, T)[k] = s[m[k]]
              /\ \A k, l \in 1..Len(m) : k < l => m[k] < m[l]
              /\ \A i \in 1..Len(s) : s[i] \notin T => \E k \in 1..Len(m) : m[k] = i
<1> DEFINE left == {i \in DOMAIN s : s[i] \notin T}
           m == Sorted(left)
           N == Cardinality(left)
           r == Remaining(s, T)
<1>1. DOMAIN s = 1..Len(s) /\ Len(s) \in Nat
  OBVIOUS
<1>2. left \subseteq Nat /\ left \subseteq 1..Len(s) /\ IsFiniteSet(left)
  <2>1. left \subseteq 1..Len(s)
    BY <1>1
  <2> HIDE DEF left
  <2>2. IsFiniteSet(1..Len(s))
    BY <1>1, FS_Interval
  <2>3. IsFiniteSet(left)
    BY <2>1, <2>2, FS_Subset
  <2> QED  BY <1>1, <2>1, <2>3
<1>3. /\ \A i \in left : i \in 1..Len(s) /\ s[i] \notin T
      /\ \A i \in 1..Len(s) : s[i] \notin T => i \in left
  BY <1>1
<1>4. r = [k \in DOMAIN m |-> s[m[k]]]
  BY DEF Remaining
<1> HIDE DEF left, r
<1>5. /\ m \in Seq(left) /\ Len(m) = N /\ N \in Nat
      /\ \A x \in left : \E k \in 1..N : m[k] = x
      /\ \A k \in 1..N : m[k] \in left
      /\ \A k, l \in 1..N : k < l => m[k] < m[l]
  BY <1>2, SortedFacts
<1> HIDE DEF m, N
<1>6. DOMAIN m = 1..N /\ m \in Seq(1..Len(s))
  <2>1. DOMAIN m = 1..N
    BY <1>5
  <2>2. \A k \in 1..Len(m) : m[k] \in 1..Len(s)
    BY <1>2, <1>5
  <2> QED  BY <1>5, <2>1, <2>2
<1>7. \A k \in 1..N : m[k] \in 1..Len(s) /\ s[m[k]] \in U
  BY <1>3, <1>5
<1>8. r \in Seq(U) /\ Len(r) = N /\ \A k \in 1..N : r[k] = s[m[k]]
  BY <1>4, <1>5, <1>6, <1>7
<1>9. /\ Len(m) = Len(r)
      /\ \A k \in 1..Len(m) : m[k] \in 1..Len(s) /\ s[m[k]] \notin T /\ r[k] = s[m[k]]
      /\ \A k, l \in 1..Len(m) : k < l => m[k] < m[l]
  BY <1>3, <1>5, <1>7, <1>8
<1>10. \A i \in 1..Len(s) : s[i] \notin T => \E k \in 1..Len(m) : m[k] = i
  BY <1>3, <1>5
<1> QED  BY <1>6, <1>8, <1>9, <1>10 DEF r
=============================================================================
