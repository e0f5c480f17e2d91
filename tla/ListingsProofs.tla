---------------------------- MODULE ListingsProofs ----------------------------
(***************************************************************************)
(* What the functions of Listings return, of any list: selecting, sorting, *)
(* merging and scoring.  LegPipelineProofs and ItineraryProofs rest on it. *)
(***************************************************************************)
EXTENDS Listings, TLAPS, WellFoundedInduction, FiniteSetTheorems

-----------------------------------------------------------------------------
\* Ranks.

\* Every set of naturals has a least element, which is what induction needs.
LEMMA LeastNatural ==
  ASSUME NEW T \in SUBSET Nat, T # {}
  PROVE  \E n \in T : \A m \in T : n <= m
<1> DEFINE R == OpToRel(<, Nat)
<1>1. \A m, n \in Nat : m < n => <<m, n>> \in R
  BY DEF OpToRel
<1>2. IsWellFoundedOn(R, Nat)
  BY NatLessThanWellFounded
<1> HIDE DEF R
<1>3. PICK n \in T : \A m \in T : ~ (<<m, n>> \in R)
  BY <1>2, WFMin
<1>4. n \in Nat /\ \A m \in T : m \in Nat
  OBVIOUS
<1>5. \A m \in T : ~ (m < n)
  BY <1>1, <1>3, <1>4
<1> QED
  BY <1>4, <1>5

\* A[i] is what is ahead of i in a total order of the elements of I.
TotalOrder(I, A) ==
  /\ IsFiniteSet(I)
  /\ A \in [I -> SUBSET I]
  /\ \A i \in I : i \notin A[i]
  /\ \A i, j \in I : i # j => (i \in A[j] \/ j \in A[i])
  /\ \A i, j \in I : i \in A[j] => A[i] \subseteq A[j]

\* Counting what is ahead of each element of a finite set gives every rank once.
LEMMA Ranks ==
  ASSUME NEW I, NEW A, TotalOrder(I, A)
  PROVE  /\ \A i, j \in I : i \in A[j] => Cardinality(A[i]) < Cardinality(A[j])
         /\ \A i \in I : Cardinality(A[i]) + 1 \in 1..Cardinality(I)
         /\ \A n \in 1..Cardinality(I) : \E i \in I : Cardinality(A[i]) = n - 1
<1> USE DEF TotalOrder
<1>1. Cardinality(I) \in Nat
  BY FS_CardinalityType
<1>2. \A i \in I : A[i] \subseteq I /\ IsFiniteSet(A[i]) /\ Cardinality(A[i]) \in Nat
  BY FS_Subset, FS_CardinalityType
<1>3. ASSUME NEW i \in I, NEW j \in I, i \in A[j]
      PROVE  Cardinality(A[i]) < Cardinality(A[j])
  <2>1. A[i] \subseteq A[j] /\ A[i] # A[j]
    BY <1>3
  <2>2. Cardinality(A[i]) <= Cardinality(A[j]) /\ Cardinality(A[i]) # Cardinality(A[j])
    BY <1>2, <2>1, FS_Subset
  <2> QED
    BY <1>2, <2>2
<1>4. ASSUME NEW i \in I PROVE Cardinality(A[i]) + 1 \in 1..Cardinality(I)
  <2>1. A[i] \subseteq I /\ A[i] # I
    BY <1>2
  <2>2. Cardinality(A[i]) <= Cardinality(I) /\ Cardinality(A[i]) # Cardinality(I)
    BY <1>2, <2>1, FS_Subset
  <2> QED
    BY <1>1, <1>2, <2>2
<1> DEFINE N == Cardinality(I)
           rank == [i \in I |-> Cardinality(A[i]) + 1]
<1>5. rank \in Injection(I, 1..N)
  <2>1. rank \in [I -> 1..N]
    BY <1>4
  <2>2. ASSUME NEW i \in I, NEW j \in I, rank[i] = rank[j] PROVE i = j
    <3>1. Cardinality(A[i]) = Cardinality(A[j])
      BY <1>2, <2>2
    <3> QED
      BY <1>2, <1>3, <3>1
  <2> QED
    BY <2>1, <2>2 DEF Injection, IsInjective
<1>6. IsFiniteSet(1..N) /\ Cardinality(1..N) = N
  BY <1>1, FS_Interval
<1>7. rank \in Surjection(I, 1..N)
  BY <1>5, <1>6, FS_Injection
<1>8. ASSUME NEW n \in 1..N PROVE \E i \in I : Cardinality(A[i]) = n - 1
  <2>1. PICK i \in I : rank[i] = n
    BY <1>7 DEF Surjection
  <2> QED
    BY <1>2, <2>1
<1> QED
  BY <1>3, <1>4, <1>8

\* So listing by rank lists everything once, what is ahead first.
LEMMA Ranked ==
  ASSUME NEW I, NEW A, TotalOrder(I, A), NEW at,
         \A n \in 1..Cardinality(I) : at[n] \in I /\ Cardinality(A[at[n]]) = n - 1
  PROVE  /\ \A i \in I : \E n \in 1..Cardinality(I) : at[n] = i
         /\ \A m, n \in 1..Cardinality(I) : m < n => at[m] \in A[at[n]]
<1>1. \A i \in I : Cardinality(A[i]) \in Nat
  BY FS_Subset, FS_CardinalityType DEF TotalOrder
<1>2. Cardinality(I) \in Nat
  BY FS_CardinalityType DEF TotalOrder
<1>3. /\ \A i, j \in I : i \in A[j] => Cardinality(A[i]) < Cardinality(A[j])
      /\ \A i \in I : Cardinality(A[i]) + 1 \in 1..Cardinality(I)
      /\ \A n \in 1..Cardinality(I) : \E i \in I : Cardinality(A[i]) = n - 1
  BY Ranks
<1>4. ASSUME NEW i \in I PROVE \E n \in 1..Cardinality(I) : at[n] = i
  <2> DEFINE n == Cardinality(A[i]) + 1
  <2>1. n \in 1..Cardinality(I) /\ n - 1 = Cardinality(A[i])
    BY <1>1, <1>3
  <2>2. at[n] \in I /\ Cardinality(A[at[n]]) = Cardinality(A[i])
    BY <2>1
  <2>3. at[n] \notin A[i] /\ i \notin A[at[n]]
    BY <1>1, <1>3, <2>2 DEF TotalOrder
  <2> QED
    BY <2>1, <2>2, <2>3 DEF TotalOrder
<1>5. ASSUME NEW m \in 1..Cardinality(I), NEW n \in 1..Cardinality(I), m < n
      PROVE  at[m] \in A[at[n]]
  <2>1. Cardinality(A[at[m]]) = m - 1 /\ Cardinality(A[at[n]]) = n - 1
    OBVIOUS
  <2>2. at[m] # at[n] /\ at[n] \notin A[at[m]]
    BY <1>1, <1>2, <1>3, <1>5, <2>1 DEF TotalOrder
  <2> QED
    BY <2>2 DEF TotalOrder
<1> QED
  BY <1>4, <1>5

\* A loop that keeps some elements keeps each once, in their order.
LEMMA KeptInOrder ==
  ASSUME NEW S, NEW s \in Seq(S), NEW kept \in SUBSET DOMAIN s
  PROVE  /\ Cardinality(kept) \in Nat
         /\ \A n \in 1..Cardinality(kept) : Nth(kept, n) \in kept
         /\ \A i \in kept : \E n \in 1..Cardinality(kept) : Nth(kept, n) = i
         /\ \A m, n \in 1..Cardinality(kept) : m < n => Nth(kept, m) < Nth(kept, n)
         /\ Kept(s, kept) \in Seq(S)
<1> DEFINE A == [i \in kept |-> {j \in kept : j < i}]
           at == [n \in 1..Cardinality(kept) |-> Nth(kept, n)]
<1>1. DOMAIN s = 1..Len(s) /\ Len(s) \in Nat /\ \A i \in DOMAIN s : s[i] \in S
  OBVIOUS
<1>2. IsFiniteSet(kept)
  <2>1. IsFiniteSet(1..Len(s))
    BY <1>1, FS_Interval
  <2> QED
    BY <1>1, <2>1, FS_Subset
<1>3. \A i \in kept : i \in Nat
  BY <1>1
<1>4. A \in [kept -> SUBSET kept]
  OBVIOUS
<1>5. TotalOrder(kept, A)
  <2>1. /\ \A i \in kept : i \notin A[i]
        /\ \A i, j \in kept : i # j => (i \in A[j] \/ j \in A[i])
        /\ \A i, j \in kept : i \in A[j] => A[i] \subseteq A[j]
    BY <1>3
  <2> HIDE DEF A
  <2> QED
    BY <1>2, <1>4, <2>1 DEF TotalOrder
<1>6. Cardinality(kept) \in Nat
  BY <1>2, FS_CardinalityType
<1>7. \A n \in 1..Cardinality(kept) : at[n] = Nth(kept, n)
  OBVIOUS
<1>8. \A n \in 1..Cardinality(kept) : at[n] \in kept /\ Cardinality(A[at[n]]) = n - 1
  <2> SUFFICES ASSUME NEW n \in 1..Cardinality(kept)
               PROVE  Nth(kept, n) \in kept /\ Cardinality(A[Nth(kept, n)]) = n - 1
    BY <1>7
  <2>1. PICK i \in kept : Cardinality(A[i]) = n - 1
    <3> HIDE DEF A
    <3> QED
      BY <1>5, Ranks
  <2>2. Cardinality({j \in kept : j < i}) = n - 1
    BY <2>1
  <2>3. Nth(kept, n) \in kept /\ Cardinality({j \in kept : j < Nth(kept, n)}) = n - 1
    BY <2>2 DEF Nth
  <2> QED
    BY <2>3
<1>9. /\ \A i \in kept : \E n \in 1..Cardinality(kept) : at[n] = i
      /\ \A m, n \in 1..Cardinality(kept) : m < n => at[m] \in A[at[n]]
  <2> HIDE DEF A, at
  <2> QED
    BY <1>5, <1>8, Ranked
<1> HIDE DEF at
<1>10. \A n \in 1..Cardinality(kept) : Nth(kept, n) \in kept
  BY <1>7, <1>8
<1>11. \A i \in kept : \E n \in 1..Cardinality(kept) : Nth(kept, n) = i
  BY <1>7, <1>9
<1>12. \A m, n \in 1..Cardinality(kept) : m < n => Nth(kept, m) < Nth(kept, n)
  BY <1>7, <1>8, <1>9
<1>13. Kept(s, kept) \in Seq(S)
  BY <1>1, <1>6, <1>10 DEF Kept
<1> QED
  BY <1>6, <1>10, <1>11, <1>12, <1>13

-----------------------------------------------------------------------------
\* Concatenation.

\* FlattenSeq defined: what has been concatenated up to each sequence.
LEMMA FlattenSteps ==
  ASSUME NEW S, NEW seqs \in Seq(Seq(S)), Len(seqs) # 0
  PROVE  \E f \in [1..Len(seqs) -> Seq(S)] :
           /\ f[1] = seqs[1]
           /\ \A i \in 2..Len(seqs) : f[i] = f[i - 1] \o seqs[i]
           /\ FlattenSeq(seqs) = f[Len(seqs)]
<1> DEFINE n == Len(seqs)
           Step(f, i) == IF i = 1 THEN seqs[i] ELSE f[i - 1] \o seqs[i]
           Upto(f, m) == f = [i \in 1..m |-> Step(f, i)]
           Reached(m) == \E f : Upto(f, m)
           T == {m \in 1..n : ~Reached(m)}
<1>1. n \in Nat /\ n >= 1 /\ \A i \in 1..n : seqs[i] \in Seq(S)
  OBVIOUS
<1>2. ASSUME NEW k \in 1..n, k # 1 => Reached(k - 1) PROVE Reached(k)
  <2>1. CASE k = 1
    <3> DEFINE f == [i \in 1..k |-> seqs[i]]
    <3>1. Upto(f, k)
      BY <2>1
    <3> QED
      BY <3>1, Zenon
  <2>2. CASE k # 1
    <3>1. k \in Nat /\ k > 1 /\ k - 1 \in Nat
      BY <1>1, <2>2
    <3>2. PICK g : Upto(g, k - 1)
      BY <1>2, <2>2, Zenon
    <3> DEFINE f == [i \in 1..k |-> IF i < k THEN g[i] ELSE g[k - 1] \o seqs[k]]
    <3>3. ASSUME NEW i \in 1..k PROVE f[i] = Step(f, i)
      <4>1. CASE i = 1
        <5>1. i \in 1..(k - 1) /\ i < k
          BY <3>1, <4>1
        <5>2. f[i] = g[i]
          BY <5>1
        <5>3. g[i] = seqs[i]
          BY <3>2, <4>1, <5>1
        <5> QED
          BY <4>1, <5>2, <5>3
      <4>2. CASE i # 1 /\ i < k
        <5>1. i \in 1..(k - 1) /\ i - 1 \in 1..k /\ i - 1 < k
          BY <3>1, <4>2
        <5>2. f[i] = g[i] /\ f[i - 1] = g[i - 1]
          BY <4>2, <5>1
        <5>3. g[i] = g[i - 1] \o seqs[i]
          BY <3>2, <4>2, <5>1
        <5> QED
          BY <4>2, <5>2, <5>3
      <4>3. CASE i = k
        <5>1. k \in 1..k /\ k - 1 \in 1..k /\ k - 1 < k /\ ~ (k < k)
          BY <3>1
        <5>2. f[k] = g[k - 1] \o seqs[k] /\ f[k - 1] = g[k - 1]
          BY <5>1
        <5> QED
          BY <2>2, <4>3, <5>2
      <4> QED
        BY <3>1, <4>1, <4>2, <4>3
    <3>4. f = [i \in 1..k |-> f[i]]
      OBVIOUS
    <3>5. Upto(f, k)
      <4> HIDE DEF f
      <4> QED
        BY <3>3, <3>4
    <3> QED
      BY <3>5, Zenon
  <2> QED
    BY <2>1, <2>2
<1>3. Reached(n)
  <2>1. n \in 1..n
    BY <1>1
  <2> SUFFICES ASSUME T # {} PROVE FALSE
    <3> HIDE DEF Reached, n
    <3> QED
      BY <2>1, Zenon
  <2> HIDE DEF Reached
  <2>2. T \in SUBSET Nat
    BY <1>1
  <2>3. PICK k \in T : \A m \in T : k <= m
    <3> HIDE DEF T
    <3> QED
      BY <2>2, LeastNatural
  <2>4. k \in 1..n /\ ~Reached(k)
    BY <2>3
  <2>5. CASE k = 1
    BY <1>2, <2>4, <2>5
  <2>6. CASE k # 1
    <3>1. k - 1 \in 1..n /\ ~ (k <= k - 1)
      BY <1>1, <2>4, <2>6
    <3>2. Reached(k - 1)
      BY <2>3, <3>1
    <3> QED
      BY <1>2, <2>4, <3>2
  <2> QED
    BY <2>5, <2>6
<1> DEFINE flatten == CHOOSE f : Upto(f, n)
<1>4. Upto(flatten, n)
  BY <1>3, Zenon
<1>5. FlattenSeq(seqs) = flatten[n]
  BY DEF FlattenSeq
<1> HIDE DEF flatten
<1>6. DOMAIN flatten = 1..n /\ \A i \in 1..n : flatten[i] = Step(flatten, i)
  BY <1>4
<1>7. flatten = [i \in 1..n |-> flatten[i]]
  BY <1>4
<1> HIDE DEF Upto
<1>8. flatten[1] = seqs[1] /\ \A i \in 2..n : flatten[i] = flatten[i - 1] \o seqs[i]
  <2>1. 1 \in 1..n /\ \A i \in 2..n : i \in 1..n /\ i # 1
    BY <1>1
  <2>2. flatten[1] = seqs[1]
    BY <1>6, <2>1
  <2>3. ASSUME NEW i \in 2..n PROVE flatten[i] = flatten[i - 1] \o seqs[i]
    BY <1>6, <2>1
  <2> QED
    BY <2>2, <2>3
<1> DEFINE U == {i \in 1..n : flatten[i] \notin Seq(S)}
<1>9. U = {}
  <2> SUFFICES ASSUME U # {} PROVE FALSE
    OBVIOUS
  <2>1. U \in SUBSET Nat
    BY <1>1
  <2>2. PICK k \in U : \A m \in U : k <= m
    <3> HIDE DEF U
    <3> QED
      BY <2>1, LeastNatural
  <2>3. k \in 1..n /\ flatten[k] \notin Seq(S)
    BY <2>2
  <2>4. k # 1
    BY <1>1, <1>8, <2>3
  <2>5. k \in 2..n /\ k - 1 \in 1..n /\ ~ (k <= k - 1)
    BY <1>1, <2>3, <2>4
  <2>6. flatten[k - 1] \in Seq(S) /\ seqs[k] \in Seq(S)
    BY <1>1, <2>2, <2>5
  <2>7. flatten[k - 1] \o seqs[k] \in Seq(S)
    BY ONLY <2>6
  <2> QED
    BY <1>8, <2>3, <2>5, <2>7
<1>10. flatten \in [1..n -> Seq(S)]
  <2>1. \A i \in 1..n : flatten[i] \in Seq(S)
    BY <1>9
  <2> QED
    BY <1>7, <2>1
<1> QED
  BY <1>5, <1>8, <1>10

\* What is flattened is a sequence of the same elements.
LEMMA FlattenElements ==
  ASSUME NEW S, NEW seqs \in Seq(Seq(S))
  PROVE  FlattenSeq(seqs) \in Seq(S)
<1>1. CASE Len(seqs) = 0
  <2>1. seqs = <<>>
    BY <1>1
  <2>2. FlattenSeq(seqs) = seqs
    BY <1>1, Zenon DEF FlattenSeq
  <2>3. <<>> \in Seq(S)
    OBVIOUS
  <2> QED
    BY ONLY <2>1, <2>2, <2>3
<1>2. CASE Len(seqs) # 0
  <2>1. Len(seqs) \in 1..Len(seqs)
    BY <1>2
  <2>2. PICK f \in [1..Len(seqs) -> Seq(S)] : FlattenSeq(seqs) = f[Len(seqs)]
    BY <1>2, FlattenSteps
  <2>3. f[Len(seqs)] \in Seq(S)
    BY ONLY <2>1, f \in [1..Len(seqs) -> Seq(S)]
  <2> QED
    BY <2>2, <2>3
<1> QED
  BY <1>1, <1>2

\* What is put end to end is all there.
LEMMA FlattenHolds ==
  ASSUME NEW S, NEW seqs \in Seq(Seq(S)), NEW i \in 1..Len(seqs), NEW x \in ToSet(seqs[i])
  PROVE  x \in ToSet(FlattenSeq(seqs))
<1> DEFINE n == Len(seqs)
<1>1. n \in Nat /\ n # 0 /\ \A k \in 1..n : seqs[k] \in Seq(S)
  OBVIOUS
<1>2. PICK f \in [1..n -> Seq(S)] :
        /\ f[1] = seqs[1]
        /\ \A k \in 2..n : f[k] = f[k - 1] \o seqs[k]
        /\ FlattenSeq(seqs) = f[n]
  BY <1>1, FlattenSteps
<1>3. \A a, b \in Seq(S) : ToSet(a) \subseteq ToSet(a \o b) /\ ToSet(b) \subseteq ToSet(a \o b)
  <2> SUFFICES ASSUME NEW a \in Seq(S), NEW b \in Seq(S)
               PROVE  ToSet(a) \subseteq ToSet(a \o b) /\ ToSet(b) \subseteq ToSet(a \o b)
    OBVIOUS
  <2>1. \A k \in 1..Len(a) : k \in DOMAIN (a \o b) /\ (a \o b)[k] = a[k]
    OBVIOUS
  <2>2. \A k \in 1..Len(b) : Len(a) + k \in DOMAIN (a \o b) /\ (a \o b)[Len(a) + k] = b[k]
    OBVIOUS
  <2>3. DOMAIN a = 1..Len(a) /\ DOMAIN b = 1..Len(b)
    OBVIOUS
  <2>4. ToSet(a) \subseteq ToSet(a \o b)
    BY ONLY <2>1, <2>3, Zenon DEF ToSet
  <2>5. ToSet(b) \subseteq ToSet(a \o b)
    BY ONLY <2>2, <2>3, Zenon DEF ToSet
  <2> QED
    BY <2>4, <2>5
<1> HIDE DEF n
<1> DEFINE T == {k \in i..n : x \notin ToSet(f[k])}
<1>4. i \in 1..n
  BY DEF n
<1>5. x \in ToSet(f[i])
  <2>1. CASE i = 1
    BY <1>2, <2>1
  <2>2. CASE i # 1
    <3>1. i \in 2..n /\ i - 1 \in 1..n
      BY <1>1, <1>4, <2>2
    <3>2. f[i] = f[i - 1] \o seqs[i] /\ f[i - 1] \in Seq(S) /\ seqs[i] \in Seq(S)
      BY <1>1, <1>2, <1>4, <3>1
    <3> QED
      BY <1>3, <3>2
  <2> QED
    BY <2>1, <2>2
<1>6. T = {}
  <2> SUFFICES ASSUME T # {} PROVE FALSE
    OBVIOUS
  <2>1. T \in SUBSET Nat
    BY <1>1, <1>4
  <2>2. PICK k \in T : \A m \in T : k <= m
    <3> HIDE DEF T
    <3> QED
      BY <2>1, LeastNatural
  <2>3. k \in i..n /\ x \notin ToSet(f[k]) /\ k # i
    BY <1>5, <2>2
  <2>4. k \in 2..n /\ k - 1 \in i..n /\ k - 1 \in 1..n /\ k \in 1..n /\ ~(k <= k - 1)
    BY <1>1, <1>4, <2>3
  <2>5. x \in ToSet(f[k - 1])
    BY <2>2, <2>4
  <2>6. f[k] = f[k - 1] \o seqs[k] /\ f[k - 1] \in Seq(S) /\ seqs[k] \in Seq(S)
    BY <1>1, <1>2, <2>4
  <2> QED
    BY <1>3, <2>3, <2>5, <2>6
<1>7. n \in i..n
  BY <1>1, <1>4
<1> QED
  BY <1>2, <1>6, <1>7

-----------------------------------------------------------------------------
\* Lists of flights.

\* Picking from a list gives a list.
LEMMA ListedFrom ==
  ASSUME NEW S, Flights(S), NEW fs \in Seq(S)
  PROVE  Listed(fs)
<1>1. ToSet(fs) \subseteq S /\ \A i \in DOMAIN fs : fs[i] \in ToSet(fs)
  BY DEF ToSet
<1>2. fs \in Seq(ToSet(fs))
  BY <1>1
<1> QED
  BY <1>1, <1>2 DEF Listed, Flights

\* The places of a list, and what is in them.
LEMMA ListedPlaces ==
  ASSUME NEW fs, Listed(fs)
  PROVE  /\ Len(fs) \in Nat /\ DOMAIN fs = 1..Len(fs)
         /\ \A i \in DOMAIN fs : IsFlight(fs[i])
BY DEF Listed, Flights, ToSet

\* Flights given place by place are a list.
LEMMA ListedIf ==
  ASSUME NEW n \in Nat, NEW fs, fs = [i \in 1..n |-> fs[i]],
         \A i \in 1..n : IsFlight(fs[i])
  PROVE  Listed(fs)
<1>1. \A i \in 1..n : fs[i] \in ToSet(fs)
  BY DEF ToSet
<1>2. fs \in Seq(ToSet(fs))
  BY <1>1
<1>3. Flights(ToSet(fs))
  BY DEF Flights, ToSet
<1> QED
  BY <1>2, <1>3 DEF Listed

\* A failed provider contributes an empty list.
LEMMA ListedNone == Listed(<<>>)
<1>1. <<>> \in Seq({}) /\ Flights({})
  BY DEF Flights
<1> QED
  BY <1>1, ListedFrom

\* Lists put end to end are made of what they were made of.
LEMMA FlattenedFrom ==
  ASSUME NEW n \in Nat, NEW seqs, seqs = [i \in 1..n |-> seqs[i]],
         \A i \in 1..n : Listed(seqs[i])
  PROVE  FlattenSeq(seqs) \in Seq(UNION {ToSet(seqs[i]) : i \in 1..n})
<1> DEFINE S == UNION {ToSet(seqs[i]) : i \in 1..n}
<1>1. ASSUME NEW i \in 1..n PROVE seqs[i] \in Seq(S)
  <2>1. ToSet(seqs[i]) \subseteq S
    OBVIOUS
  <2>2. seqs[i] \in Seq(ToSet(seqs[i]))
    BY DEF Listed
  <2> HIDE DEF S
  <2> QED
    BY <2>1, <2>2
<1> HIDE DEF S
<1>2. seqs \in Seq(Seq(S))
  BY <1>1
<1>3. FlattenSeq(seqs) \in Seq(S)
  BY <1>2, FlattenElements
<1> QED
  BY <1>3 DEF S

\* So they are a list.
LEMMA ListedFlat ==
  ASSUME NEW n \in Nat, NEW seqs, seqs = [i \in 1..n |-> seqs[i]],
         \A i \in 1..n : Listed(seqs[i])
  PROVE  Listed(FlattenSeq(seqs))
<1> DEFINE S == UNION {ToSet(seqs[i]) : i \in 1..n}
<1>1. Flights(S)
  BY DEF Listed, Flights
<1>2. FlattenSeq(seqs) \in Seq(S)
  BY FlattenedFrom
<1> QED
  BY <1>1, <1>2, ListedFrom

\* So is what is kept of a list.
LEMMA ListedKept ==
  ASSUME NEW fs, Listed(fs), NEW kept \in SUBSET DOMAIN fs
  PROVE  Listed(Kept(fs, kept))
<1>1. Kept(fs, kept) \in Seq(ToSet(fs))
  BY KeptInOrder DEF Listed
<1> QED
  BY <1>1, ListedFrom DEF Listed

\* The criteria and the filters only keep flights.
LEMMA ListedFiltered ==
  ASSUME NEW fs, Listed(fs), NEW f
  PROVE  Listed(Filtered(fs, f)) /\ Listed(FilterByCriteria(fs, f))
<1>1. /\ {i \in DOMAIN fs : Matches(fs[i], f)} \in SUBSET DOMAIN fs
      /\ {i \in DOMAIN fs : MatchesCriteria(fs[i], f)} \in SUBSET DOMAIN fs
  OBVIOUS
<1> QED
  BY <1>1, ListedKept DEF Filtered, FilterByCriteria

-----------------------------------------------------------------------------
\* Sorting and merging.

\* n places.
LEMMA Places ==
  ASSUME NEW n \in Nat
  PROVE  IsFiniteSet(1..n) /\ Cardinality(1..n) = n
BY FS_Interval

\* Ordering by a key, and by place where keys are equal, ranks every place.
OrderedByKey(I, key, A) ==
  /\ IsFiniteSet(I) /\ I \in SUBSET Int
  /\ key \in [I -> Int]
  /\ A \in [I -> SUBSET I]
  /\ \A i, j \in I : j \in A[i] <=> key[j] < key[i] \/ (~(key[i] < key[j]) /\ j < i)

\* Such an order is total.
LEMMA KeysRank ==
  ASSUME NEW I, NEW key, NEW A, OrderedByKey(I, key, A)
  PROVE  TotalOrder(I, A)
<1> USE DEF OrderedByKey
<1>1. \A i \in I : key[i] \in Int /\ i \in Int
  OBVIOUS
<1>2. \A i \in I : i \notin A[i]
  BY <1>1
<1>3. \A i, j \in I : i # j => (i \in A[j] \/ j \in A[i])
  BY <1>1
<1>4. ASSUME NEW i \in I, NEW j \in I, i \in A[j], NEW k \in A[i] PROVE k \in A[j]
  <2>1. k \in I
    OBVIOUS
  <2>2. key[j] \in Int /\ key[i] \in Int /\ key[k] \in Int
    BY <1>1, <2>1
  <2>3. key[k] < key[i] \/ (~(key[i] < key[k]) /\ k < i)
    BY <1>4, <2>1
  <2>4. key[i] < key[j] \/ (~(key[j] < key[i]) /\ i < j)
    BY <1>4
  <2>5. key[k] < key[j] \/ (~(key[j] < key[k]) /\ k < j)
    BY <1>1, <2>1, <2>2, <2>3, <2>4
  <2> QED
    BY <2>1, <2>5
<1> QED
  BY <1>2, <1>3, <1>4 DEF TotalOrder

\* So ranking by what a key puts ahead orders the places by it, stably.
LEMMA StablyOrdered ==
  ASSUME NEW I, NEW key, NEW A, OrderedByKey(I, key, A), NEW at,
         \A n \in 1..Cardinality(I), i \in I :
           Cardinality(A[i]) = n - 1 =>
             at[n] \in I /\ Cardinality(A[at[n]]) = n - 1
  PROVE  /\ \A n \in 1..Cardinality(I) : at[n] \in I
         /\ \A i \in I : \E n \in 1..Cardinality(I) : at[n] = i
         /\ \A m, n \in 1..Cardinality(I) : m < n => at[m] \in A[at[n]]
<1>1. TotalOrder(I, A)
  BY KeysRank
<1>2. \A n \in 1..Cardinality(I) : \E i \in I : Cardinality(A[i]) = n - 1
  BY <1>1, Ranks
<1>3. \A n \in 1..Cardinality(I) : at[n] \in I /\ Cardinality(A[at[n]]) = n - 1
  BY <1>2, Zenon
<1>4. /\ \A i \in I : \E n \in 1..Cardinality(I) : at[n] = i
      /\ \A m, n \in 1..Cardinality(I) : m < n => at[m] \in A[at[n]]
  BY ONLY <1>1, <1>3, Ranked
<1> QED
  BY <1>3, <1>4, Zenon

\* Every order of sort_by compares one number.
LEMMA OrdersHaveKeys ==
  ASSUME NEW fs, Listed(fs), NEW o
  PROVE  \E key \in [1..Len(fs) -> Int] :
           \A i, j \in 1..Len(fs) : SortsBefore(o, fs[i], fs[j]) <=> key[i] < key[j]
<1>1. \A i \in 1..Len(fs) :
        /\ fs[i].dep.instant \in Int /\ fs[i].arr.instant \in Int
        /\ fs[i].price \in Int /\ fs[i].score \in Int
  BY ListedPlaces DEF IsFlight
<1>2. CASE o = "price_asc"
  <2> DEFINE key == [i \in 1..Len(fs) |-> fs[i].price]
  <2>1. key \in [1..Len(fs) -> Int]
    BY <1>1
  <2>2. \A i, j \in 1..Len(fs) : SortsBefore(o, fs[i], fs[j]) <=> key[i] < key[j]
    BY <1>1, <1>2 DEF SortsBefore
  <2> QED
    BY <2>1, <2>2
<1>3. CASE o = "price_desc"
  <2> DEFINE key == [i \in 1..Len(fs) |-> -fs[i].price]
  <2>1. key \in [1..Len(fs) -> Int]
    BY <1>1
  <2>2. \A i, j \in 1..Len(fs) : SortsBefore(o, fs[i], fs[j]) <=> key[i] < key[j]
    BY <1>1, <1>3 DEF SortsBefore
  <2> QED
    BY <2>1, <2>2
<1>4. CASE o = "duration_asc"
  <2> DEFINE key == [i \in 1..Len(fs) |-> fs[i].arr.instant - fs[i].dep.instant]
  <2>1. key \in [1..Len(fs) -> Int]
    BY <1>1
  <2>2. \A i, j \in 1..Len(fs) : SortsBefore(o, fs[i], fs[j]) <=> key[i] < key[j]
    BY <1>1, <1>4 DEF SortsBefore, Duration
  <2> QED
    BY <2>1, <2>2
<1>5. CASE o = "duration_desc"
  <2> DEFINE key == [i \in 1..Len(fs) |-> fs[i].dep.instant - fs[i].arr.instant]
  <2>1. key \in [1..Len(fs) -> Int]
    BY <1>1
  <2>2. \A i, j \in 1..Len(fs) : SortsBefore(o, fs[i], fs[j]) <=> key[i] < key[j]
    BY <1>1, <1>5 DEF SortsBefore, Duration
  <2> QED
    BY <2>1, <2>2
<1>6. CASE o = "departure_time"
  <2> DEFINE key == [i \in 1..Len(fs) |-> fs[i].dep.instant]
  <2>1. key \in [1..Len(fs) -> Int]
    BY <1>1
  <2>2. \A i, j \in 1..Len(fs) : SortsBefore(o, fs[i], fs[j]) <=> key[i] < key[j]
    BY <1>1, <1>6 DEF SortsBefore
  <2> QED
    BY <2>1, <2>2
<1>7. CASE o = "arrival_time"
  <2> DEFINE key == [i \in 1..Len(fs) |-> fs[i].arr.instant]
  <2>1. key \in [1..Len(fs) -> Int]
    BY <1>1
  <2>2. \A i, j \in 1..Len(fs) : SortsBefore(o, fs[i], fs[j]) <=> key[i] < key[j]
    BY <1>1, <1>7 DEF SortsBefore
  <2> QED
    BY <2>1, <2>2
<1>8. CASE o \notin {"price_asc", "price_desc", "duration_asc", "duration_desc",
                     "departure_time", "arrival_time"}
  <2> DEFINE key == [i \in 1..Len(fs) |-> -fs[i].score]
  <2>1. key \in [1..Len(fs) -> Int]
    BY <1>1
  <2>2. \A i, j \in 1..Len(fs) : SortsBefore(o, fs[i], fs[j]) <=> key[i] < key[j]
    BY <1>1, <1>8 DEF SortsBefore
  <2> QED
    BY <2>1, <2>2
<1> QED
  BY <1>2, <1>3, <1>4, <1>5, <1>6, <1>7, <1>8

\* Sorting lists every flight once, none before one that goes before it, and
\* flights that go together in the order they were in.
SortedFrom(fs, o, at) ==
  /\ at \in [1..Len(fs) -> 1..Len(fs)]
  /\ \A i \in 1..Len(fs) : \E n \in 1..Len(fs) : at[n] = i
  /\ \A m, n \in 1..Len(fs) : m < n =>
       \/ SortsBefore(o, fs[at[m]], fs[at[n]])
       \/ ~SortsBefore(o, fs[at[n]], fs[at[m]]) /\ at[m] < at[n]
  /\ Sorted(fs, o) = [n \in 1..Len(fs) |-> fs[at[n]]]

\* Every order sort_by can name sorts that way.
LEMMA SortingIsStable ==
  ASSUME NEW fs, Listed(fs), NEW o
  PROVE  \E at : SortedFrom(fs, o, at)
<1> DEFINE I == 1..Len(fs)
           Ahead(i) == {j \in I : \/ SortsBefore(o, fs[j], fs[i])
                                  \/ ~SortsBefore(o, fs[i], fs[j]) /\ j < i}
           A == [i \in I |-> Ahead(i)]
           at == [n \in I |-> CHOOSE i \in I : Cardinality(Ahead(i)) = n - 1]
<1>1. Len(fs) \in Nat /\ DOMAIN fs = I /\ I \in SUBSET Int
  BY ListedPlaces
<1>2. IsFiniteSet(I) /\ I = 1..Cardinality(I)
  BY <1>1, Places
<1>3. PICK key \in [I -> Int] :
        \A i, j \in I : SortsBefore(o, fs[i], fs[j]) <=> key[i] < key[j]
  BY OrdersHaveKeys
<1>4. A \in [I -> SUBSET I]
  OBVIOUS
<1>5. \A i, j \in I : j \in A[i] <=> key[j] < key[i] \/ (~(key[i] < key[j]) /\ j < i)
  BY <1>3
<1>6. ASSUME NEW n \in I, NEW i \in I, Cardinality(A[i]) = n - 1
      PROVE  at[n] \in I /\ Cardinality(A[at[n]]) = n - 1
  <2>1. Cardinality(Ahead(i)) = n - 1
    BY <1>6
  <2> HIDE DEF Ahead
  <2>2. at[n] \in I /\ Cardinality(Ahead(at[n])) = n - 1
    BY <2>1
  <2> QED
    BY <2>2
<1>7. /\ \A n \in I : at[n] \in I
      /\ \A i \in I : \E n \in I : at[n] = i
      /\ \A m, n \in I : m < n => at[m] \in A[at[n]]
  <2> HIDE DEF I, A, at
  <2>1. OrderedByKey(I, key, A)
    BY <1>1, <1>2, <1>3, <1>4, <1>5 DEF OrderedByKey
  <2>2. \A n \in 1..Cardinality(I), i \in I :
          Cardinality(A[i]) = n - 1 => at[n] \in I /\ Cardinality(A[at[n]]) = n - 1
    BY <1>2, <1>6
  <2>3. /\ \A n \in 1..Cardinality(I) : at[n] \in I
        /\ \A i \in I : \E n \in 1..Cardinality(I) : at[n] = i
        /\ \A m, n \in 1..Cardinality(I) : m < n => at[m] \in A[at[n]]
    BY ONLY <2>1, <2>2, StablyOrdered
  <2> QED
    BY <1>2, <2>3
<1>8. at \in [I -> I]
  BY <1>7
<1>9. Sorted(fs, o) = [n \in I |-> fs[at[n]]]
  BY <1>1 DEF Sorted, StableSort
<1>10. \A m, n \in I : m < n => at[m] \in Ahead(at[n])
  <2> HIDE DEF Ahead, at
  <2>1. \A n \in I : A[at[n]] = Ahead(at[n])
    BY <1>7
  <2> QED
    BY <1>7, <2>1, Zenon
<1> HIDE DEF at
<1>11. \A m, n \in I : m < n =>
         \/ SortsBefore(o, fs[at[m]], fs[at[n]])
         \/ ~SortsBefore(o, fs[at[n]], fs[at[m]]) /\ at[m] < at[n]
  BY <1>10
<1>12. SortedFrom(fs, o, at)
  BY <1>7, <1>8, <1>9, <1>11 DEF SortedFrom
<1> QED
  BY <1>12

\* The quotes of one flight, the cheapest first.
CheapestFirst(fs) == StableSort(fs, LAMBDA f, g : f.price < g.price)

\* Sorting quotes lists each once, none before a cheaper one.
LEMMA QuotesAreSorted ==
  ASSUME NEW fs, Listed(fs)
  PROVE  \E at \in [1..Len(fs) -> 1..Len(fs)] :
           /\ \A i \in 1..Len(fs) : \E n \in 1..Len(fs) : at[n] = i
           /\ \A m, n \in 1..Len(fs) : m < n => fs[at[m]].price <= fs[at[n]].price
           /\ CheapestFirst(fs) = [n \in 1..Len(fs) |-> fs[at[n]]]
<1> DEFINE I == 1..Len(fs)
           Ahead(i) == {j \in I : \/ fs[j].price < fs[i].price
                                  \/ ~(fs[i].price < fs[j].price) /\ j < i}
           A == [i \in I |-> Ahead(i)]
           at == [n \in I |-> CHOOSE i \in I : Cardinality(Ahead(i)) = n - 1]
<1>1. Len(fs) \in Nat /\ DOMAIN fs = I /\ I \in SUBSET Int
  BY ListedPlaces
<1>2. IsFiniteSet(I) /\ I = 1..Cardinality(I)
  BY <1>1, Places
<1> DEFINE key == [i \in I |-> fs[i].price]
<1>3. key \in [I -> Int] /\ \A i \in I : key[i] = fs[i].price
  BY ListedPlaces DEF IsFlight
<1> HIDE DEF key
<1>4. A \in [I -> SUBSET I]
  OBVIOUS
<1>5. \A i, j \in I : j \in A[i] <=> key[j] < key[i] \/ (~(key[i] < key[j]) /\ j < i)
  BY <1>3
<1>6. ASSUME NEW n \in I, NEW i \in I, Cardinality(A[i]) = n - 1
      PROVE  at[n] \in I /\ Cardinality(A[at[n]]) = n - 1
  <2>1. Cardinality(Ahead(i)) = n - 1
    BY <1>6
  <2> HIDE DEF Ahead
  <2>2. at[n] \in I /\ Cardinality(Ahead(at[n])) = n - 1
    BY <2>1
  <2> QED
    BY <2>2
<1>7. /\ \A n \in I : at[n] \in I
      /\ \A i \in I : \E n \in I : at[n] = i
      /\ \A m, n \in I : m < n => at[m] \in A[at[n]]
  <2> HIDE DEF I, A, at
  <2>1. OrderedByKey(I, key, A)
    BY <1>1, <1>2, <1>3, <1>4, <1>5 DEF OrderedByKey
  <2>2. \A n \in 1..Cardinality(I), i \in I :
          Cardinality(A[i]) = n - 1 => at[n] \in I /\ Cardinality(A[at[n]]) = n - 1
    BY <1>2, <1>6
  <2>3. /\ \A n \in 1..Cardinality(I) : at[n] \in I
        /\ \A i \in I : \E n \in 1..Cardinality(I) : at[n] = i
        /\ \A m, n \in 1..Cardinality(I) : m < n => at[m] \in A[at[n]]
    BY ONLY <2>1, <2>2, StablyOrdered
  <2> QED
    BY <1>2, <2>3
<1>8. at \in [I -> I]
  BY <1>7
<1>9. CheapestFirst(fs) = [n \in I |-> fs[at[n]]]
  BY <1>1 DEF CheapestFirst, StableSort
<1>10. \A m, n \in I : m < n => at[m] \in Ahead(at[n])
  <2> HIDE DEF Ahead, at
  <2>1. \A n \in I : A[at[n]] = Ahead(at[n])
    BY <1>7
  <2> QED
    BY <1>7, <2>1, Zenon
<1> HIDE DEF at
<1>11. \A m, n \in I : m < n => fs[at[m]].price <= fs[at[n]].price
  <2> SUFFICES ASSUME NEW m \in I, NEW n \in I, m < n PROVE fs[at[m]].price <= fs[at[n]].price
    OBVIOUS
  <2>1. key[at[m]] \in Int /\ key[at[n]] \in Int /\ at[m] \in I /\ at[n] \in I
    BY <1>3, <1>7
  <2>2. key[at[m]] = fs[at[m]].price /\ key[at[n]] = fs[at[n]].price
    BY <1>3, <2>1
  <2>3. ~(key[at[n]] < key[at[m]])
    BY <1>10, <2>1, <2>2
  <2> QED
    BY <2>1, <2>2, <2>3
<1> QED
  BY <1>7, <1>8, <1>9, <1>11

\* A sorted list is a list.
LEMMA ListedSorted ==
  ASSUME NEW fs, Listed(fs), NEW o
  PROVE  Listed(Sorted(fs, o))
<1>1. PICK at : SortedFrom(fs, o, at)
  BY SortingIsStable
<1>2. Sorted(fs, o) \in Seq(ToSet(fs))
  BY <1>1 DEF SortedFrom, Listed
<1> QED
  BY <1>2, ListedFrom DEF Listed

\* The entry of a group is one of its flights but for the quotes attached.
LEMMA EntryIsAFlight ==
  ASSUME NEW group, Listed(group), Len(group) > 0
  PROVE  IsFlight(Entry(group))
<1>1. IsFlight(group[1])
  BY ListedPlaces
<1>2. ASSUME NEW c PROVE IsFlight([group[1] EXCEPT !.comparison = c])
  BY <1>1 DEF IsFlight
<1> QED
  BY <1>1, <1>2 DEF Entry

\* A group of quotes stays a group when it is sorted.
LEMMA QuotesSorted ==
  ASSUME NEW fs, Listed(fs), Len(fs) > 0
  PROVE  CheapestFirst(fs) \in Seq(ToSet(fs)) /\ Len(CheapestFirst(fs)) > 0
<1>1. PICK at \in [1..Len(fs) -> 1..Len(fs)] :
        CheapestFirst(fs) = [n \in 1..Len(fs) |-> fs[at[n]]]
  BY QuotesAreSorted
<1>2. Len(fs) \in Nat /\ \A n \in 1..Len(fs) : fs[at[n]] \in ToSet(fs)
  BY ListedPlaces DEF ToSet
<1> QED
  BY <1>1, <1>2

\* A merged list has one flight for each key that occurred.
LEMMA ListedMerged ==
  ASSUME NEW fs, Listed(fs)
  PROVE  Listed(MergeDuplicates(fs))
<1> DEFINE firsts == Firsts(fs)
           Group(i) == CheapestFirst(Quotes(fs, i))
           merged == [n \in 1..Cardinality(firsts) |-> Entry(Group(Nth(firsts, n)))]
<1>1. firsts \in SUBSET DOMAIN fs
  BY DEF Firsts
<1>2. Cardinality(firsts) \in Nat /\ \A n \in 1..Cardinality(firsts) : Nth(firsts, n) \in firsts
  <2> HIDE DEF firsts
  <2> QED
    BY <1>1, KeptInOrder DEF Listed
<1>3. ASSUME NEW i \in DOMAIN fs PROVE IsFlight(Entry(Group(i)))
  <2> DEFINE same == {j \in DOMAIN fs : DedupeKey(fs[j]) = DedupeKey(fs[i])}
  <2>1. same \in SUBSET DOMAIN fs /\ i \in same
    OBVIOUS
  <2>2. Quotes(fs, i) = Kept(fs, same)
    BY DEF Quotes
  <2> HIDE DEF same
  <2>3. Cardinality(same) \in Nat /\ \E n \in 1..Cardinality(same) : Nth(same, n) = i
    BY <2>1, KeptInOrder DEF Listed
  <2>4. Listed(Quotes(fs, i))
    BY <2>1, <2>2, ListedKept
  <2>5. Len(Quotes(fs, i)) = Cardinality(same) /\ Len(Quotes(fs, i)) > 0
    BY <2>2, <2>3 DEF Kept
  <2>6. Group(i) \in Seq(ToSet(Quotes(fs, i))) /\ Len(Group(i)) > 0
    BY <2>4, <2>5, QuotesSorted
  <2>7. Listed(Group(i))
    BY <2>4, <2>6, ListedFrom DEF Listed
  <2> QED
    BY <2>6, <2>7, EntryIsAFlight
<1>4. MergeDuplicates(fs) = merged
  BY DEF MergeDuplicates, CheapestFirst
<1>5. \A n \in 1..Cardinality(firsts) : IsFlight(merged[n])
  BY <1>1, <1>2, <1>3
<1> HIDE DEF firsts
<1>6. merged = [n \in 1..Cardinality(firsts) |-> merged[n]]
  OBVIOUS
<1> HIDE DEF merged
<1> QED
  BY <1>2, <1>4, <1>5, <1>6, ListedIf

-----------------------------------------------------------------------------
\* Scores.

\* Among numbers there is a least.
LEMMA LeastKey ==
  ASSUME NEW n \in Nat, n > 0, NEW key \in [1..n -> Int]
  PROVE  \E i \in 1..n : \A j \in 1..n : key[i] <= key[j]
<1> DEFINE I == 1..n
           A == [i \in I |-> {j \in I : key[j] < key[i] \/ (~(key[i] < key[j]) /\ j < i)}]
<1>1. I \in SUBSET Int /\ IsFiniteSet(I) /\ Cardinality(I) = n
  BY Places
<1>2. /\ A \in [I -> SUBSET I]
      /\ \A i, j \in I : j \in A[i] <=> key[j] < key[i] \/ (~(key[i] < key[j]) /\ j < i)
  OBVIOUS
<1>3. PICK i \in I : Cardinality(A[i]) = 0
  <2> HIDE DEF I, A
  <2>1. OrderedByKey(I, key, A)
    BY <1>1, <1>2 DEF OrderedByKey, I
  <2>2. \A m \in 1..Cardinality(I) : \E i \in I : Cardinality(A[i]) = m - 1
    BY <2>1, KeysRank, Ranks
  <2>3. 1 \in 1..Cardinality(I)
    BY <1>1
  <2>4. \E i \in I : Cardinality(A[i]) = 1 - 1
    BY ONLY <2>2, <2>3
  <2> QED
    BY <2>4
<1>4. A[i] = {}
  <2>1. A[i] \in SUBSET I
    BY <1>2
  <2>2. IsFiniteSet(A[i])
    BY ONLY <1>1, <2>1, FS_Subset
  <2> QED
    BY ONLY <1>3, <2>2, FS_EmptySet
<1>5. \A j \in I : key[i] <= key[j]
  BY <1>2, <1>4
<1> QED
  BY <1>5

\* And a greatest.
LEMMA GreatestKey ==
  ASSUME NEW n \in Nat, n > 0, NEW key \in [1..n -> Int]
  PROVE  \E i \in 1..n : \A j \in 1..n : key[i] >= key[j]
<1> DEFINE opposite == [i \in 1..n |-> -key[i]]
<1>1. opposite \in [1..n -> Int]
  OBVIOUS
<1>2. PICK i \in 1..n : \A j \in 1..n : opposite[i] <= opposite[j]
  <2> HIDE DEF opposite
  <2> QED
    BY <1>1, LeastKey
<1>3. \A j \in 1..n : key[i] >= key[j]
  BY <1>2
<1> QED
  BY <1>3

\* The ends of the three scales.
Bottom(fs) == [price |-> Least(fs, Price), duration |-> Least(fs, Duration)]
Top(fs) == [price |-> Greatest(fs, Price), duration |-> Greatest(fs, Duration),
            stops |-> Greatest(fs, Stops)]

\* The scales of a list start and end at flights of it.
LEMMA Scales ==
  ASSUME NEW fs, Listed(fs), Len(fs) > 0
  PROVE  /\ \A i \in 1..Len(fs) :
              /\ Bottom(fs).price <= fs[i].price /\ fs[i].price <= Top(fs).price
              /\ Bottom(fs).duration <= Duration(fs[i]) /\ Duration(fs[i]) <= Top(fs).duration
              /\ fs[i].stops <= Top(fs).stops
         /\ \E i \in 1..Len(fs) : Bottom(fs).price = fs[i].price
         /\ \E i \in 1..Len(fs) : Top(fs).price = fs[i].price
         /\ \E i \in 1..Len(fs) : Bottom(fs).duration = Duration(fs[i])
         /\ \E i \in 1..Len(fs) : Top(fs).duration = Duration(fs[i])
         /\ \E i \in 1..Len(fs) : Top(fs).stops = fs[i].stops
<1> DEFINE n == Len(fs)
           price == [i \in 1..n |-> fs[i].price]
           minutes == [i \in 1..n |-> Duration(fs[i])]
           stops == [i \in 1..n |-> fs[i].stops]
<1>1. n \in Nat /\ n > 0 /\ DOMAIN fs = 1..n
  BY ListedPlaces
<1>2. \A i \in 1..n : fs[i].price \in Int /\ Duration(fs[i]) \in Int /\ fs[i].stops \in Int
  <2> SUFFICES ASSUME NEW i \in 1..n
               PROVE  fs[i].price \in Int /\ Duration(fs[i]) \in Int /\ fs[i].stops \in Int
    OBVIOUS
  <2>1. IsFlight(fs[i])
    BY <1>1, ListedPlaces
  <2> QED
    BY <2>1 DEF IsFlight, Duration
<1>3. price \in [1..n -> Int] /\ minutes \in [1..n -> Int] /\ stops \in [1..n -> Int]
  BY <1>2
<1> HIDE DEF n, price, minutes, stops
<1>4. /\ \E i \in 1..n : \A j \in 1..n : price[i] <= price[j]
      /\ \E i \in 1..n : \A j \in 1..n : minutes[i] <= minutes[j]
  BY <1>1, <1>3, LeastKey
<1>5. /\ \E i \in 1..n : \A j \in 1..n : price[i] >= price[j]
      /\ \E i \in 1..n : \A j \in 1..n : minutes[i] >= minutes[j]
      /\ \E i \in 1..n : \A j \in 1..n : stops[i] >= stops[j]
  BY <1>1, <1>3, GreatestKey
<1> USE DEF price, minutes, stops
<1>6. \E i \in DOMAIN fs : /\ Bottom(fs).price = fs[i].price
                           /\ \A j \in DOMAIN fs : fs[i].price <= fs[j].price
  BY <1>1, <1>4 DEF Bottom, Least, Price
<1>7. \E i \in DOMAIN fs : /\ Bottom(fs).duration = Duration(fs[i])
                           /\ \A j \in DOMAIN fs : Duration(fs[i]) <= Duration(fs[j])
  BY <1>1, <1>4 DEF Bottom, Least
<1>8. \E i \in DOMAIN fs : /\ Top(fs).price = fs[i].price
                           /\ \A j \in DOMAIN fs : fs[i].price >= fs[j].price
  BY <1>1, <1>5 DEF Top, Greatest, Price
<1>9. \E i \in DOMAIN fs : /\ Top(fs).duration = Duration(fs[i])
                           /\ \A j \in DOMAIN fs : Duration(fs[i]) >= Duration(fs[j])
  BY <1>1, <1>5 DEF Top, Greatest
<1>10. \E i \in DOMAIN fs : /\ Top(fs).stops = fs[i].stops
                            /\ \A j \in DOMAIN fs : fs[i].stops >= fs[j].stops
  BY <1>1, <1>5 DEF Top, Greatest, Stops
<1> QED
  BY <1>1, <1>6, <1>7, <1>8, <1>9, <1>10 DEF n

\* A product of whole numbers keeps their order.
LEMMA Times ==
  ASSUME NEW a \in Int, NEW b \in Int, NEW c \in Int, a >= b, c >= 0
  PROVE  a * c \in Int /\ b * c \in Int /\ a * c >= b * c
OBVIOUS

\* A product of positive numbers is positive.
LEMMA TimesPositive ==
  ASSUME NEW a \in Int, NEW b \in Int, a > 0, b > 0
  PROVE  a * b \in Int /\ a * b > 0
OBVIOUS

\* A quotient keeps the order.
LEMMA DivKeepsOrder ==
  ASSUME NEW a \in Int, NEW b \in Int, NEW c \in Int, a >= b, c > 0
  PROVE  a \div c \in Int /\ b \div c \in Int /\ a \div c >= b \div c
OBVIOUS

\* A number between two multiples has the quotient of the lower.
LEMMA DivIs ==
  ASSUME NEW a \in Int, NEW c \in Int, NEW k \in Int, c > 0, a < c * (k + 1), a >= c * k
  PROVE  a \div c = k
OBVIOUS

\* A share is a fraction of a positive whole.
IsShare(p) == p.num \in Int /\ p.den \in Int /\ p.den > 0

\* And normalising makes one, whatever the scale.
LEMMA ShareIsAShare ==
  ASSUME NEW lo \in Int, NEW hi \in Int, NEW x \in Int
  PROVE  IsShare(Share(lo, hi, x))
BY DEF Share, IsShare

\* The less, the greater the share; a share of all at the low end of the
\* scale, and of nothing at the high end when the scale has a length.
LEMMA Shares ==
  ASSUME NEW lo \in Int, NEW hi \in Int, NEW x \in Int, NEW y \in Int, x <= y
  PROVE  /\ Share(lo, hi, x).den = Share(lo, hi, y).den
         /\ Share(lo, hi, x).num >= Share(lo, hi, y).num
         /\ lo <= x => Share(lo, hi, x).num <= Share(lo, hi, x).den
         /\ x <= hi => Share(lo, hi, x).num >= 0
         /\ x = lo => Share(lo, hi, x).num = Share(lo, hi, x).den
         /\ (x = hi /\ lo < hi) => Share(lo, hi, x).num = 0
BY DEF Share, IsShare

\* What the three shares weigh together, in parts of Whole.
Parts(p, d, s) ==
  5 * (p.num * (d.den * s.den)) + 3 * (d.num * (p.den * s.den)) + 2 * (s.num * (p.den * d.den))
Whole(p, d, s) == 10 * (p.den * (d.den * s.den))

\* The score is the rounded quotient of the two.
LEMMA WeightedIs ==
  ASSUME NEW p, NEW d, NEW s, IsShare(p), IsShare(d), IsShare(s)
  PROVE  /\ Parts(p, d, s) \in Int /\ Whole(p, d, s) \in Int /\ Whole(p, d, s) > 0
         /\ Weighted(p, d, s) =
              (20000 * Parts(p, d, s) + Whole(p, d, s)) \div (2 * Whole(p, d, s))
<1>1. /\ d.den * s.den \in Int /\ d.den * s.den > 0
      /\ p.den * s.den \in Int /\ p.den * s.den > 0
      /\ p.den * d.den \in Int /\ p.den * d.den > 0
  BY TimesPositive DEF IsShare
<1>2. p.den * (d.den * s.den) \in Int /\ p.den * (d.den * s.den) > 0
  BY <1>1, TimesPositive DEF IsShare
<1>3. /\ p.num * (d.den * s.den) \in Int
      /\ d.num * (p.den * s.den) \in Int
      /\ s.num * (p.den * d.den) \in Int
  BY <1>1 DEF IsShare
<1>4. /\ 5 * p.num * d.den * s.den = 5 * (p.num * (d.den * s.den))
      /\ 3 * d.num * p.den * s.den = 3 * (d.num * (p.den * s.den))
      /\ 2 * s.num * p.den * d.den = 2 * (s.num * (p.den * d.den))
      /\ 10 * p.den * d.den * s.den = 10 * (p.den * (d.den * s.den))
  BY DEF IsShare
<1>5. Weighted(p, d, s) = (20000 * Parts(p, d, s) + Whole(p, d, s)) \div (2 * Whole(p, d, s))
  BY <1>4 DEF Weighted, Weights, Parts, Whole
<1> QED
  BY <1>2, <1>3, <1>5 DEF Parts, Whole

\* No share less, no score less.
LEMMA WeightedKeepsOrder ==
  ASSUME NEW p, NEW d, NEW s, IsShare(p), IsShare(d), IsShare(s),
         NEW q, NEW e, NEW t, IsShare(q), IsShare(e), IsShare(t),
         p.den = q.den, d.den = e.den, s.den = t.den,
         p.num >= q.num, d.num >= e.num, s.num >= t.num
  PROVE  Weighted(p, d, s) >= Weighted(q, e, t)
<1>1. /\ d.den * s.den \in Int /\ d.den * s.den >= 0
      /\ p.den * s.den \in Int /\ p.den * s.den >= 0
      /\ p.den * d.den \in Int /\ p.den * d.den >= 0
  BY TimesPositive DEF IsShare
<1>2. /\ p.num * (d.den * s.den) >= q.num * (d.den * s.den)
      /\ d.num * (p.den * s.den) >= e.num * (p.den * s.den)
      /\ s.num * (p.den * d.den) >= t.num * (p.den * d.den)
  BY <1>1, Times DEF IsShare
<1>3. /\ p.num * (d.den * s.den) \in Int /\ q.num * (d.den * s.den) \in Int
      /\ d.num * (p.den * s.den) \in Int /\ e.num * (p.den * s.den) \in Int
      /\ s.num * (p.den * d.den) \in Int /\ t.num * (p.den * d.den) \in Int
  BY <1>1 DEF IsShare
<1>4. Parts(p, d, s) >= Parts(q, e, t)
  BY <1>2, <1>3 DEF Parts
<1>5. Whole(p, d, s) = Whole(q, e, t)
  BY DEF Whole
<1>6. /\ Parts(p, d, s) \in Int /\ Parts(q, e, t) \in Int
      /\ Whole(p, d, s) \in Int /\ Whole(p, d, s) > 0
      /\ Weighted(p, d, s) =
           (20000 * Parts(p, d, s) + Whole(p, d, s)) \div (2 * Whole(p, d, s))
      /\ Weighted(q, e, t) =
           (20000 * Parts(q, e, t) + Whole(q, e, t)) \div (2 * Whole(q, e, t))
  BY WeightedIs
<1> QED
  BY <1>4, <1>5, <1>6, DivKeepsOrder

\* The shares of a flight, and its score.
PriceShare(fs, f) == Share(Bottom(fs).price, Top(fs).price, f.price)
DurationShare(fs, f) == Share(Bottom(fs).duration, Top(fs).duration, Duration(f))
StopsShare(fs, f) == Share(0, Top(fs).stops, f.stops)
ScoreOf(fs, f) == Weighted(PriceShare(fs, f), DurationShare(fs, f), StopsShare(fs, f))

\* A scored list is the list with the scores put in.
LEMMA Computed ==
  ASSUME NEW fs
  PROVE  Compute(fs) = [i \in DOMAIN fs |-> [fs[i] EXCEPT !.score = ScoreOf(fs, fs[i])]]
BY DEF Compute, ScoreOf, PriceShare, DurationShare, StopsShare, Bottom, Top

\* Nothing but the score is changed.
LEMMA ScoredFlight ==
  ASSUME NEW f, IsFlight(f), NEW score
  PROVE  LET g == [f EXCEPT !.score = score]
         IN  /\ g.dep = f.dep /\ g.arr = f.arr /\ g.stops = f.stops /\ g.price = f.price
             /\ g.score = score /\ Duration(g) = Duration(f)
             /\ score \in Int => IsFlight(g)
BY DEF IsFlight, Duration

\* Every flight of a list has three shares of it and a score.
LEMMA SharesAre ==
  ASSUME NEW fs, Listed(fs), NEW i \in 1..Len(fs)
  PROVE  /\ Bottom(fs).price \in Int /\ Top(fs).price \in Int
         /\ Bottom(fs).duration \in Int /\ Top(fs).duration \in Int /\ Top(fs).stops \in Int
         /\ fs[i].price \in Int /\ Duration(fs[i]) \in Int /\ fs[i].stops \in Int
         /\ IsShare(PriceShare(fs, fs[i])) /\ IsShare(DurationShare(fs, fs[i]))
         /\ IsShare(StopsShare(fs, fs[i]))
         /\ ScoreOf(fs, fs[i]) \in Int
<1>1. Len(fs) > 0
  BY ListedPlaces
<1>2. \A k \in 1..Len(fs) :
        fs[k].price \in Int /\ Duration(fs[k]) \in Int /\ fs[k].stops \in Int
  <2> SUFFICES ASSUME NEW k \in 1..Len(fs)
               PROVE  fs[k].price \in Int /\ Duration(fs[k]) \in Int /\ fs[k].stops \in Int
    OBVIOUS
  <2>1. IsFlight(fs[k])
    BY ListedPlaces
  <2> QED
    BY <2>1 DEF IsFlight, Duration
<1>3. fs[i].price \in Int /\ Duration(fs[i]) \in Int /\ fs[i].stops \in Int
  BY <1>2
<1>4. /\ Bottom(fs).price \in Int /\ Top(fs).price \in Int
      /\ Bottom(fs).duration \in Int /\ Top(fs).duration \in Int /\ Top(fs).stops \in Int
  BY <1>2, <1>1, Scales
<1>5. IsShare(PriceShare(fs, fs[i]))
  BY ONLY <1>3, <1>4, ShareIsAShare DEF PriceShare
<1>6. IsShare(DurationShare(fs, fs[i]))
  BY ONLY <1>3, <1>4, ShareIsAShare DEF DurationShare
<1>7. IsShare(StopsShare(fs, fs[i]))
  BY ONLY <1>3, <1>4, ShareIsAShare, SMTT(30) DEF StopsShare
<1>8. ScoreOf(fs, fs[i]) \in Int
  <2> DEFINE p == PriceShare(fs, fs[i])
             d == DurationShare(fs, fs[i])
             s == StopsShare(fs, fs[i])
  <2> HIDE DEF p, d, s
  <2>1. IsShare(p) /\ IsShare(d) /\ IsShare(s)
    BY <1>5, <1>6, <1>7 DEF p, d, s
  <2>2. /\ Parts(p, d, s) \in Int /\ Whole(p, d, s) \in Int /\ Whole(p, d, s) > 0
        /\ Weighted(p, d, s) =
             (20000 * Parts(p, d, s) + Whole(p, d, s)) \div (2 * Whole(p, d, s))
    BY <2>1, WeightedIs
  <2>3. Weighted(p, d, s) \in Int
    BY <2>2, DivKeepsOrder
  <2> QED
    BY <2>3 DEF ScoreOf, p, d, s
<1> QED
  BY <1>3, <1>4, <1>5, <1>6, <1>7, <1>8

\* A scored list is a list.
LEMMA ListedComputed ==
  ASSUME NEW fs, Listed(fs)
  PROVE  /\ Len(Compute(fs)) = Len(fs) /\ DOMAIN Compute(fs) = 1..Len(fs)
         /\ Listed(Compute(fs))
         /\ \A i \in 1..Len(fs) :
              /\ Compute(fs)[i].score = ScoreOf(fs, fs[i])
              /\ Compute(fs)[i].price = fs[i].price
              /\ Compute(fs)[i].stops = fs[i].stops
              /\ Duration(Compute(fs)[i]) = Duration(fs[i])
<1>1. Len(fs) \in Nat /\ DOMAIN fs = 1..Len(fs) /\ \A i \in 1..Len(fs) : IsFlight(fs[i])
  BY ListedPlaces
<1> DEFINE scored == [i \in 1..Len(fs) |-> [fs[i] EXCEPT !.score = ScoreOf(fs, fs[i])]]
<1>2. Compute(fs) = scored
  BY <1>1, Computed
<1>3. ASSUME NEW i \in 1..Len(fs)
      PROVE  /\ scored[i].score = ScoreOf(fs, fs[i])
             /\ scored[i].price = fs[i].price
             /\ scored[i].stops = fs[i].stops
             /\ Duration(scored[i]) = Duration(fs[i])
             /\ IsFlight(scored[i])
  <2>1. ScoreOf(fs, fs[i]) \in Int
    BY SharesAre
  <2>2. scored[i] = [fs[i] EXCEPT !.score = ScoreOf(fs, fs[i])]
    OBVIOUS
  <2> HIDE DEF scored
  <2> QED
    BY <1>1, <2>1, <2>2, ScoredFlight
<1>4. /\ Len(scored) = Len(fs) /\ DOMAIN scored = 1..Len(fs)
      /\ scored = [i \in 1..Len(fs) |-> scored[i]]
  BY <1>1
<1> HIDE DEF scored
<1>5. Listed(scored)
  BY <1>1, <1>3, <1>4, ListedIf
<1> QED
  BY <1>2, <1>3, <1>4, <1>5

\* The flight an estimate takes is one of the list, and none is cheaper.
LEMMA CheapestIs ==
  ASSUME NEW fs, Listed(fs), fs # <<>>
  PROVE  /\ CheapestFlight(fs) \in ToSet(fs)
         /\ \A f \in ToSet(fs) : CheapestFlight(fs).price <= f.price
<1> DEFINE n == Len(fs)
           key == [i \in 1..n |-> fs[i].price]
           lowest == {i \in DOMAIN fs : \A j \in DOMAIN fs : fs[i].price <= fs[j].price}
           first == CHOOSE i \in lowest : \A j \in lowest : i <= j
<1>1. n \in Nat /\ n > 0 /\ DOMAIN fs = 1..n
  <2>1. fs \in Seq(ToSet(fs))
    BY DEF Listed
  <2> QED
    BY <2>1
<1>2. \A i \in 1..n : fs[i].price \in Int
  BY <1>1, ListedPlaces DEF IsFlight
<1>3. \E i \in 1..n : \A j \in 1..n : key[i] <= key[j]
  BY <1>1, <1>2, LeastKey
<1>4. lowest # {} /\ lowest \in SUBSET Nat /\ lowest \subseteq 1..n
  BY <1>1, <1>3
<1>5. \E i \in lowest : \A j \in lowest : i <= j
  <2> HIDE DEF lowest
  <2> QED
    BY <1>4, LeastNatural
<1>6. first \in lowest
  BY <1>5
<1>7. CheapestFlight(fs) = fs[first]
  BY DEF CheapestFlight
<1> HIDE DEF first
<1>8. first \in DOMAIN fs /\ \A j \in DOMAIN fs : fs[first].price <= fs[j].price
  BY <1>6
<1> QED
  BY <1>7, <1>8 DEF ToSet
-----------------------------------------------------------------------------
\* Sums.

\* Induction up to n, with a set for the predicate.
LEMMA Upwards ==
  ASSUME NEW n \in Nat, NEW P, 0 \in P, \A i \in 1..n : i - 1 \in P => i \in P
  PROVE  \A i \in 0..n : i \in P
<1> DEFINE T == {i \in 0..n : i \notin P}
<1> SUFFICES ASSUME T # {} PROVE FALSE
  OBVIOUS
<1>1. T \in SUBSET Nat
  OBVIOUS
<1>2. PICK k \in T : \A m \in T : k <= m
  <2> HIDE DEF T
  <2> QED
    BY <1>1, LeastNatural
<1>3. k \in 1..n /\ k \notin P /\ k - 1 \in 0..n /\ ~ (k <= k - 1)
  BY <1>2
<1>4. k - 1 \in P
  BY <1>2, <1>3
<1> QED
  BY <1>3, <1>4

\* SumOf defined: what has been added up to each number.
LEMMA SumSteps ==
  ASSUME NEW ns \in Seq(Int)
  PROVE  \E t \in [0..Len(ns) -> Int] :
           /\ t[0] = 0
           /\ \A i \in 1..Len(ns) : t[i] = t[i - 1] + ns[i]
           /\ SumOf(ns) = t[Len(ns)]
<1> DEFINE n == Len(ns)
           Highest(s) == Max(s)
           Step(f, s) == IF s = {} THEN 0 ELSE f[s \ {Highest(s)}] + ns[Highest(s)]
           Upto(f, k) == f = [s \in SUBSET (1..k) |-> Step(f, s)]
           Reached(k) == \E f : Upto(f, k)
           T == {k \in 0..n : ~Reached(k)}
<1>1. n \in Nat /\ \A i \in 1..n : ns[i] \in Int
  OBVIOUS
<1>2. ASSUME NEW k \in 1..n, NEW s \in SUBSET (1..k), k \in s PROVE Highest(s) = k
  <2>1. k \in Nat /\ \A i \in s : i \in Nat /\ k >= i
    BY <1>1, <1>2
  <2>2. \E x \in s : \A y \in s : x >= y
    BY <1>2, <2>1
  <2>3. Max(s) \in s /\ \A y \in s : Max(s) >= y
    BY <2>2 DEF Max
  <2>4. \A m \in s : (\A y \in s : m >= y) => m = k
    BY <1>2, <2>1
  <2>5. Max(s) = k
    BY <2>3, <2>4, Zenon
  <2> QED
    BY <2>5
<1> HIDE DEF Highest
<1>3. Reached(0)
  <2> DEFINE f == [s \in SUBSET (1..0) |-> 0]
  <2>1. \A s \in SUBSET (1..0) : s = {}
    OBVIOUS
  <2>2. Upto(f, 0)
    BY <2>1
  <2> QED
    BY <2>2, Zenon
<1>4. ASSUME NEW k \in 1..n, Reached(k - 1) PROVE Reached(k)
  <2>1. k \in Nat /\ k >= 1 /\ k - 1 \in Nat
    BY <1>1
  <2>2. PICK g : Upto(g, k - 1)
    BY <1>4, Zenon
  <2> DEFINE Before == SUBSET (1..(k - 1))
             f == [s \in SUBSET (1..k) |-> IF k \in s THEN g[s \ {k}] + ns[k] ELSE g[s]]
  <2>3. ASSUME NEW s \in SUBSET (1..k)
        PROVE  /\ k \notin s => s \in Before
               /\ \A x : k \notin s => s \ {x} \in Before /\ k \notin s \ {x}
               /\ s \ {k} \in Before
               /\ \A x : s \ {x} \in SUBSET (1..k)
    <3>1. \A i \in s : i # k => i \in 1..(k - 1)
      BY <2>1
    <3> QED
      BY <3>1
  <2>4. \A s \in Before : g[s] = Step(g, s)
    BY <2>2
  <2>5. ASSUME NEW s \in SUBSET (1..k) PROVE f[s] = Step(f, s)
    <3>1. CASE k \in s
      <4>1. Highest(s) = k
        BY <1>2, <3>1
      <4>2. f[s \ {k}] = g[s \ {k}]
        BY <2>3
      <4>3. f[s] = g[s \ {k}] + ns[k]
        BY <3>1
      <4> HIDE DEF f
      <4> QED
        BY <3>1, <4>1, <4>2, <4>3
    <3>2. CASE k \notin s
      <4>1. f[s] = g[s] /\ g[s] = Step(g, s)
        BY <2>3, <2>4, <3>2
      <4>2. f[s \ {Highest(s)}] = g[s \ {Highest(s)}]
        BY <2>3, <3>2
      <4> HIDE DEF f
      <4> QED
        BY <4>1, <4>2
    <3> QED
      BY <3>1, <3>2
  <2>6. f = [s \in SUBSET (1..k) |-> f[s]]
    OBVIOUS
  <2>7. Upto(f, k)
    <3> HIDE DEF f, Step
    <3> QED
      BY <2>5, <2>6
  <2> QED
    BY <2>7, Zenon
<1>5. Reached(n)
  <2> DEFINE P == {k \in 0..n : Reached(k)}
  <2> HIDE DEF Reached
  <2>1. 0 \in P /\ n \in 0..n
    BY <1>1, <1>3
  <2>2. \A k \in 1..n : k - 1 \in P => k \in P
    BY <1>1, <1>4
  <2> HIDE DEF P
  <2>3. n \in P
    BY <1>1, <2>1, <2>2, Upwards
  <2> QED
    BY <2>3 DEF P
<1> DEFINE iter == CHOOSE f : f = [s \in SUBSET DOMAIN ns |-> Step(f, s)]
<1>6. DOMAIN ns = 1..n /\ iter = [s \in SUBSET (1..n) |-> Step(iter, s)]
  <2>1. DOMAIN ns = 1..n
    OBVIOUS
  <2>2. \E f : f = [s \in SUBSET DOMAIN ns |-> Step(f, s)]
    BY <1>5, <2>1, Zenon
  <2> QED
    BY <2>1, <2>2, Zenon
<1>7. SumOf(ns) = iter[DOMAIN ns]
  BY Zenon DEF SumOf, FoldLeft, MapThenFoldSet, Highest
<1> HIDE DEF iter
<1>8. \A s \in SUBSET (1..n) : iter[s] = Step(iter, s)
  BY <1>6, Zenon
<1> DEFINE t == [k \in 0..n |-> iter[1..k]]
<1>9. t[0] = 0
  <2>1. t[0] = iter[1..0] /\ 1..0 = {}
    BY <1>1
  <2> QED
    BY <1>8, <2>1
<1>10. ASSUME NEW k \in 1..n PROVE t[k] = t[k - 1] + ns[k]
  <2>1. k \in 1..k /\ 1..k \in SUBSET (1..n) /\ (1..k) \ {k} = 1..(k - 1) /\ k - 1 \in 0..n /\ k \in 0..n
    BY <1>1
  <2>2. Highest(1..k) = k
    BY <1>2, <2>1
  <2>3. iter[1..k] = Step(iter, 1..k)
    BY <1>8, <2>1
  <2> QED
    BY <2>1, <2>2, <2>3
<1>11. \A k \in 0..n : t[k] \in Int
  <2> DEFINE P == {k \in 0..n : t[k] \in Int}
  <2> HIDE DEF t
  <2>1. 0 \in P /\ \A k \in 1..n : k - 1 \in P => k \in P
    BY <1>1, <1>9, <1>10
  <2> HIDE DEF P
  <2>2. \A k \in 0..n : k \in P
    BY <1>1, <2>1, Upwards
  <2> QED
    BY <2>2 DEF P
<1>12. n \in 0..n /\ t[n] = SumOf(ns)
  BY <1>1, <1>6, <1>7
<1>13. t \in [0..n -> Int]
  BY <1>11
<1> QED
  BY <1>9, <1>10, <1>12, <1>13

\* Numbers add up to a number.
LEMMA SumIsANumber ==
  ASSUME NEW ns \in Seq(Int)
  PROVE  SumOf(ns) \in Int
<1>1. Len(ns) \in 0..Len(ns)
  OBVIOUS
<1> QED
  BY <1>1, SumSteps

\* Lesser numbers add up to less.
LEMMA SumsCompare ==
  ASSUME NEW ns \in Seq(Int), NEW ms \in Seq(Int), Len(ns) = Len(ms),
         \A i \in 1..Len(ns) : ns[i] <= ms[i]
  PROVE  SumOf(ns) <= SumOf(ms)
<1> DEFINE n == Len(ns)
<1>1. n \in Nat /\ n \in 0..n /\ \A i \in 1..n : ns[i] \in Int /\ ms[i] \in Int
  OBVIOUS
<1>2. PICK t \in [0..n -> Int] :
        t[0] = 0 /\ (\A i \in 1..n : t[i] = t[i - 1] + ns[i]) /\ SumOf(ns) = t[n]
  BY SumSteps
<1>3. PICK u \in [0..n -> Int] :
        u[0] = 0 /\ (\A i \in 1..n : u[i] = u[i - 1] + ms[i]) /\ SumOf(ms) = u[n]
  BY SumSteps
<1> HIDE DEF n
<1> DEFINE P == {i \in 0..n : t[i] <= u[i]}
<1>4. 0 \in P
  BY <1>1, <1>2, <1>3
<1>5. ASSUME NEW i \in 1..n, i - 1 \in P PROVE i \in P
  <2>1. i \in 0..n /\ i - 1 \in 0..n
    BY <1>1
  <2>2. t[i] \in Int /\ u[i] \in Int /\ t[i - 1] \in Int /\ u[i - 1] \in Int
    BY <2>1
  <2>3. ns[i] <= ms[i] /\ ns[i] \in Int /\ ms[i] \in Int
    BY <1>1 DEF n
  <2>4. t[i - 1] <= u[i - 1]
    BY <1>5
  <2>5. t[i] = t[i - 1] + ns[i] /\ u[i] = u[i - 1] + ms[i]
    BY <1>2, <1>3
  <2>6. t[i] <= u[i]
    BY ONLY <2>2, <2>3, <2>4, <2>5
  <2> QED
    BY <2>1, <2>6
<1> HIDE DEF P
<1>6. n \in P
  BY <1>1, <1>4, <1>5, Upwards
<1> QED
  BY <1>2, <1>3, <1>6 DEF P

\* Sums are added place by place.
LEMMA SumsAdd ==
  ASSUME NEW ns \in Seq(Int), NEW ms \in Seq(Int), NEW ks \in Seq(Int),
         Len(ns) = Len(ks), Len(ms) = Len(ks),
         \A i \in 1..Len(ks) : ks[i] = ns[i] + ms[i]
  PROVE  SumOf(ks) = SumOf(ns) + SumOf(ms)
<1> DEFINE n == Len(ks)
<1>1. n \in Nat /\ n \in 0..n /\ \A i \in 1..n : ns[i] \in Int /\ ms[i] \in Int
  OBVIOUS
<1>2. PICK t \in [0..n -> Int] :
        t[0] = 0 /\ (\A i \in 1..n : t[i] = t[i - 1] + ns[i]) /\ SumOf(ns) = t[n]
  BY SumSteps
<1>3. PICK u \in [0..n -> Int] :
        u[0] = 0 /\ (\A i \in 1..n : u[i] = u[i - 1] + ms[i]) /\ SumOf(ms) = u[n]
  BY SumSteps
<1>4. PICK v \in [0..n -> Int] :
        v[0] = 0 /\ (\A i \in 1..n : v[i] = v[i - 1] + ks[i]) /\ SumOf(ks) = v[n]
  BY SumSteps
<1> HIDE DEF n
<1> DEFINE P == {i \in 0..n : v[i] = t[i] + u[i]}
<1>5. 0 \in P
  BY <1>1, <1>2, <1>3, <1>4
<1>6. ASSUME NEW i \in 1..n, i - 1 \in P PROVE i \in P
  <2>1. i \in 0..n /\ i - 1 \in 0..n
    BY <1>1
  <2>2. t[i - 1] \in Int /\ u[i - 1] \in Int /\ v[i - 1] \in Int
    BY <2>1
  <2>3. ks[i] = ns[i] + ms[i] /\ ns[i] \in Int /\ ms[i] \in Int
    BY <1>1 DEF n
  <2>4. v[i - 1] = t[i - 1] + u[i - 1]
    BY <1>6
  <2>5. t[i] = t[i - 1] + ns[i] /\ u[i] = u[i - 1] + ms[i] /\ v[i] = v[i - 1] + ks[i]
    BY <1>2, <1>3, <1>4
  <2>6. v[i] = t[i] + u[i]
    BY ONLY <2>2, <2>3, <2>4, <2>5
  <2> QED
    BY <2>1, <2>6
<1> HIDE DEF P
<1>7. n \in P
  BY <1>1, <1>5, <1>6, Upwards
<1> QED
  BY <1>2, <1>3, <1>4, <1>7 DEF P

\* The same number n times is n times the number.
LEMMA SumOfTheSame ==
  ASSUME NEW ns \in Seq(Int), NEW k \in Int, \A i \in 1..Len(ns) : ns[i] = k
  PROVE  SumOf(ns) = Len(ns) * k
<1> DEFINE n == Len(ns)
<1>1. n \in Nat /\ n \in 0..n
  OBVIOUS
<1>2. PICK t \in [0..n -> Int] :
        t[0] = 0 /\ (\A i \in 1..n : t[i] = t[i - 1] + ns[i]) /\ SumOf(ns) = t[n]
  BY SumSteps
<1> HIDE DEF n
<1> DEFINE P == {i \in 0..n : t[i] = i * k}
<1>3. 0 \in P
  BY <1>1, <1>2
<1>4. ASSUME NEW i \in 1..n, i - 1 \in P PROVE i \in P
  <2>1. i \in 0..n /\ i \in Int
    BY <1>1
  <2>2. ns[i] = k
    BY DEF n
  <2>3. t[i] = (i - 1) * k + k
    BY <1>2, <1>4, <2>2
  <2>4. (i - 1) * k + k = i * k
    BY <2>1
  <2> QED
    BY <2>1, <2>3, <2>4
<1> HIDE DEF P
<1>5. n \in P
  BY <1>1, <1>3, <1>4, Upwards
<1> QED
  BY <1>2, <1>5 DEF P, n

\* As many elements as there are in all.
LEMMA FlattenLength ==
  ASSUME NEW S, NEW seqs \in Seq(Seq(S))
  PROVE  Len(FlattenSeq(seqs)) = SumOf([i \in 1..Len(seqs) |-> Len(seqs[i])])
<1> DEFINE n == Len(seqs)
           ns == [i \in 1..n |-> Len(seqs[i])]
<1>1. n \in Nat /\ n \in 0..n /\ \A i \in 1..n : seqs[i] \in Seq(S)
  OBVIOUS
<1>2. \A i \in 1..n : Len(seqs[i]) \in Int
  BY <1>1
<1>3. ns \in Seq(Int) /\ Len(ns) = n
  BY <1>1, <1>2
<1>4. PICK t \in [0..n -> Int] :
        t[0] = 0 /\ (\A i \in 1..n : t[i] = t[i - 1] + ns[i]) /\ SumOf(ns) = t[n]
  BY <1>3, SumSteps
<1>5. CASE n = 0
  <2>1. FlattenSeq(seqs) = <<>>
    <3>1. FlattenSeq(seqs) = seqs
      BY <1>5, Zenon DEF FlattenSeq
    <3> QED
      BY <1>5, <3>1
  <2> QED
    BY <1>4, <1>5, <2>1
<1>6. CASE n # 0
  <2>1. PICK f \in [1..n -> Seq(S)] :
          /\ f[1] = seqs[1]
          /\ \A i \in 2..n : f[i] = f[i - 1] \o seqs[i]
          /\ FlattenSeq(seqs) = f[n]
    BY <1>6, FlattenSteps
  <2> HIDE DEF n
  <2>2. \A i \in 1..n : ns[i] = Len(seqs[i]) /\ f[i] \in Seq(S)
    OBVIOUS
  <2> HIDE DEF ns
  <2> DEFINE P == {i \in 0..n : i # 0 => Len(f[i]) = t[i]}
  <2>3. 0 \in P
    BY <1>1
  <2>4. ASSUME NEW i \in 1..n, i - 1 \in P PROVE i \in P
    <3>1. i \in 0..n /\ i - 1 \in 0..n /\ t[i - 1] \in Int
      BY <1>1
    <3>2. t[i] = t[i - 1] + Len(seqs[i])
      BY <1>4, <2>2
    <3>3. Len(seqs[i]) \in Int
      BY <1>2
    <3>4. CASE i = 1
      BY <1>4, <2>1, <3>1, <3>2, <3>3, <3>4
    <3>5. CASE i # 1
      <4>1. i \in 2..n /\ i - 1 \in 1..n
        BY <1>1, <3>5
      <4>2. f[i - 1] \in Seq(S) /\ seqs[i] \in Seq(S)
        BY <1>1, <2>2, <4>1
      <4>3. Len(f[i - 1] \o seqs[i]) = Len(f[i - 1]) + Len(seqs[i])
        BY <4>2
      <4>4. Len(f[i - 1]) = t[i - 1]
        BY <2>4, <4>1
      <4> QED
        BY <2>1, <3>1, <3>2, <4>1, <4>3, <4>4
    <3> QED
      BY <3>4, <3>5
  <2> HIDE DEF P
  <2>5. n \in P
    BY <1>1, <2>3, <2>4, Upwards
  <2> QED
    BY <1>4, <1>6, <2>1, <2>5 DEF P, ns, n
<1> QED
  BY <1>5, <1>6
==============================================================================
