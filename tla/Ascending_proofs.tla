-------------------------- MODULE Ascending_proofs --------------------------
(* Lemmas about Ascending: it lists a finite set of integers, each once and in     *)
(* order. The replay of the event bus and the list of a session's legs rest on it.  *)
EXTENDS Ascending, FiniteSetTheorems, SequenceTheorems, TLAPS

\* A function on the first naturals is a sequence.
LEMMA SequenceOf ==
  ASSUME NEW S, NEW n \in Nat, NEW f \in [1 .. n -> S]
  PROVE  f \in Seq(S) /\ Len(f) = n
<1>1. f \in Seq(S)
  BY SeqDef
<1>2. Len(f) \in Nat /\ DOMAIN f = 1 .. Len(f)
  BY <1>1, LenProperties
<1>3. DOMAIN f = 1 .. n
  OBVIOUS
<1> QED
  BY <1>1, <1>2, <1>3

UpToIn(S, n) == {m \in S : m <= n}
RankIn(S, n) == Cardinality(UpToIn(S, n))

\* Each member has a rank, each rank a member.
LEMMA RankFacts ==
  ASSUME NEW S, IsFiniteSet(S), S \subseteq Int
  PROVE  /\ Cardinality(S) \in Nat
         /\ \A n \in S : RankIn(S, n) \in 1 .. Cardinality(S)
         /\ \A m, n \in S : m < n => RankIn(S, m) < RankIn(S, n)
         /\ \A k \in 1 .. Cardinality(S) : \E n \in S : RankIn(S, n) = k
<1>1. Cardinality(S) \in Nat
  BY FS_CardinalityType
<1>2. \A n : UpToIn(S, n) \in SUBSET S
  BY DEF UpToIn
<1>3. ASSUME NEW n \in S PROVE RankIn(S, n) \in 1 .. Cardinality(S) /\ IsFiniteSet(UpToIn(S, n))
  <2>1. IsFiniteSet(UpToIn(S, n)) /\ Cardinality(UpToIn(S, n)) <= Cardinality(S)
    BY <1>2, FS_Subset
  <2>2. n \in UpToIn(S, n)
    BY <1>3 DEF UpToIn
  <2>3. Cardinality(UpToIn(S, n)) \in Nat /\ Cardinality(UpToIn(S, n)) # 0
    BY <2>1, <2>2, FS_CardinalityType, FS_EmptySet
  <2> QED
    BY <1>1, <2>1, <2>3 DEF RankIn
<1>4. ASSUME NEW m \in S, NEW n \in S, m < n PROVE RankIn(S, m) < RankIn(S, n)
  <2>1. UpToIn(S, m) \in SUBSET UpToIn(S, n) /\ n \in UpToIn(S, n) /\ n \notin UpToIn(S, m)
    <3>1. m \in Int /\ n \in Int /\ (\A e \in S : e \in Int)
      BY <1>4
    <3>2. \A e \in S : e <= m => e <= n
      BY <1>4, <3>1
    <3>3. ~(n <= m)
      BY <1>4, <3>1
    <3>4. n <= n
      BY <3>1
    <3> QED
      BY <3>2, <3>3, <3>4 DEF UpToIn
  <2>2. UpToIn(S, m) # UpToIn(S, n)
    BY <2>1
  <2>3. /\ Cardinality(UpToIn(S, m)) <= Cardinality(UpToIn(S, n))
        /\ Cardinality(UpToIn(S, m)) # Cardinality(UpToIn(S, n))
    BY <1>3, <2>1, <2>2, FS_Subset
  <2>4. RankIn(S, m) \in Int /\ RankIn(S, n) \in Int
    BY <1>1, <1>3
  <2> QED
    BY <2>3, <2>4 DEF RankIn
<1>5. ASSUME NEW k \in 1 .. Cardinality(S) PROVE \E n \in S : RankIn(S, n) = k
  <2> DEFINE T == 1 .. Cardinality(S)
             f == [n \in S |-> RankIn(S, n)]
  <2>1. f \in [S -> T]
    BY <1>3
  <2>2. \A m, n \in S : m # n => f[m] # f[n]
    <3> SUFFICES ASSUME NEW m \in S, NEW n \in S, m # n PROVE RankIn(S, m) # RankIn(S, n)
      OBVIOUS
    <3>1. m < n \/ n < m
      <4>1. m \in Int /\ n \in Int
        OBVIOUS
      <4> QED
        BY <4>1
    <3>2. RankIn(S, m) \in Int /\ RankIn(S, n) \in Int
      BY <1>1, <1>3
    <3> QED
      BY <1>4, <3>1, <3>2
  <2>3. f \in Injection(S, T)
    BY <2>1, <2>2, Zenon DEF Injection, IsInjective
  <2>4. IsFiniteSet(T) /\ Cardinality(T) = Cardinality(S)
    BY <1>1, FS_Interval
  <2>5. f \in Surjection(S, T)
    BY <2>3, <2>4, FS_Injection
  <2>6. \E n \in S : f[n] = k
    BY <2>5, <1>5 DEF Surjection
  <2> QED
    BY <2>6
<1> QED
  BY <1>1, <1>3, <1>4, <1>5

\* What Ascending picks: every member once, smaller ones first.
\* Ascending lists every member once, the lesser before the greater.
LEMMA AscendingFacts ==
  ASSUME NEW S, IsFiniteSet(S), S \subseteq Int
  PROVE  /\ Cardinality(S) \in Nat
         /\ Ascending(S) \in [1 .. Cardinality(S) -> S]
         /\ \A n \in S : \E k \in 1 .. Cardinality(S) : Ascending(S)[k] = n
         /\ \A i, j \in 1 .. Cardinality(S) : i < j => Ascending(S)[i] < Ascending(S)[j]
<1> DEFINE N == Cardinality(S)
<1>1. N \in Nat
  BY RankFacts
<1>2. ASSUME NEW k \in 1 .. N PROVE Ascending(S)[k] \in S /\ RankIn(S, Ascending(S)[k]) = k
  <2>1. \E n \in S : RankIn(S, n) = k
    BY <1>2, RankFacts
  <2>2. Ascending(S)[k] = CHOOSE n \in S : RankIn(S, n) = k
    BY <1>2 DEF Ascending, RankIn, UpToIn
  <2> QED
    BY <2>1, <2>2, Zenon
<1>3. Ascending(S) \in [1 .. N -> S]
  <2>1. \A k \in 1 .. N : (CHOOSE n \in S : Cardinality({m \in S : m <= n}) = k) \in S
    <3> TAKE k \in 1 .. N
    <3>1. Ascending(S)[k] = CHOOSE n \in S : Cardinality({m \in S : m <= n}) = k
      BY DEF Ascending
    <3> QED
      BY <1>2, <3>1
  <2> QED
    BY <2>1 DEF Ascending
<1>4. \A m, n \in S : RankIn(S, m) = RankIn(S, n) => m = n
  <2> SUFFICES ASSUME NEW m \in S, NEW n \in S, m # n PROVE RankIn(S, m) # RankIn(S, n)
    OBVIOUS
  <2>1. m < n \/ n < m
    <3>1. m \in Int /\ n \in Int
      OBVIOUS
    <3> QED
      BY <3>1
  <2>2. RankIn(S, m) \in Int /\ RankIn(S, n) \in Int
    <3>1. RankIn(S, m) \in 1 .. N /\ RankIn(S, n) \in 1 .. N
      BY RankFacts
    <3> QED
      BY <1>1, <3>1
  <2>3. \A e, y \in S : e < y => RankIn(S, e) < RankIn(S, y)
    BY RankFacts
  <2> QED
    BY <2>1, <2>2, <2>3
<1>5. ASSUME NEW n \in S PROVE \E k \in 1 .. N : Ascending(S)[k] = n
  <2>1. RankIn(S, n) \in 1 .. N
    BY <1>5, RankFacts
  <2>2. Ascending(S)[RankIn(S, n)] = n
    BY <1>2, <1>4, <1>5, <2>1
  <2> QED
    BY <2>1, <2>2
<1>6. ASSUME NEW i \in 1 .. N, NEW j \in 1 .. N, i < j PROVE Ascending(S)[i] < Ascending(S)[j]
  <2> DEFINE a == Ascending(S)[i]
             b == Ascending(S)[j]
  <2>1. a \in S /\ b \in S /\ RankIn(S, a) = i /\ RankIn(S, b) = j
    BY <1>2, <1>6
  <2>0. a \in Int /\ b \in Int /\ i \in Int /\ j \in Int
    <3>1. \A e \in S : e \in Int
      OBVIOUS
    <3>2. a \in Int /\ b \in Int
      BY <2>1, <3>1
    <3>3. i \in Int /\ j \in Int
      <4> HIDE DEF N, a, b
      <4> QED
        BY <1>1, <1>6
    <3> QED
      BY <3>2, <3>3
  <2>9. \A e, y \in S : e < y => RankIn(S, e) < RankIn(S, y)
    BY RankFacts
  <2> HIDE DEF a, b
  <2>2. ~(b <= a)
    <3>1. CASE b < a
      BY <1>6, <2>0, <2>1, <3>1, <2>9
    <3>2. CASE b = a
      BY <1>6, <2>0, <2>1, <3>2
    <3> QED
      BY <2>0, <3>1, <3>2
  <2>3. a < b
    BY <2>0, <2>2
  <2> QED
    BY <2>3 DEF a, b
<1> QED
  BY <1>1, <1>3, <1>5, <1>6
=============================================================================
