------------------------------ MODULE FoldFacts ------------------------------
(* What a fold over a sequence computes, for an operator given by INSTANCE:     *)
(* FoldLeft of SequencesExt starts with its base and goes on element by element. *)
(* The library defines it by a recursive function on sets of positions that     *)
(* CHOOSE picks; RunExists shows that there is such a function. Induction is by  *)
(* sets: what is to be shown holds of the members of T.                         *)
EXTENDS SequencesExt, SequenceTheorems, FiniteSetTheorems, WellFoundedInduction, TLAPS

CONSTANT op(_, _)

Fold(base, s) == FoldLeft(op, base, s)

-----------------------------------------------------------------------------
(* Induction *)

\* A non-empty set of naturals has a least element.
LEMMA NatMin ==
  ASSUME NEW S \in SUBSET Nat, S # {}
  PROVE  \E m \in S : \A k \in S : m <= k
<1> DEFINE Seg(m) == {k \in S : k <= m}
           Segs == {Seg(m) : m \in S}
<1>1. Segs \subseteq FiniteSubsetsOf(Nat)
  <2>1. ASSUME NEW m \in S
        PROVE  Seg(m) \in SUBSET Nat /\ IsFiniteSet(Seg(m))
    <3>1. Seg(m) \in SUBSET Nat /\ m \in Nat /\ \A k \in Seg(m) : k <= m
      OBVIOUS
    <3>2. QED BY <3>1, FS_BoundedSetOfNaturals
  <2>2. QED BY <2>1 DEF FiniteSubsetsOf
<1>2. PICK T \in Segs : \A U \in Segs : <<U, T>> \notin StrictSubsetOrdering(Nat)
  <2>1. Segs # {}
    OBVIOUS
  <2>2. QED BY <1>1, <2>1, FS_StrictSubsetOrderingWellFounded, WFMin
<1>3. PICK m \in S : T = Seg(m)
  BY <1>2
<1>4. ASSUME NEW k \in S, k < m PROVE FALSE
  <2>1. \A j \in S : j \in Nat
    OBVIOUS
  <2>2. Seg(k) \subseteq Seg(m) /\ m \in Seg(m) /\ m \notin Seg(k)
    <3>1. k \in Nat /\ m \in Nat /\ k < m
      BY <2>1, <1>4
    <3>2. ASSUME NEW j \in Seg(k) PROVE j \in Seg(m)
      <4>1. j \in S /\ j \in Nat /\ j <= k
        BY <2>1
      <4>2. j <= m
        BY <4>1, <3>1
      <4>3. QED BY <4>1, <4>2
    <3>3. m \in Seg(m)
      BY <3>1
    <3>4. m \notin Seg(k)
      BY <3>1
    <3>5. QED BY <3>2, <3>3, <3>4
  <2>3. Seg(k) \in Segs /\ Seg(m) \in Segs
    OBVIOUS
  <2>4. Seg(k) \in SUBSET Nat /\ Seg(m) \in SUBSET Nat
    OBVIOUS
  <2>5. <<Seg(k), Seg(m)>> \in StrictSubsetOrdering(Nat)
    BY <2>2, <2>4 DEF StrictSubsetOrdering
  <2>6. QED BY <2>3, <2>5, <1>2, <1>3
<1>5. QED
  <2>1. \A k \in S : k \in Nat
    OBVIOUS
  <2>2. QED BY <1>4, <2>1

\* Induction over the naturals, over a set.
LEMMA NatInduct ==
  ASSUME NEW T, 0 \in T, \A n \in Nat : n \in T => n + 1 \in T
  PROVE  Nat \subseteq T
<1> DEFINE B == {n \in Nat : n \notin T}
<1> SUFFICES ASSUME B # {} PROVE FALSE
  OBVIOUS
<1>1. PICK m \in B : \A k \in B : m <= k
  BY NatMin
<1>2. m # 0 /\ m - 1 \in Nat
  OBVIOUS
<1>3. m - 1 \in T
  BY <1>1, <1>2
<1>4. QED
  <2>1. (m - 1) + 1 \in T
    BY <1>2, <1>3
  <2>2. QED BY <2>1

\* Induction over sequences, over a set.
LEMMA SeqInduct ==
  ASSUME NEW S, NEW T, <<>> \in T,
         \A s \in Seq(S), x \in S : s \in T => Append(s, x) \in T
  PROVE  Seq(S) \subseteq T
<1> DEFINE L == {n \in Nat : \A s \in Seq(S) : Len(s) = n => s \in T}
<1>1. 0 \in L
  BY EmptySeq
<1>2. ASSUME NEW n \in Nat, n \in L PROVE n + 1 \in L
  <2> SUFFICES ASSUME NEW s \in Seq(S), Len(s) = n + 1 PROVE s \in T
    OBVIOUS
  <2>1. s # <<>>
    BY EmptySeq
  <2>2. PICK q \in Seq(S), x \in S : s = Append(q, x)
    BY <2>1, SequenceEmptyOrAppend
  <2>3. Len(q) = n
    BY <2>2, AppendProperties, LenProperties
  <2>4. QED BY <1>2, <2>2, <2>3
<1> HIDE DEF L
<1>3. Nat \subseteq L
  BY <1>1, <1>2, NatInduct
<1>4. QED BY <1>3, LenProperties DEF L

-----------------------------------------------------------------------------
(* The recursive function *)

\* What FoldLeft computes with: a value for each set of positions up to n.
IsRun(h, base, s, n) ==
    h = [t \in SUBSET (1..n) |-> IF t = {} THEN base ELSE op(h[t \ {Max(t)}], s[Max(t)])]

\* The greatest position is taken first.
LEMMA MaxOfRange ==
  ASSUME NEW n \in Nat, NEW t \in SUBSET (1 .. n + 1), n + 1 \in t
  PROVE  Max(t) = n + 1
<1>1. \A y \in t : y \in Nat /\ n + 1 >= y
  OBVIOUS
<1>2. \A x \in t : (\A y \in t : x >= y) => x = n + 1
  BY <1>1
<1>3. QED BY <1>1, <1>2 DEF Max

\* There is a recursive function, for every sequence and every length.
LEMMA RunExists ==
  ASSUME NEW base, NEW s
  PROVE  \A n \in Nat : \E h : IsRun(h, base, s, n)
<1> DEFINE T == {n \in Nat : \E h : IsRun(h, base, s, n)}
<1>1. 0 \in T
  <2> DEFINE h == [t \in SUBSET (1..0) |-> base]
  <2>1. IsRun(h, base, s, 0)
    <3>1. 1..0 = {}
      OBVIOUS
    <3>2. \A t \in SUBSET (1..0) : t = {}
      BY <3>1
    <3>3. QED BY <3>2 DEF IsRun
  <2>2. QED BY <2>1
<1>2. ASSUME NEW n \in Nat, n \in T PROVE n + 1 \in T
  <2>1. PICK h : IsRun(h, base, s, n)
    BY <1>2
  <2> DEFINE k == [t \in SUBSET (1 .. n + 1) |-> IF n + 1 \in t THEN op(h[t \ {n + 1}], s[n + 1]) ELSE h[t]]
             v(t) == IF t = {} THEN base ELSE op(k[t \ {Max(t)}], s[Max(t)])
  <2>2. ASSUME NEW t \in SUBSET (1 .. n + 1) PROVE k[t] = v(t)
    <3>1. CASE n + 1 \in t
      <4>1. Max(t) = n + 1
        BY <3>1, MaxOfRange
      <4>2. t \ {n + 1} \in SUBSET (1 .. n + 1) /\ n + 1 \notin t \ {n + 1}
        OBVIOUS
      <4>3. k[t \ {n + 1}] = h[t \ {n + 1}]
        BY <4>2
      <4>4. k[t] = op(h[t \ {n + 1}], s[n + 1])
        BY <3>1
      <4> HIDE DEF k
      <4>5. QED BY <4>1, <4>3, <4>4, <3>1
    <3>2. CASE n + 1 \notin t
      <4>1. t \in SUBSET (1 .. n)
        BY <3>2
      <4>2. k[t] = h[t]
        BY <3>2
      <4> DEFINE w == Max(t)
      <4>3. k[t \ {w}] = h[t \ {w}]
        <5>1. t \ {w} \in SUBSET (1 .. n + 1) /\ n + 1 \notin t \ {w}
          BY <3>2
        <5> HIDE DEF w
        <5>2. QED BY <5>1
      <4>4. h[t] = IF t = {} THEN base ELSE op(h[t \ {Max(t)}], s[Max(t)])
        BY <2>1, <4>1 DEF IsRun
      <4> HIDE DEF k
      <4>5. QED BY <4>2, <4>3, <4>4
    <3>3. QED BY <3>1, <3>2
  <2>3. k = [t \in SUBSET (1 .. n + 1) |-> v(t)]
    <3> HIDE DEF v
    <3>1. QED BY <2>2
  <2>4. IsRun(k, base, s, n + 1)
    <3>1. [t \in SUBSET (1 .. n + 1) |-> v(t)] = [t \in SUBSET (1 .. n + 1) |-> IF t = {} THEN base ELSE op(k[t \ {Max(t)}], s[Max(t)])]
      OBVIOUS
    <3> HIDE DEF k, v
    <3>2. QED BY <2>3, <3>1 DEF IsRun
  <2> HIDE DEF k
  <2>5. QED BY <2>4
<1> HIDE DEF T
<1>3. Nat \subseteq T
  BY <1>1, <1>2, NatInduct
<1>4. QED BY <1>3 DEF T

\* Its value at the first n + 1 positions comes from the one at the first n.
LEMMA RunStep ==
  ASSUME NEW base, NEW s, NEW h, NEW m \in Nat, NEW n \in Nat, n + 1 <= m, IsRun(h, base, s, m)
  PROVE  h[1 .. n + 1] = op(h[1 .. n], s[n + 1])
<1>1. 1 .. n + 1 \in SUBSET (1 .. m) /\ 1 .. n + 1 # {} /\ n + 1 \in 1 .. n + 1
  OBVIOUS
<1>2. Max(1 .. n + 1) = n + 1
  BY <1>1, MaxOfRange
<1>3. (1 .. n + 1) \ {n + 1} = 1 .. n
  OBVIOUS
<1>4. h[1 .. n + 1] = op(h[(1 .. n + 1) \ {Max(1 .. n + 1)}], s[Max(1 .. n + 1)])
  BY <1>1 DEF IsRun
<1>5. QED BY <1>2, <1>3, <1>4

\* Its value at no position is the base.
LEMMA RunStart ==
  ASSUME NEW base, NEW s, NEW h, NEW m \in Nat, IsRun(h, base, s, m)
  PROVE  h[1 .. 0] = base
<1>1. 1 .. 0 = {} /\ 1 .. 0 \in SUBSET (1 .. m)
  OBVIOUS
<1>2. QED BY <1>1 DEF IsRun

\* A fold is the value of such a function at all positions.
LEMMA FoldRun ==
  ASSUME NEW base, NEW s, NEW n \in Nat, DOMAIN s = 1 .. n
  PROVE  \E h : IsRun(h, base, s, n) /\ Fold(base, s) = h[1 .. n]
<1> DEFINE h == CHOOSE h : IsRun(h, base, s, n)
<1>1. IsRun(h, base, s, n)
  BY RunExists
<1>2. Fold(base, s) = h[1 .. n]
  BY DEF Fold, FoldLeft, MapThenFoldSet, IsRun
<1> HIDE DEF h
<1>3. QED BY <1>1, <1>2

-----------------------------------------------------------------------------
(* Folds *)

\* A fold over nothing is its base.
LEMMA FoldEmpty ==
  ASSUME NEW base
  PROVE  Fold(base, <<>>) = base
<1>1. DOMAIN <<>> = 1 .. 0
  OBVIOUS
<1>2. QED BY <1>1, FoldRun, RunStart

\* A fold over one more element is a step more.
LEMMA FoldAppend ==
  ASSUME NEW S, NEW s \in Seq(S), NEW x \in S, NEW base
  PROVE  Fold(base, Append(s, x)) = op(Fold(base, s), x)
<1> DEFINE n == Len(s)
           r == Append(s, x)
<1>1. /\ n \in Nat /\ DOMAIN s = 1 .. n /\ DOMAIN r = 1 .. n + 1 /\ r[n + 1] = x
      /\ \A i \in 1 .. n : r[i] = s[i]
  BY LenProperties, AppendProperties
<1> HIDE DEF n, r
<1>2. PICK h : IsRun(h, base, s, n) /\ Fold(base, s) = h[1 .. n]
  BY <1>1, FoldRun
<1>3. PICK k : IsRun(k, base, r, n + 1) /\ Fold(base, r) = k[1 .. n + 1]
  BY <1>1, FoldRun
<1> DEFINE T == {i \in Nat : i <= n => k[1 .. i] = h[1 .. i]}
<1>4. 0 \in T
  BY <1>1, <1>2, <1>3, RunStart
<1>5. ASSUME NEW i \in Nat, i \in T PROVE i + 1 \in T
  <2> SUFFICES ASSUME i + 1 <= n PROVE k[1 .. i + 1] = h[1 .. i + 1]
    OBVIOUS
  <2>1. i <= n /\ i + 1 <= n + 1 /\ i + 1 \in 1 .. n
    BY <1>1
  <2>2. k[1 .. i + 1] = op(k[1 .. i], r[i + 1])
    BY <1>1, <1>3, <2>1, RunStep
  <2>3. h[1 .. i + 1] = op(h[1 .. i], s[i + 1])
    BY <1>1, <1>2, <2>1, RunStep
  <2>4. k[1 .. i] = h[1 .. i] /\ r[i + 1] = s[i + 1]
    BY <1>1, <1>5, <2>1
  <2>5. QED BY <2>2, <2>3, <2>4
<1> HIDE DEF T
<1>6. Nat \subseteq T
  BY <1>4, <1>5, NatInduct
<1>7. k[1 .. n] = h[1 .. n]
  BY <1>1, <1>6 DEF T
<1>8. k[1 .. n + 1] = op(k[1 .. n], r[n + 1])
  BY <1>1, <1>3, RunStep
<1>9. QED BY <1>1, <1>2, <1>3, <1>7, <1>8 DEF r

\* A fold over two sequences goes on where the first one ended.
LEMMA FoldConcat ==
  ASSUME NEW S, NEW s \in Seq(S), NEW r \in Seq(S), NEW base
  PROVE  Fold(base, s \o r) = Fold(Fold(base, s), r)
<1> DEFINE Q == {q \in Seq(S) : Fold(base, s \o q) = Fold(Fold(base, s), q)}
<1>1. <<>> \in Q
  BY FoldEmpty, EmptySeq, ConcatEmptySeq
<1>2. ASSUME NEW q \in Seq(S), NEW x \in S, q \in Q PROVE Append(q, x) \in Q
  <2>1. s \o q \in Seq(S) /\ Append(q, x) \in Seq(S)
    BY ConcatProperties, AppendProperties
  <2>2. <<x>> \in Seq(S) /\ Append(q, x) = q \o <<x>>
    BY AppendIsConcat
  <2>3. Append(s \o q, x) = (s \o q) \o <<x>>
    BY <2>1, AppendIsConcat
  <2>4. s \o Append(q, x) = Append(s \o q, x)
    BY <2>2, <2>3, ConcatAssociative
  <2>5. QED BY <1>2, <2>1, <2>4, FoldAppend
<1> HIDE DEF Q
<1>3. Seq(S) \subseteq Q
  BY <1>1, <1>2, SeqInduct
<1>4. QED BY <1>3 DEF Q

\* What holds of the start and is kept by each element holds of the fold.
LEMMA FoldKeeps ==
  ASSUME NEW S, NEW T, NEW base \in T, NEW s \in Seq(S),
         \A t \in T, x \in S : op(t, x) \in T
  PROVE  Fold(base, s) \in T
<1> DEFINE Q == {q \in Seq(S) : Fold(base, q) \in T}
<1>1. <<>> \in Q
  BY FoldEmpty, EmptySeq
<1>2. ASSUME NEW q \in Seq(S), NEW x \in S, q \in Q PROVE Append(q, x) \in Q
  BY <1>2, FoldAppend, AppendProperties
<1> HIDE DEF Q
<1>3. Seq(S) \subseteq Q
  BY <1>1, <1>2, SeqInduct
<1>4. QED BY <1>3 DEF Q

-----------------------------------------------------------------------------
(* Folds over sets *)

FoldAll(base, S) == FoldSet(op, base, S)

\* The element that is taken first.
Chosen(t) == CHOOSE x \in t : TRUE
\* What FoldSet computes with: a value for each subset.
SetRunAt(h, base, t) == IF t = {} THEN base ELSE op(Chosen(t), h[t \ {Chosen(t)}])
IsSetRun(h, base, S) == h = [t \in SUBSET S |-> SetRunAt(h, base, t)]

LEMMA WithoutChosen ==
  ASSUME NEW S, IsFiniteSet(S), NEW t \in SUBSET S, t # {}
  PROVE  /\ t \ {Chosen(t)} \in SUBSET S /\ Cardinality(t) \in Nat
         /\ Cardinality(t \ {Chosen(t)}) = Cardinality(t) - 1 /\ Cardinality(t) # 0
<1>1. IsFiniteSet(t) /\ Chosen(t) \in t
  BY FS_Subset DEF Chosen
<1>2. QED BY <1>1, FS_RemoveElement, FS_CardinalityType, FS_EmptySet

\* Induction over the subsets of a finite set.
LEMMA SubsetInduct ==
  ASSUME NEW S, IsFiniteSet(S), NEW T, {} \in T,
         \A t \in SUBSET S : t # {} /\ t \ {Chosen(t)} \in T => t \in T
  PROVE  SUBSET S \subseteq T
<1> DEFINE N == {n \in Nat : \A t \in SUBSET S : Cardinality(t) = n => t \in T}
<1>1. 0 \in N
  <2>1. ASSUME NEW t \in SUBSET S, Cardinality(t) = 0 PROVE t \in T
    <3>1. t = {}
      BY <2>1, FS_Subset, FS_EmptySet
    <3>2. QED BY <3>1
  <2>2. QED BY <2>1
<1>2. ASSUME NEW n \in Nat, n \in N PROVE n + 1 \in N
  <2> SUFFICES ASSUME NEW t \in SUBSET S, Cardinality(t) = n + 1 PROVE t \in T
    OBVIOUS
  <2>1. t # {}
    BY FS_EmptySet
  <2>2. t \ {Chosen(t)} \in SUBSET S /\ Cardinality(t \ {Chosen(t)}) = n
    BY <2>1, WithoutChosen
  <2>3. t \ {Chosen(t)} \in T
    BY <1>2, <2>2
  <2>4. QED BY <2>1, <2>3
<1> HIDE DEF N
<1>3. Nat \subseteq N
  BY <1>1, <1>2, NatInduct
<1>4. ASSUME NEW t \in SUBSET S PROVE t \in T
  <2>1. Cardinality(t) \in Nat
    BY FS_Subset, FS_CardinalityType
  <2>2. QED BY <2>1, <1>3 DEF N
<1>5. QED BY <1>4

\* There is a recursive function, for every finite set.
LEMMA SetRunExists ==
  ASSUME NEW base, NEW S, IsFiniteSet(S)
  PROVE  \E h : IsSetRun(h, base, S)
<1> DEFINE Upto(h, n) == /\ h = [t \in SUBSET S |-> h[t]]
                         /\ \A t \in SUBSET S : Cardinality(t) <= n => h[t] = SetRunAt(h, base, t)
           N == {n \in Nat : \E h : Upto(h, n)}
<1>1. 0 \in N
  <2> DEFINE h == [t \in SUBSET S |-> base]
  <2>1. ASSUME NEW t \in SUBSET S, Cardinality(t) <= 0 PROVE h[t] = SetRunAt(h, base, t)
    <3>1. t = {}
      <4>1. SUFFICES ASSUME t # {} PROVE FALSE
        OBVIOUS
      <4>2. Cardinality(t) \in Nat /\ Cardinality(t) # 0
        BY <4>1, WithoutChosen
      <4>3. QED BY <2>1, <4>2
    <3>2. QED BY <3>1 DEF SetRunAt
  <2>2. Upto(h, 0)
    BY <2>1
  <2> HIDE DEF h, Upto
  <2>3. QED BY <2>2
<1>2. ASSUME NEW n \in Nat, n \in N PROVE n + 1 \in N
  <2>1. PICK h : Upto(h, n)
    BY <1>2
  <2> DEFINE k == [t \in SUBSET S |-> IF Cardinality(t) = n + 1 THEN SetRunAt(h, base, t) ELSE h[t]]
  <2>2. ASSUME NEW t \in SUBSET S, Cardinality(t) <= n + 1 PROVE k[t] = SetRunAt(k, base, t)
    <3>1. Cardinality(t) \in Nat
      BY FS_Subset, FS_CardinalityType
    <3>2. k[t] = SetRunAt(h, base, t)
      <4>1. CASE Cardinality(t) = n + 1
        BY <4>1
      <4>2. CASE Cardinality(t) # n + 1
        <5>1. k[t] = h[t]
          BY <4>2
        <5>2. Cardinality(t) <= n
          BY <2>2, <3>1, <4>2
        <5> HIDE DEF k
        <5>3. QED BY <2>1, <5>1, <5>2
      <4>3. QED BY <4>1, <4>2
    <3>3. SetRunAt(h, base, t) = SetRunAt(k, base, t)
      <4>1. CASE t = {}
        BY <4>1 DEF SetRunAt
      <4>2. CASE t # {}
        <5> DEFINE r == t \ {Chosen(t)}
        <5>1. r \in SUBSET S /\ Cardinality(r) # n + 1
          BY <2>2, <3>1, <4>2, WithoutChosen
        <5>2. k[r] = h[r]
          <6> HIDE DEF r
          <6>1. QED BY <5>1
        <5> HIDE DEF k
        <5>3. QED BY <4>2, <5>2 DEF SetRunAt
      <4>3. QED BY <4>1, <4>2
    <3>4. QED BY <3>2, <3>3
  <2>3. k = [t \in SUBSET S |-> k[t]]
    OBVIOUS
  <2> HIDE DEF k
  <2>4. Upto(k, n + 1)
    BY <2>2, <2>3
  <2> HIDE DEF Upto
  <2>5. QED BY <2>4
<1> HIDE DEF N
<1>3. Nat \subseteq N
  BY <1>1, <1>2, NatInduct
<1>4. Cardinality(S) \in Nat /\ \A t \in SUBSET S : Cardinality(t) <= Cardinality(S)
  BY FS_Subset, FS_CardinalityType
<1>5. PICK h : Upto(h, Cardinality(S))
  BY <1>3, <1>4 DEF N
<1>6. h = [t \in SUBSET S |-> SetRunAt(h, base, t)]
  BY <1>4, <1>5
<1>7. QED BY <1>6 DEF IsSetRun

\* A fold over a set is the value of such a function at the whole set.
Follows(h, base, S) ==
    /\ h[{}] = base
    /\ \A t \in SUBSET S : t # {} => h[t] = op(Chosen(t), h[t \ {Chosen(t)}])
LEMMA FoldAllRun ==
  ASSUME NEW base, NEW S, IsFiniteSet(S)
  PROVE  \E h : FoldAll(base, S) = h[S] /\ Follows(h, base, S)
<1> DEFINE h == CHOOSE h : IsSetRun(h, base, S)
<1>1. IsSetRun(h, base, S)
  BY SetRunExists
<1>2. FoldAll(base, S) = h[S]
  BY DEF FoldAll, FoldSet, MapThenFoldSet, IsSetRun, SetRunAt, Chosen
<1> HIDE DEF h
<1>3. \A t \in SUBSET S : h[t] = SetRunAt(h, base, t)
  BY <1>1 DEF IsSetRun
<1>4. Follows(h, base, S)
  BY <1>3 DEF SetRunAt, Follows
<1>5. QED BY <1>2, <1>4
=============================================================================
