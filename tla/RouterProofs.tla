---------------------------- MODULE RouterProofs ----------------------------
(***************************************************************************)
(* Theorems of Router: the weighted choice, for every pool and every set   *)
(* of members that is left of it.                                          *)
(***************************************************************************)
EXTENDS Router, FoldLemmas, TLAPS

(***************************************************************************)
(* The walk ends at a member                                               *)
(***************************************************************************)

\* Whatever number is drawn, the walk over the running sums ends at one of the
\* members it was given.
LEMMA WeightedPickHealthy ==
  ASSUME NEW p, NEW H \in SUBSET Nat, H # {}, NEW n
  PROVE  WeightedPick(p, H, n) \in H
<1> DEFINE beyond == {k \in H : n < Acc(p, H, k)}
<1> HIDE DEF beyond
<1>1. beyond \in SUBSET H
  BY DEF beyond
<1>2. CASE beyond = {}
  BY <1>2, MinIsLeast DEF WeightedPick, beyond
<1>3. CASE beyond # {}
  <2>1. Min(beyond) \in beyond
    BY <1>1, <1>3, MinIsLeast
  <2> QED
    BY <2>1, <1>1, <1>3 DEF WeightedPick, beyond
<1> QED
  BY <1>2, <1>3

(***************************************************************************)
(* Running sums                                                            *)
(***************************************************************************)

Weights(pool, H) == [k \in H |-> pool[k].weight]

\* The positions of H up to k.
UpTo(H, k) == {j \in H : j <= k}

\* Positive weights are added as they are, in Total and in Acc.
LEMMA SumIsCells ==
  ASSUME NEW pool, NEW S, IsFiniteSet(S), \A k \in S : pool[k].weight \in Nat \ {0}
  PROVE  /\ IsFiniteSet(Cells(Weights(pool, S), S))
         /\ MapThenSumSet(LAMBDA k : pool[k].weight, S) = Cardinality(Cells(Weights(pool, S), S))
         /\ MapThenSumSet(LAMBDA k : IF pool[k].weight = 0 THEN 1 ELSE pool[k].weight, S)
              = Cardinality(Cells(Weights(pool, S), S))
<1> DEFINE w == Weights(pool, S)
           Sum(it) == IsSum(it, w, S)
           Plain(it) == it = [s \in SUBSET S |->
                        IF s = {} THEN 0
                        ELSE pool[CHOOSE x \in s : TRUE].weight + it[s \ {CHOOSE x \in s : TRUE}]]
           Raised(it) == it = [s \in SUBSET S |->
                        IF s = {} THEN 0
                        ELSE (IF pool[CHOOSE x \in s : TRUE].weight = 0 THEN 1
                              ELSE pool[CHOOSE x \in s : TRUE].weight)
                             + it[s \ {CHOOSE x \in s : TRUE}]]
<1>1. \A k \in S : w[k] \in Nat /\ w[k] = pool[k].weight /\ pool[k].weight # 0
  BY DEF Weights
<1>2. \A s \in SUBSET S : s # {} => (CHOOSE x \in s : TRUE) \in S
  OBVIOUS
<1>3. PICK g : Sum(g)
  <2> HIDE DEF w
  <2> QED
    BY <1>1, SumExists DEF Counts
<1>4. ASSUME NEW it
      PROVE  (Plain(it) <=> Sum(it)) /\ (Raised(it) <=> Sum(it))
  <2> HIDE DEF w
  <2> QED
    BY <1>1, <1>2 DEF IsSum
<1>5. ASSUME NEW it, Sum(it)
      PROVE  IsFiniteSet(Cells(w, S)) /\ it[S] = Cardinality(Cells(w, S))
  <2> HIDE DEF w
  <2> QED
    BY <1>1, <1>5, SumCounts DEF Counts
<1>6. Sum(CHOOSE it : Plain(it)) /\ Sum(CHOOSE it : Raised(it))
  <2>1. Plain(g) /\ Raised(g)
    <3> HIDE DEF Plain, Raised, Sum
    <3> QED
      BY <1>3, <1>4
  <2>2. Plain(CHOOSE it : Plain(it)) /\ Raised(CHOOSE it : Raised(it))
    <3> HIDE DEF Plain, Raised, Sum
    <3> QED
      BY <2>1
  <2> HIDE DEF Plain, Raised, Sum
  <2> QED
    BY <1>4, <2>2
<1>7. /\ MapThenSumSet(LAMBDA k : pool[k].weight, S) = (CHOOSE it : Plain(it))[S]
      /\ MapThenSumSet(LAMBDA k : IF pool[k].weight = 0 THEN 1 ELSE pool[k].weight, S)
           = (CHOOSE it : Raised(it))[S]
  BY DEF MapThenSumSet, MapThenFoldSet
<1> QED
  <2> HIDE DEF Sum, Plain, Raised
  <2> QED
    BY <1>5, <1>6, <1>7

\* What the weights of the positions of T fill.
Filled(pool, T) == Cardinality(Cells(Weights(pool, T), T))

\* A finite part of the pool in which every weight is positive, as in a loaded one.
Positive(pool, H) == \A k \in H : pool[k].weight \in Nat \ {0}

\* More positions fill no less.
LEMMA FilledGrows ==
  ASSUME NEW pool, NEW S, IsFiniteSet(S), Positive(pool, S), NEW T \in SUBSET S
  PROVE  Filled(pool, S) \in Nat /\ Filled(pool, T) \in Nat /\ Filled(pool, T) <= Filled(pool, S)
<1>1. IsFiniteSet(Cells(Weights(pool, S), S))
  BY SumIsCells DEF Positive
<1>2. Cells(Weights(pool, T), T) \in SUBSET Cells(Weights(pool, S), S)
  BY DEF Cells, Weights
<1> QED
  BY <1>1, <1>2, FS_Subset, FS_CardinalityType DEF Filled

\* One more position fills its weight more.
LEMMA FilledAdds ==
  ASSUME NEW pool, NEW T, IsFiniteSet(T), NEW k, k \notin T, Positive(pool, T \cup {k})
  PROVE  Filled(pool, T \cup {k}) = Filled(pool, T) + pool[k].weight
<1> DEFINE S == T \cup {k}
           w == Weights(pool, S)
<1>1. IsFiniteSet(S)
  BY FS_AddElement
<1>2. w[k] = pool[k].weight /\ w[k] \in Nat
  BY DEF Weights, Positive
<1>3. Cells(w, T) = Cells(Weights(pool, T), T)
  BY DEF Cells, Weights
<1>4. IsFiniteSet(Cells(w, T))
  BY <1>3, SumIsCells DEF Positive
<1>5. IsFiniteSet(Cells(w, {k})) /\ Cardinality(Cells(w, {k})) = w[k]
  <2> HIDE DEF w
  <2> QED
    BY <1>2, CellsOfOne
<1>6. Cardinality(Cells(w, T \cup {k})) = Cardinality(Cells(w, T)) + Cardinality(Cells(w, {k}))
  <2>1. T \cap {k} = {}
    OBVIOUS
  <2> HIDE DEF w
  <2> QED
    BY <1>4, <1>5, <2>1, CellsAdd
<1> QED
  BY <1>2, <1>3, <1>5, <1>6 DEF Filled

\* Total and Acc, when no weight is zero.
LEMMA RunningSums ==
  ASSUME NEW pool, NEW H, H # {}, IsFiniteSet(H), Positive(pool, H)
  PROVE  /\ Total(pool, H) = Filled(pool, H)
         /\ \A k \in H : Acc(pool, H, k) = Filled(pool, UpTo(H, k))
<1>1. MapThenSumSet(LAMBDA k : pool[k].weight, H) = Filled(pool, H)
  BY SumIsCells DEF Positive, Filled
<1>2. Filled(pool, H) # 0
  <2>1. PICK k \in H : TRUE
    OBVIOUS
  <2>2. IsFiniteSet(H \ {k}) /\ (H \ {k}) \cup {k} = H /\ k \notin H \ {k}
    BY <2>1, FS_RemoveElement
  <2>3. Filled(pool, (H \ {k}) \cup {k}) = Filled(pool, H \ {k}) + pool[k].weight
    BY <2>2, FilledAdds
  <2>4. Filled(pool, H \ {k}) \in Nat /\ pool[k].weight \in Nat \ {0}
    BY <2>1, <2>2, FilledGrows DEF Positive
  <2>5. Filled(pool, (H \ {k}) \cup {k}) = Filled(pool, H)
    BY <2>2
  <2> QED
    BY <2>3, <2>4, <2>5
<1>3. Total(pool, H) = Filled(pool, H)
  BY <1>1, <1>2 DEF Total
<1>4. ASSUME NEW k \in H
      PROVE  Acc(pool, H, k) = Filled(pool, UpTo(H, k))
  <2> DEFINE T == UpTo(H, k)
  <2>1. T \in SUBSET H /\ Positive(pool, T)
    BY DEF UpTo, Positive
  <2>2. IsFiniteSet(T)
    BY <2>1, FS_Subset
  <2>3. MapThenSumSet(LAMBDA j : IF pool[j].weight = 0 THEN 1 ELSE pool[j].weight, T)
          = Filled(pool, T)
    <3> HIDE DEF T
    <3> QED
      BY <2>1, <2>2, SumIsCells DEF Positive, Filled
  <2> QED
    BY <2>3 DEF Acc, UpTo
<1> QED
  BY <1>3, <1>4

(***************************************************************************)
(* The shares                                                              *)
(***************************************************************************)

Drawn(pool, H, k) == {p \in 0 .. Total(pool, H) - 1 : WeightedPick(pool, H, p) = k}

\* The numbers that lead to position k are those from what the positions before it
\* fill up to what they fill with it.
LEMMA DrawnInterval ==
  ASSUME NEW pool, NEW n \in Nat, NEW H \in SUBSET (1 .. n), Positive(pool, H), NEW k \in H
  PROVE  Drawn(pool, H, k) =
           Filled(pool, UpTo(H, k) \ {k}) .. Filled(pool, UpTo(H, k)) - 1
<1> DEFINE A(j) == Filled(pool, UpTo(H, j))
           B == Filled(pool, UpTo(H, k) \ {k})
           beyond(p) == {j \in H : p < Acc(pool, H, j)}
<1>1. IsFiniteSet(H) /\ H # {} /\ H \in SUBSET Nat /\ \A j \in H : j <= n
  <2>1. IsFiniteSet(1 .. n)
    BY FS_Interval
  <2>2. IsFiniteSet(H)
    BY <2>1, FS_Subset
  <2> QED
    BY <2>2
<1>2. \A j \in H : Acc(pool, H, j) = A(j)
  BY <1>1, RunningSums
<1>3. Total(pool, H) = Filled(pool, H)
  BY <1>1, RunningSums
<1>4. ASSUME NEW S \in SUBSET H, NEW T \in SUBSET S
      PROVE  Filled(pool, S) \in Nat /\ Filled(pool, T) \in Nat /\ Filled(pool, T) <= Filled(pool, S)
  <2>1. IsFiniteSet(S) /\ Positive(pool, S)
    BY <1>1, FS_Subset DEF Positive
  <2> QED
    BY <2>1, FilledGrows
<1>5. \A j \in H : UpTo(H, j) \in SUBSET H /\ A(j) \in Nat /\ A(j) <= Filled(pool, H)
  <2>1. \A j \in H : UpTo(H, j) \in SUBSET H /\ H \in SUBSET H
    BY DEF UpTo
  <2> QED
    BY <1>4, <2>1
<1>6. B \in Nat /\ Filled(pool, H) \in Nat
  <2>1. UpTo(H, k) \ {k} \in SUBSET H /\ H \in SUBSET H
    BY DEF UpTo
  <2> QED
    BY <1>4, <2>1
<1>7. \A j \in H : j < k => A(j) <= B
  <2> SUFFICES ASSUME NEW j \in H, j < k PROVE A(j) <= B
    OBVIOUS
  <2>1. UpTo(H, k) \ {k} \in SUBSET H
    BY DEF UpTo
  <2>2. ASSUME NEW i \in UpTo(H, j) PROVE i \in UpTo(H, k) \ {k}
    <3>1. i \in Nat /\ j \in Nat /\ k \in Nat /\ i <= j /\ i \in H
      BY <1>1 DEF UpTo
    <3>2. i <= k /\ i # k
      BY <3>1
    <3> QED
      BY <3>1, <3>2 DEF UpTo
  <2>3. UpTo(H, j) \in SUBSET (UpTo(H, k) \ {k})
    BY <2>2
  <2> QED
    BY <1>4, <2>1, <2>3
<1>8. ASSUME NEW p \in B .. A(k) - 1
      PROVE  p \in Drawn(pool, H, k)
  <2>1. k \in beyond(p)
    BY <1>2, <1>5, <1>6
  <2>2. \A j \in beyond(p) : ~(j < k)
    BY <1>2, <1>5, <1>6, <1>7
  <2>3. Min(beyond(p)) = k
    <3>1. beyond(p) \in SUBSET Nat /\ beyond(p) # {}
      BY <1>1, <2>1
    <3>2. Min(beyond(p)) \in beyond(p) /\ Min(beyond(p)) <= k
      <4> HIDE DEF beyond
      <4> QED
        BY <2>1, <3>1, MinIsLeast
    <3>3. Min(beyond(p)) \in Nat /\ k \in Nat /\ ~(Min(beyond(p)) < k)
      <4> HIDE DEF beyond
      <4> QED
        BY <1>1, <2>2, <3>1, <3>2
    <3> HIDE DEF beyond
    <3> QED
      BY <3>2, <3>3
  <2>4. p \in 0 .. Total(pool, H) - 1
    BY <1>3, <1>5, <1>6
  <2> QED
    BY <2>1, <2>3, <2>4 DEF Drawn, WeightedPick
<1>9. ASSUME NEW p \in Drawn(pool, H, k)
      PROVE  p \in B .. A(k) - 1
  <2>1. p \in Nat /\ p < Filled(pool, H) /\ WeightedPick(pool, H, p) = k
    BY <1>3, <1>6 DEF Drawn
  <2>2. beyond(p) # {}
    <3>1. Max(H) \in H /\ \A j \in H : j <= Max(H)
      BY <1>1, MaxIsGreatest
    <3>2. UpTo(H, Max(H)) = H
      BY <3>1 DEF UpTo
    <3>3. Max(H) \in beyond(p)
      BY <1>2, <2>1, <3>1, <3>2
    <3> QED
      BY <3>3
  <2>3. k = Min(beyond(p))
    BY <2>1, <2>2 DEF WeightedPick
  <2>4. k \in beyond(p) /\ \A j \in beyond(p) : k <= j
    <3>1. beyond(p) \in SUBSET Nat
      BY <1>1
    <3> HIDE DEF beyond
    <3> QED
      BY <2>2, <2>3, <3>1, MinIsLeast
  <2>5. p < A(k)
    BY <1>2, <2>4
  <2>6. ASSUME p < B PROVE FALSE
    <3> DEFINE T == UpTo(H, k) \ {k}
    <3>1. T # {}
      <4>1. Filled(pool, {}) = 0
        BY FS_EmptySet DEF Filled, Cells
      <4> QED
        BY <2>1, <2>6, <4>1
    <3>2. T \in SUBSET Nat /\ \A j \in T : j <= k
      BY <1>1 DEF UpTo
    <3>3. Max(T) \in T /\ \A j \in T : j <= Max(T)
      <4> HIDE DEF T
      <4> QED
        BY <1>1, <3>1, <3>2, MaxIsGreatest
    <3>4. Max(T) \in H /\ Max(T) < k /\ UpTo(H, Max(T)) = T
      <4> DEFINE m == Max(T)
      <4>1. m \in H /\ m <= k /\ m # k
        BY <3>3 DEF UpTo
      <4>2. m \in Nat /\ k \in Nat
        BY <1>1, <4>1
      <4>3. ASSUME NEW j \in H PROVE j <= m <=> j \in T
        <5>1. j \in T <=> j <= k /\ j # k
          BY DEF UpTo
        <5>2. j \in T => j <= m
          BY <3>3
        <5>3. j \in Nat
          BY <1>1
        <5> HIDE DEF m, T
        <5> QED
          BY <4>1, <4>2, <5>1, <5>2, <5>3
      <4>4. T \in SUBSET H
        BY DEF UpTo
      <4>5. UpTo(H, m) = T
        <5> HIDE DEF m, T
        <5> QED
          BY <4>3, <4>4 DEF UpTo
      <4>6. m < k
        <5> HIDE DEF m
        <5> QED
          BY <4>1, <4>2
      <4> QED
        BY <4>1, <4>5, <4>6
    <3>5. Max(T) \in beyond(p)
      BY <1>2, <2>6, <3>4
    <3>6. k <= Max(T) /\ Max(T) \in Nat /\ k \in Nat
      <4> HIDE DEF beyond, T
      <4> QED
        BY <1>1, <2>4, <3>4, <3>5
    <3> HIDE DEF T
    <3> QED
      BY <3>4, <3>6
  <2> QED
    BY <1>5, <1>6, <2>1, <2>5, <2>6
<1> QED
  BY <1>8, <1>9

\* Of the numbers rand.Intn can draw, each member that is left gets as many as its
\* weight, whichever other members were filtered out.
THEOREM SharesAreWeights ==
  ASSUME NEW pool, NEW n \in Nat, NEW H \in SUBSET (1 .. n), Positive(pool, H), NEW k \in H
  PROVE  Cardinality(Drawn(pool, H, k)) = pool[k].weight
<1> DEFINE T == UpTo(H, k) \ {k}
<1>1. IsFiniteSet(T) /\ k \notin T /\ T \cup {k} = UpTo(H, k) /\ Positive(pool, T \cup {k})
  <2>1. T \in SUBSET (1 .. n) /\ UpTo(H, k) \in SUBSET H /\ k \in UpTo(H, k)
    <3>1. k \in Nat /\ k <= k
      OBVIOUS
    <3> QED
      BY <3>1 DEF UpTo
  <2>2. IsFiniteSet(T)
    <3>1. IsFiniteSet(1 .. n)
      BY FS_Interval
    <3> QED
      BY <2>1, <3>1, FS_Subset
  <2> QED
    BY <2>1, <2>2 DEF Positive
<1>2. Filled(pool, UpTo(H, k)) = Filled(pool, T) + pool[k].weight
  <2>1. Filled(pool, T \cup {k}) = Filled(pool, T) + pool[k].weight
    <3> HIDE DEF T
    <3> QED
      BY <1>1, FilledAdds
  <2> QED
    BY <1>1, <2>1
<1>3. Filled(pool, T) \in Nat /\ pool[k].weight \in Nat \ {0}
  <2>1. Positive(pool, T)
    BY <1>1 DEF Positive
  <2>2. T \in SUBSET T
    OBVIOUS
  <2> HIDE DEF T
  <2> QED
    BY <1>1, <2>1, <2>2, FilledGrows DEF Positive
<1>4. Cardinality(Filled(pool, T) .. Filled(pool, UpTo(H, k)) - 1) = pool[k].weight
  <2> DEFINE a == Filled(pool, T)
             b == Filled(pool, UpTo(H, k)) - 1
  <2>1. a \in Int /\ b \in Int /\ b = a + pool[k].weight - 1 /\ ~(a > b)
    BY <1>2, <1>3
  <2>2. Cardinality(a .. b) = b - a + 1
    <3> HIDE DEF a, b
    <3> QED
      BY <2>1, FS_Interval
  <2>3. b - a + 1 = pool[k].weight
    <3> HIDE DEF a, b
    <3> QED
      BY <1>3, <2>1
  <2> QED
    BY <2>2, <2>3
<1> QED
  BY <1>4, DrawnInterval
=============================================================================
