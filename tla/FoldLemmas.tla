----------------------------- MODULE FoldLemmas -----------------------------
(***************************************************************************)
(* What proofs about loops need: the least number of a set, from which     *)
(* every induction below is made, and the folds of the community modules.  *)
(*                                                                         *)
(* A fold is a function of the subsets s of the set that is folded: base   *)
(* for the empty one, and otherwise one element c[s] of s and the fold of  *)
(* the rest, put together by G.  The theorems of the library on recursive  *)
(* definitions take operators for c and G; here they are functions.        *)
(***************************************************************************)
EXTENDS Naturals, FiniteSets, FiniteSetsExt, FiniteSetTheorems, WellFoundedInduction, TLAPS

(***************************************************************************)
(* Numbers                                                                 *)
(***************************************************************************)

\* Every nonempty set of numbers has a least one.
LEMMA LeastNumber ==
  ASSUME NEW S \in SUBSET Nat, S # {}
  PROVE  \E x \in S : \A y \in S : x <= y
<1> DEFINE R == {ss \in Nat \X Nat : ss[1] < ss[2]}
<1>1. IsWellFoundedOn(R, Nat)
  BY NatLessThanWellFounded DEF OpToRel
<1>2. PICK x \in S : \A y \in S : ~(<<y, x>> \in R)
  <2> HIDE DEF R
  <2> QED
    BY <1>1, WFMin
<1>3. \A y \in S : x <= y
  <2> SUFFICES ASSUME NEW y \in S PROVE x <= y
    OBVIOUS
  <2>1. x \in Nat /\ y \in Nat /\ <<y, x>> \in Nat \X Nat
    OBVIOUS
  <2>2. ~(<<y, x>>[1] < <<y, x>>[2])
    BY <1>2, <2>1
  <2> QED
    BY <2>1, <2>2
<1> QED
  BY <1>3

\* Induction: what holds at 0 and is passed on holds everywhere.
LEMMA Induction ==
  ASSUME NEW Holds \in SUBSET Nat, 0 \in Holds, \A n \in Nat : n \in Holds => n + 1 \in Holds
  PROVE  Holds = Nat
<1>1. SUFFICES ASSUME Nat \ Holds # {} PROVE FALSE
  OBVIOUS
<1>2. PICK x \in Nat \ Holds : \A y \in Nat \ Holds : x <= y
  BY <1>1, LeastNumber
<1>3. x # 0 /\ x - 1 \in Nat
  BY <1>2
<1>4. x - 1 \in Holds
  BY <1>2, <1>3
<1> QED
  BY <1>2, <1>3, <1>4

\* Min of the community module picks the least element.
LEMMA MinIsLeast ==
  ASSUME NEW S \in SUBSET Nat, S # {}
  PROVE  Min(S) \in S /\ \A y \in S : Min(S) <= y
  BY LeastNumber DEF Min

\* Max of the community module picks the greatest element of a set that has a bound.
LEMMA MaxIsGreatest ==
  ASSUME NEW S \in SUBSET Nat, S # {}, NEW b \in Nat, \A x \in S : x <= b
  PROVE  Max(S) \in S /\ \A y \in S : y <= Max(S)
<1> DEFINE U == {n \in Nat : \A x \in S : x <= n}
<1>1. PICK n \in U : \A u \in U : n <= u
  <2>1. b \in U
    OBVIOUS
  <2> QED
    BY <2>1, LeastNumber
<1>2. n \in S
  <2>1. SUFFICES ASSUME n \notin S PROVE FALSE
    OBVIOUS
  <2>2. PICK x \in S : TRUE
    OBVIOUS
  <2>3. \A y \in S : y < n
    BY <1>1, <2>1
  <2>4. n - 1 \in U
    BY <2>2, <2>3
  <2> QED
    BY <1>1, <2>4
<1>3. \A y \in S : n >= y
  BY <1>1
<1> QED
  BY <1>2, <1>3 DEF Max

\* The smaller of two numbers, as an index is capped at a length.
LEMMA MinOfTwo ==
  ASSUME NEW a \in Nat, NEW b \in Nat
  PROVE  Min({a, b}) = IF a <= b THEN a ELSE b
<1>1. Min({a, b}) \in {a, b} /\ \A y \in {a, b} : Min({a, b}) <= y
  BY MinIsLeast
<1> QED
  BY <1>1

\* A maximum may be taken in two steps.
LEMMA MaxInSteps ==
  ASSUME NEW S \in SUBSET Nat, S # {}, NEW T \in SUBSET Nat, NEW b \in Nat,
         \A x \in S \cup T : x <= b
  PROVE  Max({Max(S)} \cup T) = Max(S \cup T)
<1>1. Max(S) \in S /\ \A y \in S : y <= Max(S)
  BY MaxIsGreatest
<1> DEFINE U == {Max(S)} \cup T
           W == S \cup T
<1>2. Max(U) \in U /\ \A y \in U : y <= Max(U)
  <2>1. U \in SUBSET Nat /\ U # {} /\ \A x \in U : x <= b
    BY <1>1
  <2> HIDE DEF U
  <2> QED
    BY <2>1, MaxIsGreatest
<1>3. Max(W) \in W /\ \A y \in W : y <= Max(W)
  <2>1. W \in SUBSET Nat /\ W # {} /\ \A x \in W : x <= b
    OBVIOUS
  <2> HIDE DEF W
  <2> QED
    BY <2>1, MaxIsGreatest
<1>4. Max(U) <= Max(W)
  BY <1>1, <1>2, <1>3
<1>5. Max(W) <= Max(U)
  <2>1. CASE Max(W) \in T
    BY <1>2, <2>1
  <2>2. CASE Max(W) \in S
    <3>1. Max(W) <= Max(S) /\ Max(S) <= Max(U)
      BY <1>1, <1>2, <2>2
    <3>2. Max(W) \in Nat /\ Max(S) \in Nat /\ Max(U) \in Nat
      BY <1>1, <1>2, <2>2
    <3> HIDE DEF U, W
    <3> QED
      BY <3>1, <3>2
  <2> QED
    BY <1>3, <2>1, <2>2
<1>6. Max(U) \in Nat /\ Max(W) \in Nat
  BY <1>1, <1>2, <1>3
<1> HIDE DEF U, W
<1>7. Max(U) = Max(W)
  BY <1>4, <1>5, <1>6
<1> QED
  BY <1>7 DEF U, W

\* A finite set of numbers has a bound.
LEMMA FiniteIsBounded ==
  ASSUME NEW S \in SUBSET Nat, IsFiniteSet(S)
  PROVE  \E b \in Nat : \A x \in S : x <= b
<1> DEFINE Bounded(T) == \E b \in Nat : \A x \in T : x <= b
           Holds == {n \in Nat : \A T \in SUBSET S : Cardinality(T) = n => Bounded(T)}
<1>1. \A T \in SUBSET S : IsFiniteSet(T) /\ Cardinality(T) \in Nat /\ (Cardinality(T) = 0 <=> T = {})
  BY FS_Subset, FS_CardinalityType, FS_EmptySet
<1>2. 0 \in Holds
  BY <1>1
<1>3. ASSUME NEW n \in Nat, n \in Holds PROVE n + 1 \in Holds
  <2> SUFFICES ASSUME NEW T \in SUBSET S, Cardinality(T) = n + 1 PROVE Bounded(T)
    OBVIOUS
  <2>1. PICK x \in T : TRUE
    BY <1>1
  <2>2. T \ {x} \in SUBSET S /\ Cardinality(T \ {x}) = n
    <3>1. IsFiniteSet(T)
      BY <1>1
    <3>2. Cardinality(T \ {x}) = Cardinality(T) - 1
      BY <2>1, <3>1, FS_RemoveElement
    <3> QED
      BY <3>2
  <2>3. PICK b \in Nat : \A y \in T \ {x} : y <= b
    BY <1>3, <2>2
  <2>4. x \in Nat /\ b + x \in Nat /\ \A y \in T : y <= b + x
    BY <2>1, <2>3
  <2> QED
    BY <2>4
<1>4. Holds = Nat
  <2> HIDE DEF Holds
  <2>1. Holds \in SUBSET Nat
    BY DEF Holds
  <2> QED
    BY <1>2, <1>3, <2>1, Induction
<1> QED
  BY <1>1, <1>4

\* A function takes finitely many values on a finite set.
LEMMA FiniteImage ==
  ASSUME NEW D, IsFiniteSet(D), NEW T, NEW f \in [D -> T]
  PROVE  IsFiniteSet({f[x] : x \in D})
<1> DEFINE I == {f[x] : x \in D}
<1>1. f \in [D -> I] /\ \A y \in I : \E x \in D : f[x] = y
  OBVIOUS
<1>2. f \in Surjection(D, I)
  <2> HIDE DEF I
  <2> QED
    BY <1>1 DEF Surjection
<1> HIDE DEF I
<1>3. IsFiniteSet(I)
  BY <1>2, FS_Surjection
<1> QED
  BY <1>3 DEF I

(***************************************************************************)
(* Folds over sets                                                         *)
(***************************************************************************)

\* The recursion of MapThenFoldSet, over the subsets of S.
IsFold(it, S, c, base, G) ==
  it = [s \in SUBSET S |-> IF s = {} THEN base ELSE G[c[s]][it[s \ {c[s]}]]]

PicksFrom(c, S) == \A s \in SUBSET S : s # {} => c[s] \in s

HasFold(S, V, c, base, G) == \E it \in [SUBSET S -> V] : IsFold(it, S, c, base, G)

\* A finite set has a fold: the recursion defines a function.
LEMMA FoldExists ==
  ASSUME NEW S, IsFiniteSet(S), NEW V, NEW base \in V, NEW c, PicksFrom(c, S),
         NEW G \in [S -> [V -> V]]
  PROVE  HasFold(S, V, c, base, G)
<1> DEFINE Small(n) == {s \in SUBSET S : Cardinality(s) <= n}
           Step(g, s) == IF s = {} THEN base ELSE G[c[s]][g[s \ {c[s]}]]
           Partial(n, g) == g \in [Small(n) -> V] /\ \A s \in Small(n) : g[s] = Step(g, s)
           Holds == {n \in Nat : \E g : Partial(n, g)}
<1> USE DEF PicksFrom
<1>1. \A s \in SUBSET S : /\ IsFiniteSet(s) /\ Cardinality(s) \in Nat
                          /\ Cardinality(s) <= Cardinality(S)
                          /\ Cardinality(s) = 0 <=> s = {}
  BY FS_Subset, FS_CardinalityType, FS_EmptySet
<1>2. \A s \in SUBSET S : s # {} =>
        s \ {c[s]} \in SUBSET S /\ Cardinality(s \ {c[s]}) = Cardinality(s) - 1
  BY <1>1, FS_RemoveElement
<1>3. 0 \in Holds
  <2> DEFINE g == [s \in Small(0) |-> base]
  <2>1. \A s \in Small(0) : s = {}
    BY <1>1
  <2>2. Partial(0, g)
    BY <2>1
  <2> QED
    BY <2>2
<1>4. ASSUME NEW n \in Nat, n \in Holds PROVE n + 1 \in Holds
  <2>1. PICK g : Partial(n, g)
    BY <1>4
  <2> DEFINE h == [s \in Small(n + 1) |-> Step(g, s)]
  <2>2. ASSUME NEW s \in Small(n)
        PROVE  s \in Small(n + 1) /\ h[s] = g[s]
    <3>1. s \in Small(n + 1)
      BY <1>1
    <3>2. h[s] = Step(g, s)
      <4> HIDE DEF Step
      <4> QED
        BY <3>1
    <3> QED
      BY <2>1, <3>1, <3>2
  <2>3. ASSUME NEW s \in Small(n + 1)
        PROVE  h[s] \in V /\ h[s] = Step(h, s)
    <3>1. CASE s = {}
      BY <3>1
    <3>2. CASE s # {}
      <4>1. s \ {c[s]} \in Small(n)
        BY <1>1, <1>2, <3>2
      <4>2. g[s \ {c[s]}] \in V /\ h[s \ {c[s]}] = g[s \ {c[s]}]
        BY <2>1, <2>2, <4>1
      <4>3. G[c[s]][g[s \ {c[s]}]] \in V
        <5>1. c[s] \in S
          BY <3>2
        <5>2. G[c[s]] \in [V -> V]
          BY <5>1
        <5> QED
          BY <4>2, <5>2
      <4>4. h[s] = G[c[s]][g[s \ {c[s]}]]
        BY <3>2
      <4>5. Step(h, s) = G[c[s]][h[s \ {c[s]}]]
        BY <3>2
      <4> QED
        BY <4>2, <4>3, <4>4, <4>5
    <3> QED
      BY <3>1, <3>2
  <2>4. Partial(n + 1, h)
    <3>1. h \in [Small(n + 1) -> V]
      BY <2>3
    <3> QED
      BY <2>3, <3>1
  <2>5. \E f : Partial(n + 1, f)
    <3> HIDE DEF Partial, h
    <3> QED
      BY <2>4
  <2> QED
    <3> HIDE DEF Partial
    <3> QED
      BY <2>5
<1>5. Holds = Nat
  <2> HIDE DEF Holds
  <2>1. Holds \in SUBSET Nat
    BY DEF Holds
  <2> QED
    BY <1>3, <1>4, <2>1, Induction
<1>6. PICK g : Partial(Cardinality(S), g)
  BY <1>1, <1>5
<1>7. Small(Cardinality(S)) = SUBSET S
  BY <1>1
<1>8. g \in [SUBSET S -> V] /\ \A s \in SUBSET S : g[s] = Step(g, s)
  BY <1>6, <1>7
<1>9. g = [s \in SUBSET S |-> Step(g, s)]
  BY <1>8
<1> QED
  BY <1>8, <1>9 DEF IsFold, HasFold

(***************************************************************************)
(* Sums                                                                    *)
(***************************************************************************)

\* w[x] cells for each x of S: the sum of w over S, counted instead of folded, so
\* that the order of summation is out of the way.
Cells(w, S) == {cell \in S \X Nat : cell[2] < w[cell[1]]}

\* One element fills as many cells as its number.
LEMMA CellsOfOne ==
  ASSUME NEW w, NEW x, w[x] \in Nat
  PROVE  IsFiniteSet(Cells(w, {x})) /\ Cardinality(Cells(w, {x})) = w[x]
<1> DEFINE I == 0 .. w[x] - 1
           f == [i \in I |-> <<x, i>>]
<1>1. IsFiniteSet(I) /\ Cardinality(I) = w[x]
  <2>1. 0 \in Int /\ w[x] - 1 \in Int
    OBVIOUS
  <2>2. IsFiniteSet(I) /\ Cardinality(I) = IF 0 > w[x] - 1 THEN 0 ELSE w[x] - 1 - 0 + 1
    BY <2>1, FS_Interval
  <2> QED
    BY <2>2
<1>2. f \in Bijection(I, Cells(w, {x}))
  <2>1. f \in [I -> Cells(w, {x})]
    BY DEF Cells
  <2>2. \A i, j \in I : f[i] = f[j] => i = j
    OBVIOUS
  <2>3. ASSUME NEW cell \in Cells(w, {x})
        PROVE  \E i \in I : f[i] = cell
    <3>1. cell[2] \in I /\ cell = <<x, cell[2]>>
      BY DEF Cells
    <3> QED
      BY <3>1
  <2> HIDE DEF f, I
  <2> QED
    BY <2>1, <2>2, <2>3 DEF Bijection, Injection, Surjection, IsInjective
<1>3. ExistsBijection(I, Cells(w, {x}))
  BY <1>2 DEF ExistsBijection
<1> QED
  BY <1>1, <1>3, FS_Bijection

\* Cells add up over sets that do not meet.
LEMMA CellsAdd ==
  ASSUME NEW w, NEW S, NEW T, S \cap T = {},
         IsFiniteSet(Cells(w, S)), IsFiniteSet(Cells(w, T))
  PROVE  /\ IsFiniteSet(Cells(w, S \cup T))
         /\ Cardinality(Cells(w, S \cup T)) = Cardinality(Cells(w, S)) + Cardinality(Cells(w, T))
<1>1. Cells(w, S \cup T) = Cells(w, S) \cup Cells(w, T)
  BY DEF Cells
<1>2. Cells(w, S) \cap Cells(w, T) = {}
  BY DEF Cells
<1>3. Cardinality(Cells(w, S)) \in Nat /\ Cardinality(Cells(w, T)) \in Nat
  BY FS_CardinalityType
<1>4. /\ IsFiniteSet(Cells(w, S) \cup Cells(w, T))
      /\ Cardinality(Cells(w, S) \cup Cells(w, T)) =
           Cardinality(Cells(w, S)) + Cardinality(Cells(w, T)) - Cardinality(Cells(w, S) \cap Cells(w, T))
  BY FS_Union
<1>5. Cardinality(Cells(w, S) \cap Cells(w, T)) = 0
  BY <1>2, FS_EmptySet
<1> QED
  <2> DEFINE a == Cardinality(Cells(w, S))
             b == Cardinality(Cells(w, T))
             ab == Cardinality(Cells(w, S \cup T))
  <2>1. IsFiniteSet(Cells(w, S \cup T))
    BY <1>1, <1>4
  <2>2. ab = a + b - 0
    BY <1>1, <1>4, <1>5
  <2>3. ab = a + b
    <3> HIDE DEF a, b, ab
    <3>1. a \in Nat /\ b \in Nat
      BY <1>3 DEF a, b
    <3> QED
      BY <2>2, <3>1
  <2> QED
    BY <2>1, <2>3

Counts(w, S) == \A x \in S : w[x] \in Nat

Adds(it, w, S, c) ==
  \A s \in SUBSET S : it[s] = IF s = {} THEN 0 ELSE w[c[s]] + it[s \ {c[s]}]

\* A fold that adds w[x] for each x, whichever it takes first, counts the cells.
LEMMA SumFold ==
  ASSUME NEW S, IsFiniteSet(S), NEW w, Counts(w, S), NEW c, PicksFrom(c, S),
         NEW it, Adds(it, w, S, c)
  PROVE  \A s \in SUBSET S : IsFiniteSet(Cells(w, s)) /\ it[s] = Cardinality(Cells(w, s))
<1> DEFINE Good(s) == IsFiniteSet(Cells(w, s)) /\ it[s] = Cardinality(Cells(w, s))
           Holds == {n \in Nat : \A s \in SUBSET S : Cardinality(s) = n => Good(s)}
<1> USE DEF PicksFrom, Counts, Adds
<1>1. \A s \in SUBSET S : IsFiniteSet(s) /\ Cardinality(s) \in Nat /\ (Cardinality(s) = 0 <=> s = {})
  BY FS_Subset, FS_CardinalityType, FS_EmptySet
<1>2. 0 \in Holds
  <2>1. Cells(w, {}) = {}
    BY DEF Cells
  <2>2. Good({})
    BY <2>1, FS_EmptySet
  <2> QED
    BY <1>1, <2>2
<1>3. ASSUME NEW n \in Nat, n \in Holds PROVE n + 1 \in Holds
  <2> SUFFICES ASSUME NEW s \in SUBSET S, Cardinality(s) = n + 1 PROVE Good(s)
    OBVIOUS
  <2> DEFINE x == c[s]
  <2>1. s # {} /\ x \in s
    BY <1>1
  <2>2. s \ {x} \in SUBSET S /\ Cardinality(s \ {x}) = n
    BY <1>1, <2>1, FS_RemoveElement
  <2>3. Good(s \ {x})
    BY <1>3, <2>2
  <2>4. IsFiniteSet(Cells(w, {x})) /\ Cardinality(Cells(w, {x})) = w[x]
    BY <2>1, CellsOfOne
  <2>5. /\ IsFiniteSet(Cells(w, (s \ {x}) \cup {x}))
        /\ Cardinality(Cells(w, (s \ {x}) \cup {x})) = Cardinality(Cells(w, s \ {x})) + w[x]
    <3>1. (s \ {x}) \cap {x} = {}
      OBVIOUS
    <3> HIDE DEF x
    <3> QED
      BY <2>3, <2>4, <3>1, CellsAdd
  <2>6. Cells(w, (s \ {x}) \cup {x}) = Cells(w, s)
    <3>1. (s \ {x}) \cup {x} = s
      BY <2>1
    <3> QED
      BY <3>1
  <2>7. it[s] = w[x] + it[s \ {x}]
    BY <2>1
  <2>8. w[x] \in Nat /\ Cardinality(Cells(w, s \ {x})) \in Nat
    BY <2>1, <2>3, FS_CardinalityType
  <2> QED
    <3> HIDE DEF x
    <3> QED
      BY <2>3, <2>5, <2>6, <2>7, <2>8
<1>4. Holds = Nat
  <2> HIDE DEF Holds
  <2>1. Holds \in SUBSET Nat
    BY DEF Holds
  <2> QED
    BY <1>2, <1>3, <2>1, Induction
<1> QED
  BY <1>1, <1>4

\* The recursion of MapThenSumSet.
IsSum(it, w, S) ==
  it = [s \in SUBSET S |->
          IF s = {} THEN 0
          ELSE w[CHOOSE x \in s : TRUE] + it[s \ {CHOOSE x \in s : TRUE}]]

\* The fold of a sum exists, and whatever CHOOSE takes first, it counts the cells.
LEMMA SumExists ==
  ASSUME NEW S, IsFiniteSet(S), NEW w, Counts(w, S)
  PROVE  \E it : IsSum(it, w, S)
<1> DEFINE c == [s \in SUBSET S |-> CHOOSE x \in s : TRUE]
           G == [x \in S |-> [n \in Nat |-> w[x] + n]]
<1>1. \A s \in SUBSET S : c[s] = CHOOSE x \in s : TRUE
  OBVIOUS
<1>2. PicksFrom(c, S)
  BY DEF PicksFrom
<1>3. G \in [S -> [Nat -> Nat]]
  BY DEF Counts
<1>4. PICK it \in [SUBSET S -> Nat] : IsFold(it, S, c, 0, G)
  <2>1. 0 \in Nat
    OBVIOUS
  <2> HIDE DEF c, G
  <2> QED
    BY <1>2, <1>3, <2>1, FoldExists DEF HasFold
<1>5. ASSUME NEW s \in SUBSET S, s # {}
      PROVE  G[c[s]][it[s \ {c[s]}]] = w[c[s]] + it[s \ {c[s]}]
  <2>1. c[s] \in S /\ it[s \ {c[s]}] \in Nat
    <3> HIDE DEF c
    <3> QED
      BY <1>2, <1>5 DEF PicksFrom
  <2> HIDE DEF c
  <2> QED
    BY <2>1
<1>6. it = [s \in SUBSET S |-> IF s = {} THEN 0 ELSE w[c[s]] + it[s \ {c[s]}]]
  <2> HIDE DEF c, G
  <2> QED
    BY <1>4, <1>5 DEF IsFold
<1>7. IsSum(it, w, S)
  <2> HIDE DEF c
  <2> QED
    BY <1>1, <1>6 DEF IsSum
<1> QED
  BY <1>7

\* A sum taken by the fold of the community module counts the cells.
LEMMA SumCounts ==
  ASSUME NEW S, IsFiniteSet(S), NEW w, Counts(w, S), NEW it, IsSum(it, w, S)
  PROVE  IsFiniteSet(Cells(w, S)) /\ it[S] = Cardinality(Cells(w, S))
<1> DEFINE c == [s \in SUBSET S |-> CHOOSE x \in s : TRUE]
<1>1. PicksFrom(c, S)
  BY DEF PicksFrom
<1>2. Adds(it, w, S, c)
  BY DEF IsSum, Adds
<1>3. S \in SUBSET S
  OBVIOUS
<1>4. \A s \in SUBSET S : IsFiniteSet(Cells(w, s)) /\ it[s] = Cardinality(Cells(w, s))
  <2> HIDE DEF c
  <2> QED
    BY <1>1, <1>2, SumFold
<1> QED
  BY <1>3, <1>4

(***************************************************************************)
(* Folds over sequences                                                    *)
(***************************************************************************)

\* FoldLeft takes the indices of a sequence from the highest down.
LEMMA PrefixMax ==
  ASSUME NEW k \in Nat
  PROVE  1 .. (k + 1) # {} /\ Max(1 .. (k + 1)) = k + 1 /\ (1 .. (k + 1)) \ {k + 1} = 1 .. k
<1>1. k + 1 \in 1 .. (k + 1) /\ 1 .. (k + 1) \in SUBSET Nat /\ \A i \in 1 .. (k + 1) : i <= k + 1
  OBVIOUS
<1>2. Max(1 .. (k + 1)) \in 1 .. (k + 1) /\ \A i \in 1 .. (k + 1) : i <= Max(1 .. (k + 1))
  BY <1>1, MaxIsGreatest
<1>3. Max(1 .. (k + 1)) = k + 1
  BY <1>1, <1>2
<1> QED
  BY <1>1, <1>3

MaxOf(n) == [s \in SUBSET (1 .. n) |-> Max(s)]

\* The index that FoldLeft takes is one of those that are left.
LEMMA MaxOfPicks ==
  ASSUME NEW n \in Nat, NEW s \in SUBSET (1 .. n), s # {}
  PROVE  MaxOf(n)[s] = Max(s) /\ Max(s) \in s
<1>1. s \in SUBSET Nat /\ \A x \in s : x <= n
  OBVIOUS
<1> QED
  BY <1>1, MaxIsGreatest DEF MaxOf

\* A finite sequence has a left fold.
LEMMA LeftFoldExists ==
  ASSUME NEW n \in Nat, NEW V, NEW base \in V, NEW G \in [1 .. n -> [V -> V]]
  PROVE  HasFold(1 .. n, V, MaxOf(n), base, G)
<1>1. IsFiniteSet(1 .. n)
  BY FS_Interval
<1>2. PicksFrom(MaxOf(n), 1 .. n)
  BY MaxOfPicks DEF PicksFrom
<1> QED
  BY <1>1, <1>2, FoldExists
=============================================================================
