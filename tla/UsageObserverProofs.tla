------------------------- MODULE UsageObserverProofs -------------------------
(***************************************************************************)
(* Theorems of UsageObserver, for every value of its constants.            *)
(***************************************************************************)
EXTENDS UsageObserver, FoldLemmas, SequenceTheorems, TLAPS

(***************************************************************************)
(* Slices                                                                  *)
(***************************************************************************)

\* The part of w after its first a elements, up to the nth.
LEMMA Slice ==
  ASSUME NEW S, NEW w \in Seq(S), NEW n \in 0 .. Len(w), NEW a \in 0 .. n
  PROVE  /\ SubSeq(w, a + 1, n) \in Seq(S)
         /\ Len(SubSeq(w, a + 1, n)) = n - a
         /\ \A i \in 1 .. n - a : SubSeq(w, a + 1, n)[i] = w[a + i]
<1>1. a \in Int /\ n \in Int /\ a + 1 \in Int /\ n - (a + 1) + 1 = n - a
  OBVIOUS
<1>2. \A i \in a + 1 .. n : w[i] \in S
  BY <1>1
<1>3. /\ SubSeq(w, a + 1, n) \in Seq(S)
      /\ Len(SubSeq(w, a + 1, n)) = IF a + 1 <= n THEN n - (a + 1) + 1 ELSE 0
      /\ \A i \in 1 .. n - (a + 1) + 1 : SubSeq(w, a + 1, n)[i] = w[a + 1 + i - 1]
  BY <1>1, <1>2, SubSeqProperties
<1>4. Len(SubSeq(w, a + 1, n)) = n - a
  BY <1>1, <1>3
<1>5. \A i \in 1 .. n - a : SubSeq(w, a + 1, n)[i] = w[a + i]
  <2> SUFFICES ASSUME NEW i \in 1 .. n - a PROVE SubSeq(w, a + 1, n)[i] = w[a + i]
    OBVIOUS
  <2>1. a + 1 + i - 1 = a + i
    BY <1>1
  <2> QED
    BY <1>1, <1>3, <2>1
<1> QED
  BY <1>3, <1>4, <1>5

\* A slice of a slice is one of the whole.
LEMMA SliceOfSlice ==
  ASSUME NEW S, NEW w \in Seq(S), NEW n \in 0 .. Len(w), NEW a \in 0 .. n,
         NEW q \in 0 .. n - a, NEW p \in 0 .. q
  PROVE  SubSeq(SubSeq(w, a + 1, n), p + 1, q) = SubSeq(w, a + p + 1, a + q)
<1> DEFINE u == SubSeq(w, a + 1, n)
           s == SubSeq(u, p + 1, q)
           t == SubSeq(w, a + p + 1, a + q)
<1>1. u \in Seq(S) /\ Len(u) = n - a /\ \A i \in 1 .. n - a : u[i] = w[a + i]
  BY Slice
<1>2. s \in Seq(S) /\ Len(s) = q - p /\ \A i \in 1 .. q - p : s[i] = u[p + i]
  <2> HIDE DEF u
  <2> QED
    BY <1>1, Slice
<1>3. t \in Seq(S) /\ Len(t) = q - p /\ \A i \in 1 .. q - p : t[i] = w[a + p + i]
  <2>1. a + q \in 0 .. Len(w) /\ a + p \in 0 .. a + q /\ a + q - (a + p) = q - p
    OBVIOUS
  <2> QED
    BY <2>1, Slice
<1>4. ASSUME NEW i \in 1 .. q - p PROVE s[i] = t[i]
  <2>1. p + i \in 1 .. n - a /\ a + (p + i) = a + p + i
    OBVIOUS
  <2> HIDE DEF s, t, u
  <2> QED
    BY <1>1, <1>2, <1>3, <2>1
<1> HIDE DEF s, t
<1> QED
  BY <1>2, <1>3, <1>4, SeqEqual

(***************************************************************************)
(* Lines                                                                   *)
(***************************************************************************)

\* The ends of lines among the first n elements of w, the last of them, and where
\* the ended lines among them begin and end.
EndsUpTo(w, n) == {k \in 1 .. n : w[k] = NL}

LastEnd(w, n) == Max(EndsUpTo(w, n) \cup {0})

GapsUpTo(w, n) ==
  {gap \in (EndsUpTo(w, n) \cup {0}) \X EndsUpTo(w, n) :
     gap[1] < gap[2] /\ \A i \in EndsUpTo(w, n) : i <= gap[1] \/ gap[2] <= i}

LinesIn(w, gaps) == {SubSeq(w, gap[1] + 1, gap[2] - 1) : gap \in gaps}

\* LastEnd is the last of the line ends, or 0 if there is none.
LEMMA LastEndIs ==
  ASSUME NEW w, NEW n \in Nat
  PROVE  /\ LastEnd(w, n) \in EndsUpTo(w, n) \cup {0}
         /\ \A i \in EndsUpTo(w, n) : i <= LastEnd(w, n)
<1> DEFINE E == EndsUpTo(w, n) \cup {0}
<1>1. E \in SUBSET Nat /\ E # {} /\ \A i \in E : i <= n
  BY DEF EndsUpTo
<1>2. Max(E) \in E /\ \A i \in E : i <= Max(E)
  <2> HIDE DEF E
  <2> QED
    BY <1>1, MaxIsGreatest
<1> QED
  BY <1>2 DEF LastEnd

\* The lines of a slice that begins where a line begins.
LEMMA LinesOfSlice ==
  ASSUME NEW S, NEW w \in Seq(S), NEW n \in 0 .. Len(w), NEW a \in 0 .. n,
         a = 0 \/ w[a] = NL
  PROVE  Lines(SubSeq(w, a + 1, n)) = LinesIn(w, {gap \in GapsUpTo(w, n) : gap[1] >= a})
<1> DEFINE u == SubSeq(w, a + 1, n)
           E == EndsUpTo(w, n)
<1>1. u \in Seq(S) /\ Len(u) = n - a /\ \A i \in 1 .. n - a : u[i] = w[a + i]
  BY Slice
<1>2. Ends(u) = {k \in 1 .. n - a : a + k \in E}
  <2>1. DOMAIN u = 1 .. n - a
    <3> HIDE DEF u
    <3> QED
      BY <1>1
  <2> HIDE DEF u
  <2> QED
    BY <1>1, <2>1 DEF Ends, EndsUpTo
<1>3. E \subseteq 1 .. n /\ (a \in E \/ a = 0)
  BY DEF EndsUpTo
<1> HIDE DEF u, E
<1>4. ASSUME NEW gap \in Gaps(u)
      PROVE  \E g \in GapsUpTo(w, n) :
               g[1] >= a /\ SubSeq(u, gap[1] + 1, gap[2] - 1) = SubSeq(w, g[1] + 1, g[2] - 1)
  <2> DEFINE j == gap[1]
             k == gap[2]
             g == <<a + j, a + k>>
  <2>1. /\ j \in Ends(u) \cup {0} /\ k \in Ends(u)
        /\ j < k /\ \A i \in Ends(u) : i <= j \/ k <= i
    BY DEF Gaps
  <2>2. /\ j \in 0 .. n - a /\ k \in 1 .. n - a /\ a + k \in E
        /\ a + j \in E \cup {0}
    BY <1>2, <1>3, <2>1
  <2>3. ASSUME NEW i \in E PROVE i <= a + j \/ a + k <= i
    <3>1. CASE i <= a
      <4> HIDE DEF j, k
      <4> QED
        BY <1>3, <2>2, <3>1
    <3>2. CASE i > a
      <4> DEFINE h == i - a
      <4>1. h \in 1 .. n - a /\ a + h = i
        BY <1>3, <3>2
      <4>2. h \in Ends(u)
        <5> HIDE DEF h
        <5> QED
          BY <1>2, <4>1
      <4>3. h <= j \/ k <= h
        <5> HIDE DEF h, j, k
        <5> QED
          BY <2>1, <4>2
      <4> HIDE DEF h, j, k
      <4> QED
        BY <2>2, <4>1, <4>3
    <3> QED
      BY <1>3, <3>1, <3>2
  <2>4. g \in GapsUpTo(w, n) /\ g[1] = a + j /\ g[2] = a + k
    <3>1. g \in (E \cup {0}) \X E /\ g[1] = a + j /\ g[2] = a + k
      <4> HIDE DEF j, k
      <4> QED
        BY <2>2
    <3>2. a + j < a + k
      <4> HIDE DEF j, k
      <4> QED
        BY <2>1, <2>2
    <3> HIDE DEF g, j, k
    <3> QED
      BY <2>3, <3>1, <3>2 DEF GapsUpTo, E
  <2>5. SubSeq(u, j + 1, k - 1) = SubSeq(w, a + j + 1, a + (k - 1))
    <3>1. k - 1 \in 0 .. n - a /\ j \in 0 .. k - 1
      <4> HIDE DEF j, k
      <4> QED
        BY <2>1, <2>2
    <3> HIDE DEF j, k
    <3> QED
      BY <3>1, SliceOfSlice DEF u
  <2>6. g[1] >= a /\ SubSeq(u, j + 1, k - 1) = SubSeq(w, g[1] + 1, g[2] - 1)
    <3>1. a + j >= a /\ a + (k - 1) = a + k - 1
      <4> HIDE DEF j, k
      <4> QED
        BY <2>2
    <3> HIDE DEF g, j, k
    <3>2. g[1] = a + j /\ g[2] - 1 = a + k - 1
      BY <2>2, <2>4
    <3>3. SubSeq(u, j + 1, k - 1) = SubSeq(w, a + j + 1, a + k - 1)
      BY <2>5, <3>1
    <3> QED
      BY <3>1, <3>2, <3>3
  <2> HIDE DEF g
  <2> QED
    BY <2>4, <2>6
<1>5. ASSUME NEW g \in GapsUpTo(w, n), g[1] >= a
      PROVE  \E gap \in Gaps(u) :
               SubSeq(u, gap[1] + 1, gap[2] - 1) = SubSeq(w, g[1] + 1, g[2] - 1)
  <2> DEFINE x == g[1]
             y == g[2]
             j == x - a
             k == y - a
             gap == <<j, k>>
  <2>1. x \in E \cup {0} /\ y \in E /\ x < y /\ \A i \in E : i <= x \/ y <= i
    BY DEF GapsUpTo, E
  <2>2. x >= a
    BY <1>5
  <2> HIDE DEF x, y
  <2>3. /\ x \in 0 .. n /\ y \in 1 .. n /\ j \in 0 .. n - a /\ k \in 1 .. n - a
        /\ a + j = x /\ a + k = y /\ j < k
    BY <1>3, <2>1, <2>2
  <2> HIDE DEF j, k
  <2>4. k \in Ends(u) /\ j \in Ends(u) \cup {0}
    <3>1. CASE x = a
      <4>1. j = 0
        BY <2>3, <3>1
      <4> QED
        BY <1>2, <2>1, <2>3, <4>1
    <3>2. CASE x > a
      <4>1. x \in E /\ j \in 1 .. n - a
        BY <2>1, <2>3, <3>2
      <4> QED
        BY <1>2, <2>1, <2>3, <4>1
    <3> QED
      BY <2>2, <2>3, <3>1, <3>2
  <2>5. ASSUME NEW i \in Ends(u) PROVE i <= j \/ k <= i
    <3>1. i \in 1 .. n - a /\ a + i \in E
      BY <1>2
    <3>2. a + i <= x \/ y <= a + i
      BY <2>1, <3>1
    <3> QED
      BY <2>3, <3>1, <3>2
  <2>6. gap \in Gaps(u) /\ gap[1] = j /\ gap[2] = k
    <3>1. gap \in (Ends(u) \cup {0}) \X Ends(u) /\ gap[1] = j /\ gap[2] = k
      BY <2>4
    <3> HIDE DEF gap
    <3> QED
      BY <2>3, <2>5, <3>1 DEF Gaps
  <2>7. SubSeq(u, j + 1, k - 1) = SubSeq(w, x + 1, y - 1)
    <3>1. k - 1 \in 0 .. n - a /\ j \in 0 .. k - 1 /\ a + (k - 1) = y - 1
      BY <2>3
    <3>2. SubSeq(u, j + 1, k - 1) = SubSeq(w, a + j + 1, a + (k - 1))
      BY <3>1, SliceOfSlice DEF u
    <3> QED
      BY <2>3, <3>1, <3>2
  <2> HIDE DEF gap
  <2> QED
    BY <2>6, <2>7 DEF x, y
<1> DEFINE P == {gap \in GapsUpTo(w, n) : gap[1] >= a}
<1>6. ASSUME NEW l \in Lines(u) PROVE l \in LinesIn(w, P)
  <2>1. PICK gap \in Gaps(u) : l = SubSeq(u, gap[1] + 1, gap[2] - 1)
    BY DEF Lines
  <2>2. PICK g \in GapsUpTo(w, n) : g[1] >= a /\ l = SubSeq(w, g[1] + 1, g[2] - 1)
    BY <1>4, <2>1
  <2>3. g \in P
    BY <2>2
  <2> HIDE DEF P
  <2> QED
    BY <2>2, <2>3 DEF LinesIn
<1>7. ASSUME NEW l \in LinesIn(w, P) PROVE l \in Lines(u)
  <2>1. PICK g \in P : l = SubSeq(w, g[1] + 1, g[2] - 1)
    <3> HIDE DEF P
    <3> QED
      BY DEF LinesIn
  <2>2. PICK gap \in Gaps(u) : SubSeq(u, gap[1] + 1, gap[2] - 1) = SubSeq(w, g[1] + 1, g[2] - 1)
    BY <1>5, <2>1
  <2> QED
    BY <2>1, <2>2 DEF Lines
<1>8. Lines(u) = LinesIn(w, P)
  <2> HIDE DEF P
  <2> QED
    BY <1>6, <1>7
<1> QED
  BY <1>8 DEF u

\* What stands after the last line of such a slice.
LEMMA RestOfSlice ==
  ASSUME NEW S, NEW w \in Seq(S), NEW n \in 0 .. Len(w), NEW a \in 0 .. n,
         a = 0 \/ w[a] = NL
  PROVE  Rest(SubSeq(w, a + 1, n)) = SubSeq(w, LastEnd(w, n) + 1, n)
<1> DEFINE u == SubSeq(w, a + 1, n)
           E == EndsUpTo(w, n)
           L == LastEnd(w, n)
           M == Max(Ends(u) \cup {0})
<1>1. u \in Seq(S) /\ Len(u) = n - a /\ \A i \in 1 .. n - a : u[i] = w[a + i]
  BY Slice
<1>2. Ends(u) = {k \in 1 .. n - a : a + k \in E}
  <2>1. DOMAIN u = 1 .. n - a
    <3> HIDE DEF u
    <3> QED
      BY <1>1
  <2> HIDE DEF u
  <2> QED
    BY <1>1, <2>1 DEF Ends, EndsUpTo
<1>3. E \subseteq 1 .. n /\ (a \in E \/ a = 0) /\ n \in Nat /\ a \in Nat
  BY DEF EndsUpTo
<1>4. L \in E \cup {0} /\ \A i \in E : i <= L
  BY <1>3, LastEndIs
<1>5. M \in Ends(u) \cup {0} /\ \A i \in Ends(u) : i <= M
  <2> DEFINE T == Ends(u) \cup {0}
  <2>1. T \in SUBSET Nat /\ T # {} /\ \A i \in T : i <= n
    <3> HIDE DEF u, E
    <3> QED
      BY <1>2, <1>3
  <2>2. Max(T) \in T /\ \A i \in T : i <= Max(T)
    <3> HIDE DEF T
    <3> QED
      BY <1>3, <2>1, MaxIsGreatest
  <2> QED
    BY <2>2
<1> HIDE DEF E, L, M, u
<1>6. M \in 0 .. n - a /\ a + M <= L
  <2>1. CASE M = 0
    BY <1>3, <1>4, <2>1
  <2>2. CASE M \in Ends(u)
    BY <1>2, <1>3, <1>4, <2>2
  <2> QED
    BY <1>5, <2>1, <2>2
<1>7. L <= a + M
  <2>1. CASE L > a
    <3> DEFINE h == L - a
    <3>1. L \in E /\ h \in 1 .. n - a /\ a + h = L
      BY <1>3, <1>4, <2>1
    <3>2. h \in Ends(u)
      <4> HIDE DEF h
      <4> QED
        BY <1>2, <3>1
    <3>3. h <= M
      BY <1>5, <3>2
    <3> HIDE DEF h
    <3> QED
      BY <1>3, <1>6, <3>1, <3>3
  <2> QED
    BY <1>3, <1>4, <1>6, <2>1
<1>8. a + M = L /\ a + (n - a) = n
  BY <1>3, <1>4, <1>6, <1>7
<1>9. SubSeq(u, M + 1, n - a) = SubSeq(w, a + M + 1, a + (n - a))
  <2>1. n - a \in 0 .. n - a
    BY <1>3
  <2> QED
    BY <1>6, <2>1, SliceOfSlice DEF u
<1>10. Rest(u) = SubSeq(u, M + 1, n - a)
  BY <1>1 DEF Rest, M
<1> QED
  BY <1>8, <1>9, <1>10 DEF u, L

\* The gaps of a longer text are those of a shorter one and what comes after them.
LEMMA GapsGrow ==
  ASSUME NEW w, NEW n \in Nat, NEW m \in 0 .. n
  PROVE  GapsUpTo(w, n) =
           GapsUpTo(w, m) \cup {gap \in GapsUpTo(w, n) : gap[1] >= LastEnd(w, m)}
<1> DEFINE E == EndsUpTo(w, n)
           F == EndsUpTo(w, m)
           L == LastEnd(w, m)
<1>1. E \subseteq 1 .. n /\ F = {i \in E : i <= m} /\ m \in Nat
  BY DEF EndsUpTo
<1>2. L \in F \cup {0} /\ \A i \in F : i <= L
  BY <1>1, LastEndIs
<1> HIDE DEF E, F, L
<1>3. ASSUME NEW gap \in GapsUpTo(w, n), ~(gap[1] >= L) PROVE gap \in GapsUpTo(w, m)
  <2> DEFINE j == gap[1]
             k == gap[2]
  <2>1. /\ gap \in (E \cup {0}) \X E /\ j \in E \cup {0} /\ k \in E /\ j < k
        /\ \A i \in E : i <= j \/ k <= i
    BY DEF GapsUpTo, E
  <2>2. ~(j >= L) /\ gap = <<j, k>>
    BY <1>3, <2>1
  <2>3. j \in F \cup {0} /\ k \in F
    <3> HIDE DEF j, k
    <3>1. L \in E /\ j < L
      BY <1>1, <1>2, <2>1, <2>2
    <3>2. k <= L
      BY <1>1, <2>1, <3>1
    <3> QED
      BY <1>1, <1>2, <2>1, <3>1, <3>2
  <2>4. gap \in (F \cup {0}) \X F
    <3> HIDE DEF j, k
    <3> QED
      BY <2>2, <2>3
  <2>5. \A i \in F : i <= j \/ k <= i
    <3> HIDE DEF j, k
    <3> QED
      BY <1>1, <2>1
  <2> QED
    BY <2>1, <2>4, <2>5 DEF GapsUpTo, F
<1>4. ASSUME NEW gap \in GapsUpTo(w, m) PROVE gap \in GapsUpTo(w, n)
  <2> DEFINE j == gap[1]
             k == gap[2]
  <2>1. /\ gap \in (F \cup {0}) \X F /\ j \in F \cup {0} /\ k \in F /\ j < k
        /\ \A i \in F : i <= j \/ k <= i
    BY DEF GapsUpTo, F
  <2>2. gap \in (E \cup {0}) \X E
    BY <1>1, <2>1
  <2>3. \A i \in E : i <= j \/ k <= i
    <3> HIDE DEF j, k
    <3> QED
      BY <1>1, <2>1
  <2> QED
    BY <2>1, <2>2, <2>3 DEF GapsUpTo, E
<1> QED
  BY <1>3, <1>4 DEF L

\* Lines do not depend on where a chunk ends: what is kept of the first m elements of
\* w and the chunk that follows them say what the first m did not.
LEMMA LinesJoin ==
  ASSUME NEW S, NEW w \in Seq(S), NEW n \in 0 .. Len(w), NEW m \in 0 .. n
  PROVE  LET kept  == Rest(SubSeq(w, 1, m))
             chunk == SubSeq(w, m + 1, n)
         IN  /\ Lines(SubSeq(w, 1, n)) = Lines(SubSeq(w, 1, m)) \cup Lines(kept \o chunk)
             /\ Rest(SubSeq(w, 1, n)) = Rest(kept \o chunk)
<1> DEFINE L == LastEnd(w, m)
           kept  == Rest(SubSeq(w, 1, m))
           chunk == SubSeq(w, m + 1, n)
           P == {gap \in GapsUpTo(w, n) : gap[1] >= L}
           text == SubSeq(w, L + 1, n)
<1>1. n \in Nat /\ m \in Nat /\ m \in 0 .. Len(w) /\ 0 \in 0 .. m /\ 0 \in 0 .. n
  OBVIOUS
<1>2. L \in EndsUpTo(w, m) \cup {0}
  BY <1>1, LastEndIs
<1>3. L \in 0 .. m /\ L \in 0 .. n /\ (L = 0 \/ w[L] = NL)
  <2> HIDE DEF L
  <2> QED
    BY <1>1, <1>2 DEF EndsUpTo
<1> HIDE DEF L
<1>4. kept = SubSeq(w, L + 1, m)
  <2>1. Rest(SubSeq(w, 0 + 1, m)) = SubSeq(w, LastEnd(w, m) + 1, m)
    BY <1>1, RestOfSlice
  <2> QED
    BY <2>1 DEF L
<1>5. kept \o chunk = text
  <2>1. /\ L + 1 \in 1 .. Len(w) + 1 /\ m \in (L + 1) - 1 .. Len(w) /\ n \in m .. Len(w)
    BY <1>1, <1>3
  <2>2. SubSeq(w, L + 1, m) \o SubSeq(w, m + 1, n) = SubSeq(w, L + 1, n)
    BY <2>1, ConcatAdjacentSubSeq
  <2> QED
    BY <1>4, <2>2
<1>6. Lines(text) = LinesIn(w, P)
  BY <1>3, LinesOfSlice
<1>7. ASSUME NEW k \in 0 .. Len(w)
      PROVE  Lines(SubSeq(w, 1, k)) = LinesIn(w, GapsUpTo(w, k))
  <2>1. Lines(SubSeq(w, 0 + 1, k)) = LinesIn(w, {gap \in GapsUpTo(w, k) : gap[1] >= 0})
    <3>1. 0 \in 0 .. k
      OBVIOUS
    <3> QED
      BY <3>1, LinesOfSlice
  <2>2. \A gap \in GapsUpTo(w, k) : gap[1] >= 0
    BY DEF GapsUpTo, EndsUpTo
  <2>3. {gap \in GapsUpTo(w, k) : gap[1] >= 0} = GapsUpTo(w, k)
    BY <2>2
  <2>4. SubSeq(w, 0 + 1, k) = SubSeq(w, 1, k)
    OBVIOUS
  <2> QED
    BY <2>1, <2>3, <2>4, Zenon
<1>8. GapsUpTo(w, n) = GapsUpTo(w, m) \cup P
  BY <1>1, GapsGrow DEF L
<1>9. LinesIn(w, GapsUpTo(w, n)) = LinesIn(w, GapsUpTo(w, m)) \cup LinesIn(w, P)
  <2> HIDE DEF P
  <2> QED
    BY <1>8 DEF LinesIn
<1>10. Lines(SubSeq(w, 1, n)) = Lines(SubSeq(w, 1, m)) \cup Lines(kept \o chunk)
  <2> HIDE DEF P, text, kept, chunk
  <2> QED
    BY <1>1, <1>5, <1>6, <1>7, <1>9
<1>11. Rest(SubSeq(w, 1, n)) = Rest(kept \o chunk)
  <2>1. Rest(SubSeq(w, 0 + 1, n)) = SubSeq(w, LastEnd(w, n) + 1, n)
    BY <1>1, RestOfSlice
  <2>2. Rest(text) = SubSeq(w, LastEnd(w, n) + 1, n)
    BY <1>3, RestOfSlice
  <2> HIDE DEF kept, chunk, text
  <2> QED
    BY <1>5, <2>1, <2>2
<1> QED
  BY <1>10, <1>11

(***************************************************************************)
(* Counters                                                                *)
(***************************************************************************)

\* The counts of texts, and the highest of them.
CountsOf(texts, c) == {Parsed(l)[c] : l \in texts}

Highest(texts, c) == Max({0} \cup CountsOf(texts, c))

\* The lines of a text are finitely many, so their counts have a highest.
LEMMA LinesBounded ==
  ASSUME NEW S, NEW u \in Seq(S), NEW c \in Counter
  PROVE  CountsOf(Lines(u), c) \in SUBSET Nat
         /\ \E b \in Nat : \A x \in CountsOf(Lines(u), c) : x <= b
<1>1. \A text : Parsed(text)[c] \in Nat
  BY UsageAssumption DEF Parsed, Zero
<1> DEFINE n == Len(u)
           f == [gap \in Gaps(u) |-> Parsed(SubSeq(u, gap[1] + 1, gap[2] - 1))[c]]
<1>2. IsFiniteSet(Gaps(u))
  <2>1. Gaps(u) \subseteq (0 .. n) \X (0 .. n)
    BY DEF Gaps, Ends
  <2>2. IsFiniteSet(0 .. n)
    BY FS_Interval
  <2>3. IsFiniteSet((0 .. n) \X (0 .. n))
    BY <2>2, FS_Product
  <2> QED
    BY <2>1, <2>3, FS_Subset
<1>3. f \in [Gaps(u) -> Nat]
  BY <1>1
<1>4. CountsOf(Lines(u), c) = {f[gap] : gap \in Gaps(u)}
  <2>1. ASSUME NEW gap \in Gaps(u)
        PROVE  f[gap] = Parsed(SubSeq(u, gap[1] + 1, gap[2] - 1))[c]
    OBVIOUS
  <2> HIDE DEF f
  <2> QED
    BY <2>1 DEF CountsOf, Lines
<1> HIDE DEF f
<1>5. CountsOf(Lines(u), c) \in SUBSET Nat
  BY <1>1 DEF CountsOf
<1>6. IsFiniteSet(CountsOf(Lines(u), c))
  <2>1. IsFiniteSet({f[gap] : gap \in Gaps(u)})
    BY <1>2, <1>3, FiniteImage
  <2> QED
    BY <1>4, <2>1
<1> QED
  BY <1>5, <1>6, FiniteIsBounded

\* mergeUsage: the highest count so far and the lines of a chunk give the highest of all.
LEMMA HighestJoin ==
  ASSUME NEW S, NEW u \in Seq(S), NEW v \in Seq(S), NEW c \in Counter
  PROVE  Max({Highest(Lines(u), c)} \cup CountsOf(Lines(v), c))
           = Highest(Lines(u) \cup Lines(v), c)
<1> DEFINE A == {0} \cup CountsOf(Lines(u), c)
           B == CountsOf(Lines(v), c)
<1>1. PICK b1 \in Nat : \A x \in CountsOf(Lines(u), c) : x <= b1
  BY LinesBounded
<1>2. PICK b2 \in Nat : \A x \in B : x <= b2
  BY LinesBounded
<1>3. A \in SUBSET Nat /\ A # {} /\ B \in SUBSET Nat
  BY LinesBounded
<1>4. b1 + b2 \in Nat /\ \A x \in A \cup B : x <= b1 + b2
  <2>1. \A x \in A : x \in Nat /\ x <= b1
    <3> HIDE DEF B
    <3> QED
      BY <1>1, <1>3
  <2> HIDE DEF A, B
  <2> QED
    BY <1>2, <1>3, <2>1
<1>5. Max({Max(A)} \cup B) = Max(A \cup B)
  <2> HIDE DEF A, B
  <2> QED
    BY <1>3, <1>4, MaxInSteps
<1>6. A \cup B = {0} \cup CountsOf(Lines(u) \cup Lines(v), c)
  BY DEF CountsOf
<1> QED
  BY <1>5, <1>6 DEF Highest

\* More lines do not lower the highest count.
LEMMA HighestGrows ==
  ASSUME NEW S, NEW u \in Seq(S), NEW v \in Seq(S), Lines(u) \subseteq Lines(v), NEW c \in Counter
  PROVE  Highest(Lines(u), c) \in Nat /\ Highest(Lines(v), c) >= Highest(Lines(u), c)
<1> DEFINE A == {0} \cup CountsOf(Lines(u), c)
           B == {0} \cup CountsOf(Lines(v), c)
<1>1. PICK b \in Nat : \A x \in CountsOf(Lines(v), c) : x <= b
  BY LinesBounded
<1>2. A \subseteq B /\ B \in SUBSET Nat /\ A # {}
  BY LinesBounded DEF CountsOf
<1>3. \A x \in B : x <= b
  BY <1>1
<1> HIDE DEF A, B
<1>4. Max(A) \in A /\ Max(B) \in B /\ \A y \in B : y <= Max(B)
  <2>1. A \in SUBSET Nat /\ B # {} /\ \A x \in A : x <= b
    BY <1>2, <1>3
  <2> QED
    BY <1>2, <1>3, <2>1, MaxIsGreatest
<1>5. Max(A) \in Nat /\ Max(B) >= Max(A)
  BY <1>2, <1>4
<1> QED
  BY <1>5 DEF Highest, A, B

(***************************************************************************)
(* A bounded buffer                                                        *)
(***************************************************************************)

\* Write tops the buffer up to its limit and no further.
LEMMA BufferJoin ==
  ASSUME NEW S, NEW w \in Seq(S), NEW n \in 0 .. Len(w), NEW m \in 0 .. n, NEW max \in Nat
  PROVE  LET held  == SubSeq(w, 1, Min({m, max}))
             chunk == SubSeq(w, m + 1, n)
             remaining == max - Len(held)
         IN  /\ held \o SubSeq(chunk, 1, Min({remaining, Len(chunk)})) = SubSeq(w, 1, Min({n, max}))
             /\ (m > max \/ Len(chunk) > remaining) <=> n > max
<1> DEFINE h == Min({m, max})
           held == SubSeq(w, 1, h)
           chunk == SubSeq(w, m + 1, n)
           remaining == max - Len(held)
           k == Min({remaining, Len(chunk)})
<1>1. n \in Nat /\ m \in Nat /\ m <= n /\ n <= Len(w) /\ Len(w) \in Nat
  OBVIOUS
<1>2. h = IF m <= max THEN m ELSE max
  BY <1>1, MinOfTwo
<1>3. h \in 0 .. Len(w) /\ h <= m /\ h <= max
  <2> HIDE DEF h
  <2> QED
    BY <1>1, <1>2
<1>4. Len(held) = h /\ held \in Seq(S)
  <2>1. SubSeq(w, 0 + 1, h) \in Seq(S) /\ Len(SubSeq(w, 0 + 1, h)) = h - 0
    <3>1. 0 \in 0 .. h
      <4> HIDE DEF h
      <4> QED
        BY <1>3
    <3> HIDE DEF h
    <3> QED
      BY <1>3, <3>1, Slice
  <2>2. SubSeq(w, 0 + 1, h) = held /\ h - 0 = h
    <3> HIDE DEF h
    <3> QED
      BY <1>3
  <2> HIDE DEF held, h
  <2> QED
    BY <2>1, <2>2
<1>5. Len(chunk) = n - m /\ chunk \in Seq(S)
  BY Slice
<1> HIDE DEF h, held, chunk
<1>6. remaining \in Nat /\ remaining = max - h /\ Len(chunk) \in Nat
  BY <1>1, <1>3, <1>4, <1>5
<1> HIDE DEF remaining
<1>7. k = IF remaining <= n - m THEN remaining ELSE n - m
  BY <1>5, <1>6, MinOfTwo
<1>8. Min({n, max}) = IF n <= max THEN n ELSE max
  BY <1>1, MinOfTwo
<1> DEFINE e == Min({n, max})
<1> HIDE DEF k, e
<1>9. k \in 0 .. n - m /\ e \in 0 .. Len(w)
  BY <1>1, <1>6, <1>7, <1>8 DEF e
<1>10. SubSeq(chunk, 1, k) = SubSeq(w, m + 1, m + k)
  <2>1. 0 \in 0 .. k
    BY <1>9
  <2>2. SubSeq(chunk, 0 + 1, k) = SubSeq(w, m + 0 + 1, m + k)
    BY <1>9, <2>1, SliceOfSlice DEF chunk
  <2>3. 0 + 1 = 1 /\ m + 0 + 1 = m + 1
    BY <1>1
  <2> QED
    BY <2>2, <2>3
<1>11. held \o SubSeq(chunk, 1, k) = SubSeq(w, 1, e)
  <2>1. CASE m <= max
    <3>1. h = m /\ m + k = e /\ m + k \in m .. Len(w)
      BY <1>1, <1>2, <1>6, <1>7, <1>8, <1>9, <2>1 DEF e
    <3>2. SubSeq(w, 1, m) \o SubSeq(w, m + 1, m + k) = SubSeq(w, 1, m + k)
      <4>1. 1 \in 1 .. Len(w) + 1 /\ m \in 1 - 1 .. Len(w)
        BY <1>1
      <4> QED
        BY <3>1, <4>1, ConcatAdjacentSubSeq
    <3> QED
      BY <1>10, <3>1, <3>2 DEF held
  <2>2. CASE m > max
    <3>1. h = max /\ k = 0 /\ e = max
      BY <1>1, <1>2, <1>6, <1>7, <1>8, <2>2 DEF e
    <3>2. SubSeq(chunk, 1, k) = <<>>
      BY <3>1, SubSeqEmpty
    <3>3. held \o <<>> = held
      BY <1>4, ConcatEmptySeq
    <3>4. held = SubSeq(w, 1, e)
      BY <3>1 DEF held
    <3> QED
      BY <3>2, <3>3, <3>4
  <2>3. m <= max \/ m > max
    BY <1>1
  <2> QED
    BY <2>1, <2>2, <2>3
<1>12. (m > max \/ Len(chunk) > remaining) <=> n > max
  BY <1>1, <1>2, <1>5, <1>6
<1> QED
  BY <1>11, <1>12 DEF h, held, chunk, remaining, k, e

(***************************************************************************)
(* The observer                                                            *)
(***************************************************************************)

\* What the observer holds is a function of the bytes that were read.  Inductive.
Observed ==
  /\ body \in Body /\ encoded \in BOOLEAN /\ sse \in BOOLEAN
  /\ pc \in {"read", "write", "record", "done"}
  /\ read \in 0 .. Len(body) /\ sent \in 0 .. read
  /\ sse => /\ pending = Rest(SubSeq(Wire, 1, read))
            /\ usage = Said(Wire, read)
  /\ ~sse => /\ buf = SubSeq(Wire, 1, Min({read, maxUsageBuffer}))
             /\ (overflow <=> read > maxUsageBuffer)
  /\ pc = "done" => recorded = Said(Wire, read)

\* What travels is as long as the body, compressed or not.
LEMMA WireIs ==
  ASSUME body \in Body
  PROVE  Wire \in Seq(Byte \cup {Opaque}) /\ Len(Wire) = Len(body)
<1>1. body \in Seq(Byte)
  BY UsageAssumption
<1> DEFINE w == [k \in DOMAIN body |-> Opaque]
<1>2. w \in Seq(Byte \cup {Opaque}) /\ Len(w) = Len(body)
  <2> DEFINE n == Len(body)
  <2>1. DOMAIN body = 1 .. n /\ n \in Nat
    BY <1>1
  <2>2. w \in [1 .. n -> Byte \cup {Opaque}]
    BY <2>1
  <2> HIDE DEF w, n
  <2>3. w \in Seq(Byte \cup {Opaque}) /\ Len(w) = n
    BY <2>1, <2>2
  <2> QED
    BY <2>3 DEF n
<1>3. body \in Seq(Byte \cup {Opaque})
  BY <1>1
<1> QED
  BY <1>2, <1>3 DEF Wire

\* What a stream says of a counter.
LEMMA SaidOfStream ==
  ASSUME sse, NEW w, NEW n
  PROVE  Said(w, n) = [c \in Counter |-> Highest(Lines(SubSeq(w, 1, n)), c)]
  BY DEF Said, Highest, CountsOf

\* Nothing has been read: a text of no bytes has no line.
LEMMA InitObserved == Init => Observed
<1> SUFFICES ASSUME Init PROVE Observed
  OBVIOUS
<1>1. body \in Body /\ read = 0 /\ sent = 0 /\ Len(body) \in Nat
  BY UsageAssumption DEF Init
<1>2. SubSeq(Wire, 1, 0) = <<>>
  BY SubSeqEmpty
<1>3. Ends(<<>>) = {} /\ Gaps(<<>>) = {} /\ Lines(<<>>) = {}
  BY DEF Ends, Gaps, Lines
<1>4. Rest(<<>>) = <<>>
  <2>1. Max({} \cup {0}) = 0
    <3>1. {0} \in SUBSET Nat /\ \A x \in {0} : x <= 0
      OBVIOUS
    <3>2. Max({0}) \in {0}
      BY <3>1, MaxIsGreatest
    <3> QED
      BY <3>2
  <2>2. Rest(<<>>) = SubSeq(<<>>, 0 + 1, 0)
    BY <1>3, <2>1 DEF Rest
  <2> QED
    BY <2>2, SubSeqEmpty
<1>5. ASSUME sse PROVE Zero = Said(Wire, 0)
  <2>1. ASSUME NEW c \in Counter PROVE Highest({}, c) = 0
    <3>1. {0} \cup CountsOf({}, c) = {0}
      BY DEF CountsOf
    <3>2. {0} \in SUBSET Nat /\ \A x \in {0} : x <= 0
      OBVIOUS
    <3>3. Max({0}) \in {0}
      BY <3>2, MaxIsGreatest
    <3> QED
      BY <3>1, <3>3 DEF Highest
  <2> DEFINE w == Wire
             T == Lines(SubSeq(w, 1, 0))
  <2>2. T = {}
    BY <1>2, <1>3
  <2>3. Said(w, 0) = [c \in Counter |-> Highest(T, c)]
    <3> HIDE DEF w
    <3> QED
      BY <1>5, SaidOfStream
  <2> HIDE DEF w, T
  <2>4. Said(w, 0) = Zero
    BY <2>1, <2>2, <2>3 DEF Zero
  <2> QED
    BY <2>4 DEF w
<1>6. Min({0, maxUsageBuffer}) = 0 /\ ~(0 > maxUsageBuffer)
  BY UsageAssumption, MinOfTwo
<1>7. sse => pending = Rest(SubSeq(Wire, 1, read)) /\ usage = Said(Wire, read)
  <2> DEFINE w == Wire
  <2>1. pending = <<>> /\ usage = Zero /\ read = 0
    BY DEF Init
  <2> HIDE DEF w
  <2>2. SubSeq(w, 1, 0) = <<>> /\ (sse => Zero = Said(w, 0))
    BY <1>2, <1>5 DEF w
  <2>3. sse => pending = Rest(SubSeq(w, 1, read)) /\ usage = Said(w, read)
    BY <1>4, <2>1, <2>2
  <2> QED
    BY <2>3 DEF w
<1>8. buf = SubSeq(Wire, 1, Min({read, maxUsageBuffer})) /\ (overflow <=> read > maxUsageBuffer)
  <2>1. read = 0 /\ buf = <<>> /\ overflow = FALSE
    BY DEF Init
  <2>2. buf = SubSeq(Wire, 1, Min({read, maxUsageBuffer}))
    BY <1>2, <1>6, <2>1
  <2>3. ~(read > maxUsageBuffer)
    BY <1>6, <2>1
  <2>4. overflow <=> read > maxUsageBuffer
    BY <2>1, <2>3
  <2> QED
    BY <2>2, <2>4
<1>9. /\ encoded \in BOOLEAN /\ sse \in BOOLEAN /\ pc = "read"
      /\ read \in 0 .. Len(body) /\ sent \in 0 .. read
  BY <1>1 DEF Init
<1> QED
  BY <1>1, <1>7, <1>8, <1>9 DEF Observed

\* A chunk more, of whatever length.
LEMMA ReadObserved ==
  ASSUME Observed, Read
  PROVE  Observed'
<1> DEFINE w == Wire
           S == Byte \cup {Opaque}
<1>1. PICK n \in read + 1 .. Len(body) : read' = n /\ Observe(SubSeq(w, read + 1, n))
  BY DEF Read
<1>2. /\ body' = body /\ encoded' = encoded /\ sse' = sse /\ sent' = sent /\ pc' = "write"
      /\ body \in Body /\ read \in 0 .. Len(body) /\ sent \in 0 .. read /\ sse \in BOOLEAN
  BY DEF Read, Observed
<1>3. w \in Seq(S) /\ Len(w) = Len(body) /\ Len(body) \in Nat
  BY <1>2, WireIs, UsageAssumption
<1>4. Wire' = w
  BY <1>2 DEF Wire
<1> DEFINE m == read
           chunk == SubSeq(w, m + 1, n)
<1> HIDE DEF w
<1>5. n \in 0 .. Len(w) /\ m \in 0 .. n /\ sent \in 0 .. n /\ n \in 0 .. Len(body)
  BY <1>1, <1>2, <1>3
<1>6. ASSUME sse
      PROVE  pending' = Rest(SubSeq(w, 1, n)) /\ usage' = Said(w, n)
  <2> DEFINE kept == Rest(SubSeq(w, 1, m))
  <2>1. pending = kept /\ usage = Said(w, m)
    BY <1>6 DEF Observed, w
  <2>2. usage' = MergeUsage(Lines(kept \o chunk)) /\ pending' = Rest(kept \o chunk)
    BY <1>1, <1>6, <2>1 DEF Observe, ConsumeStream
  <2>3. /\ Lines(SubSeq(w, 1, n)) = Lines(SubSeq(w, 1, m)) \cup Lines(kept \o chunk)
        /\ Rest(SubSeq(w, 1, n)) = Rest(kept \o chunk)
    BY <1>3, <1>5, LinesJoin
  <2>4. SubSeq(w, 1, m) \in Seq(S) /\ kept \o chunk \in Seq(S)
    <3>1. SubSeq(w, 0 + 1, m) \in Seq(S)
      <4>1. m \in 0 .. Len(w) /\ 0 \in 0 .. m
        BY <1>5, <1>3
      <4> HIDE DEF S, m
      <4> QED
        BY <1>3, <4>1, Slice
    <3>2. chunk \in Seq(S)
      BY <1>3, <1>5, Slice
    <3>3. kept \in Seq(S)
      <4> DEFINE u == SubSeq(w, 1, m)
      <4>1. u \in Seq(S)
        BY <3>1
      <4> HIDE DEF u
      <4>2. DOMAIN u = 1 .. Len(u) /\ Len(u) \in Nat
        BY <4>1
      <4>3. Rest(u) \in Seq(S)
        <5> DEFINE M == Max(Ends(u) \cup {0})
                   l == Len(u)
        <5>1. M \in 0 .. l
          <6> DEFINE T == Ends(u) \cup {0}
          <6>1. T \in SUBSET Nat /\ T # {} /\ \A i \in T : i <= l
            BY <4>2 DEF Ends
          <6>2. l \in Nat
            BY <4>2
          <6> HIDE DEF T, l
          <6>3. Max(T) \in T
            BY <6>1, <6>2, MaxIsGreatest
          <6>4. Max(T) \in Nat /\ Max(T) <= l
            BY <6>1, <6>3
          <6>5. Max(T) \in 0 .. l
            BY <6>2, <6>4
          <6> QED
            BY <6>5 DEF T
        <5>2. l \in 0 .. Len(u)
          BY <4>2
        <5> HIDE DEF M, l
        <5>3. SubSeq(u, M + 1, l) \in Seq(S)
          BY <4>1, <5>1, <5>2, Slice
        <5> QED
          BY <5>3 DEF Rest, M, l
      <4> QED
        BY <4>3 DEF u
    <3> HIDE DEF kept, chunk
    <3> QED
      BY <3>1, <3>2, <3>3, ConcatProperties
  <2>5. ASSUME NEW c \in Counter
        PROVE  Max({usage[c]} \cup CountsOf(Lines(kept \o chunk), c))
                 = Highest(Lines(SubSeq(w, 1, n)), c)
    <3>1. usage[c] = Highest(Lines(SubSeq(w, 1, m)), c)
      BY <1>6, <2>1, SaidOfStream
    <3> DEFINE u == SubSeq(w, 1, m)
               v == kept \o chunk
    <3>2. u \in Seq(S) /\ v \in Seq(S)
      BY <2>4
    <3> HIDE DEF u, v
    <3>3. Max({Highest(Lines(u), c)} \cup CountsOf(Lines(v), c)) = Highest(Lines(u) \cup Lines(v), c)
      BY <3>2, HighestJoin
    <3> QED
      BY <2>3, <3>1, <3>3 DEF u, v
  <2>6. usage' = [c \in Counter |-> Max({usage[c]} \cup CountsOf(Lines(kept \o chunk), c))]
    BY <2>2 DEF MergeUsage, CountsOf
  <2>7. Said(w, n) = [c \in Counter |-> Highest(Lines(SubSeq(w, 1, n)), c)]
    BY <1>6, SaidOfStream
  <2> HIDE DEF kept, chunk
  <2> QED
    BY <2>2, <2>3, <2>5, <2>6, <2>7
<1>7. ASSUME ~sse
      PROVE  buf' = SubSeq(w, 1, Min({n, maxUsageBuffer})) /\ (overflow' <=> n > maxUsageBuffer)
  <2> DEFINE held == SubSeq(w, 1, Min({m, maxUsageBuffer}))
             remaining == maxUsageBuffer - Len(held)
  <2>1. buf = held /\ (overflow <=> m > maxUsageBuffer)
    BY <1>7 DEF Observed, w
  <2>2. /\ buf' = held \o SubSeq(chunk, 1, Min({remaining, Len(chunk)}))
        /\ overflow' = (overflow \/ Len(chunk) > remaining)
    BY <1>1, <1>7, <2>1 DEF Observe, Accumulate
  <2>3. /\ held \o SubSeq(chunk, 1, Min({remaining, Len(chunk)}))
             = SubSeq(w, 1, Min({n, maxUsageBuffer}))
        /\ (m > maxUsageBuffer \/ Len(chunk) > remaining) <=> n > maxUsageBuffer
    BY <1>3, <1>5, BufferJoin, UsageAssumption
  <2>4. overflow' <=> m > maxUsageBuffer \/ Len(chunk) > remaining
    BY <2>1, <2>2
  <2> HIDE DEF held, remaining, chunk
  <2>5. buf' = SubSeq(w, 1, Min({n, maxUsageBuffer}))
    BY <2>2, <2>3
  <2>6. overflow' <=> n > maxUsageBuffer
    BY <2>3, <2>4
  <2> QED
    BY <2>5, <2>6
<1>8. Said(Wire, read)' = Said(w, n)
  BY <1>1, <1>2, <1>4 DEF Said
<1>9. sse' => pending' = Rest(SubSeq(Wire', 1, read')) /\ usage' = Said(Wire, read)'
  BY <1>1, <1>2, <1>4, <1>6, <1>8
<1>10. ~sse' => /\ buf' = SubSeq(Wire', 1, Min({read', maxUsageBuffer}))
                /\ (overflow' <=> read' > maxUsageBuffer)
  BY <1>1, <1>2, <1>4, <1>7
<1> QED
  BY <1>1, <1>2, <1>5, <1>9, <1>10 DEF Observed

\* Writing to the client, and the end of either connection, do not touch the observer.
LEMMA WriteObserved ==
  ASSUME Observed, Write \/ WriteFails \/ ReadFails \/ UNCHANGED vars
  PROVE  Observed'
<1>1. /\ body' = body /\ encoded' = encoded /\ sse' = sse /\ read' = read
      /\ buf' = buf /\ overflow' = overflow /\ pending' = pending /\ usage' = usage
      /\ recorded' = recorded
  BY DEF Write, WriteFails, ReadFails, vars, observer
<1>2. pc' \in {"read", "write", "record", "done"} /\ (pc' = "done" => pc = "done")
  BY DEF Observed, Write, WriteFails, ReadFails, vars
<1>3. sent' \in 0 .. read
  <2>1. read \in Nat /\ sent \in 0 .. read
    <3>1. body \in Body /\ read \in 0 .. Len(body)
      BY DEF Observed
    <3>2. Len(body) \in Nat
      BY <3>1, UsageAssumption
    <3> QED
      BY <3>1, <3>2 DEF Observed
  <2> QED
    BY <2>1 DEF Write, WriteFails, ReadFails, vars
<1>4. Wire' = Wire
  BY <1>1 DEF Wire
<1>5. Said(Wire, read)' = Said(Wire, read)
  BY <1>1, <1>4 DEF Said
<1> QED
  BY <1>1, <1>2, <1>3, <1>4, <1>5 DEF Observed

\* Result is what the bytes say.
LEMMA ResultIsSaid ==
  ASSUME Observed
  PROVE  Result = Said(Wire, read)
<1>1. CASE sse
  BY <1>1 DEF Observed, Result
<1>2. CASE ~sse
  <2> DEFINE w == Wire
  <2>1. /\ buf = SubSeq(w, 1, Min({read, maxUsageBuffer}))
        /\ overflow <=> read > maxUsageBuffer
    BY <1>2 DEF Observed
  <2>2. read \in Nat /\ maxUsageBuffer \in Nat
    <3>1. body \in Body /\ read \in 0 .. Len(body)
      BY DEF Observed
    <3> QED
      BY <3>1, UsageAssumption
  <2> HIDE DEF w
  <2>3. Said(w, read) = IF read <= maxUsageBuffer THEN Parsed(SubSeq(w, 1, read)) ELSE Zero
    BY <1>2 DEF Said
  <2>4. read <= maxUsageBuffer => buf = SubSeq(w, 1, read)
    BY <2>1, <2>2, MinOfTwo
  <2>5. Result = IF overflow THEN Zero ELSE Parsed(buf)
    BY <1>2 DEF Result
  <2>6. ASSUME read <= maxUsageBuffer PROVE Result = Said(w, read)
    <3>1. ~(read > maxUsageBuffer)
      BY <2>2, <2>6
    <3>2. ~overflow
      BY <2>1, <3>1
    <3>3. Result = Parsed(buf)
      BY <2>5, <3>2
    <3>4. buf = SubSeq(w, 1, read)
      BY <2>4, <2>6
    <3> QED
      BY <2>3, <2>6, <3>3, <3>4
  <2>7. ASSUME read > maxUsageBuffer PROVE Result = Said(w, read)
    BY <2>1, <2>2, <2>3, <2>5, <2>7
  <2>8. Result = Said(w, read)
    BY <2>2, <2>6, <2>7
  <2> QED
    BY <2>8 DEF w
<1> QED
  BY <1>1, <1>2

\* Recording the result, and nothing else, ends the observation.
LEMMA RecordObserved ==
  ASSUME Observed, RecordUsage
  PROVE  Observed'
<1>1. /\ body' = body /\ encoded' = encoded /\ sse' = sse /\ read' = read /\ sent' = sent
      /\ buf' = buf /\ overflow' = overflow /\ pending' = pending /\ usage' = usage
      /\ pc' = "done" /\ recorded' = Result
  BY DEF RecordUsage, observer
<1>2. Wire' = Wire
  BY <1>1 DEF Wire
<1>3. Said(Wire, read)' = Said(Wire, read)
  BY <1>1, <1>2 DEF Said
<1>4. recorded' = Said(Wire, read)'
  BY <1>1, <1>3, ResultIsSaid
<1> QED
  BY <1>1, <1>2, <1>3, <1>4 DEF Observed

\* In every behaviour the observer holds what the bytes that were read say.
THEOREM AlwaysObserved == Spec => []Observed
<1>1. Observed /\ [Next]_vars => Observed'
  BY ReadObserved, WriteObserved, RecordObserved DEF Next, Done
<1> QED
  BY <1>1, InitObserved, PTL DEF Spec

(***************************************************************************)
(* Theorems                                                                *)
(***************************************************************************)

\* In every behaviour: what is recorded of a response depends on the bytes that were
\* read, and on nothing else; not on where the network or the buffer cut them.
THEOREM ChunksHold == Spec => []ChunksDoNotMatter
<1>1. Observed => ChunksDoNotMatter
  BY DEF Observed, ChunksDoNotMatter
<1> QED
  BY <1>1, AlwaysObserved, PTL

\* In every behaviour: of an event stream that is not compressed, at least what the
\* client was told is counted, however early it hung up.
THEOREM StreamsCounted == Spec => []StreamedIsCounted
<1>1. ASSUME Observed, pc = "done", sse, ~encoded, NEW c \in Counter
      PROVE  recorded[c] >= Said(body, sent)[c]
  <2>1. body \in Seq(Byte) /\ Wire = body /\ read \in 0 .. Len(body) /\ sent \in 0 .. read
    BY <1>1, UsageAssumption DEF Observed, Wire
  <2> DEFINE u == SubSeq(body, 1, sent)
             v == SubSeq(body, 1, read)
  <2>2. recorded = Said(body, read)
    BY <1>1, <2>1 DEF Observed
  <2>3. recorded[c] = Highest(Lines(v), c)
    BY <1>1, <2>2, SaidOfStream
  <2>4. Said(body, sent)[c] = Highest(Lines(u), c)
    BY <1>1, SaidOfStream
  <2>5. Lines(u) \subseteq Lines(v)
    <3>1. Lines(v) = Lines(u) \cup Lines(Rest(u) \o SubSeq(body, sent + 1, read))
      BY <2>1, LinesJoin
    <3> QED
      BY <3>1
  <2>6. u \in Seq(Byte) /\ v \in Seq(Byte)
    <3>1. ASSUME NEW k \in 0 .. Len(body) PROVE SubSeq(body, 1, k) \in Seq(Byte)
      <4>1. 0 \in 0 .. k /\ 0 + 1 = 1
        OBVIOUS
      <4>2. SubSeq(body, 0 + 1, k) \in Seq(Byte)
        BY <2>1, <4>1, Slice
      <4> QED
        BY <4>1, <4>2
    <3>2. sent \in 0 .. Len(body)
      BY <2>1
    <3> QED
      BY <2>1, <3>1, <3>2
  <2> HIDE DEF u, v
  <2>7. Highest(Lines(v), c) >= Highest(Lines(u), c)
    BY <2>5, <2>6, HighestGrows
  <2> QED
    BY <2>3, <2>4, <2>7
<1>2. Observed => StreamedIsCounted
  BY <1>1 DEF StreamedIsCounted
<1> QED
  BY <1>2, AlwaysObserved, PTL
=============================================================================
