------------------------- MODULE RequestChainProofs -------------------------
(***************************************************************************)
(* Theorems of RequestChain, for every value of its constants.             *)
(***************************************************************************)
EXTENDS RequestChain, FoldLemmas, SequenceTheorems, TLAPS

(***************************************************************************)
(* One attempt                                                             *)
(***************************************************************************)

Bare(msg) == msg.authorization = None /\ msg.apiKey = None

\* The credential of one member at most, in the header its type wants.
CarriesOnly(msg, m) ==
  /\ msg.authorization \in {None, m}
  /\ msg.apiKey \in {None, m}
  /\ None \in {msg.authorization, msg.apiKey}

\* AuthHeaders touches one credential header and the betas, and send the model.
LEMMA OutgoingCarries ==
  ASSUME NEW msg \in Message, NEW m, Bare(msg), NEW out \in Outgoing(msg, m)
  PROVE  CarriesOnly(out, m)
<1>1. PICK auth \in Authorized(msg, m), x \in Rewritten(msg, m) :
        out = [auth EXCEPT !.model = x]
  BY DEF Outgoing
<1>2. WithCredential(msg, m) \in
        {[msg EXCEPT !.authorization = m, !.betas = MergedBetas(@)],
         [msg EXCEPT !.apiKey = m], [msg EXCEPT !.authorization = m]}
  BY DEF WithCredential
<1>3. CASE auth = msg
  BY <1>1, <1>3 DEF Message, Bare, CarriesOnly
<1>4. CASE auth = [msg EXCEPT !.authorization = m, !.betas = MergedBetas(@)]
  BY <1>1, <1>4 DEF Message, Bare, CarriesOnly
<1>5. CASE auth = [msg EXCEPT !.apiKey = m]
  BY <1>1, <1>5 DEF Message, Bare, CarriesOnly
<1>6. CASE auth = [msg EXCEPT !.authorization = m]
  BY <1>1, <1>6 DEF Message, Bare, CarriesOnly
<1> QED
  BY <1>1, <1>2, <1>3, <1>4, <1>5, <1>6 DEF Authorized

\* A single line of betas survives the merge.
LEMMA OutgoingBetas ==
  ASSUME NEW msg \in Message, NEW m, Len(msg.betas) = 1, NEW out \in Outgoing(msg, m)
  PROVE  msg.betas[1] \subseteq out.betas[1]
<1>1. PICK auth \in Authorized(msg, m), x \in Rewritten(msg, m) :
        out = [auth EXCEPT !.model = x]
  BY DEF Outgoing
<1>2. msg.betas[1] \subseteq MergedBetas(msg.betas)[1]
  BY DEF MergedBetas
<1>3. auth.betas \in {msg.betas, MergedBetas(msg.betas)} /\ out.betas = auth.betas
  BY <1>1 DEF Authorized, WithCredential, Message
<1> QED
  BY <1>2, <1>3

(***************************************************************************)
(* The address                                                             *)
(***************************************************************************)

\* forwardedFor hop by hop: F[k] is what the first k parts leave.
LEMMA HopsOneByOne ==
  ASSUME NEW parts \in Seq(Address \cup {Blank})
  PROVE  \E F : /\ F[0] = <<>>
                /\ \A k \in 0 .. Len(parts) - 1 :
                     F[k + 1] = IF parts[k + 1] = Blank THEN F[k] ELSE Append(F[k], parts[k + 1])
                /\ forwardedFor(parts) = F[Len(parts)]
<1> DEFINE n == Len(parts)
           V == Seq(Address)
           Step(v, i) == IF parts[i] = Blank THEN v ELSE Append(v, parts[i])
           G == [i \in 1 .. n |-> [v \in V |-> Step(v, i)]]
           Fold(it) == it = [s \in SUBSET (DOMAIN parts) |->
                              IF s = {} THEN <<>> ELSE Step(it[s \ {Max(s)}], Max(s))]
<1>1. n \in Nat /\ DOMAIN parts = 1 .. n /\ \A i \in 1 .. n : parts[i] \in Address \cup {Blank}
  OBVIOUS
<1>2. <<>> \in V /\ G \in [1 .. n -> [V -> V]]
  <2>1. \A i \in 1 .. n, v \in V : Step(v, i) \in V
    BY <1>1
  <2> HIDE DEF Step
  <2> QED
    BY <2>1
<1>3. PICK g \in [SUBSET (1 .. n) -> V] : IsFold(g, 1 .. n, MaxOf(n), <<>>, G)
  <2> HIDE DEF n, V, G
  <2> QED
    BY <1>1, <1>2, LeftFoldExists DEF HasFold
<1>4. Fold(g)
  <2>1. ASSUME NEW s \in SUBSET (1 .. n), s # {}
        PROVE  G[MaxOf(n)[s]][g[s \ {MaxOf(n)[s]}]] = Step(g[s \ {Max(s)}], Max(s))
    <3>1. MaxOf(n)[s] = Max(s) /\ Max(s) \in 1 .. n
      <4> HIDE DEF n
      <4> QED
        BY <1>1, <2>1, MaxOfPicks
    <3>2. g[s \ {Max(s)}] \in V
      <4> HIDE DEF V, n
      <4> QED
        BY <1>3
    <3> HIDE DEF V, n, Step
    <3> QED
      BY <3>1, <3>2
  <2>2. g = [s \in SUBSET (1 .. n) |-> IF s = {} THEN <<>> ELSE G[MaxOf(n)[s]][g[s \ {MaxOf(n)[s]}]]]
    BY <1>3 DEF IsFold
  <2> HIDE DEF V, n, Step, G
  <2> QED
    BY <1>1, <2>1, <2>2
<1> DEFINE it == CHOOSE h : Fold(h)
           F == [k \in 0 .. n |-> it[1 .. k]]
<1>5. Fold(it)
  <2> HIDE DEF Fold
  <2> QED
    BY <1>4
<1>6. forwardedFor(parts) = it[DOMAIN parts]
  BY DEF forwardedFor, FoldLeft, MapThenFoldSet
<1>7. F[0] = <<>>
  <2>1. 1 .. 0 = {} /\ {} \in SUBSET (DOMAIN parts)
    OBVIOUS
  <2>2. it[{}] = <<>>
    <3> HIDE DEF it, Step
    <3> QED
      BY <1>5, <2>1
  <2> HIDE DEF it
  <2> QED
    BY <1>1, <2>1, <2>2
<1>8. ASSUME NEW k \in 0 .. n - 1 PROVE F[k + 1] = Step(F[k], k + 1)
  <2>1. k \in Nat /\ k \in 0 .. n /\ k + 1 \in 0 .. n /\ 1 .. (k + 1) \in SUBSET (DOMAIN parts)
    BY <1>1
  <2>2. it[1 .. (k + 1)] = Step(it[(1 .. (k + 1)) \ {Max(1 .. (k + 1))}], Max(1 .. (k + 1)))
    <3>1. 1 .. (k + 1) # {}
      BY <2>1, PrefixMax
    <3> HIDE DEF it, Step
    <3> QED
      BY <1>5, <2>1, <3>1
  <2>3. it[1 .. (k + 1)] = Step(it[1 .. k], k + 1)
    <3> HIDE DEF it, Step
    <3> QED
      BY <2>1, <2>2, PrefixMax
  <2> HIDE DEF it, Step
  <2> QED
    BY <2>1, <2>3
<1>9. F[n] = it[DOMAIN parts]
  <2> HIDE DEF it
  <2> QED
    BY <1>1
<1> HIDE DEF F, it
<1> QED
  BY <1>6, <1>7, <1>8, <1>9

\* A hop after which there are only trusted ones and empty parts is the last of
\* those that are not trusted.
LEMMA LastOutsider ==
  ASSUME NEW parts \in Seq(Address \cup {Blank}), NEW j \in 1 .. Len(parts),
         parts[j] # Blank, ~isTrusted(parts[j]),
         \A i \in j + 1 .. Len(parts) : parts[i] = Blank \/ isTrusted(parts[i])
  PROVE  /\ forwardedFor(parts) \in Seq(Address)
         /\ \E q \in 1 .. Len(forwardedFor(parts)) :
              /\ forwardedFor(parts)[q] = parts[j]
              /\ \A i \in q + 1 .. Len(forwardedFor(parts)) : isTrusted(forwardedFor(parts)[i])
<1> DEFINE n == Len(parts)
           Ends(v) == \E q \in 1 .. Len(v) : /\ v[q] = parts[j]
                                            /\ \A i \in q + 1 .. Len(v) : isTrusted(v[i])
<1>1. PICK F : /\ F[0] = <<>>
               /\ \A k \in 0 .. n - 1 :
                    F[k + 1] = IF parts[k + 1] = Blank THEN F[k] ELSE Append(F[k], parts[k + 1])
               /\ forwardedFor(parts) = F[n]
  BY HopsOneByOne
<1> DEFINE Good(k) == F[k] \in Seq(Address) /\ (j <= k => Ends(F[k]))
           Holds == {k \in Nat : k <= n => Good(k)}
<1>2. n \in Nat /\ j \in 1 .. n /\ \A i \in 1 .. n : parts[i] \in Address \cup {Blank}
  OBVIOUS
<1>3. 0 \in Holds
  <2>1. F[0] \in Seq(Address) /\ ~(j <= 0)
    BY <1>1, <1>2
  <2>2. Good(0)
    BY <2>1
  <2> HIDE DEF Good
  <2> QED
    BY <2>2
<1>4. ASSUME NEW k \in Nat, k \in Holds, k + 1 <= n PROVE Good(k + 1)
  <2>1. k \in 0 .. n - 1 /\ k + 1 \in 1 .. n
    BY <1>2, <1>4
  <2>2. F[k + 1] = IF parts[k + 1] = Blank THEN F[k] ELSE Append(F[k], parts[k + 1])
    BY <1>1, <2>1
  <2>3. Good(k)
    <3>1. k <= n
      BY <1>2, <1>4
    <3> HIDE DEF Good
    <3> QED
      BY <1>4, <3>1
  <2>4. F[k] \in Seq(Address) /\ (j <= k => Ends(F[k]))
    BY <2>3
  <2>5. CASE parts[k + 1] = Blank
    <3>1. j # k + 1 /\ F[k + 1] = F[k]
      BY <2>2, <2>5
    <3> HIDE DEF Ends
    <3> QED
      BY <1>2, <2>1, <2>4, <3>1
  <2>6. CASE parts[k + 1] # Blank
    <3> DEFINE v == F[k]
               a == parts[k + 1]
               u == Append(v, a)
    <3>1. F[k + 1] = u /\ a \in Address /\ v \in Seq(Address)
      BY <1>2, <2>1, <2>2, <2>4, <2>6
    <3>2. /\ u \in Seq(Address) /\ Len(u) = Len(v) + 1 /\ Len(v) \in Nat
          /\ u[Len(v) + 1] = a /\ \A i \in 1 .. Len(v) : u[i] = v[i]
      <4> HIDE DEF v, a
      <4> QED
        BY <3>1
    <3>3. CASE j = k + 1
      <4>1. Len(u) \in 1 .. Len(u) /\ u[Len(u)] = parts[j] /\ Len(u) + 1 .. Len(u) = {}
        <5> HIDE DEF u, v
        <5> QED
          BY <3>2, <3>3
      <4>2. Ends(u)
        <5> HIDE DEF u
        <5> QED
          BY <4>1
      <4> QED
        BY <3>1, <3>2, <4>2
    <3>4. CASE j <= k
      <4>1. isTrusted(a)
        <5>1. k + 1 \in j + 1 .. n
          BY <1>2, <2>1, <3>4
        <5> QED
          BY <2>6, <5>1
      <4>2. PICK q \in 1 .. Len(v) : /\ v[q] = parts[j]
                                     /\ \A i \in q + 1 .. Len(v) : isTrusted(v[i])
        BY <2>4, <3>4
      <4>3. q \in 1 .. Len(u) /\ u[q] = parts[j]
        <5> HIDE DEF u, v
        <5> QED
          BY <3>2, <4>2
      <4>4. ASSUME NEW i \in q + 1 .. Len(u) PROVE isTrusted(u[i])
        <5>1. i = Len(v) + 1 \/ (i \in q + 1 .. Len(v) /\ i \in 1 .. Len(v))
          <6> HIDE DEF u, v
          <6> QED
            BY <3>2, <4>2
        <5> HIDE DEF u, v
        <5> QED
          BY <3>2, <4>1, <4>2, <5>1
      <4>5. Ends(u)
        <5> HIDE DEF u
        <5> QED
          BY <4>3, <4>4
      <4> QED
        BY <3>1, <3>2, <4>5
    <3>5. CASE j > k + 1
      <4>1. ~(j <= k + 1)
        BY <1>2, <3>5
      <4> QED
        BY <3>1, <3>2, <4>1
    <3>6. j = k + 1 \/ j <= k \/ j > k + 1
      BY <1>2
    <3> QED
      BY <3>3, <3>4, <3>5, <3>6
  <2> QED
    BY <2>5, <2>6
<1>5. Holds = Nat
  <2>1. ASSUME NEW k \in Nat, k \in Holds PROVE k + 1 \in Holds
    <3> HIDE DEF Good
    <3> QED
      BY <1>4, <2>1
  <2>2. Holds \in SUBSET Nat
    OBVIOUS
  <2> HIDE DEF Holds
  <2> QED
    BY <1>3, <2>1, <2>2, Induction
<1>6. Good(n)
  <2>1. n \in Holds
    <3> HIDE DEF Holds
    <3> QED
      BY <1>2, <1>5
  <2> HIDE DEF Good
  <2> QED
    BY <1>2, <2>1
<1> QED
  <2>1. F[n] \in Seq(Address) /\ Ends(F[n])
    BY <1>2, <1>6
  <2> QED
    BY <1>1, <2>1

\* The walk from the right finds the last node of the path that is no trusted proxy,
\* past whatever the client had written itself.
LEMMA FromRequestOutsider ==
  ASSUME NEW path \in Seq(Address) \ {<<>>}, NEW forged \in Seq(Address \cup {Blank}),
         NEW o, o = SelectLastInSeq(path, LAMBDA a : ~isTrusted(a)), o # 0
  PROVE  FromRequest(Last(path), forged \o Front(path)) = path[o]
<1> DEFINE n     == Len(path)
           f     == Len(forged)
           parts == forged \o Front(path)
           I     == {i \in 1 .. n : ~isTrusted(path[i])}
<1>1. /\ n \in Nat /\ n > 0 /\ f \in Nat
      /\ \A i \in 1 .. n : path[i] \in Address /\ path[i] # Blank
      /\ path \in Seq(Address \cup {Blank})
  BY AddressAssumption
<1>2. o \in 1 .. n /\ ~isTrusted(path[o]) /\ \A i \in 1 .. n : i > o => isTrusted(path[i])
  <2>1. I # {} /\ o = Max(I)
    BY DEF SelectLastInSeq
  <2>2. I \in SUBSET Nat /\ \A i \in I : i <= n
    BY <1>1
  <2>3. o \in I /\ \A i \in I : i <= o
    <3> HIDE DEF I
    <3> QED
      BY <1>1, <2>1, <2>2, MaxIsGreatest
  <2>4. o \in 1 .. n /\ ~isTrusted(path[o])
    BY <2>3
  <2>5. ASSUME NEW i \in 1 .. n, i > o, ~isTrusted(path[i]) PROVE FALSE
    <3>1. i \in I
      BY <2>5
    <3>2. i <= o
      BY <2>3, <3>1
    <3> HIDE DEF n, I
    <3> QED
      BY <1>1, <2>4, <2>5, <3>2
  <2> HIDE DEF n, I
  <2> QED
    BY <2>4, <2>5
<1>3. Last(path) = path[n]
  BY DEF Last
<1>4. CASE o = n
  BY <1>2, <1>3, <1>4 DEF FromRequest
<1>5. CASE o < n
  <2>1. /\ Front(path) \in Seq(Address \cup {Blank}) /\ Len(Front(path)) = n - 1
        /\ \A i \in 1 .. n - 1 : Front(path)[i] = path[i]
    <3>1. Front(path) = SubSeq(path, 1, n - 1)
      BY DEF Front
    <3>2. /\ SubSeq(path, 1, n - 1) \in Seq(Address \cup {Blank})
          /\ Len(SubSeq(path, 1, n - 1)) = n - 1
          /\ \A i \in 1 .. n - 1 : SubSeq(path, 1, n - 1)[i] = path[i]
      <4> DEFINE k == n - 1
      <4>1. k \in Nat /\ k - 1 + 1 = k /\ \A i \in 1 .. k : 1 + i - 1 = i
        BY <1>1
      <4>2. \A i \in 1 .. k : path[i] \in Address \cup {Blank}
        BY <1>1
      <4> HIDE DEF k
      <4>3. /\ SubSeq(path, 1, k) \in Seq(Address \cup {Blank})
            /\ Len(SubSeq(path, 1, k)) = IF 1 <= k THEN k - 1 + 1 ELSE 0
            /\ \A i \in 1 .. k - 1 + 1 : SubSeq(path, 1, k)[i] = path[1 + i - 1]
        BY <4>1, <4>2, SubSeqProperties
      <4>4. Len(SubSeq(path, 1, k)) = k
        BY <4>1, <4>3
      <4>5. \A i \in 1 .. k : SubSeq(path, 1, k)[i] = path[i]
        BY <4>1, <4>3
      <4> QED
        BY <4>3, <4>4, <4>5 DEF k
    <3> QED
      BY <3>1, <3>2
  <2>2. /\ parts \in Seq(Address \cup {Blank}) /\ Len(parts) = f + n - 1
        /\ \A i \in 1 .. n - 1 : parts[f + i] = path[i]
    <3>1. /\ parts \in Seq(Address \cup {Blank}) /\ Len(parts) = f + Len(Front(path))
          /\ \A i \in 1 .. Len(Front(path)) : parts[f + i] = Front(path)[i]
      <4> DEFINE front == Front(path)
      <4>1. front \in Seq(Address \cup {Blank})
        BY <2>1
      <4> HIDE DEF front
      <4>2. /\ forged \o front \in Seq(Address \cup {Blank})
            /\ Len(forged \o front) = Len(forged) + Len(front)
            /\ \A i \in 1 .. Len(front) : (forged \o front)[Len(forged) + i] = front[i]
        BY <4>1
      <4> QED
        BY <4>2 DEF front
    <3> HIDE DEF parts, n, f
    <3> QED
      BY <1>1, <2>1, <3>1
  <2> DEFINE j == f + o
             hops == forwardedFor(parts)
             J == {i \in 1 .. Len(hops) : ~isTrusted(hops[i])}
  <2>3. j \in 1 .. Len(parts) /\ parts[j] = path[o] /\ parts[j] # Blank
    <3>1. o \in 1 .. n - 1
      BY <1>1, <1>2, <1>5
    <3> HIDE DEF parts, n, f
    <3> QED
      BY <1>1, <1>2, <1>5, <2>2, <3>1
  <2>4. ASSUME NEW i \in j + 1 .. Len(parts) PROVE isTrusted(parts[i])
    <3>1. i - f \in 1 .. n - 1 /\ i - f > o /\ f + (i - f) = i /\ i - f \in 1 .. n
      <4> HIDE DEF parts, n, f
      <4> QED
        BY <1>1, <1>2, <2>2
    <3> HIDE DEF parts, n, f, j
    <3> QED
      BY <1>2, <2>2, <3>1
  <2>5. /\ hops \in Seq(Address)
        /\ \E q \in 1 .. Len(hops) : /\ hops[q] = parts[j]
                                     /\ \A i \in q + 1 .. Len(hops) : isTrusted(hops[i])
    <3> HIDE DEF parts, j
    <3> QED
      BY <1>2, <2>2, <2>3, <2>4, LastOutsider
  <2>6. PICK q \in 1 .. Len(hops) : /\ hops[q] = parts[j]
                                    /\ \A i \in q + 1 .. Len(hops) : isTrusted(hops[i])
    BY <2>5
  <2>7. Len(hops) \in Nat
    <3> HIDE DEF hops
    <3> QED
      BY <2>5
  <2>8. q \in J /\ \A i \in J : i <= q
    <3> HIDE DEF hops, parts, j
    <3> QED
      BY <1>2, <2>3, <2>6, <2>7
  <2>9. Max(J) = q
    <3>1. J \in SUBSET Nat /\ J # {} /\ \A i \in J : i <= Len(hops)
      <4> HIDE DEF hops
      <4> QED
        BY <2>7, <2>8
    <3>2. Max(J) \in J /\ \A i \in J : i <= Max(J)
      <4> HIDE DEF J
      <4> QED
        BY <2>7, <3>1, MaxIsGreatest
    <3>3. Max(J) <= q /\ q <= Max(J) /\ q \in Nat /\ Max(J) \in Nat
      <4> HIDE DEF J
      <4> QED
        BY <2>8, <3>1, <3>2
    <3> HIDE DEF J
    <3> QED
      BY <3>3
  <2>10. SelectLastInSeq(hops, LAMBDA h : ~isTrusted(h)) = q
    <3> HIDE DEF hops
    <3> QED
      BY <2>8, <2>9 DEF SelectLastInSeq
  <2>11. isTrusted(path[n]) /\ q # 0
    <3> HIDE DEF n, hops
    <3>1. n \in 1 .. n /\ n > o
      BY <1>1, <1>2, <1>5
    <3>2. q # 0
      BY <2>6, <2>7
    <3> QED
      BY <1>2, <3>1, <3>2
  <2>12. FromRequest(path[n], parts) = hops[q]
    <3> HIDE DEF parts, n
    <3> QED
      BY <2>10, <2>11 DEF FromRequest
  <2> QED
    BY <1>3, <2>3, <2>6, <2>12
<1> QED
  BY <1>1, <1>2, <1>4, <1>5

(***************************************************************************)
(* The model                                                               *)
(***************************************************************************)

\* S has what a rule makes of the model, if there is one, and no rule leads out of S.
RulesStay(map, model, S) ==
  /\ model \in DOMAIN map => map[model] \in S
  /\ \A z \in S \cap DOMAIN map : map[z] \in S

\* x is a name that the map gives the model of msg, or there is none.
Named(map, msg, x) ==
  \/ x = None
  \/ IF msg.plain /\ msg.model \in DOMAIN map THEN LeadsTo(map, msg.model, x)
     ELSE x = msg.model

\* A sequence in SetToSeqs(D) has every member of a finite D.
LEMMA OrderCovers ==
  ASSUME NEW D, IsFiniteSet(D), NEW order \in SetToSeqs(D)
  PROVE  \E n \in Nat : order \in [1 .. n -> D] /\ \A d \in D : \E i \in 1 .. n : order[i] = d
<1> DEFINE n == Cardinality(D)
<1>1. n \in Nat
  BY FS_CardinalityType
<1>2. order \in [1 .. n -> D] /\ \A i, j \in 1 .. n : i # j => order[i] # order[j]
  BY DEF SetToSeqs
<1>3. order \in Injection(1 .. n, D)
  <2> HIDE DEF n
  <2> QED
    BY <1>2 DEF Injection, IsInjective
<1>4. Cardinality(1 .. n) = n
  <2> HIDE DEF n
  <2>1. Cardinality(1 .. n) = IF 1 > n THEN 0 ELSE n - 1 + 1
    BY <1>1, FS_Interval
  <2> QED
    BY <1>1, <2>1
<1>5. order \in Surjection(1 .. n, D)
  BY <1>3, <1>4, FS_Injection
<1>6. \A d \in D : \E i \in 1 .. n : order[i] = d
  <2> HIDE DEF n
  <2> QED
    BY <1>5 DEF Surjection
<1>7. order \in [1 .. n -> D]
  BY <1>2
<1> HIDE DEF n
<1> QED
  BY <1>1, <1>6, <1>7

\* What RewriteBody makes of a plain model if Go iterates the map in this order.
Walk(m, model, order) ==
  FoldLeft(LAMBDA v, from : IF v = from THEN ModelMap[m][from] ELSE v, model, order)

\* One walk over the map, in whatever order Go iterates it: a model with a rule ends
\* where the rules lead, and one without stays as it is.
LEMMA WalkFollowsRules ==
  ASSUME NEW m \in Member, NEW model, NEW S, RulesStay(ModelMap[m], model, S),
         NEW order \in SetToSeqs(DOMAIN ModelMap[m])
  PROVE  /\ model \in DOMAIN ModelMap[m] => Walk(m, model, order) \in S
         /\ model \notin DOMAIN ModelMap[m] => Walk(m, model, order) = model
<1> DEFINE map == ModelMap[m]
           D == DOMAIN map
           x == Walk(m, model, order)
<1>2. IsFiniteSet(D)
  BY ForwarderAssumption
<1>3. PICK n \in Nat : order \in [1 .. n -> D] /\ \A d \in D : \E i \in 1 .. n : order[i] = d
  <2>1. order \in SetToSeqs(D)
    OBVIOUS
  <2> HIDE DEF D
  <2> QED
    BY <1>2, <2>1, OrderCovers
<1> DEFINE V == {model} \cup {map[d] : d \in D}
           Step(v, i) == IF v = order[i] THEN map[order[i]] ELSE v
           G == [i \in 1 .. n |-> [v \in V |-> Step(v, i)]]
           Fold(it) == it = [s \in SUBSET (DOMAIN order) |->
                              IF s = {} THEN model ELSE Step(it[s \ {Max(s)}], Max(s))]
<1>4. model \in V /\ G \in [1 .. n -> [V -> V]]
  <2>1. \A i \in 1 .. n, v \in V : Step(v, i) \in V
    <3> HIDE DEF D, map
    <3> QED
      BY <1>3
  <2>2. model \in V
    OBVIOUS
  <2> HIDE DEF Step, V
  <2> QED
    BY <2>1, <2>2
<1>5. PICK g \in [SUBSET (1 .. n) -> V] : IsFold(g, 1 .. n, MaxOf(n), model, G)
  <2> HIDE DEF V, G
  <2> QED
    BY <1>4, LeftFoldExists DEF HasFold
<1>6. Fold(g)
  <2>1. ASSUME NEW s \in SUBSET (1 .. n), s # {}
        PROVE  G[MaxOf(n)[s]][g[s \ {MaxOf(n)[s]}]] = Step(g[s \ {Max(s)}], Max(s))
    <3>1. MaxOf(n)[s] = Max(s) /\ Max(s) \in 1 .. n
      BY <2>1, MaxOfPicks
    <3>2. g[s \ {Max(s)}] \in V
      <4> HIDE DEF V
      <4> QED
        BY <1>5
    <3> HIDE DEF V, Step
    <3> QED
      BY <3>1, <3>2
  <2>2. g = [s \in SUBSET (1 .. n) |-> IF s = {} THEN model ELSE G[MaxOf(n)[s]][g[s \ {MaxOf(n)[s]}]]]
    BY <1>5 DEF IsFold
  <2>3. DOMAIN order = 1 .. n
    BY <1>3
  <2> HIDE DEF V, Step, G
  <2> QED
    BY <2>1, <2>2, <2>3
<1> DEFINE it == CHOOSE h : Fold(h)
<1>7. Fold(it)
  <2> HIDE DEF Fold
  <2> QED
    BY <1>6
<1>8. x = it[1 .. n]
  <2>1. DOMAIN order = 1 .. n
    BY <1>3
  <2>2. x = it[DOMAIN order]
    BY DEF Walk, FoldLeft, MapThenFoldSet
  <2> HIDE DEF it
  <2> QED
    BY <2>1, <2>2
<1> DEFINE Taken(k) == \E i \in 1 .. k : order[i] = model
           Good(k) == IF Taken(k) THEN it[1 .. k] \in S ELSE it[1 .. k] = model
           Holds == {k \in Nat : k <= n => Good(k)}
<1>9. 0 \in Holds
  <2>1. 1 .. 0 = {} /\ {} \in SUBSET (DOMAIN order)
    OBVIOUS
  <2>2. it[{}] = model
    <3> HIDE DEF it, Step
    <3> QED
      BY <1>7, <2>1
  <2>3. Good(0)
    <3> HIDE DEF it
    <3> QED
      BY <2>1, <2>2
  <2> HIDE DEF Good
  <2> QED
    BY <2>3
<1>10. ASSUME NEW k \in Nat, k \in Holds, k + 1 <= n PROVE Good(k + 1)
  <2>1. k <= n /\ k + 1 \in 1 .. n /\ 1 .. (k + 1) \in SUBSET (DOMAIN order) /\ 1 .. (k + 1) # {}
    <3>1. DOMAIN order = 1 .. n
      BY <1>3
    <3>2. k <= n /\ k + 1 \in 1 .. n /\ 1 .. (k + 1) \in SUBSET (1 .. n)
      BY <1>10
    <3> QED
      BY <3>1, <3>2, PrefixMax
  <2>2. it[1 .. (k + 1)] = Step(it[1 .. k], k + 1)
    <3>1. it[1 .. (k + 1)] = Step(it[(1 .. (k + 1)) \ {Max(1 .. (k + 1))}], Max(1 .. (k + 1)))
      <4> HIDE DEF it, Step
      <4> QED
        BY <1>7, <2>1
    <3> HIDE DEF it, Step
    <3> QED
      BY <3>1, PrefixMax
  <2>3. Good(k)
    <3> HIDE DEF Good
    <3> QED
      BY <1>10, <2>1
  <2> DEFINE a == order[k + 1]
             v == it[1 .. k]
             w == it[1 .. (k + 1)]
  <2>4. a \in D /\ w = IF v = a THEN map[a] ELSE v
    <3> HIDE DEF it, D, map
    <3> QED
      BY <1>3, <2>1, <2>2
  <2>5. Taken(k + 1) <=> Taken(k) \/ a = model
    <3>1. 1 .. (k + 1) = 1 .. k \cup {k + 1}
      OBVIOUS
    <3> QED
      BY <3>1
  <2>6. IF Taken(k) THEN v \in S ELSE v = model
    BY <2>3
  <2>7. Taken(k) \/ a = model => model \in D
    <3>1. Taken(k) => model \in D
      <4> HIDE DEF D
      <4> QED
        BY <1>3, <2>1
    <3> HIDE DEF Taken, a, D
    <3> QED
      BY <2>4, <3>1
  <2>8. IF Taken(k + 1) THEN w \in S ELSE w = model
    <3>1. /\ model \in D => map[model] \in S
          /\ \A z \in S \cap D : map[z] \in S
      BY DEF RulesStay
    <3> HIDE DEF v, w, a, Taken, D, map
    <3> QED
      BY <2>4, <2>5, <2>6, <2>7, <3>1
  <2> QED
    BY <2>8
<1>11. Holds = Nat
  <2>1. ASSUME NEW k \in Nat, k \in Holds PROVE k + 1 \in Holds
    <3> HIDE DEF Good
    <3> QED
      BY <1>10, <2>1
  <2>2. Holds \in SUBSET Nat
    OBVIOUS
  <2> HIDE DEF Holds
  <2> QED
    BY <1>9, <2>1, <2>2, Induction
<1>12. Good(n)
  <2>1. n \in Holds
    <3> HIDE DEF Holds
    <3> QED
      BY <1>11
  <2> HIDE DEF Good
  <2> QED
    BY <2>1
<1>13. Taken(n) <=> model \in D
  <2> HIDE DEF D
  <2> QED
    BY <1>3
<1>14. IF Taken(n) THEN it[1 .. n] \in S ELSE it[1 .. n] = model
  BY <1>12
<1> HIDE DEF it, Taken
<1> QED
  BY <1>8, <1>13, <1>14

\* RewriteBody gives the model of msg a name that the rules of the map lead to, and
\* none but its own if it has no rule or is spelt otherwise.
LEMMA RewrittenByRules ==
  ASSUME NEW msg \in Message, NEW m \in Member, NEW x \in Rewritten(msg, m)
  PROVE  IF msg.plain /\ msg.model \in DOMAIN ModelMap[m]
         THEN LeadsTo(ModelMap[m], msg.model, x)
         ELSE x = msg.model
<1> DEFINE map == ModelMap[m]
           D == DOMAIN map
<1>1. CASE ~msg.plain
  BY <1>1 DEF Rewritten
<1>2. CASE msg.plain
  <2>1. PICK order \in SetToSeqs(D) : x = Walk(m, msg.model, order)
    BY <1>2 DEF Rewritten, Walk
  <2>2. ASSUME NEW S, RulesStay(map, msg.model, S)
        PROVE  IF msg.model \in D THEN x \in S ELSE x = msg.model
    <3>1. RulesStay(ModelMap[m], msg.model, S)
      BY <2>2
    <3>2. order \in SetToSeqs(DOMAIN ModelMap[m])
      BY <2>1
    <3> HIDE DEF D
    <3> QED
      BY <2>1, <3>1, <3>2, WalkFollowsRules DEF D
  <2>3. CASE msg.model \in D
    <3>1. ASSUME NEW S \in SUBSET {map[z] : z \in D}, map[msg.model] \in S,
                 \A z \in S \cap D : map[z] \in S
          PROVE  x \in S
      <4>1. RulesStay(map, msg.model, S)
        BY <3>1 DEF RulesStay
      <4> QED
        BY <2>2, <2>3, <4>1
    <3>2. LeadsTo(map, msg.model, x)
      <4> HIDE DEF D, map
      <4> QED
        BY <3>1 DEF LeadsTo, D
    <3> QED
      BY <1>2, <2>3, <3>2
  <2>4. CASE msg.model \notin D
    <3>1. RulesStay(map, msg.model, {map[z] : z \in D})
      BY <2>4 DEF RulesStay
    <3> QED
      BY <2>2, <2>4, <3>1
  <2> QED
    BY <2>3, <2>4
<1> QED
  BY <1>1, <1>2 DEF Message

\* What a member is sent names no model, or one its own map makes of the client's.
LEMMA OutgoingModel ==
  ASSUME NEW msg \in Message, NEW m \in Member, NEW asked,
         msg.model \in {None, asked.model}, msg.plain = asked.plain,
         NEW out \in Outgoing(msg, m)
  PROVE  Named(ModelMap[m], asked, out.model)
<1>1. PICK auth \in Authorized(msg, m), x \in Rewritten(msg, m) :
        out = [auth EXCEPT !.model = x]
  BY DEF Outgoing
<1>2. "model" \in DOMAIN auth
  BY <1>1 DEF Authorized, WithCredential, Message
<1>3. out.model = x
  BY <1>1, <1>2
<1>4. IF msg.plain /\ msg.model \in DOMAIN ModelMap[m]
      THEN LeadsTo(ModelMap[m], msg.model, x)
      ELSE x = msg.model
  BY <1>1, RewrittenByRules
<1>5. None \notin DOMAIN ModelMap[m]
  BY ForwarderAssumption
<1> QED
  BY <1>3, <1>4, <1>5 DEF Named

(***************************************************************************)
(* The way of one request                                                  *)
(***************************************************************************)
Admitted == {"body", "loop", "wait"}

\* What RealIP makes of a call.
Attributed(c) == FromRequest(Last(c.path), c.forged \o Front(c.path))

\* msg names no model, or one m's map makes of c's.
NamesModelOf(msg, m, c) == Named(ModelMap[m], c.message, msg.model)

\* Where a request is on the chain decides what is known of it.  Inductive.
Placed(r) ==
  /\ pc[r] \in {"idle", "auth", "body", "loop", "wait", "log", "done"}
  /\ pc[r] \in {"idle", "auth"} =>
       /\ client[r] = None /\ scope[r].client = None
       /\ sent[r] = None /\ status[r] = "pending"
  /\ pc[r] \in {"idle", "auth", "body", "loop", "wait", "log"} => line[r] = None
  /\ pc[r] # "idle" => /\ call[r] \in Call
                       /\ held[r] \in Message
                       /\ held[r].betas = call[r].message.betas
                       /\ held[r].model \in {None, call[r].message.model}
                       /\ held[r].plain = call[r].message.plain
                       /\ scope[r].ip = Attributed(call[r])
  /\ pc[r] \in Admitted => Bare(held[r]) /\ client[r] # None /\ status[r] = "pending"
  /\ scope[r].client = client[r]
  /\ client[r] = None => sent[r] = None
  /\ sent[r] # None => CarriesOnly(sent[r], member[r]) /\ NamesModelOf(sent[r], member[r], call[r])
  /\ sent[r] # None /\ Len(call[r].message.betas) = 1 =>
       call[r].message.betas[1] \subseteq sent[r].betas[1]
  /\ pc[r] \in {"log", "done"} =>
       (client[r] # None <=> status[r] \in {"relayed", "all upstreams failed"})
  /\ line[r] # None =>
       pc[r] = "done" /\ line[r].client = loggedClient(r) /\ line[r].ip = scope[r].ip
  /\ client[r] # None =>
       \E c \in standing[r] : c.name = client[r] /\ c.enabled # "false"
  /\ status[r] \in {"missing_credentials", "unknown_token"} => NoClient \in standing[r]
  /\ status[r] = "client_disabled" =>
       \E c \in standing[r] : c # NoClient /\ c.enabled = "false"
  /\ pc[r] = "auth" => EntriesFor(registry, presentedToken(held[r])) \subseteq standing[r]

Typed ==
  /\ registry \in {f \in RegistryFile : ValidateClients(f)}
  /\ DOMAIN pc = Request /\ DOMAIN call = Request /\ DOMAIN held = Request
  /\ DOMAIN scope = Request /\ DOMAIN client = Request /\ DOMAIN tried = Request
  /\ DOMAIN member = Request /\ DOMAIN sent = Request /\ DOMAIN status = Request
  /\ DOMAIN line = Request
  /\ \A r \in Request : scope[r] = [ip |-> scope[r].ip, client |-> scope[r].client]

AllPlaced == Typed /\ \A r \in Request : Placed(r)

\* A step that is not r's leaves these alone.
Same(r) ==
  /\ pc'[r] = pc[r]
  /\ call'[r] = call[r]
  /\ held'[r] = held[r]
  /\ scope'[r] = scope[r]
  /\ client'[r] = client[r]
  /\ member'[r] = member[r]
  /\ sent'[r] = sent[r]
  /\ status'[r] = status[r]
  /\ line'[r] = line[r]

\* What a step of r's own handlers is.
Own(r) ==
  \/ \E c \in Call : Arrive(r, c)
  \/ Reject(r)
  \/ Admit(r)
  \/ ReadBody(r)
  \/ \E m \in Member : Send(r, m)
  \/ Retry(r)
  \/ Answer(r)
  \/ Log(r)

\* What the registry says is added to the history while Auth has not decided.
LEMMA StandingGrows ==
  ASSUME Observe, NEW r \in Request
  PROVE  /\ pc'[r] # "idle" => standing[r] \subseteq standing'[r]
         /\ pc'[r] = "auth" =>
              EntriesFor(registry', presentedToken(held'[r])) \subseteq standing'[r]
         /\ pc'[r] \notin {"idle", "auth"} => standing'[r] = standing[r]
  BY DEF Observe

\* Other requests, and reloads of the registry, take a request off no place.
LEMMA SamePlaced ==
  ASSUME NEW r \in Request, Placed(r), Same(r), Observe \/ UNCHANGED <<registry, standing>>
  PROVE  Placed(r)'
<1>1. /\ pc'[r] # "idle" => standing[r] \subseteq standing'[r]
      /\ pc'[r] = "auth" =>
           EntriesFor(registry', presentedToken(held'[r])) \subseteq standing'[r]
  <2>1. CASE Observe
    BY <2>1, StandingGrows
  <2>2. CASE UNCHANGED <<registry, standing>>
    <3>1. pc[r] = "auth" => EntriesFor(registry, presentedToken(held[r])) \subseteq standing[r]
      BY DEF Placed
    <3> QED
      BY <2>2, <3>1 DEF Same
  <2> QED
    BY <2>1, <2>2
<1>2. EntriesFor(registry, presentedToken(held[r]))'
        = EntriesFor(registry', presentedToken(held'[r]))
  BY DEF EntriesFor, presentedToken
<1> QED
  BY <1>1, <1>2 DEF Placed, Same, loggedClient

\* The handlers of one request leave the others where they are.
LEMMA OthersSame ==
  ASSUME Typed, NEW r \in Request, NEW q \in Request, q # r, Own(r)
  PROVE  Same(q)
<1>1. CASE \E c \in Call : Arrive(r, c)
  BY <1>1 DEF Typed, Same, Arrive
<1>2. CASE Reject(r)
  BY <1>2 DEF Typed, Same, Reject
<1>3. CASE Admit(r)
  BY <1>3 DEF Typed, Same, Admit
<1>4. CASE ReadBody(r)
  BY <1>4 DEF Typed, Same, ReadBody
<1>5. CASE \E m \in Member : Send(r, m)
  BY <1>5 DEF Typed, Same, Send
<1>6. CASE Retry(r)
  BY <1>6 DEF Typed, Same, Retry
<1>7. CASE Answer(r)
  BY <1>7 DEF Typed, Same, Answer
<1>8. CASE Log(r)
  BY <1>8 DEF Typed, Same, Log
<1> QED
  BY <1>1, <1>2, <1>3, <1>4, <1>5, <1>6, <1>7, <1>8 DEF Own

\* What Registry.Validate leaves of an entry.
LEMMA RegistryEntry ==
  ASSUME Typed, NEW i \in DOMAIN registry
  PROVE  registry[i].name \in Name /\ registry[i].token \in Token
<1>1. registry \in Seq(Client)
  BY ChainAssumption DEF Typed
<1>2. registry[i] \in Client
  BY <1>1
<1>3. registry[i].name # Malformed /\ registry[i].token # Malformed
  BY DEF Typed, ValidateClients
<1> QED
  BY <1>2, <1>3 DEF Client

\* RealIP opens a fresh scope.
LEMMA ArrivePlaced ==
  ASSUME Typed, NEW r \in Request, Placed(r), NEW c \in Call, Arrive(r, c)
  PROVE  Typed' /\ Placed(r)'
<1>1. Typed'
  BY DEF Typed, Arrive
<1>2. /\ pc[r] = "idle" /\ pc'[r] = "auth" /\ call'[r] = c /\ held'[r] = c.message
      /\ scope'[r].client = scope[r].client /\ scope'[r].ip = Attributed(c)
  BY DEF Typed, Arrive, Attributed
<1>3. /\ client' = client /\ sent' = sent /\ status' = status /\ line' = line
      /\ c.message \in Message
  BY ChainAssumption DEF Arrive
<1>4. EntriesFor(registry', presentedToken(held'[r])) \subseteq standing'[r]
  BY <1>2, StandingGrows DEF Arrive
<1>5. EntriesFor(registry, presentedToken(held[r]))'
        = EntriesFor(registry', presentedToken(held'[r]))
  BY DEF EntriesFor, presentedToken
<1> QED
  BY <1>1, <1>2, <1>3, <1>4, <1>5 DEF Placed, Admitted

\* A refusal is what the registry says of the token.
LEMMA RejectPlaced ==
  ASSUME Typed, NEW r \in Request, Placed(r), Reject(r)
  PROVE  Typed' /\ Placed(r)'
<1> DEFINE t     == presentedToken(held[r])
           found == Lookup(registry, t)
<1>1. Typed'
  BY DEF Typed, Reject
<1>2. /\ pc[r] = "auth" /\ pc'[r] = "log"
      /\ \A c \in found : ~IsEnabled(c)
      /\ status'[r] = CASE t = None -> "missing_credentials"
                        [] t # None /\ found = {} -> "unknown_token"
                        [] t # None /\ found # {} -> "client_disabled"
  BY DEF Typed, Reject
<1>3. /\ call' = call /\ held' = held /\ scope' = scope /\ client' = client
      /\ sent' = sent /\ line' = line /\ member' = member
      /\ standing'[r] = standing[r]
  BY <1>2, StandingGrows DEF Reject
<1>4. EntriesFor(registry, t) \subseteq standing[r]
  BY <1>2 DEF Placed
<1>5. ASSUME found = {} PROVE EntriesFor(registry, t) = {NoClient}
  BY <1>5 DEF Lookup, EntriesFor, Digest, HashToken
<1>6. CASE t = None
  <2>1. found = {}
    <3>1. ASSUME NEW i \in DOMAIN registry PROVE Digest(registry[i]) # HashToken(t)
      BY <1>6, RegistryEntry, ForwarderAssumption DEF Digest, HashToken
    <3> QED
      BY <3>1 DEF Lookup
  <2> QED
    BY <1>1, <1>2, <1>3, <1>4, <1>5, <1>6, <2>1 DEF Placed, Admitted
<1>7. CASE t # None /\ found = {}
  BY <1>1, <1>2, <1>3, <1>4, <1>5, <1>7 DEF Placed, Admitted
<1>8. CASE t # None /\ found # {}
  <2>1. PICK i \in DOMAIN registry : registry[i] \in found
    BY <1>8 DEF Lookup
  <2>2. registry[i].token = t /\ registry[i].enabled = "false"
    BY <1>2, <2>1 DEF Lookup, Digest, HashToken, IsEnabled
  <2>3. [name |-> registry[i].name, enabled |-> registry[i].enabled] \in EntriesFor(registry, t)
    BY <2>2 DEF EntriesFor
  <2>4. registry[i].name # None
    BY RegistryEntry, ChainAssumption
  <2>5. [name |-> registry[i].name, enabled |-> registry[i].enabled] # NoClient
    BY <2>4 DEF NoClient
  <2>6. status'[r] = "client_disabled"
    BY <1>2, <1>8
  <2>7. \E c \in standing'[r] : c # NoClient /\ c.enabled = "false"
    <3> DEFINE e == [name |-> registry[i].name, enabled |-> registry[i].enabled]
    <3>1. e \in standing'[r] /\ e # NoClient /\ e.enabled = "false"
      BY <1>3, <1>4, <2>2, <2>3, <2>5
    <3> QED
      BY <3>1
  <2> QED
    BY <1>1, <1>2, <1>3, <2>6, <2>7 DEF Placed, Admitted
<1> QED
  BY <1>6, <1>7, <1>8

\* Auth hands on a request without the caller's credentials, under the owner's name.
LEMMA AdmitPlaced ==
  ASSUME Typed, NEW r \in Request, Placed(r), Admit(r)
  PROVE  Typed' /\ Placed(r)'
<1>1. PICK c \in Lookup(registry, presentedToken(held[r])) :
        /\ IsEnabled(c)
        /\ scope' = [scope EXCEPT ![r].client = c.name]
        /\ client' = [client EXCEPT ![r] = c.name]
  BY DEF Admit
<1>2. PICK i \in DOMAIN registry : registry[i] = c
  BY DEF Lookup
<1>3. c.token = presentedToken(held[r]) /\ c.name # None
  BY <1>2, RegistryEntry, ChainAssumption DEF Lookup, Digest, HashToken
<1>4. Typed'
  BY <1>1 DEF Typed, Admit
<1>5. /\ pc[r] = "auth" /\ pc'[r] = "body" /\ held'[r] = stripped(held[r])
      /\ scope'[r].client = c.name /\ scope'[r].ip = scope[r].ip /\ client'[r] = c.name
      /\ call' = call /\ sent' = sent /\ status' = status /\ line' = line
      /\ standing'[r] = standing[r]
  BY <1>1, StandingGrows DEF Typed, Admit
<1>6. \E e \in standing'[r] : e.name = c.name /\ e.enabled # "false"
  <2> DEFINE e == [name |-> registry[i].name, enabled |-> registry[i].enabled]
  <2>1. e \in EntriesFor(registry, presentedToken(held[r]))
    BY <1>2, <1>3 DEF EntriesFor
  <2>2. e \in standing'[r]
    BY <1>5, <2>1 DEF Placed
  <2>3. e.name = c.name /\ e.enabled # "false"
    BY <1>1, <1>2 DEF IsEnabled
  <2> QED
    BY <2>2, <2>3
<1>7. held[r] \in Message
  BY <1>5 DEF Placed
<1>8. /\ held'[r] \in Message /\ Bare(held'[r]) /\ held'[r].betas = held[r].betas
      /\ held'[r].model = held[r].model /\ held'[r].plain = held[r].plain
  BY <1>5, <1>7 DEF stripped, Message, Bare
<1> QED
  BY <1>3, <1>4, <1>5, <1>6, <1>8 DEF Placed, Admitted

\* A body that breaks off changes no header.
LEMMA ReadBodyPlaced ==
  ASSUME Typed, NEW r \in Request, Placed(r), ReadBody(r)
  PROVE  Typed' /\ Placed(r)'
<1>1. PICK x \in {held[r].model, None} : held' = [held EXCEPT ![r].model = x]
  BY DEF ReadBody
<1>2. Typed'
  BY <1>1 DEF Typed, ReadBody
<1>3. /\ pc[r] = "body" /\ pc'[r] = "loop" /\ held'[r] = [held[r] EXCEPT !.model = x]
      /\ call' = call /\ scope' = scope /\ client' = client /\ sent' = sent /\ member' = member
      /\ status' = status /\ line' = line /\ standing'[r] = standing[r]
  BY <1>1, StandingGrows DEF Typed, ReadBody
<1>4. held[r] \in Message /\ Bare(held[r])
  BY <1>3 DEF Placed, Admitted
<1>5. /\ held'[r] \in Message /\ Bare(held'[r]) /\ held'[r].betas = held[r].betas
      /\ held'[r].model \in {held[r].model, None} /\ held'[r].plain = held[r].plain
  BY <1>3, <1>4 DEF Message, Bare
<1> QED
  BY <1>2, <1>3, <1>5 DEF Placed, Admitted

\* What the member gets was made of headers that hold no credential.
LEMMA SendPlaced ==
  ASSUME Typed, NEW r \in Request, Placed(r), NEW m \in Member, Send(r, m)
  PROVE  Typed' /\ Placed(r)'
<1>1. PICK out \in Outgoing(held[r], m) : sent' = [sent EXCEPT ![r] = out]
  BY DEF Send
<1>2. Typed'
  BY <1>1 DEF Typed, Send
<1>3. /\ pc[r] = "loop" /\ pc'[r] = "wait" /\ sent'[r] = out /\ member'[r] = m
      /\ call' = call /\ held' = held /\ scope' = scope /\ client' = client
      /\ status' = status /\ line' = line /\ standing'[r] = standing[r]
  BY <1>1, StandingGrows DEF Typed, Send
<1>4. /\ held[r] \in Message /\ Bare(held[r]) /\ client[r] # None
      /\ held[r].betas = call[r].message.betas
      /\ held[r].model \in {None, call[r].message.model}
      /\ held[r].plain = call[r].message.plain
  BY <1>3 DEF Placed, Admitted
<1>5. CarriesOnly(out, m) /\ NamesModelOf(out, m, call[r])
  BY <1>4, OutgoingCarries, OutgoingModel DEF NamesModelOf
<1>6. Len(call[r].message.betas) = 1 => call[r].message.betas[1] \subseteq out.betas[1]
  BY <1>4, OutgoingBetas
<1> QED
  BY <1>2, <1>3, <1>4, <1>5, <1>6 DEF Placed, Admitted

\* Another attempt, the reply and the log line.
LEMMA RestPlaced ==
  ASSUME Typed, NEW r \in Request, Placed(r), Retry(r) \/ Answer(r) \/ Log(r)
  PROVE  Typed' /\ Placed(r)'
<1>1. /\ registry' = registry /\ call' = call /\ held' = held /\ scope' = scope
      /\ client' = client /\ sent' = sent /\ member' = member
  BY DEF Retry, Answer, Log
<1>2. Typed'
  BY DEF Typed, Retry, Answer, Log
<1>3. CASE Retry(r)
  <2>1. /\ pc[r] = "wait" /\ pc'[r] = "loop" /\ status' = status /\ line' = line
        /\ standing'[r] = standing[r]
    BY <1>3, StandingGrows DEF Typed, Retry
  <2> QED
    BY <1>1, <1>2, <2>1 DEF Placed, Admitted
<1>4. CASE Answer(r)
  <2>1. /\ pc[r] \in {"wait", "loop"} /\ pc'[r] = "log" /\ line' = line
        /\ status'[r] \in {"relayed", "all upstreams failed"}
        /\ standing'[r] = standing[r]
    BY <1>4, StandingGrows DEF Typed, Answer
  <2> QED
    BY <1>1, <1>2, <2>1 DEF Placed, Admitted
<1>5. CASE Log(r)
  <2>1. /\ pc[r] = "log" /\ pc'[r] = "done" /\ status' = status
        /\ standing'[r] = standing[r]
    BY <1>5, StandingGrows DEF Typed, Log
  <2>2. line'[r] # None => line'[r].client = loggedClient(r) /\ line'[r].ip = scope[r].ip
    BY <1>5 DEF Typed, Placed, Log
  <2>3. loggedClient(r)' = loggedClient(r)
    BY <1>1 DEF loggedClient
  <2> QED
    BY <1>1, <1>2, <2>1, <2>2, <2>3 DEF Placed, Admitted
<1> QED
  BY <1>3, <1>4, <1>5

\* No request has arrived.
LEMMA InitPlaced == Init => AllPlaced
  BY DEF Init, AllPlaced, Typed, Placed, Admitted

\* Every step keeps every request in its place.
LEMMA NextPlaced ==
  ASSUME AllPlaced, [Next]_vars
  PROVE  AllPlaced'
<1>1. ASSUME NEW r \in Request, Own(r)
      PROVE  AllPlaced'
  <2>1. Typed' /\ Placed(r)' /\ Observe
    BY <1>1, ArrivePlaced, RejectPlaced, AdmitPlaced, ReadBodyPlaced, SendPlaced, RestPlaced
       DEF AllPlaced, Own, Arrive, Reject, Admit, ReadBody, Send, Retry, Answer, Log
  <2>2. ASSUME NEW q \in Request, q # r PROVE Placed(q)'
    BY <1>1, <2>1, <2>2, OthersSame, SamePlaced DEF AllPlaced
  <2> QED
    BY <2>1, <2>2 DEF AllPlaced
<1>2. ASSUME NEW f \in RegistryFile, Reload(f)
      PROVE  AllPlaced'
  <2>1. Typed'
    BY <1>2 DEF AllPlaced, Typed, Reload
  <2>2. ASSUME NEW q \in Request PROVE Placed(q)'
    BY <1>2, SamePlaced DEF AllPlaced, Same, Reload
  <2> QED
    BY <2>1, <2>2 DEF AllPlaced
<1>3. CASE UNCHANGED vars
  <2>1. Typed'
    BY <1>3 DEF AllPlaced, Typed, vars
  <2>2. ASSUME NEW q \in Request PROVE Placed(q)'
    <3>1. Same(q) /\ UNCHANGED <<registry, standing>>
      BY <1>3 DEF Same, vars
    <3> QED
      BY <3>1, SamePlaced DEF AllPlaced
  <2> QED
    BY <2>1, <2>2 DEF AllPlaced
<1> QED
  BY <1>1, <1>2, <1>3 DEF Next, Own

\* Each request is where the chain of handlers says it is.
THEOREM AlwaysPlaced == Spec => []AllPlaced
  BY InitPlaced, NextPlaced, PTL DEF Spec

(***************************************************************************)
(* Theorems                                                                *)
(***************************************************************************)

\* In every behaviour: no member gets a credential that is not its own, however many
\* members of whatever types were tried before it, and whatever the caller sent.
THEOREM CredentialsApart == Spec => []OneCredential
<1>1. AllPlaced => OneCredential
  BY DEF AllPlaced, Placed, CarriesOnly, OneCredential
<1> QED
  BY <1>1, AlwaysPlaced, PTL

\* In every behaviour: what a client put on one anthropic-beta line reaches whichever
\* member gets the request.
THEOREM BetasSurvive == Spec => []BetasKept
<1>1. AllPlaced => BetasKept
  BY DEF AllPlaced, Placed, BetasKept
<1> QED
  BY <1>1, AlwaysPlaced, PTL

\* In every behaviour: Auth's verdict is what some registry in force since the arrival
\* says of the token.
THEOREM VerdictHolds == Spec => []VerdictFollowsRegistry
<1>1. AllPlaced => VerdictFollowsRegistry
  BY DEF AllPlaced, Placed, VerdictFollowsRegistry
<1> QED
  BY <1>1, AlwaysPlaced, PTL

\* In every behaviour: log and metrics name the same client, the holder of the token.
THEOREM LogAgrees == Spec => []LogAgreesWithMetrics
<1>1. ASSUME AllPlaced, NEW r \in Request, line[r] # None
      PROVE  IF status[r] \in {"relayed", "all upstreams failed"}
             THEN line[r].client = client[r] /\ \E c \in standing[r] : c.name = line[r].client
             ELSE line[r].client = Unknown /\ sent[r] = None
  <2>1. Placed(r) /\ pc[r] = "done" /\ line[r].client = loggedClient(r)
    BY <1>1 DEF AllPlaced, Placed
  <2>2. line[r].client = IF client[r] # None THEN client[r] ELSE Unknown
    BY <2>1 DEF Placed, loggedClient
  <2>3. client[r] # None <=> status[r] \in {"relayed", "all upstreams failed"}
    BY <2>1 DEF Placed
  <2> QED
    BY <2>1, <2>2, <2>3 DEF Placed
<1>2. AllPlaced => LogAgreesWithMetrics
  BY <1>1 DEF LogAgreesWithMetrics
<1> QED
  BY <1>2, AlwaysPlaced, PTL

\* In every behaviour: a member is asked for a model its own map makes of the one the
\* client asked for, whatever members with whatever maps were tried before it, or, where
\* RewriteBody finds nothing to replace, for the very one the client asked for.
THEOREM ModelsHold == Spec => []OwnModel
<1>1. AllPlaced => OwnModel
  BY DEF AllPlaced, Placed, NamesModelOf, Named, OwnModel
<1> QED
  BY <1>1, AlwaysPlaced, PTL

\* In every behaviour: the address in the log is that of the last node on the way that
\* is no trusted proxy, whatever the client wrote into X-Forwarded-For itself.
THEOREM AddressHolds == Spec => []AddressNotForged
<1>1. ASSUME AllPlaced, NEW r \in Request, line[r] # None,
             NEW o, o = SelectLastInSeq(call[r].path, LAMBDA a : ~isTrusted(a)), o # 0
      PROVE  line[r].ip = call[r].path[o]
  <2>1. call[r] \in Call /\ line[r].ip = Attributed(call[r])
    BY <1>1 DEF AllPlaced, Placed
  <2>2. call[r].path \in Seq(Address) \ {<<>>} /\ call[r].forged \in Seq(Address \cup {Blank})
    BY <2>1, ChainAssumption
  <2> DEFINE path == call[r].path
             forged == call[r].forged
  <2>3. o = SelectLastInSeq(path, LAMBDA a : ~isTrusted(a))
    BY <1>1
  <2>4. FromRequest(Last(path), forged \o Front(path)) = path[o]
    <3> HIDE DEF path, forged
    <3> QED
      BY <1>1, <2>2, <2>3, FromRequestOutsider DEF path, forged
  <2> QED
    BY <2>1, <2>4 DEF Attributed
<1>2. AllPlaced => AddressNotForged
  BY <1>1 DEF AddressNotForged
<1> QED
  BY <1>2, AlwaysPlaced, PTL
=============================================================================
