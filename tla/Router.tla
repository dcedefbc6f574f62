------------------------------- MODULE Router -------------------------------
(***************************************************************************)
(* internal/router: which of the members that are left a request goes to.  *)
(*                                                                         *)
(* The code filters slices of members and keeps their order.  Here a       *)
(* filtered slice is the set H of positions it keeps of the pool, and the  *)
(* order is the order of the positions.                                    *)
(***************************************************************************)
EXTENDS PoolConfig, FiniteSets, FiniteSetsExt

CONSTANTS
  Session,  \* the session ids a request may carry
  Hash      \* crc32.ChecksumIEEE of each session id

ASSUME HashIsNat == Hash \in [Session -> Nat]
ASSUME NoneIsNoSession == None \notin Session

EnabledPositions(pool) == {k \in DOMAIN pool : IsEnabled(pool[k])}

\* The modulus of the weighted choice: the sum of the weights, or the number of
\* members when every weight is zero.
Total(pool, H) ==
  LET sum == MapThenSumSet(LAMBDA k : pool[k].weight, H)
  IN  IF sum = 0 THEN Cardinality(H) ELSE sum

\* The running sum "acc" once the loop has reached position k.  A zero weight
\* counts as one here, though not in Total.
Acc(pool, H, k) ==
  MapThenSumSet(LAMBDA j : IF pool[j].weight = 0 THEN 1 ELSE pool[j].weight,
                {j \in H : j <= k})

\* Mutant of WeightedPick: the comparison lets the number equal the running sum.
WeightedPick_Inclusive(pool, H, pick) ==
  LET beyond == {k \in H : pick <= Acc(pool, H, k)}
  IN  IF beyond = {} THEN Min(H) ELSE Min(beyond)

\* The loop both branches of Pick end in: the first position whose running sum
\* exceeds the number drawn, and the first of all if there is none.
WeightedPick(pool, H, pick) ==
  LET beyond == {k \in H : pick < Acc(pool, H, k)}
  IN  IF beyond = {} THEN Min(H) ELSE Min(beyond)

\* The members Pick may return when no pin applies: one for a session, any that
\* rand.Intn(total) can draw without.
WeightedPicks(pool, H, s) ==
  LET draws == IF s # None THEN {Hash[s] % Total(pool, H)}
                           ELSE 0 .. Total(pool, H) - 1
  IN  {WeightedPick(pool, H, p) : p \in draws}
=============================================================================
