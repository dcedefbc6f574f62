------------------------------ MODULE Detector ------------------------------
(***************************************************************************)
(* internal/failover: which upstream answers make the proxy try another    *)
(* member, and for how long the member that gave one is put in cooldown.   *)
(*                                                                         *)
(* An answer is abstracted to what the detector reads of it: the status,   *)
(* the Retry-After header and whether the body holds one of the keywords.  *)
(***************************************************************************)
EXTENDS Integers

NoHeader == -1     \* Retry-After is absent (or empty, which the code treats alike)
Unusable == 0      \* Retry-After is there but is no positive decimal number

\* Retry-After: NoHeader, Unusable, or the positive number of seconds it gives.
Answer == [status     : Nat,
           retryAfter : {n \in Int : n >= NoHeader},
           keyword    : BOOLEAN]

FailoverStatus == {429, 401, 529}

\* Mutant of MayFailover: a status added to ShouldFailover only.
MayFailover_Misses529(a) == a.retryAfter # NoHeader \/ a.status \in {429, 401}

\* Decided from the status and headers alone, before any of the body is read.
MayFailover(a) == a.retryAfter # NoHeader \/ a.status \in FailoverStatus

\* Decided from the whole answer, once the body has been read.
ShouldFailover(a) ==
  \/ a.retryAfter # NoHeader
  \/ a.status \in FailoverStatus /\ a.keyword

\* The seconds ShouldFailover reports; 0 means it found none.
DetectedTTL(a) == IF a.retryAfter > 0 THEN a.retryAfter ELSE 0

CooldownTTL(detectedTTL, memberCooldown, isAnthropic) ==
  CASE detectedTTL > 0    -> detectedTTL
    [] detectedTTL <= 0 /\ memberCooldown > 0 -> memberCooldown
    [] OTHER              -> IF isAnthropic THEN 18000 ELSE 60
=============================================================================
