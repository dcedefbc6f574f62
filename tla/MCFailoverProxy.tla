-------------------------- MODULE MCFailoverProxy --------------------------
(***************************************************************************)
(* Small instances of FailoverProxy for TLC.                               *)
(***************************************************************************)
EXTENDS FailoverProxy, TLC

CONSTANTS m1, m2, m3, s1, r1, r2, i1, i2

Sym == Permutations(Request) \cup Permutations(Instance)

Member_(id, type, weight, enabled, cooldownSec) ==
  [id |-> id, type |-> type, cred |-> TRUE, https |-> TRUE,
   weight |-> weight, enabled |-> enabled, cooldownSec |-> cooldownSec]

\* One file: an Anthropic member with the default cooldown beside a gateway.
Pair == {<<Member_(m1, "anthropic_api", 0, "unset", 0),
           Member_(m2, "generic", 1, "true", 0)>>}

\* Three files one deployment goes through: a member is switched off, the order
\* and a cooldown change, and a file that Validate refuses.
Edits == Pair \cup
  {<<Member_(m2, "openrouter", 2, "unset", -5),
     Member_(m1, "anthropic_oauth", 1, "false", 0)>>,
   <<Member_(m1, "anthropic_api", 1, "unset", 0),
     Member_(m1, "generic", 1, "unset", 0)>>}

\* Three members whose shares differ, so that each set a failover leaves is weighed
\* differently.
Trio == {<<Member_(m1, "anthropic_api", 2, "unset", 0),
           Member_(m2, "generic", 0, "unset", 0),
           Member_(m3, "deepseek", 3, "unset", 0)>>}

HashOf == [s \in Session |-> 4]

A(status, retryAfter, keyword) ==
  [status |-> status, retryAfter |-> retryAfter, keyword |-> keyword]

\* One answer for each way the detector can go: success, a rate limit with and
\* without a usable Retry-After, and one its body confirms (or, when the body breaks
\* off before the keyword, does not).
Answers == {A(200, NoHeader, FALSE), A(503, 30, FALSE), A(429, Unusable, FALSE),
            A(529, NoHeader, TRUE)}

\* The answers that matter when the detector is not in question.
PlainAnswers == {A(200, NoHeader, FALSE), A(429, NoHeader, TRUE)}

\* Members whose every rate limit is a 429 that says when to come back.
ModelAnswers == {A(200, NoHeader, FALSE), A(429, 30, FALSE)}
=============================================================================
