----------------------------- MODULE PoolConfig -----------------------------
(***************************************************************************)
(* The pool file (pool.yaml) as internal/pool reads it: what an entry may  *)
(* say, which files Validate accepts, and the pool the loader makes of an  *)
(* accepted file.  Text, YAML and URLs are abstracted to what Validate     *)
(* tells apart: an entry records whether a credential is named and whether *)
(* the base URL is https, not what they are.                               *)
(***************************************************************************)
EXTENDS Integers, Sequences

CONSTANTS
  Member,   \* the member ids a pool file may name
  None      \* an absent value: a missing id, no session, no pin

ASSUME NoneIsNoMember == None \notin Member

\* The types validTypes lists; any other string in a file is "invalid".
ValidType == {"anthropic_oauth", "anthropic_api", "openrouter", "deepseek", "generic"}

\* One entry of a parsed file, and of a loaded pool.  "enabled" is a *bool in
\* the code: the key may be left out.
Entry == [id          : Member \cup {None},
          type        : ValidType \cup {"invalid"},
          cred        : BOOLEAN,
          https       : BOOLEAN,
          weight      : Int,
          enabled     : {"unset", "true", "false"},
          cooldownSec : Int]

IsEnabled(m) == m.enabled # "false"

IsAnthropic(m) == m.type \in {"anthropic_oauth", "anthropic_api"}

\* Pool.Validate.  A negative cooldownSec passes: only weight is bounded below.
Validate(f) ==
  /\ f # <<>>
  /\ \A k \in DOMAIN f : /\ f[k].id # None
                         /\ f[k].type \in ValidType
                         /\ f[k].cred
                         /\ f[k].https
                         /\ f[k].weight >= 0
  /\ \A j, k \in DOMAIN f : f[j].id = f[k].id => j = k

DefaultCooldownSec(m) == IF IsAnthropic(m) THEN 18000 ELSE 60

\* An accepted entry as the router sees it: zero values get defaults.
WithDefaults(m) ==
  [id          |-> m.id,
   type        |-> m.type,
   cred        |-> m.cred,
   https       |-> m.https,
   weight      |-> IF m.weight = 0 THEN 1 ELSE m.weight,
   enabled     |-> m.enabled,
   cooldownSec |-> IF m.cooldownSec = 0 THEN DefaultCooldownSec(m) ELSE m.cooldownSec]

\* The pool Loader.reload stores for an accepted file.
Loaded(f) == [k \in DOMAIN f |-> WithDefaults(f[k])]
=============================================================================
