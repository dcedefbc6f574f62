--------------------------- MODULE ClientRegistry ---------------------------
(***************************************************************************)
(* The registry of callers (package client).  SHA-256 is taken to be       *)
(* injective, so a digest is the token it was made of, written in one case *)
(* of letters or the other.                                                *)
(***************************************************************************)
EXTENDS Naturals, Sequences

CONSTANTS
  Token,        \* the tokens callers may hold
  Name,         \* the names namePattern accepts
  Malformed    \* a name or a digest that is missing or does not match its pattern

ASSUME MalformedIsNeither == Malformed \notin Token \cup Name

\* One entry of clients.yaml.  "enabled" is a *bool: the key may be left out.
Client == [name    : Name \cup {Malformed},
           token   : Token \cup {Malformed},
           upper   : BOOLEAN,
           enabled : {"unset", "true", "false"}]

IsEnabled(c) == c.enabled # "false"

HashToken(t) == [of |-> t, upper |-> FALSE]

\* Mutant of Digest: the digest is compared as it is written.
Digest_AsWritten(c) == [of |-> c.token, upper |-> c.upper]

\* strings.ToLower of tokenSHA256.
Digest(c) == [of |-> c.token, upper |-> FALSE]

\* Registry.Validate.
ValidateClients(f) ==
  /\ f # <<>>
  /\ \A i \in DOMAIN f : f[i].name # Malformed /\ f[i].token # Malformed
  /\ \A i, j \in DOMAIN f : i # j => f[i].name # f[j].name /\ Digest(f[i]) # Digest(f[j])

\* Registry.Lookup, over the index Validate built: none or one entry.
Lookup(f, t) == {c \in {f[i] : i \in DOMAIN f} : Digest(c) = HashToken(t)}
=============================================================================
