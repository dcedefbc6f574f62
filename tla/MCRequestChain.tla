--------------------------- MODULE MCRequestChain ---------------------------
(***************************************************************************)
(* A small instance of RequestChain for TLC.                               *)
(***************************************************************************)
EXTENDS RequestChain

CONSTANTS r1, r2, m1, m2, t1, t2, t3, alice, bob, carol, x, y, z, b1, b2, home, edge, mesh, fake

Sym == Permutations(Request)

\* An API-key member that renames y, and an OAuth member whose map has a chain.
Types == m1 :> "anthropic_api" @@ m2 :> "anthropic_oauth"
Maps  == m1 :> (y :> x) @@ m2 :> (y :> z @@ z :> x)

Entry_(name, token, upper, enabled) ==
  [name |-> name, token |-> token, upper |-> upper, enabled |-> enabled]

\* The registry through three reloads: alice's token goes to carol and bob is switched
\* off; both entries share a token, in different letters; nobody is left.
Files == {<<Entry_(alice, t1, TRUE, "unset"), Entry_(bob, t2, FALSE, "true")>>,
          <<Entry_(carol, t1, FALSE, "true"), Entry_(bob, t2, FALSE, "false")>>,
          <<Entry_(alice, t1, TRUE, "unset"), Entry_(bob, t1, FALSE, "true")>>,
          <<>>}

Call_(authorization, apiKey, betas, model, plain, path, forged, health) ==
  [message |-> [authorization |-> authorization, apiKey |-> apiKey, betas |-> betas,
                model |-> model, plain |-> plain],
   path |-> path, forged |-> forged, health |-> health]

\* A bearer and a key at once, a key beside a header that is no bearer, a token that
\* is unknown, and none; straight from home and through trusted proxies.  The second
\* spells its model field in a way RewriteBody does not look for.
Calls == {Call_(t1, t2, <<{b1}>>, y, TRUE, <<home, mesh>>, <<fake>>, FALSE),
          Call_(Basic, t2, <<{b1}, {b2}>>, y, FALSE, <<home, edge, mesh>>, <<Blank, fake>>, TRUE),
          Call_(t3, None, <<>>, z, TRUE, <<edge, mesh>>, <<>>, FALSE),
          Call_(None, None, <<{oauthBeta}>>, x, TRUE, <<home>>, <<fake, mesh>>, FALSE)}
=============================================================================
