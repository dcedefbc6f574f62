----------------------------- MODULE Forwarder -----------------------------
(***************************************************************************)
(* What Handler.send makes of a request for one member.  Only the headers  *)
(* and the body field that send looks at are kept: a credential of member  *)
(* m is written m, a line of anthropic-beta is the set of its values, and  *)
(* the body is the model it names and whether the field is spelt in one of *)
(* the three ways RewriteBody looks for.                                   *)
(***************************************************************************)
EXTENDS ClientRegistry, SequencesExt

CONSTANTS
  Member, Model, Beta,
  None,
  Basic,     \* an Authorization header that is no bearer token
  Type,      \* Type[m]: the member's type
  ModelMap,  \* ModelMap[m]: its model map
  oauthBeta

ASSUME ForwarderAssumption ==
  /\ None \notin Member \cup Token \cup Model
  /\ Basic \notin Member \cup Token \cup {None}
  /\ Member \cap Token = {}
  /\ oauthBeta \in Beta
  /\ \A m \in Member : DOMAIN ModelMap[m] \subseteq Model /\ IsFiniteSet(DOMAIN ModelMap[m])

Message == [authorization : Member \cup Token \cup {None, Basic},
            apiKey        : Member \cup Token \cup {None},
            betas         : Seq(SUBSET Beta),
            model         : Model \cup {None},
            plain         : BOOLEAN]

\* Mutant of MergedBetas: the client's line is replaced.
MergedBetas_Replaced(lines) == <<{oauthBeta}>>

\* Header.Get reads the first line only, and Header.Set replaces them all.
MergedBetas(lines) ==
  LET existing == IF Len(lines) = 0 THEN {} ELSE lines[1]
  IN  IF oauthBeta \in existing THEN lines ELSE <<existing \cup {oauthBeta}>>

\* The headers of AuthHeaders set over those of msg.
WithCredential(msg, m) ==
  CASE Type[m] = "anthropic_oauth" ->
         [msg EXCEPT !.authorization = m, !.betas = MergedBetas(@)]
    [] Type[m] = "anthropic_api" -> [msg EXCEPT !.apiKey = m]
    [] Type[m] \notin {"anthropic_oauth", "anthropic_api"} ->
         [msg EXCEPT !.authorization = m]

\* A credential file that cannot be read is an error that send drops, and an unset
\* variable is no error: either way nothing is injected.
Authorized(msg, m) == {WithCredential(msg, m), msg}

\* RewriteBody replaces text: "model":"x", "model": "x" or 'model':'x'.  It leaves any
\* other spelling of the field as it is, and a plain one stays plain.  The entries of
\* the map are applied one after the other, in the order Go happens to iterate.
\* A body that was not read has no model to rewrite.
Rewritten(msg, m) ==
  IF msg.plain
  THEN {FoldLeft(LAMBDA x, from : IF x = from THEN ModelMap[m][from] ELSE x, msg.model, order) :
          order \in SetToSeqs(DOMAIN ModelMap[m])}
  ELSE {msg.model}

\* The request send gives to the transport.
Outgoing(msg, m) ==
  UNION {{[out EXCEPT !.model = x] : x \in Rewritten(msg, m)} : out \in Authorized(msg, m)}
=============================================================================
