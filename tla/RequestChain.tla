---------------------------- MODULE RequestChain ----------------------------
(***************************************************************************)
(* A request on its way through the handlers app.New stacks around the     *)
(* failover loop: RealIP, AccessLog, Auth, and in the loop one send for    *)
(* each attempt.  FailoverProxy says which member an attempt goes to and   *)
(* when the loop ends; here it may be any untried one, and end at any      *)
(* time.  Meanwhile the registry is reloaded: the models of the loader and *)
(* of this module meet in Loader.registry, and what clients.yaml itself    *)
(* says is not seen here.                                                  *)
(***************************************************************************)
EXTENDS ClientIP, Forwarder

CONSTANTS
  Request,
  Call,         \* the requests clients may make
  RegistryFile  \* the contents clients.yaml may have

\* message: what the client wrote.  path: the nodes it came through, the client
\* first.  forged: the X-Forwarded-For it began with.  health: it asks for /health,
\* by another method than GET.
ASSUME ChainAssumption ==
  /\ Call \subseteq [message : {msg \in Message :
                       msg.authorization \notin Member /\ msg.apiKey \notin Member},
                     path    : Seq(Address) \ {<<>>},
                     forged  : Seq(Address \cup {Blank}),
                     health  : BOOLEAN]
  /\ RegistryFile \subseteq Seq(Client)
  /\ None \notin Name

VARIABLES
  registry,  \* Loader.registry
  pc,        \* pc[r]: which handler has r
  call,      \* call[r]: the request as the client made it
  held,      \* held[r]: its headers and body as the handler holds them now
  scope,     \* scope[r]: what RealIP's scope says of it
  client,    \* client[r]: ClientName(ctx) in the loop, the label of all it counts
  tried,     \* tried[r]: the members it was sent to
  member,    \* member[r]: the latest of them
  sent,      \* sent[r]: what that member got
  status,    \* status[r]: how it was answered, or refused
  line,      \* line[r]: its line in the access log
  standing   \* history: what the registries in force said of its token until Auth decided

vars == <<registry, pc, call, held, scope, client, tried, member, sent, status, line, standing>>

Unknown == "unknown"

NoClient == [name |-> None, enabled |-> "false"]

\* The entries of the active registry for a token, whatever letters its digest is in.
EntriesFor(f, t) ==
  LET mine == {k \in DOMAIN f : f[k].token = t}
  IN  IF mine = {} THEN {NoClient}
      ELSE {[name |-> f[k].name, enabled |-> f[k].enabled] : k \in mine}

presentedToken(msg) == IF msg.authorization \in {None, Basic} THEN msg.apiKey ELSE msg.authorization

Observe ==
  standing' = [r \in Request |->
    CASE pc'[r] = "idle" -> {}
      [] pc'[r] = "auth" -> standing[r] \cup EntriesFor(registry', presentedToken(held'[r]))
      [] OTHER -> standing[r]]

Init ==
  /\ registry \in {f \in RegistryFile : ValidateClients(f)}
  /\ pc = [r \in Request |-> "idle"]
  /\ call = [r \in Request |-> None]
  /\ held = [r \in Request |-> None]
  /\ scope = [r \in Request |-> [ip |-> None, client |-> None]]
  /\ client = [r \in Request |-> None]
  /\ tried = [r \in Request |-> {}]
  /\ member = [r \in Request |-> None]
  /\ sent = [r \in Request |-> None]
  /\ status = [r \in Request |-> "pending"]
  /\ line = [r \in Request |-> None]
  /\ standing = [r \in Request |-> {}]

\* RealIP: each node passed the request on with its peer's address added.
Arrive(r, c) ==
  /\ pc[r] = "idle"
  /\ pc' = [pc EXCEPT ![r] = "auth"]
  /\ call' = [call EXCEPT ![r] = c]
  /\ held' = [held EXCEPT ![r] = c.message]
  /\ scope' = [scope EXCEPT ![r].ip = FromRequest(Last(c.path), c.forged \o Front(c.path))]
  /\ UNCHANGED <<registry, client, tried, member, sent, status, line>>
  /\ Observe

\* Auth turns a request away: it holds no token, one nobody has, or a disabled one.
Reject(r) ==
  /\ pc[r] = "auth"
  /\ LET t     == presentedToken(held[r])
         found == Lookup(registry, t)
     IN  /\ \A c \in found : ~IsEnabled(c)
         /\ status' = [status EXCEPT ![r] = CASE t = None -> "missing_credentials"
                                              [] t # None /\ found = {} -> "unknown_token"
                                              [] t # None /\ found # {} -> "client_disabled"]
  /\ pc' = [pc EXCEPT ![r] = "log"]
  /\ UNCHANGED <<registry, call, held, scope, client, tried, member, sent, line>>
  /\ Observe

\* Mutant of stripped: the caller's API key is left in.
stripped_BearerOnly(msg) == [msg EXCEPT !.authorization = None]

\* stripClientCredentials.
stripped(msg) == [msg EXCEPT !.authorization = None, !.apiKey = None]

\* Auth lets the request in under the name of the client whose token it holds.
Admit(r) ==
  /\ pc[r] = "auth"
  /\ \E c \in Lookup(registry, presentedToken(held[r])) :
       /\ IsEnabled(c)
       /\ scope' = [scope EXCEPT ![r].client = c.name]
       /\ client' = [client EXCEPT ![r] = c.name]
  /\ held' = [held EXCEPT ![r] = stripped(@)]
  /\ pc' = [pc EXCEPT ![r] = "body"]
  /\ UNCHANGED <<registry, call, tried, member, sent, status, line>>
  /\ Observe

\* CloneBody, whose error the loop drops: a body that breaks off is forwarded as an
\* empty one.
ReadBody(r) ==
  /\ pc[r] = "body"
  /\ \E x \in {held[r].model, None} : held' = [held EXCEPT ![r].model = x]
  /\ pc' = [pc EXCEPT ![r] = "loop"]
  /\ UNCHANGED <<registry, call, scope, client, tried, member, sent, status, line>>
  /\ Observe

\* Mutant of Send: the headers and the body are changed where the loop holds them.
Send_InPlace(r, m) ==
  /\ pc[r] = "loop"
  /\ m \notin tried[r]
  /\ tried' = [tried EXCEPT ![r] = @ \cup {m}]
  /\ member' = [member EXCEPT ![r] = m]
  /\ \E out \in Outgoing(held[r], m) : /\ sent' = [sent EXCEPT ![r] = out]
                                       /\ held' = [held EXCEPT ![r] = out]
  /\ pc' = [pc EXCEPT ![r] = "wait"]
  /\ UNCHANGED <<registry, call, scope, client, status, line>>
  /\ Observe

\* One attempt: the member is marked as tried and sent the request.
Send(r, m) ==
  /\ pc[r] = "loop"
  /\ m \notin tried[r]
  /\ tried' = [tried EXCEPT ![r] = @ \cup {m}]
  /\ member' = [member EXCEPT ![r] = m]
  /\ \E out \in Outgoing(held[r], m) : sent' = [sent EXCEPT ![r] = out]
  /\ pc' = [pc EXCEPT ![r] = "wait"]
  /\ UNCHANGED <<registry, call, held, scope, client, status, line>>
  /\ Observe

\* The attempt failed or was rate limited.
Retry(r) ==
  /\ pc[r] = "wait"
  /\ pc' = [pc EXCEPT ![r] = "loop"]
  /\ UNCHANGED <<registry, call, held, scope, client, tried, member, sent, status, line>>
  /\ Observe

\* The loop has answered: with the member's answer, or without one.
Answer(r) ==
  /\ \/ /\ pc[r] = "wait"
        /\ status' = [status EXCEPT ![r] = "relayed"]
     \/ /\ pc[r] = "loop"
        /\ status' = [status EXCEPT ![r] = "all upstreams failed"]
  /\ pc' = [pc EXCEPT ![r] = "log"]
  /\ UNCHANGED <<registry, call, held, scope, client, tried, member, sent, line>>
  /\ Observe

\* Mutant of loggedClient: the name is read from the outer request's context.
loggedClient_FromContext(r) == Unknown

\* The name Auth left in the scope; the context AccessLog holds has none.
loggedClient(r) == IF scope[r].client # None THEN scope[r].client ELSE Unknown

\* AccessLog writes one line when the request is done, but none for /health.
Log(r) ==
  /\ pc[r] = "log"
  /\ line' = IF call[r].health THEN line
             ELSE [line EXCEPT ![r] = [client |-> loggedClient(r), ip |-> scope[r].ip]]
  /\ pc' = [pc EXCEPT ![r] = "done"]
  /\ UNCHANGED <<registry, call, held, scope, client, tried, member, sent, status>>
  /\ Observe

\* client.Loader.reload: a file Validate refuses leaves the registry as it is.
Reload(f) ==
  /\ registry' = IF ValidateClients(f) THEN f ELSE registry
  /\ UNCHANGED <<pc, call, held, scope, client, tried, member, sent, status, line>>
  /\ Observe

Next ==
  \/ \E r \in Request :
       \/ \E c \in Call : Arrive(r, c)
       \/ Reject(r)
       \/ Admit(r)
       \/ ReadBody(r)
       \/ \E m \in Member : Send(r, m)
       \/ Retry(r)
       \/ Answer(r)
       \/ Log(r)
  \/ \E f \in RegistryFile : Reload(f)

Spec == Init /\ [][Next]_vars

-----------------------------------------------------------------------------
(***************************************************************************)
(* Properties                                                              *)
(***************************************************************************)

\* Whatever members were tried before, a member gets no credential but its own: not
\* the caller's, which Auth strips, nor that of a member that failed, and its own
\* in one header only.
OneCredential ==
  \A r \in Request : sent[r] # None =>
    /\ sent[r].authorization \in {None, member[r]}
    /\ sent[r].apiKey \in {None, member[r]}
    /\ None \in {sent[r].authorization, sent[r].apiKey}

\* One or more rules of the map, each applied to what the last one made, lead from x
\* to y: y is in every set that holds map[x] and is closed under the map.
LeadsTo(map, x, y) ==
  \A S \in SUBSET {map[z] : z \in DOMAIN map} :
    map[x] \in S /\ (\A z \in S \cap DOMAIN map : map[z] \in S) => y \in S

\* send rewrites the model the client asked for, by the member's own map, and not what
\* an earlier member's map made of it.  A plain model that has a rule never goes out
\* under its old name unless the rules lead back to it; one rule is applied if the map
\* has no chains, and otherwise as many as the order of the map happens to allow.  A
\* model without a rule, or in a field that RewriteBody does not recognise, is sent as
\* it came.
OwnModel ==
  \A r \in Request : sent[r] # None =>
    LET map == ModelMap[member[r]]
        msg == call[r].message
    IN  \/ sent[r].model = None
        \/ IF msg.plain /\ msg.model \in DOMAIN map
           THEN LeadsTo(map, msg.model, sent[r].model)
           ELSE sent[r].model = msg.model

\* A client that writes its betas on one line finds them all at whichever member
\* the request ends up, beside the one OAuth needs.
BetasKept ==
  \A r \in Request : sent[r] # None /\ Len(call[r].message.betas) = 1 =>
    call[r].message.betas[1] \subseteq sent[r].betas[1]

\* Auth's verdict is what a registry that was in force since the request arrived says
\* of the token, in whatever case the digest is written there: let in under the owner's
\* name if enabled, and otherwise refused.  How far the registry in force is behind
\* clients.yaml, or whether it ever follows it, is the loader's affair: see RestsInForce
\* and SavedIsApplied of ConfigLoader.
VerdictFollowsRegistry ==
  \A r \in Request :
    /\ client[r] # None =>
         \E c \in standing[r] : c.name = client[r] /\ c.enabled # "false"
    /\ status[r] \in {"missing_credentials", "unknown_token"} => NoClient \in standing[r]
    /\ status[r] = "client_disabled" =>
         \E c \in standing[r] : c # NoClient /\ c.enabled = "false"

\* The access log names the client under which the request's tokens and upstream
\* calls are counted, and the one who held the token when it was let in, however
\* the registry is reloaded before the line is written; a refused request is nobody's.
LogAgreesWithMetrics ==
  \A r \in Request : line[r] # None =>
    IF status[r] \in {"relayed", "all upstreams failed"}
    THEN line[r].client = client[r] /\ \E c \in standing[r] : c.name = line[r].client
    ELSE line[r].client = Unknown /\ sent[r] = None

\* Whatever a client writes into X-Forwarded-For, the address logged is that of the
\* last node on the request's way that is not a trusted proxy, if there is one.
AddressNotForged ==
  \A r \in Request : line[r] # None =>
    LET path     == call[r].path
        outsider == SelectLastInSeq(path, LAMBDA a : ~isTrusted(a))
    IN  outsider # 0 => line[r].ip = path[outsider]
=============================================================================
