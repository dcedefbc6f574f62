--------------------------- MODULE FailoverProxy ---------------------------
(***************************************************************************)
(* The request path of proem: the failover loop of proxy.Handler, one run  *)
(* of it per request, over the pool each instance has loaded and the       *)
(* cooldown and affinity keys all instances share in Redis.                *)
(*                                                                         *)
(* A step of a request does at most one Redis command or one exchange with *)
(* an upstream, so the requests of one instance (goroutines) and of        *)
(* several interleave wherever the code can be overtaken.  Between the     *)
(* steps keys expire, Redis becomes unreachable and returns, clients hang  *)
(* up and pool files are reloaded.                                         *)
(***************************************************************************)
EXTENDS Router, Detector

CONSTANTS
  Request,        \* the requests that may arrive, each once
  Instance,       \* the proem processes that share Redis
  PoolFile,       \* the contents pool.yaml may have
  Response,       \* the answers an upstream may give
  stickyMode,     \* "lb", "redis" or "none"
  Event,          \* which of the environment's misfortunes may happen
  Second,         \* time.Second, in units of time.Duration
  DurationLimit   \* time.Duration holds -DurationLimit .. DurationLimit - 1

\* "transport": an upstream cannot be reached, or breaks off its answer.
\* "hangup": a client goes away.  "redis": an instance loses Redis.
\* "reload": pool.yaml changes while requests are served.
Misfortune == {"transport", "hangup", "redis", "reload"}

ASSUME ConstantsAssumption ==
  /\ PoolFile \subseteq Seq(Entry)
  /\ \E f \in PoolFile : Validate(f)
  /\ Response \subseteq Answer
  /\ None \notin Response
  /\ stickyMode \in {"lb", "redis", "none"}
  /\ Event \subseteq Misfortune
  /\ Second \in Nat \ {0}
  /\ DurationLimit \in Nat \ {0}

VARIABLES
  pool,      \* pool[i]: the active pool of instance i (Loader.pool)
  cooldown,  \* cooldown[m]: the key cooldown:{m} in Redis
  sticky,    \* sticky[s]: the key sticky:{s} in Redis, or None
  redisUp,   \* redisUp[i]: instance i gets answers from Redis
  gauge,     \* gauge[i]: the members whose proem_member_cooldown is 1 at i
  pc,        \* pc[r]: where the handler of r is
  inst,      \* inst[r]: the instance that serves r
  snap,      \* snap[r]: poolObj, the pool r was started with
  session,   \* session[r]: sessionID, or None
  tried,     \* tried[r]: the ids of the members r was sent to
  attempt,   \* attempt[r]: the loop counter
  healthy,   \* healthy[r]: inside Pick, the positions of snap[r] it found healthy
  member,    \* member[r]: the position of the member Pick returned
  resp,      \* resp[r]: what that member answered in this attempt, or None
  last,      \* last[r]: the buffered answer to fall back on, or None
  reply,     \* reply[r]: what was committed to the client
  hungUp,    \* hungUp[r]: the client left, the request's context is cancelled
  avoid,     \* history: members in cooldown, in view, all through the attempt
  home       \* history: the pinned position, in view and healthy since arrival

local   == <<inst, snap, session, tried, attempt, healthy, member, resp, last,
             reply, hungUp>>
shared  == <<pool, cooldown, sticky, redisUp, gauge>>
history == <<avoid, home>>
vars    == <<shared, pc, local, history>>

PC == {"idle", "pick", "choose", "wait", "buffer", "finish", "stream", "done"}

Pools == {Loaded(f) : f \in {g \in PoolFile : Validate(g)}}

(***************************************************************************)
(* Redis keys.  go-redis sends a time to live only for a positive          *)
(* expiration: SET with any other leaves a key that never expires.         *)
(***************************************************************************)
NoKey    == 0
NoExpiry == -1

\* time.Duration(sec) * time.Second, in two's complement.
Nanoseconds(sec) ==
  LET n == (sec * Second) % (2 * DurationLimit)
  IN  IF n < DurationLimit THEN n ELSE n - 2 * DurationLimit

Expiry(sec) == IF Nanoseconds(sec) > 0 THEN Nanoseconds(sec) ELSE NoExpiry

\* A command under the request's own context fails once the client has left.
Reachable(r) == redisUp[inst[r]] /\ ~hungUp[r]

Id(r, k) == snap[r][k].id

(***************************************************************************)
(* The two history variables.  Each holds what has been true without a     *)
(* break since the step that sets it anew.                                 *)
(***************************************************************************)
CooledInView(r) == {m \in Member : Reachable(r) /\ cooldown[m] # NoKey}

PinInView(r) ==
  {k \in EnabledPositions(snap[r]) : /\ session[r] # None
                                     /\ Reachable(r)
                                     /\ sticky[session[r]] = Id(r, k)
                                     /\ cooldown[Id(r, k)] = NoKey}

Observe ==
  /\ avoid' = [r \in Request |->
                 CASE pc'[r] = "idle" -> {}
                   [] pc'[r] = "pick" /\ pc[r] # "pick" -> CooledInView(r)'
                   [] OTHER -> avoid[r] \cap CooledInView(r)']
  /\ home' = [r \in Request |->
                 CASE pc'[r] = "idle" -> {}
                   [] pc'[r] # "idle" /\ pc[r] = "idle" -> PinInView(r)'
                   [] OTHER -> home[r] \cap PinInView(r)']

Init ==
  /\ pool \in [Instance -> Pools]
  /\ cooldown = [m \in Member |-> NoKey]
  /\ sticky = [s \in Session |-> None]
  /\ redisUp = [i \in Instance |-> TRUE]
  /\ gauge = [i \in Instance |-> {}]
  /\ pc = [r \in Request |-> "idle"]
  /\ inst \in [Request -> Instance]
  /\ snap = [r \in Request |-> <<>>]
  /\ session = [r \in Request |-> None]
  /\ tried = [r \in Request |-> {}]
  /\ attempt = [r \in Request |-> 0]
  /\ healthy = [r \in Request |-> {}]
  /\ member = [r \in Request |-> 0]
  /\ resp = [r \in Request |-> None]
  /\ last = [r \in Request |-> None]
  /\ reply = [r \in Request |-> "none"]
  /\ hungUp = [r \in Request |-> FALSE]
  /\ avoid = [r \in Request |-> {}]
  /\ home = [r \in Request |-> {}]

-----------------------------------------------------------------------------
(***************************************************************************)
(* The handler                                                             *)
(***************************************************************************)

\* ServeHTTP up to the loop.  The load balancer has chosen the instance.  An
\* empty pool is answered 503 there, but no pool Validate accepts is empty.
ServeHTTP(r, s) ==
  /\ pc[r] = "idle"
  /\ pc' = [pc EXCEPT ![r] = "pick"]
  /\ snap' = [snap EXCEPT ![r] = pool[inst[r]]]
  /\ session' = [session EXCEPT ![r] = s]
  /\ UNCHANGED <<shared, inst, tried, attempt, healthy, member, resp, last, reply, hungUp>>
  /\ Observe

\* Mutant of Candidates: members already tried are offered again.
Candidates_KeepsTried(r) == EnabledPositions(snap[r])

\* Mutant of Candidates: the active pool is read again for each attempt.
Candidates_ReadsActive(r) ==
  {k \in EnabledPositions(pool[inst[r]]) : /\ k \in DOMAIN snap[r]
                                           /\ Id(r, k) \notin tried[r]}

\* filterNotTried, the enabled filter of Pick, and the MGET of FilterHealthy,
\* which calls every member healthy when Redis does not answer.
Candidates(r) == {k \in EnabledPositions(snap[r]) : Id(r, k) \notin tried[r]}

\* Mutant of Healthy: no answer from Redis is read as "all in cooldown".
Healthy_FailsClosed(r) == {k \in Candidates(r) : Reachable(r) /\ cooldown[Id(r, k)] = NoKey}

\* Mutant of Healthy: only the first attempt asks Redis.
Healthy_AsksOnce(r) ==
  {k \in Candidates(r) : Reachable(r) /\ attempt[r] = 0 => cooldown[Id(r, k)] = NoKey}

\* Mutant of Healthy: the instance trusts its own gauge instead of Redis.
Healthy_ByOwnGauge(r) == {k \in Candidates(r) : Id(r, k) \notin gauge[inst[r]]}

Healthy(r) == {k \in Candidates(r) : Reachable(r) => cooldown[Id(r, k)] = NoKey}

\* Mutant of MoreToTry: a fixed number of attempts.
MoreToTry_TwoAttempts(r) == attempt[r] < 2 /\ Healthy(r) # {}

\* The loop goes round again: attempts are left and Pick returns no error.
MoreToTry(r) == attempt[r] < Len(snap[r]) /\ Healthy(r) # {}

FilterHealthy(r) ==
  /\ pc[r] = "pick"
  /\ MoreToTry(r)
  /\ healthy' = [healthy EXCEPT ![r] = Healthy(r)]
  /\ pc' = [pc EXCEPT ![r] = "choose"]
  /\ UNCHANGED <<shared, inst, snap, session, tried, attempt, member, resp, last, reply, hungUp>>
  /\ Observe

\* The loop is left without an answer: the last buffered one is replayed, and
\* without one (or after a transport error, whose body is nil) the reply is 502.
GiveUp(r) ==
  /\ pc[r] = "pick"
  /\ ~MoreToTry(r)
  /\ reply' = [reply EXCEPT ![r] = IF last[r] # None THEN "replay" ELSE "bad_gateway"]
  /\ pc' = [pc EXCEPT ![r] = "done"]
  /\ UNCHANGED <<shared, inst, snap, session, tried, attempt, healthy, member, resp, last, hungUp>>
  /\ Observe

\* Mutant of TrySticky: the pin is consulted when the first attempt has failed.
TrySticky_OnRetry(r) == stickyMode = "redis" /\ attempt[r] = 1

\* The pinned member, on the first attempt and if it is among the healthy ones.
TrySticky(r) == stickyMode = "redis" /\ attempt[r] = 0

\* Mutant of Pinned: only the first healthy member is compared with the pin.
Pinned_FirstOnly(r) ==
  {k \in healthy[r] : /\ k = Min(healthy[r])
                      /\ TrySticky(r)
                      /\ session[r] # None
                      /\ Reachable(r)
                      /\ sticky[session[r]] = Id(r, k)}

Pinned(r) ==
  {k \in healthy[r] : /\ TrySticky(r)
                      /\ session[r] # None
                      /\ Reachable(r)
                      /\ sticky[session[r]] = Id(r, k)}

Picks(r) == IF Pinned(r) # {} THEN Pinned(r)
            ELSE WeightedPicks(snap[r], healthy[r], session[r])

\* Mutant of Choose: the session is pinned when the member is chosen, not when
\* it has answered.
Choose_PinsEarly(r) ==
  /\ pc[r] = "choose"
  /\ \E k \in Picks(r) :
       /\ member' = [member EXCEPT ![r] = k]
       /\ tried' = [tried EXCEPT ![r] = @ \cup {Id(r, k)}]
       /\ sticky' = IF session[r] # None /\ Reachable(r)
                    THEN [sticky EXCEPT ![session[r]] = Id(r, k)] ELSE sticky
  /\ healthy' = [healthy EXCEPT ![r] = {}]
  /\ pc' = [pc EXCEPT ![r] = "wait"]
  /\ UNCHANGED <<pool, cooldown, redisUp, gauge, inst, snap, session, attempt, resp, last,
                 reply, hungUp>>
  /\ Observe

\* The rest of Pick, then the member is marked as tried and the request sent.
Choose(r) ==
  /\ pc[r] = "choose"
  /\ \E k \in Picks(r) :
       /\ member' = [member EXCEPT ![r] = k]
       /\ tried' = [tried EXCEPT ![r] = @ \cup {Id(r, k)}]
  /\ healthy' = [healthy EXCEPT ![r] = {}]
  /\ pc' = [pc EXCEPT ![r] = "wait"]
  /\ UNCHANGED <<shared, inst, snap, session, attempt, resp, last, reply, hungUp>>
  /\ Observe

\* Mutant of CooldownSeconds: the two fallbacks are left out.
CooldownSeconds_NoFallback(m, ttlSec) == ttlSec

\* Handler.cooldown: the SET is made under context.Background(), so it does not
\* care whether the client is still there; its error is dropped.
CooldownSeconds(m, ttlSec) ==
  CASE ttlSec > 0                        -> ttlSec
    [] ttlSec <= 0 /\ m.cooldownSec > 0  -> m.cooldownSec
    [] OTHER                             -> 60

SetCooldown(r, m, ttlSec) ==
  cooldown' = IF redisUp[inst[r]]
              THEN [cooldown EXCEPT ![m.id] = Expiry(CooldownSeconds(m, ttlSec))]
              ELSE cooldown

\* Mutant of NextAttempt: the same member is asked again, and not counted.
NextAttempt_SameMember(r) ==
  /\ attempt' = attempt
  /\ pc' = [pc EXCEPT ![r] = "wait"]

NextAttempt(r) ==
  /\ attempt' = [attempt EXCEPT ![r] = @ + 1]
  /\ pc' = [pc EXCEPT ![r] = "pick"]

\* send returned an error.  The handler does not ask which.
SendFailed(r) ==
  /\ pc[r] = "wait"
  /\ SetCooldown(r, snap[r][member[r]], 0)
  /\ last' = [last EXCEPT ![r] = None]
  /\ NextAttempt(r)
  /\ UNCHANGED <<pool, sticky, redisUp, gauge, inst, snap, session, tried, healthy, member,
                 resp, reply, hungUp>>
  /\ Observe

\* The upstream refused, reset, or let ResponseHeaderTimeout pass.
TransportError(r) == "transport" \in Event /\ SendFailed(r)

\* The client left while the upstream was being waited for.
ContextDone(r) == hungUp[r] /\ SendFailed(r)

\* The upstream's status and headers are in.  A cancelled request may still see
\* them: net/http takes whichever of the two it finds first.
Respond(r) ==
  /\ pc[r] = "wait"
  /\ \E a \in Response :
       /\ resp' = [resp EXCEPT ![r] = a]
       /\ pc' = [pc EXCEPT ![r] = IF MayFailover(a) THEN "buffer" ELSE "finish"]
  /\ UNCHANGED <<shared, inst, snap, session, tried, attempt, healthy, member, last, reply, hungUp>>
  /\ Observe

\* bufferResponse drops the error of ReadAll: a body that breaks off before the
\* keyword is taken for a whole one.
AsRead(r) ==
  {resp[r]} \cup {[resp[r] EXCEPT !.keyword = FALSE] :
                    cut \in {e \in {"broken"} : hungUp[r] \/ "transport" \in Event}}

FailOver(r) ==
  /\ pc[r] = "buffer"
  /\ \E a \in AsRead(r) :
       /\ ShouldFailover(a)
       /\ LET m == snap[r][member[r]] IN
            /\ SetCooldown(r, m, CooldownTTL(DetectedTTL(a), m.cooldownSec, IsAnthropic(m)))
            /\ gauge' = [gauge EXCEPT ![inst[r]] = @ \cup {m.id}]
       /\ last' = [last EXCEPT ![r] = a]
  /\ resp' = [resp EXCEPT ![r] = None]
  /\ NextAttempt(r)
  /\ UNCHANGED <<pool, sticky, redisUp, inst, snap, session, tried, healthy, member,
                 reply, hungUp>>
  /\ Observe

\* The buffered answer is no rate limit after all: it goes to the client.
Accept(r) ==
  /\ pc[r] = "buffer"
  /\ \E a \in AsRead(r) :
       /\ ~ShouldFailover(a)
       /\ resp' = [resp EXCEPT ![r] = a]
  /\ pc' = [pc EXCEPT ![r] = "finish"]
  /\ UNCHANGED <<shared, inst, snap, session, tried, attempt, healthy, member, last, reply, hungUp>>
  /\ Observe

\* finish up to the headers: the session is pinned, and the reply committed.
Finish(r) ==
  /\ pc[r] = "finish"
  /\ sticky' = IF stickyMode = "redis" /\ session[r] # None /\ Reachable(r)
               THEN [sticky EXCEPT ![session[r]] = Id(r, member[r])]
               ELSE sticky
  /\ reply' = [reply EXCEPT ![r] = "finish"]
  /\ pc' = [pc EXCEPT ![r] = "stream"]
  /\ UNCHANGED <<pool, cooldown, redisUp, gauge, inst, snap, session, tried, attempt, healthy,
                 member, resp, last, hungUp>>
  /\ Observe

\* copyStream has returned, for whatever reason, and the gauge is cleared.
EndStream(r) ==
  /\ pc[r] = "stream"
  /\ gauge' = [gauge EXCEPT ![inst[r]] = @ \ {Id(r, member[r])}]
  /\ pc' = [pc EXCEPT ![r] = "done"]
  /\ UNCHANGED <<pool, cooldown, sticky, redisUp, local>>
  /\ Observe

-----------------------------------------------------------------------------
(***************************************************************************)
(* The environment                                                         *)
(***************************************************************************)

\* The client closes its connection and net/http cancels the context.
Hangup(r) ==
  /\ "hangup" \in Event
  /\ pc[r] \notin {"idle", "done"}
  /\ ~hungUp[r]
  /\ hungUp' = [hungUp EXCEPT ![r] = TRUE]
  /\ UNCHANGED <<shared, pc, inst, snap, session, tried, attempt, healthy, member, resp, last, reply>>
  /\ Observe

\* The time to live of a cooldown key runs out; a key without one stays.
Expire(m) ==
  /\ cooldown[m] > NoKey
  /\ cooldown' = [cooldown EXCEPT ![m] = NoKey]
  /\ UNCHANGED <<pool, sticky, redisUp, gauge, pc, local>>
  /\ Observe

\* The hour SetSticky gives a pin has passed.
StickyExpire(s) ==
  /\ sticky[s] # None
  /\ sticky' = [sticky EXCEPT ![s] = None]
  /\ UNCHANGED <<pool, cooldown, redisUp, gauge, pc, local>>
  /\ Observe

\* An instance loses its connection to Redis, or has it back.  The keys stay.
RedisToggle(i) ==
  /\ "redis" \in Event
  /\ redisUp' = [redisUp EXCEPT ![i] = ~@]
  /\ UNCHANGED <<pool, cooldown, sticky, gauge, pc, local>>
  /\ Observe

\* Mutant of Reload: the pool is swapped before it is validated.
Reload_Unvalidated(i, f) ==
  /\ "reload" \in Event
  /\ pool' = [pool EXCEPT ![i] = Loaded(f)]
  /\ UNCHANGED <<cooldown, sticky, redisUp, gauge, pc, local>>
  /\ Observe

\* Loader.reload: a file that fails validation leaves the active pool as it is.
Reload(i, f) ==
  /\ "reload" \in Event
  /\ pool' = IF Validate(f) THEN [pool EXCEPT ![i] = Loaded(f)] ELSE pool
  /\ UNCHANGED <<cooldown, sticky, redisUp, gauge, pc, local>>
  /\ Observe

\* Every request has been answered: nothing more need happen.
Terminated ==
  /\ \A r \in Request : pc[r] = "done"
  /\ UNCHANGED vars

\* What the goroutine of r does by itself once it runs.
Handle(r) ==
  \/ FilterHealthy(r)
  \/ GiveUp(r)
  \/ Choose(r)
  \/ TransportError(r)
  \/ ContextDone(r)
  \/ Respond(r)
  \/ FailOver(r)
  \/ Accept(r)
  \/ Finish(r)
  \/ EndStream(r)

Next ==
  \/ \E r \in Request : \E s \in Session \cup {None} : ServeHTTP(r, s)
  \/ \E r \in Request : Handle(r)
  \/ \E r \in Request : Hangup(r)
  \/ \E m \in Member : Expire(m)
  \/ \E s \in Session : StickyExpire(s)
  \/ \E i \in Instance : RedisToggle(i)
  \/ \E i \in Instance, f \in PoolFile : Reload(i, f)
  \/ Terminated

\* A handler that can take a step takes one: ResponseHeaderTimeout bounds the
\* wait for headers; that a body ends is assumed of the upstream.
Fairness == \A r \in Request : WF_vars(Handle(r))

Spec == Init /\ [][Next]_vars /\ Fairness

-----------------------------------------------------------------------------
(***************************************************************************)
(* Properties                                                              *)
(***************************************************************************)

\* Every variable holds a value of its kind; in particular a request always runs
\* on a pool that passed Validate, and a member it waits for is in that pool.
TypeOK ==
  /\ pool \in [Instance -> Pools]
  /\ cooldown \in [Member -> {n \in Int : n >= NoExpiry}]
  /\ sticky \in [Session -> Member \cup {None}]
  /\ redisUp \in [Instance -> BOOLEAN]
  /\ gauge \in [Instance -> SUBSET Member]
  /\ pc \in [Request -> PC]
  /\ inst \in [Request -> Instance]
  /\ snap \in [Request -> Pools \cup {<<>>}]
  /\ session \in [Request -> Session \cup {None}]
  /\ tried \in [Request -> SUBSET Member]
  /\ attempt \in [Request -> Nat]
  /\ healthy \in [Request -> SUBSET Nat]
  /\ member \in [Request -> Nat]
  /\ resp \in [Request -> Answer \cup {None}]
  /\ last \in [Request -> Answer \cup {None}]
  /\ reply \in [Request -> {"none", "finish", "replay", "bad_gateway"}]
  /\ hungUp \in [Request -> BOOLEAN]
  /\ avoid \in [Request -> SUBSET Member]
  /\ home \in [Request -> SUBSET Nat]

\* A request is sent at most once to each member and only to enabled ones: the
\* attempts of ServeHTTP's loop and the members in its tried map always agree,
\* so no attempt is spent on a member twice.
Sent(r) == IF pc[r] \in {"wait", "buffer", "finish", "stream"} \/ reply[r] = "finish"
           THEN attempt[r] + 1 ELSE attempt[r]

EachMemberOnce ==
  \A r \in Request :
    /\ Cardinality(tried[r]) = Sent(r)
    /\ tried[r] \subseteq {Id(r, k) : k \in EnabledPositions(snap[r])}

\* A member that was in cooldown when an attempt began, and still is, is not sent
\* that attempt: not by a pin, a hash, a retry, or another instance that did not
\* see the rate limit itself.  Only a Redis outage or a client that has left
\* (whose commands fail) makes Pick fail open.
CooledMembersAvoided ==
  \A r \in Request : pc[r] = "wait" => Id(r, member[r]) \notin avoid[r]

\* In redis mode the first attempt of a request goes to the member its session
\* is pinned to, if that pin has held and the member has been enabled and out of
\* cooldown ever since the request arrived.
AffinityHonoured ==
  \A r \in Request :
    pc[r] = "wait" /\ attempt[r] = 0 /\ stickyMode = "redis" =>
      home[r] \subseteq {member[r]}

\* ServeHTTP stops without an upstream's answer only when no enabled member of
\* the request's pool is left: each was tried, or Redis said it is in cooldown.
GivesUpOnlyWhenExhausted ==
  [][\A r \in Request :
       pc[r] = "pick" /\ pc'[r] = "done" =>
         \A k \in EnabledPositions(snap[r]) :
           \/ Id(r, k) \in tried[r]
           \/ Reachable(r) /\ cooldown[Id(r, k)] # NoKey]_vars

\* No rate limit reaches the client while a member is left to try: what finish
\* relays is no failover answer, streamed or buffered (MayFailover agrees with
\* ShouldFailover), and what is replayed after the loop is one.
HonestReply ==
  \A r \in Request :
    /\ reply[r] = "finish" => ~ShouldFailover(resp[r])
    /\ reply[r] = "replay" => ShouldFailover(last[r])

\* A session is pinned to a member only by a reply that member gave it: a member
\* that was merely tried, or that answered with a rate limit, is never pinned.
PinsAreEarned ==
  \A s \in Session :
    sticky[s] # None =>
      \E r \in Request : /\ session[r] = s
                         /\ reply[r] = "finish"
                         /\ Id(r, member[r]) = sticky[s]

\* Of the numbers Pick can draw, each healthy member gets as many as its weight:
\* the walk over running sums neither favours nor starves a position, whichever
\* members were filtered out before it.
WeightShare ==
  \A r \in Request : pc[r] = "choose" =>
    \A k \in healthy[r] :
      Cardinality({p \in 0 .. Total(snap[r], healthy[r]) - 1 :
                     WeightedPick(snap[r], healthy[r], p) = k}) = snap[r][k].weight

\* How many steps the handler of r has left at most: four for each attempt left to
\* the loop, the last of which may end in the two of finish.
StepsLeft(r) ==
  LET left == Len(snap[r]) - attempt[r] IN
  CASE pc[r] = "pick"   -> 4 * left + 2
    [] pc[r] = "choose" -> 4 * left + 1
    [] pc[r] = "wait"   -> 4 * left
    [] pc[r] = "buffer" -> 4 * left - 1
    [] pc[r] = "finish" -> 2
    [] pc[r] = "stream" -> 1
    [] OTHER            -> 0

\* The loop of ServeHTTP winds down: whatever the upstreams answer, keys that expire,
\* a Redis that comes and goes, other requests and new pools never give a request
\* back the steps it has used, so the size of its pool bounds them.
LoopWindsDown ==
  [][\A r \in Request :
       pc[r] # "idle" /\ pc'[r] # pc[r] =>
         StepsLeft(r)' \in Nat /\ StepsLeft(r)' < StepsLeft(r)]_vars

\* No number of seconds that a file or an upstream gives, nor a default of the code,
\* exceeds a time.Duration when it is multiplied by time.Second.
Fits(sec) == sec * Second < DurationLimit

SecondsFit ==
  /\ Fits(18000)
  /\ \A a \in Response : Fits(a.retryAfter)
  /\ \A f \in PoolFile : \A k \in DOMAIN f : Fits(f[k].cooldownSec)

\* Handler.cooldown never writes a key that stays for ever, neither for an error
\* without a Retry-After nor for a member with a negative cooldown; the one exception
\* is a number of seconds so large that the product overflows.
KeysExpire == SecondsFit => \A m \in Member : cooldown[m] # NoExpiry

\* Every request that arrives is answered, whatever fails on the way.
EveryRequestAnswered ==
  \A r \in Request : pc[r] # "idle" ~> pc[r] = "done"

-----------------------------------------------------------------------------
(***************************************************************************)
(* What the caller is promised: FailoverProxy implements ProxyService.     *)
(* The mapping forgets Redis, the healthy set, the pin and the choice.     *)
(***************************************************************************)
Stage(r) ==
  CASE pc[r] = "idle"            -> "absent"
    [] reply[r] = "finish"       -> "relayed"
    [] reply[r] = "replay"       -> "replayed"
    [] reply[r] = "bad_gateway"  -> "failed"
    [] OTHER                     -> "trying"

Offer(r) == {Id(r, k) : k \in EnabledPositions(snap[r])}

Asking(r) == IF pc[r] \in {"wait", "buffer", "finish"} \/ reply[r] = "finish"
             THEN Id(r, member[r]) ELSE None

Given(r) ==
  CASE reply[r] = "finish"                    -> resp[r]
    [] reply[r] = "replay"                    -> last[r]
    [] reply[r] \notin {"finish", "replay"}   -> None

Service == INSTANCE ProxyService WITH
  RateLimit <- {a \in Answer : ShouldFailover(a)},
  stage     <- [r \in Request |-> Stage(r)],
  offer     <- [r \in Request |-> Offer(r)],
  asked     <- tried,
  asking    <- [r \in Request |-> Asking(r)],
  kept      <- last,
  given     <- [r \in Request |-> Given(r)]

\* Whatever other requests, instances, Redis, pool files and clients do, ServeHTTP
\* treats each request as ProxyService says: on the pool it started with, one member
\* at a time and none twice, and one reply, which no later step takes back.  That the
\* reply may be a 502 is what the code and its tests say; see ExhaustionIsRateLimited.
ImplementsService == Service!Spec

-----------------------------------------------------------------------------
(***************************************************************************)
(* What the documentation says and the code does not do.                   *)
(***************************************************************************)

\* architecture.md: "`cooldown:{member}`, with a time to live. Proem writes it
\* when a member reports a rate limit."  Any cooldown key that Handler.cooldown
\* writes follows a rate limit of that member.
CooldownMeansRateLimit ==
  [][\A m \in Member :
       cooldown'[m] # NoKey /\ cooldown'[m] # cooldown[m] =>
         \E r \in Request : /\ pc[r] = "buffer"
                            /\ Id(r, member[r]) = m
                            /\ ShouldFailover(resp[r])]_vars

\* The design: "All exhausted -> return last error 429 with `Retry-After: minTTL`."
\* and "Pool exhausted -> 429 + Retry-After."  Where no upstream is unreachable, a
\* request that ServeHTTP gives up is answered by a 429 that says when to come back.
ExhaustionIsRateLimited ==
  \A r \in Request :
    pc[r] = "done" /\ reply[r] # "finish" =>
      /\ reply[r] = "replay"
      /\ last[r].status = 429
      /\ last[r].retryAfter > 0
=============================================================================
