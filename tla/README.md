# A verification of proem

proem is an HTTP proxy that spreads the requests of many clients over a pool of
upstream accounts ("members"), moves on to the next member when one reports a
rate limit, and remembers in Redis which members are cooling down and which
member a session is pinned to. This directory holds TLA+ modules translated from
its Go source (`src/internal/`), the TLC runs that check them on small instances
and proofs, checked by TLAPS, of what holds for every instance.

`PROJECT.json` is the index: which lines every definition models ("map"), what
every run checks ("runs"), for every property a plausible bug that breaks it
("mutants"), the disagreements found ("findings"), what is hard to test
("hazards") and what is proved ("theorems").

## The system

| Component | State | Operations | Correct when |
|---|---|---|---|
| failover handler (`proxy/handler.go`) | per request: pool snapshot, tried set, attempt counter, last buffered answer | `ServeHTTP` loop, `send`, `finish`, `cooldown` | nobody is sent a request twice; no cooled member is sent one; no rate limit reaches the client while a member is left; every request ends |
| detector (`failover/`) | none | `MayFailover`, `ShouldFailover`, `CooldownTTL` | the two decisions agree |
| router (`router/`) | none | `Pick` | a good pin is followed, a bad one is not; weights are shares |
| pool file (`pool/types.go`) and its loader (`pool/loader.go`) | the active pool (atomic pointer), an inotify watch | `NewLoader`, `Watch`, `reload`, `Close` | only validated pools are active; a saved file becomes active |
| client registry (`client/types.go`) and its loader (`client/loader.go`) | the active registry, an inotify watch | the same, and `Lookup` | the same; a revoked token is refused |
| store (`store/redis.go`) | Redis keys `cooldown:{m}`, `sticky:{s}` | `FilterHealthy`, `SetCooldown`, `GetSticky`, `SetSticky` | fails open |
| usage observer (`proxy/usage.go`) | partial line, bounded buffer, counts | `Write`, `Result` | what it counts is independent of chunk boundaries |
| authentication (`proxy/auth.go`) | none (reads the active registry) | `Auth` | the verdict is what a registry in force said while the request was there; no client credential goes upstream |
| forwarder (`proxy/forwarder.go`) | none | `AuthHeaders`, `RewriteBody`, `CloneBody` | a member gets its own credential and nothing a failed member was given |
| request scope and access log (`proxy/middleware.go`) | per request: address, client | `RealIP`, `AccessLog` | the log names who the counters are charged to |
| client address (`clientip/`) | trusted blocks | `FromRequest` | an untrusted peer cannot choose its address |
| app (`app/app.go`, `cmd/proem/main.go`) | `done`, listeners, deadlines | `New`, `Run`, `Close` | failover fits into the deadlines; a stop gives requests their grace and ends |
| metrics, flags, token issuing | - | - | - |

How they meet: `app.New` starts one watching goroutine per configuration file.
`net/http` runs one goroutine per request: `RealIP`, `AccessLog`, `Auth`, then the
failover handler, which takes the active pool once and keeps it. Requests of one
instance share the active pool and the metrics; requests of all instances share
Redis and nothing else. A request that is cancelled by its client fails its
Redis commands (they run under its context), except the `SET` of a cooldown,
which runs under `context.Background()`.

What makes it hard: requests overtake each other between two Redis commands;
Redis fails for one command of a request; keys expire at any time; clients leave
at any time, and their leaving looks like an upstream's failure; pool files change
under requests in flight; files are read while they are written and watched by
inode; a decision has to be made before the evidence (the body) is read; headers and
body are held over several attempts and changed for each; three clocks (the
connection's, the attempt's, the shutdown's) run at once.

## The modules

| Module | Models | Used by |
|---|---|---|
| `PoolConfig` | entries, `Validate`, the defaults of `reload` | `Router` |
| `Detector` | the failover decisions | `FailoverProxy` |
| `Router` | the weighted choice | `FailoverProxy`, `RouterProofs` |
| `FailoverProxy` | the request path of any number of requests and instances over Redis | `MCFailoverProxy`, `FailoverProxyProofs` |
| `ProxyService` | what the code and its tests give the caller of a request: the abstract specification | `FailoverProxy` (INSTANCE), `FailoverServiceProofs` |
| `ConfigLoader` | a hot-reloaded file, its loader and who saves it | `MCConfigLoader`, `ConfigLoaderProofs` |
| `UsageObserver` | `copyStream` and the observer that reads along | `MCUsageObserver`, `UsageObserverProofs` |
| `ClientIP` | the address a request is attributed to | `RequestChain` |
| `ClientRegistry` | `clients.yaml`: `Validate`, `Lookup` | `Forwarder`, `RequestChain` |
| `Forwarder` | the request `send` makes for one member | `RequestChain` |
| `RequestChain` | the handlers around the failover loop, composed, while `clients.yaml` is edited | `MCRequestChain`, `RequestChainProofs` |
| `AppServer` | the process: its deadlines, `Run`, `Close`, exit | `MCAppServer`, `AppServerProofs` |
| `FoldLemmas` | nothing: facts about minima, maxima, folds and sums | the proofs |

`FailoverProxy` and `RequestChain` are two views of one request. The first has the
loop in full and sees of a request only its session; the second has the request in
full and sees of the loop only that it sends to untried members and then stops, which
is what the first guarantees (`EachMemberOnce`). `AppServer` has time, and sees of
both only how long they take.

### FailoverProxy

A request `r` moves through `pc[r]`:

    idle -ServeHTTP-> pick -FilterHealthy-> choose -Choose-> wait -Respond-> buffer -Accept-> finish -Finish-> stream -EndStream-> done
                       |  ^                                   |      |          |               ^
                       |  +------------ SendFailed -----------+      +----------|---------------+   (not a candidate for failover)
                     GiveUp                                                  FailOver (back to pick)

Each action is the code from one interaction with the outside to the next: one
Redis command, or one exchange with the upstream.

* `ServeHTTP` takes the pool snapshot (`poolObj`). The 503 for an empty pool is
  left out: no pool `Validate` accepts is empty.
* `FilterHealthy` is `filterNotTried`, the enabled filter and the `MGET`; `GiveUp`
  is the code after the loop, taken exactly when `FilterHealthy` is not.
* `Choose` is the `GET` of the pin, the choice, the entry in `tried`, and the
  request going out. A chosen number is any `rand.Intn` may return.
* `SendFailed` is the error path of `send`, which the handler takes for a
  transport error (`TransportError`) and for a client that left (`ContextDone`)
  alike.
* `Respond` gives the upstream's status and headers; `FailOver` and `Accept` are
  the two ways on once a candidate has been buffered. `AsRead` is the dropped
  error of `io.ReadAll`: a body that breaks off may lose the keyword.
* `Finish` pins and commits the reply, `EndStream` ends the body and clears the
  gauge.
* `Expire`, `StickyExpire`, `RedisToggle`, `Hangup` and `Reload` are the
  environment. `Event` says which of the optional ones an instance has, so that
  a run can isolate a cause.

Data is abstracted to what decisions depend on: an answer is its status, its
`Retry-After` and whether a keyword is in the body; a pool entry is what
`Validate` and the router read; a session is its id and its hash. A filtered
slice of members is the set of positions it keeps. Durations keep their width:
`Nanoseconds` is the product in two's complement, and `Expiry` is what go-redis
does with a duration that is not positive. TLC's own integers have 32 bits, so
the instances scale `time.Duration` down (`Second` = 1000 units,
`DurationLimit` = 2^29): the same overflow at a smaller number.

Merged into one step: the `SET` of a cooldown and the gauge that follows it (no
property relates a state between the two), and `SetSticky` with the headers.
Left out: the second `GET` of the pin, which only counts a metric; a `SET` that
reached Redis although its answer was lost; a nil store, which behaves like a
Redis that is never reachable. Requests arrive once each.

Two history variables, which no action reads, remember what has held without a
break: `avoid[r]`, the members that Redis, reachable to `r`, has had in cooldown
since the attempt began; `home[r]`, the pinned position that has been pinned,
enabled, healthy and in view since `r` arrived. They let an invariant speak of
the moment between a decision and its use without demanding what no code could
give: a cooldown that is set after the `MGET` is not seen by that attempt.

### ProxyService and the refinement

`ProxyService` knows no Redis, cooldown, pin or weight: a request is put to one
member of its pool at a time and to none twice, and gets one reply, which is the
answer of the member asked last, the rate limit of the member asked last, or a 502.
The 502 is what the code's tests fix (`proxy_test.go:491`) and not what the design document
promises: that is a 429 with `Retry-After`, stated by `ExhaustionIsRateLimited`, which the
run `pool_exhausted` shows to fail. `ImplementsService` maps `FailoverProxy` onto it: `Stage` and `Given` are read
off the reply, `Offer` is the enabled members of the snapshot, `Asking` the member that
has the request, `kept` the buffered rate limit. `FilterHealthy`, `EndStream` and the
whole environment are stutters: other requests, other instances, Redis and the files
show in a caller's view only by the choice of the member and of the moment to stop.

### ConfigLoader

One module for both loaders, which differ in one branch (`WatchElsewhere` and
`AddFails`). The loader's goroutine: `Load`, `AddWatch`, `StartWatch`, then `Receive` and `Reload`
until `Close` and `Stop`; `WatchError` is the channel `watcher.Errors`, from which an error is
counted and nothing is read again. The operator: `BeginWrite` and `EndWrite` for a save in
place, `Replace` for a rename or a symbolic link, `MoveAside` and `EndWrite` for
the editors that rename the old file away. A save in place leaves a fragment for
a while, which may be invalid (empty) or valid (cut after a whole entry). inotify
is external: a watch belongs to an inode, goes with it, and merges an event into
an equal unread one. All that a watch in place is told is writes (`OnlyWrites`), so its queue
holds one event and cannot overflow: an error of the watcher loses no event here. Changes of a
file's mode, which the code ignores too, are left out. A watch that falls back to the working directory is taken
not to see the file. Of the metrics only the error count is kept.

### UsageObserver

The body is a sequence of bytes, cut anywhere. A step is one `Read` of
`copyStream`, with the observer's `Write`, or one write to the client. Texts that
carry usage are a constant function `Payload`; any other text yields nothing. The
`\r` of a line end is part of the line end, and counts are not negative. `Wire` is what
travels: the body, or as many opaque bytes if the client's own `Accept-Encoding`,
which `send` copies, made the member compress it. A compressed body has no text in it
that carries usage; that it is also shorter is left out.

### RequestChain, with ClientIP, ClientRegistry and Forwarder

    idle -Arrive-> auth -Admit-> body -ReadBody-> loop -Send-> wait -Answer-> log -Log-> done
                    |                              ^ |          |               ^
                    |                              | +-Answer---|---------------+
                    |                              +---Retry----+               |
                    +--------------------------Reject---------------------------+

`Arrive` is `RealIP`: a request comes along a path of nodes, each of which appended the
address of its peer to whatever the client had put into `X-Forwarded-For`. `Reject` and
`Admit` are `Auth`, one look at the active registry; `Reload` replaces the registry at
any moment. `Send` is one attempt: `held` is what the loop keeps (`bodyBytes` and the
original's headers), `sent` is what `Outgoing` makes of it for the member. `Outgoing` is a set: a
credential may turn out unreadable, and Go applies a model map in any order.
`Log` is the line of the access log, which is not written for `/health` by a method
other than GET (GET never gets here). Whether an attempt fails, and which untried member
is next, is left open; `FailoverProxy` says.

Data: a credential is a value that says whose it is, an `anthropic-beta` line is its set
of values (`strings.Contains` is membership), a body is the model it names and whether the field
is `plain`, in one of the three spellings `RewriteBody` replaces; a body that has the same text in
a nested field is left out. A digest is the token it was made from and whether it is written in capitals, so SHA-256 is taken
to be injective. `standing[r]` is history: what the registries in force have said of the token since
`r` arrived, read off their entries and not with the code's own lookup. The registry in force may
lag `clients.yaml`, or after a rename never follow it: that is the subject of `ConfigLoader`, and
no property here speaks of the file. The constants keep members' credentials and callers' tokens apart
(`ForwarderAssumption`): a caller that holds a member's credential is outside the model.

### AppServer

A request `r` moves through `at[r]`:

    idle -Accept-> reading -ReadBody-> sending -RequestWritten-> waiting
    sending, waiting            -Candidate->              buffering
    sending, waiting            -Respond->                streaming -EndStream, CutStream-> whole, cut
    buffering                   -Respond->                whole
    sending, waiting, buffering -AttemptFails, TimesOut-> sending (the next member), or whole

Time is a tick. What proem does by itself takes none, so a tick waits for what is
due: the end of reading a body (`ReadTimeout`) and the end of the wait for headers
(`ResponseHeaderTimeout`). `age` runs from the headers of the request, as net/http counts
`ReadTimeout` and `WriteTimeout`; `waited` from the moment an attempt's request is written, as the
transport counts. Three places have no timer of the app (`Unbounded`): "sending" (dialling, TLS,
writing the body), "buffering" (the body of a candidate for failover, which `bufferResponse` reads to
the end), and "reading" where `ReadTimeout` is 0, which means none. A request may stay there
for ever; the history variable `stalled` counts the time it does. An upstream may answer before it
has the whole request, and a connection may fail at any point. `Written` is net/http's
rule: after the deadline (0 is none) a write is lost. A stream may end or not, and is cut if a
chunk comes late. Commands to Redis are taken to be prompt. The process goes serving, draining
(`Shutdown`), returned, closed (`App.Close`), exited; `log.Fatal` skips `Close`. Requests arrive once
each, and the metrics listener, which shares the grace, is left out.

## The runs

Instances are as small as lets each property be broken: every property has a
mutant, a plausible bug of a mapped definition, that TLC catches in the same run.

| Run | Checks | Instance |
|---|---|---|
| `proxy_redis` | `EachMemberOnce`, `CooledMembersAvoided`, `AffinityHonoured`, `HonestReply`, `PinsAreEarned`, `GivesUpOnlyWhenExhausted`, `KeysExpire`, `LoopWindsDown` | 2 requests, 2 members, 1 session, redis mode, four answers, transport errors, hang-ups, Redis up and down |
| `proxy_instances` | `TypeOK`, `CooledMembersAvoided`, `ImplementsService` | 2 requests on 1 or 2 instances, lb mode, three pool files (one refused) |
| `proxy_trio` | `AffinityHonoured`, `WeightShare`, `GivesUpOnlyWhenExhausted`, `EveryRequestAnswered` | 2 requests, 3 members of weight 2, 1 (by default) and 3, redis mode, fairness |
| `config_reload` | `ActiveIsValid`, `ReportedIsApplied`, `RestsInForce` | 3 saves of every style, at any time, startup included; errors of the watcher until 2 are counted |
| `usage_chunks` | `ChunksDoNotMatter`, `StreamedIsCounted` | every body of up to 6 bytes over two letters and the newline, plain or compressed, buffer of 2 |
| `request_chain` | `OneCredential`, `OwnModel`, `BetasKept`, `VerdictFollowsRegistry`, `LogAgreesWithMetrics`, `AddressNotForged` | 2 requests of four kinds, an API-key and an OAuth member (one with a chained map), model fields that are recognised and one that is not, three tokens, four registries of which two are refused |
| `server_shutdown` | `RoomToFailOver`, `GraceIsGiven`, `CloseAfterDrain`, `ShutdownEnds` | 2 requests, 2 attempts; body 1, headers 1, write 4, grace 2 ticks |

Requests meet only in Redis, the gauge and the pool. Two of them give every race
between one request's steps and another's cooldown or pin. Two and three members are
the first pools with one and two failovers. What none of these can show, that no
larger number of requests, members or instances breaks the same properties, is
what the proofs are for. All requests are interchangeable, and so are instances:
the runs of `FailoverProxy` and `RequestChain` use that symmetry, except `proxy_trio`, which
checks a liveness property. In `request_chain` two members of different types suffice for everything a first
attempt could leave to a second, and the four calls pair every place a credential can
be in with every shape of the forwarding headers. In `server_shutdown` the write timeout
is one more than body and waits for headers take (1 + 2 * 1): one tick less, and a reply is lost to
timeouts alone; as it is, one is lost as soon as a connection or a buffered body takes a tick, which
is what `stalled` in `RoomToFailOver` is for.

`EveryRequestAnswered` is checked where failovers, cooldowns and their expiry are all the
environment has: with hang-ups, transport errors and a Redis that fails on three members too, TLC does
not finish in five minutes. These cases are in `proxy_redis`, whose `LoopWindsDown` says
of them what does not depend on fairness, and `WindsDown` proves it for every instance.

Bounds: the sets in the configurations; `MaxSaves` for the saves of a file and `MaxErrors` for
the errors of its watcher (none in `config_symlink`, which needs none);
`MaxLength` for a body; in `AppServer` `age` and `stalled` stop at `Horizon` (the longer of the read and
the write timeout) and the time of a shutdown at `Grace`, beyond which nothing distinguishes them. Nothing else is cut off: the retry loop is finite by
itself.

Deadlock is checked everywhere but in the runs of `AppServer`, whose process exits;
`Terminated`, `Quiet` and `Done` say where a
system has come to rest.

### Runs that show a disagreement

Each checks one sentence of the documentation, and TLC shows how the code departs
from it; "findings" quotes the sentence.

| Run | Property | What happens |
|---|---|---|
| `pool_exhausted` | `ExhaustionIsRateLimited` | every rate limit is a 429 with a `Retry-After`, one request's failovers cool the pool, and another request gets a bare 502 |
| `cooldown_hangup` | `CooldownMeansRateLimit` | a client hangs up; its member goes into cooldown for everybody |
| `config_symlink` | `SavedIsApplied` | a replaced file is never read again |
| `timeout_failover` | `TimeoutFailsOver` | with the default timeouts a member times out, the next one answers, and the connection's deadline has passed |
| `usage_encoded` | `EitherShapeIsCounted` | a compressed body, which Claude Code asks for, is relayed and not counted |

More were met while modelling and have no run. Three are in the model, so that a
property over it would show them: a stream that ends clears the cooldown gauge another
request has just set (`EndStream`; `proxy/handler.go:153`; metrics.md: "The value is `1` while the
member is in cooldown"); a `Retry-After` above 9223372036 s overflows, the key is written without
a time to live and the member never returns (`Nanoseconds`, `Expiry`; `handler.go:254`; an answer with
536871 in a run of `FailoverProxy` makes such a key; `KeysExpire` is about all seconds that fit); and a save in place is read half written and
counted as a rejected change (`Reload` of `ConfigLoader`; `app/app.go:65`).

Others a single line shows: of several `anthropic-beta` lines only the first survives
the merge with an OAuth member (`handler.go:228`, against the comment at 218: "the client's own
anthropic-beta values survive"), which is why `BetasKept` is about one line; the keyword of a
compressed rate limit is not found, so without a `Retry-After` it is relayed and nobody
cools down (`handler.go:104`, `failover/detector.go`); a model map with a chain (a to b, b to c) sends one or the other at
random (`forwarder.go:56`), which is why `OwnModel` speaks of all the names the rules lead to; the model is
found as text in three spellings, so `"model" : "x"` is sent unchanged, and a nested field in one of them
is renamed along (`forwarder.go:57-59`; pool-members.md: "`modelMap` rewrites the `model`
field for one member"); `/health` by another method than GET
is proxied and never logged (`middleware.go:54`); the hash is reduced modulo the weight of whoever is healthy, so someone else's
cooldown moves a session off a healthy member (`router/router.go:78`; how-it-works.md:
"The same session then reaches the same member each time"); weight 0 becomes 1 (`pool/loader.go:52`; pool-members.md: "Proem never selects it");
mode `none` reaches `Pick` as the same argument as `lb`, so a session is hashed all
the same (`router/router.go:68`; how-it-works.md: "`none` disables affinity"); the success
counter of configuration reloads moves at startup only (`app/app.go:71`; pool-members.md:
"To confirm that Proem applied the change"); and a file saved between `NewLoader`'s
read and its watch is not read again (`pool/loader.go:21`). `ConfigLoader` has the last
one too: with `EarlyEdits` and saves in place it violates `SavedIsApplied`. That is why
the property that holds, `ReportedIsApplied`, starts from what fsnotify has reported,
and why `RestsInForce` excepts the rest at which the loader starts.

## Fairness

`FailoverProxy`: weak fairness of `Handle(r)` for each request, since goroutines are
scheduled and `ResponseHeaderTimeout` bounds the wait for headers (`NewHandler`).
That a connection comes about and that a body ends, streamed or buffered, is an assumption: the code
removes the timeout of the body on purpose. Nothing obliges clients, operators, upstreams or Redis to do anything.

`AppServer`: weak fairness of `Tick` (time passes), of `TimerFires` (a timer that is due), and of
`ReturnRun`, `Close` and `Exit` (code that runs). That a connection stands, a body or a stream
ends is not assumed: `ShutdownEnds` holds although it may never.

`ConfigLoader`: weak fairness of the loader's goroutine, and of `EndWrite` (a save that
has begun is completed).

## What is proved

Every invariant and every action property that the runs above check is a theorem, for every
value of the constants that satisfies the assumptions `NoneIsNoMember`, `HashIsNat`,
`NoneIsNoSession`, `ConstantsAssumption`, `ConfigAssumption`, `AddressAssumption`,
`MalformedIsNeither`, `ForwarderAssumption`, `ChainAssumption`, `ServerAssumption`,
`UsageAssumption`. They ask for no finiteness of members or requests: a pool, a path and a body
are sequences, so what is drawn from them is finite. The one set that has to be called finite is
the domain of a model map, as a Go map's is.

The proofs are in `FailoverProxyProofs` (on `RouterProofs`), `FailoverServiceProofs`,
`ConfigLoaderProofs`, `RequestChainProofs`, `AppServerProofs` and `UsageObserverProofs`, with what they share
about numbers and folds in `FoldLemmas`. No induction scheme is taken from the library, whose
schemes have an operator as parameter: `Induction` is about a *set* of numbers, and what
would be a predicate is written as one; a fold is shown to exist as a function on the subsets of
a set (`FoldExists`), after which its recursion can be unfolded step by step.

1. `TypeCorrect`. `TypeOK` is not inductive: that the member a request waits for
   is a position of its pool needs `Located`, which ties every local to `pc`
   (at "choose" the healthy set is a nonempty set of untried, enabled positions; from "wait"
   on the member is an enabled one that has been tried; ...). `WeightedPickHealthy`
   and `PicksHealthy` show that `Pick` returns one of the healthy. There is one lemma
   per action, joined in `NextLocated`; `AlwaysLocated` is the invariant that all
   others rest on.
2. `CooldownRespected`. At "wait" nothing is known of the filter any more, so
   `Shielded` says the same of "choose": no healthy position is in `avoid`.
   `HistoryShrinks` shows that `avoid` only shrinks within an attempt, and `OwnStep` that
   a request's locals move only in its own steps, which disposes of all
   interleavings at once.
3. `RepliesAreHonest`, by `Sorted` (an answer at "finish" is no failover answer, a
   buffered one kept in `last` is), and from it `PinsEarned`. The step at which a
   streamed answer has not been read rests on `DetectorAgrees`.
4. `SentOnce`, by `Counted`, which counts `tried` along with the attempts; and
   from it `GivesUpLast`: a request whose counter has reached the number of members
   has tried them all (`IndexCount`, `AllTried`).
5. `AffinityKept`, by `Homing`: until the first attempt is sent, a pin that has
   held is still in Redis and among the healthy.
6. `ValidInForce` (and `LoaderTyped`) for the loaders, and `LastReadIsCurrent`, by `OnlyWrites`: while
   the watch is in place, what is to be received is writes and nothing else, so that each event
   leads to a read, and what a save leaves on the queue (`NotifyQueues`) keeps the loader from resting.
7. `Implements` (`FailoverServiceProofs`): the initial state maps to the initial state,
   and each of the actions to one of `ProxyService` or to a stutter. It rests on
   `AlwaysLocated` (the member at hand is an enabled one of the snapshot, untried until it
   is asked), on `Sorted` (a relayed answer is no rate limit) and on `OthersUnmoved`, which says
   that a step of one request leaves the view of every other as it was.
8. `CredentialsApart`, `BetasSurvive`, `VerdictHolds`, `LogAgrees` (`RequestChainProofs`), by `AlwaysPlaced`, which
   ties each local to `pc`. `CredentialsApart` needs that what is *held* has no credential at all
   from `Admit` on, `BetasSurvive` that it has the client's lines; `VerdictHolds` that the entries of the
   registry in force are in `standing` while a request is at "auth", and (`RegistryEntry`) what
   `Lookup` finds is one of them; `LogAgrees` that scope and context were given one name.
   `ModelsHold` needs that what is held still names the client's model, and `RewrittenByRules`:
   one walk over the map, in any order, ends where the rules lead if the model has a rule, and
   leaves it if not (`WalkFollowsRules`; where the rules lead is said with the sets that are closed
   under them, `RulesStay`, so that no induction over a chain is needed). `AddressHolds` rests on
   `LastOutsider`: the walk of `FromRequest` over the hops, from the right, ends at the last one
   that is no trusted proxy.
9. `LostRepliesAreLate`, `WholeGrace`, `CloseComesLast` (`AppServerProofs`), by `Clocks`: the age of a request
   is at most the body's time, plus a full wait for headers for each attempt that is over, plus
   what it has waited in this one, plus what it stalled where no timer runs; and by `Shut`: past the drain
   nothing is in flight, or the grace is over.
10. `WeightsHonoured`, which is `SharesAreWeights` (`RouterProofs`) for the weights of a loaded pool (none
   is zero, `LoadedWeights`). A sum of weights is counted as a set of cells (`SumCounts`), so
   that the order in which a fold adds them is out of the way; the numbers that lead to a
   position are then the interval between two running sums (`DrawnInterval`), as long as its weight.
11. `WindsDown`, by `Bounded` (the loop counter is below the number of members while an attempt is under
   way): `StepsLeft` is what remains of at most 4n + 2 steps. It is the half of
   `EveryRequestAnswered` that does not depend on fairness.
12. `CooldownsEnd`, by `Buffered` (what is cooled for was one of the upstream's answers) and `ExpiryFits`: a
   product that fits a duration is not changed by its width. `SecondsFit` is the hypothesis under which the
   code has that property at all; an overflow is left out of it.
13. `ChunksHold` and `StreamsCounted` (`UsageObserverProofs`), by `Observed`: what the observer keeps is a
   function of the first `read` elements of the wire. `LinesJoin` shows it for the partial
   line (the lines of what was kept and of the chunk are those the shorter text did not have),
   `HighestJoin` for the counts and `BufferJoin` for the bounded buffer; where the chunks were cut
   does not enter.

Only model-checked: the liveness properties (`EveryRequestAnswered`, `ShutdownEnds`,
`ReportedIsApplied`), since fairness is out of the prover's reach. Items 6 and 11 prove what
of two of them is safety.

## Not modelled, and the plan

What is left, in this order:

1. `NewResolver`'s reading of blocks and the parsing of hops in `clientip`, if a property
   about addresses that are no IPs turns out to be wanted.
2. The metrics listener, which shares the grace of a shutdown, and the two routes
   that are answered locally.
3. The redirects `http.Client` follows by itself (up to ten, a 307 or 308 with the body again):
   an attempt here is one exchange with one member.
4. What the read deadline of net/http does to a connection after the body has been read, and the
   transport's own timers for dialling and TLS, which bound a part of "sending".

Left out for good: token issuing (random bytes and text), metric declarations and
counters that nothing reads, flags, the fields of a log line other than client and
address, the documentation site.
