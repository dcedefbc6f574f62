------------------------ MODULE FailoverProxyProofs ------------------------
(***************************************************************************)
(* Theorems of FailoverProxy, for every value of its constants.            *)
(***************************************************************************)
EXTENDS FailoverProxy, RouterProofs, TLAPS

(***************************************************************************)
(* Pools                                                                   *)
(***************************************************************************)

\* Loader.reload keeps the entries of a file in place and changes only their
\* weights and cooldowns, so what Validate checked of the ids still holds.
LEMMA LoadedPool ==
  ASSUME NEW p \in Pools
  PROVE  /\ Len(p) \in Nat
         /\ DOMAIN p = 1 .. Len(p)
         /\ \A k \in DOMAIN p : p[k].id \in Member /\ p[k].cooldownSec \in Int
         /\ \A j, k \in DOMAIN p : p[j].id = p[k].id => j = k
<1>1. PICK f \in PoolFile : Validate(f) /\ p = Loaded(f)
  BY DEF Pools
<1>2. f \in Seq(Entry)
  BY ConstantsAssumption
<1>3. /\ DOMAIN f = 1 .. Len(f)
      /\ Len(f) \in Nat
      /\ \A k \in DOMAIN f : f[k] \in Entry
  BY <1>2
<1>4. \A m \in Entry : WithDefaults(m) \in Entry /\ WithDefaults(m).id = m.id
  BY DEF WithDefaults, Entry, DefaultCooldownSec
<1>5. /\ DOMAIN p = 1 .. Len(f)
      /\ \A k \in DOMAIN f : p[k] \in Entry /\ p[k].id = f[k].id
  BY <1>1, <1>3, <1>4 DEF Loaded
<1>6. p \in Seq(Entry) /\ Len(p) = Len(f)
  BY <1>1, <1>3, <1>4 DEF Loaded
<1>7. \A k \in DOMAIN f : f[k].id \in Member
  BY <1>1, <1>3 DEF Validate, Entry
<1> QED
  BY <1>1, <1>3, <1>5, <1>6, <1>7 DEF Validate, Entry

(***************************************************************************)
(* The choice                                                              *)
(***************************************************************************)

\* Pick returns one of the members FilterHealthy left, by pin or by weight.
LEMMA PicksHealthy ==
  ASSUME NEW r \in Request, healthy[r] \in SUBSET Nat, healthy[r] # {}
  PROVE  Picks(r) \in SUBSET healthy[r]
<1>1. Pinned(r) \in SUBSET healthy[r]
  BY DEF Pinned
<1>2. WeightedPicks(snap[r], healthy[r], session[r]) \in SUBSET healthy[r]
  BY WeightedPickHealthy DEF WeightedPicks
<1> QED
  BY <1>1, <1>2 DEF Picks

(***************************************************************************)
(* Type correctness                                                        *)
(***************************************************************************)

\* Handler.cooldown turns any number of seconds into a key with a positive time
\* to live, or into one without.
LEMMA ExpiryType ==
  ASSUME NEW sec \in Int
  PROVE  Expiry(sec) \in Int /\ Expiry(sec) >= NoExpiry
<1> DEFINE width == 2 * DurationLimit
           n     == (sec * Second) % width
<1>1. width \in Nat \ {0} /\ DurationLimit \in Nat
  BY ConstantsAssumption
<1>2. sec * Second \in Int
  BY ConstantsAssumption
<1>3. n \in Nat
  <2> HIDE DEF width
  <2> QED
    BY <1>1, <1>2
<1>4. Nanoseconds(sec) \in Int
  <2> HIDE DEF n
  <2> QED
    BY <1>1, <1>3 DEF Nanoseconds, n, width
<1> QED
  BY <1>4 DEF Expiry, NoExpiry

\* The history variables keep their types in every step that keeps the pools of
\* the requests what they are.
LEMMA ObserveType ==
  ASSUME TypeOK, Observe, snap' \in [Request -> Pools \cup {<<>>}]
  PROVE  /\ avoid' \in [Request -> SUBSET Member]
         /\ home' \in [Request -> SUBSET Nat]
<1>1. \A r \in Request : CooledInView(r)' \in SUBSET Member
  BY DEF CooledInView
<1>2. \A r \in Request : PinInView(r)' \in SUBSET Nat
  <2> SUFFICES ASSUME NEW r \in Request PROVE PinInView(r)' \in SUBSET Nat
    OBVIOUS
  <2>1. PinInView(r)' \in SUBSET DOMAIN snap'[r]
    BY DEF PinInView, EnabledPositions
  <2>2. DOMAIN snap'[r] \in SUBSET Nat
    BY LoadedPool
  <2> QED
    BY <2>1, <2>2
<1>3. \A r \in Request : avoid[r] \in SUBSET Member /\ home[r] \in SUBSET Nat
  BY DEF TypeOK
<1> QED
  BY <1>1, <1>2, <1>3 DEF Observe

\* An answer read whole or cut short is an answer.
LEMMA AsReadType ==
  ASSUME NEW r \in Request, resp[r] \in Answer
  PROVE  AsRead(r) \in SUBSET Answer
  BY DEF AsRead, Answer

\* What NewHandler and the loaders start from is of its kind.
LEMMA InitType == Init => TypeOK
<1> SUFFICES ASSUME Init PROVE TypeOK
  OBVIOUS
<1> QED
  BY DEF Init, TypeOK, PC, NoKey, NoExpiry

\* Where a request is in the loop decides what its other locals hold: the pool it
\* runs on, members left to choose from, the member it was sent to.  Inductive
\* together with TypeOK.
Active == {"wait", "buffer", "finish", "stream"}

Located ==
  \A r \in Request :
    /\ pc[r] = "idle" => tried[r] = {} /\ attempt[r] = 0 /\ last[r] = None
                         /\ reply[r] = "none" /\ ~hungUp[r]
    /\ pc[r] # "idle" => snap[r] \in Pools
    /\ pc[r] \notin {"stream", "done"} => reply[r] = "none"
    /\ pc[r] = "stream" => reply[r] = "finish"
    /\ pc[r] = "choose" => /\ healthy[r] # {}
                           /\ healthy[r] \subseteq Candidates(r)
    /\ pc[r] \in Active \/ reply[r] = "finish" =>
         /\ member[r] \in EnabledPositions(snap[r])
         /\ Id(r, member[r]) \in tried[r]
    /\ pc[r] \in {"buffer", "finish"} => resp[r] \in Answer

\* No request has been placed yet, so each is located.
LEMMA InitLocated == Init => Located
  BY DEF Init, Located, Active

\* The entry at a position of a request's pool.
LEMMA PoolEntry ==
  ASSUME TypeOK, NEW r \in Request, NEW k \in DOMAIN snap[r]
  PROVE  /\ k \in Nat
         /\ Id(r, k) \in Member
         /\ snap[r][k].id \in Member
         /\ snap[r][k].cooldownSec \in Int
<1>1. snap[r] \in Pools
  BY DEF TypeOK
<1> QED
  BY <1>1, LoadedPool DEF Id

\* Handler.cooldown keeps the type of the keys.
LEMMA SetCooldownType ==
  ASSUME TypeOK, NEW r \in Request, NEW k \in DOMAIN snap[r], NEW ttl \in Int,
         SetCooldown(r, snap[r][k], ttl)
  PROVE  cooldown' \in [Member -> {n \in Int : n >= NoExpiry}]
<1> DEFINE sec == CooldownSeconds(snap[r][k], ttl)
<1>1. sec \in Int
  BY PoolEntry DEF CooldownSeconds
<1>2. Expiry(sec) \in {n \in Int : n >= NoExpiry}
  BY <1>1, ExpiryType
<1>3. cooldown \in [Member -> {n \in Int : n >= NoExpiry}]
  BY DEF TypeOK
<1> QED
  BY <1>2, <1>3 DEF SetCooldown

\* A request starts on a pool some instance has loaded.
LEMMA ServeHTTPLocated ==
  ASSUME TypeOK, Located, NEW r \in Request, NEW s \in Session \cup {None}, ServeHTTP(r, s)
  PROVE  TypeOK' /\ Located'
<1>1. snap' \in [Request -> Pools \cup {<<>>}]
  BY DEF TypeOK, ServeHTTP, shared
<1>2. Observe
  BY DEF ServeHTTP, shared
<1>3. avoid' \in [Request -> SUBSET Member] /\ home' \in [Request -> SUBSET Nat]
  BY <1>1, <1>2, ObserveType
<1>4. TypeOK'
  BY <1>1, <1>3 DEF TypeOK, PC, ServeHTTP, shared
<1>5. Located'
  BY DEF TypeOK, Located, Active, Candidates, Id, ServeHTTP, shared
<1> QED
  BY <1>4, <1>5

\* FilterHealthy hands on a non-empty part of the untried, enabled members.
LEMMA FilterHealthyLocated ==
  ASSUME TypeOK, Located, NEW r \in Request, FilterHealthy(r)
  PROVE  TypeOK' /\ Located'
<1>1. snap' \in [Request -> Pools \cup {<<>>}]
  BY DEF TypeOK, FilterHealthy, shared
<1>2. Observe
  BY DEF FilterHealthy, shared
<1>3. avoid' \in [Request -> SUBSET Member] /\ home' \in [Request -> SUBSET Nat]
  BY <1>1, <1>2, ObserveType
<1>4. Candidates(r) \in SUBSET Nat
  BY PoolEntry DEF Candidates, EnabledPositions
<1>5. Healthy(r) \in SUBSET Candidates(r)
  BY DEF Healthy
<1>6. TypeOK'
  BY <1>1, <1>3, <1>4, <1>5 DEF TypeOK, PC, FilterHealthy, shared
<1>7. Located'
  BY <1>5 DEF TypeOK, Located, Active, Candidates, Id, FilterHealthy, MoreToTry, shared
<1> QED
  BY <1>6, <1>7

\* Giving up commits a reply and touches nothing else.
LEMMA GiveUpLocated ==
  ASSUME TypeOK, Located, NEW r \in Request, GiveUp(r)
  PROVE  TypeOK' /\ Located'
<1>1. snap' \in [Request -> Pools \cup {<<>>}]
  BY DEF TypeOK, GiveUp, shared
<1>2. Observe
  BY DEF GiveUp, shared
<1>3. avoid' \in [Request -> SUBSET Member] /\ home' \in [Request -> SUBSET Nat]
  BY <1>1, <1>2, ObserveType
<1>4. TypeOK'
  BY <1>1, <1>3 DEF TypeOK, PC, GiveUp, shared
<1>5. Located'
  BY DEF TypeOK, Located, Active, Candidates, Id, GiveUp, shared
<1> QED
  BY <1>4, <1>5

\* Pick returns a member of the pool, and it is marked as tried.
LEMMA ChooseLocated ==
  ASSUME TypeOK, Located, NEW r \in Request, Choose(r)
  PROVE  TypeOK' /\ Located'
<1>1. snap' \in [Request -> Pools \cup {<<>>}]
  BY DEF TypeOK, Choose, shared
<1>2. Observe
  BY DEF Choose, shared
<1>3. avoid' \in [Request -> SUBSET Member] /\ home' \in [Request -> SUBSET Nat]
  BY <1>1, <1>2, ObserveType
<1>4. healthy[r] # {} /\ healthy[r] \subseteq Candidates(r) /\ healthy[r] \in SUBSET Nat
  BY DEF TypeOK, Located, Choose
<1>5. PICK k \in Picks(r) : /\ member' = [member EXCEPT ![r] = k]
                            /\ tried' = [tried EXCEPT ![r] = @ \cup {Id(r, k)}]
  BY DEF Choose
<1>6. k \in Candidates(r) /\ k \in Nat
  BY <1>4, <1>5, PicksHealthy
<1>7. k \in EnabledPositions(snap[r]) /\ Id(r, k) \in Member
  BY <1>6, PoolEntry DEF Candidates, EnabledPositions
<1>8. /\ member' \in [Request -> Nat]
      /\ tried' \in [Request -> SUBSET Member]
  BY <1>5, <1>6, <1>7 DEF TypeOK
<1>9. /\ healthy' \in [Request -> SUBSET Nat]
      /\ pc' \in [Request -> PC]
  BY DEF TypeOK, Choose, PC
<1>10. TypeOK'
  BY <1>1, <1>3, <1>8, <1>9 DEF TypeOK, Choose, shared
<1>11. Located'
  BY <1>5, <1>7 DEF TypeOK, Located, Active, Candidates, Id, Choose, shared
<1> QED
  BY <1>10, <1>11

\* A send that failed cools a member of the pool and starts the next attempt.
LEMMA SendFailedLocated ==
  ASSUME TypeOK, Located, NEW r \in Request, SendFailed(r)
  PROVE  TypeOK' /\ Located'
<1>1. snap' \in [Request -> Pools \cup {<<>>}]
  BY DEF TypeOK, SendFailed
<1>2. Observe
  BY DEF SendFailed
<1>3. avoid' \in [Request -> SUBSET Member] /\ home' \in [Request -> SUBSET Nat]
  BY <1>1, <1>2, ObserveType
<1>4. member[r] \in DOMAIN snap[r]
  BY DEF Located, Active, SendFailed, EnabledPositions
<1>5. cooldown' \in [Member -> {n \in Int : n >= NoExpiry}]
  BY <1>4, SetCooldownType DEF SendFailed
<1>6. /\ attempt' \in [Request -> Nat]
      /\ pc' \in [Request -> PC]
      /\ last' \in [Request -> Answer \cup {None}]
  BY DEF TypeOK, SendFailed, NextAttempt, PC
<1>7. TypeOK'
  BY <1>1, <1>3, <1>5, <1>6 DEF TypeOK, SendFailed
<1>8. Located'
  BY DEF TypeOK, Located, Active, Candidates, Id, SendFailed, NextAttempt
<1> QED
  BY <1>7, <1>8

\* An answer arrives for the member the request was sent to.
LEMMA RespondLocated ==
  ASSUME TypeOK, Located, NEW r \in Request, Respond(r)
  PROVE  TypeOK' /\ Located'
<1>1. snap' \in [Request -> Pools \cup {<<>>}]
  BY DEF TypeOK, Respond, shared
<1>2. Observe
  BY DEF Respond, shared
<1>3. avoid' \in [Request -> SUBSET Member] /\ home' \in [Request -> SUBSET Nat]
  BY <1>1, <1>2, ObserveType
<1>4. Response \subseteq Answer
  BY ConstantsAssumption
<1>5. /\ pc' \in [Request -> PC]
      /\ resp' \in [Request -> Answer \cup {None}]
  BY <1>4 DEF TypeOK, Respond, PC
<1>6. TypeOK'
  BY <1>1, <1>3, <1>5 DEF TypeOK, Respond, shared
<1>7. Located'
  BY <1>4 DEF TypeOK, Located, Active, Candidates, Id, Respond, shared
<1> QED
  BY <1>6, <1>7

\* A rate limit cools a member of the pool and starts the next attempt.
LEMMA FailOverLocated ==
  ASSUME TypeOK, Located, NEW r \in Request, FailOver(r)
  PROVE  TypeOK' /\ Located'
<1>1. snap' \in [Request -> Pools \cup {<<>>}]
  BY DEF TypeOK, FailOver
<1>2. Observe
  BY DEF FailOver
<1>3. avoid' \in [Request -> SUBSET Member] /\ home' \in [Request -> SUBSET Nat]
  BY <1>1, <1>2, ObserveType
<1>4. PICK a \in AsRead(r) :
        LET m == snap[r][member[r]] IN
          /\ SetCooldown(r, m, CooldownTTL(DetectedTTL(a), m.cooldownSec, IsAnthropic(m)))
          /\ gauge' = [gauge EXCEPT ![inst[r]] = @ \cup {m.id}]
          /\ last' = [last EXCEPT ![r] = a]
  BY DEF FailOver
<1>5. member[r] \in DOMAIN snap[r] /\ a \in Answer
  BY AsReadType DEF Located, Active, FailOver, EnabledPositions
<1> DEFINE m   == snap[r][member[r]]
           ttl == CooldownTTL(DetectedTTL(a), m.cooldownSec, IsAnthropic(m))
<1>6. m.id \in Member /\ m.cooldownSec \in Int
  BY <1>5, PoolEntry
<1>7. ttl \in Int
  BY <1>5, <1>6 DEF CooldownTTL, DetectedTTL, Answer
<1>8. cooldown' \in [Member -> {n \in Int : n >= NoExpiry}]
  BY <1>4, <1>5, <1>7, SetCooldownType
<1>9. /\ attempt' \in [Request -> Nat]
      /\ pc' \in [Request -> PC]
      /\ resp' \in [Request -> Answer \cup {None}]
  BY DEF TypeOK, FailOver, NextAttempt, PC
<1>10. /\ last' \in [Request -> Answer \cup {None}]
       /\ gauge' \in [Instance -> SUBSET Member]
  BY <1>4, <1>5, <1>6 DEF TypeOK
<1>11. TypeOK'
  BY <1>1, <1>3, <1>8, <1>9, <1>10 DEF TypeOK, FailOver
<1>12. Located'
  BY DEF TypeOK, Located, Active, Candidates, Id, FailOver, NextAttempt
<1> QED
  BY <1>11, <1>12

\* A buffered answer that is no rate limit is kept as it was read.
LEMMA AcceptLocated ==
  ASSUME TypeOK, Located, NEW r \in Request, Accept(r)
  PROVE  TypeOK' /\ Located'
<1>1. snap' \in [Request -> Pools \cup {<<>>}]
  BY DEF TypeOK, Accept, shared
<1>2. Observe
  BY DEF Accept, shared
<1>3. avoid' \in [Request -> SUBSET Member] /\ home' \in [Request -> SUBSET Nat]
  BY <1>1, <1>2, ObserveType
<1>4. PICK a \in AsRead(r) : resp' = [resp EXCEPT ![r] = a]
  BY DEF Accept
<1>5. a \in Answer
  BY <1>4, AsReadType DEF Located, Accept
<1>6. TypeOK'
  BY <1>1, <1>3, <1>4, <1>5 DEF TypeOK, PC, Accept, shared
<1>7. Located'
  BY <1>4, <1>5 DEF TypeOK, Located, Active, Candidates, Id, Accept, shared
<1> QED
  BY <1>6, <1>7

\* The session is pinned to a member of the pool.
LEMMA FinishLocated ==
  ASSUME TypeOK, Located, NEW r \in Request, Finish(r)
  PROVE  TypeOK' /\ Located'
<1>1. snap' \in [Request -> Pools \cup {<<>>}]
  BY DEF TypeOK, Finish
<1>2. Observe
  BY DEF Finish
<1>3. avoid' \in [Request -> SUBSET Member] /\ home' \in [Request -> SUBSET Nat]
  BY <1>1, <1>2, ObserveType
<1>4. Id(r, member[r]) \in Member
  BY PoolEntry DEF Located, Active, Finish, EnabledPositions
<1>5. TypeOK'
  BY <1>1, <1>3, <1>4 DEF TypeOK, PC, Finish
<1>6. Located'
  BY DEF TypeOK, Located, Active, Candidates, Id, Finish
<1> QED
  BY <1>5, <1>6

\* The end of a stream clears a gauge and nothing else.
LEMMA EndStreamLocated ==
  ASSUME TypeOK, Located, NEW r \in Request, EndStream(r)
  PROVE  TypeOK' /\ Located'
<1>1. snap' \in [Request -> Pools \cup {<<>>}]
  BY DEF TypeOK, EndStream, local
<1>2. Observe
  BY DEF EndStream, local
<1>3. avoid' \in [Request -> SUBSET Member] /\ home' \in [Request -> SUBSET Nat]
  BY <1>1, <1>2, ObserveType
<1>4. TypeOK'
  BY <1>1, <1>3 DEF TypeOK, PC, EndStream, local
<1>5. Located'
  BY DEF TypeOK, Located, Active, Candidates, Id, EndStream, local
<1> QED
  BY <1>4, <1>5

\* A client that leaves moves no request.
LEMMA HangupLocated ==
  ASSUME TypeOK, Located, NEW r \in Request, Hangup(r)
  PROVE  TypeOK' /\ Located'
<1>1. snap' \in [Request -> Pools \cup {<<>>}]
  BY DEF TypeOK, Hangup, shared
<1>2. Observe
  BY DEF Hangup, shared
<1>3. avoid' \in [Request -> SUBSET Member] /\ home' \in [Request -> SUBSET Nat]
  BY <1>1, <1>2, ObserveType
<1>4. TypeOK'
  BY <1>1, <1>3 DEF TypeOK, PC, Hangup, shared
<1>5. Located'
  BY DEF TypeOK, Located, Active, Candidates, Id, Hangup, shared
<1> QED
  BY <1>4, <1>5

\* A key that expires moves no request.
LEMMA ExpireLocated ==
  ASSUME TypeOK, Located, NEW m \in Member, Expire(m)
  PROVE  TypeOK' /\ Located'
<1>1. snap' \in [Request -> Pools \cup {<<>>}]
  BY DEF TypeOK, Expire, local
<1>2. Observe
  BY DEF Expire, local
<1>3. avoid' \in [Request -> SUBSET Member] /\ home' \in [Request -> SUBSET Nat]
  BY <1>1, <1>2, ObserveType
<1>4. TypeOK'
  BY <1>1, <1>3 DEF TypeOK, PC, Expire, local, NoKey, NoExpiry
<1>5. Located'
  BY DEF TypeOK, Located, Active, Candidates, Id, Expire, local, NoKey, NoExpiry
<1> QED
  BY <1>4, <1>5

\* A pin that expires moves no request.
LEMMA StickyExpireLocated ==
  ASSUME TypeOK, Located, NEW s \in Session, StickyExpire(s)
  PROVE  TypeOK' /\ Located'
<1>1. snap' \in [Request -> Pools \cup {<<>>}]
  BY DEF TypeOK, StickyExpire, local
<1>2. Observe
  BY DEF StickyExpire, local
<1>3. avoid' \in [Request -> SUBSET Member] /\ home' \in [Request -> SUBSET Nat]
  BY <1>1, <1>2, ObserveType
<1>4. TypeOK'
  BY <1>1, <1>3 DEF TypeOK, PC, StickyExpire, local
<1>5. Located'
  BY DEF TypeOK, Located, Active, Candidates, Id, StickyExpire, local
<1> QED
  BY <1>4, <1>5

\* Losing Redis, or having it back, moves no request.
LEMMA RedisToggleLocated ==
  ASSUME TypeOK, Located, NEW i \in Instance, RedisToggle(i)
  PROVE  TypeOK' /\ Located'
<1>1. snap' \in [Request -> Pools \cup {<<>>}]
  BY DEF TypeOK, RedisToggle, local
<1>2. Observe
  BY DEF RedisToggle, local
<1>3. avoid' \in [Request -> SUBSET Member] /\ home' \in [Request -> SUBSET Nat]
  BY <1>1, <1>2, ObserveType
<1>4. TypeOK'
  BY <1>1, <1>3 DEF TypeOK, PC, RedisToggle, local
<1>5. Located'
  BY DEF TypeOK, Located, Active, Candidates, Id, RedisToggle, local
<1> QED
  BY <1>4, <1>5

\* A reload replaces the pool of an instance, not that of a running request.
LEMMA ReloadLocated ==
  ASSUME TypeOK, Located, NEW i \in Instance, NEW f \in PoolFile, Reload(i, f)
  PROVE  TypeOK' /\ Located'
<1>1. snap' \in [Request -> Pools \cup {<<>>}]
  BY DEF TypeOK, Reload, local
<1>2. Observe
  BY DEF Reload, local
<1>3. avoid' \in [Request -> SUBSET Member] /\ home' \in [Request -> SUBSET Nat]
  BY <1>1, <1>2, ObserveType
<1>4. Validate(f) => Loaded(f) \in Pools
  BY DEF Pools
<1>5. TypeOK'
  BY <1>1, <1>3, <1>4 DEF TypeOK, PC, Reload, local
<1>6. Located'
  BY DEF TypeOK, Located, Active, Candidates, Id, Reload, local
<1> QED
  BY <1>5, <1>6

\* Every step keeps the types and the place of every request.
LEMMA NextLocated ==
  ASSUME TypeOK, Located, [Next]_vars
  PROVE  TypeOK' /\ Located'
<1>1. ASSUME NEW r \in Request, NEW s \in Session \cup {None}, ServeHTTP(r, s)
      PROVE  TypeOK' /\ Located'
  BY <1>1, ServeHTTPLocated
<1>2. ASSUME NEW r \in Request, Handle(r)
      PROVE  TypeOK' /\ Located'
  BY <1>2, FilterHealthyLocated, GiveUpLocated, ChooseLocated, SendFailedLocated,
     RespondLocated, FailOverLocated, AcceptLocated, FinishLocated, EndStreamLocated
     DEF Handle, TransportError, ContextDone
<1>3. ASSUME NEW r \in Request, Hangup(r)
      PROVE  TypeOK' /\ Located'
  BY <1>3, HangupLocated
<1>4. ASSUME NEW m \in Member, Expire(m)
      PROVE  TypeOK' /\ Located'
  BY <1>4, ExpireLocated
<1>5. ASSUME NEW s \in Session, StickyExpire(s)
      PROVE  TypeOK' /\ Located'
  BY <1>5, StickyExpireLocated
<1>6. ASSUME NEW i \in Instance, RedisToggle(i)
      PROVE  TypeOK' /\ Located'
  BY <1>6, RedisToggleLocated
<1>7. ASSUME NEW i \in Instance, NEW f \in PoolFile, Reload(i, f)
      PROVE  TypeOK' /\ Located'
  BY <1>7, ReloadLocated
<1>8. CASE UNCHANGED vars
  BY <1>8 DEF TypeOK, Located, Active, Candidates, Id, vars, shared, local, history
<1> QED
  BY <1>1, <1>2, <1>3, <1>4, <1>5, <1>6, <1>7, <1>8 DEF Next, Terminated

\* The members a request waits for, and the ones it may still choose, are where
\* the loop of ServeHTTP says they are.
THEOREM AlwaysLocated == Spec => [](TypeOK /\ Located)
<1>1. Init => TypeOK /\ Located
  BY InitType, InitLocated
<1>2. TypeOK /\ Located /\ [Next]_vars => TypeOK' /\ Located'
  BY NextLocated
<1> QED
  BY <1>1, <1>2, PTL DEF Spec

\* In every behaviour each variable keeps its type; in particular no request ever
\* runs on a pool that Validate would refuse, and no key has a time to live that
\* SetCooldown could not have written.
THEOREM TypeCorrect == Spec => []TypeOK
  BY AlwaysLocated, PTL

(***************************************************************************)
(* What a step does to one request                                         *)
(***************************************************************************)

\* The locals of a request's own goroutine, which nobody else touches.
Unmoved(q) ==
  /\ pc'[q] = pc[q]
  /\ inst'[q] = inst[q]
  /\ snap'[q] = snap[q]
  /\ session'[q] = session[q]
  /\ tried'[q] = tried[q]
  /\ attempt'[q] = attempt[q]
  /\ healthy'[q] = healthy[q]
  /\ member'[q] = member[q]
  /\ resp'[q] = resp[q]
  /\ last'[q] = last[q]
  /\ reply'[q] = reply[q]

\* A handler's step leaves the locals of every other request alone.
LEMMA OthersUnmoved ==
  ASSUME TypeOK, NEW r \in Request, NEW q \in Request, r # q,
         Handle(r) \/ \E s \in Session \cup {None} : ServeHTTP(r, s)
  PROVE  Unmoved(q)
<1>1. CASE FilterHealthy(r)
  BY <1>1 DEF TypeOK, Unmoved, FilterHealthy
<1>2. CASE GiveUp(r)
  BY <1>2 DEF TypeOK, Unmoved, GiveUp
<1>3. CASE Choose(r)
  BY <1>3 DEF TypeOK, Unmoved, Choose
<1>4. CASE SendFailed(r)
  BY <1>4 DEF TypeOK, Unmoved, SendFailed, NextAttempt
<1>5. CASE Respond(r)
  BY <1>5 DEF TypeOK, Unmoved, Respond
<1>6. CASE FailOver(r)
  BY <1>6 DEF TypeOK, Unmoved, FailOver, NextAttempt
<1>7. CASE Accept(r)
  BY <1>7 DEF TypeOK, Unmoved, Accept
<1>8. CASE Finish(r)
  BY <1>8 DEF TypeOK, Unmoved, Finish
<1>9. CASE EndStream(r)
  BY <1>9 DEF TypeOK, Unmoved, EndStream, local
<1>10. CASE \E s \in Session \cup {None} : ServeHTTP(r, s)
  BY <1>10 DEF TypeOK, Unmoved, ServeHTTP
<1> QED
  BY <1>1, <1>2, <1>3, <1>4, <1>5, <1>6, <1>7, <1>8, <1>9, <1>10
     DEF Handle, TransportError, ContextDone

\* A step is a step of the request's own handler or leaves its locals alone.
LEMMA OwnStep ==
  ASSUME TypeOK, [Next]_vars, NEW q \in Request
  PROVE  \/ \E s \in Session \cup {None} : ServeHTTP(q, s)
         \/ Handle(q)
         \/ Unmoved(q)
<1>1. ASSUME NEW r \in Request, r # q, NEW s \in Session \cup {None}, ServeHTTP(r, s)
      PROVE  Unmoved(q)
  BY <1>1, OthersUnmoved
<1>2. ASSUME NEW r \in Request, r # q, Handle(r)
      PROVE  Unmoved(q)
  BY <1>2, OthersUnmoved
<1>3. ASSUME NEW r \in Request, Hangup(r)
      PROVE  Unmoved(q)
  BY <1>3 DEF Unmoved, Hangup
<1>4. CASE UNCHANGED <<pc, local>>
  BY <1>4 DEF Unmoved, local
<1> QED
  BY <1>1, <1>2, <1>3, <1>4 DEF Next, Expire, StickyExpire, RedisToggle, Reload, Terminated,
     vars

\* The histories grow only where Observe says they start anew.
LEMMA HistoryShrinks ==
  ASSUME [Next]_vars, NEW q \in Request
  PROVE  /\ ~(pc'[q] = "pick" /\ pc[q] # "pick") => avoid'[q] \subseteq avoid[q]
         /\ pc[q] # "idle" => home'[q] \subseteq home[q]
         /\ Observe \/ UNCHANGED vars
<1>1. CASE UNCHANGED vars
  BY <1>1 DEF vars, history
<1>2. CASE ~ UNCHANGED vars
  <2>1. Observe
    BY <1>2 DEF Next, Handle, TransportError, ContextDone, ServeHTTP, FilterHealthy, GiveUp,
       Choose, SendFailed, Respond, FailOver, Accept, Finish, EndStream, Hangup, Expire,
       StickyExpire, RedisToggle, Reload, Terminated
  <2> QED
    BY <2>1 DEF Observe
<1> QED
  BY <1>1, <1>2

(***************************************************************************)
(* Members in cooldown are left alone                                      *)
(***************************************************************************)

\* What FilterHealthy let through was out of cooldown, or Redis was out of sight:
\* either way it is not in avoid, and avoid only shrinks until the request is sent.
Shielded ==
  \A r \in Request :
    /\ pc[r] = "choose" => \A k \in healthy[r] : Id(r, k) \notin avoid[r]
    /\ pc[r] = "wait" => Id(r, member[r]) \notin avoid[r]

\* No step of anyone brings a member in cooldown into what a request may be sent to.
LEMMA ShieldedStep ==
  ASSUME TypeOK, Located, Shielded, [Next]_vars
  PROVE  Shielded'
<1> SUFFICES ASSUME NEW q \in Request
             PROVE  /\ pc'[q] = "choose" => \A k \in healthy'[q] : Id(q, k)' \notin avoid'[q]
                    /\ pc'[q] = "wait" => Id(q, member[q])' \notin avoid'[q]
  BY DEF Shielded
<1>1. CASE Unmoved(q)
  <2>1. pc'[q] \in {"choose", "wait"} => avoid'[q] \subseteq avoid[q]
    BY HistoryShrinks
  <2> QED
    BY <1>1, <2>1 DEF Unmoved, Shielded, Id
<1>2. CASE FilterHealthy(q)
  <2>1. /\ pc'[q] = "choose"
        /\ healthy'[q] = Healthy(q)
        /\ snap' = snap /\ cooldown' = cooldown
        /\ avoid'[q] \subseteq CooledInView(q)'
        /\ Reachable(q)' = Reachable(q)
    BY <1>2 DEF TypeOK, FilterHealthy, Observe, Reachable, shared
  <2>2. ASSUME NEW k \in Healthy(q) PROVE Id(q, k)' \notin CooledInView(q)'
    BY <2>1 DEF Healthy, CooledInView, Id
  <2> QED
    BY <2>1, <2>2
<1>3. CASE Choose(q)
  <2>1. healthy[q] \in SUBSET Nat /\ healthy[q] # {} /\ pc[q] = "choose"
    BY <1>3 DEF TypeOK, Located, Choose
  <2>2. PICK k \in Picks(q) : member' = [member EXCEPT ![q] = k]
    BY <1>3 DEF Choose
  <2>3. k \in healthy[q] /\ Id(q, k) \notin avoid[q]
    BY <2>1, <2>2, PicksHealthy DEF Shielded
  <2>4. pc'[q] = "wait" /\ snap' = snap /\ member'[q] = k
    BY <1>3, <2>2 DEF TypeOK, Choose
  <2>5. avoid'[q] \subseteq avoid[q]
    BY <2>4, HistoryShrinks
  <2> QED
    BY <2>3, <2>4, <2>5 DEF Id
<1>4. CASE \/ \E s \in Session \cup {None} : ServeHTTP(q, s)
           \/ GiveUp(q) \/ SendFailed(q) \/ Respond(q) \/ FailOver(q)
           \/ Accept(q) \/ Finish(q) \/ EndStream(q)
  <2>1. pc'[q] \notin {"choose", "wait"}
    BY <1>4 DEF TypeOK, ServeHTTP, GiveUp, SendFailed, Respond, FailOver, Accept, Finish,
       EndStream, NextAttempt
  <2> QED
    BY <2>1
<1> QED
  BY <1>1, <1>2, <1>3, <1>4, OwnStep DEF Handle, TransportError, ContextDone

\* In every behaviour: a member in cooldown since the attempt began, in view of
\* the request, is never the one Pick sends the attempt to.
THEOREM CooldownRespected == Spec => []CooledMembersAvoided
<1>1. Init => Shielded
  BY DEF Init, Shielded
<1>2. TypeOK /\ Located /\ Shielded /\ [Next]_vars => Shielded'
  BY ShieldedStep
<1>3. Shielded => CooledMembersAvoided
  BY DEF Shielded, CooledMembersAvoided
<1> QED
  BY <1>1, <1>2, <1>3, AlwaysLocated, PTL DEF Spec

(***************************************************************************)
(* What the client is sent                                                 *)
(***************************************************************************)

\* MayFailover stays in agreement with ShouldFailover, as its comment demands: an
\* answer it lets through unread is none that reading would have rejected.
THEOREM DetectorAgrees ==
  ASSUME NEW a \in Answer, ~MayFailover(a)
  PROVE  ~ShouldFailover(a)
  BY DEF MayFailover, ShouldFailover

\* An answer on its way to the client is no rate limit, one kept for later is.
Sorted ==
  \A r \in Request :
    /\ pc[r] = "finish" => ~ShouldFailover(resp[r])
    /\ last[r] # None => ShouldFailover(last[r])
    /\ reply[r] = "finish" => ~ShouldFailover(resp[r])
    /\ reply[r] = "finish" => pc[r] \in {"stream", "done"}
    /\ reply[r] = "replay" => last[r] # None /\ pc[r] = "done"

\* A request that is past the detector keeps an answer of the sort it was sorted as.
LEMMA SortedStep ==
  ASSUME TypeOK, Located, Sorted, [Next]_vars
  PROVE  Sorted'
<1> SUFFICES ASSUME NEW q \in Request
             PROVE  /\ pc'[q] = "finish" => ~ShouldFailover(resp'[q])
                    /\ last'[q] # None => ShouldFailover(last'[q])
                    /\ reply'[q] = "finish" => ~ShouldFailover(resp'[q])
                    /\ reply'[q] = "finish" => pc'[q] \in {"stream", "done"}
                    /\ reply'[q] = "replay" => last'[q] # None /\ pc'[q] = "done"
  BY DEF Sorted
<1>1. CASE Unmoved(q)
  BY <1>1 DEF Unmoved, Sorted
<1>2. CASE Respond(q)
  <2>1. PICK a \in Response : /\ resp' = [resp EXCEPT ![q] = a]
                              /\ pc' = [pc EXCEPT ![q] = IF MayFailover(a) THEN "buffer"
                                                                          ELSE "finish"]
    BY <1>2 DEF Respond
  <2>2. resp'[q] = a /\ (pc'[q] = "finish" => ~MayFailover(a)) /\ a \in Answer
    BY <2>1, ConstantsAssumption DEF TypeOK
  <2>3. reply[q] = "none" /\ reply' = reply /\ last' = last
    BY <1>2 DEF Located, Respond
  <2> QED
    BY <2>2, <2>3, DetectorAgrees DEF Sorted
<1>3. CASE FailOver(q)
  <2>1. PICK a \in AsRead(q) : ShouldFailover(a) /\ last' = [last EXCEPT ![q] = a]
    BY <1>3 DEF FailOver
  <2>2. reply[q] = "none" /\ reply' = reply /\ pc'[q] = "pick"
    BY <1>3 DEF TypeOK, Located, FailOver, NextAttempt
  <2> QED
    BY <2>1, <2>2 DEF TypeOK
<1>4. CASE Accept(q)
  <2>1. PICK a \in AsRead(q) : ~ShouldFailover(a) /\ resp' = [resp EXCEPT ![q] = a]
    BY <1>4 DEF Accept
  <2>2. reply[q] = "none" /\ reply' = reply /\ last' = last
    BY <1>4 DEF Located, Accept
  <2> QED
    BY <2>1, <2>2 DEF TypeOK, Sorted
<1>5. CASE Finish(q)
  <2>1. /\ pc[q] = "finish" /\ pc'[q] = "stream" /\ reply'[q] = "finish"
        /\ resp' = resp /\ last' = last
    BY <1>5 DEF TypeOK, Finish
  <2> QED
    BY <2>1 DEF Sorted
<1>6. CASE \/ \E s \in Session \cup {None} : ServeHTTP(q, s)
           \/ FilterHealthy(q) \/ Choose(q) \/ SendFailed(q)
  <2>1. /\ pc[q] \notin {"stream", "done"} /\ pc'[q] # "finish" /\ reply' = reply
        /\ last'[q] \in {last[q], None}
    BY <1>6 DEF TypeOK, ServeHTTP, FilterHealthy, Choose, SendFailed, NextAttempt
  <2>2. reply[q] = "none"
    BY <2>1 DEF Located
  <2> QED
    BY <2>1, <2>2 DEF Sorted
<1>7. CASE GiveUp(q)
  BY <1>7 DEF TypeOK, Sorted, GiveUp
<1>8. CASE EndStream(q)
  BY <1>8 DEF TypeOK, Located, Sorted, EndStream, local
<1> QED
  BY <1>1, <1>2, <1>3, <1>4, <1>5, <1>6, <1>7, <1>8, OwnStep
     DEF Handle, TransportError, ContextDone

\* In every behaviour: what finish relays is no failover answer, and what is
\* replayed when the pool is exhausted is one.
THEOREM RepliesAreHonest == Spec => []HonestReply
<1>1. Init => Sorted
  BY DEF Init, Sorted
<1>2. TypeOK /\ Located /\ Sorted /\ [Next]_vars => Sorted'
  BY SortedStep
<1>3. Sorted => HonestReply
  BY DEF Sorted, HonestReply
<1> QED
  BY <1>1, <1>2, <1>3, AlwaysLocated, PTL DEF Spec

(***************************************************************************)
(* One attempt for each member, and all of them before giving up           *)
(***************************************************************************)

Counted ==
  \A r \in Request :
    /\ IsFiniteSet(tried[r])
    /\ Cardinality(tried[r]) = Sent(r)
    /\ tried[r] \subseteq Offer(r)

\* Each send marks a member that was not marked before, so the loop counter and
\* the tried map move together.
LEMMA CountedStep ==
  ASSUME TypeOK, Located, Counted, [Next]_vars
  PROVE  Counted'
<1> SUFFICES ASSUME NEW q \in Request
             PROVE  /\ IsFiniteSet(tried'[q])
                    /\ Cardinality(tried'[q]) = Sent(q)'
                    /\ tried'[q] \subseteq Offer(q)'
  BY DEF Counted
<1>0. attempt[q] \in Nat
  BY DEF TypeOK
<1>1. CASE Unmoved(q)
  BY <1>1 DEF Unmoved, Counted, Sent, Offer, Id
<1>2. CASE \E s \in Session \cup {None} : ServeHTTP(q, s)
  <2>1. tried'[q] = {} /\ attempt'[q] = 0 /\ pc'[q] = "pick" /\ reply'[q] = "none"
    BY <1>2 DEF TypeOK, Located, ServeHTTP
  <2>2. IsFiniteSet({}) /\ Cardinality({}) = 0
    BY FS_EmptySet
  <2> QED
    BY <2>1, <2>2 DEF Sent
<1>3. CASE Choose(q)
  <2>1. /\ healthy[q] \in SUBSET Nat /\ healthy[q] # {}
        /\ healthy[q] \subseteq Candidates(q)
        /\ pc[q] = "choose" /\ reply[q] = "none"
    BY <1>3 DEF TypeOK, Located, Choose
  <2>2. PICK k \in Picks(q) : tried' = [tried EXCEPT ![q] = @ \cup {Id(q, k)}]
    BY <1>3 DEF Choose
  <2>3. k \in EnabledPositions(snap[q]) /\ Id(q, k) \notin tried[q]
    BY <2>1, <2>2, PicksHealthy DEF Candidates
  <2>4. /\ tried'[q] = tried[q] \cup {Id(q, k)}
        /\ pc'[q] = "wait" /\ attempt' = attempt /\ snap' = snap
    BY <1>3, <2>2 DEF TypeOK, Choose
  <2>5. IsFiniteSet(tried[q]) /\ Cardinality(tried[q]) = attempt[q]
    BY <2>1 DEF Counted, Sent
  <2>6. /\ IsFiniteSet(tried[q] \cup {Id(q, k)})
        /\ Cardinality(tried[q] \cup {Id(q, k)}) = attempt[q] + 1
    BY <2>3, <2>5, FS_AddElement
  <2>7. tried'[q] \subseteq Offer(q)'
    BY <2>3, <2>4 DEF Counted, Offer, Id
  <2> QED
    BY <2>4, <2>6, <2>7 DEF Sent
<1>4. CASE SendFailed(q) \/ FailOver(q)
  <2>1. /\ pc[q] \in {"wait", "buffer"} /\ pc'[q] = "pick" /\ reply' = reply
        /\ attempt'[q] = attempt[q] + 1 /\ tried' = tried /\ snap' = snap
    BY <1>4 DEF TypeOK, SendFailed, FailOver, NextAttempt
  <2>2. reply[q] = "none"
    BY <2>1 DEF Located
  <2> QED
    BY <2>1, <2>2 DEF Counted, Sent, Offer, Id
<1>5. CASE FilterHealthy(q) \/ Respond(q) \/ Accept(q)
  <2>1. /\ pc[q] \in {"pick", "wait", "buffer"} /\ reply' = reply
        /\ pc'[q] \in Active <=> pc[q] \in Active
        /\ attempt' = attempt /\ tried' = tried /\ snap' = snap
    BY <1>5 DEF TypeOK, FilterHealthy, Respond, Accept, Active
  <2>2. Sent(q)' = Sent(q)
    BY <2>1 DEF Sent, Active
  <2> QED
    BY <2>1, <2>2 DEF Counted, Offer, Id
<1>6. CASE GiveUp(q)
  <2>1. /\ pc[q] = "pick" /\ pc'[q] = "done" /\ reply'[q] # "finish"
        /\ attempt' = attempt /\ tried' = tried /\ snap' = snap
    BY <1>6 DEF TypeOK, GiveUp
  <2>2. reply[q] = "none"
    BY <2>1 DEF Located
  <2> QED
    BY <2>1, <2>2 DEF Counted, Sent, Offer, Id
<1>7. CASE Finish(q) \/ EndStream(q)
  <2>1. /\ pc[q] \in Active /\ reply'[q] = "finish"
        /\ attempt' = attempt /\ tried' = tried /\ snap' = snap
    BY <1>7 DEF TypeOK, Located, Finish, EndStream, Active, local
  <2> QED
    BY <2>1 DEF Counted, Sent, Active, Offer, Id
<1> QED
  BY <1>1, <1>2, <1>3, <1>4, <1>5, <1>6, <1>7, OwnStep DEF Handle, TransportError, ContextDone

\* No attempt has been made, and no member tried.
LEMMA InitCounted == Init => Counted
<1> SUFFICES ASSUME Init PROVE Counted
  OBVIOUS
<1>1. IsFiniteSet({}) /\ Cardinality({}) = 0
  BY FS_EmptySet
<1> QED
  BY <1>1 DEF Init, Counted, Sent

\* In every behaviour: a request is sent to each member at most once, to enabled
\* members only, and every attempt of the loop is one send.
THEOREM SentOnce == Spec => []EachMemberOnce
<1>1. TypeOK /\ Located /\ Counted /\ [Next]_vars => Counted'
  BY CountedStep
<1>2. Counted => EachMemberOnce
  BY DEF Counted, EachMemberOnce, Offer
<1> QED
  BY <1>1, <1>2, InitCounted, AlwaysLocated, PTL DEF Spec

\* A slice of length n has n indices.
LEMMA IndexCount ==
  ASSUME NEW n \in Nat
  PROVE  IsFiniteSet(1 .. n) /\ Cardinality(1 .. n) = n
<1>1. IsFiniteSet(1 .. n) /\ Cardinality(1 .. n) = IF 1 > n THEN 0 ELSE n - 1 + 1
  BY FS_Interval
<1> QED
  BY <1>1

\* As many different ids as the pool has members are all the ids of the pool: when
\* the loop counter reaches len(poolObj.Members), no member is left untried.
LEMMA AllTried ==
  ASSUME NEW p \in Pools, NEW T,
         T \subseteq {p[k].id : k \in DOMAIN p},
         Cardinality(T) >= Len(p)
  PROVE  \A k \in DOMAIN p : p[k].id \in T
<1> DEFINE N   == 1 .. Len(p)
           Ids == {p[k].id : k \in N}
           id  == [k \in N |-> p[k].id]
<1>1. Len(p) \in Nat /\ DOMAIN p = N
  BY LoadedPool
<1>2. IsFiniteSet(N) /\ Cardinality(N) = Len(p)
  BY <1>1, IndexCount
<1>3. id \in Surjection(N, Ids)
  BY DEF Surjection
<1>4. IsFiniteSet(Ids) /\ Cardinality(Ids) <= Len(p)
  BY <1>2, <1>3, FS_Surjection
<1>5. IsFiniteSet(T) /\ Cardinality(T) <= Cardinality(Ids)
      /\ (Cardinality(T) = Cardinality(Ids) => T = Ids)
  BY <1>1, <1>4, FS_Subset
<1>6. Cardinality(T) \in Nat /\ Cardinality(Ids) \in Nat
  BY <1>4, <1>5, FS_CardinalityType
<1>7. T = Ids
  <2> HIDE DEF Ids
  <2> QED
    BY <1>1, <1>4, <1>5, <1>6
<1> QED
  BY <1>1, <1>7

\* A step that leaves the loop leaves no enabled member of the pool untried,
\* except the ones Redis says are in cooldown.
LEMMA GivesUpStep ==
  ASSUME TypeOK, Located, Counted, [Next]_vars, NEW r \in Request,
         pc[r] = "pick", pc'[r] = "done",
         NEW k \in EnabledPositions(snap[r])
  PROVE  \/ Id(r, k) \in tried[r]
         \/ Reachable(r) /\ cooldown[Id(r, k)] # NoKey
<1>1. GiveUp(r)
  BY OwnStep DEF TypeOK, Unmoved, Handle, TransportError, ContextDone, ServeHTTP, FilterHealthy,
     Choose, SendFailed, Respond, FailOver, Accept, Finish, EndStream, NextAttempt
<1>2. snap[r] \in Pools /\ k \in DOMAIN snap[r]
  BY DEF Located, EnabledPositions
<1>3. CASE Healthy(r) = {}
  BY <1>3 DEF Healthy, Candidates
<1>4. CASE ~(attempt[r] < Len(snap[r]))
  <2>1. Cardinality(tried[r]) = attempt[r] /\ tried[r] \subseteq Offer(r)
    BY <1>1 DEF Counted, Sent, Located, GiveUp
  <2>2. tried[r] \subseteq {snap[r][j].id : j \in DOMAIN snap[r]}
    BY <2>1 DEF Offer, EnabledPositions, Id
  <2>3. attempt[r] \in Nat /\ Len(snap[r]) \in Nat
    BY <1>2, LoadedPool DEF TypeOK
  <2> QED
    BY <1>2, <1>4, <2>1, <2>2, <2>3, AllTried DEF Id
<1> QED
  BY <1>1, <1>3, <1>4 DEF GiveUp, MoreToTry

\* In every behaviour: no request is given up while an enabled member of its pool
\* is neither tried nor in cooldown, however long the pool and wherever Redis is.
THEOREM GivesUpLast == Spec => GivesUpOnlyWhenExhausted
<1> DEFINE Exhausted ==
             \A r \in Request :
               pc[r] = "pick" /\ pc'[r] = "done" =>
                 \A k \in EnabledPositions(snap[r]) :
                   \/ Id(r, k) \in tried[r]
                   \/ Reachable(r) /\ cooldown[Id(r, k)] # NoKey
<1>1. TypeOK /\ Located /\ Counted /\ [Next]_vars => Counted'
  BY CountedStep
<1>2. TypeOK /\ Located /\ Counted /\ [Next]_vars => Exhausted
  BY GivesUpStep
<1>3. TypeOK /\ Located /\ Counted /\ [Next]_vars => [Exhausted]_vars
  BY <1>2
<1> HIDE DEF Exhausted
<1>4. Spec => [][Exhausted]_vars
  BY <1>1, <1>3, InitCounted, AlwaysLocated, PTL DEF Spec
<1> QED
  BY <1>4 DEF Exhausted, GivesUpOnlyWhenExhausted

(***************************************************************************)
(* Session pins                                                            *)
(***************************************************************************)

\* A reply that earned a pin stays on record: its request does not move again.
LEMMA PinsEarnedStep ==
  ASSUME TypeOK, Located, Sorted, PinsAreEarned, [Next]_vars
  PROVE  PinsAreEarned'
<1> SUFFICES ASSUME NEW s \in Session, sticky'[s] # None
             PROVE  \E r \in Request : /\ session'[r] = s
                                       /\ reply'[r] = "finish"
                                       /\ Id(r, member[r])' = sticky'[s]
  BY DEF PinsAreEarned
<1>1. ASSUME NEW r \in Request, reply[r] = "finish"
      PROVE  /\ session'[r] = session[r]
             /\ reply'[r] = "finish"
             /\ Id(r, member[r])' = Id(r, member[r])
  <2>1. pc[r] \in {"stream", "done"}
    BY <1>1 DEF Sorted
  <2>2. EndStream(r) \/ Unmoved(r)
    BY <2>1, OwnStep DEF Handle, TransportError, ContextDone, ServeHTTP, FilterHealthy, GiveUp,
       Choose, SendFailed, Respond, FailOver, Accept, Finish
  <2> QED
    BY <1>1, <2>2 DEF EndStream, Unmoved, Id, local
<1>2. CASE sticky'[s] = sticky[s]
  <2>1. PICK r \in Request : session[r] = s /\ reply[r] = "finish" /\ Id(r, member[r]) = sticky[s]
    BY <1>2 DEF PinsAreEarned
  <2> QED
    BY <1>1, <1>2, <2>1
<1>3. CASE sticky'[s] # sticky[s]
  <2>1. PICK r \in Request : Finish(r)
    <3>1. ASSUME NEW t \in Session, StickyExpire(t)
          PROVE  FALSE
      BY <1>3, <3>1 DEF TypeOK, StickyExpire
    <3> QED
      BY <1>3, <3>1 DEF Next, Handle, TransportError, ContextDone, ServeHTTP, FilterHealthy,
         GiveUp, Choose, SendFailed, Respond, FailOver, Accept, EndStream, Hangup, Expire,
         RedisToggle, Reload, Terminated, vars, shared
  <2>2. /\ session[r] = s /\ sticky'[s] = Id(r, member[r])
        /\ session' = session /\ snap' = snap /\ member' = member /\ reply'[r] = "finish"
    BY <1>3, <2>1 DEF TypeOK, Finish
  <2> QED
    BY <2>2 DEF Id
<1> QED
  BY <1>2, <1>3

\* In every behaviour: a session is pinned only to a member that answered one of
\* its requests, never to one that was merely tried.
THEOREM PinsEarned == Spec => []PinsAreEarned
<1>1. Init => Sorted /\ PinsAreEarned
  BY DEF Init, Sorted, PinsAreEarned
<1>2. TypeOK /\ Located /\ Sorted /\ [Next]_vars => Sorted'
  BY SortedStep
<1>3. TypeOK /\ Located /\ Sorted /\ PinsAreEarned /\ [Next]_vars => PinsAreEarned'
  BY PinsEarnedStep
<1> QED
  BY <1>1, <1>2, <1>3, AlwaysLocated, PTL DEF Spec

\* While the counter is at zero nothing has been tried.
LEMMA NothingTried ==
  ASSUME TypeOK, Located, Counted, NEW r \in Request,
         pc[r] \in {"pick", "choose"}, attempt[r] = 0
  PROVE  tried[r] = {}
<1>1. Cardinality(tried[r]) = 0 /\ IsFiniteSet(tried[r])
  BY DEF Located, Counted, Sent
<1> QED
  BY <1>1, FS_EmptySet

\* Until the first attempt is sent, the pin that has held since the arrival still
\* holds, and FilterHealthy has let its member through.
Homing ==
  \A r \in Request :
    /\ home[r] \subseteq PinInView(r)
    /\ pc[r] = "choose" /\ attempt[r] = 0 => home[r] \subseteq healthy[r]

\* No step of anyone takes a pin that holds out of what Pick may still return.
LEMMA HomingStep ==
  ASSUME TypeOK, Located, Counted, Homing, [Next]_vars
  PROVE  Homing'
<1> SUFFICES ASSUME NEW q \in Request
             PROVE  /\ home'[q] \subseteq PinInView(q)'
                    /\ pc'[q] = "choose" /\ attempt'[q] = 0 => home'[q] \subseteq healthy'[q]
  BY DEF Homing
<1>1. home'[q] \subseteq PinInView(q)'
  <2>1. CASE Observe
    BY <2>1 DEF Observe
  <2>2. CASE UNCHANGED vars
    BY <2>2 DEF Homing, PinInView, EnabledPositions, Reachable, Id, vars, shared, local, history
  <2> QED
    BY <2>1, <2>2, HistoryShrinks
<1>2. ASSUME pc'[q] = "choose", attempt'[q] = 0
      PROVE  home'[q] \subseteq healthy'[q]
  <2>1. FilterHealthy(q) \/ Unmoved(q)
    BY <1>2, OwnStep DEF TypeOK, Handle, TransportError, ContextDone, ServeHTTP, GiveUp, Choose,
       SendFailed, Respond, FailOver, Accept, Finish, EndStream, NextAttempt
  <2>2. CASE Unmoved(q)
    BY <1>2, <2>2, HistoryShrinks DEF Unmoved, Homing
  <2>3. CASE FilterHealthy(q)
    <3>1. /\ pc[q] = "pick" /\ attempt[q] = 0 /\ healthy'[q] = Healthy(q)
          /\ home'[q] \subseteq home[q]
      BY <1>2, <2>3, HistoryShrinks DEF TypeOK, FilterHealthy
    <3>2. home[q] \subseteq PinInView(q) /\ tried[q] = {}
      BY <3>1, NothingTried DEF Homing
    <3>3. PinInView(q) \subseteq Healthy(q)
      BY <3>2 DEF PinInView, Healthy, Candidates
    <3> QED
      BY <3>1, <3>2, <3>3
  <2> QED
    BY <2>1, <2>2, <2>3
<1> QED
  BY <1>1, <1>2

\* The choice follows the pin: ids are unique in a pool, so the pinned position is
\* the only one Pick can return.
LEMMA AffinityStep ==
  ASSUME TypeOK, Located, Homing, AffinityHonoured, [Next]_vars
  PROVE  AffinityHonoured'
<1> SUFFICES ASSUME NEW q \in Request, pc'[q] = "wait", attempt'[q] = 0, stickyMode = "redis"
             PROVE  home'[q] \subseteq {member'[q]}
  BY DEF AffinityHonoured
<1>1. Choose(q) \/ Unmoved(q)
  BY OwnStep DEF TypeOK, Handle, TransportError, ContextDone, ServeHTTP, FilterHealthy, GiveUp,
     SendFailed, Respond, FailOver, Accept, Finish, EndStream, NextAttempt
<1>2. CASE Unmoved(q)
  BY <1>2, HistoryShrinks DEF Unmoved, AffinityHonoured
<1>3. CASE Choose(q)
  <2>1. /\ pc[q] = "choose" /\ attempt[q] = 0
        /\ home'[q] \subseteq home[q]
    BY <1>3, HistoryShrinks DEF Choose
  <2>2. PICK k \in Picks(q) : member' = [member EXCEPT ![q] = k]
    BY <1>3 DEF Choose
  <2>3. member'[q] = k
    BY <2>2 DEF TypeOK
  <2>4. home[q] \subseteq PinInView(q) /\ home[q] \subseteq healthy[q]
    BY <2>1 DEF Homing
  <2>5. ASSUME NEW h \in home[q] PROVE h = k
    <3>1. h \in Pinned(q)
      BY <2>1, <2>4 DEF PinInView, Pinned, TrySticky
    <3>2. k \in Pinned(q)
      BY <2>2, <3>1 DEF Picks
    <3>3. Id(q, h) = Id(q, k)
      BY <3>1, <3>2 DEF Pinned
    <3>4. snap[q] \in Pools /\ h \in DOMAIN snap[q] /\ k \in DOMAIN snap[q]
      BY <2>1, <3>1, <3>2 DEF Located, Pinned, Candidates, EnabledPositions
    <3> QED
      BY <3>3, <3>4, LoadedPool DEF Id
  <2> QED
    BY <2>1, <2>3, <2>5
<1> QED
  BY <1>1, <1>2, <1>3

\* In every behaviour: in redis mode the first attempt follows a pin that has held
\* since the request arrived, if its member is enabled and out of cooldown.
THEOREM AffinityKept == Spec => []AffinityHonoured
<1>1. Init => Homing /\ AffinityHonoured
  BY DEF Init, Homing, AffinityHonoured
<1>2. TypeOK /\ Located /\ Counted /\ [Next]_vars => Counted'
  BY CountedStep
<1>3. TypeOK /\ Located /\ Counted /\ Homing /\ [Next]_vars => Homing'
  BY HomingStep
<1>4. TypeOK /\ Located /\ Homing /\ AffinityHonoured /\ [Next]_vars => AffinityHonoured'
  BY AffinityStep
<1> QED
  BY <1>1, <1>2, <1>3, <1>4, InitCounted, AlwaysLocated, PTL DEF Spec

(***************************************************************************)
(* The weighted choice                                                     *)
(***************************************************************************)

\* Validate refuses negative weights, and reload turns a zero into a one.
LEMMA LoadedWeights ==
  ASSUME NEW p \in Pools, NEW k \in DOMAIN p
  PROVE  p[k].weight \in Nat \ {0}
<1>1. PICK f \in PoolFile : Validate(f) /\ p = Loaded(f)
  BY DEF Pools
<1>2. f \in Seq(Entry)
  BY ConstantsAssumption
<1>3. k \in DOMAIN f /\ f[k] \in Entry /\ f[k].weight >= 0
  BY <1>1, <1>2 DEF Loaded, Validate
<1>4. p[k].weight = IF f[k].weight = 0 THEN 1 ELSE f[k].weight
  BY <1>1, <1>3 DEF Loaded, WithDefaults
<1> QED
  BY <1>3, <1>4 DEF Entry

\* In every behaviour, whichever members are disabled, tried or cooling down at the
\* moment of a choice: each of the others has as many of the numbers Pick can draw
\* as its weight says.
THEOREM WeightsHonoured == Spec => []WeightShare
<1>1. TypeOK /\ Located => WeightShare
  <2> SUFFICES ASSUME TypeOK, Located,
                      NEW r \in Request, pc[r] = "choose", NEW k \in healthy[r]
               PROVE  Cardinality({p \in 0 .. Total(snap[r], healthy[r]) - 1 :
                        WeightedPick(snap[r], healthy[r], p) = k}) = snap[r][k].weight
    BY DEF WeightShare
  <2>1. snap[r] \in Pools /\ healthy[r] \in SUBSET (DOMAIN snap[r])
    BY DEF TypeOK, Located, Candidates, EnabledPositions
  <2>2. Len(snap[r]) \in Nat /\ healthy[r] \in SUBSET (1 .. Len(snap[r]))
    BY <2>1, LoadedPool
  <2>3. Positive(snap[r], healthy[r])
    BY <2>1, LoadedWeights DEF Positive
  <2>4. Cardinality(Drawn(snap[r], healthy[r], k)) = snap[r][k].weight
    BY <2>2, <2>3, SharesAreWeights
  <2> QED
    BY <2>4 DEF Drawn
<1> QED
  BY <1>1, AlwaysLocated, PTL
(***************************************************************************)
(* The loop winds down                                                     *)
(***************************************************************************)

\* The loop counter never passes the number of members, and is below it while an
\* attempt is under way.
Bounded ==
  \A r \in Request :
    /\ pc[r] # "idle" => attempt[r] <= Len(snap[r])
    /\ pc[r] \in {"choose", "wait", "buffer"} => attempt[r] < Len(snap[r])

\* The length of the pool of a request that has arrived.
LEMMA PoolLength ==
  ASSUME TypeOK, Located, NEW r \in Request, pc[r] # "idle"
  PROVE  Len(snap[r]) \in Nat /\ attempt[r] \in Nat
<1>1. snap[r] \in Pools
  BY DEF Located
<1> QED
  BY <1>1, LoadedPool DEF TypeOK

\* Only FilterHealthy begins an attempt, and only while the counter is below the bound.
LEMMA BoundedStep ==
  ASSUME TypeOK, Located, Bounded, [Next]_vars
  PROVE  Bounded'
<1> SUFFICES ASSUME NEW q \in Request
             PROVE  /\ pc'[q] # "idle" => attempt'[q] <= Len(snap'[q])
                    /\ pc'[q] \in {"choose", "wait", "buffer"} => attempt'[q] < Len(snap'[q])
  BY DEF Bounded
<1>1. CASE Unmoved(q)
  BY <1>1 DEF Unmoved, Bounded
<1>2. CASE \E s \in Session \cup {None} : ServeHTTP(q, s)
  <2>1. attempt'[q] = 0 /\ pc'[q] = "pick" /\ snap'[q] \in Pools
    BY <1>2 DEF TypeOK, Located, ServeHTTP
  <2>2. Len(snap'[q]) \in Nat
    BY <2>1, LoadedPool
  <2> QED
    BY <2>1, <2>2
<1>3. CASE SendFailed(q) \/ FailOver(q)
  <2>1. /\ pc[q] \in {"wait", "buffer"} /\ pc'[q] = "pick"
        /\ attempt'[q] = attempt[q] + 1 /\ snap' = snap
    BY <1>3 DEF TypeOK, SendFailed, FailOver, NextAttempt
  <2>2. Len(snap[q]) \in Nat /\ attempt[q] \in Nat /\ attempt[q] < Len(snap[q])
    BY <2>1, PoolLength DEF Bounded
  <2> QED
    BY <2>1, <2>2
<1>4. CASE FilterHealthy(q)
  BY <1>4 DEF TypeOK, FilterHealthy, MoreToTry, Bounded
<1>5. CASE Choose(q) \/ Respond(q)
  <2>1. /\ pc[q] \in {"choose", "wait"} /\ attempt' = attempt /\ snap' = snap
    BY <1>5 DEF Choose, Respond
  <2> QED
    BY <2>1 DEF Bounded
<1>6. CASE GiveUp(q) \/ Accept(q) \/ Finish(q) \/ EndStream(q)
  <2>1. /\ pc[q] # "idle" /\ pc'[q] \in {"finish", "stream", "done"}
        /\ attempt' = attempt /\ snap' = snap
    BY <1>6 DEF TypeOK, GiveUp, Accept, Finish, EndStream, local
  <2> QED
    BY <2>1 DEF Bounded
<1> QED
  BY <1>1, <1>2, <1>3, <1>4, <1>5, <1>6, OwnStep DEF Handle, TransportError, ContextDone

\* Fewer steps are left to the handler of q than before, and no fewer than none.
Nearer(q) == StepsLeft(q)' \in Nat /\ StepsLeft(q)' < StepsLeft(q)

\* A step that moves the handler of a request takes it nearer to its end.
LEMMA WindsDownStep ==
  ASSUME TypeOK, Located, Bounded, [Next]_vars, NEW q \in Request,
         pc[q] # "idle", pc'[q] # pc[q]
  PROVE  Nearer(q)
<1>1. Len(snap[q]) \in Nat /\ attempt[q] \in Nat
  BY PoolLength
<1>2. CASE FilterHealthy(q)
  <2>1. /\ pc[q] = "pick" /\ pc'[q] = "choose" /\ attempt[q] < Len(snap[q])
        /\ attempt' = attempt /\ snap' = snap
    BY <1>2 DEF TypeOK, FilterHealthy, MoreToTry
  <2> QED
    BY <1>1, <2>1 DEF Nearer, StepsLeft
<1>3. CASE GiveUp(q)
  <2>1. /\ pc[q] = "pick" /\ pc'[q] = "done" /\ attempt[q] <= Len(snap[q])
    BY <1>3 DEF TypeOK, GiveUp, Bounded
  <2> QED
    BY <1>1, <2>1 DEF Nearer, StepsLeft
<1>4. CASE Choose(q)
  <2>1. /\ pc[q] = "choose" /\ pc'[q] = "wait" /\ attempt[q] < Len(snap[q])
        /\ attempt' = attempt /\ snap' = snap
    BY <1>4 DEF TypeOK, Choose, Bounded
  <2> QED
    BY <1>1, <2>1 DEF Nearer, StepsLeft
<1>5. CASE SendFailed(q) \/ FailOver(q)
  <2>1. /\ pc[q] \in {"wait", "buffer"} /\ pc'[q] = "pick" /\ attempt[q] < Len(snap[q])
        /\ attempt'[q] = attempt[q] + 1 /\ snap' = snap
    BY <1>5 DEF TypeOK, SendFailed, FailOver, NextAttempt, Bounded
  <2>2. StepsLeft(q)' = 4 * (Len(snap[q]) - (attempt[q] + 1)) + 2
    BY <2>1 DEF StepsLeft
  <2>3. StepsLeft(q) >= 4 * (Len(snap[q]) - attempt[q]) - 1
    BY <1>1, <2>1 DEF StepsLeft
  <2>4. StepsLeft(q) \in Int
    BY <1>1, <2>1 DEF StepsLeft
  <2> QED
    BY <1>1, <2>1, <2>2, <2>3, <2>4 DEF Nearer
<1>6. CASE Respond(q) \/ Accept(q)
  <2>1. /\ pc[q] \in {"wait", "buffer"} /\ attempt[q] < Len(snap[q])
        /\ \/ pc[q] = "wait" /\ pc'[q] = "buffer"
           \/ pc'[q] = "finish"
        /\ attempt' = attempt /\ snap' = snap
    BY <1>6 DEF TypeOK, Respond, Accept, Bounded
  <2> QED
    BY <1>1, <2>1 DEF Nearer, StepsLeft
<1>7. CASE Finish(q) \/ EndStream(q)
  <2>1. \/ pc[q] = "finish" /\ pc'[q] = "stream"
        \/ pc[q] = "stream" /\ pc'[q] = "done"
    BY <1>7 DEF TypeOK, Finish, EndStream
  <2> QED
    BY <2>1 DEF Nearer, StepsLeft
<1>8. Handle(q)
  BY OwnStep DEF ServeHTTP, Unmoved
<1>9. \/ FilterHealthy(q) \/ GiveUp(q) \/ Choose(q) \/ SendFailed(q) \/ Respond(q)
      \/ FailOver(q) \/ Accept(q) \/ Finish(q) \/ EndStream(q)
  BY <1>8 DEF Handle, TransportError, ContextDone
<1> QED
  BY <1>2, <1>3, <1>4, <1>5, <1>6, <1>7, <1>9

\* In every behaviour the steps that are left to the handler of a request only
\* decrease: with fairness, every request is answered.
THEOREM WindsDown == Spec => LoopWindsDown
<1> DEFINE Moved == \A r \in Request : pc[r] # "idle" /\ pc'[r] # pc[r] => Nearer(r)
<1>1. Init => Bounded
  BY DEF Init, Bounded
<1>2. TypeOK /\ Located /\ Bounded /\ [Next]_vars => Bounded'
  BY BoundedStep
<1>3. TypeOK /\ Located /\ Bounded /\ [Next]_vars => [Moved]_vars
  BY WindsDownStep
<1> HIDE DEF Moved
<1>4. Spec => [][Moved]_vars
  BY <1>1, <1>2, <1>3, AlwaysLocated, PTL DEF Spec
<1> QED
  BY <1>4 DEF Moved, Nearer, LoopWindsDown

(***************************************************************************)
(* Cooldowns end                                                           *)
(***************************************************************************)

\* A positive number of seconds that fits a time.Duration is a time to live.
LEMMA ExpiryFits ==
  ASSUME NEW sec \in Int, sec > 0, Fits(sec)
  PROVE  Expiry(sec) > 0
<1> DEFINE p == sec * Second
<1>1. p \in Nat /\ p > 0
  BY ConstantsAssumption
<1>2. DurationLimit \in Nat /\ p < DurationLimit
  BY ConstantsAssumption DEF Fits
<1>3. p % (2 * DurationLimit) = p
  <2> HIDE DEF p
  <2> QED
    BY <1>1, <1>2
<1>4. Nanoseconds(sec) = p
  BY <1>2, <1>3 DEF Nanoseconds
<1> QED
  BY <1>1, <1>4 DEF Expiry

\* The cooldown of a member in a loaded pool is one a file gave, or a default.
LEMMA LoadedCooldownFits ==
  ASSUME SecondsFit, NEW p \in Pools, NEW k \in DOMAIN p
  PROVE  Fits(p[k].cooldownSec)
<1>1. PICK f \in PoolFile : p = Loaded(f)
  BY DEF Pools
<1>2. k \in DOMAIN f /\ p[k] = WithDefaults(f[k])
  BY <1>1 DEF Loaded
<1>3. Fits(f[k].cooldownSec) /\ Fits(18000) /\ Fits(60)
  BY <1>1, <1>2, ConstantsAssumption DEF SecondsFit, Fits
<1> QED
  BY <1>2, <1>3 DEF WithDefaults, DefaultCooldownSec

\* Whatever seconds Handler.cooldown is given, if they fit it writes a key that ends.
LEMMA SetCooldownExpires ==
  ASSUME TypeOK, Located, SecondsFit, KeysExpire, NEW r \in Request, pc[r] # "idle",
         NEW k \in DOMAIN snap[r], NEW ttl \in Int, ttl > 0 => Fits(ttl),
         SetCooldown(r, snap[r][k], ttl)
  PROVE  KeysExpire'
<1> DEFINE sec == CooldownSeconds(snap[r][k], ttl)
<1>1. Fits(snap[r][k].cooldownSec) /\ snap[r][k].cooldownSec \in Int
  BY LoadedCooldownFits, PoolEntry DEF Located
<1>2. Fits(60)
  BY ConstantsAssumption DEF SecondsFit, Fits
<1>3. sec \in Int /\ sec > 0 /\ Fits(sec)
  BY <1>1, <1>2 DEF CooldownSeconds
<1>4. Expiry(sec) # NoExpiry
  BY <1>3, ExpiryFits DEF NoExpiry
<1>5. cooldown \in [Member -> {n \in Int : n >= NoExpiry}]
  BY DEF TypeOK
<1> QED
  BY <1>4, <1>5 DEF SetCooldown, KeysExpire

\* What is buffered is one of the answers upstreams give.
Buffered == \A r \in Request : pc[r] = "buffer" => resp[r] \in Response

\* A request buffers the answer it has just been given.
LEMMA BufferedStep ==
  ASSUME TypeOK, Buffered, [Next]_vars
  PROVE  Buffered'
<1> SUFFICES ASSUME NEW q \in Request, pc'[q] = "buffer" PROVE resp'[q] \in Response
  BY DEF Buffered
<1>1. CASE Unmoved(q)
  BY <1>1 DEF Unmoved, Buffered
<1>2. CASE Respond(q)
  BY <1>2 DEF TypeOK, Respond
<1>3. CASE \/ \E s \in Session \cup {None} : ServeHTTP(q, s)
           \/ FilterHealthy(q) \/ GiveUp(q) \/ Choose(q) \/ SendFailed(q)
           \/ FailOver(q) \/ Accept(q) \/ Finish(q) \/ EndStream(q)
  <2>1. pc'[q] # "buffer"
    BY <1>3 DEF TypeOK, ServeHTTP, FilterHealthy, GiveUp, Choose, SendFailed, FailOver,
       Accept, Finish, EndStream, NextAttempt
  <2> QED
    BY <2>1
<1> QED
  BY <1>1, <1>2, <1>3, OwnStep DEF Handle, TransportError, ContextDone

\* Only the two ways of failing write a cooldown.
LEMMA KeysExpireStep ==
  ASSUME TypeOK, Located, Buffered, SecondsFit, KeysExpire, [Next]_vars
  PROVE  KeysExpire'
<1>1. ASSUME NEW r \in Request, SendFailed(r) PROVE KeysExpire'
  <2>1. member[r] \in DOMAIN snap[r] /\ pc[r] # "idle"
    BY <1>1 DEF Located, Active, SendFailed, EnabledPositions
  <2> QED
    BY <1>1, <2>1, SetCooldownExpires DEF SendFailed
<1>2. ASSUME NEW r \in Request, FailOver(r) PROVE KeysExpire'
  <2>1. member[r] \in DOMAIN snap[r] /\ pc[r] # "idle"
    BY <1>2 DEF Located, Active, FailOver, EnabledPositions
  <2>2. resp[r] \in Answer /\ Fits(resp[r].retryAfter)
    BY <1>2, ConstantsAssumption DEF Buffered, FailOver, SecondsFit
  <2> DEFINE m      == snap[r][member[r]]
             ttl(a) == CooldownTTL(DetectedTTL(a), m.cooldownSec, IsAnthropic(m))
  <2>3. PICK a \in AsRead(r) : SetCooldown(r, m, ttl(a))
    BY <1>2 DEF FailOver
  <2>4. a \in Answer /\ Fits(a.retryAfter)
    BY <2>2, AsReadType DEF AsRead, Answer
  <2>5. m.cooldownSec \in Int /\ Fits(m.cooldownSec)
    BY <2>1, PoolEntry, LoadedCooldownFits DEF Located
  <2>6. Fits(60) /\ Fits(18000)
    BY ConstantsAssumption DEF SecondsFit, Fits
  <2>7. ttl(a) \in Int /\ (ttl(a) > 0 => Fits(ttl(a)))
    BY <2>4, <2>5, <2>6 DEF CooldownTTL, DetectedTTL, Answer
  <2> QED
    BY <2>1, <2>3, <2>7, SetCooldownExpires
<1>3. ASSUME NEW m \in Member, Expire(m) PROVE KeysExpire'
  BY <1>3 DEF Expire, TypeOK, KeysExpire, NoKey, NoExpiry
<1>4. CASE cooldown' = cooldown
  BY <1>4 DEF KeysExpire
<1> QED
  BY <1>1, <1>2, <1>3, <1>4 DEF Next, Handle, TransportError, ContextDone, ServeHTTP,
     FilterHealthy, GiveUp, Choose, Respond, Accept, Finish, EndStream, Hangup, StickyExpire,
     RedisToggle, Reload, Terminated, vars, shared

\* In every behaviour every cooldown key has a time to live, if no number of seconds is
\* out of proportion.
THEOREM CooldownsEnd == Spec => []KeysExpire
<1>1. CASE ~SecondsFit
  <2>1. KeysExpire
    BY <1>1 DEF KeysExpire
  <2> QED
    BY <2>1, PTL
<1>2. CASE SecondsFit
  <2>1. Init => Buffered /\ KeysExpire
    BY DEF Init, Buffered, KeysExpire, NoKey, NoExpiry
  <2>2. TypeOK /\ Located /\ Buffered /\ KeysExpire /\ [Next]_vars => Buffered' /\ KeysExpire'
    BY <1>2, BufferedStep, KeysExpireStep
  <2> QED
    BY <2>1, <2>2, AlwaysLocated, PTL DEF Spec
<1> QED
  BY <1>1, <1>2
=============================================================================
