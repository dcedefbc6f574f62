------------------------ MODULE FailoverServiceProofs ------------------------
(***************************************************************************)
(* FailoverProxy implements ProxyService, for every value of its           *)
(* constants: the steps of a handler are steps of the service or stutter,  *)
(* and everything else stutters.                                           *)
(***************************************************************************)
EXTENDS FailoverProxyProofs

\* The values of a request in the service, which its own locals determine.
SameService(q) ==
  /\ Stage(q)' = Stage(q)
  /\ Offer(q)' = Offer(q)
  /\ Asking(q)' = Asking(q)
  /\ Given(q)' = Given(q)
  /\ tried'[q] = tried[q]
  /\ last'[q] = last[q]

\* A request whose locals are left alone does not move in the service.
LEMMA UnmovedSame ==
  ASSUME NEW q \in Request, Unmoved(q)
  PROVE  SameService(q)
  BY DEF Unmoved, SameService, Stage, Offer, Asking, Given, Id

\* If no request moves in the service, the step stutters.
LEMMA Stutters ==
  ASSUME TypeOK, TypeOK', \A q \in Request : SameService(q)
  PROVE  UNCHANGED Service!vars
<1>1. tried' = tried /\ last' = last
  BY DEF TypeOK, SameService
<1>2. /\ [q \in Request |-> Stage(q)]' = [q \in Request |-> Stage(q)]
      /\ [q \in Request |-> Offer(q)]' = [q \in Request |-> Offer(q)]
      /\ [q \in Request |-> Asking(q)]' = [q \in Request |-> Asking(q)]
      /\ [q \in Request |-> Given(q)]' = [q \in Request |-> Given(q)]
  BY DEF SameService
<1> QED
  BY <1>1, <1>2 DEF Service!vars

\* A handler's step changes the service at its own request only.
LEMMA MovesOne ==
  ASSUME TypeOK, TypeOK', NEW r \in Request,
         Handle(r) \/ \E s \in Session \cup {None} : ServeHTTP(r, s)
  PROVE  /\ [q \in Request |-> Stage(q)]'
              = [[q \in Request |-> Stage(q)] EXCEPT ![r] = Stage(r)']
         /\ [q \in Request |-> Offer(q)]'
              = [[q \in Request |-> Offer(q)] EXCEPT ![r] = Offer(r)']
         /\ [q \in Request |-> Asking(q)]'
              = [[q \in Request |-> Asking(q)] EXCEPT ![r] = Asking(r)']
         /\ [q \in Request |-> Given(q)]'
              = [[q \in Request |-> Given(q)] EXCEPT ![r] = Given(r)']
         /\ tried' = [tried EXCEPT ![r] = tried'[r]]
         /\ last' = [last EXCEPT ![r] = last'[r]]
<1>1. \A q \in Request : q # r => SameService(q)
  BY OthersUnmoved, UnmovedSame
<1> QED
  BY <1>1 DEF SameService, TypeOK

\* The step stutters when the handler's own request does not move in the service.
LEMMA OwnStutter ==
  ASSUME TypeOK, TypeOK', NEW r \in Request, SameService(r),
         Handle(r) \/ \E s \in Session \cup {None} : ServeHTTP(r, s)
  PROVE  UNCHANGED Service!vars
<1>1. \A q \in Request : q # r => SameService(q)
  BY OthersUnmoved, UnmovedSame
<1> QED
  BY <1>1, Stutters

\* Starting the loop puts the request to the members of the active pool.
LEMMA ServeHTTPArrives ==
  ASSUME TypeOK, TypeOK', Located, NEW r \in Request, NEW s \in Session \cup {None},
         ServeHTTP(r, s)
  PROVE  Service!Arrive(r)
<1>1. /\ Stage(r) = "absent" /\ Stage(r)' = "trying"
      /\ Asking(r)' = Asking(r) /\ Given(r)' = Given(r)
      /\ tried' = tried /\ last' = last
  BY DEF TypeOK, Located, ServeHTTP, Stage, Asking, Given
<1>2. Offer(r)' \in SUBSET Member
  <2>1. snap'[r] = pool[inst[r]] /\ snap'[r] \in Pools
    BY DEF TypeOK, ServeHTTP
  <2> QED
    BY <2>1, LoadedPool DEF Offer, EnabledPositions, Id
<1>3. /\ [q \in Request |-> Asking(q)]' = [q \in Request |-> Asking(q)]
      /\ [q \in Request |-> Given(q)]' = [q \in Request |-> Given(q)]
  BY <1>1, MovesOne
<1> QED
  BY <1>1, <1>2, <1>3, MovesOne DEF Service!Arrive

\* Pick's choice is a member that is on offer and was not asked before.
LEMMA ChooseAsks ==
  ASSUME TypeOK, TypeOK', Located, NEW r \in Request, Choose(r)
  PROVE  Service!Ask(r)
<1>1. PICK k \in Picks(r) : /\ member' = [member EXCEPT ![r] = k]
                            /\ tried' = [tried EXCEPT ![r] = @ \cup {Id(r, k)}]
  BY DEF Choose
<1>2. k \in Candidates(r)
  BY <1>1, PicksHealthy DEF TypeOK, Located, Choose
<1>3. Id(r, k) \in Offer(r) \ tried[r]
  BY <1>2 DEF Candidates, Offer
<1>4. /\ Stage(r) = "trying" /\ Stage(r)' = Stage(r)
      /\ Asking(r) = None /\ Asking(r)' = Id(r, k)
      /\ Offer(r)' = Offer(r) /\ Given(r)' = Given(r) /\ last' = last
  <2>1. /\ reply[r] = "none" /\ reply' = reply /\ pc[r] = "choose" /\ pc'[r] = "wait"
        /\ snap' = snap /\ last' = last /\ member'[r] = k
    BY <1>1 DEF TypeOK, Located, Choose
  <2> QED
    BY <2>1 DEF Stage, Asking, Given, Offer, Id
<1>5. Handle(r)
  BY DEF Handle
<1>6. /\ [q \in Request |-> Stage(q)]' = [q \in Request |-> Stage(q)]
      /\ [q \in Request |-> Offer(q)]' = [q \in Request |-> Offer(q)]
      /\ [q \in Request |-> Given(q)]' = [q \in Request |-> Given(q)]
  BY <1>4, <1>5, MovesOne
<1>7. [q \in Request |-> Asking(q)]'
        = [[q \in Request |-> Asking(q)] EXCEPT ![r] = Id(r, k)]
  BY <1>4, <1>5, MovesOne
<1> QED
  BY <1>1, <1>3, <1>4, <1>6, <1>7 DEF Service!Ask

\* While a request waits or its answer is read, one member has it.
LEMMA AskingMember ==
  ASSUME TypeOK, Located, NEW r \in Request, pc[r] \in {"wait", "buffer", "finish"}
  PROVE  /\ Stage(r) = "trying" /\ Asking(r) # None
         /\ Given(r) = None /\ reply[r] = "none"
<1>1. reply[r] = "none" /\ member[r] \in DOMAIN snap[r]
  BY DEF Located, Active, EnabledPositions
<1>2. Id(r, member[r]) \in Member
  BY <1>1, PoolEntry
<1> QED
  BY <1>1, <1>2, NoneIsNoMember DEF Stage, Asking, Given

\* A send that failed is a member's silence.
LEMMA SendFailedIsNoAnswer ==
  ASSUME TypeOK, TypeOK', Located, NEW r \in Request, SendFailed(r), Handle(r)
  PROVE  Service!NoAnswer(r)
<1>1. Stage(r) = "trying" /\ Asking(r) # None /\ Given(r) = None /\ reply[r] = "none"
  BY AskingMember DEF SendFailed
<1>2. /\ Stage(r)' = Stage(r) /\ Asking(r)' = None /\ Given(r)' = Given(r)
      /\ Offer(r)' = Offer(r) /\ tried' = tried
  BY <1>1 DEF TypeOK, SendFailed, NextAttempt, Stage, Asking, Given, Offer, Id
<1>3. last' = [last EXCEPT ![r] = None]
  BY DEF SendFailed
<1>4. /\ [q \in Request |-> Stage(q)]' = [q \in Request |-> Stage(q)]
      /\ [q \in Request |-> Offer(q)]' = [q \in Request |-> Offer(q)]
      /\ [q \in Request |-> Given(q)]' = [q \in Request |-> Given(q)]
  BY <1>2, MovesOne
<1>5. [q \in Request |-> Asking(q)]' = [[q \in Request |-> Asking(q)] EXCEPT ![r] = None]
  BY <1>2, MovesOne
<1> QED
  BY <1>1, <1>2, <1>3, <1>4, <1>5 DEF Service!NoAnswer

\* A buffered rate limit is kept, and the next member is looked for.
LEMMA FailOverIsRateLimited ==
  ASSUME TypeOK, TypeOK', Located, NEW r \in Request, FailOver(r)
  PROVE  Service!RateLimited(r)
<1>1. /\ Stage(r) = "trying" /\ Asking(r) # None /\ Given(r) = None /\ reply[r] = "none"
      /\ resp[r] \in Answer
  BY AskingMember DEF Located, FailOver
<1>2. PICK a \in AsRead(r) : ShouldFailover(a) /\ last' = [last EXCEPT ![r] = a]
  BY DEF FailOver
<1>3. a \in Answer
  BY <1>1, <1>2, AsReadType
<1>4. /\ Stage(r)' = Stage(r) /\ Asking(r)' = None /\ Given(r)' = Given(r)
      /\ Offer(r)' = Offer(r) /\ tried' = tried
  BY <1>1 DEF TypeOK, FailOver, NextAttempt, Stage, Asking, Given, Offer, Id
<1>5. last'[r] = a /\ last' = [last EXCEPT ![r] = last'[r]]
  BY <1>2 DEF TypeOK
<1>6. Handle(r)
  BY DEF Handle
<1>7. /\ [q \in Request |-> Stage(q)]' = [q \in Request |-> Stage(q)]
      /\ [q \in Request |-> Offer(q)]' = [q \in Request |-> Offer(q)]
      /\ [q \in Request |-> Given(q)]' = [q \in Request |-> Given(q)]
  BY <1>4, <1>6, MovesOne
<1>8. [q \in Request |-> Asking(q)]' = [[q \in Request |-> Asking(q)] EXCEPT ![r] = None]
  BY <1>4, <1>6, MovesOne
<1> QED
  BY <1>1, <1>2, <1>3, <1>4, <1>5, <1>7, <1>8 DEF Service!RateLimited

\* What finish relays is an answer of the member asked, and no rate limit.
LEMMA FinishRelays ==
  ASSUME TypeOK, TypeOK', Located, Sorted, NEW r \in Request, Finish(r)
  PROVE  Service!Relay(r)
<1>1. /\ Stage(r) = "trying" /\ Asking(r) # None
      /\ resp[r] \in Answer /\ ~ShouldFailover(resp[r])
  BY AskingMember DEF Located, Sorted, Finish
<1>2. /\ Stage(r)' = "relayed" /\ Given(r)' = resp[r] /\ Asking(r)' = Asking(r)
      /\ Offer(r)' = Offer(r) /\ tried' = tried /\ last' = last
  BY DEF TypeOK, Finish, Stage, Asking, Given, Offer, Id
<1>3. Handle(r)
  BY DEF Handle
<1>4. /\ [q \in Request |-> Offer(q)]' = [q \in Request |-> Offer(q)]
      /\ [q \in Request |-> Asking(q)]' = [q \in Request |-> Asking(q)]
  BY <1>2, <1>3, MovesOne
<1>5. /\ [q \in Request |-> Stage(q)]'
           = [[q \in Request |-> Stage(q)] EXCEPT ![r] = "relayed"]
      /\ [q \in Request |-> Given(q)]'
           = [[q \in Request |-> Given(q)] EXCEPT ![r] = Given(r)']
  BY <1>2, <1>3, MovesOne
<1> QED
  BY <1>1, <1>2, <1>4, <1>5 DEF Service!Relay

\* The loop is left with the last rate limit, or with nothing to pass on.
LEMMA GiveUpReplays ==
  ASSUME TypeOK, TypeOK', Located, NEW r \in Request, GiveUp(r)
  PROVE  Service!Replay(r) \/ Service!Fail(r)
<1>1. /\ Stage(r) = "trying" /\ Asking(r) = None /\ Given(r) = None
      /\ Asking(r)' = Asking(r) /\ Offer(r)' = Offer(r) /\ tried' = tried /\ last' = last
  <2>1. /\ reply[r] = "none" /\ pc[r] = "pick" /\ pc'[r] = "done"
        /\ snap' = snap /\ tried' = tried /\ last' = last
    BY DEF TypeOK, Located, GiveUp
  <2>2. reply'[r] # "finish"
    BY DEF TypeOK, GiveUp
  <2> QED
    BY <2>1, <2>2 DEF Stage, Asking, Given, Offer, Id
<1>2. Handle(r)
  BY DEF Handle
<1>3. /\ [q \in Request |-> Offer(q)]' = [q \in Request |-> Offer(q)]
      /\ [q \in Request |-> Asking(q)]' = [q \in Request |-> Asking(q)]
  BY <1>1, <1>2, MovesOne
<1>4. CASE last[r] # None
  <2>1. Stage(r)' = "replayed" /\ Given(r)' = last[r]
    BY <1>4 DEF TypeOK, GiveUp, Stage, Given
  <2>2. /\ [q \in Request |-> Stage(q)]'
             = [[q \in Request |-> Stage(q)] EXCEPT ![r] = "replayed"]
        /\ [q \in Request |-> Given(q)]'
             = [[q \in Request |-> Given(q)] EXCEPT ![r] = last[r]]
    BY <2>1, <1>2, MovesOne
  <2> QED
    BY <1>1, <1>3, <1>4, <2>2 DEF Service!Replay
<1>5. CASE last[r] = None
  <2>1. Stage(r)' = "failed" /\ Given(r)' = Given(r)
    BY <1>1, <1>5 DEF TypeOK, GiveUp, Stage, Given
  <2>2. /\ [q \in Request |-> Stage(q)]'
             = [[q \in Request |-> Stage(q)] EXCEPT ![r] = "failed"]
        /\ [q \in Request |-> Given(q)]' = [q \in Request |-> Given(q)]
    BY <2>1, <1>2, MovesOne
  <2> QED
    BY <1>1, <1>3, <1>5, <2>2 DEF Service!Fail
<1> QED
  BY <1>4, <1>5

\* Asking Redis, reading an answer and streaming it are no steps of the service.
LEMMA QuietHandler ==
  ASSUME TypeOK, TypeOK', Located, NEW r \in Request,
         FilterHealthy(r) \/ Respond(r) \/ Accept(r) \/ EndStream(r)
  PROVE  UNCHANGED Service!vars
<1>1. Handle(r)
  BY DEF Handle
<1>2. CASE FilterHealthy(r)
  <2>1. SameService(r)
    BY <1>2 DEF TypeOK, FilterHealthy, SameService, Stage, Offer, Asking, Given, Id
  <2> QED
    BY <1>1, <2>1, OwnStutter
<1>3. CASE Respond(r) \/ Accept(r)
  <2>1. /\ pc[r] \in {"wait", "buffer"} /\ pc'[r] \in {"buffer", "finish"}
        /\ snap' = snap /\ member' = member /\ tried' = tried /\ last' = last
        /\ reply' = reply /\ reply[r] = "none"
    BY <1>3, AskingMember DEF TypeOK, Respond, Accept
  <2>2. SameService(r)
    BY <2>1 DEF SameService, Stage, Offer, Asking, Given, Id
  <2> QED
    BY <1>1, <2>2, OwnStutter
<1>4. CASE EndStream(r)
  <2>1. reply[r] = "finish" /\ reply' = reply /\ pc'[r] = "done" /\ pc[r] = "stream"
    BY <1>4 DEF TypeOK, Located, EndStream, local
  <2>2. SameService(r)
    BY <1>4, <2>1 DEF EndStream, SameService, Stage, Offer, Asking, Given, Id, local
  <2> QED
    BY <1>1, <2>2, OwnStutter
<1> QED
  BY <1>2, <1>3, <1>4

\* Redis, the pool files and a client that leaves are out of the service's sight.
LEMMA QuietEnvironment ==
  ASSUME TypeOK, TypeOK', UNCHANGED <<pc, local>> \/ \E r \in Request : Hangup(r)
  PROVE  UNCHANGED Service!vars
<1>1. \A q \in Request : Unmoved(q)
  BY DEF Unmoved, Hangup, local
<1> QED
  BY <1>1, UnmovedSame, Stutters

\* Every step of a handler is a step of the service for that request, or none.
LEMMA HandleServes ==
  ASSUME TypeOK, TypeOK', Located, Sorted, NEW r \in Request, Handle(r)
  PROVE  Service!Serve(r) \/ UNCHANGED Service!vars
<1>1. CASE FilterHealthy(r) \/ Respond(r) \/ Accept(r) \/ EndStream(r)
  BY <1>1, QuietHandler
<1>2. CASE Choose(r)
  BY <1>2, ChooseAsks DEF Service!Serve
<1>3. CASE SendFailed(r)
  BY <1>3, SendFailedIsNoAnswer DEF Service!Serve
<1>4. CASE FailOver(r)
  BY <1>4, FailOverIsRateLimited DEF Service!Serve
<1>5. CASE Finish(r)
  BY <1>5, FinishRelays DEF Service!Serve
<1>6. CASE GiveUp(r)
  BY <1>6, GiveUpReplays DEF Service!Serve
<1> QED
  BY <1>1, <1>2, <1>3, <1>4, <1>5, <1>6 DEF Handle, TransportError, ContextDone

\* The step simulation.
LEMMA NextServes ==
  ASSUME TypeOK, TypeOK', Located, Sorted, [Next]_vars
  PROVE  [Service!Next]_(Service!vars)
<1>1. ASSUME NEW r \in Request, NEW s \in Session \cup {None}, ServeHTTP(r, s)
      PROVE  Service!Next
  BY <1>1, ServeHTTPArrives DEF Service!Next, Service!Serve
<1>2. ASSUME NEW r \in Request, Handle(r)
      PROVE  Service!Next \/ UNCHANGED Service!vars
  BY <1>2, HandleServes DEF Service!Next
<1>3. CASE UNCHANGED <<pc, local>> \/ \E r \in Request : Hangup(r)
  BY <1>3, QuietEnvironment
<1> QED
  BY <1>1, <1>2, <1>3 DEF Next, Expire, StickyExpire, RedisToggle, Reload, Terminated, vars

\* No request has arrived, so none is being served.
LEMMA InitServes == Init => Service!Init
<1> SUFFICES ASSUME Init PROVE Service!Init
  OBVIOUS
<1>1. \A r \in Request : /\ Stage(r) = "absent" /\ Offer(r) = {}
                         /\ Asking(r) = None /\ Given(r) = None
  BY DEF Init, Stage, Offer, Asking, Given, EnabledPositions
<1> QED
  BY <1>1 DEF Init, Service!Init

\* For any pools, requests, instances and answers, and whatever Redis, clients and
\* pool files do: the failover loop of ServeHTTP is an implementation of the service
\* that asks one member at a time, none twice, and replies once.
THEOREM Implements == Spec => ImplementsService
<1>1. Init => Sorted
  BY DEF Init, Sorted
<1>2. TypeOK /\ Located /\ Sorted /\ [Next]_vars => Sorted'
  BY SortedStep
<1>3. TypeOK /\ TypeOK' /\ Located /\ Sorted /\ [Next]_vars => [Service!Next]_(Service!vars)
  BY NextServes
<1> QED
  BY <1>1, <1>2, <1>3, InitServes, AlwaysLocated, PTL DEF Spec, ImplementsService, Service!Spec
=============================================================================
