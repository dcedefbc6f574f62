---------------------------- MODULE ProxyService ----------------------------
(***************************************************************************)
(* What the code and its tests give the caller of a request, without       *)
(* Redis, cooldowns, affinity or weights: the request is put to one member *)
(* of its pool at a time and to none twice, and it gets one reply.  The    *)
(* reply is the answer of the member asked last, if that is not a rate     *)
(* limit, or the rate limit of the member asked last, or a 502.            *)
(*                                                                         *)
(* When to stop asking is left open here; FailoverProxy says when.  The    *)
(* 502 is fixed by the tests (proxy_test.go, "all members cooled should    *)
(* end in 502"); the design document promises a 429 with Retry-After       *)
(* instead, which ExhaustionIsRateLimited of FailoverProxy states.         *)
(***************************************************************************)
CONSTANTS
  Request,
  Member,
  Answer,     \* what a member may answer
  RateLimit,  \* the answers that send a request on to the next member
  None

VARIABLES
  stage,   \* stage[r]: how far r has come
  offer,   \* offer[r]: the members r may be put to
  asked,   \* asked[r]: the members it was put to
  asking,  \* asking[r]: the one that has it, or None
  kept,    \* kept[r]: the rate limit to fall back on, or None
  given    \* given[r]: the answer passed on to the caller, or None

vars == <<stage, offer, asked, asking, kept, given>>

Init ==
  /\ stage = [r \in Request |-> "absent"]
  /\ offer = [r \in Request |-> {}]
  /\ asked = [r \in Request |-> {}]
  /\ asking = [r \in Request |-> None]
  /\ kept = [r \in Request |-> None]
  /\ given = [r \in Request |-> None]

\* From now on the members are those of the pool that is active now.
Arrive(r) ==
  /\ stage[r] = "absent"
  /\ stage' = [stage EXCEPT ![r] = "trying"]
  /\ \E M \in SUBSET Member : offer' = [offer EXCEPT ![r] = M]
  /\ UNCHANGED <<asked, asking, kept, given>>

Ask(r) ==
  /\ stage[r] = "trying"
  /\ asking[r] = None
  /\ \E m \in offer[r] \ asked[r] :
       /\ asked' = [asked EXCEPT ![r] = @ \cup {m}]
       /\ asking' = [asking EXCEPT ![r] = m]
  /\ UNCHANGED <<stage, offer, kept, given>>

\* The member asked gives no answer; an earlier rate limit is forgotten.
NoAnswer(r) ==
  /\ stage[r] = "trying"
  /\ asking[r] # None
  /\ asking' = [asking EXCEPT ![r] = None]
  /\ kept' = [kept EXCEPT ![r] = None]
  /\ UNCHANGED <<stage, offer, asked, given>>

RateLimited(r) ==
  /\ stage[r] = "trying"
  /\ asking[r] # None
  /\ asking' = [asking EXCEPT ![r] = None]
  /\ kept'[r] \in RateLimit
  /\ kept' = [kept EXCEPT ![r] = kept'[r]]
  /\ UNCHANGED <<stage, offer, asked, given>>

Relay(r) ==
  /\ stage[r] = "trying"
  /\ asking[r] # None
  /\ stage' = [stage EXCEPT ![r] = "relayed"]
  /\ given'[r] \in Answer \ RateLimit
  /\ given' = [given EXCEPT ![r] = given'[r]]
  /\ UNCHANGED <<offer, asked, asking, kept>>

Replay(r) ==
  /\ stage[r] = "trying"
  /\ asking[r] = None
  /\ kept[r] # None
  /\ stage' = [stage EXCEPT ![r] = "replayed"]
  /\ given' = [given EXCEPT ![r] = kept[r]]
  /\ UNCHANGED <<offer, asked, asking, kept>>

\* 502: nobody is left to ask, and no rate limit is at hand, because the member
\* asked last gave no answer or because all were in cooldown and none was asked.
Fail(r) ==
  /\ stage[r] = "trying"
  /\ asking[r] = None
  /\ kept[r] = None
  /\ stage' = [stage EXCEPT ![r] = "failed"]
  /\ UNCHANGED <<offer, asked, asking, kept, given>>

Serve(r) ==
  Arrive(r) \/ Ask(r) \/ NoAnswer(r) \/ RateLimited(r) \/ Relay(r) \/ Replay(r) \/ Fail(r)

Next == \E r \in Request : Serve(r)

Spec == Init /\ [][Next]_vars
=============================================================================
