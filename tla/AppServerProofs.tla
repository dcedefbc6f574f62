--------------------------- MODULE AppServerProofs ---------------------------
(***************************************************************************)
(* What AppServer promises for any number of requests, of members and any  *)
(* timeouts.                                                               *)
(***************************************************************************)
EXTENDS AppServer, TLAPS

TypeOK ==
  /\ phase \in {"serving", "draining", "returned", "closed", "exited"}
  /\ failed \in BOOLEAN
  /\ elapsed \in Nat
  /\ at \in [Request -> Place]
  /\ age \in [Request -> Nat]
  /\ waited \in [Request -> Nat]
  /\ attempt \in [Request -> Nat]
  /\ stalled \in [Request -> Nat]

\* An attempt is under way.
Trying(r) == at[r] \in {"sending", "waiting", "buffering"}

\* The age of a request is what the reading of its body took, its attempts' waits for
\* headers, and what no timer bounds.  Both of the clocks that are cut off are cut off
\* at the same point, so that one is never behind because of it.
ClockOf(r) ==
  /\ age[r] <= Horizon
  /\ at[r] \in {"idle", "reading"} => waited[r] = 0 /\ attempt[r] = 0
  /\ at[r] = "idle" => age[r] = 0
  /\ at[r] = "reading" => age[r] <= ReadTimeout + stalled[r]
  /\ Trying(r) =>
       /\ attempt[r] < Members
       /\ waited[r] <= UpstreamTimeout
       /\ age[r] <= ReadTimeout + attempt[r] * UpstreamTimeout + waited[r] + stalled[r]

Clocks == \A r \in Request : ClockOf(r)

\* What RoomToFailOver says of one request.
Room(r) ==
  at[r] = "lost" => WriteTimeout \in 1 .. ReadTimeout + Members * UpstreamTimeout + stalled[r]

\* Once Run has returned nothing is in flight, or the grace is over.
Shut ==
  /\ elapsed <= Grace
  /\ phase \in {"returned", "closed"} => Drained
  /\ phase = "exited" => \A r \in Request : ~InFlight(r)
  /\ \A r \in Request : at[r] = "killed" => phase = "exited" /\ elapsed = Grace

IInv == TypeOK /\ Clocks /\ RoomToFailOver /\ Shut

-----------------------------------------------------------------------------

\* A deadline beyond all the attempts is beyond the end of each of them.
LEMMA InTime ==
  ASSUME ServerAssumption, NEW n \in Nat, n < Members, NEW w \in Nat, w <= UpstreamTimeout
  PROVE  /\ ReadTimeout + n * UpstreamTimeout + w <= ReadTimeout + Members * UpstreamTimeout
         /\ n * UpstreamTimeout + UpstreamTimeout = (n + 1) * UpstreamTimeout
         /\ n * UpstreamTimeout \in Nat
         /\ (n + 1) * UpstreamTimeout \in Nat
<1> DEFINE k == Members - (n + 1)
<1>1. k \in Nat /\ Members = k + (n + 1)
  BY DEF ServerAssumption
<1>2. UpstreamTimeout \in Nat /\ ReadTimeout \in Nat
  BY DEF ServerAssumption
<1> HIDE DEF k
<1>3. Members * UpstreamTimeout = k * UpstreamTimeout + n * UpstreamTimeout + UpstreamTimeout
  BY <1>1, <1>2
<1>4. k * UpstreamTimeout \in Nat /\ n * UpstreamTimeout \in Nat
  BY <1>1, <1>2
<1>5. n * UpstreamTimeout + UpstreamTimeout = (n + 1) * UpstreamTimeout
  BY <1>2
<1> QED
  BY <1>2, <1>3, <1>4, <1>5

\* A reply that an attempt, or the end of the loop, fails to write is late by the clocks.
LEMMA LostIsLate ==
  ASSUME ServerAssumption, TypeOK, NEW r \in Request, ClockOf(r), Trying(r),
         NEW place, place # "lost", Written(r, place) = "lost"
  PROVE  WriteTimeout \in 1 .. ReadTimeout + Members * UpstreamTimeout + stalled[r]
<1>1. /\ attempt[r] \in Nat /\ waited[r] \in Nat /\ age[r] \in Nat /\ stalled[r] \in Nat
      /\ attempt[r] < Members /\ waited[r] <= UpstreamTimeout
      /\ age[r] <= ReadTimeout + attempt[r] * UpstreamTimeout + waited[r] + stalled[r]
  BY DEF TypeOK, ClockOf
<1> DEFINE n == attempt[r]
           w == waited[r]
           u == n * UpstreamTimeout
           all == Members * UpstreamTimeout
<1>2. ReadTimeout + u + w <= ReadTimeout + all /\ u \in Nat
  BY <1>1, InTime
<1>3. all \in Nat /\ ReadTimeout \in Nat /\ WriteTimeout \in Nat
  BY DEF ServerAssumption
<1>4. age[r] <= ReadTimeout + u + w + stalled[r] /\ w \in Nat
  BY <1>1
<1>5. WriteTimeout # 0 /\ ~(age[r] < WriteTimeout)
  BY DEF Written
<1> HIDE DEF n, w, u, all
<1>6. WriteTimeout \in 1 .. ReadTimeout + all + stalled[r]
  BY <1>1, <1>2, <1>3, <1>4, <1>5
<1> QED
  BY <1>6 DEF all

\* The process starts with no request, no clock running and no stop under way.
LEMMA InitIInv == ASSUME ServerAssumption, Init PROVE IInv
<1>1. TypeOK
  BY DEF Init, TypeOK, Place
<1>2. Clocks
  <2>1. Horizon \in Nat
    BY DEF ServerAssumption, Horizon
  <2>2. ASSUME NEW r \in Request
        PROVE  at[r] = "idle" /\ age[r] = 0 /\ waited[r] = 0 /\ attempt[r] = 0
    BY DEF Init
  <2>3. ASSUME NEW r \in Request PROVE ClockOf(r)
    <3>1. ~Trying(r) /\ at[r] # "reading" /\ 0 <= Horizon
      BY <2>1, <2>2 DEF Trying
    <3> QED
      BY <2>2, <3>1 DEF ClockOf
  <2> QED
    BY <2>3 DEF Clocks
<1>3. RoomToFailOver
  BY DEF Init, RoomToFailOver
<1>4. Shut
  BY DEF ServerAssumption, Init, Shut
<1> QED
  BY <1>1, <1>2, <1>3, <1>4 DEF IInv

\* What the next member, or the end of the loop, makes of a request's clock.
LEMMA NextClock ==
  ASSUME ServerAssumption, TypeOK, NEW r \in Request, ClockOf(r), Trying(r), NextMember(r),
         age' = age, stalled' = stalled
  PROVE  /\ at' \in [Request -> Place]
         /\ waited' \in [Request -> Nat]
         /\ attempt' \in [Request -> Nat]
         /\ ClockOf(r)'
         /\ Room(r)'
         /\ at'[r] \in {"sending", "whole", "lost"}
         /\ \A s \in Request \ {r} :
              at'[s] = at[s] /\ waited'[s] = waited[s] /\ attempt'[s] = attempt[s]
<1>1. /\ attempt[r] \in Nat /\ waited[r] \in Nat /\ age[r] \in Nat /\ stalled[r] \in Nat
      /\ attempt[r] < Members /\ waited[r] <= UpstreamTimeout /\ age[r] <= Horizon
      /\ age[r] <= ReadTimeout + attempt[r] * UpstreamTimeout + waited[r] + stalled[r]
  BY DEF TypeOK, ClockOf
<1>2. /\ at' \in [Request -> Place]
      /\ waited' \in [Request -> Nat]
      /\ attempt' \in [Request -> Nat]
      /\ waited'[r] = 0 /\ attempt'[r] = attempt[r] + 1
      /\ at'[r] = IF attempt[r] + 1 < Members THEN "sending" ELSE Written(r, "whole")
      /\ \A s \in Request \ {r} :
           at'[s] = at[s] /\ waited'[s] = waited[s] /\ attempt'[s] = attempt[s]
  BY <1>1 DEF NextMember, TypeOK, Place, Written
<1>3. CASE attempt[r] + 1 < Members
  <2>1. at'[r] = "sending"
    BY <1>2, <1>3
  <2> DEFINE n == attempt[r]
             u == n * UpstreamTimeout
             v == (n + 1) * UpstreamTimeout
  <2>2. u + UpstreamTimeout = v /\ u \in Nat /\ v \in Nat
    BY <1>1, InTime
  <2>3. age[r] <= ReadTimeout + u + waited[r] + stalled[r]
    BY <1>1
  <2>4. UpstreamTimeout \in Nat /\ ReadTimeout \in Nat
    BY DEF ServerAssumption
  <2> HIDE DEF u, v
  <2>5. age[r] <= ReadTimeout + v + 0 + stalled[r]
    BY <1>1, <2>2, <2>3, <2>4
  <2>6. age'[r] <= ReadTimeout + attempt'[r] * UpstreamTimeout + waited'[r] + stalled'[r]
    BY <1>2, <2>5 DEF v
  <2>7. ClockOf(r)'
    BY <1>1, <1>2, <1>3, <2>1, <2>4, <2>6 DEF ClockOf, Trying
  <2> QED
    BY <1>2, <2>1, <2>7 DEF Room
<1>4. CASE ~(attempt[r] + 1 < Members)
  <2>1. at'[r] = Written(r, "whole") /\ at'[r] \in {"whole", "lost"}
    BY <1>2, <1>4 DEF Written
  <2>2. Room(r)'
    BY <2>1, LostIsLate DEF Room
  <2>3. ClockOf(r)'
    BY <1>1, <2>1 DEF ClockOf, Trying
  <2> QED
    BY <1>2, <2>1, <2>2, <2>3
<1> QED
  BY <1>3, <1>4

-----------------------------------------------------------------------------

\* A request that was in flight moves on while the process stands still: nothing of
\* the shutdown is disturbed.
LEMMA ShutMove ==
  ASSUME TypeOK, Shut, Alive, NEW r \in Request, InFlight(r), at' \in [Request -> Place],
         at'[r] # "killed", \A s \in Request \ {r} : at'[s] = at[s],
         phase' = phase, elapsed' = elapsed
  PROVE  Shut'
<1>1. phase' \in {"returned", "closed"} => Drained'
  BY DEF Shut, Drained, InFlight
<1>2. \A s \in Request : at'[s] = "killed" => phase' = "exited" /\ elapsed' = Grace
  BY DEF Shut
<1> QED
  BY <1>1, <1>2 DEF Shut, Alive

\* What a step of the handler of r does to r is enough.
LEMMA Alone ==
  ASSUME Clocks, RoomToFailOver, NEW r \in Request, ClockOf(r)', Room(r)',
         \A s \in Request \ {r} : /\ at'[s] = at[s] /\ age'[s] = age[s]
                                  /\ waited'[s] = waited[s] /\ attempt'[s] = attempt[s]
                                  /\ stalled'[s] = stalled[s]
  PROVE  Clocks' /\ RoomToFailOver'
<1>1. \A s \in Request \ {r} : ClockOf(s)'
  BY DEF Clocks, ClockOf, Trying
<1>2. RoomToFailOver'
  BY DEF RoomToFailOver, Room
<1> QED
  BY <1>1, <1>2 DEF Clocks

\* A step of a handler keeps the clocks: what it ends is charged to the time of its stage.
LEMMA HandleIInv == ASSUME ServerAssumption, IInv, NEW r \in Request, Handle(r) PROVE IInv'
<1> USE DEF IInv
<1>0. ClockOf(r) /\ at[r] \in Place
  BY DEF Clocks, TypeOK
<1>1. CASE ReadBody(r)
  <2>1. TypeOK'
    BY <1>1 DEF ReadBody, TypeOK, Place
  <2>2. /\ at'[r] = "sending"
        /\ \A s \in Request \ {r} : at'[s] = at[s]
    BY <1>1 DEF ReadBody, TypeOK
  <2>3. /\ waited[r] = 0 /\ attempt[r] = 0 /\ age[r] <= ReadTimeout + stalled[r]
        /\ age[r] \in Nat /\ stalled[r] \in Nat /\ age[r] <= Horizon
    BY <1>0, <1>1 DEF ReadBody, ClockOf, TypeOK
  <2>4. 0 * UpstreamTimeout = 0 /\ ReadTimeout \in Nat /\ UpstreamTimeout \in Nat /\ 0 < Members
    BY DEF ServerAssumption
  <2>5. age[r] <= ReadTimeout + attempt[r] * UpstreamTimeout + waited[r] + stalled[r]
    BY <2>3, <2>4
  <2>6. ClockOf(r)'
    BY <1>1, <2>2, <2>3, <2>4, <2>5 DEF ReadBody, ClockOf, Trying
  <2>7. Clocks' /\ RoomToFailOver'
    BY <1>1, <2>2, <2>6, Alone DEF ReadBody, Room
  <2>8. Shut'
    BY <1>1, <2>1, <2>2, ShutMove DEF ReadBody, InFlight, TypeOK
  <2> QED
    BY <2>1, <2>7, <2>8
<1>2. CASE AttemptFails(r) \/ TimesOut(r)
  <2>1. /\ Alive /\ Trying(r) /\ NextMember(r) /\ stalled' = stalled
        /\ age' = age /\ phase' = phase /\ elapsed' = elapsed /\ failed' = failed
    BY <1>2 DEF AttemptFails, TimesOut, Trying
  <2>2. /\ at' \in [Request -> Place]
        /\ waited' \in [Request -> Nat]
        /\ attempt' \in [Request -> Nat]
        /\ ClockOf(r)'
        /\ Room(r)'
        /\ at'[r] \in {"sending", "whole", "lost"}
        /\ \A s \in Request \ {r} :
             at'[s] = at[s] /\ waited'[s] = waited[s] /\ attempt'[s] = attempt[s]
    BY <1>0, <2>1, NextClock
  <2>3. TypeOK'
    BY <2>1, <2>2 DEF TypeOK
  <2>4. Clocks' /\ RoomToFailOver'
    BY <2>1, <2>2, Alone
  <2>5. Shut'
    BY <2>1, <2>2, ShutMove DEF InFlight, Trying
  <2> QED
    BY <2>2, <2>3, <2>4, <2>5
<1>3. CASE RequestWritten(r) \/ Candidate(r)
  <2>1. /\ at[r] \in {"sending", "waiting"} /\ Alive /\ stalled' = stalled
        /\ phase' = phase /\ elapsed' = elapsed /\ age' = age /\ waited' = waited
        /\ attempt' = attempt /\ failed' = failed
    BY <1>3 DEF RequestWritten, Candidate
  <2>2. /\ at' \in [Request -> Place] /\ at'[r] \in {"waiting", "buffering"}
        /\ \A s \in Request \ {r} : at'[s] = at[s]
    BY <1>3 DEF RequestWritten, Candidate, TypeOK, Place
  <2>3. ClockOf(r)' /\ Room(r)'
    BY <1>0, <2>1, <2>2 DEF ClockOf, Trying, Room
  <2>4. Clocks' /\ RoomToFailOver'
    BY <2>1, <2>2, <2>3, Alone
  <2>5. Shut'
    BY <2>1, <2>2, ShutMove DEF InFlight
  <2> QED
    BY <2>1, <2>2, <2>4, <2>5 DEF TypeOK
<1>4. CASE Respond(r)
  <2>1. PICK place \in {"streaming", "whole"} : at' = [at EXCEPT ![r] = Written(r, place)]
    BY <1>4 DEF Respond
  <2>2. /\ Trying(r) /\ Alive /\ stalled' = stalled
        /\ phase' = phase /\ elapsed' = elapsed /\ age' = age /\ waited' = waited
        /\ attempt' = attempt /\ failed' = failed
    BY <1>4 DEF Respond, Trying
  <2>3. /\ at' \in [Request -> Place] /\ at'[r] \in {"streaming", "whole", "lost"}
        /\ at'[r] = Written(r, place)
        /\ \A s \in Request \ {r} : at'[s] = at[s]
    BY <2>1 DEF TypeOK, Place, Written
  <2>4. Room(r)'
    BY <1>0, <2>2, <2>3, LostIsLate DEF Room
  <2>5. ClockOf(r)'
    BY <1>0, <2>2, <2>3 DEF ClockOf, Trying
  <2>6. Clocks' /\ RoomToFailOver'
    BY <2>2, <2>3, <2>4, <2>5, Alone
  <2>7. Shut'
    BY <2>2, <2>3, ShutMove DEF InFlight, Trying
  <2> QED
    BY <2>2, <2>3, <2>6, <2>7 DEF TypeOK
<1>5. CASE EndStream(r) \/ CutStream(r)
  <2>1. /\ at[r] = "streaming" /\ Alive /\ stalled' = stalled
        /\ phase' = phase /\ elapsed' = elapsed /\ age' = age /\ waited' = waited
        /\ attempt' = attempt /\ failed' = failed
    BY <1>5 DEF EndStream, CutStream
  <2>2. /\ at' \in [Request -> Place] /\ at'[r] \in {"whole", "cut"}
        /\ \A s \in Request \ {r} : at'[s] = at[s]
    BY <1>5 DEF EndStream, CutStream, TypeOK, Place
  <2>3. ClockOf(r)' /\ Room(r)'
    BY <1>0, <2>1, <2>2 DEF ClockOf, Trying, Room
  <2>4. Clocks' /\ RoomToFailOver'
    BY <2>1, <2>2, <2>3, Alone
  <2>5. Shut'
    BY <2>1, <2>2, ShutMove DEF InFlight
  <2> QED
    BY <2>1, <2>2, <2>4, <2>5 DEF TypeOK
<1> QED
  BY <1>1, <1>2, <1>3, <1>4, <1>5 DEF Handle

\* Time passes only while nothing is due, and only until the grace is over.
LEMMA TickIInv == ASSUME ServerAssumption, IInv, Tick PROVE IInv'
<1> USE DEF IInv
<1>1. /\ phase' = phase /\ failed' = failed /\ at' = at /\ attempt' = attempt
      /\ phase = "serving" \/ (phase = "draining" /\ ~Drained)
      /\ \A r \in Request : ~Due(r)
  BY DEF Tick
<1>2. TypeOK'
  <2>1. elapsed' \in Nat
    BY DEF Tick, TypeOK
  <2>2. /\ age' \in [Request -> Nat] /\ waited' \in [Request -> Nat]
        /\ stalled' \in [Request -> Nat]
    BY DEF Tick, TypeOK, Later
  <2> QED
    BY <1>1, <2>1, <2>2 DEF TypeOK
<1>3. ASSUME NEW r \in Request PROVE ClockOf(r)' /\ Room(r)'
  <2>1. /\ ClockOf(r) /\ ~Due(r) /\ at'[r] = at[r] /\ attempt'[r] = attempt[r]
        /\ age[r] \in Nat /\ waited[r] \in Nat /\ attempt[r] \in Nat /\ stalled[r] \in Nat
        /\ age'[r] = IF InFlight(r) THEN Later(age[r]) ELSE age[r]
        /\ waited'[r] = IF at[r] = "waiting" THEN waited[r] + 1 ELSE waited[r]
        /\ stalled'[r] = IF Unbounded(r) THEN Later(stalled[r]) ELSE stalled[r]
    BY <1>1 DEF Tick, TypeOK, Clocks
  <2>2. /\ Horizon \in Nat /\ ReadTimeout \in Nat /\ UpstreamTimeout \in Nat
        /\ WriteTimeout \in Nat
    BY DEF Horizon, ServerAssumption
  <2>3. /\ age'[r] \in Nat /\ age'[r] <= age[r] + 1 /\ age'[r] <= Horizon
        /\ stalled'[r] \in Nat /\ stalled[r] <= stalled'[r]
        /\ Unbounded(r) => age'[r] <= stalled'[r] \/ stalled'[r] = stalled[r] + 1
    BY <2>1, <2>2 DEF Later, ClockOf
  <2>4. CASE Trying(r)
    <3> DEFINE u == attempt[r] * UpstreamTimeout
    <3>1. u \in Nat
      BY <2>1, <2>2
    <3>2. age[r] <= ReadTimeout + u + waited[r] + stalled[r] /\ attempt[r] < Members
          /\ waited[r] <= UpstreamTimeout
      BY <2>1, <2>4 DEF ClockOf
    <3> HIDE DEF u
    <3>3. CASE at[r] = "waiting"
      <4>1. waited[r] < UpstreamTimeout /\ waited'[r] = waited[r] + 1
        BY <2>1, <2>2, <3>3 DEF Due
      <4>2. age'[r] <= ReadTimeout + u + waited'[r] + stalled'[r] /\ waited'[r] <= UpstreamTimeout
        BY <2>1, <2>2, <2>3, <3>1, <3>2, <4>1
      <4> QED
        BY <2>1, <2>3, <3>2, <3>3, <4>2 DEF ClockOf, Trying, Room, u
    <3>4. CASE at[r] \in {"sending", "buffering"}
      <4>1. Unbounded(r) /\ waited'[r] = waited[r]
        BY <2>1, <3>4 DEF Unbounded
      <4>2. age'[r] <= ReadTimeout + u + waited'[r] + stalled'[r]
        BY <2>1, <2>2, <2>3, <3>1, <3>2, <4>1
      <4> QED
        BY <2>1, <2>3, <3>2, <3>4, <4>1, <4>2 DEF ClockOf, Trying, Room, u
    <3> QED
      BY <2>4, <3>3, <3>4 DEF Trying
  <2>5. CASE ~Trying(r)
    <3>1. waited'[r] = waited[r]
      BY <2>1, <2>5 DEF Trying
    <3>2. at[r] = "reading" => age'[r] <= ReadTimeout + stalled'[r]
      BY <2>1, <2>2, <2>3 DEF Due, Unbounded, ClockOf
    <3>3. at[r] = "idle" => age'[r] = age[r]
      BY <2>1 DEF InFlight
    <3>4. ClockOf(r)'
      BY <2>1, <2>3, <2>5, <3>1, <3>2, <3>3 DEF ClockOf, Trying
    <3>5. Room(r)'
      <4>1. at[r] = "lost" => stalled'[r] = stalled[r]
        BY <2>1 DEF Unbounded
      <4>2. Room(r)
        BY DEF RoomToFailOver, Room
      <4> QED
        BY <2>1, <4>1, <4>2 DEF Room
    <3> QED
      BY <3>4, <3>5
  <2> QED
    BY <2>4, <2>5
<1>4. RoomToFailOver'
  BY <1>3 DEF RoomToFailOver, Room
<1>5. Shut'
  <2>1. elapsed' <= Grace
    BY DEF Tick, Shut, TypeOK, ServerAssumption
  <2>2. \A r \in Request : at'[r] # "killed"
    BY <1>1 DEF Shut
  <2> QED
    BY <1>1, <2>1, <2>2 DEF Shut
<1> QED
  BY <1>2, <1>3, <1>4, <1>5 DEF Clocks

\* Every step keeps the invariant, a tick because it waits for what is due.
LEMMA NextIInv == ASSUME ServerAssumption, IInv, [Next]_vars PROVE IInv'
<1> USE DEF IInv
<1>1. ASSUME NEW r \in Request, Accept(r) PROVE IInv'
  <2>1. /\ at[r] = "idle" /\ phase = "serving" /\ phase' = phase /\ elapsed' = elapsed
        /\ age' = age /\ waited' = waited /\ attempt' = attempt /\ failed' = failed
        /\ stalled' = stalled
    BY <1>1 DEF Accept
  <2>2. /\ at' \in [Request -> Place] /\ at'[r] = "reading"
        /\ \A s \in Request \ {r} : at'[s] = at[s]
    BY <1>1 DEF Accept, TypeOK, Place
  <2>3. ClockOf(r)' /\ Room(r)'
    BY <2>1, <2>2 DEF Clocks, ClockOf, Trying, Room, TypeOK, ServerAssumption
  <2>4. Clocks' /\ RoomToFailOver'
    BY <2>1, <2>2, <2>3, Alone
  <2>5. Shut'
    BY <2>1, <2>2 DEF Shut
  <2> QED
    BY <2>1, <2>2, <2>4, <2>5 DEF TypeOK
<1>2. ASSUME NEW r \in Request, Handle(r) PROVE IInv'
  BY <1>2, HandleIInv
<1>3. CASE Stop \/ ReturnRun \/ Close \/ UNCHANGED vars
  <2>1. /\ elapsed' = elapsed /\ at' = at /\ age' = age /\ waited' = waited
        /\ attempt' = attempt /\ stalled' = stalled
    BY <1>3 DEF Stop, ReturnRun, Close, vars
  <2>2. TypeOK'
    BY <1>3, <2>1 DEF Stop, ReturnRun, Close, vars, TypeOK
  <2>3. Clocks' /\ RoomToFailOver'
    BY <2>1 DEF Clocks, ClockOf, Trying, RoomToFailOver
  <2>4. Drained' <=> Drained
    BY <2>1 DEF Drained, InFlight
  <2>5. Shut'
    BY <1>3, <2>1, <2>4 DEF Stop, ReturnRun, Close, vars, Shut, InFlight
  <2> QED
    BY <2>2, <2>3, <2>5
<1>4. CASE Exit
  <2>1. /\ phase' = "exited" /\ phase \in {"returned", "closed"}
        /\ elapsed' = elapsed /\ age' = age /\ waited' = waited /\ attempt' = attempt
        /\ failed' = failed /\ stalled' = stalled
        /\ at' \in [Request -> Place]
        /\ \A r \in Request : at'[r] = IF InFlight(r) THEN "killed" ELSE at[r]
    BY <1>4 DEF Exit, TypeOK, Place
  <2>2. TypeOK'
    BY <2>1 DEF TypeOK
  <2>3. Clocks' /\ RoomToFailOver'
    BY <2>1 DEF Clocks, ClockOf, Trying, RoomToFailOver, InFlight
  <2>4. Shut'
    BY <2>1 DEF Shut, Drained, InFlight
  <2> QED
    BY <2>2, <2>3, <2>4
<1>5. CASE Tick
  BY <1>5, TickIInv
<1> QED
  BY <1>1, <1>2, <1>3, <1>4, <1>5 DEF Next

\* The invariant that the theorems below are read off.
LEMMA Invariant == Spec => []IInv
<1>1. Init => IInv
  BY InitIInv, ServerAssumption
<1>2. IInv /\ [Next]_vars => IInv'
  BY NextIInv, ServerAssumption
<1> QED
  BY <1>1, <1>2, PTL DEF Spec

-----------------------------------------------------------------------------

\* App.Run's deadlines and NewHandler's transport: a reply that is lost was overtaken by
\* the body's time, the attempts' timeouts and what no timer bounds, for any of them.
THEOREM LostRepliesAreLate == Spec => []RoomToFailOver
<1>1. IInv => RoomToFailOver
  BY DEF IInv
<1> QED
  BY <1>1, Invariant, PTL

\* Server.Shutdown in App.Run: who is killed by the exit had the whole grace.
THEOREM WholeGrace == Spec => []GraceIsGiven
<1>1. IInv => GraceIsGiven
  BY DEF IInv, Shut, GraceIsGiven
<1> QED
  BY <1>1, Invariant, PTL

\* The deferred App.Close comes after the drain.
THEOREM CloseComesLast == Spec => []CloseAfterDrain
<1>1. IInv => CloseAfterDrain
  <2>1. elapsed < Grace => elapsed # Grace
    BY ServerAssumption DEF ServerAssumption
  <2> QED
    BY <2>1 DEF IInv, Shut, Drained, CloseAfterDrain
<1> QED
  BY <1>1, Invariant, PTL
=============================================================================
