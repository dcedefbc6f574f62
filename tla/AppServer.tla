----------------------------- MODULE AppServer -----------------------------
(***************************************************************************)
(* The life of the process and its deadlines: App.Run, App.Close and main  *)
(* around requests that take time.  Time passes in ticks; what proem does  *)
(* by itself (Redis included) takes none, so a tick waits for whatever is  *)
(* due.  ReadTimeout and WriteTimeout count from the request's headers,    *)
(* UpstreamTimeout from the moment an attempt's request is written: what   *)
(* comes before (dialling, TLS, writing) and the body of an answer that is *)
(* buffered are bounded by none of the three.                              *)
(***************************************************************************)
EXTENDS Naturals

CONSTANTS
  Request,
  Members,  \* len(poolObj.Members): how many attempts a request has
  ReadTimeout, WriteTimeout,  \* of http.Server; 0 is none
  UpstreamTimeout,            \* ResponseHeaderTimeout; NewHandler makes it positive
  Grace                       \* App.shutdownDur

ASSUME ServerAssumption ==
  /\ Members \in Nat \ {0}
  /\ ReadTimeout \in Nat
  /\ WriteTimeout \in Nat
  /\ UpstreamTimeout \in Nat \ {0}
  /\ Grace \in Nat \ {0}

VARIABLES
  phase,    \* of the process: serving, draining, returned (Run), closed, exited
  failed,   \* Run returns a listener's error
  elapsed,  \* since shutCtx was made
  at,       \* at[r]: where its handler is, or how its reply ended
  age,      \* age[r]: since its headers were read
  waited,   \* waited[r]: since the request of the current attempt was written
  attempt,  \* attempt[r]: the attempts that are over
  late,     \* late[r]: the attempts that UpstreamTimeout ended
  answered, \* answered[r]: a member gave an answer to pass on
  stalled   \* history: the part of its age that no timer of the app bounds

vars == <<phase, failed, elapsed, at, age, waited, attempt, late, answered, stalled>>

\* "sending": an attempt is dialled and its request written.  "waiting": for headers.
\* "buffering": bufferResponse reads a candidate for failover to the end.  "lost": not
\* a byte of the reply was written before the deadline.  "cut": only the beginning
\* was.  "killed": the process went first.
Place == {"idle", "reading", "sending", "waiting", "buffering", "streaming",
          "whole", "lost", "cut", "killed"}

InFlight(r) == at[r] \in {"reading", "sending", "waiting", "buffering", "streaming"}

\* Nothing distinguishes ages beyond this one.
Horizon == IF WriteTimeout > ReadTimeout THEN WriteTimeout ELSE ReadTimeout

Later(n) == IF n < Horizon THEN n + 1 ELSE n

Init ==
  /\ phase = "serving"
  /\ failed = FALSE
  /\ elapsed = 0
  /\ at = [r \in Request |-> "idle"]
  /\ age = [r \in Request |-> 0]
  /\ waited = [r \in Request |-> 0]
  /\ attempt = [r \in Request |-> 0]
  /\ late = [r \in Request |-> 0]
  /\ answered = [r \in Request |-> FALSE]
  /\ stalled = [r \in Request |-> 0]

-----------------------------------------------------------------------------
(***************************************************************************)
(* Requests.  They go on until the process exits, Run returned or not.     *)
(***************************************************************************)
Alive == phase # "exited"

\* The headers are in.  The listener is closed once Shutdown is called.
Accept(r) ==
  /\ phase = "serving"
  /\ at[r] = "idle"
  /\ at' = [at EXCEPT ![r] = "reading"]
  /\ UNCHANGED <<phase, failed, elapsed, age, waited, attempt, late, answered, stalled>>

\* CloneBody returns: the body is in, or ReadTimeout has passed.
ReadBody(r) ==
  /\ Alive
  /\ at[r] = "reading"
  /\ at' = [at EXCEPT ![r] = "sending"]
  /\ UNCHANGED <<phase, failed, elapsed, age, waited, attempt, late, answered, stalled>>

\* The transport has written the request: only now its ResponseHeaderTimeout starts.
RequestWritten(r) ==
  /\ Alive
  /\ at[r] = "sending"
  /\ at' = [at EXCEPT ![r] = "waiting"]
  /\ UNCHANGED <<phase, failed, elapsed, age, waited, attempt, late, answered, stalled>>

\* net/http fails every write after WriteTimeout.
Written(r, place) == IF WriteTimeout = 0 \/ age[r] < WriteTimeout THEN place ELSE "lost"

\* The loop goes on to the next member, or ends with the loop's own reply.
NextMember(r) ==
  /\ attempt' = [attempt EXCEPT ![r] = @ + 1]
  /\ waited' = [waited EXCEPT ![r] = 0]
  /\ at' = [at EXCEPT ![r] = IF attempt[r] + 1 < Members THEN "sending"
                             ELSE Written(r, "whole")]

\* The connection fails, or a rate limit is buffered.
AttemptFails(r) ==
  /\ Alive
  /\ at[r] \in {"sending", "waiting", "buffering"}
  /\ NextMember(r)
  /\ UNCHANGED <<phase, failed, elapsed, age, late, answered, stalled>>

\* ResponseHeaderTimeout: no headers came in time.
TimesOut(r) ==
  /\ Alive
  /\ at[r] = "waiting"
  /\ waited[r] >= UpstreamTimeout
  /\ NextMember(r)
  /\ late' = [late EXCEPT ![r] = @ + 1]
  /\ UNCHANGED <<phase, failed, elapsed, age, answered, stalled>>

\* The headers are those of a candidate for failover, whose body is read first.  An
\* upstream may answer before it has the whole request.
Candidate(r) ==
  /\ Alive
  /\ at[r] \in {"sending", "waiting"}
  /\ at' = [at EXCEPT ![r] = "buffering"]
  /\ UNCHANGED <<phase, failed, elapsed, age, waited, attempt, late, answered, stalled>>

\* finish: the headers of any other answer are passed on at once, and one that was
\* buffered is passed on whole.
Respond(r) ==
  /\ Alive
  /\ \/ /\ at[r] \in {"sending", "waiting"}
        /\ at' = [at EXCEPT ![r] = Written(r, "streaming")]
     \/ /\ at[r] = "buffering"
        /\ at' = [at EXCEPT ![r] = Written(r, "whole")]
  /\ answered' = [answered EXCEPT ![r] = TRUE]
  /\ UNCHANGED <<phase, failed, elapsed, age, waited, attempt, late, stalled>>

\* copyStream has read the last chunk, and what it wrote got through.
EndStream(r) ==
  /\ Alive
  /\ at[r] = "streaming"
  /\ at' = [at EXCEPT ![r] = "whole"]
  /\ UNCHANGED <<phase, failed, elapsed, age, waited, attempt, late, answered, stalled>>

\* A chunk arrives after the deadline: its Write or Flush fails, copyStream returns.
CutStream(r) ==
  /\ Alive
  /\ at[r] = "streaming"
  /\ WriteTimeout > 0 /\ age[r] >= WriteTimeout
  /\ at' = [at EXCEPT ![r] = "cut"]
  /\ UNCHANGED <<phase, failed, elapsed, age, waited, attempt, late, answered, stalled>>

-----------------------------------------------------------------------------
(***************************************************************************)
(* The process                                                             *)
(***************************************************************************)

\* A signal cancels ctx, or a listener fails: Run leaves its select.
Stop ==
  /\ phase = "serving"
  /\ phase' = "draining"
  /\ failed' \in BOOLEAN
  /\ UNCHANGED <<elapsed, at, age, waited, attempt, late, answered, stalled>>

\* Mutants of Drained: Shutdown waits for nobody, and Shutdown has no deadline.
Drained_AtOnce == TRUE
Drained_NoDeadline == \A r \in Request : ~InFlight(r)

\* Server.Shutdown returns when every connection is idle or shutCtx has expired.
Drained == elapsed = Grace \/ \A r \in Request : ~InFlight(r)

ReturnRun ==
  /\ phase = "draining"
  /\ Drained
  /\ phase' = "returned"
  /\ UNCHANGED <<failed, elapsed, at, age, waited, attempt, late, answered, stalled>>

\* Mutant of Close: Redis is closed as soon as the signal is there.
Close_OnSignal ==
  /\ phase \in {"draining", "returned"}
  /\ ~failed
  /\ phase' = "closed"
  /\ UNCHANGED <<failed, elapsed, at, age, waited, attempt, late, answered, stalled>>

\* The deferred Close: watchers and the Redis client.  log.Fatal runs no deferred call.
Close ==
  /\ phase = "returned"
  /\ ~failed
  /\ phase' = "closed"
  /\ UNCHANGED <<failed, elapsed, at, age, waited, attempt, late, answered, stalled>>

\* main returns, or log.Fatal exits, with whatever is still in flight.
Exit ==
  /\ phase = "closed" \/ (phase = "returned" /\ failed)
  /\ phase' = "exited"
  /\ at' = [r \in Request |-> IF InFlight(r) THEN "killed" ELSE at[r]]
  /\ UNCHANGED <<failed, elapsed, age, waited, attempt, late, answered, stalled>>

\* Mutant of Due: the transport has no ResponseHeaderTimeout.
Due_BodyOnly(r) == at[r] = "reading" /\ ReadTimeout > 0 /\ age[r] >= ReadTimeout

\* Nothing that is due may be left undone when time passes.
Due(r) ==
  \/ at[r] = "reading" /\ ReadTimeout > 0 /\ age[r] >= ReadTimeout
  \/ at[r] = "waiting" /\ waited[r] >= UpstreamTimeout

\* No timer that the app sets runs.  The transport's own, for dialling and TLS, bound a
\* part of "sending" and are left out; writing and buffering have none.
Unbounded(r) ==
  \/ at[r] = "reading" /\ ReadTimeout = 0
  \/ at[r] \in {"sending", "buffering"}

Tick ==
  /\ phase = "serving" \/ (phase = "draining" /\ ~Drained)
  /\ \A r \in Request : ~Due(r)
  /\ elapsed' = IF phase = "draining" /\ elapsed < Grace THEN elapsed + 1 ELSE elapsed
  /\ age' = [r \in Request |-> IF InFlight(r) THEN Later(age[r]) ELSE age[r]]
  /\ waited' = [r \in Request |-> IF at[r] = "waiting" THEN waited[r] + 1 ELSE waited[r]]
  /\ stalled' = [r \in Request |-> IF Unbounded(r) THEN Later(stalled[r]) ELSE stalled[r]]
  /\ UNCHANGED <<phase, failed, at, attempt, late, answered>>

\* What a timer brings about.
TimerFires(r) == Due(r) /\ (ReadBody(r) \/ TimesOut(r))

Handle(r) ==
  \/ ReadBody(r)
  \/ RequestWritten(r)
  \/ AttemptFails(r)
  \/ TimesOut(r)
  \/ Candidate(r)
  \/ Respond(r)
  \/ EndStream(r)
  \/ CutStream(r)

Next ==
  \/ \E r \in Request : Accept(r)
  \/ \E r \in Request : Handle(r)
  \/ Stop
  \/ ReturnRun
  \/ Close
  \/ Exit
  \/ Tick

\* Time passes, timers fire, and Run and main go on.  Nothing is assumed of what no
\* timer bounds: a connection may never stand, a body or a stream never end.
Fairness ==
  /\ WF_vars(Tick)
  /\ \A r \in Request : WF_vars(TimerFires(r))
  /\ WF_vars(ReturnRun) /\ WF_vars(Close) /\ WF_vars(Exit)

Spec == Init /\ [][Next]_vars /\ Fairness

-----------------------------------------------------------------------------
(***************************************************************************)
(* Properties                                                              *)
(***************************************************************************)

\* Failovers alone lose no reply: when not a byte of one is written before the
\* connection's deadline, then that deadline is no later than the reading of the body,
\* every attempt's wait for headers, and the time spent where no timer bounds it.
\* (A WriteTimeout beyond the first two is therefore enough for every request whose
\* upstreams take requests, and send the bodies of their rate limits, at once.)
RoomToFailOver ==
  \A r \in Request : at[r] = "lost" =>
    WriteTimeout \in 1 .. ReadTimeout + Members * UpstreamTimeout + stalled[r]

\* A shutdown kills only requests that were given the whole grace to finish.
GraceIsGiven ==
  \A r \in Request : at[r] = "killed" => elapsed = Grace

\* Redis is closed under a request only if that request outlasted the grace.
CloseAfterDrain ==
  phase = "closed" /\ elapsed < Grace => \A r \in Request : ~InFlight(r)

\* A stopped process exits, though a request it serves may never end.
ShutdownEnds == phase = "draining" ~> phase = "exited"

-----------------------------------------------------------------------------
(***************************************************************************)
(* What the documentation says and the code does not do.                   *)
(***************************************************************************)

\* "Timeout 60s per member -> failover.": when a member has timed out and another one
\* answers, its answer reaches the client, at least if nothing else took time.
TimeoutFailsOver ==
  \A r \in Request : answered[r] /\ late[r] > 0 /\ stalled[r] = 0 => at[r] # "lost"
=============================================================================
