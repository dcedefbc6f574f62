------------------------- MODULE ConfigLoaderProofs -------------------------
(***************************************************************************)
(* What holds of the hot reload for any contents, any number of saves and  *)
(* every way of saving.                                                    *)
(***************************************************************************)
EXTENDS ConfigLoader, TLAPS

\* What Notify appends is an event, if what it is given is one.
LEMMA NotifyType ==
  ASSUME NEW op \in Op, events \in Seq(Op), Notify(op)
  PROVE  events' \in Seq(Op)
  BY DEF Notify

\* Every variable of the loader holds a value of its kind.
THEOREM LoaderTyped == Spec => []TypeOK
<1>1. Init => TypeOK
  <2>1. <<>> \in Seq(Op)
    OBVIOUS
  <2>2. 0 \in 0 .. MaxSaves
    BY ConfigAssumption
  <2>3. ASSUME Init PROVE /\ events \in Seq(Op)
                           /\ saves \in 0 .. MaxSaves
                           /\ watched \in BOOLEAN
                           /\ done \in BOOLEAN
    BY <2>1, <2>2, <2>3 DEF Init
  <2>4. ASSUME Init PROVE /\ file \in Content \cup Fragment \cup {Absent}
                           /\ pending \in Content \cup {Absent}
                           /\ active \in Content \cup Fragment \cup {Absent}
                           /\ pc \in PC
                           /\ errors \in Nat
    BY <2>4 DEF Init, PC
  <2>5. QED
    BY <2>3, <2>4 DEF TypeOK
<1>2. TypeOK /\ [Next]_vars => TypeOK'
  <2> SUFFICES ASSUME TypeOK, [Next]_vars PROVE TypeOK'
    OBVIOUS
  <2> USE DEF TypeOK
  <2>1. CASE Load
    BY <2>1 DEF Load, PC, operator
  <2>2. CASE AddWatch
    BY <2>2 DEF AddWatch, PC, operator
  <2>3. CASE WatchElsewhere
    BY <2>3 DEF WatchElsewhere, PC, operator
  <2>4. CASE AddFails
    BY <2>4 DEF AddFails, PC, operator
  <2>5. CASE StartWatch
    BY <2>5 DEF StartWatch, PC, operator
  <2>6. CASE Receive
    <3>1. events' \in Seq(Op)
      BY <2>6 DEF Receive
    <3>2. QED
      BY <2>6, <3>1 DEF Receive, PC, operator
  <2>7. CASE Reload
    BY <2>7 DEF Reload, PC, operator
  <2>8. CASE Close
    BY <2>8 DEF Close, operator
  <2>9. CASE Stop
    BY <2>9 DEF Stop, PC, operator
  <2>10. ASSUME NEW c \in Content, BeginWrite(c) PROVE TypeOK'
    <3>1. events' \in Seq(Op)
      BY <2>10, NotifyType DEF BeginWrite, Op
    <3>2. QED
      BY <2>10, <3>1, ConfigAssumption DEF BeginWrite, MaySave
  <2>11. ASSUME NEW c \in Content, Replace(c) PROVE TypeOK'
    <3>1. events' \in Seq(Op)
      BY <2>11, NotifyType DEF Replace, Op
    <3>2. saves' \in 0 .. MaxSaves
      BY <2>11, ConfigAssumption DEF Replace, MaySave
    <3>3. QED
      BY <2>11, <3>1, <3>2, Zenon DEF Replace
  <2>12. ASSUME NEW c \in Content, MoveAside(c) PROVE TypeOK'
    <3>1. events' \in Seq(Op)
      BY <2>12, NotifyType DEF MoveAside, Op
    <3>2. saves' \in 0 .. MaxSaves
      BY <2>12, ConfigAssumption DEF MoveAside, MaySave
    <3>3. QED
      BY <2>12, <3>1, <3>2, Zenon DEF MoveAside
  <2>13. CASE EndWrite
    <3>1. events' \in Seq(Op)
      BY <2>13, NotifyType DEF EndWrite, Op
    <3>2. QED
      BY <2>13, <3>1 DEF EndWrite
  <2>14. CASE UNCHANGED vars
    BY <2>14 DEF vars, operator
  <2>15. CASE WatchError
    BY <2>15 DEF WatchError, operator
  <2>16. QED
    BY <2>1, <2>2, <2>3, <2>4, <2>5, <2>6, <2>7, <2>8, <2>9, <2>10, <2>11, <2>12,
       <2>13, <2>14, <2>15 DEF Next, Quiet
<1>3. QED
  BY <1>1, <1>2, PTL DEF Spec

\* ActiveIsValid needs no strengthening: the content in force changes only where
\* the loader has just checked it, and "load" is never returned to.
THEOREM ValidInForce == Spec => []ActiveIsValid
<1>1. Init => ActiveIsValid
  BY DEF Init, ActiveIsValid
<1>2. ActiveIsValid /\ [Next]_vars => ActiveIsValid'
  <2> SUFFICES ASSUME ActiveIsValid, [Next]_vars PROVE ActiveIsValid'
    OBVIOUS
  <2> USE DEF ActiveIsValid
  <2>1. CASE Load
    BY <2>1 DEF Load
  <2>2. CASE AddWatch \/ WatchElsewhere \/ AddFails \/ StartWatch
    BY <2>2 DEF AddWatch, WatchElsewhere, AddFails, StartWatch
  <2>3. CASE Receive \/ WatchError
    BY <2>3 DEF Receive, WatchError
  <2>4. CASE Reload
    BY <2>4 DEF Reload
  <2>5. CASE Close \/ Stop
    BY <2>5 DEF Close, Stop
  <2>6. CASE \E c \in Content : BeginWrite(c) \/ Replace(c) \/ MoveAside(c)
    BY <2>6 DEF BeginWrite, Replace, MoveAside
  <2>7. CASE EndWrite \/ UNCHANGED vars
    BY <2>7 DEF EndWrite, vars
  <2>8. QED
    BY <2>1, <2>2, <2>3, <2>4, <2>5, <2>6, <2>7 DEF Next, Quiet
<1>3. QED
  BY <1>1, <1>2, PTL DEF Spec

\* A watch is added once, to an empty queue, and does not survive what the loader does
\* not listen to: while it is in place, all there is to receive is writes.
OnlyWrites ==
  /\ pc \in {"load", "add"} => ~watched /\ events = <<>>
  /\ watched => \A i \in DOMAIN events : events[i] = "write"

\* What Notify leaves on the queue of a watch that is in place has the event in it,
\* newly appended or merged into an equal one that is still unread.
LEMMA NotifyQueues ==
  ASSUME NEW op \in Op, events \in Seq(Op), watched, Notify(op)
  PROVE  \E i \in DOMAIN events' : events'[i] = op
<1>1. CASE events' = Append(events, op)
  <2>1. Len(events) + 1 \in DOMAIN events' /\ events'[Len(events) + 1] = op
    BY <1>1
  <2> QED
    BY <2>1
<1>2. CASE events # <<>> /\ events[Len(events)] = op /\ events' = events
  <2>1. Len(events) \in DOMAIN events
    BY <1>2
  <2> QED
    BY <1>2, <2>1
<1> QED
  BY <1>1, <1>2 DEF Notify

\* A watch that is in place is told of writes, and one that goes is not told again.
LEMMA OnlyWritesStep ==
  ASSUME TypeOK, OnlyWrites, [Next]_vars
  PROVE  OnlyWrites'
<1> USE DEF OnlyWrites
<1>1. CASE Load \/ WatchElsewhere \/ AddFails \/ StartWatch \/ Stop
  BY <1>1 DEF Load, WatchElsewhere, AddFails, StartWatch, Stop
<1>2. CASE AddWatch
  BY <1>2 DEF AddWatch
<1>3. CASE Receive
  <2>1. /\ events # <<>> /\ events' = Tail(events) /\ events \in Seq(Op)
        /\ pc' \notin {"load", "add"} /\ watched' = watched
    BY <1>3 DEF Receive, TypeOK
  <2>2. \A i \in DOMAIN events' : i + 1 \in DOMAIN events /\ events'[i] = events[i + 1]
    BY <2>1
  <2> QED
    BY <2>1, <2>2
<1>4. CASE Reload \/ WatchError \/ Close
  BY <1>4 DEF Reload, WatchError, Close
<1>5. ASSUME NEW c \in Content, BeginWrite(c) \/ EndWrite PROVE OnlyWrites'
  <2>1. pc' = pc /\ watched' = watched /\ Notify("write") /\ events \in Seq(Op)
    BY <1>5 DEF BeginWrite, EndWrite, TypeOK
  <2>2. CASE ~watched
    BY <2>1, <2>2 DEF Notify
  <2>3. CASE watched
    <3>1. events' = events \/ events' = Append(events, "write")
      BY <2>1 DEF Notify
    <3> QED
      BY <2>1, <2>3, <3>1
  <2> QED
    BY <2>2, <2>3
<1>6. ASSUME NEW c \in Content, Replace(c) \/ MoveAside(c) PROVE OnlyWrites'
  <2>1. /\ pc' = pc /\ ~watched'
        /\ events' = events \/ Notify("remove") \/ Notify("rename")
    BY <1>6 DEF Replace, MoveAside
  <2>2. ~watched => events' = events
    BY <2>1 DEF Notify
  <2> QED
    BY <2>1, <2>2
<1>7. CASE UNCHANGED vars
  BY <1>7 DEF vars
<1>8. Content # {}
  BY ConfigAssumption
<1> QED
  BY <1>1, <1>2, <1>3, <1>4, <1>5, <1>6, <1>7, <1>8 DEF Next, Quiet

\* What RestsInForce says of a step.
Rests ==
  AtRest' /\ file' \in Valid =>
    \/ active' = file'
    \/ pc = "start"
    \/ AtRest /\ UNCHANGED <<file, active>>

\* Of the steps that could empty the queue beside a whole file, a read is the only one
\* that does.
LEMMA RestsStep ==
  ASSUME TypeOK, OnlyWrites, [Next]_vars
  PROVE  Rests
<1>1. CASE Load \/ AddWatch \/ WatchElsewhere \/ AddFails \/ Stop
  BY <1>1 DEF Load, AddWatch, WatchElsewhere, AddFails, Stop, Rests, AtRest
<1>2. CASE StartWatch
  BY <1>2 DEF StartWatch, Rests
<1>3. CASE Receive
  <2>1. CASE watched
    <3>1. events # <<>> /\ events \in Seq(Op) /\ 1 \in DOMAIN events
      BY <1>3 DEF Receive, TypeOK
    <3>2. Relevant(Head(events))
      BY <2>1, <3>1 DEF OnlyWrites, Relevant
    <3> QED
      BY <1>3, <3>2 DEF Receive, Rests, AtRest
  <2>2. CASE ~watched
    BY <1>3, <2>2 DEF Receive, Rests, AtRest
  <2> QED
    BY <2>1, <2>2
<1>4. CASE Reload
  BY <1>4 DEF Reload, Rests, AtRest, operator
<1>5. CASE Close
  BY <1>5 DEF Close, Rests, AtRest
<1>6. ASSUME NEW c \in Content, BeginWrite(c) PROVE Rests
  BY <1>6, ConfigAssumption DEF BeginWrite, Rests, AtRest
<1>7. ASSUME NEW c \in Content, Replace(c) \/ MoveAside(c) PROVE Rests
  BY <1>7 DEF Replace, MoveAside, Rests, AtRest
<1>8. CASE EndWrite
  <2>1. watched => \E i \in DOMAIN events' : events'[i] = "write"
    BY <1>8, NotifyQueues DEF EndWrite, Op, TypeOK
  <2>2. watched' => events' # <<>>
    BY <1>8, <2>1 DEF EndWrite
  <2> QED
    BY <2>2 DEF Rests, AtRest
<1>9. CASE UNCHANGED vars
  BY <1>9 DEF vars, operator, Rests, AtRest
<1>10. CASE WatchError
  BY <1>10 DEF WatchError, operator, Rests, AtRest
<1> QED
  BY <1>1, <1>2, <1>3, <1>4, <1>5, <1>6, <1>7, <1>8, <1>9, <1>10 DEF Next, Quiet

\* In every behaviour: a loader that comes to rest beside a valid file has that file
\* in force.
THEOREM LastReadIsCurrent == Spec => RestsInForce
<1>1. Init => OnlyWrites
  BY DEF Init, OnlyWrites
<1>2. TypeOK /\ OnlyWrites /\ [Next]_vars => OnlyWrites'
  BY OnlyWritesStep
<1>3. TypeOK /\ OnlyWrites /\ [Next]_vars => [Rests]_vars
  BY RestsStep
<1>4. Spec => [][Rests]_vars
  BY <1>1, <1>2, <1>3, LoaderTyped, PTL DEF Spec
<1> QED
  BY <1>4 DEF Rests, RestsInForce
=============================================================================
