---------------------------- MODULE ConfigLoader ----------------------------
(***************************************************************************)
(* The two hot-reloaded configuration files: pool.Loader and client.Loader *)
(* are the same machine over different contents, and this is that machine. *)
(* One goroutine waits for the events fsnotify reports of the file's inode *)
(* and reads the path again after each; an operator saves the file the way *)
(* editors, scripts and orchestrators do.                                  *)
(*                                                                         *)
(* fsnotify and inotify are modelled from how the code uses them: a watch  *)
(* belongs to the inode the path named when it was added, is lost when     *)
(* that inode is removed or moved, and reports nothing of a later file of  *)
(* the same name.                                                          *)
(***************************************************************************)
EXTENDS Naturals, Sequences

CONSTANTS
  Content,     \* what an operator may save
  Fragment,    \* what a reader may find of a file that is being written in place
  Valid,       \* the contents Unmarshal and Validate accept
  Absent,      \* the path names no file
  SaveStyle,   \* how files are saved
  EarlyEdits,  \* whether a file may be saved before the watch is in place
  MaxSaves,    \* bound: how often it is saved
  MaxErrors    \* bound: the watcher reports no error once so many were counted

\* "in_place": truncate and write.  "replace": rename a new file, or move the
\* symbolic link the path goes through, over it.  "move_aside": rename the old file
\* away, then create the new one.
ASSUME ConfigAssumption ==
  /\ Valid \subseteq Content \cup Fragment
  /\ Valid \cap Content # {}
  /\ Absent \notin Content \cup Fragment
  /\ SaveStyle \subseteq {"in_place", "replace", "move_aside"}
  /\ EarlyEdits \in BOOLEAN
  /\ MaxSaves \in Nat
  /\ MaxErrors \in Nat

VARIABLES
  file,      \* what reading the path would give
  pending,   \* the content a save under way will leave, or Absent
  saves,     \* how many saves were begun
  watched,   \* the inotify watch is on the inode the path names
  events,    \* the events not yet received from watcher.Events
  active,    \* the content in force (Loader.pool, Loader.registry)
  pc,        \* where the loader is
  done,      \* App.Close has closed the channel of that name
  errors     \* proem_config_reloads_total{result="error"}

operator == <<file, pending, saves>>
vars     == <<operator, watched, events, active, pc, done, errors>>

PC == {"load", "add", "start", "watch", "reload", "failed", "closed"}
Op == {"write", "remove", "rename"}

Init ==
  /\ file \in Content
  /\ pending = Absent
  /\ saves = 0
  /\ watched = FALSE
  /\ events = <<>>
  /\ active = Absent
  /\ pc = "load"
  /\ done = FALSE
  /\ errors = 0

-----------------------------------------------------------------------------
(***************************************************************************)
(* The loader                                                              *)
(***************************************************************************)

\* NewLoader: the first read must succeed or the process does not start.
Load ==
  /\ pc = "load"
  /\ IF file \in Valid THEN active' = file /\ pc' = "add"
                       ELSE UNCHANGED active /\ pc' = "failed"
  /\ UNCHANGED <<operator, watched, events, done, errors>>

\* w.Add(path).
AddWatch ==
  /\ pc = "add"
  /\ file # Absent
  /\ watched' = TRUE
  /\ pc' = "start"
  /\ UNCHANGED <<operator, events, active, done, errors>>

\* w.Add fails because the path names nothing: pool.NewLoader watches the working
\* directory instead, taken to be another one than the file's.
WatchElsewhere ==
  /\ pc = "add"
  /\ file = Absent
  /\ pc' = "start"
  /\ UNCHANGED <<operator, watched, events, active, done, errors>>

\* Where client.NewLoader gives up, and the process does not start.
AddFails ==
  /\ pc = "add"
  /\ file = Absent
  /\ pc' = "failed"
  /\ UNCHANGED <<operator, watched, events, active, done, errors>>

\* App.New starts Watch.
StartWatch ==
  /\ pc = "start"
  /\ pc' = "watch"
  /\ UNCHANGED <<operator, watched, events, active, done, errors>>

\* Mutant of Relevant: writes in place are not listened to.
Relevant_NoWrite(op) == op = "rename"

\* The mask Write|Create|Rename; a watch on a file never reports Create.
Relevant(op) == op \in {"write", "rename"}

Receive ==
  /\ pc = "watch"
  /\ events # <<>>
  /\ events' = Tail(events)
  /\ pc' = IF Relevant(Head(events)) THEN "reload" ELSE "watch"
  /\ UNCHANGED <<operator, watched, active, done, errors>>

\* An error of the watcher is counted like a refused file, and nothing is read again.
\* The kernel's queue overflowing is such an error; no event is lost with it here,
\* since an event equal to the last unread one is merged (Notify).
WatchError ==
  /\ pc = "watch"
  /\ errors < MaxErrors
  /\ errors' = errors + 1
  /\ UNCHANGED <<operator, watched, events, active, pc, done>>

\* Mutant of Reload: the content is swapped in, then validated.
Reload_SwapFirst ==
  /\ pc = "reload"
  /\ active' = file
  /\ errors' = IF file \in Valid THEN errors ELSE errors + 1
  /\ pc' = "watch"
  /\ UNCHANGED <<operator, watched, events, done>>

\* reload: read, parse, validate, and only then swap.
Reload ==
  /\ pc = "reload"
  /\ IF file \in Valid THEN active' = file /\ UNCHANGED errors
                       ELSE errors' = errors + 1 /\ UNCHANGED active
  /\ pc' = "watch"
  /\ UNCHANGED <<operator, watched, events, done>>

\* App.Close closes done and the watcher.  A reload under way is not interrupted,
\* and select may still take an event before it sees that done is closed.
Close ==
  /\ pc \in {"watch", "reload"}
  /\ ~done
  /\ done' = TRUE
  /\ watched' = FALSE
  /\ UNCHANGED <<operator, events, active, pc, errors>>

\* The goroutine of Watch returns.
Stop ==
  /\ pc = "watch"
  /\ done
  /\ pc' = "closed"
  /\ UNCHANGED <<operator, watched, events, active, done, errors>>

-----------------------------------------------------------------------------
(***************************************************************************)
(* The operator                                                            *)
(***************************************************************************)

MaySave(style) ==
  /\ style \in SaveStyle
  /\ pending = Absent
  /\ saves < MaxSaves
  /\ EarlyEdits \/ watched \/ pc \in {"watch", "reload"}

\* inotify drops an event equal to the last one that is still unread.
Notify(op) ==
  events' = IF watched /\ (events = <<>> \/ events[Len(events)] # op)
            THEN Append(events, op) ELSE events

\* O_TRUNC and the first bytes of c: until the rest is written a reader finds a
\* fragment.
BeginWrite(c) ==
  /\ MaySave("in_place")
  /\ \E f \in Fragment : file' = f
  /\ pending' = c
  /\ saves' = saves + 1
  /\ Notify("write")
  /\ UNCHANGED <<watched, active, pc, done, errors>>

\* The new file takes the name of the old one, whose inode goes away: that is a
\* Remove, or nothing at all while something else still holds the old inode.
Replace(c) ==
  /\ MaySave("replace")
  /\ file' = c
  /\ saves' = saves + 1
  /\ Notify("remove") \/ UNCHANGED events
  /\ watched' = FALSE
  /\ UNCHANGED <<pending, active, pc, done, errors>>

\* The old file is renamed away; until the new one is created there is none.
MoveAside(c) ==
  /\ MaySave("move_aside")
  /\ file' = Absent
  /\ pending' = c
  /\ saves' = saves + 1
  /\ Notify("rename")
  /\ watched' = FALSE
  /\ UNCHANGED <<active, pc, done, errors>>

\* The save under way is completed.
EndWrite ==
  /\ pending # Absent
  /\ file' = pending
  /\ pending' = Absent
  /\ Notify("write")
  /\ UNCHANGED <<saves, watched, active, pc, done, errors>>

\* Nothing is left to do: no save to come, no event to handle, or no loader.
Quiet ==
  /\ pending = Absent
  /\ saves = MaxSaves \/ pc \in {"failed", "closed"}
  /\ \/ pc = "watch" /\ events = <<>> /\ ~done
     \/ pc \in {"failed", "closed"}
  /\ UNCHANGED vars

Loader == Load \/ AddWatch \/ WatchElsewhere \/ AddFails \/ StartWatch \/ Receive \/ Reload \/ Stop

Next ==
  \/ Load
  \/ AddWatch
  \/ WatchElsewhere
  \/ AddFails
  \/ StartWatch
  \/ Receive
  \/ WatchError
  \/ Reload
  \/ Close
  \/ Stop
  \/ \E c \in Content : BeginWrite(c)
  \/ \E c \in Content : Replace(c)
  \/ \E c \in Content : MoveAside(c)
  \/ EndWrite
  \/ Quiet

\* The loader's goroutine runs (an error of the watcher need not come), and a save once begun is completed.  Nobody is
\* obliged to save, or to stop the process.
Fairness == WF_vars(Loader) /\ WF_vars(EndWrite)

Spec == Init /\ [][Next]_vars /\ Fairness

-----------------------------------------------------------------------------
(***************************************************************************)
(* Properties                                                              *)
(***************************************************************************)

\* Every variable holds a value of its kind.
TypeOK ==
  /\ file \in Content \cup Fragment \cup {Absent}
  /\ pending \in Content \cup {Absent}
  /\ saves \in 0 .. MaxSaves
  /\ watched \in BOOLEAN
  /\ events \in Seq(Op)
  /\ active \in Content \cup Fragment \cup {Absent}
  /\ pc \in PC
  /\ done \in BOOLEAN
  /\ errors \in Nat

\* A mistake in the file cannot stop the proxy: from the moment NewLoader succeeds
\* a valid content is in force, through torn reads, refused edits, missing files.
ActiveIsValid == pc \notin {"load", "failed"} => active \in Valid

\* The loader waits, its watch is on the file, no save is under way and no event is
\* left to receive.
AtRest == pc = "watch" /\ watched /\ pending = Absent /\ events = <<>>

\* Loader.Watch: a step that brings the loader to rest leaves a valid file in force.
\* However saves, their halves, merged events and reads interleave, the last read is
\* never one of an older content.  The rest at which it starts is excepted: a save that
\* precedes the watch (NewLoader) goes unseen.
RestsInForce ==
  [][AtRest' /\ file' \in Valid =>
       \/ active' = file'
       \/ pc = "start"
       \/ AtRest /\ UNCHANGED <<file, active>>]_vars

\* The file is c, and the last event not yet received says that it was written.
Reported(c) ==
  /\ pending = Absent
  /\ file = c
  /\ events # <<>> /\ events[Len(events)] = "write"

\* Loader.Watch: once fsnotify has reported that a valid file was written, that file
\* comes into force, however many saves, torn reads, refused edits and lost watches
\* surround it: no event that matters is taken and then not acted upon.
ReportedIsApplied ==
  \A c \in Valid : Reported(c) ~> active = c \/ file # c \/ done

-----------------------------------------------------------------------------
(***************************************************************************)
(* What the documentation says and the code does not do.                   *)
(***************************************************************************)

\* pool-members.md: "Save the file. Proem applies the change to the next request.";
\* docker.md: "Some orchestrators replace a configuration file by moving a symbolic
\* link. Proem handles that too."  A valid file that is left alone comes into force.
SavedIsApplied ==
  \A c \in Valid :
    pc \in {"watch", "reload"} /\ pending = Absent /\ file = c
      ~> active = c \/ file # c \/ done
=============================================================================
