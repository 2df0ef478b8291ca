---------------------------- MODULE ChildProcess ----------------------------
(***************************************************************************)
(* Child processes (src/src/child-process.c and its JavaScript class in    *)
(* src/quickjs-child-process.c), in the build that uses posix_spawn() and  *)
(* waitpid().  The operating system lets processes stop, go on and end at  *)
(* any time and raises SIGCHLD, which the event loop answers later with    *)
(* one call of child_process_sigchld, however often it was raised.         *)
(*                                                                         *)
(* A member of Child is a ChildProcess object and the process it spawns;   *)
(* when posix_spawn() fails the object's pid stays -1.  Process ids are    *)
(* not used again.  Every object has an onExit callback.                   *)
(***************************************************************************)
EXTENDS Naturals, Sequences

CONSTANTS
  Child,
  Flags,       \* flags wait() is called with: "none", "WNOHANG", "WUNTRACED"
  MayFail      \* TRUE: posix_spawn() may fail

ASSUME ConstantsAssumption ==
  /\ Flags \subseteq {"none", "WNOHANG", "WUNTRACED"}
  /\ MayFail \in BOOLEAN

VARIABLES
  proc,      \* proc[c]: the process as the system sees it
  ended,     \* ended[c]: how it ended
  seen,      \* stopped processes that waitpid() has reported
  object,    \* object[c]: the ChildProcess in JavaScript
  linked,    \* child_process_list
  status,    \* status[c]: what child_process_status last set
  killed,    \* objects whose killed flag is set
  told,      \* told[c]: what onExit was called with
  handler,   \* child_process_handler
  pending,   \* SIGCHLD was raised and not yet handled
  syncing,   \* the object for which spawnSync() blocks in waitpid(), if any
  crashed    \* a list_del() of an object that is not linked: null pointers

vars == <<proc, ended, seen, object, linked, status, killed, told, handler,
          pending, syncing, crashed>>

system == <<proc, ended, seen, pending>>

Ways == {"exited", "signaled"}
Alive == {"running", "stopped"}

\* waitpid() of a pid -1: any child.
Own(c) == proc[c] # "none"
Zombies == {q \in Child : proc[q] = "zombie"}
NewlyStopped == {q \in Child : proc[q] = "stopped" /\ q \notin seen}
NoChildren == \A q \in Child : proc[q] \in {"none", "reaped"}

Reaps(q) ==
  /\ proc' = [proc EXCEPT ![q] = "reaped"]
  /\ UNCHANGED <<ended, seen>>

Reports(q) ==
  /\ seen' = seen \union {q}
  /\ UNCHANGED <<proc, ended>>

\* JavaScript and the event loop run only while no call blocks.
Idle == syncing = {} /\ ~crashed
-----------------------------------------------------------------------------
Init ==
  /\ proc = [c \in Child |-> "none"]
  /\ ended = [c \in Child |-> "none"]
  /\ seen = {}
  /\ object = [c \in Child |-> "unused"]
  /\ linked = {}
  /\ status = [c \in Child |-> "none"]
  /\ killed = {}
  /\ told = [c \in Child |-> <<>>]
  /\ handler = FALSE
  /\ pending = FALSE
  /\ syncing = {}
  /\ crashed = FALSE

\* The system: a process ends, stops or goes on.
Raise == pending' = (pending \/ handler)

End(c, how) ==
  /\ ~crashed /\ proc[c] \in Alive
  /\ proc' = [proc EXCEPT ![c] = "zombie"]
  /\ ended' = [ended EXCEPT ![c] = how]
  /\ seen' = seen \ {c}
  /\ Raise
  /\ UNCHANGED <<object, linked, status, killed, told, handler, syncing, crashed>>

Stop(c) ==
  /\ ~crashed /\ proc[c] = "running" /\ "WUNTRACED" \in Flags
  /\ proc' = [proc EXCEPT ![c] = "stopped"]
  /\ Raise
  /\ UNCHANGED <<ended, seen, object, linked, status, killed, told, handler, syncing, crashed>>

Continue(c) ==
  /\ ~crashed /\ proc[c] = "stopped"
  /\ proc' = [proc EXCEPT ![c] = "running"]
  /\ seen' = seen \ {c}
  /\ Raise
  /\ UNCHANGED <<ended, object, linked, status, killed, told, handler, syncing, crashed>>
-----------------------------------------------------------------------------
\* child_process_new installs the handler.
child_process_new(c) ==
  /\ object' = [object EXCEPT ![c] = "live"]
  /\ handler' = TRUE

\* child_process_spawn links an object whose process could be started.
child_process_spawn(c) ==
  \/ /\ proc' = [proc EXCEPT ![c] = "running"]
     /\ linked' = linked \union {c}
  \/ MayFail /\ UNCHANGED <<proc, linked>>

\* spawn() and exec() then return; their Sync variants stay to wait.
Spawn(c, sync) ==
  /\ Idle /\ object[c] = "unused"
  /\ child_process_new(c) /\ child_process_spawn(c)
  /\ syncing' = IF sync THEN {c} ELSE {}
  /\ UNCHANGED <<ended, seen, status, killed, told, pending, crashed>>

\* Mutant of Get: does not compare the pid.
GetAny(q) == linked

\* child_process_get
Get(q) == linked \intersect {q}

\* child_process_status
Notes(q, s) == status' = [c \in Child |-> IF c \in Get(q) THEN s ELSE status[c]]

\* Mutants of child_process_remove: the handler goes with any object; the
\* object stays in the list.
RemoveHandler(c) == linked' = linked \ {c} /\ handler' = FALSE
KeepLink(c) == UNCHANGED <<linked, handler>>

\* child_process_remove: the last object takes the handler along.
child_process_remove(c) ==
  /\ linked' = linked \ {c}
  /\ handler' = (handler /\ linked \ {c} # {})

\* The rest of wait() and of the handler when q's own status was fetched.
Tells(q, s) ==
  told' = [told EXCEPT ![q] = Append(@, s)]

\* js_child_process_wait: the process of c ended or stopped.  When c is not in
\* the list any more, child_process_remove crashes.
WaitOwn(c, q, s) ==
  /\ c = q
  /\ status' = [status EXCEPT ![c] = s]
  /\ IF c \in linked
       THEN child_process_remove(c) /\ Tells(c, s) /\ UNCHANGED crashed
       ELSE crashed' = TRUE /\ UNCHANGED <<linked, handler, told>>

\* ... for an object whose pid is -1, waitpid() fetches any child's status.
WaitAny(c, q, s) ==
  /\ ~Own(c)
  /\ Notes(q, s)
  /\ UNCHANGED <<linked, handler, told, crashed>>

Waitable(c) == Idle /\ object[c] = "live" /\ status[c] \notin Ways

Wait(c, flags) ==
  /\ Waitable(c)
  /\ \E q \in Child :
       \/ q \in Zombies /\ Reaps(q)
          /\ (WaitOwn(c, q, ended[q]) \/ WaitAny(c, q, ended[q]))
       \/ flags = "WUNTRACED" /\ q \in NewlyStopped /\ Reports(q)
          /\ (WaitOwn(c, q, "stopped") \/ WaitAny(c, q, "stopped"))
  /\ UNCHANGED <<object, killed, pending, syncing>>

\* ... and there is no child: waitpid() returns -1, which is the pid of c, and
\* the status is still 0, which reads as exit code 0.
WaitNone(c) ==
  /\ Waitable(c) /\ ~Own(c) /\ NoChildren
  /\ status' = [status EXCEPT ![c] = "exited"]
  /\ UNCHANGED <<system, object, linked, killed, told, handler, syncing, crashed>>

\* ... WNOHANG and nothing to report, or a child that was reaped elsewhere.
WaitInVain(c, flags) ==
  /\ Waitable(c)
  /\ IF Own(c) THEN \/ flags = "WNOHANG" /\ proc[c] \in Alive
                    \/ proc[c] = "reaped"
     ELSE flags = "WNOHANG" /\ Zombies = {} /\ ~NoChildren
  /\ UNCHANGED vars

\* child_process_result: the loop of child_process_wait_blocking.  An object
\* whose pid is -1 reaps all children before it gives up.
SyncReaps(c) ==
  /\ c \in syncing /\ ~crashed /\ ~Own(c)
  /\ \E q \in Zombies : Reaps(q) /\ Notes(q, ended[q])
  /\ UNCHANGED <<pending, object, linked, killed, told, handler, syncing, crashed>>

\* ... its end: child_process_remove, and the object is dropped.
SyncEnds(c) ==
  /\ c \in syncing /\ ~crashed
  /\ \/ /\ c \in Zombies /\ Reaps(c)
        /\ status' = [status EXCEPT ![c] = ended[c]]
     \/ /\ ~Own(c) /\ NoChildren /\ UNCHANGED <<proc, ended, seen>>
        /\ status' = [status EXCEPT ![c] = "exited"]
  /\ IF c \in linked
       THEN /\ child_process_remove(c) /\ syncing' = {}
            /\ object' = [object EXCEPT ![c] = "freed"] /\ UNCHANGED crashed
       ELSE crashed' = TRUE /\ UNCHANGED <<linked, handler, object, syncing>>
  /\ UNCHANGED <<pending, killed, told>>

\* child_process_sigchld: one waitpid(-1, WNOHANG) for the signals so far.
HandleSigchld ==
  /\ Idle /\ pending /\ handler
  /\ pending' = FALSE
  /\ \/ /\ Zombies = {}
        /\ UNCHANGED <<proc, ended, seen, linked, status, told, handler>>
     \/ \E q \in Zombies :
          /\ Reaps(q) /\ Notes(q, ended[q])
          /\ IF Get(q) = {} THEN UNCHANGED <<linked, handler, told>>
             ELSE \E c \in Get(q) : child_process_remove(c) /\ Tells(c, ended[q])
  /\ UNCHANGED <<object, killed, syncing, crashed>>

\* kill(): reports success while there is a process to signal.  What the signal
\* does is up to End, Stop and Continue.  (A pid of -1 names every process.)
Kill(c) ==
  /\ Idle /\ object[c] = "live"
  /\ Own(c) => proc[c] # "reaped"
  /\ killed' = killed \union {c}
  /\ UNCHANGED <<system, object, linked, status, told, handler, syncing, crashed>>

\* Mutant of Finalize: frees the object without unlinking it.
FinalizeForgets(c) ==
  /\ Idle /\ object[c] = "live"
  /\ object' = [object EXCEPT ![c] = "freed"]
  /\ UNCHANGED <<system, linked, status, killed, told, handler, syncing, crashed>>

\* The object is garbage: child_process_free_rt unlinks it, the handler stays.
Finalize(c) ==
  /\ Idle /\ object[c] = "live"
  /\ object' = [object EXCEPT ![c] = "freed"]
  /\ linked' = linked \ {c}
  /\ UNCHANGED <<system, status, killed, told, handler, syncing, crashed>>

Next ==
  \E c \in Child :
    \/ \E how \in Ways : End(c, how)
    \/ Stop(c) \/ Continue(c)
    \/ \E sync \in BOOLEAN : Spawn(c, sync)
    \/ \E flags \in Flags : Wait(c, flags) \/ WaitInVain(c, flags)
    \/ WaitNone(c) \/ SyncReaps(c) \/ SyncEnds(c)
    \/ HandleSigchld \/ Kill(c) \/ Finalize(c)

Spec == Init /\ [][Next]_vars

\* The event loop runs the handler of a pending signal, and a blocked waitpid()
\* returns when it can; nothing is assumed of the processes and the user.
FairSpec ==
  /\ Spec /\ WF_vars(HandleSigchld)
  /\ \A c \in Child : WF_vars(SyncReaps(c)) /\ WF_vars(SyncEnds(c))
-----------------------------------------------------------------------------
Statuses == Ways \union {"none", "stopped"}

\* Types; the list holds only objects that are alive and own a process, so
\* that the handler never follows a link into freed memory (the list_del() of
\* child_process_free_rt), and spawnSync() blocks for one live object.
TypeOK ==
  /\ proc \in [Child -> Alive \union {"none", "zombie", "reaped"}]
  /\ ended \in [Child -> Ways \union {"none"}]
  /\ seen \subseteq {c \in Child : proc[c] = "stopped"}
  /\ object \in [Child -> {"unused", "live", "freed"}]
  /\ linked \subseteq {c \in Child : object[c] = "live" /\ Own(c)}
  /\ status \in [Child -> Statuses] /\ killed \subseteq Child
  /\ told \in [Child -> Seq(Statuses)]
  /\ handler \in BOOLEAN /\ pending \in BOOLEAN /\ crashed \in BOOLEAN
  /\ \A c \in syncing : object[c] = "live" /\ syncing = {c}

\* Whoever reaps a child, wait(), spawnSync() or the handler, its onExit is
\* called at most once with an end, and with its own (the removal from the
\* list in child_process_sigchld and js_child_process_wait).
ToldTruth ==
  \A c \in Child :
    /\ Len(told[c]) <= 1
    /\ \A s \in Ways : told[c] = <<s>> => ended[c] = s /\ proc[c] = "reaped"

\* While a child that may still be reported is in the list, SIGCHLD has its
\* handler (child_process_new and child_process_remove).
HandlerWhileListed == linked # {} => handler

\* The list and the statuses follow the system: an object is in the list from
\* its spawn() until its process is reaped, whoever reaps it, and from then
\* on it has the status and its onExit was called.  Two cases are excepted,
\* since the code does not keep it there: some spawn() failed, or wait() was
\* told that the child stopped, after which the next wait() crashes.
EndIsNoted ==
  (\A d \in Child : object[d] # "unused" => Own(d)) =>
    \A c \in Child : object[c] = "live" /\ told[c] # <<"stopped">> =>
      IF proc[c] = "reaped"
        THEN c \notin linked /\ status[c] = ended[c] /\ told[c] = <<ended[c]>>
        ELSE c \in linked /\ status[c] = "none" /\ told[c] = <<>>

\* exitCode is the code the process exited with (child_process_wait and
\* child_process_exitcode).
ExitCodeIsReal == \A c \in Child : status[c] = "exited" => ended[c] = "exited"

\* The end of a child that has an onExit callback is reported to it, as the
\* comment on wait() promises (child_process_sigchld); nothing is asked while
\* a spawnSync() keeps the event loop from running.
OnExitComes ==
  \A c \in Child :
    (object[c] = "live" /\ proc[c] = "zombie")
      ~> (told[c] # <<>> \/ object[c] = "freed" \/ syncing # {})
=============================================================================
