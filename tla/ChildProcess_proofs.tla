------------------------ MODULE ChildProcess_proofs -------------------------
(***************************************************************************)
(* Proofs about ChildProcess for any set of children.                      *)
(***************************************************************************)
EXTENDS ChildProcess, TLAPS

\* Nothing is told of an object in the list, nor of one that has no process;
\* what was told of another is that it stopped or how it ended.
Told ==
  \A c \in Child :
    /\ object[c] = "unused" => proc[c] = "none" /\ status[c] = "none"
    /\ proc[c] = "none" \/ c \in linked => told[c] = <<>>
    /\ \/ told[c] = <<>> \/ told[c] = <<"stopped">>
       \/ proc[c] = "reaped" /\ told[c] = <<ended[c]>>
    /\ proc[c] \in {"zombie", "reaped"} => ended[c] \in Ways

IInv == TypeOK /\ HandlerWhileListed /\ Told /\ EndIsNoted

-----------------------------------------------------------------------------
\* The first call of a callback, and lists of at most one call.
LEMMA FirstCall ==
  /\ <<>> \in Seq(Statuses)
  /\ \A s \in Statuses :
       /\ Append(<<>>, s) = <<s>> /\ <<s>> \in Seq(Statuses)
       /\ Len(<<s>>) = 1 /\ <<s>> # <<>>
       /\ \A t \in Statuses : <<s>> = <<t>> => s = t
OBVIOUS

\* The invariant holds at first.
LEMMA InitIInv == Init => IInv
<1> SUFFICES ASSUME Init PROVE IInv
  OBVIOUS
<1>1. TypeOK
  BY FirstCall DEF Init, TypeOK, Statuses, Alive, Ways
<1>2. HandlerWhileListed /\ Told
  BY DEF Init, HandlerWhileListed, Told
<1>3. EndIsNoted
  BY DEF Init, EndIsNoted
<1> QED BY <1>1, <1>2, <1>3 DEF IInv

\* The system acts: processes change, objects do not.
LEMMA SystemSteps ==
  ASSUME IInv, NEW c \in Child, NEW how \in Ways, End(c, how) \/ Stop(c) \/ Continue(c)
  PROVE  IInv'
<1> USE DEF IInv
<1>1. UNCHANGED <<object, linked, status, killed, told, handler, syncing, crashed>>
  BY DEF End, Stop, Continue
<1>2. /\ proc' \in [Child -> Alive \union {"none", "zombie", "reaped"}]
      /\ proc[c] \in Alive /\ proc'[c] \in Alive \union {"zombie"}
      /\ \A d \in Child : d # c => proc'[d] = proc[d] /\ ended'[d] = ended[d]
      /\ ended' \in [Child -> Ways \union {"none"}]
      /\ proc'[c] = "zombie" => ended'[c] \in Ways
  <2>1. CASE End(c, how)
    BY <2>1 DEF End, TypeOK, Alive, Ways
  <2>2. CASE Stop(c)
    BY <2>2 DEF Stop, TypeOK, Alive, Ways
  <2>3. CASE Continue(c)
    BY <2>3 DEF Continue, TypeOK, Alive, Ways
  <2> QED BY <2>1, <2>2, <2>3
<1>3. pending' \in BOOLEAN
  <2>1. pending' = (pending \/ handler)
    BY DEF End, Stop, Continue, Raise
  <2> QED BY <2>1, Zenon
<1>4. seen' \subseteq {d \in Child : proc'[d] = "stopped"}
  BY DEF End, Stop, Continue, TypeOK, Alive
<1>5. \A d \in Child : Own(d)' <=> Own(d)
  BY <1>2 DEF Own, Alive
<1>6. TypeOK'
  BY <1>1, <1>2, <1>3, <1>4, <1>5 DEF TypeOK
<1>7. HandlerWhileListed'
  BY <1>1 DEF HandlerWhileListed
<1>8. Told'
  BY <1>1, <1>2 DEF Told, Alive
<1>9. EndIsNoted'
  BY <1>1, <1>2, <1>5 DEF EndIsNoted, Alive
<1> QED BY <1>6, <1>7, <1>8, <1>9

\* spawn(): one more object, in the list when it has a process.
LEMMA SpawnSteps ==
  ASSUME IInv, NEW c \in Child, NEW sync \in BOOLEAN, Spawn(c, sync)
  PROVE  IInv'
<1> USE DEF IInv
<1>1. /\ UNCHANGED <<ended, seen, status, killed, told, pending, crashed>>
      /\ object' = [object EXCEPT ![c] = "live"] /\ handler' = TRUE
      /\ object[c] = "unused" /\ syncing' \in {{c}, {}}
      /\ \/ proc' = [proc EXCEPT ![c] = "running"] /\ linked' = linked \union {c}
         \/ proc' = proc /\ linked' = linked
  BY DEF Spawn, child_process_new, child_process_spawn
<1>2. proc[c] = "none" /\ status[c] = "none" /\ told[c] = <<>>
  BY <1>1 DEF Told
<1>3. TypeOK'
  <2>1. /\ proc' \in [Child -> Alive \union {"none", "zombie", "reaped"}]
        /\ proc'[c] = "running" \/ (proc'[c] = "none" /\ linked' = linked)
        /\ \A d \in Child : d # c => proc'[d] = proc[d]
    <3>0. proc \in [Child -> Alive \union {"none", "zombie", "reaped"}]
      BY DEF TypeOK
    <3>1. CASE proc' = [proc EXCEPT ![c] = "running"]
      BY <3>0, <3>1 DEF Alive
    <3>2. CASE proc' = proc /\ linked' = linked
      BY <3>2, <1>2 DEF TypeOK
    <3> QED BY <1>1, <3>1, <3>2
  <2>o. /\ object' \in [Child -> {"unused", "live", "freed"}] /\ object'[c] = "live"
        /\ \A d \in Child : d # c => object'[d] = object[d]
    BY <1>1 DEF TypeOK
  <2>2. linked' \subseteq {d \in Child : object'[d] = "live" /\ proc'[d] # "none"}
    BY <1>1, <2>1, <2>o DEF TypeOK, Own
  <2>3. seen' \subseteq {d \in Child : proc'[d] = "stopped"}
    BY <1>1, <1>2, <2>1 DEF TypeOK
  <2>4. \A d \in syncing' : object'[d] = "live" /\ syncing' = {d}
    BY <1>1, <2>o
  <2> QED BY <1>1, <2>1, <2>o, <2>2, <2>3, <2>4 DEF TypeOK, Own
<1>4. HandlerWhileListed'
  BY <1>1 DEF HandlerWhileListed
<1>5. Told'
  BY <1>1, <1>2 DEF Told, TypeOK
<1>6. EndIsNoted'
  BY <1>1, <1>2 DEF EndIsNoted, TypeOK, Own
<1> QED BY <1>3, <1>4, <1>5, <1>6

\* waitpid() returned: q is no zombie any more, or merely stopped.
Fetched(q, s) ==
  \/ q \in Zombies /\ Reaps(q) /\ s = ended[q]
  \/ q \in NewlyStopped /\ Reports(q) /\ s = "stopped"

\* ... what that changes: q alone, and its end is known.
LEMMA FetchedFacts ==
  ASSUME TypeOK, Told, NEW q \in Child, NEW s, Fetched(q, s)
  PROVE  /\ proc' \in [Child -> Alive \union {"none", "zombie", "reaped"}]
         /\ ended' = ended /\ seen' \subseteq {d \in Child : proc'[d] = "stopped"}
         /\ \A d \in Child : d # q => proc'[d] = proc[d]
         /\ \A d \in Child : Own(d)' <=> Own(d)
         /\ \A d \in Child : proc[d] = "reaped" => proc'[d] = "reaped"
         /\ Own(q) /\ proc[q] # "reaped" /\ s \in Statuses
         /\ \/ s = "stopped" /\ proc'[q] = proc[q] /\ proc[q] = "stopped"
            \/ s \in Ways /\ s = ended[q] /\ proc[q] = "zombie" /\ proc'[q] = "reaped"
<1>1. CASE q \in Zombies /\ Reaps(q) /\ s = ended[q]
  <2>1. /\ proc' = [proc EXCEPT ![q] = "reaped"] /\ proc[q] = "zombie"
        /\ ended' = ended /\ seen' = seen
    BY <1>1 DEF Reaps, Zombies
  <2>2. s \in Ways
    BY <1>1, <2>1 DEF Told
  <2> QED BY <1>1, <2>1, <2>2 DEF TypeOK, Own, Statuses
<1>2. CASE q \in NewlyStopped /\ Reports(q) /\ s = "stopped"
  BY <1>2 DEF Reports, NewlyStopped, TypeOK, Own, Statuses
<1> QED BY <1>1, <1>2 DEF Fetched

\* The status of an object in the list was fetched: it leaves the list and its
\* callback is called.
LEMMA ListedIsTold ==
  ASSUME IInv, NEW q \in Child, NEW s, Fetched(q, s), q \in linked,
         status' = [status EXCEPT ![q] = s],
         child_process_remove(q), Tells(q, s),
         UNCHANGED <<object, killed, syncing, crashed>>, pending' \in BOOLEAN
  PROVE  IInv'
<1> USE DEF IInv
<1>1. /\ proc' \in [Child -> Alive \union {"none", "zombie", "reaped"}]
      /\ ended' = ended /\ seen' \subseteq {d \in Child : proc'[d] = "stopped"}
      /\ \A d \in Child : d # q => proc'[d] = proc[d]
      /\ \A d \in Child : Own(d)' <=> Own(d)
      /\ s \in Statuses
      /\ \/ s = "stopped" /\ proc'[q] = proc[q] /\ proc[q] = "stopped"
         \/ s \in Ways /\ s = ended[q] /\ proc'[q] = "reaped"
  BY FetchedFacts
<1>2. linked' = linked \ {q} /\ handler' = (handler /\ linked' # {})
  BY DEF child_process_remove
<1>3. told[q] = <<>>
  BY DEF Told
<1>4. /\ told' \in [Child -> Seq(Statuses)] /\ told'[q] = <<s>>
      /\ \A d \in Child : d # q => told'[d] = told[d]
  <2>1. told' = [told EXCEPT ![q] = <<s>>]
    BY <1>1, <1>3, FirstCall DEF Tells, TypeOK
  <2> QED BY <2>1, <1>1, FirstCall DEF TypeOK
<1>5. /\ status' \in [Child -> Statuses] /\ status'[q] = s
      /\ \A d \in Child : d # q => status'[d] = status[d]
  BY <1>1 DEF TypeOK
<1>6. handler' \in BOOLEAN
  BY <1>2, Zenon
<1>7. HandlerWhileListed'
  BY <1>2 DEF HandlerWhileListed
<1>8. TypeOK'
  BY <1>1, <1>2, <1>4, <1>5, <1>6 DEF TypeOK
<1>9. Told'
  <2>1. object[q] = "live"
    BY DEF TypeOK
  <2> DEFINE Good(d) ==
        /\ object[d] = "unused" => proc'[d] = "none" /\ status'[d] = "none"
        /\ proc'[d] = "none" \/ d \in linked' => told'[d] = <<>>
        /\ \/ told'[d] = <<>> \/ told'[d] = <<"stopped">>
           \/ proc'[d] = "reaped" /\ told'[d] = <<ended[d]>>
        /\ proc'[d] \in {"zombie", "reaped"} => ended[d] \in Ways
  <2>2. Good(q)
    BY <1>1, <1>2, <1>4, <2>1 DEF Ways
  <2>3. \A d \in Child : d # q => Good(d)
    BY <1>1, <1>2, <1>4, <1>5 DEF Told
  <2> QED BY <1>1, <2>2, <2>3 DEF Told
<1>10. EndIsNoted'
  BY <1>1, <1>2, <1>4, <1>5, FirstCall, SMTT(60) DEF EndIsNoted, Ways
<1> QED BY <1>7, <1>8, <1>9, <1>10

\* A status was fetched for an object that is not in the list, or none was:
\* no callback is called and what EndIsNoted speaks of does not change.
LEMMA NobodyIsTold ==
  ASSUME IInv,
         proc' \in [Child -> Alive \union {"none", "zombie", "reaped"}],
         ended' = ended, seen' \subseteq {d \in Child : proc'[d] = "stopped"},
         \A d \in Child : proc'[d] = proc[d] \/ (proc[d] = "zombie" /\ proc'[d] = "reaped"),
         UNCHANGED <<object, linked, killed, told, handler, syncing>>,
         pending' \in BOOLEAN, crashed' \in BOOLEAN,
         status' \in [Child -> Statuses],
         \A d \in Child : object[d] = "unused" => status'[d] = status[d],
         \/ \E d \in Child : object[d] # "unused" /\ ~Own(d)
         \/ \A d \in Child : object[d] = "live" /\ told[d] # <<"stopped">>
              => proc'[d] = proc[d] /\ status'[d] = status[d]
  PROVE  IInv'
<1> USE DEF IInv
<1>1. \A d \in Child : Own(d)' <=> Own(d)
  BY DEF Own
<1>2. TypeOK'
  BY <1>1 DEF TypeOK
<1>3. HandlerWhileListed'
  BY DEF HandlerWhileListed
<1>4. Told'
  BY DEF Told
<1>5. EndIsNoted'
  BY <1>1 DEF EndIsNoted
<1> QED BY <1>2, <1>3, <1>4, <1>5

\* Notes changes the status of an object in the list only.
LEMMA NotesFacts ==
  ASSUME TypeOK, NEW q \in Child, NEW s \in Statuses, Notes(q, s)
  PROVE  /\ status' \in [Child -> Statuses]
         /\ \A d \in Child : d # q \/ d \notin linked => status'[d] = status[d]
         /\ q \in linked => status' = [status EXCEPT ![q] = s]
<1>1. status' = [d \in Child |-> IF d \in linked /\ d = q THEN s ELSE status[d]]
  BY DEF Notes, Get
<1>2. status \in [Child -> Statuses]
  BY DEF TypeOK
<1>3. ASSUME q \in linked PROVE status' = [status EXCEPT ![q] = s]
  BY <1>1, <1>2, <1>3
<1> QED BY <1>1, <1>2, <1>3

\* js_child_process_wait.
LEMMA WaitSteps ==
  ASSUME IInv, NEW c \in Child, NEW flags \in Flags, Wait(c, flags)
  PROVE  IInv'
<1> USE DEF IInv
<1>1. /\ object[c] = "live" /\ UNCHANGED <<object, killed, pending, syncing>>
      /\ pending' \in BOOLEAN
  BY DEF Wait, Waitable, TypeOK
<1>2. PICK q \in Child : \E s : Fetched(q, s) /\ (WaitOwn(c, q, s) \/ WaitAny(c, q, s))
  BY DEF Wait, Fetched
<1>3. PICK s : Fetched(q, s) /\ (WaitOwn(c, q, s) \/ WaitAny(c, q, s))
  BY <1>2
<1>4. /\ proc' \in [Child -> Alive \union {"none", "zombie", "reaped"}]
      /\ ended' = ended /\ seen' \subseteq {d \in Child : proc'[d] = "stopped"}
      /\ \A d \in Child : d # q => proc'[d] = proc[d]
      /\ s \in Statuses /\ proc[q] # "reaped"
      /\ proc'[q] = proc[q] \/ (proc[q] = "zombie" /\ proc'[q] = "reaped")
  BY <1>3, FetchedFacts
<1>5. CASE WaitOwn(c, q, s) /\ c \in linked
  BY <1>1, <1>3, <1>5, ListedIsTold DEF WaitOwn
<1>6. CASE WaitOwn(c, q, s) /\ c \notin linked
  <2>1. /\ c = q /\ status' = [status EXCEPT ![c] = s] /\ crashed' = TRUE
        /\ UNCHANGED <<linked, handler, told>>
    BY <1>6 DEF WaitOwn
  <2>2. \A d \in Child : d # c => status'[d] = status[d]
    BY <2>1 DEF TypeOK
  <2>3. status' \in [Child -> Statuses]
    BY <2>1, <1>4 DEF TypeOK
  <2>4. \/ \E d \in Child : object[d] # "unused" /\ ~Own(d)
        \/ \A d \in Child : object[d] = "live" /\ told[d] # <<"stopped">>
             => proc'[d] = proc[d] /\ status'[d] = status[d]
    BY <1>1, <1>4, <1>6, <2>1, <2>2 DEF EndIsNoted
  <2> QED BY <1>1, <1>4, <2>1, <2>2, <2>3, <2>4, NobodyIsTold
<1>7. CASE WaitAny(c, q, s)
  <2>1. ~Own(c) /\ Notes(q, s) /\ UNCHANGED <<linked, handler, told, crashed>>
    BY <1>7 DEF WaitAny
  <2>2. /\ status' \in [Child -> Statuses]
        /\ \A d \in Child : d \notin linked => status'[d] = status[d]
    BY <2>1, <1>4, NotesFacts
  <2>3. crashed' \in BOOLEAN /\ \A d \in Child : object[d] = "unused" => d \notin linked
    BY <2>1 DEF TypeOK
  <2> QED BY <1>1, <1>4, <2>1, <2>2, <2>3, NobodyIsTold
<1> QED BY <1>3, <1>5, <1>6, <1>7

\* wait() without a child, and the reaping of an object whose pid is -1.
LEMMA PidlessSteps ==
  ASSUME IInv, NEW c \in Child, WaitNone(c) \/ SyncReaps(c)
  PROVE  IInv'
<1> USE DEF IInv
<1>1. object[c] = "live" /\ ~Own(c)
  BY DEF WaitNone, Waitable, SyncReaps, TypeOK
<1>2. CASE WaitNone(c)
  <2>1. /\ UNCHANGED <<proc, ended, seen, pending, object, linked, killed, told>>
        /\ UNCHANGED <<handler, syncing, crashed>>
        /\ status' = [status EXCEPT ![c] = "exited"]
    BY <1>2 DEF WaitNone, system
  <2>2. status' \in [Child -> Statuses] /\ \A d \in Child : d # c => status'[d] = status[d]
    BY <2>1 DEF TypeOK, Statuses, Ways
  <2> QED BY <1>1, <2>1, <2>2, NobodyIsTold DEF TypeOK
<1>3. CASE SyncReaps(c)
  <2>1. PICK q \in Zombies : Reaps(q) /\ Notes(q, ended[q])
    BY <1>3 DEF SyncReaps
  <2>2. /\ UNCHANGED <<object, linked, killed, told, handler, syncing>>
        /\ pending' \in BOOLEAN /\ crashed' \in BOOLEAN
    BY <1>3 DEF SyncReaps, TypeOK
  <2>3. q \in Child /\ Fetched(q, ended[q])
    BY <2>1 DEF Fetched, Zombies
  <2>4. /\ proc' \in [Child -> Alive \union {"none", "zombie", "reaped"}]
        /\ ended' = ended /\ seen' \subseteq {d \in Child : proc'[d] = "stopped"}
        /\ \A d \in Child : d # q => proc'[d] = proc[d]
        /\ ended[q] \in Statuses
        /\ proc'[q] = proc[q] \/ (proc[q] = "zombie" /\ proc'[q] = "reaped")
    BY <2>3, FetchedFacts
  <2>5. /\ status' \in [Child -> Statuses]
        /\ \A d \in Child : d \notin linked => status'[d] = status[d]
    BY <2>1, <2>3, <2>4, NotesFacts
  <2>6. \A d \in Child : object[d] = "unused" => d \notin linked
    BY DEF TypeOK
  <2> QED BY <1>1, <2>2, <2>4, <2>5, <2>6, NobodyIsTold
<1> QED BY <1>2, <1>3

\* The SIGCHLD handler.
LEMMA HandlerSteps ==
  ASSUME IInv, HandleSigchld
  PROVE  IInv'
<1> USE DEF IInv
<1>1. UNCHANGED <<object, killed, syncing, crashed>> /\ pending' \in BOOLEAN /\ crashed' \in BOOLEAN
  BY DEF HandleSigchld, TypeOK
<1>2. CASE UNCHANGED <<proc, ended, seen, linked, status, told, handler>>
  BY <1>1, <1>2, NobodyIsTold DEF TypeOK
<1>3. ASSUME NEW q \in Zombies, Reaps(q), Notes(q, ended[q]),
             IF Get(q) = {} THEN UNCHANGED <<linked, handler, told>>
             ELSE \E c \in Get(q) : child_process_remove(c) /\ Tells(c, ended[q])
      PROVE  IInv'
  <2>1. q \in Child /\ Fetched(q, ended[q])
    BY <1>3 DEF Fetched, Zombies
  <2>2. /\ proc' \in [Child -> Alive \union {"none", "zombie", "reaped"}]
        /\ ended' = ended /\ seen' \subseteq {d \in Child : proc'[d] = "stopped"}
        /\ \A d \in Child : d # q => proc'[d] = proc[d]
        /\ ended[q] \in Statuses /\ proc[q] # "reaped"
        /\ proc'[q] = proc[q] \/ (proc[q] = "zombie" /\ proc'[q] = "reaped")
    BY <2>1, FetchedFacts
  <2>3. /\ status' \in [Child -> Statuses]
        /\ \A d \in Child : d # q \/ d \notin linked => status'[d] = status[d]
        /\ q \in linked => status' = [status EXCEPT ![q] = ended[q]]
    BY <1>3, <2>1, <2>2, NotesFacts
  <2>4. CASE q \in linked
    <3>1. child_process_remove(q) /\ Tells(q, ended[q])
      BY <1>3, <2>4 DEF Get
    <3> QED BY <1>1, <2>1, <2>3, <2>4, <3>1, ListedIsTold
  <2>5. CASE q \notin linked
    <3>1. UNCHANGED <<linked, handler, told>>
      BY <1>3, <2>5 DEF Get
    <3>2. \/ \E d \in Child : object[d] # "unused" /\ ~Own(d)
          \/ \A d \in Child : object[d] = "live" /\ told[d] # <<"stopped">>
               => proc'[d] = proc[d] /\ status'[d] = status[d]
      BY <2>2, <2>3, <2>5 DEF EndIsNoted
    <3>3. \A d \in Child : object[d] = "unused" => status'[d] = status[d]
      BY <2>3 DEF TypeOK
    <3> QED BY <1>1, <2>2, <2>3, <3>1, <3>2, <3>3, NobodyIsTold
  <2> QED BY <2>4, <2>5
<1> QED BY <1>2, <1>3 DEF HandleSigchld

\* An object is dropped: it leaves the list, and the rest stays as it is.
LEMMA Dropped ==
  ASSUME IInv, NEW c \in Child, object' = [object EXCEPT ![c] = "freed"],
         object[c] = "live", linked' = linked \ {c},
         handler' \in BOOLEAN, linked' # {} => handler',
         proc' \in [Child -> Alive \union {"none", "zombie", "reaped"}],
         ended' = ended, seen' \subseteq {d \in Child : proc'[d] = "stopped"},
         \A d \in Child : d # c => proc'[d] = proc[d] /\ status'[d] = status[d],
         proc'[c] = proc[c] \/ (proc[c] = "zombie" /\ proc'[c] = "reaped"),
         status' \in [Child -> Statuses], syncing' = {},
         UNCHANGED <<pending, killed, told, crashed>>
  PROVE  IInv'
<1> USE DEF IInv
<1>1. /\ object' \in [Child -> {"unused", "live", "freed"}] /\ object'[c] = "freed"
      /\ \A d \in Child : d # c => object'[d] = object[d]
  BY DEF TypeOK
<1>2. \A d \in Child : Own(d)' <=> Own(d)
  BY DEF Own
<1>3. TypeOK'
  BY <1>1, <1>2 DEF TypeOK
<1>4. HandlerWhileListed'
  BY DEF HandlerWhileListed
<1>5. Told'
  BY <1>1 DEF Told
<1>6. EndIsNoted'
  BY <1>1, <1>2 DEF EndIsNoted
<1> QED BY <1>3, <1>4, <1>5, <1>6

\* The end of spawnSync().
LEMMA SyncEndSteps ==
  ASSUME IInv, NEW c \in Child, SyncEnds(c)
  PROVE  IInv'
<1> USE DEF IInv
<1>1. object[c] = "live" /\ UNCHANGED <<pending, killed, told>> /\ pending' \in BOOLEAN
  BY DEF SyncEnds, TypeOK
<1>2. \/ /\ proc' = [proc EXCEPT ![c] = "reaped"] /\ proc[c] = "zombie"
         /\ ended' = ended /\ seen' = seen /\ status' = [status EXCEPT ![c] = ended[c]]
      \/ /\ ~Own(c) /\ UNCHANGED <<proc, ended, seen>>
         /\ status' = [status EXCEPT ![c] = "exited"]
  BY DEF SyncEnds, Reaps, Zombies
<1>3. /\ proc' \in [Child -> Alive \union {"none", "zombie", "reaped"}]
      /\ \A d \in Child : d # c => proc'[d] = proc[d]
      /\ proc'[c] = proc[c] \/ (proc[c] = "zombie" /\ proc'[c] = "reaped")
      /\ ended' = ended /\ seen' \subseteq {d \in Child : proc'[d] = "stopped"}
  <2>1. CASE proc' = [proc EXCEPT ![c] = "reaped"] /\ proc[c] = "zombie" /\ seen' = seen
    BY <1>2, <2>1 DEF TypeOK
  <2>2. CASE UNCHANGED <<proc, ended, seen>>
    BY <2>2 DEF TypeOK
  <2> QED BY <1>2, <2>1, <2>2
<1>4. status' \in [Child -> Statuses] /\ \A d \in Child : d # c => status'[d] = status[d]
  <2>1. ended[c] \in Statuses /\ "exited" \in Statuses
    BY DEF TypeOK, Statuses, Ways
  <2>2. PICK s \in Statuses : status' = [status EXCEPT ![c] = s]
    BY <1>2, <2>1
  <2> QED BY <2>2 DEF TypeOK
<1>5. CASE c \in linked
  <2>1. /\ child_process_remove(c) /\ syncing' = {} /\ crashed' = crashed
        /\ object' = [object EXCEPT ![c] = "freed"]
    BY <1>5 DEF SyncEnds
  <2>2. linked' = linked \ {c} /\ handler' = (handler /\ linked' # {})
    BY <2>1 DEF child_process_remove
  <2>3. handler' \in BOOLEAN
    BY <2>2, Zenon
  <2>4. linked' # {} => handler'
    BY <2>2 DEF HandlerWhileListed
  <2> QED BY <1>1, <1>3, <1>4, <2>1, <2>2, <2>3, <2>4, Dropped
<1>6. CASE c \notin linked
  <2>1. crashed' = TRUE /\ UNCHANGED <<linked, handler, object, syncing>>
    BY <1>6 DEF SyncEnds
  <2>2. \/ \E d \in Child : object[d] # "unused" /\ ~Own(d)
        \/ \A d \in Child : object[d] = "live" /\ told[d] # <<"stopped">>
             => proc'[d] = proc[d] /\ status'[d] = status[d]
    BY <1>1, <1>2, <1>3, <1>4, <1>6 DEF EndIsNoted
  <2> QED BY <1>1, <1>3, <1>4, <2>1, <2>2, NobodyIsTold
<1> QED BY <1>5, <1>6

\* kill() and the finalizer.
LEMMA ObjectSteps ==
  ASSUME IInv, NEW c \in Child, Kill(c) \/ Finalize(c)
  PROVE  IInv'
<1> USE DEF IInv
<1>1. CASE Kill(c)
  <2>1. /\ UNCHANGED <<proc, ended, seen, pending, object, linked, status>>
        /\ UNCHANGED <<told, handler, syncing, crashed>> /\ killed' = killed \union {c}
    BY <1>1 DEF Kill, system
  <2>2. TypeOK'
    BY <2>1 DEF TypeOK, Own
  <2> QED BY <2>1, <2>2 DEF HandlerWhileListed, Told, EndIsNoted, Own
<1>2. CASE Finalize(c)
  <2>1. /\ UNCHANGED <<proc, ended, seen, pending, status, killed, told, handler, syncing, crashed>>
        /\ syncing = {} /\ object[c] = "live" /\ linked' = linked \ {c}
        /\ object' = [object EXCEPT ![c] = "freed"]
    BY <1>2 DEF Finalize, system, Idle
  <2>2. linked' # {} => handler'
    BY <2>1 DEF HandlerWhileListed
  <2> QED BY <2>1, <2>2, Dropped DEF TypeOK
<1> QED BY <1>1, <1>2

\* Every step keeps the invariant.
LEMMA StepIInv == IInv /\ [Next]_vars => IInv'
<1> SUFFICES ASSUME IInv, [Next]_vars PROVE IInv'
  OBVIOUS
<1>1. CASE UNCHANGED vars
  <2>1. /\ UNCHANGED <<proc, ended, seen, object, linked, status, killed, told>>
        /\ UNCHANGED <<handler, pending, syncing, crashed>>
    BY <1>1 DEF vars
  <2> QED BY <2>1, NobodyIsTold DEF IInv, TypeOK
<1>2. ASSUME NEW c \in Child,
             \/ \E how \in Ways : End(c, how)
             \/ Stop(c) \/ Continue(c)
             \/ \E sync \in BOOLEAN : Spawn(c, sync)
             \/ \E flags \in Flags : Wait(c, flags) \/ WaitInVain(c, flags)
             \/ WaitNone(c) \/ SyncReaps(c) \/ SyncEnds(c)
             \/ HandleSigchld \/ Kill(c) \/ Finalize(c)
      PROVE  IInv'
  <2>1. CASE (\E how \in Ways : End(c, how)) \/ Stop(c) \/ Continue(c)
    <3>1. "exited" \in Ways
      BY DEF Ways
    <3> QED BY <2>1, <3>1, SystemSteps
  <2>2. CASE \E sync \in BOOLEAN : Spawn(c, sync)
    BY <2>2, SpawnSteps
  <2>3. CASE \E flags \in Flags : Wait(c, flags) \/ WaitInVain(c, flags)
    BY <2>3, <1>1, WaitSteps DEF WaitInVain
  <2>4. CASE WaitNone(c) \/ SyncReaps(c) \/ SyncEnds(c)
    BY <2>4, PidlessSteps, SyncEndSteps
  <2>5. CASE HandleSigchld \/ Kill(c) \/ Finalize(c)
    BY <2>5, HandlerSteps, ObjectSteps
  <2> QED BY <1>2, <2>1, <2>2, <2>3, <2>4, <2>5
<1> QED BY <1>1, <1>2 DEF Next

\* The inductive invariant, from which the theorems below follow.
THEOREM IInvHolds == Spec => []IInv
BY InitIInv, StepIInv, PTL DEF Spec

\* The types, and no link into freed memory (child_process_free_rt).
THEOREM TypeCorrect == Spec => []TypeOK
<1>1. IInv => TypeOK
  BY DEF IInv
<1> QED BY <1>1, IInvHolds, PTL

\* onExit is called at most once and with the end of its own process
\* (child_process_sigchld, js_child_process_wait).
THEOREM EndsAreToldTruly == Spec => []ToldTruth
<1>1. IInv => ToldTruth
  <2> SUFFICES ASSUME IInv, NEW c \in Child
               PROVE  /\ Len(told[c]) <= 1
                      /\ \A s \in Ways : told[c] = <<s>> => ended[c] = s /\ proc[c] = "reaped"
    BY DEF ToldTruth
  <2>1. \/ told[c] = <<>> \/ told[c] = <<"stopped">>
        \/ proc[c] = "reaped" /\ told[c] = <<ended[c]>> /\ ended[c] \in Ways
    BY DEF IInv, Told
  <2>2. Ways \subseteq Statuses /\ "stopped" \in Statuses /\ "stopped" \notin Ways
    BY DEF Statuses, Ways
  <2>3. Len(<<>>) = 0
    OBVIOUS
  <2>4. Len(told[c]) <= 1
    <3>1. told[c] = <<>> \/ \E t \in Statuses : told[c] = <<t>>
      BY <2>1, <2>2
    <3>2. Len(told[c]) = 0 \/ Len(told[c]) = 1
      BY <2>3, <3>1, FirstCall
    <3> DEFINE n == Len(told[c])
    <3>3. n = 0 \/ n = 1
      BY <3>2
    <3> HIDE DEF n
    <3>4. n <= 1
      BY <3>3
    <3> QED BY <3>4 DEF n
  <2>5. ASSUME NEW s \in Ways, told[c] = <<s>> PROVE ended[c] = s /\ proc[c] = "reaped"
    <3>1. told[c] # <<>> /\ told[c] # <<"stopped">>
      <4>1. s \in Statuses /\ s # "stopped"
        BY <2>2, <2>5
      <4>2. <<s>> # <<>> /\ (<<s>> = <<"stopped">> => s = "stopped")
        BY <4>1, <2>2, FirstCall
      <4> QED BY <4>1, <4>2, <2>5
    <3>2. proc[c] = "reaped" /\ <<ended[c]>> = <<s>> /\ ended[c] \in Statuses /\ s \in Statuses
      BY <2>1, <2>2, <2>5, <3>1
    <3> QED BY <3>2, FirstCall
  <2> QED BY <2>4, <2>5
<1> QED BY <1>1, IInvHolds, PTL

\* SIGCHLD has its handler while an object is in the list
\* (child_process_new, child_process_remove).
THEOREM HandlerStays == Spec => []HandlerWhileListed
<1>1. IInv => HandlerWhileListed
  BY DEF IInv
<1> QED BY <1>1, IInvHolds, PTL

\* List, status and callbacks agree with the system, whoever reaps a child.
THEOREM EndsAreNoted == Spec => []EndIsNoted
<1>1. IInv => EndIsNoted
  BY DEF IInv
<1> QED BY <1>1, IInvHolds, PTL
=============================================================================
