--------------------------- MODULE ReadableStream ---------------------------
(***************************************************************************)
(* ReadableStream with its default controller and default reader (the      *)
(* classes embedded in src/quickjs-stream.c): the user's source enqueues   *)
(* chunks, readers take them or wait, and the controller calls pull() of   *)
(* the source, one call at a time, while there is room in the queue.       *)
(*                                                                         *)
(* As in WritableStream a method is a function from fields to fields, and  *)
(* while pull() runs the user's code in it may call any method.  Chunks    *)
(* and calls of read() are numbered in the order they come.                *)
(***************************************************************************)
EXTENDS Integers, Sequences, PrefixSums

CONSTANTS
  HighWaterMark,   \* strategy.highWaterMark
  Sizes,           \* what strategy.size() may return
  MaxChunks,       \* bound: chunks enqueued
  MaxReads,        \* bound: calls of read() on a readable stream
  MaxReaders       \* bound: readers acquired

ASSUME ConstantsAssumption ==
  /\ HighWaterMark \in Nat /\ Sizes \subseteq Nat
  /\ MaxChunks \in Nat /\ MaxReads \in Nat /\ MaxReaders \in Nat

VARIABLES
  stream,    \* the fields of the stream and its controller, and the reader's
             \* _readRequests
  enqueued,  \* chunks enqueued so far
  reads,     \* calls of read() so far
  answer,    \* answer[k]: the promise the k-th read() returned, and its chunk
  readers,   \* readers acquired so far
  closed,    \* closed[r]: the promise reader.closed
  pull,      \* the source's pull(): running, or how its promise stands
  start      \* the promise of source.start()

vars == <<stream, enqueued, reads, answer, readers, closed, pull, start>>

Chunks == 1..MaxChunks
Reads == 1..MaxReads
Readers == 1..MaxReaders

Promise == {"none", "pending", "resolved", "rejected"}

\* What read() answers: a chunk, done, or a rejection.
Answers == [st : {"none", "pending", "done", "rejected"}, chunk : {0}]
             \union [st : {"value"}, chunk : Chunks]
Says(st) == [st |-> st, chunk |-> 0]
Value(c) == [st |-> "value", chunk |-> c]

\* makeDeferred: only the first call of resolve or reject counts.
Settle(p, how) == IF p = "pending" THEN how ELSE p

-----------------------------------------------------------------------------
(***************************************************************************)
(* The methods.  "w" holds what they change.                               *)
(***************************************************************************)
World == [stream |-> stream, answer |-> answer, closed |-> closed, pull |-> pull]

Becomes(w) ==
  /\ stream' = w.stream /\ answer' = w.answer /\ closed' = w.closed /\ pull' = w.pull

\* Every waiting read() is answered alike.
AnswerAll(w, st) ==
  [w EXCEPT !.stream.requests = <<>>,
            !.answer = [k \in Reads |->
               IF \E j \in 1..Len(w.stream.requests) : w.stream.requests[j] = k
               THEN Says(st) ELSE w.answer[k]]]

\* The end of the stream, as its reader and the waiting reads see it.
End(w, state, st, how) ==
  LET r == w.stream.reader IN
  IF r = 0 THEN [w EXCEPT !.stream.state = state]
  ELSE [AnswerAll(w, st) EXCEPT !.stream.state = state, !.closed[r] = Settle(@, how)]

Emptied(w) == [w EXCEPT !.stream.queue = <<>>, !.stream.queueTotalSize = 0]

\* _finishClose
FinishClose(w) == End(w, "closed", "done", "resolved")

\* controller.error()
Error(w) ==
  IF w.stream.state # "readable" THEN w
  ELSE End(Emptied(w), "errored", "rejected", "rejected")

\* _shouldPull: the reads that wait are not asked for.
ShouldPull(w) ==
  /\ w.stream.state = "readable" /\ ~w.stream.closeRequested
  /\ HighWaterMark - w.stream.queueTotalSize > 0

\* Mutant of CallPullIfNeeded: does not wait for the pull() that runs.
CallPullTwice(w) ==
  IF ~ShouldPull(w) THEN w ELSE [w EXCEPT !.stream.pulling = TRUE, !.pull = "running"]

\* _callPullIfNeeded, up to the call of the source's pull().
CallPullIfNeeded(w) ==
  IF ~ShouldPull(w) THEN w
  ELSE IF w.stream.pulling THEN [w EXCEPT !.stream.pullAgain = TRUE]
  ELSE [w EXCEPT !.stream.pulling = TRUE, !.pull = "running"]

CanCloseOrEnqueue == ~stream.closeRequested /\ stream.state = "readable"
-----------------------------------------------------------------------------
Init ==
  /\ stream = [state |-> "readable", reader |-> 0, requests |-> <<>>,
               queue |-> <<>>, queueTotalSize |-> 0, closeRequested |-> FALSE,
               pulling |-> FALSE, pullAgain |-> FALSE]
  /\ enqueued = 0 /\ reads = 0 /\ readers = 0
  /\ answer = [k \in Reads |-> Says("none")]
  /\ closed = [r \in Readers |-> "none"]
  /\ pull = "none"
  /\ start = "pending"

\* Mutant of GetReader: makes the closed promise of an open stream only.
GetReaderOfOpen ==
  LET r == readers + 1 IN
  /\ stream.reader = 0 /\ r \in Readers
  /\ readers' = r
  /\ stream' = [stream EXCEPT !.reader = r]
  /\ closed' = [closed EXCEPT ![r] = IF stream.state = "readable" THEN "pending" ELSE @]
  /\ UNCHANGED <<enqueued, reads, answer, pull, start>>

\* getReader()
GetReader ==
  LET r == readers + 1 IN
  /\ stream.reader = 0 /\ r \in Readers
  /\ readers' = r
  /\ stream' = [stream EXCEPT !.reader = r]
  /\ closed' = [closed EXCEPT ![r] = CASE stream.state = "closed" -> "resolved"
                                       [] stream.state = "errored" -> "rejected"
                                       [] OTHER -> "pending"]
  /\ UNCHANGED <<enqueued, reads, answer, pull, start>>

\* Mutant of ReleaseLock: leaves the waiting reads alone.
ReleaseLockForgets ==
  /\ stream.reader # 0
  /\ Becomes([World EXCEPT !.stream.requests = <<>>, !.stream.reader = 0])
  /\ UNCHANGED <<enqueued, reads, readers, start>>

\* reader.releaseLock(): the waiting reads are rejected, closed is left alone.
ReleaseLock ==
  /\ stream.reader # 0
  /\ Becomes([AnswerAll(World, "rejected") EXCEPT !.stream.reader = 0])
  /\ UNCHANGED <<enqueued, reads, readers, start>>

\* reader.read() of a queued chunk ...
TakeChunk(w, k) ==
  LET e == Head(w.stream.queue)
      v == [w EXCEPT !.stream.queue = Tail(@), !.stream.queueTotalSize = @ - e.size,
                     !.answer[k] = Value(e.value)]
  IN  IF v.stream.closeRequested /\ v.stream.queue = <<>>
      THEN FinishClose(v) ELSE CallPullIfNeeded(v)

\* ... and of none.
Wait(w, k) ==
  CallPullIfNeeded([w EXCEPT !.stream.requests = Append(@, k),
                             !.answer[k] = Says("pending")])

Read ==
  /\ stream.reader # 0 /\ stream.state = "readable"
  /\ reads < MaxReads
  /\ reads' = reads + 1
  /\ Becomes(IF stream.queue # <<>> THEN TakeChunk(World, reads + 1)
             ELSE Wait(World, reads + 1))
  /\ UNCHANGED <<enqueued, readers, start>>

\* read() after the end answers at once.
ReadEnded ==
  /\ stream.reader # 0 /\ stream.state # "readable"
  /\ UNCHANGED vars

\* readableStreamCancel, from the reader or, when there is none, the stream.
\* source.cancel(), called last, has no hold on the stream.
Cancel ==
  /\ stream.state = "readable"
  /\ Becomes(End(Emptied(World), "closed", "done", "resolved"))
  /\ UNCHANGED <<enqueued, reads, readers, start>>

\* Mutant of Hand: answers the read that came last.
HandNewest(w, c) ==
  LET rs == w.stream.requests IN
  [w EXCEPT !.stream.requests = SubSeq(rs, 1, Len(rs) - 1), !.answer[rs[Len(rs)]] = Value(c)]

\* controller.enqueue(): to the read that waits longest, or into the queue.
Hand(w, c) ==
  [w EXCEPT !.stream.requests = Tail(@), !.answer[Head(w.stream.requests)] = Value(c)]

Keep(w, c, n) ==
  [w EXCEPT !.stream.queue = Append(@, [value |-> c, size |-> n]),
            !.stream.queueTotalSize = @ + n]

Enqueue(n) ==
  /\ CanCloseOrEnqueue /\ enqueued < MaxChunks
  /\ enqueued' = enqueued + 1
  /\ Becomes(CallPullIfNeeded(
       IF stream.requests # <<>> THEN Hand(World, enqueued + 1)
       ELSE Keep(World, enqueued + 1, n)))
  /\ UNCHANGED <<reads, readers, start>>

\* controller.error(), which enqueue() calls too when strategy.size() throws.
ErrorSource ==
  /\ Becomes(Error(World))
  /\ UNCHANGED <<enqueued, reads, readers, start>>

\* Mutant of CloseSource: closes without waiting for the queue to be read.
CloseAtOnce ==
  /\ CanCloseOrEnqueue
  /\ Becomes(FinishClose([World EXCEPT !.stream.closeRequested = TRUE]))
  /\ UNCHANGED <<enqueued, reads, readers, start>>

\* controller.close()
CloseSource ==
  /\ CanCloseOrEnqueue
  /\ LET w == [World EXCEPT !.stream.closeRequested = TRUE] IN
     Becomes(IF w.stream.queue = <<>> THEN FinishClose(w) ELSE w)
  /\ UNCHANGED <<enqueued, reads, readers, start>>

\* enqueue() and close() throw when it is too late.
Refuse == ~CanCloseOrEnqueue /\ UNCHANGED vars

\* Promise jobs wait for pull(), and what it calls, to return.
NoneRuns == pull # "running"

\* source.start() is fulfilled or rejected.
Started ==
  /\ start = "pending" /\ NoneRuns
  /\ \/ start' = "resolved" /\ Becomes(CallPullIfNeeded(World))
     \/ start' = "rejected" /\ Becomes(Error(World))
  /\ UNCHANGED <<enqueued, reads, readers>>

\* source.pull() returns a promise, which the user settles.
PullReturns ==
  /\ pull = "running" /\ pull' = "pending"
  /\ UNCHANGED <<stream, enqueued, reads, answer, readers, closed, start>>

PullSettles(how) ==
  /\ pull = "pending" /\ pull' = how
  /\ UNCHANGED <<stream, enqueued, reads, answer, readers, closed, start>>

Pulled == [World EXCEPT !.stream.pulling = FALSE, !.pull = "none"]

\* Mutant of PullDone: forgets that pull() was asked for meanwhile.
PullDoneOnce ==
  /\ pull = "resolved" /\ Becomes(Pulled)
  /\ UNCHANGED <<enqueued, reads, readers, start>>

\* The handlers on that promise: pull() is done ...
PullDone ==
  /\ pull = "resolved"
  /\ Becomes(IF stream.pullAgain
             THEN CallPullIfNeeded([Pulled EXCEPT !.stream.pullAgain = FALSE])
             ELSE Pulled)
  /\ UNCHANGED <<enqueued, reads, readers, start>>

\* ... or failed; the catch clause of the call does the same when it throws.
PullFails ==
  /\ Becomes(Error(Pulled))
  /\ UNCHANGED <<enqueued, reads, readers, start>>

PullFailed == pull = "rejected" /\ PullFails
PullThrows == pull = "running" /\ PullFails

Job == PullDone \/ PullFailed

Next ==
  \/ GetReader \/ ReleaseLock \/ Read \/ ReadEnded \/ Cancel
  \/ \E n \in Sizes : Enqueue(n)
  \/ ErrorSource \/ CloseSource \/ Refuse \/ Started
  \/ PullReturns \/ PullThrows
  \/ \E how \in {"resolved", "rejected"} : PullSettles(how)
  \/ Job

Spec == Init /\ [][Next]_vars

\* The event loop runs the promise jobs; of the source nothing is assumed.
FairSpec == Spec /\ WF_vars(Job)

-----------------------------------------------------------------------------
Item == [value : Chunks, size : Nat]
StreamType ==
  [state : {"readable", "closed", "errored"}, reader : 0..MaxReaders, requests : Seq(Reads),
   queue : Seq(Item), queueTotalSize : Nat, closeRequested : BOOLEAN,
   pulling : BOOLEAN, pullAgain : BOOLEAN]
PullType == Promise \union {"running"}

\* The fields and promises keep their types; a promise exists for exactly the
\* reads made and the readers acquired.
TypeOK ==
  /\ stream \in StreamType /\ stream.reader <= readers
  /\ enqueued \in 0..MaxChunks /\ reads \in 0..MaxReads /\ readers \in 0..MaxReaders
  /\ answer \in [Reads -> Answers]
  /\ \A k \in Reads : answer[k].st = "none" <=> k > reads
  /\ closed \in [Readers -> Promise]
  /\ \A r \in Readers : closed[r] = "none" <=> r > readers
  /\ pull \in PullType /\ start \in Promise

\* The chunks the first k reads were given.
Given(k) == {answer[j].chunk : j \in {i \in 1..k : answer[i].st = "value"}}

\* enqueue() and read(), by any readers in turn and with pull() between them,
\* lose no chunk, hand out none twice and keep the order: read() calls are
\* given increasing chunks, and what was not given is in the queue.
ChunksInOrder ==
  /\ \A j, k \in 1..reads :
       j < k /\ answer[j].st = "value" /\ answer[k].st = "value" =>
         answer[j].chunk < answer[k].chunk
  /\ stream.state = "readable" =>
       LET n == Len(stream.queue) IN
       /\ Given(reads) = 1..(enqueued - n)
       /\ \A j \in 1..n : stream.queue[j].value = enqueued - n + j
       /\ stream.queueTotalSize = TotalSize(stream.queue)

\* A read waits only on an open stream with nothing to give, and in the list of
\* the reader that has the lock: close(), error(), cancel() and releaseLock()
\* answer all that wait.  That reader's closed tells how the stream ended.
ReadersHear ==
  /\ \A k \in Reads :
       answer[k].st = "pending" <=> \E j \in 1..Len(stream.requests) : stream.requests[j] = k
  /\ stream.requests # <<>> =>
       stream.state = "readable" /\ stream.queue = <<>> /\ stream.reader # 0
  /\ stream.reader # 0 =>
       closed[stream.reader] = CASE stream.state = "readable" -> "pending"
                                 [] stream.state = "closed" -> "resolved"
                                 [] OTHER -> "rejected"

\* close() lets the readers have what is queued: a stream that is not cancelled
\* ends closed when every chunk was given to a read.
ClosedWhenDrained ==
  [][stream.state = "readable" /\ stream'.state = "closed" =>
       Cancel \/ Given(reads)' = 1..enqueued']_vars

\* pull() is called for an open stream with room in its queue, and never while
\* an earlier call runs or its promise is pending.
OnePull ==
  [][pull' = "running" /\ pull # "running" =>
       /\ pull \in {"none", "resolved"}
       /\ CanCloseOrEnqueue'
       /\ stream'.queueTotalSize < HighWaterMark]_vars

\* Nothing more can come.
Over == stream.state # "readable" \/ enqueued = MaxChunks
=============================================================================
