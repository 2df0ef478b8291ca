--------------------------- MODULE WritableStream ---------------------------
(***************************************************************************)
(* WritableStream, its writer and its controller (the classes embedded in  *)
(* src/quickjs-stream.c): writes and the close are queued and handed to    *)
(* the sink of the user one at a time.  The methods run to completion; in  *)
(* between, the sink settles the promise it returned and the handlers that *)
(* hang on it run as promise jobs.  While the sink's write() or close()    *)
(* runs, the user's code in it may call any method of the stream.          *)
(*                                                                         *)
(* A method that calls another of the same stream is a function from the   *)
(* object's fields to its fields, so that each handler is one step.  The   *)
(* accepted writes and the close are numbered in the order they came.      *)
(***************************************************************************)
EXTENDS Integers, Sequences, PrefixSums

CONSTANTS
  HighWaterMark,   \* strategy.highWaterMark
  Sizes,           \* what strategy.size() may return
  MaxEntries,      \* bound: accepted writes and close
  MaxWriters       \* bound: writers acquired

ASSUME ConstantsAssumption ==
  /\ HighWaterMark \in Nat /\ Sizes \subseteq Nat
  /\ MaxEntries \in Nat /\ MaxWriters \in Nat

VARIABLES
  stream,    \* the fields of the WritableStream, without their underscore
  made,      \* writes and closes accepted so far
  result,    \* result[i]: the promise returned for entry i
  writers,   \* writers acquired so far
  closed,    \* closed[w]: the promise writer.closed
  ready,     \* ready[w]: the promise writer.ready, replaced under backpressure
  sink,      \* the sink: the entry it works on, how its promise stands, and
             \* the entries it was given and fulfilled so far
  start      \* the promise of sink.start()

vars == <<stream, made, result, writers, closed, ready, sink, start>>

Entries == 1..MaxEntries
Writers == 1..MaxWriters

Chunk(i, n) == [id |-> i, type |-> "chunk", size |-> n]
Close(i) == [id |-> i, type |-> "close", size |-> 0]
Entry == [id : Entries, type : {"chunk", "close"}, size : Nat]

Promise == {"none", "pending", "resolved", "rejected"}

\* makeDeferred: only the first call of resolve or reject counts.
Settle(p, how) == IF p = "pending" THEN how ELSE p

Queued(queue) == {queue[j] : j \in 1..Len(queue)}

-----------------------------------------------------------------------------
(***************************************************************************)
(* The methods.  "w" holds what they change: the stream and the promises.  *)
(***************************************************************************)
World == [stream |-> stream, result |-> result, closed |-> closed, ready |-> ready]

Becomes(w) ==
  /\ stream' = w.stream /\ result' = w.result
  /\ closed' = w.closed /\ ready' = w.ready

OfWriter(promises, w, how) ==
  IF w.stream.writer = 0 THEN promises
  ELSE [promises EXCEPT ![w.stream.writer] = Settle(@, how)]

\* Mutant of CheckBackpressure: the full queue counts as room left.
CheckBackpressureLate(w) ==
  LET bp == HighWaterMark - w.stream.queueTotalSize < 0 IN
  IF bp = w.stream.backpressure THEN w
  ELSE [w EXCEPT !.stream.backpressure = bp,
                 !.ready = IF w.stream.writer = 0 THEN @
                           ELSE IF bp THEN [@ EXCEPT ![w.stream.writer] = "pending"]
                           ELSE OfWriter(@, w, "resolved")]

\* _checkBackpressure: a new ready promise when the queue fills up, resolved
\* when it has room again.
CheckBackpressure(w) ==
  LET bp == HighWaterMark - w.stream.queueTotalSize <= 0 IN
  IF bp = w.stream.backpressure THEN w
  ELSE [w EXCEPT !.stream.backpressure = bp,
                 !.ready = IF w.stream.writer = 0 THEN @
                           ELSE IF bp THEN [@ EXCEPT ![w.stream.writer] = "pending"]
                           ELSE OfWriter(@, w, "resolved")]

\* Mutant of Error: leaves the entries in the queue unanswered.
ErrorForgets(w) ==
  IF w.stream.state # "writable" THEN w
  ELSE [w EXCEPT !.stream.state = "errored",
                 !.stream.queue = <<>>, !.stream.queueTotalSize = 0,
                 !.closed = OfWriter(@, w, "rejected"),
                 !.ready = OfWriter(@, w, "rejected")]

\* _error: rejects everything that is queued, the entry at the sink included.
Error(w) ==
  LET gone == {e.id : e \in Queued(w.stream.queue)} IN
  IF w.stream.state # "writable" THEN w
  ELSE [w EXCEPT !.stream.state = "errored",
                 !.stream.queue = <<>>, !.stream.queueTotalSize = 0,
                 !.result = [i \in Entries |->
                               IF i \in gone THEN Settle(@[i], "rejected") ELSE @[i]],
                 !.closed = OfWriter(@, w, "rejected"),
                 !.ready = OfWriter(@, w, "rejected")]

Shift(queue) == IF queue = <<>> THEN <<>> ELSE Tail(queue)

\* Mutant of Done: the size of the entry stays counted.
DoneKeepsSize(w, e, how) ==
  [w EXCEPT !.stream.writing = FALSE,
            !.stream.queue = Shift(@),
            !.result[e.id] = Settle(@, how)]

\* How a handler begins: the entry the sink is done with leaves the queue,
\* which _error() may have emptied meanwhile.
Done(w, e, how) ==
  [w EXCEPT !.stream.writing = FALSE,
            !.stream.queue = Shift(@),
            !.stream.queueTotalSize = @ - e.size,
            !.result[e.id] = Settle(@, how)]

\* Mutant of Advances: does not look at _writing first.
AdvancesBusy(w) == w.stream.queue # <<>> /\ w.stream.state = "writable"

\* _advanceQueue: whether the sink is called for the head of the queue.
Advances(w) ==
  ~w.stream.writing /\ w.stream.queue # <<>> /\ w.stream.state = "writable"

\* The step of a method that leaves w and the sink s and ends with _advanceQueue.
AdvanceQueue(w, s) ==
  IF ~Advances(w) THEN Becomes(w) /\ sink' = s
  ELSE /\ Becomes([w EXCEPT !.stream.writing = TRUE])
       /\ sink' = LET e == Head(w.stream.queue) IN
                  [s EXCEPT !.call = "running", !.entry = e, !.given = Append(@, e.id)]
-----------------------------------------------------------------------------
Init ==
  /\ stream = [state |-> "writable", queue |-> <<>>, queueTotalSize |-> 0,
               writing |-> FALSE, closeRequested |-> FALSE, backpressure |-> FALSE,
               writer |-> 0]
  /\ made = 0 /\ writers = 0
  /\ result = [i \in Entries |-> "none"]
  /\ closed = [w \in Writers |-> "none"]
  /\ ready = [w \in Writers |-> "none"]
  /\ sink = [call |-> "none", entry |-> Close(0), given |-> <<>>, fulfilled |-> {}]
  /\ start = "pending"

\* Mutant of GetWriter: makes the ready promise only under backpressure.
GetWriterLazily ==
  LET w == writers + 1 IN
  /\ stream.writer = 0 /\ w \in Writers
  /\ writers' = w
  /\ stream' = [stream EXCEPT !.writer = w]
  /\ closed' = [closed EXCEPT ![w] = "pending"]
  /\ ready' = [ready EXCEPT ![w] = IF stream.backpressure THEN "pending" ELSE @]
  /\ UNCHANGED <<made, result, sink, start>>

\* getWriter()
GetWriter ==
  LET w == writers + 1 IN
  /\ stream.writer = 0 /\ w \in Writers
  /\ writers' = w
  /\ stream' = [stream EXCEPT !.writer = w]
  /\ closed' = [closed EXCEPT ![w] = CASE stream.state = "errored" -> "rejected"
                                       [] stream.state = "closed" -> "resolved"
                                       [] OTHER -> "pending"]
  /\ ready' = [ready EXCEPT ![w] = IF stream.backpressure THEN "pending" ELSE "resolved"]
  /\ UNCHANGED <<made, result, sink, start>>

\* writer.releaseLock(): its promises are left as they are.
ReleaseLock ==
  /\ stream.writer # 0
  /\ stream' = [stream EXCEPT !.writer = 0]
  /\ UNCHANGED <<made, result, writers, closed, ready, sink, start>>

\* Mutant of Refused: does not look at the state.
RefusedWhenClosing == stream.closeRequested

\* The checks write() and close() begin with.
Refused == stream.state # "writable" \/ stream.closeRequested

Add(w, e) ==
  [w EXCEPT !.stream.queue = Append(@, e),
            !.stream.queueTotalSize = @ + e.size,
            !.stream.closeRequested = @ \/ e.type = "close",
            !.result = [@ EXCEPT ![e.id] = "pending"]]

\* writableStreamWrite
Write(n) ==
  /\ stream.writer # 0 /\ ~Refused
  /\ made < MaxEntries
  /\ made' = made + 1
  /\ AdvanceQueue(CheckBackpressure(Add(World, Chunk(made + 1, n))), sink)
  /\ UNCHANGED <<writers, start>>

\* ... and when strategy.size() throws.
WriteThrows ==
  /\ stream.writer # 0 /\ ~Refused
  /\ Becomes(Error(World))
  /\ UNCHANGED <<made, writers, sink, start>>

\* writableStreamClose, from the writer or, when there is none, the stream.
CloseStream ==
  /\ ~Refused
  /\ made < MaxEntries
  /\ made' = made + 1
  /\ AdvanceQueue(Add(World, Close(made + 1)), sink)
  /\ UNCHANGED <<writers, start>>

\* write() and close() are turned down once the stream is closing or settled.
Refuse == Refused /\ UNCHANGED vars

\* writableStreamAbort, and WritableStreamDefaultController.error(): both are
\* _error(); abort() then calls sink.abort(), which has no hold on the stream.
Abort ==
  /\ Becomes(Error(World))
  /\ UNCHANGED <<made, writers, sink, start>>

\* Promise jobs wait for the sink's method, and what it calls, to return.
NoneRuns == sink.call # "running"

\* sink.start() is fulfilled or rejected.
Started ==
  /\ start = "pending" /\ NoneRuns
  /\ \/ start' = "resolved" /\ AdvanceQueue(World, sink)
     \/ start' = "rejected" /\ Becomes(Error(World)) /\ UNCHANGED sink
  /\ UNCHANGED <<made, writers>>

\* sink.write() or sink.close() returns a promise, which the user settles.
SinkReturns ==
  /\ sink.call = "running"
  /\ sink' = [sink EXCEPT !.call = "pending"]
  /\ UNCHANGED <<stream, made, result, writers, closed, ready, start>>

SinkSettles(how) ==
  /\ sink.call = "pending"
  /\ sink' = [sink EXCEPT !.call = how,
                          !.fulfilled = IF how = "resolved" THEN @ \union {sink.entry.id} ELSE @]
  /\ UNCHANGED <<stream, made, result, writers, closed, ready, start>>

Idle == [sink EXCEPT !.call = "none", !.entry = Close(0)]

\* Mutant of WriteDone: does not go on with the next entry.
WriteDoneStops ==
  /\ sink.call = "resolved" /\ sink.entry.type = "chunk"
  /\ Becomes(CheckBackpressure(Done(World, sink.entry, "resolved")))
  /\ sink' = Idle
  /\ UNCHANGED <<made, writers, start>>

\* The handlers on that promise: a chunk was written ...
WriteDone ==
  /\ sink.call = "resolved" /\ sink.entry.type = "chunk"
  /\ AdvanceQueue(CheckBackpressure(Done(World, sink.entry, "resolved")), Idle)
  /\ UNCHANGED <<made, writers, start>>

\* ... the sink was closed ...
CloseDone ==
  /\ sink.call = "resolved" /\ sink.entry.type = "close"
  /\ LET w == Done(World, sink.entry, "resolved") IN
     Becomes([w EXCEPT !.stream.state = "closed", !.closed = OfWriter(@, w, "resolved")])
  /\ sink' = Idle
  /\ UNCHANGED <<made, writers, start>>

\* ... or it failed.  The catch clause of the call does the same when it throws.
SinkFails ==
  /\ Becomes(Error(Done(World, sink.entry, "rejected")))
  /\ sink' = Idle
  /\ UNCHANGED <<made, writers, start>>

SinkFailed == sink.call = "rejected" /\ SinkFails
SinkThrows == sink.call = "running" /\ SinkFails

Job == WriteDone \/ CloseDone \/ SinkFailed

Next ==
  \/ GetWriter \/ ReleaseLock
  \/ \E n \in Sizes : Write(n)
  \/ WriteThrows \/ CloseStream \/ Refuse \/ Abort \/ Started
  \/ SinkReturns \/ SinkThrows
  \/ \E how \in {"resolved", "rejected"} : SinkSettles(how)
  \/ Job

Spec == Init /\ [][Next]_vars

\* The event loop runs the promise jobs; of the sink nothing is assumed.
FairSpec == Spec /\ WF_vars(Job)

-----------------------------------------------------------------------------
StreamType ==
  [state : {"writable", "errored", "closed"}, queue : Seq(Entry), queueTotalSize : Int,
   writing : BOOLEAN, closeRequested : BOOLEAN, backpressure : BOOLEAN, writer : 0..MaxWriters]
SinkType ==
  [call : Promise \union {"running"}, entry : Entry \union {Close(0)}, given : Seq(Entries),
   fulfilled : SUBSET Entries]

\* The fields and promises keep their types; a promise exists for exactly the
\* entries accepted and the writers acquired.
TypeOK ==
  /\ stream \in StreamType /\ stream.writer <= writers
  /\ made \in 0..MaxEntries /\ writers \in 0..MaxWriters
  /\ result \in [Entries -> Promise]
  /\ closed \in [Writers -> Promise] /\ ready \in [Writers -> Promise]
  /\ \A i \in Entries : result[i] = "none" <=> i > made
  /\ \A w \in Writers : /\ closed[w] = "none" <=> w > writers
                        /\ ready[w] = "none" <=> w > writers
  /\ sink \in SinkType /\ (sink.call # "none" => sink.entry \in Entry)
  /\ start \in Promise

\* _advanceQueue gives the sink the entries one at a time, each once and in the
\* order write() and close() accepted them, whichever handler or method calls
\* it; while the stream is writable nothing waits that the sink is not busy
\* with an earlier entry, and nothing follows a close.
HandedInOrder ==
  /\ sink.given = [k \in 1..Len(sink.given) |-> k]
  /\ stream.writing <=> sink.call # "none"
  /\ stream.writing => sink.entry.id = Len(sink.given)
  /\ stream.state = "writable" =>
       /\ stream.queue # <<>> <=> stream.writing
       /\ stream.writing => Head(stream.queue) = sink.entry
       /\ \A j \in 1..Len(stream.queue) :
            /\ stream.queue[j].id = made - Len(stream.queue) + j
            /\ stream.queue[j].type = "close" <=>
                 stream.closeRequested /\ j = Len(stream.queue)

\* What the callers hear is true: a promise of write() or close() is fulfilled
\* only when the sink fulfilled that entry and all before it; once the stream
\* is closed or errored no caller is left waiting; a closed stream has
\* delivered everything it accepted, also when error() or abort() came while
\* the sink was closing.
Truthful ==
  /\ \A i \in Entries : result[i] = "resolved" => 1..i \subseteq sink.fulfilled
  /\ stream.state # "writable" => \A i \in Entries : result[i] # "pending"
  /\ stream.state = "closed" => sink.fulfilled = 1..made

\* While the stream is writable queueTotalSize is what the queue holds, and the
\* writer that has the lock, even one acquired between two writes, waits on
\* ready exactly while the queue is full.
ReadyTellsRoom ==
  stream.state = "writable" =>
    /\ stream.queueTotalSize = TotalSize(stream.queue)
    /\ HighWaterMark > 0 =>
         (stream.backpressure <=> stream.queueTotalSize >= HighWaterMark)
    /\ stream.writer # 0 =>
         (ready[stream.writer] = "pending" <=> stream.backpressure)

\* After error(), abort() or a failure of the sink the stream calls the sink no
\* more and fulfils no promise of write() or close() late; only the answer to a
\* close that the sink was already working on still ends it.
ErrorIsFinal ==
  [][stream.state = "errored" =>
       /\ sink'.given = sink.given
       /\ result' = result
       /\ stream'.state = "closed" => sink.entry.type = "close"]_vars

SinkAnswers == []<>(sink.call \notin {"running", "pending"})

\* If the sink returns and settles every promise it returned, every write() and close()
\* is answered.
EntriesAnswered ==
  SinkAnswers => \A i \in Entries : result[i] = "pending" ~> result[i] # "pending"

\* ... and a writer that waits on ready is told, unless it gives up the lock or
\* the stream is over (there is room again as soon as no more is written, and
\* MaxEntries bounds what is written).
ReadyAgain ==
  SinkAnswers =>
    \A w \in Writers :
      ready[w] = "pending" ~>
        ready[w] # "pending" \/ stream.writer # w \/ stream.state # "writable"
=============================================================================
