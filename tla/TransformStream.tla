--------------------------- MODULE TransformStream ---------------------------
(***************************************************************************)
(* TransformStream (src/quickjs-stream.c): a WritableStream whose sink     *)
(* hands each chunk to the user's transformer, which has the controller of *)
(* a ReadableStream to enqueue what comes out.  The two streams are the    *)
(* modules of those names; what joins them is the sink made here.          *)
(*                                                                         *)
(* The transformer enqueues at most one chunk for each chunk and one when  *)
(* it is flushed.  The program keeps its writer and its reader.  The sink  *)
(* has no start() and the source no start() and no pull(), so their        *)
(* promises are always fulfilled.                                          *)
(***************************************************************************)
EXTENDS Integers, Sequences

CONSTANTS
  WritableMark, ReadableMark,  \* highWaterMark of the two strategies
  TransformEntries,            \* bound: writes accepted and the close
  MaxChunks, MaxReads          \* bounds: of the ReadableStream

ASSUME TransformAssumption ==
  {WritableMark, ReadableMark, TransformEntries, MaxChunks, MaxReads} \subseteq Nat

VARIABLES
  wStream, wMade, wResult, wWriters, wClosed, wReady, wSink, wStart,
  rStream, rEnqueued, rReads, rAnswer, rReaders, rClosed, rPull, rStart,
  user,    \* the promise that transform() or flush() returned
  from,    \* the entries that enqueued chunks come from, in their order
  cut,     \* the readable side was cancelled or terminated
  silent   \* the writable side failed in a way that the other is not told of

wVars == <<wStream, wMade, wResult, wWriters, wClosed, wReady, wSink, wStart>>
rVars == <<rStream, rEnqueued, rReads, rAnswer, rReaders, rClosed, rPull, rStart>>
transformVars == <<wVars, rVars, user, from, cut, silent>>

W == INSTANCE WritableStream WITH
       HighWaterMark <- WritableMark, Sizes <- {1},
       MaxEntries <- TransformEntries, MaxWriters <- 1,
       stream <- wStream, made <- wMade, result <- wResult, writers <- wWriters,
       closed <- wClosed, ready <- wReady, sink <- wSink, start <- wStart
R == INSTANCE ReadableStream WITH
       HighWaterMark <- ReadableMark, Sizes <- {1}, MaxReaders <- 1,
       stream <- rStream, enqueued <- rEnqueued, reads <- rReads, answer <- rAnswer,
       readers <- rReaders, closed <- rClosed, pull <- rPull, start <- rStart

SameW == UNCHANGED <<wStream, wMade, wResult, wWriters, wClosed, wReady, wSink, wStart>>
SameR == UNCHANGED <<rStream, rEnqueued, rReads, rAnswer, rReaders, rClosed, rPull, rStart>>
SameFlow == UNCHANGED <<user, from, cut, silent>>

-----------------------------------------------------------------------------
\* Without a pull() its call returns at once.
Quiet == rPull # "running"
NoPull ==
  \/ R!PullReturns /\ SameW /\ SameFlow
  \/ R!PullSettles("resolved") /\ SameW /\ SameFlow

\* The program at the two ends.
Writes ==
  /\ Quiet /\ SameR /\ UNCHANGED <<user, from, cut>>
  /\ \/ (W!GetWriter \/ W!Write(1) \/ W!CloseStream) /\ UNCHANGED silent
     \/ W!WriteThrows /\ silent' = TRUE
Reads ==
  /\ Quiet /\ SameW /\ UNCHANGED <<user, from, silent>>
  /\ \/ (R!GetReader \/ R!Read) /\ UNCHANGED cut
     \/ R!Cancel /\ cut' = TRUE

\* abort(reason) errors the writable side and calls the sink's abort().
AbortTransform ==
  /\ Quiet /\ wStream.state = "writable"
  /\ W!Abort /\ R!ErrorSource /\ SameFlow

\* The transformer has a chunk or is flushed.
Works == Quiet /\ (wSink.call = "running" \/ (wSink.call = "pending" /\ user = "pending"))
Flushes == wSink.entry.type = "close"

ControllerEnqueue ==
  /\ Works /\ \A k \in DOMAIN from : from[k] # wSink.entry.id
  /\ R!Enqueue(1) /\ from' = Append(from, wSink.entry.id)
  /\ SameW /\ UNCHANGED <<user, cut, silent>>
ControllerError == Works /\ R!ErrorSource /\ SameW /\ SameFlow
ControllerTerminate ==
  Works /\ R!CloseSource /\ cut' = TRUE /\ SameW /\ UNCHANGED <<user, from, silent>>

TransformReturns ==
  Quiet /\ W!SinkReturns /\ user' = "pending" /\ SameR /\ UNCHANGED <<from, cut, silent>>
UserSettles(how) ==
  Quiet /\ user = "pending" /\ user' = how /\ SameW /\ SameR /\ UNCHANGED <<from, cut, silent>>

\* When transform() throws; when flush() does nothing catches it here.
TransformThrows ==
  /\ Quiet /\ wSink.call = "running" /\ W!SinkThrows /\ UNCHANGED <<user, from, cut>>
  /\ IF Flushes THEN SameR /\ silent' = TRUE ELSE R!ErrorSource /\ UNCHANGED silent

Handles(how) ==
  /\ Quiet /\ wSink.call = "pending" /\ W!SinkSettles(how) /\ user' = "none"
  /\ UNCHANGED <<from, cut>>

\* The handlers on its promise.
Transformed == user = "resolved" /\ ~Flushes /\ Handles("resolved") /\ SameR /\ UNCHANGED silent

\* Mutant of TransformFails: the readable side is not told.
TransformFailsAlone == user = "rejected" /\ Handles("rejected") /\ SameR /\ UNCHANGED silent

TransformFails == user = "rejected" /\ Handles("rejected") /\ R!ErrorSource /\ UNCHANGED silent

\* close() of the readable side throws when it was closed before.
Flushed ==
  /\ user = "resolved" /\ Flushes
  /\ \/ R!CloseSource /\ Handles("resolved") /\ UNCHANGED silent
     \/ ~R!CanCloseOrEnqueue /\ Handles("rejected") /\ SameR /\ silent' = TRUE

\* Promise jobs of the two streams.
StreamJobs ==
  /\ Quiet /\ SameFlow
  /\ \/ W!Job /\ SameR
     \/ W!Started /\ wStart' = "resolved" /\ SameR
     \/ W!NoneRuns /\ R!PullDone /\ SameW
     \/ W!NoneRuns /\ R!Started /\ rStart' = "resolved" /\ SameW

-----------------------------------------------------------------------------
TransformInit == W!Init /\ R!Init /\ user = "none" /\ from = <<>> /\ cut = FALSE /\ silent = FALSE

TransformNext ==
  \/ NoPull \/ Writes \/ Reads \/ AbortTransform
  \/ ControllerEnqueue \/ ControllerError \/ ControllerTerminate
  \/ TransformReturns \/ TransformThrows \/ (\E how \in {"resolved", "rejected"} : UserSettles(how))
  \/ Transformed \/ TransformFails \/ Flushed \/ StreamJobs

TransformSpec == TransformInit /\ [][TransformNext]_transformVars

-----------------------------------------------------------------------------
TransformTypeOK ==
  /\ W!TypeOK /\ R!TypeOK /\ user \in {"none", "pending", "resolved", "rejected"}
  /\ Len(from) = rEnqueued /\ user # "none" => wSink.call = "pending"

\* The streams keep their promises when they are joined.
BothKeepOrder == W!HandedInOrder /\ W!Truthful /\ R!ChunksInOrder /\ R!ReadersHear

\* The two ends tell the same.  Each stream keeps its promises, and what comes out is
\* in the order of what went in.  close() is fulfilled only with the readable side
\* closing, and readers are told of the end only when all that was written was
\* transformed, unless the readable side itself was cut off.  When the writable side
\* fails, so does the readable side, but for the silent cases.
EndsAgree ==
  /\ TransformTypeOK /\ BothKeepOrder
  /\ \A j, k \in DOMAIN from : j < k => from[j] < from[k]
  /\ wStream.state = "closed" => rStream.closeRequested
  /\ rStream.state = "closed" /\ ~cut => \A i \in 1..wMade : i \in wSink.fulfilled \union {wSink.entry.id}
  /\ wStream.state = "errored" /\ ~silent => rStream.state # "readable"
=============================================================================
