------------------------- MODULE TransformStream_proofs -------------------------
(***************************************************************************)
(* Proofs about TransformStream for any high water marks and bounds.  They *)
(* rest on what is proved of the two streams that it joins: WP and RP are  *)
(* the modules of those proofs, with the variables of W and R.             *)
(***************************************************************************)
EXTENDS TransformStream, TLAPS

WP == INSTANCE WritableStream_proofs WITH
       HighWaterMark <- WritableMark, Sizes <- {1},
       MaxEntries <- TransformEntries, MaxWriters <- 1,
       stream <- wStream, made <- wMade, result <- wResult, writers <- wWriters,
       closed <- wClosed, ready <- wReady, sink <- wSink, start <- wStart
RP == INSTANCE ReadableStream_proofs WITH
       HighWaterMark <- ReadableMark, Sizes <- {1}, MaxReaders <- 1,
       stream <- rStream, enqueued <- rEnqueued, reads <- rReads, answer <- rAnswer,
       readers <- rReaders, closed <- rClosed, pull <- rPull, start <- rStart

-----------------------------------------------------------------------------
(***************************************************************************)
(* The definitions of W and R mean the same in WP and RP.                  *)
(***************************************************************************)
LEMMA SameWritable ==
  /\ W!vars = WP!vars
  /\ W!Init <=> WP!Init
  /\ W!Write(1) <=> WP!Write(1)
  /\ W!WriteThrows <=> WP!WriteThrows
  /\ W!CloseStream <=> WP!CloseStream
  /\ W!Abort <=> WP!Abort
  /\ W!SinkReturns <=> WP!SinkReturns
  /\ \A how : W!SinkSettles(how) <=> WP!SinkSettles(how)
  /\ W!SinkThrows <=> WP!SinkThrows
  /\ W!SinkFailed <=> WP!SinkFailed
  /\ W!Next <=> WP!Next
  /\ W!TypeOK <=> WP!TypeOK
  /\ W!HandedInOrder <=> WP!HandedInOrder
  /\ W!Truthful <=> WP!Truthful
<1>0. W!vars = WP!vars
  BY DEF W!vars, WP!vars
<1>1. W!Entries = WP!Entries
  BY DEF W!Entries, WP!Entries
<1>2. W!Writers = WP!Writers
  BY DEF W!Writers, WP!Writers
<1>3. \A i, n : W!Chunk(i, n) = WP!Chunk(i, n)
  BY DEF W!Chunk, WP!Chunk
<1>4. \A i : W!Close(i) = WP!Close(i)
  BY DEF W!Close, WP!Close
<1>5. W!Entry = WP!Entry
  BY <1>1 DEF W!Entry, WP!Entry
<1>6. W!Promise = WP!Promise
  BY DEF W!Promise, WP!Promise
<1>7. \A p, how : W!Settle(p, how) = WP!Settle(p, how)
  BY DEF W!Settle, WP!Settle
<1>8. \A queue : W!Queued(queue) = WP!Queued(queue)
  BY DEF W!Queued, WP!Queued
<1>9. W!World = WP!World
  BY DEF W!World, WP!World
<1>10. \A w : W!Becomes(w) <=> WP!Becomes(w)
  BY DEF W!Becomes, WP!Becomes
<1>11. \A promises, w, how : W!OfWriter(promises, w, how) = WP!OfWriter(promises, w, how)
  BY <1>7 DEF W!OfWriter, WP!OfWriter
<1>12. \A w : W!CheckBackpressure(w) = WP!CheckBackpressure(w)
  BY <1>11 DEF W!CheckBackpressure, WP!CheckBackpressure
<1>13. \A w : W!Error(w) = WP!Error(w)
  <2> TAKE w
  <2> QED BY <1>8, <1>1, <1>7, <1>11, Zenon DEF W!Error, WP!Error
<1>14. \A queue : W!Shift(queue) = WP!Shift(queue)
  BY DEF W!Shift, WP!Shift
<1>15. \A w, e, how : W!Done(w, e, how) = WP!Done(w, e, how)
  BY <1>14, <1>7 DEF W!Done, WP!Done
<1>16. \A w : W!Advances(w) <=> WP!Advances(w)
  BY DEF W!Advances, WP!Advances
<1>17. \A w, s : W!AdvanceQueue(w, s) <=> WP!AdvanceQueue(w, s)
  BY <1>16, <1>10 DEF W!AdvanceQueue, WP!AdvanceQueue
<1>18. W!Init <=> WP!Init
  BY <1>1, <1>2, <1>4 DEF W!Init, WP!Init
<1>19. W!GetWriter <=> WP!GetWriter
  BY <1>2 DEF W!GetWriter, WP!GetWriter
<1>20. W!ReleaseLock <=> WP!ReleaseLock
  BY DEF W!ReleaseLock, WP!ReleaseLock
<1>21. W!Refused <=> WP!Refused
  BY DEF W!Refused, WP!Refused
<1>22. \A w, e : W!Add(w, e) = WP!Add(w, e)
  BY DEF W!Add, WP!Add
<1>23. \A n : W!Write(n) <=> WP!Write(n)
  BY <1>21, <1>17, <1>12, <1>22, <1>9, <1>3 DEF W!Write, WP!Write
<1>24. W!WriteThrows <=> WP!WriteThrows
  BY <1>21, <1>10, <1>13, <1>9 DEF W!WriteThrows, WP!WriteThrows
<1>25. W!CloseStream <=> WP!CloseStream
  BY <1>21, <1>17, <1>22, <1>9, <1>4 DEF W!CloseStream, WP!CloseStream
<1>26. W!Refuse <=> WP!Refuse
  BY <1>21 DEF W!Refuse, WP!Refuse, W!vars, WP!vars
<1>27. W!Abort <=> WP!Abort
  BY <1>10, <1>13, <1>9 DEF W!Abort, WP!Abort
<1>28. W!NoneRuns <=> WP!NoneRuns
  BY DEF W!NoneRuns, WP!NoneRuns
<1>29. W!Started <=> WP!Started
  BY <1>28, <1>17, <1>9, <1>10, <1>13 DEF W!Started, WP!Started
<1>30. W!SinkReturns <=> WP!SinkReturns
  BY DEF W!SinkReturns, WP!SinkReturns
<1>31. \A how : W!SinkSettles(how) <=> WP!SinkSettles(how)
  BY DEF W!SinkSettles, WP!SinkSettles
<1>32. W!Idle = WP!Idle
  BY <1>4 DEF W!Idle, WP!Idle
<1>33. W!WriteDone <=> WP!WriteDone
  BY <1>17, <1>12, <1>15, <1>9, <1>32 DEF W!WriteDone, WP!WriteDone
<1>34. W!CloseDone <=> WP!CloseDone
  BY <1>15, <1>9, <1>10, <1>11, <1>32 DEF W!CloseDone, WP!CloseDone
<1>35. W!SinkFails <=> WP!SinkFails
  BY <1>10, <1>13, <1>15, <1>9, <1>32 DEF W!SinkFails, WP!SinkFails
<1>36. W!SinkFailed <=> WP!SinkFailed
  BY <1>35 DEF W!SinkFailed, WP!SinkFailed
<1>37. W!SinkThrows <=> WP!SinkThrows
  BY <1>35 DEF W!SinkThrows, WP!SinkThrows
<1>38. W!Job <=> WP!Job
  BY <1>33, <1>34, <1>36 DEF W!Job, WP!Job
<1>39. W!Next <=> WP!Next
  BY <1>19, <1>20, <1>23, <1>24, <1>25, <1>26, <1>27, <1>29, <1>30, <1>37, <1>31, <1>38 DEF W!Next, WP!Next
<1>40. W!StreamType = WP!StreamType
  BY <1>5 DEF W!StreamType, WP!StreamType
<1>41. W!SinkType = WP!SinkType
  BY <1>6, <1>5, <1>4, <1>1 DEF W!SinkType, WP!SinkType
<1>42. W!TypeOK <=> WP!TypeOK
  BY <1>40, <1>1, <1>6, <1>2, <1>41, <1>5 DEF W!TypeOK, WP!TypeOK
<1>43. W!HandedInOrder <=> WP!HandedInOrder
  BY DEF W!HandedInOrder, WP!HandedInOrder
<1>44. W!Truthful <=> WP!Truthful
  BY <1>1 DEF W!Truthful, WP!Truthful
<1> QED BY <1>0, <1>18, <1>23, <1>24, <1>25, <1>27, <1>30, <1>31, <1>37, <1>36, <1>39, <1>42, <1>43, <1>44

LEMMA SameReadable ==
  /\ R!vars = RP!vars
  /\ R!Init <=> RP!Init
  /\ R!Cancel <=> RP!Cancel
  /\ R!ErrorSource <=> RP!ErrorSource
  /\ R!CloseSource <=> RP!CloseSource
  /\ R!Enqueue(1) <=> RP!Enqueue(1)
  /\ R!PullDone <=> RP!PullDone
  /\ R!Next <=> RP!Next
  /\ R!CanCloseOrEnqueue <=> RP!CanCloseOrEnqueue
  /\ R!TypeOK <=> RP!TypeOK
  /\ R!ChunksInOrder <=> RP!ChunksInOrder
  /\ R!ReadersHear <=> RP!ReadersHear
<1>0. R!vars = RP!vars
  BY DEF R!vars, RP!vars
<1>1. R!Chunks = RP!Chunks
  BY DEF R!Chunks, RP!Chunks
<1>2. R!Reads = RP!Reads
  BY DEF R!Reads, RP!Reads
<1>3. R!Readers = RP!Readers
  BY DEF R!Readers, RP!Readers
<1>4. R!Promise = RP!Promise
  BY DEF R!Promise, RP!Promise
<1>5. R!Answers = RP!Answers
  BY <1>1 DEF R!Answers, RP!Answers
<1>6. \A st : R!Says(st) = RP!Says(st)
  BY DEF R!Says, RP!Says
<1>7. \A c : R!Value(c) = RP!Value(c)
  BY DEF R!Value, RP!Value
<1>8. \A p, how : R!Settle(p, how) = RP!Settle(p, how)
  BY DEF R!Settle, RP!Settle
<1>9. R!World = RP!World
  BY DEF R!World, RP!World
<1>10. \A w : R!Becomes(w) <=> RP!Becomes(w)
  BY DEF R!Becomes, RP!Becomes
<1>11. \A w, st : R!AnswerAll(w, st) = RP!AnswerAll(w, st)
  BY <1>2, <1>6 DEF R!AnswerAll, RP!AnswerAll
<1>12. \A w, state, st, how : R!End(w, state, st, how) = RP!End(w, state, st, how)
  <2> TAKE w, state, st, how
  <2> QED BY <1>11, <1>8, Zenon DEF R!End, RP!End
<1>13. \A w : R!Emptied(w) = RP!Emptied(w)
  BY DEF R!Emptied, RP!Emptied
<1>14. \A w : R!FinishClose(w) = RP!FinishClose(w)
  BY <1>12 DEF R!FinishClose, RP!FinishClose
<1>15. \A w : R!Error(w) = RP!Error(w)
  BY <1>12, <1>13 DEF R!Error, RP!Error
<1>16. \A w : R!ShouldPull(w) <=> RP!ShouldPull(w)
  BY DEF R!ShouldPull, RP!ShouldPull
<1>17. \A w : R!CallPullIfNeeded(w) = RP!CallPullIfNeeded(w)
  BY <1>16 DEF R!CallPullIfNeeded, RP!CallPullIfNeeded
<1>18. R!CanCloseOrEnqueue <=> RP!CanCloseOrEnqueue
  BY DEF R!CanCloseOrEnqueue, RP!CanCloseOrEnqueue
<1>19. R!Init <=> RP!Init
  BY <1>2, <1>6, <1>3 DEF R!Init, RP!Init
<1>20. R!GetReader <=> RP!GetReader
  BY <1>3 DEF R!GetReader, RP!GetReader
<1>21. R!ReleaseLock <=> RP!ReleaseLock
  BY <1>10, <1>11, <1>9 DEF R!ReleaseLock, RP!ReleaseLock
<1>22. \A w, k : R!TakeChunk(w, k) = RP!TakeChunk(w, k)
  <2> TAKE w, k
  <2> DEFINE e == Head(w.stream.queue)
  <2> DEFINE v(x) == [w EXCEPT !.stream.queue = Tail(@), !.stream.queueTotalSize = @ - e.size,
                               !.answer[k] = x]
  <2> DEFINE Chosen(x) == v(x).stream.closeRequested /\ v(x).stream.queue = <<>>
  <2>1. R!TakeChunk(w, k) = IF Chosen(R!Value(e.value)) THEN R!FinishClose(v(R!Value(e.value)))
                            ELSE R!CallPullIfNeeded(v(R!Value(e.value)))
    BY Zenon DEF R!TakeChunk
  <2>2. RP!TakeChunk(w, k) = IF Chosen(RP!Value(e.value)) THEN RP!FinishClose(v(RP!Value(e.value)))
                             ELSE RP!CallPullIfNeeded(v(RP!Value(e.value)))
    BY Zenon DEF RP!TakeChunk
  <2> HIDE DEF v, Chosen, e
  <2>3. R!Value(e.value) = RP!Value(e.value)
    BY <1>7
  <2> QED BY <1>14, <1>17, <2>1, <2>2, <2>3
<1>23. \A w, k : R!Wait(w, k) = RP!Wait(w, k)
  BY <1>17, <1>6 DEF R!Wait, RP!Wait
<1>24. R!Read <=> RP!Read
  BY <1>10, <1>22, <1>9, <1>23 DEF R!Read, RP!Read
<1>25. R!ReadEnded <=> RP!ReadEnded
  BY DEF R!ReadEnded, RP!ReadEnded, R!vars, RP!vars
<1>26. R!Cancel <=> RP!Cancel
  BY <1>10, <1>12, <1>13, <1>9 DEF R!Cancel, RP!Cancel
<1>27. \A w, c : R!Hand(w, c) = RP!Hand(w, c)
  BY <1>7 DEF R!Hand, RP!Hand
<1>28. \A w, c, n : R!Keep(w, c, n) = RP!Keep(w, c, n)
  BY DEF R!Keep, RP!Keep
<1>29. \A n : R!Enqueue(n) <=> RP!Enqueue(n)
  BY <1>18, <1>10, <1>17, <1>27, <1>9, <1>28 DEF R!Enqueue, RP!Enqueue
<1>30. R!ErrorSource <=> RP!ErrorSource
  BY <1>10, <1>15, <1>9 DEF R!ErrorSource, RP!ErrorSource
<1>31. R!CloseSource <=> RP!CloseSource
  BY <1>18, <1>9, <1>10, <1>14 DEF R!CloseSource, RP!CloseSource
<1>32. R!Refuse <=> RP!Refuse
  BY <1>18 DEF R!Refuse, RP!Refuse, R!vars, RP!vars
<1>33. R!NoneRuns <=> RP!NoneRuns
  BY DEF R!NoneRuns, RP!NoneRuns
<1>34. R!Started <=> RP!Started
  BY <1>33, <1>10, <1>17, <1>9, <1>15 DEF R!Started, RP!Started
<1>35. R!PullReturns <=> RP!PullReturns
  BY DEF R!PullReturns, RP!PullReturns
<1>36. \A how : R!PullSettles(how) <=> RP!PullSettles(how)
  BY DEF R!PullSettles, RP!PullSettles
<1>37. R!Pulled = RP!Pulled
  BY <1>9 DEF R!Pulled, RP!Pulled
<1>38. R!PullDone <=> RP!PullDone
  BY <1>10, <1>17, <1>37 DEF R!PullDone, RP!PullDone
<1>39. R!PullFails <=> RP!PullFails
  BY <1>10, <1>15, <1>37 DEF R!PullFails, RP!PullFails
<1>40. R!PullFailed <=> RP!PullFailed
  BY <1>39 DEF R!PullFailed, RP!PullFailed
<1>41. R!PullThrows <=> RP!PullThrows
  BY <1>39 DEF R!PullThrows, RP!PullThrows
<1>42. R!Job <=> RP!Job
  BY <1>38, <1>40 DEF R!Job, RP!Job
<1>43. R!Next <=> RP!Next
  BY <1>20, <1>21, <1>24, <1>25, <1>26, <1>29, <1>30, <1>31, <1>32, <1>34, <1>35, <1>41, <1>36, <1>42 DEF R!Next, RP!Next
<1>44. R!Item = RP!Item
  BY <1>1 DEF R!Item, RP!Item
<1>45. R!StreamType = RP!StreamType
  BY <1>2, <1>44 DEF R!StreamType, RP!StreamType
<1>46. R!PullType = RP!PullType
  BY <1>4 DEF R!PullType, RP!PullType
<1>47. R!TypeOK <=> RP!TypeOK
  BY <1>45, <1>2, <1>5, <1>3, <1>4, <1>46 DEF R!TypeOK, RP!TypeOK
<1>48. \A k : R!Given(k) = RP!Given(k)
  BY DEF R!Given, RP!Given
<1>49. R!ChunksInOrder <=> RP!ChunksInOrder
  <2>1. \A f : R!Sums(f) = RP!Sums(f)
    BY Zenon DEF R!Sums, RP!Sums
  <2>2. \A q : R!TotalSize(q) = RP!TotalSize(q)
    BY <2>1, Zenon DEF R!TotalSize, RP!TotalSize
  <2> QED BY <1>48, <2>2, Zenon DEF R!ChunksInOrder, RP!ChunksInOrder
<1>50. R!ReadersHear <=> RP!ReadersHear
  BY <1>2 DEF R!ReadersHear, RP!ReadersHear
<1> QED BY <1>0, <1>19, <1>26, <1>30, <1>31, <1>29, <1>38, <1>43, <1>18, <1>47, <1>49, <1>50

-----------------------------------------------------------------------------
(***************************************************************************)
(* The steps of a TransformStream are steps of its two streams.            *)
(***************************************************************************)
LEMMA NoStep ==
  /\ SameW => UNCHANGED W!vars
  /\ SameR => UNCHANGED R!vars
BY DEF SameW, SameR, W!vars, R!vars

LEMMA StepsOfBoth == [TransformNext]_transformVars => [W!Next]_(W!vars) /\ [R!Next]_(R!vars)
<1> SUFFICES ASSUME [TransformNext]_transformVars
             PROVE  [W!Next]_(W!vars) /\ [R!Next]_(R!vars)
  OBVIOUS
<1>1. CASE UNCHANGED transformVars
  BY <1>1 DEF transformVars, wVars, rVars, W!vars, R!vars
<1>2. CASE NoPull
  BY <1>2, NoStep DEF NoPull, R!Next
<1>3. CASE Writes
  BY <1>3, NoStep DEF Writes, W!Next
<1>4. CASE Reads
  BY <1>4, NoStep DEF Reads, R!Next
<1>5. CASE AbortTransform
  BY <1>5 DEF AbortTransform, W!Next, R!Next
<1>6. CASE ControllerEnqueue
  BY <1>6, NoStep DEF ControllerEnqueue, R!Next
<1>7. CASE ControllerError \/ ControllerTerminate
  BY <1>7, NoStep DEF ControllerError, ControllerTerminate, R!Next
<1>8. CASE TransformReturns
  BY <1>8, NoStep DEF TransformReturns, W!Next
<1>9. CASE \E how \in {"resolved", "rejected"} : UserSettles(how)
  BY <1>9, NoStep DEF UserSettles
<1>10. CASE TransformThrows
  BY <1>10, NoStep DEF TransformThrows, W!Next, R!Next
<1>11. CASE Transformed \/ TransformFails
  BY <1>11, NoStep DEF Transformed, TransformFails, Handles, W!Next, R!Next
<1>12. CASE Flushed
  BY <1>12, NoStep DEF Flushed, Handles, W!Next, R!Next
<1>13. CASE StreamJobs
  BY <1>13, NoStep DEF StreamJobs, W!Next, R!Next, R!Job
<1> QED BY <1>1, <1>2, <1>3, <1>4, <1>5, <1>6, <1>7, <1>8, <1>9, <1>10, <1>11, <1>12, <1>13 DEF TransformNext

\* The writable side is a WritableStream with the sink that the TransformStream makes,
\* and the readable side a ReadableStream: whatever the transformer and the program do
\* at the two ends is what the callers and the sink of those streams may do.
THEOREM EndsAreStreams == TransformSpec => W!Spec /\ R!Spec
<1>1. TransformInit => W!Init /\ R!Init
  BY DEF TransformInit
<1> QED BY <1>1, StepsOfBoth, PTL DEF TransformSpec, W!Spec, R!Spec

-----------------------------------------------------------------------------
(***************************************************************************)
(* The invariant: those of the two streams, and what the sink makes of     *)
(* their ends.                                                             *)
(***************************************************************************)
\* What comes out is numbered by what went in, never by what the sink was not given yet.
FromOrder ==
  /\ from \in Seq(Nat) /\ Len(from) = rEnqueued
  /\ \A k \in 1..Len(from) : from[k] <= Len(wSink.given)
  /\ \A j, k \in 1..Len(from) : j < k => from[j] < from[k]

UserPromise ==
  user \in {"none", "pending", "resolved", "rejected"} /\ (user # "none" => wSink.call = "pending")

\* The readable side is asked to close before close() is fulfilled, and, unless it was
\* cut off, only when the writable side is closing and the sink has fulfilled everything.
CloseFlows ==
  /\ cut \in BOOLEAN
  /\ wSink.call = "resolved" /\ wSink.entry.type = "close" => rStream.closeRequested = TRUE
  /\ wStream.state = "closed" => rStream.closeRequested = TRUE
  /\ rStream.closeRequested = TRUE /\ cut = FALSE =>
       wStream.closeRequested = TRUE /\ 1..wMade \subseteq wSink.fulfilled
  /\ rStream.state = "closed" /\ cut = FALSE => rStream.closeRequested = TRUE

\* The readable side fails before the writable one does.
ErrorFlows ==
  /\ silent \in BOOLEAN
  /\ wSink.call = "rejected" /\ silent = FALSE => rStream.state # "readable"
  /\ wStream.state = "errored" /\ silent = FALSE => rStream.state # "readable"

Flow == FromOrder /\ UserPromise /\ CloseFlows /\ ErrorFlows

LEMMA Constants == WP!ConstantsAssumption /\ RP!ConstantsAssumption
BY TransformAssumption DEF WP!ConstantsAssumption, RP!ConstantsAssumption

LEMMA StreamsStart == TransformInit => WP!IInv /\ RP!IInv
BY SameWritable, SameReadable, Constants, WP!Init_IInv, RP!Init_IInv DEF TransformInit

LEMMA StreamsStep ==
  ASSUME WP!IInv, RP!IInv, [TransformNext]_transformVars
  PROVE  WP!IInv' /\ RP!IInv' /\ WP!Moves /\ RP!EndStays
<1>1. [WP!Next]_(WP!vars)
  <2>1. [W!Next]_(W!vars) => [WP!Next]_(WP!vars)
    BY SameWritable DEF W!vars, WP!vars
  <2> QED BY <2>1, StepsOfBoth
<1>2. [RP!Next]_(RP!vars)
  <2>1. [R!Next]_(R!vars) => [RP!Next]_(RP!vars)
    BY SameReadable DEF R!vars, RP!vars
  <2> QED BY <2>1, StepsOfBoth
<1>3. WP!IInv' /\ WP!Moves
  BY <1>1, Constants, WP!Next_IInv, WP!NextMoves
<1>4. RP!IInv' /\ RP!EndStays
  BY <1>2, Constants, RP!NextSteps, RP!NextEndStays
<1> QED BY <1>3, <1>4

\* What the invariant of the writable side says of its sink.
LEMMA SinkFacts ==
  ASSUME WP!IInv
  PROVE  /\ wSink.given \in Seq(WP!Entries) /\ Len(wSink.given) \in Nat /\ wMade \in Nat
         /\ wSink.call # "none" => wSink.entry.id = Len(wSink.given)
         /\ wSink.call # "none" /\ wSink.entry.type = "close" =>
              wSink.entry.id = wMade /\ wStream.closeRequested = TRUE
         /\ wSink.call \in {"running", "pending"} => wSink.fulfilled = 1..(Len(wSink.given) - 1)
<1>1. wSink \in WP!SinkType /\ wMade \in 0..TransformEntries /\ WP!World.stream = wStream
  BY Constants, WP!Fields
<1>2. wSink.given \in Seq(WP!Entries)
  BY <1>1 DEF WP!SinkType
<1>3. TransformEntries \in Nat
  BY TransformAssumption
<1>4. WP!Order(WP!World, wSink, wMade) /\ WP!Fulfilled(WP!World, wSink, wMade)
  BY DEF WP!IInv, WP!Sound
<1>5. wStream.writing = TRUE <=> wSink.call # "none"
  BY <1>1, <1>4 DEF WP!Order
<1>6. /\ wStream.writing = TRUE => wSink.entry.id = Len(wSink.given)
      /\ wStream.writing = TRUE /\ wSink.entry.type = "close" =>
           wSink.entry.id = wMade /\ wStream.closeRequested = TRUE
  BY <1>1, <1>4 DEF WP!Order
<1>7. wSink.call \in {"running", "pending"} => wSink.fulfilled = 1..(Len(wSink.given) - 1)
  BY <1>4 DEF WP!Fulfilled
<1>8. wMade \in Nat
  BY <1>1, <1>3
<1> QED BY <1>2, <1>5, <1>6, <1>7, <1>8

\* What a step of the writable side keeps, whatever it does ...
WritableKeeps ==
  /\ wStream.closeRequested = TRUE => wStream'.closeRequested = TRUE /\ wMade' = wMade
  /\ wSink.fulfilled \subseteq wSink'.fulfilled /\ Len(wSink.given) <= Len(wSink'.given)
  /\ wStream'.state = "closed" =>
       wStream.state = "closed" \/ (wSink.call = "resolved" /\ wSink.entry.type = "close")

\* ... and what one keeps in which neither the promise of the sink changes nor the
\* stream fails, but by a failure of the sink that is known.
WritableCalm ==
  /\ WritableKeeps
  /\ wStream'.state = "errored" => wStream.state = "errored" \/ wSink.call = "rejected"
  /\ wSink'.call \in {"pending", "resolved", "rejected"} => wSink' = wSink
  /\ wSink.call = "pending" => wSink' = wSink

\* A step of the readable side that neither closes nor cancels it.
ReadableCalm ==
  /\ rStream.state # "readable" => rStream'.state = rStream.state
  /\ rStream'.closeRequested = TRUE <=> rStream.closeRequested = TRUE
  /\ rStream'.state = "closed" => rStream.state = "closed" \/ rStream.closeRequested = TRUE

LEMMA MovesKeep == ASSUME WP!Moves PROVE WritableKeeps
BY DEF WP!Moves, WritableKeeps

LEMMA WritableStays == ASSUME SameW, WP!IInv PROVE WritableCalm
BY SinkFacts DEF SameW, WritableCalm, WritableKeeps

LEMMA ReadableStays == ASSUME SameR PROVE ReadableCalm
BY DEF SameR, ReadableCalm

\* The methods that the writer calls and the promise jobs.
LEMMA WritableCalms ==
  ASSUME WP!IInv, WP!Moves,
         \/ W!GetWriter \/ W!Write(1) \/ W!CloseStream
         \/ W!Job \/ (W!Started /\ wStart' = "resolved")
  PROVE  WritableCalm
<1>0. wWriters \in Nat /\ wMade \in Nat
  <2>1. wWriters \in 0..1
    BY Constants, WP!Fields
  <2> QED BY <2>1, SinkFacts
<1>1. CASE W!GetWriter
  <2>1. wSink' = wSink /\ wWriters' = wWriters + 1
    BY <1>1 DEF W!GetWriter
  <2>2. wStream' = [wStream EXCEPT !.writer = wWriters + 1]
    BY <1>1 DEF W!GetWriter
  <2>3. wStream'.state = wStream.state
    <3>1. wStream \in WP!StreamType
      BY Constants, WP!Fields
    <3> QED BY <2>2, <3>1 DEF WP!StreamType
  <2> QED BY <2>1, <2>3, MovesKeep DEF WritableCalm
<1>2. CASE W!Write(1) \/ W!CloseStream
  <2>1. wMade' = wMade + 1
    BY <1>2 DEF W!Write, W!CloseStream
  <2>2. wMade' # wMade
    BY <1>0, <2>1
  <2>3. ~WP!WriteThrows /\ ~WP!Abort /\ ~WP!SinkThrows /\ ~WP!SinkReturns /\ ~WP!Settles
    BY <2>2 DEF WP!WriteThrows, WP!Abort, WP!SinkThrows, WP!SinkFails, WP!SinkReturns, WP!Settles, WP!SinkSettles
  <2>4. wStart' = wStart
    BY <1>2 DEF W!Write, W!CloseStream
  <2> QED BY <2>3, <2>4, MovesKeep DEF WP!Moves, WritableCalm
<1>3. CASE W!Started /\ wStart' = "resolved"
  <2>1. wStart' # wStart
    BY <1>3 DEF W!Started
  <2>2. ~WP!WriteThrows /\ ~WP!Abort /\ ~WP!SinkThrows /\ ~WP!SinkReturns /\ ~WP!Settles
    BY <2>1 DEF WP!WriteThrows, WP!Abort, WP!SinkThrows, WP!SinkFails, WP!SinkReturns, WP!Settles, WP!SinkSettles
  <2> QED BY <1>3, <2>2, MovesKeep DEF WP!Moves, WritableCalm
<1>4. CASE W!Job
  <2>1. wSink.call \in {"resolved", "rejected"} /\ wStart' = wStart
    BY <1>4 DEF W!Job, W!WriteDone, W!CloseDone, W!SinkFailed, W!SinkFails
  <2>2. ~WP!SinkThrows /\ ~WP!SinkReturns /\ ~WP!Settles
    BY <2>1 DEF WP!SinkThrows, WP!SinkReturns, WP!Settles, WP!SinkSettles
  <2>3. CASE wSink.call = "rejected"
    BY <2>1, <2>2, <2>3, MovesKeep DEF WP!Moves, WritableCalm
  <2>4. CASE wSink.call = "resolved"
    <3>1. W!WriteDone \/ W!CloseDone
      BY <1>4, <2>4 DEF W!Job, W!SinkFailed
    <3>2. wSink' = wSink => FALSE
      <4>1. W!Idle.call = "none"
        <5>1. wSink \in WP!SinkType
          BY Constants, WP!Fields
        <5> QED BY <5>1 DEF W!Idle, WP!SinkType
      <4>2. wSink'.call \in {"none", "running"}
        <5>1. CASE W!CloseDone
          BY <4>1, <5>1 DEF W!CloseDone
        <5>2. CASE W!WriteDone
          <6> DEFINE w == W!CheckBackpressure(W!Done(W!World, wSink.entry, "resolved"))
          <6>1. W!AdvanceQueue(w, W!Idle)
            BY <5>2 DEF W!WriteDone
          <6> HIDE DEF w
          <6>2. wSink \in WP!SinkType
            BY Constants, WP!Fields
          <6>3. "call" \in DOMAIN W!Idle
            BY <6>2 DEF W!Idle, WP!SinkType
          <6>4. wSink' = W!Idle \/ wSink'.call = "running"
            BY <6>1, <6>3 DEF W!AdvanceQueue
          <6> QED BY <4>1, <6>4
        <5> QED BY <3>1, <5>1, <5>2
      <4> QED BY <2>4, <4>2
    <3>3. ~WP!WriteThrows /\ ~WP!Abort
      BY <3>2 DEF WP!WriteThrows, WP!Abort
    <3> QED BY <2>1, <2>2, <2>4, <3>3, MovesKeep DEF WP!Moves, WritableCalm
  <2> QED BY <2>1, <2>3, <2>4
<1> QED BY <1>1, <1>2, <1>3, <1>4

\* What the program and the transformer call at the readable side, and its promise jobs.
LEMMA ReadableCalms ==
  ASSUME RP!IInv, RP!EndStays,
         \/ R!GetReader \/ R!Read \/ R!Enqueue(1) \/ R!ErrorSource \/ R!PullDone
         \/ R!PullReturns \/ R!PullSettles("resolved") \/ (R!Started /\ rStart' = "resolved")
  PROVE  ReadableCalm
<1>0. rReaders \in Nat /\ rReads \in Nat /\ rEnqueued \in Nat
  <2>1. rReaders \in 0..1 /\ rReads \in 0..MaxReads /\ rEnqueued \in 0..MaxChunks
    BY Constants, RP!WorldFields
  <2>2. MaxReads \in Nat /\ MaxChunks \in Nat
    BY TransformAssumption
  <2> QED BY <2>1, <2>2
<1>1. CASE R!GetReader \/ R!Read \/ R!Enqueue(1) \/ (R!Started /\ rStart' = "resolved")
  <2>1. CASE rReaders' = rReaders + 1 \/ rReads' = rReads + 1 \/ rEnqueued' = rEnqueued + 1 \/ rStart' # rStart
    <3>1. rReaders' # rReaders \/ rReads' # rReads \/ rEnqueued' # rEnqueued \/ rStart' # rStart
      BY <1>0, <2>1
    <3>2. ~RP!Cancel /\ ~RP!CloseSource
      BY <3>1 DEF RP!Cancel, RP!CloseSource
    <3> QED BY <3>2 DEF RP!EndStays, ReadableCalm
  <2> QED BY <1>1, <2>1 DEF R!GetReader, R!Read, R!Enqueue, R!Started
<1>2. CASE R!ErrorSource
  <2>1. /\ rStream'.closeRequested = rStream.closeRequested
        /\ rStream'.state = IF rStream.state = "readable" THEN "errored" ELSE rStream.state
    <3>1. RP!ErrorSource
      BY <1>2, SameReadable
    <3> QED BY <3>1, Constants, RP!ErrorEnds
  <2> QED BY <2>1 DEF ReadableCalm
<1>3. CASE R!PullDone
  <2>1. rStream'.closeRequested = rStream.closeRequested /\ rStream'.state = rStream.state
    <3>1. RP!PullDone
      BY <1>3, SameReadable
    <3> QED BY <3>1, Constants, RP!PullDoneKeeps
  <2> QED BY <2>1 DEF ReadableCalm
<1>4. CASE R!PullReturns \/ R!PullSettles("resolved")
  BY <1>4 DEF R!PullReturns, R!PullSettles, ReadableCalm
<1> QED BY <1>1, <1>2, <1>3, <1>4

\* What error() and close() of the readable side make of it.
LEMMA ReadableErrors ==
  ASSUME RP!IInv, R!ErrorSource
  PROVE  rStream'.state # "readable"
<1>1. rStream'.state = IF rStream.state = "readable" THEN "errored" ELSE rStream.state
  <2>1. RP!ErrorSource
    BY SameReadable
  <2> QED BY <2>1, Constants, RP!ErrorEnds
<1> QED BY <1>1

LEMMA ReadableCloses ==
  ASSUME RP!IInv, R!CloseSource
  PROVE  rStream'.closeRequested = TRUE
<1>1. RP!CloseSource
  BY SameReadable
<1> QED BY <1>1, Constants, RP!CloseAsks

-----------------------------------------------------------------------------
(***************************************************************************)
(* The steps.                                                              *)
(***************************************************************************)
LEMMA FlowStarts == TransformInit => Flow
<1> SUFFICES ASSUME TransformInit PROVE Flow
  OBVIOUS
<1>1. FromOrder
  <2>1. from = <<>> /\ rEnqueued = 0
    BY DEF TransformInit, R!Init
  <2>2. <<>> \in Seq(Nat) /\ Len(<<>>) = 0 /\ 1..0 = {}
    OBVIOUS
  <2> QED BY <2>1, <2>2 DEF FromOrder
<1>2. /\ wSink.call = "none" /\ wStream.state = "writable"
      /\ rStream.closeRequested = FALSE /\ rStream.state = "readable"
  BY DEF TransformInit, W!Init, R!Init
<1> QED BY <1>1, <1>2 DEF TransformInit, Flow, UserPromise, CloseFlows, ErrorFlows

\* Where the sink is given no less and nothing is enqueued, the order stays.
LEMMA FromStays ==
  ASSUME WP!IInv, FromOrder, WritableKeeps, WP!IInv', from' = from, rEnqueued' = rEnqueued
  PROVE  FromOrder'
<1>1. Len(wSink.given) \in Nat /\ Len(wSink'.given) \in Nat
  <2>1. Len(wSink.given) \in Nat
    BY SinkFacts
  <2>2. wSink' \in WP!SinkType
    <3>1. WP!Sound(WP!World', wSink', wMade', wWriters')
      BY DEF WP!IInv
    <3> QED BY <3>1 DEF WP!Sound
  <2>3. wSink'.given \in Seq(WP!Entries)
    BY <2>2 DEF WP!SinkType
  <2> QED BY <2>1, <2>3
<1>2. \A k \in 1..Len(from) : from[k] <= Len(wSink'.given)
  <2>1. \A k \in 1..Len(from) : from[k] \in Nat /\ from[k] <= Len(wSink.given)
    BY DEF FromOrder
  <2> QED BY <1>1, <2>1 DEF WritableKeeps
<1> QED BY <1>2 DEF FromOrder

\* The close flows on when the readable side keeps calm and the sink is told of no close.
LEMMA CloseStays ==
  ASSUME CloseFlows, WritableKeeps, ReadableCalm, cut' = cut \/ cut' = TRUE,
         wSink'.call = "resolved" /\ wSink'.entry.type = "close" => rStream'.closeRequested = TRUE
  PROVE  CloseFlows'
<1>1. cut' \in BOOLEAN
  BY DEF CloseFlows
<1>2. wStream'.state = "closed" => rStream'.closeRequested = TRUE
  BY DEF CloseFlows, WritableKeeps, ReadableCalm
<1>3. rStream'.closeRequested = TRUE /\ cut' = FALSE =>
        wStream'.closeRequested = TRUE /\ 1..wMade' \subseteq wSink'.fulfilled
  BY DEF CloseFlows, WritableKeeps, ReadableCalm
<1>4. rStream'.state = "closed" /\ cut' = FALSE => rStream'.closeRequested = TRUE
  BY DEF CloseFlows, ReadableCalm
<1> QED BY <1>1, <1>2, <1>3, <1>4 DEF CloseFlows

\* The ends stay together while both sides keep calm ...
LEMMA CalmFlows ==
  ASSUME CloseFlows, ErrorFlows, WritableCalm, ReadableCalm,
         cut' = cut \/ cut' = TRUE, silent' = silent \/ silent' = TRUE
  PROVE  CloseFlows' /\ ErrorFlows'
<1>1. CloseFlows'
  <2>1. wSink'.call = "resolved" /\ wSink'.entry.type = "close" => rStream'.closeRequested = TRUE
    BY DEF CloseFlows, WritableCalm, ReadableCalm
  <2> QED BY <2>1, CloseStays DEF WritableCalm
<1>2. silent' \in BOOLEAN
  BY DEF ErrorFlows
<1>3. wSink'.call = "rejected" /\ silent' = FALSE => rStream'.state # "readable"
  BY DEF ErrorFlows, WritableCalm, ReadableCalm
<1>4. wStream'.state = "errored" /\ silent' = FALSE => rStream'.state # "readable"
  BY DEF ErrorFlows, WritableCalm, ReadableCalm
<1> QED BY <1>1, <1>2, <1>3, <1>4 DEF ErrorFlows

\* ... and when the readable side is cut off.
LEMMA CutFlows ==
  ASSUME CloseFlows, ErrorFlows, RP!EndStays, SameW, cut' = TRUE, silent' = silent
  PROVE  CloseFlows' /\ ErrorFlows'
<1>1. /\ rStream.closeRequested = TRUE => rStream'.closeRequested = TRUE
      /\ rStream.state # "readable" => rStream'.state = rStream.state
  BY DEF RP!EndStays
<1>2. CloseFlows'
  BY <1>1 DEF CloseFlows, SameW
<1>3. ErrorFlows'
  BY <1>1 DEF ErrorFlows, SameW
<1> QED BY <1>2, <1>3

\* The promise of the sink is settled as the user's was.
LEMMA HandlesMeans ==
  ASSUME WP!IInv, NEW how, Handles(how)
  PROVE  /\ wStream' = wStream /\ wMade' = wMade /\ user' = "none" /\ from' = from /\ cut' = cut
         /\ wSink.call = "pending" /\ wSink'.call = how /\ wSink'.entry = wSink.entry
         /\ how = "resolved" => wSink'.fulfilled = wSink.fulfilled \union {wSink.entry.id}
<1>1. wSink \in WP!SinkType
  BY Constants, WP!Fields
<1>2. W!SinkSettles(how) /\ user' = "none" /\ from' = from /\ cut' = cut
  BY DEF Handles
<1>3. wSink' = [wSink EXCEPT !.call = how,
                              !.fulfilled = IF how = "resolved" THEN wSink.fulfilled \union {wSink.entry.id}
                                            ELSE wSink.fulfilled]
  BY <1>2 DEF W!SinkSettles
<1> QED BY <1>1, <1>2, <1>3 DEF W!SinkSettles, WP!SinkType

\* The transformer enqueues for the entry at the sink, which is the last one given.
LEMMA EnqueuedInOrder ==
  ASSUME WP!IInv, RP!IInv, FromOrder, ControllerEnqueue
  PROVE  FromOrder'
<1> DEFINE id == wSink.entry.id
<1> DEFINE n == Len(from)
<1>1. wSink.call # "none" /\ wSink' = wSink /\ from' = Append(from, id) /\ rEnqueued' = rEnqueued + 1
  BY DEF ControllerEnqueue, Works, SameW, R!Enqueue
<1>2. id = Len(wSink.given) /\ id \in Nat
  BY <1>1, SinkFacts
<1>3. \A k \in 1..n : from[k] \in Nat /\ from[k] < id
  <2>1. \A k \in 1..n : from[k] # id
    BY DEF ControllerEnqueue, FromOrder
  <2>2. \A k \in 1..n : from[k] \in Nat /\ from[k] <= Len(wSink.given)
    BY DEF FromOrder
  <2> QED BY <1>2, <2>1, <2>2
<1>4. from \in Seq(Nat) /\ n = rEnqueued /\ \A j, k \in 1..n : j < k => from[j] < from[k]
  BY DEF FromOrder
<1> HIDE DEF id
<1>5. /\ from' \in Seq(Nat) /\ Len(from') = n + 1 /\ n \in Nat
      /\ \A k \in 1..n : from'[k] = from[k]
      /\ from'[n + 1] = id
  BY <1>1, <1>2, <1>4
<1>6. \A k \in 1..(n + 1) : from'[k] <= id
  BY <1>2, <1>3, <1>5
<1>7. \A j, k \in 1..(n + 1) : j < k => from'[j] < from'[k]
  <2> SUFFICES ASSUME NEW j \in 1..(n + 1), NEW k \in 1..(n + 1), j < k
               PROVE  from'[j] < from'[k]
    OBVIOUS
  <2>1. j \in 1..n
    BY <1>5
  <2>2. CASE k = n + 1
    BY <1>3, <1>5, <2>1, <2>2
  <2>3. CASE k \in 1..n
    <3>1. from'[j] = from[j] /\ from'[k] = from[k]
      BY <1>5, <2>1, <2>3
    <3>2. from[j] < from[k]
      BY <1>4, <2>1, <2>3
    <3> QED BY <3>1, <3>2
  <2>4. k = n + 1 \/ k \in 1..n
    <3>1. n \in Nat
      BY <1>5
    <3> HIDE DEF n
    <3> QED BY <3>1
  <2> QED BY <2>2, <2>3, <2>4
<1> QED BY <1>1, <1>2, <1>4, <1>5, <1>6, <1>7 DEF FromOrder

LEMMA FlowStep ==
  ASSUME WP!IInv, RP!IInv, Flow, [TransformNext]_transformVars
  PROVE  Flow'
<1>0. /\ WP!IInv' /\ WP!Moves /\ RP!EndStays /\ WritableKeeps
      /\ UserPromise /\ FromOrder /\ CloseFlows /\ ErrorFlows
  BY StreamsStep, MovesKeep DEF Flow
\* Both sides keep calm, and nothing is enqueued.
<1>1. ASSUME WritableCalm, ReadableCalm, rEnqueued' = rEnqueued, SameFlow
      PROVE  Flow'
  <2>1. FromOrder'
    BY <1>0, <1>1, FromStays DEF SameFlow
  <2>2. UserPromise'
    BY <1>0, <1>1 DEF UserPromise, WritableCalm, SameFlow
  <2>3. CloseFlows' /\ ErrorFlows'
    BY <1>0, <1>1, CalmFlows DEF SameFlow
  <2> QED BY <2>1, <2>2, <2>3 DEF Flow
\* The sink is left alone, and so is the promise of the user.
<1>2. ASSUME wSink' = wSink, user' = user
      PROVE  UserPromise'
  BY <1>0, <1>2 DEF UserPromise
<1>3. CASE UNCHANGED transformVars
  <2>1. SameW /\ SameR /\ SameFlow
    BY <1>3 DEF transformVars, wVars, rVars, SameW, SameR, SameFlow
  <2> QED BY <1>1, <2>1, WritableStays, ReadableStays DEF SameR
<1>4. CASE NoPull
  <2>1. SameW /\ SameFlow /\ (R!PullReturns \/ R!PullSettles("resolved"))
    BY <1>4 DEF NoPull
  <2>2. rEnqueued' = rEnqueued
    BY <2>1 DEF R!PullReturns, R!PullSettles
  <2> QED BY <1>0, <1>1, <2>1, <2>2, WritableStays, ReadableCalms
<1>5. CASE Writes
  <2>1. SameR /\ UNCHANGED <<user, from, cut>>
    BY <1>5 DEF Writes
  <2>2. CASE (W!GetWriter \/ W!Write(1) \/ W!CloseStream) /\ silent' = silent
    BY <1>0, <1>1, <2>1, <2>2, WritableCalms, ReadableStays DEF SameR, SameFlow
  <2>3. CASE W!WriteThrows /\ silent' = TRUE
    <3>1. wSink' = wSink
      BY <2>3 DEF W!WriteThrows
    <3>2. FromOrder'
      BY <1>0, <2>1, FromStays DEF SameR
    <3>3. CloseFlows'
      <4>1. wSink'.call = "resolved" /\ wSink'.entry.type = "close" => rStream'.closeRequested = TRUE
        BY <1>0, <2>1, <3>1 DEF CloseFlows, SameR
      <4> QED BY <1>0, <2>1, <4>1, ReadableStays, CloseStays
    <3>4. ErrorFlows'
      BY <2>3 DEF ErrorFlows
    <3> QED BY <1>2, <2>1, <3>1, <3>2, <3>3, <3>4 DEF Flow
  <2> QED BY <1>5, <2>2, <2>3 DEF Writes
<1>6. CASE Reads
  <2>1. SameW /\ UNCHANGED <<user, from, silent>>
    BY <1>6 DEF Reads
  <2>2. CASE (R!GetReader \/ R!Read) /\ cut' = cut
    <3>1. rEnqueued' = rEnqueued
      BY <2>2 DEF R!GetReader, R!Read
    <3> QED BY <1>0, <1>1, <2>1, <2>2, <3>1, WritableStays, ReadableCalms DEF SameFlow
  <2>3. CASE R!Cancel /\ cut' = TRUE
    <3>1. rEnqueued' = rEnqueued
      BY <2>3 DEF R!Cancel
    <3>2. FromOrder'
      BY <1>0, <2>1, <3>1, FromStays
    <3>3. CloseFlows' /\ ErrorFlows'
      BY <1>0, <2>1, <2>3, CutFlows
    <3> QED BY <1>2, <2>1, <3>2, <3>3 DEF Flow, SameW
  <2> QED BY <1>6, <2>2, <2>3 DEF Reads
<1>7. CASE AbortTransform
  <2>1. W!Abort /\ R!ErrorSource /\ SameFlow
    BY <1>7 DEF AbortTransform
  <2>2. wSink' = wSink /\ rEnqueued' = rEnqueued
    BY <2>1 DEF W!Abort, R!ErrorSource
  <2>3. FromOrder'
    BY <1>0, <2>1, <2>2, FromStays DEF SameFlow
  <2>4. ReadableCalm /\ rStream'.state # "readable"
    BY <1>0, <2>1, ReadableCalms, ReadableErrors
  <2>5. CloseFlows'
    <3>1. wSink'.call = "resolved" /\ wSink'.entry.type = "close" => rStream'.closeRequested = TRUE
      BY <1>0, <2>2, <2>4 DEF CloseFlows, ReadableCalm
    <3> QED BY <1>0, <2>1, <2>4, <3>1, CloseStays DEF SameFlow
  <2>6. ErrorFlows'
    BY <1>0, <2>1, <2>4 DEF ErrorFlows, SameFlow
  <2> QED BY <1>2, <2>1, <2>2, <2>3, <2>5, <2>6 DEF Flow, SameFlow
<1>8. CASE ControllerEnqueue
  <2>1. SameW /\ R!Enqueue(1) /\ UNCHANGED <<user, cut, silent>>
    BY <1>8 DEF ControllerEnqueue
  <2>2. FromOrder'
    BY <1>0, <1>8, EnqueuedInOrder
  <2>3. CloseFlows' /\ ErrorFlows'
    BY <1>0, <2>1, WritableStays, ReadableCalms, CalmFlows
  <2> QED BY <1>2, <2>1, <2>2, <2>3 DEF Flow, SameW
<1>9. CASE ControllerError
  <2>1. SameW /\ R!ErrorSource /\ SameFlow
    BY <1>9 DEF ControllerError
  <2>2. rEnqueued' = rEnqueued
    BY <2>1 DEF R!ErrorSource
  <2> QED BY <1>0, <1>1, <2>1, <2>2, WritableStays, ReadableCalms
<1>10. CASE ControllerTerminate
  <2>1. SameW /\ R!CloseSource /\ cut' = TRUE /\ UNCHANGED <<user, from, silent>>
    BY <1>10 DEF ControllerTerminate
  <2>2. rEnqueued' = rEnqueued
    BY <2>1 DEF R!CloseSource
  <2>3. FromOrder'
    BY <1>0, <2>1, <2>2, FromStays
  <2>4. CloseFlows' /\ ErrorFlows'
    BY <1>0, <2>1, CutFlows
  <2> QED BY <1>2, <2>1, <2>3, <2>4 DEF Flow, SameW
<1>11. CASE TransformReturns
  <2>1. W!SinkReturns /\ user' = "pending" /\ SameR /\ UNCHANGED <<from, cut, silent>>
    BY <1>11 DEF TransformReturns
  <2>2. wStream' = wStream /\ wSink'.call = "pending"
    <3>1. wSink \in WP!SinkType
      BY Constants, WP!Fields
    <3> QED BY <2>1, <3>1 DEF W!SinkReturns, WP!SinkType
  <2>3. FromOrder'
    BY <1>0, <2>1, FromStays DEF SameR
  <2>4. UserPromise'
    BY <2>1, <2>2 DEF UserPromise
  <2>5. CloseFlows'
    BY <1>0, <2>1, <2>2, ReadableStays, CloseStays
  <2>6. ErrorFlows'
    BY <1>0, <2>1, <2>2 DEF ErrorFlows, SameR
  <2> QED BY <2>3, <2>4, <2>5, <2>6 DEF Flow
<1>12. CASE \E how \in {"resolved", "rejected"} : UserSettles(how)
  <2>1. /\ SameW /\ SameR /\ UNCHANGED <<from, cut, silent>>
        /\ user = "pending" /\ user' \in {"resolved", "rejected"}
    BY <1>12 DEF UserSettles
  <2>2. FromOrder'
    BY <1>0, <2>1, FromStays DEF SameR
  <2>3. UserPromise'
    BY <1>0, <2>1 DEF UserPromise, SameW
  <2>4. CloseFlows' /\ ErrorFlows'
    BY <1>0, <2>1, WritableStays, ReadableStays, CalmFlows
  <2> QED BY <2>2, <2>3, <2>4 DEF Flow
<1>13. CASE TransformThrows
  <2>1. /\ wSink.call = "running" /\ W!SinkThrows /\ UNCHANGED <<user, from, cut>>
        /\ (SameR /\ silent' = TRUE) \/ (R!ErrorSource /\ silent' = silent)
    BY <1>13 DEF TransformThrows
  <2>2. wSink'.call = "none" /\ rEnqueued' = rEnqueued
    <3>1. wSink \in WP!SinkType
      BY Constants, WP!Fields
    <3>2. wSink'.call = "none"
      BY <2>1, <3>1 DEF W!SinkThrows, W!SinkFails, W!Idle, WP!SinkType
    <3>3. rEnqueued' = rEnqueued
      BY <2>1 DEF SameR, R!ErrorSource
    <3> QED BY <3>2, <3>3
  <2>3. FromOrder'
    BY <1>0, <2>1, <2>2, FromStays
  <2>4. UserPromise'
    BY <1>0, <2>1 DEF UserPromise
  <2>5. ReadableCalm
    BY <1>0, <2>1, ReadableCalms, ReadableStays
  <2>6. CloseFlows'
    BY <1>0, <2>1, <2>2, <2>5, CloseStays
  <2>7. ErrorFlows'
    <3>1. CASE SameR /\ silent' = TRUE
      BY <3>1 DEF ErrorFlows
    <3>2. CASE R!ErrorSource /\ silent' = silent
      <4>1. rStream'.state # "readable"
        BY <1>0, <3>2, ReadableErrors
      <4> QED BY <1>0, <3>2, <4>1 DEF ErrorFlows
    <3> QED BY <2>1, <3>1, <3>2
  <2> QED BY <2>3, <2>4, <2>6, <2>7 DEF Flow
<1>14. CASE Transformed
  <2>1. ~Flushes /\ Handles("resolved") /\ SameR /\ silent' = silent
    BY <1>14 DEF Transformed
  <2>2. FromOrder'
    BY <1>0, <2>1, FromStays, HandlesMeans DEF SameR
  <2>3. UserPromise'
    BY <2>1, HandlesMeans DEF UserPromise
  <2>4. CloseFlows'
    <3>1. wSink'.entry.type # "close" /\ cut' = cut
      BY <2>1, HandlesMeans DEF Flushes
    <3> QED BY <1>0, <2>1, <3>1, ReadableStays, CloseStays
  <2>5. ErrorFlows'
    <3>1. wSink'.call = "resolved" /\ wStream' = wStream
      BY <2>1, HandlesMeans
    <3> QED BY <1>0, <2>1, <3>1 DEF ErrorFlows, SameR
  <2> QED BY <2>2, <2>3, <2>4, <2>5 DEF Flow
<1>15. CASE TransformFails
  <2>1. Handles("rejected") /\ R!ErrorSource /\ silent' = silent
    BY <1>15 DEF TransformFails
  <2>2. FromOrder'
    BY <1>0, <2>1, FromStays, HandlesMeans DEF R!ErrorSource
  <2>3. UserPromise'
    BY <2>1, HandlesMeans DEF UserPromise
  <2>4. CloseFlows'
    <3>1. wSink'.call = "rejected" /\ cut' = cut
      BY <2>1, HandlesMeans
    <3>2. ReadableCalm
      BY <1>0, <2>1, ReadableCalms
    <3> QED BY <1>0, <3>1, <3>2, CloseStays
  <2>5. ErrorFlows'
    <3>1. rStream'.state # "readable"
      BY <2>1, ReadableErrors
    <3> QED BY <1>0, <2>1, <3>1 DEF ErrorFlows
  <2> QED BY <2>2, <2>3, <2>4, <2>5 DEF Flow
<1>16. CASE Flushed
  <2>1. CASE R!CloseSource /\ Handles("resolved") /\ silent' = silent
    <3>0. wSink.entry.type = "close"
      BY <1>16 DEF Flushed, Flushes
    <3>1. rStream'.closeRequested = TRUE
      BY <2>1, ReadableCloses
    <3>2. FromOrder'
      BY <1>0, <2>1, FromStays, HandlesMeans DEF R!CloseSource
    <3>3. UserPromise'
      BY <2>1, HandlesMeans DEF UserPromise
    <3>4. wStream'.closeRequested = TRUE /\ 1..wMade' \subseteq wSink'.fulfilled
      <4>1. /\ wSink.call = "pending" /\ wMade' = wMade /\ wStream' = wStream
            /\ wSink'.fulfilled = wSink.fulfilled \union {wSink.entry.id}
        BY <2>1, HandlesMeans
      <4>2. /\ wSink.entry.id = wMade /\ wMade = Len(wSink.given) /\ wMade \in Nat
            /\ wSink.fulfilled = 1..(wMade - 1) /\ wStream.closeRequested = TRUE
        BY <3>0, <4>1, SinkFacts
      <4> QED BY <4>1, <4>2
    <3>5. CloseFlows'
      <4>1. cut' \in BOOLEAN
        BY <1>0, <2>1, HandlesMeans DEF CloseFlows
      <4> QED BY <3>1, <3>4, <4>1 DEF CloseFlows
    <3>6. ErrorFlows'
      <4>1. wSink'.call = "resolved" /\ wStream' = wStream
        BY <2>1, HandlesMeans
      <4>2. rStream.state # "readable" => rStream'.state # "readable"
        BY <1>0 DEF RP!EndStays
      <4> QED BY <1>0, <2>1, <4>1, <4>2 DEF ErrorFlows
    <3> QED BY <3>2, <3>3, <3>5, <3>6 DEF Flow
  <2>2. CASE Handles("rejected") /\ SameR /\ silent' = TRUE
    <3>1. FromOrder'
      BY <1>0, <2>2, FromStays, HandlesMeans DEF SameR
    <3>2. UserPromise'
      BY <2>2, HandlesMeans DEF UserPromise
    <3>3. CloseFlows'
      <4>1. wSink'.call = "rejected" /\ cut' = cut
        BY <2>2, HandlesMeans
      <4> QED BY <1>0, <2>2, <4>1, ReadableStays, CloseStays
    <3>4. ErrorFlows'
      BY <2>2 DEF ErrorFlows
    <3> QED BY <3>1, <3>2, <3>3, <3>4 DEF Flow
  <2> QED BY <1>16, <2>1, <2>2 DEF Flushed
<1>17. CASE StreamJobs
  <2>1. SameFlow
    BY <1>17 DEF StreamJobs
  <2>2. CASE (W!Job \/ (W!Started /\ wStart' = "resolved")) /\ SameR
    BY <1>0, <1>1, <2>1, <2>2, WritableCalms, ReadableStays DEF SameR
  <2>3. CASE (R!PullDone \/ (R!Started /\ rStart' = "resolved")) /\ SameW
    <3>1. rEnqueued' = rEnqueued
      BY <2>3 DEF R!PullDone, R!Started
    <3> QED BY <1>0, <1>1, <2>1, <2>3, <3>1, WritableStays, ReadableCalms
  <2> QED BY <1>17, <2>2, <2>3 DEF StreamJobs
<1> QED BY <1>3, <1>4, <1>5, <1>6, <1>7, <1>8, <1>9, <1>10, <1>11, <1>12, <1>13, <1>14, <1>15, <1>16, <1>17
        DEF TransformNext

-----------------------------------------------------------------------------
(***************************************************************************)
(* The theorems.                                                           *)
(***************************************************************************)
TransformInv == WP!IInv /\ RP!IInv /\ Flow

\* The streams' invariants and the flow between them hold of a TransformStream.
THEOREM Invariant == TransformSpec => []TransformInv
<1>1. TransformInit => TransformInv
  BY StreamsStart, FlowStarts DEF TransformInv
<1>2. TransformInv /\ [TransformNext]_transformVars => TransformInv'
  BY StreamsStep, FlowStep DEF TransformInv
<1> QED BY <1>1, <1>2, PTL DEF TransformSpec

\* Each of the two streams keeps what is proved of it alone.
LEMMA StreamsKeepOrder == TransformSpec => [](W!TypeOK /\ R!TypeOK /\ BothKeepOrder)
<1>1. W!Init => WP!Init
  BY SameWritable
<1>2. [W!Next]_(W!vars) => [WP!Next]_(WP!vars)
  BY SameWritable DEF W!vars, WP!vars
<1>3. W!Spec => WP!Spec
  BY <1>1, <1>2, PTL DEF W!Spec, WP!Spec
<1>4. R!Init => RP!Init
  BY SameReadable
<1>5. [R!Next]_(R!vars) => [RP!Next]_(RP!vars)
  BY SameReadable DEF R!vars, RP!vars
<1>6. R!Spec => RP!Spec
  BY <1>4, <1>5, PTL DEF R!Spec, RP!Spec
<1>7. WP!Spec => [](WP!TypeOK /\ WP!HandedInOrder /\ WP!Truthful)
  BY Constants, WP!TypeCorrect, WP!EntriesInOrder, WP!AnswersAreTrue, PTL
<1>8. RP!Spec => [](RP!TypeOK /\ RP!ChunksInOrder /\ RP!ReadersHear)
  BY Constants, RP!TypeCorrect, RP!ChunksKeepOrder, RP!WaitingIsHeard, PTL
<1>9. /\ WP!TypeOK /\ WP!HandedInOrder /\ WP!Truthful
      /\ RP!TypeOK /\ RP!ChunksInOrder /\ RP!ReadersHear
      => W!TypeOK /\ R!TypeOK /\ BothKeepOrder
  BY SameWritable, SameReadable DEF BothKeepOrder
<1> QED BY <1>3, <1>6, <1>7, <1>8, <1>9, EndsAreStreams, PTL

\* The two ends of a TransformStream tell the same: what comes out is in the order of
\* what went in, close() is fulfilled only with the readable side closing, readers are
\* told of the end only when all that was written was transformed, unless the readable
\* side was cut off, and when the writable side fails so does the readable one, but for
\* the silent cases.
THEOREM EndsMeet == TransformSpec => []EndsAgree
<1>1. TransformInv /\ W!TypeOK /\ R!TypeOK /\ BothKeepOrder => EndsAgree
  <2> SUFFICES ASSUME TransformInv, W!TypeOK, R!TypeOK, BothKeepOrder
               PROVE  EndsAgree
    OBVIOUS
  <2>1. FromOrder /\ UserPromise /\ CloseFlows /\ ErrorFlows
    BY DEF TransformInv, Flow
  <2>2. TransformTypeOK
    BY <2>1 DEF TransformTypeOK, FromOrder, UserPromise
  <2>3. \A j, k \in DOMAIN from : j < k => from[j] < from[k]
    BY <2>1 DEF FromOrder
  <2>4. wStream.state = "closed" => rStream.closeRequested
    BY <2>1 DEF CloseFlows
  <2>5. rStream.state = "closed" /\ ~cut => \A i \in 1..wMade : i \in wSink.fulfilled \union {wSink.entry.id}
    BY <2>1 DEF CloseFlows
  <2>6. wStream.state = "errored" /\ ~silent => rStream.state # "readable"
    BY <2>1 DEF ErrorFlows
  <2> QED BY <2>2, <2>3, <2>4, <2>5, <2>6 DEF EndsAgree
<1> QED BY <1>1, Invariant, StreamsKeepOrder, PTL

================================================================================
