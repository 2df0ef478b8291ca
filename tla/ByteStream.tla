----------------------------- MODULE ByteStream -----------------------------
(***************************************************************************)
(* ReadableStream of type "bytes": ReadableByteStreamController, its BYOB  *)
(* requests and the two kinds of readers (src/quickjs-stream.c).  Bytes    *)
(* reach a read through the queue, through a view that the caller of       *)
(* read() brought, or through a buffer that the controller allocates; the  *)
(* last two are pull-intos, which the source may also fill itself by way   *)
(* of byobRequest.                                                         *)
(*                                                                         *)
(* Bytes are numbered in the order the source provides them, 0 is a byte   *)
(* nobody wrote.  Views have elements of one byte and buffers of their     *)
(* own, and chunks are not empty.                                          *)
(***************************************************************************)
EXTENDS Integers, Sequences, FiniteSets

CONSTANTS
  ByteMark,        \* strategy.highWaterMark
  AutoSizes,       \* values of autoAllocateChunkSize, 0 for none
  ChunkSizes,      \* bytes that one enqueue() brings
  ViewSizes,       \* bytes of the views given to read()
  MaxBytes,        \* bound: bytes provided
  MaxByteReads,    \* bound: calls of read() on an open stream
  MaxByteReaders   \* bound: readers acquired
\* One more bound: a behaviour ends with its first lapse, see "lapses" and ByteNext.

ASSUME ByteAssumption ==
  /\ ByteMark \in Nat /\ {MaxBytes, MaxByteReads, MaxByteReaders} \subseteq Nat
  /\ AutoSizes \subseteq Nat /\ ChunkSizes \union ViewSizes \subseteq Nat \ {0}

VARIABLES
  bytes,      \* the fields of the stream, its controller and its reader
  provided,   \* bytes the source provided so far
  asked,      \* calls of read() so far
  given,      \* given[k]: the promise of the k-th read(), and its bytes
  holders,    \* holders[r]: the kind of the r-th reader and its promise closed
  pulls,      \* the source's pull(): running, or how its promise stands
  begun,      \* the promise of source.start()
  lapses      \* what happened that the controller does not handle as it should

byteVars == <<bytes, provided, asked, given, holders, pulls, begun, lapses>>

ByteReads == 1..MaxByteReads
Answer(st, data) == [st |-> st, data |-> data]
NoRequest == [len |-> 0, at |-> 0, live |-> FALSE]
Concat(parts) == LET c[i \in 0..Len(parts)] == IF i = 0 THEN <<>> ELSE c[i - 1] \o parts[i]
                 IN  c[Len(parts)]
Numbers(a, n) == [i \in 1..n |-> a + i]
Least(a, b) == IF a < b THEN a ELSE b

-----------------------------------------------------------------------------
(***************************************************************************)
(* The methods, as functions of what they change.                          *)
(***************************************************************************)
ByteWorld == [b |-> bytes, given |-> given, holders |-> holders, pulls |-> pulls]

ByteBecomes(w) ==
  bytes' = w.b /\ given' = w.given /\ holders' = w.holders /\ pulls' = w.pulls

Kind(w) == IF w.b.reader = 0 THEN "none" ELSE w.holders[w.b.reader].kind
SettleClosed(w, how) ==
  IF w.b.reader = 0 \/ w.holders[w.b.reader].closed # "pending" THEN w
  ELSE [w EXCEPT !.holders[w.b.reader].closed = how]

\* The reads that wait in _readRequests are answered alike.
AnswerRequests(w, st) ==
  [w EXCEPT !.b.requests = <<>>,
            !.given = [k \in ByteReads |->
               IF \E j \in 1..Len(w.b.requests) : w.b.requests[j] = k THEN Answer(st, <<>>) ELSE @[k]]]

\* The reads that wait with a view get what it holds; a buffer of the controller
\* that is done says nothing.  The request the source has is not taken back.
AnswerPullIntos(w, st) ==
  [w EXCEPT !.b.pullIntos = <<>>, !.b.request.live = FALSE,
            !.given = [k \in ByteReads |->
               IF \E j \in 1..Len(w.b.pullIntos) : w.b.pullIntos[j].read = k
               THEN Answer(st, IF st = "done"
                             THEN LET p == CHOOSE q \in {w.b.pullIntos[j] : j \in 1..Len(w.b.pullIntos)} : q.read = k
                                  IN  SubSeq(p.data, 1, p.filled)
                             ELSE <<>>)
               ELSE @[k]]]

NoBytes(w) == [w EXCEPT !.b.queue = <<>>, !.b.queueTotalSize = 0]

\* controller.error()
ByteError(w) ==
  IF w.b.state # "readable" THEN w
  ELSE AnswerPullIntos(SettleClosed(AnswerRequests(
         [NoBytes(w) EXCEPT !.b.state = "errored"], "rejected"), "rejected"), "rejected")

\* _finishClose
ByteFinishClose(w) ==
  AnswerPullIntos(SettleClosed(AnswerRequests(
    [w EXCEPT !.b.state = "closed"], "done"), "resolved"), "done")

\* _shouldPull
ByteShouldPull(w) ==
  /\ w.b.state = "readable" /\ ~w.b.closeRequested
  /\ \/ w.b.pullIntos # <<>>
     \/ w.b.auto > 0 /\ w.b.requests # <<>>
     \/ ByteMark - w.b.queueTotalSize > 0

PullInto(k, n) == [read |-> k, data |-> [i \in 1..n |-> 0], filled |-> 0]

\* _callPullIfNeeded, up to the call of the source's pull().
CallBytePullIfNeeded(w) ==
  IF ~ByteShouldPull(w) THEN w
  ELSE IF w.b.pulling THEN [w EXCEPT !.b.pullAgain = TRUE]
  ELSE [w EXCEPT !.b.pulling = TRUE, !.pulls = "running",
                 !.b.pullIntos = IF @ = <<>> /\ w.b.auto > 0 THEN <<PullInto(0, w.b.auto)>> ELSE @]

ToQueue(w, data) ==
  [w EXCEPT !.b.queue = Append(@, data), !.b.queueTotalSize = @ + Len(data)]

\* Bytes for the read that waits longest in _readRequests, or for the queue.
HandOrQueue(w, data) ==
  IF w.b.requests = <<>> THEN ToQueue(w, data)
  ELSE [w EXCEPT !.b.requests = Tail(@), !.given[Head(w.b.requests)] = Answer("value", data)]

\* A pull-into that is filled resolves: _deliverAutoAllocated for a buffer of
\* the controller's.
Deliver(w, p) ==
  LET data == SubSeq(p.data, 1, p.filled) IN
  IF p.read = 0 THEN HandOrQueue(w, data) ELSE [w EXCEPT !.given[p.read] = Answer("value", data)]

\* One turn of the loop of _fillPendingFromBytes: bytes for the first pull-into, which
\* go behind those that it holds.
Written(p, data, n) ==
  [p EXCEPT !.filled = @ + n,
            !.data = [i \in 1..Len(@) |-> IF i \in p.filled + 1..p.filled + n THEN data[i - p.filled] ELSE @[i]]]
FillFirst(s) ==
  IF s.data = <<>> \/ s.w.b.pullIntos = <<>> THEN s
  ELSE LET p == Head(s.w.b.pullIntos)
           n == Least(Len(p.data) - p.filled, Len(s.data))
           q == Written(p, s.data, n)
       IN  [w |-> IF q.filled < Len(q.data) THEN [s.w EXCEPT !.b.pullIntos[1] = q]
                  ELSE Deliver([s.w EXCEPT !.b.pullIntos = Tail(@), !.b.request = NoRequest], q),
            data |-> SubSeq(s.data, n + 1, Len(s.data))]

\* _fillPendingFromBytes: a turn for each pull-into, if there are bytes for it, and
\* the queue gets the rest.
FillPending(w, data) ==
  LET turns[i \in 0..Len(w.b.pullIntos)] ==
        IF i = 0 THEN [w |-> w, data |-> data] ELSE FillFirst(turns[i - 1])
      s == turns[Len(w.b.pullIntos)]
  IN  IF s.data = <<>> THEN s.w ELSE ToQueue(s.w, s.data)

\* _fillViewFromQueue: the first n bytes use up k chunks, and a part of the next.
UpTo(queue, k) == Len(Concat(SubSeq(queue, 1, k)))
Drop(queue, n) ==
  LET k == CHOOSE k \in 0..Len(queue) : UpTo(queue, k) <= n /\ (k < Len(queue) => n < UpTo(queue, k + 1))
  IN  IF k = Len(queue) THEN <<>>
      ELSE <<SubSeq(queue[k + 1], n - UpTo(queue, k) + 1, Len(queue[k + 1]))>> \o SubSeq(queue, k + 2, Len(queue))

FillView(w, k, n) ==
  LET m == Least(n, w.b.queueTotalSize)
      v == [w EXCEPT !.b.queue = Drop(@, m), !.b.queueTotalSize = @ - m,
                     !.given[k] = Answer("value", SubSeq(Concat(w.b.queue), 1, m))]
  IN  IF v.b.closeRequested /\ v.b.queue = <<>> THEN ByteFinishClose(v) ELSE CallBytePullIfNeeded(v)

-----------------------------------------------------------------------------
(***************************************************************************)
(* What the controller gets wrong; see BytesInOrder.                       *)
(***************************************************************************)
SomeoneWaits(w) == w.b.requests # <<>> \/ \E j \in 1..Len(w.b.pullIntos) : w.b.pullIntos[j].read # 0
Partly(w) == \E j \in 1..Len(w.b.pullIntos) : w.b.pullIntos[j].filled > 0

\* Bytes are in the queue although a read waits, or will go there because a view
\* waits behind a buffer of the controller: later ones may overtake them.
Overtaken(w) ==
  IF SomeoneWaits(w) /\ (w.b.queue # <<>> \/ \E j \in 1..Len(w.b.pullIntos) :
                           w.b.pullIntos[1].read = 0 /\ w.b.pullIntos[j].read # 0)
  THEN {"overtaken"} ELSE {}

\* The end drops what is in the queue or in a buffer of the controller.
Dropped(w) ==
  IF w.b.state = "closed" /\ bytes.state = "readable" /\ (w.b.queue # <<>> \/ Partly(ByteWorld))
  THEN {"dropped"} ELSE {}

ByteStep(w) == ByteBecomes(w) /\ lapses' = lapses \union Overtaken(w) \union Dropped(w)
-----------------------------------------------------------------------------
ByteInit ==
  /\ \E n \in AutoSizes :
       bytes = [state |-> "readable", reader |-> 0, requests |-> <<>>, queue |-> <<>>,
                queueTotalSize |-> 0, closeRequested |-> FALSE, pulling |-> FALSE,
                pullAgain |-> FALSE, pullIntos |-> <<>>, request |-> NoRequest, auto |-> n]
  /\ provided = 0 /\ asked = 0 /\ lapses = {}
  /\ given = [k \in ByteReads |-> Answer("none", <<>>)]
  /\ holders = <<>>
  /\ pulls = "none" /\ begun = "pending"

\* getReader()
GetByteReader(kind) ==
  /\ bytes.reader = 0 /\ Len(holders) < MaxByteReaders
  /\ bytes' = [bytes EXCEPT !.reader = Len(holders) + 1]
  /\ holders' = Append(holders, [kind |-> kind,
                                 closed |-> CASE bytes.state = "closed" -> "resolved"
                                              [] bytes.state = "errored" -> "rejected"
                                              [] OTHER -> "pending"])
  /\ UNCHANGED <<provided, asked, given, pulls, begun, lapses>>

\* releaseLock() of a BYOB reader rejects every pull-into, and to reject a buffer
\* of the controller's is to error the stream.
ReleasePullIntos(w) ==
  LET rejected == AnswerPullIntos(w, "rejected") IN
  IF \E j \in 1..Len(w.b.pullIntos) : w.b.pullIntos[j].read = 0
  THEN ByteError(rejected) ELSE rejected

ReleaseByteLock ==
  /\ bytes.reader # 0
  /\ LET w == IF Kind(ByteWorld) = "default" THEN AnswerRequests(ByteWorld, "rejected")
              ELSE ReleasePullIntos(ByteWorld)
     IN  ByteBecomes([w EXCEPT !.b.reader = 0])
  /\ lapses' = IF Kind(ByteWorld) = "byob" /\ Partly(ByteWorld) THEN lapses \union {"dropped"} ELSE lapses
  /\ UNCHANGED <<provided, asked, begun>>

\* read() of the default reader: the chunk in front, or a request that waits.
ReadChunk(w, k) ==
  LET e == Head(w.b.queue)
      v == [w EXCEPT !.b.queue = Tail(@), !.b.queueTotalSize = @ - Len(e), !.given[k] = Answer("value", e)]
  IN  IF v.b.closeRequested /\ v.b.queue = <<>> THEN ByteFinishClose(v) ELSE CallBytePullIfNeeded(v)

ReadBytes ==
  /\ Kind(ByteWorld) = "default" /\ bytes.state = "readable" /\ asked < MaxByteReads
  /\ asked' = asked + 1
  /\ ByteStep(IF bytes.queue # <<>> THEN ReadChunk(ByteWorld, asked')
              ELSE CallBytePullIfNeeded([ByteWorld EXCEPT !.b.requests = Append(@, asked'),
                                                          !.given[asked'] = Answer("pending", <<>>)]))
  /\ UNCHANGED <<provided, begun>>

\* read(view) of the BYOB reader: from the queue, which it looks at before the
\* state, or a pull-into that waits.
ReadInto(n) ==
  /\ Kind(ByteWorld) = "byob" /\ asked < MaxByteReads
  /\ bytes.state = "readable" \/ bytes.queueTotalSize > 0
  /\ asked' = asked + 1
  /\ ByteStep(IF bytes.queueTotalSize > 0 THEN FillView(ByteWorld, asked', n)
              ELSE CallBytePullIfNeeded([ByteWorld EXCEPT !.b.pullIntos = Append(@, PullInto(asked', n)),
                                                          !.given[asked'] = Answer("pending", <<>>)]))
  /\ UNCHANGED <<provided, begun>>

\* readableStreamCancel
CancelBytes ==
  /\ bytes.state = "readable"
  /\ ByteBecomes(AnswerPullIntos(SettleClosed(AnswerRequests(
       [NoBytes(ByteWorld) EXCEPT !.b.state = "closed"], "done"), "resolved"), "done"))
  /\ lapses' = lapses \union {"cancelled"}
  /\ UNCHANGED <<provided, asked, begun>>

CanProvide == ~bytes.closeRequested /\ bytes.state = "readable"

\* Mutant of Take: a waiting read before the buffer that is filled for it.
TakeRequestsFirst(w, data) ==
  IF w.b.requests # <<>> THEN HandOrQueue(w, data)
  ELSE IF w.b.pullIntos # <<>> THEN FillPending(w, data) ELSE ToQueue(w, data)

\* controller.enqueue(): into the pull-intos, to a read, or into the queue.
Take(w, data) == IF w.b.pullIntos # <<>> THEN FillPending(w, data) ELSE HandOrQueue(w, data)

EnqueueBytes(n) ==
  /\ CanProvide /\ provided + n <= MaxBytes
  /\ provided' = provided + n
  /\ ByteStep(CallBytePullIfNeeded(Take(ByteWorld, Numbers(provided, n))))
  /\ UNCHANGED <<asked, begun>>

\* controller.close(): bytes that do not fill their view are an error.
CloseBytes ==
  /\ CanProvide
  /\ LET w == [ByteWorld EXCEPT !.b.closeRequested = TRUE] IN
     ByteStep(IF w.b.queueTotalSize > 0 THEN w
              ELSE IF w.b.pullIntos # <<>> /\ Head(w.b.pullIntos).filled > 0 THEN ByteError(w)
              ELSE ByteFinishClose(w))
  /\ UNCHANGED <<provided, asked, begun>>

ErrorBytes == ByteStep(ByteError(ByteWorld)) /\ UNCHANGED <<provided, asked, begun>>

\* controller.byobRequest, which the source looks at and may keep while it works.
TakeRequest ==
  /\ bytes.request = NoRequest /\ bytes.pullIntos # <<>>
  /\ LET p == Head(bytes.pullIntos) IN
     bytes' = [bytes EXCEPT !.request = [len |-> Len(p.data) - p.filled, at |-> p.filled, live |-> TRUE]]
  /\ UNCHANGED <<provided, asked, given, holders, pulls, begun, lapses>>

\* The view of the request is no longer the part of the first pull-into that is
\* to be filled next.
Misplaced(p) == ~bytes.request.live \/ bytes.request.at # p.filled

\* The source writes n bytes into that view and calls respond(n).  When they are
\* too many for the pull-into, it is gone before its answer is made.
Respond(n) ==
  /\ bytes.request # NoRequest /\ n <= bytes.request.len
  /\ bytes.pullIntos # <<>> /\ provided + n <= MaxBytes
  /\ provided' = provided + n
  /\ LET p == Head(bytes.pullIntos)
         at == bytes.request.at
         q == [p EXCEPT !.filled = @ + n,
                        !.data = [i \in 1..Len(@) |-> IF bytes.request.live /\ i \in at + 1..at + n
                                                      THEN provided + i - at ELSE @[i]]]
         w == [ByteWorld EXCEPT !.b.request = NoRequest, !.b.pullIntos[1] = q]
         u == [w EXCEPT !.b.pullIntos = Tail(@)]
     IN  /\ ByteBecomes(
              IF n = 0 /\ bytes.closeRequested THEN
                LET v == IF q.read = 0 THEN u
                         ELSE [u EXCEPT !.given[q.read] = Answer("done", SubSeq(q.data, 1, q.filled))]
                IN  IF v.b.pullIntos = <<>> THEN ByteFinishClose(v) ELSE v
              ELSE IF q.filled = 0 THEN w
              ELSE IF q.filled > Len(q.data) THEN u
              ELSE Deliver(u, q))
         /\ lapses' = lapses \union (IF Misplaced(p) /\ q.filled > 0 THEN {"misplaced"} ELSE {})
                       \union (IF n = 0 /\ bytes.closeRequested THEN {"dropped"} ELSE {})
                       \union Overtaken(ByteWorld')
  /\ UNCHANGED <<asked, begun>>

\* respondWithNewView(): the view itself is the answer, whatever was there before.
RespondWithNewView(n) ==
  /\ bytes.request # NoRequest /\ n <= bytes.request.len
  /\ bytes.pullIntos # <<>> /\ provided + n <= MaxBytes
  /\ LET p == Head(bytes.pullIntos)
         w == [ByteWorld EXCEPT !.b.request = NoRequest, !.b.pullIntos = Tail(@)]
     IN  /\ n <= Len(p.data) - p.filled
         /\ provided' = provided + n
         /\ ByteBecomes(Deliver(w, [p EXCEPT !.data = Numbers(provided, n), !.filled = n]))
         /\ lapses' = lapses \union (IF p.filled > 0 THEN {"misplaced"} ELSE {})
                       \union Overtaken(ByteWorld')
  /\ UNCHANGED <<asked, begun>>

\* Promise jobs wait for pull(), and what it calls, to return.
ByteStarted ==
  /\ begun = "pending" /\ pulls # "running"
  /\ \/ begun' = "resolved" /\ ByteStep(CallBytePullIfNeeded(ByteWorld))
     \/ begun' = "rejected" /\ ByteStep(ByteError(ByteWorld))
  /\ UNCHANGED <<provided, asked>>

\* source.pull() returns a promise, which the user settles ...
BytePullReturns ==
  /\ \/ pulls = "running" /\ pulls' = "pending"
     \/ pulls = "pending" /\ pulls' \in {"resolved", "rejected"}
  /\ UNCHANGED <<bytes, provided, asked, given, holders, begun, lapses>>

\* ... the handlers on it, and the catch clause of the call.
BytePulled ==
  LET w == [ByteWorld EXCEPT !.b.pulling = FALSE, !.pulls = "none"] IN
  /\ \/ pulls = "resolved"
        /\ ByteStep(IF bytes.pullAgain THEN CallBytePullIfNeeded([w EXCEPT !.b.pullAgain = FALSE]) ELSE w)
     \/ pulls \in {"rejected", "running"} /\ ByteStep(ByteError(w))
  /\ UNCHANGED <<provided, asked, begun>>

\* What follows a lapse is not looked at, except that readers have heard of it.
ByteNext ==
  /\ lapses = {}
  /\ \/ \E kind \in {"default", "byob"} : GetByteReader(kind)
     \/ ReleaseByteLock \/ ReadBytes \/ CancelBytes \/ CloseBytes \/ ErrorBytes
     \/ \E n \in ViewSizes : ReadInto(n)
     \/ \E n \in ChunkSizes : EnqueueBytes(n)
     \/ TakeRequest \/ \E n \in 0..MaxBytes : Respond(n)
     \/ \E n \in 1..MaxBytes : RespondWithNewView(n)
     \/ ByteStarted \/ BytePullReturns \/ BytePulled

ByteSpec == ByteInit /\ [][ByteNext]_byteVars

-----------------------------------------------------------------------------
ByteTypeOK ==
  /\ bytes.state \in {"readable", "closed", "errored"} /\ bytes.reader \in 0..Len(holders)
  /\ bytes.requests \in Seq(ByteReads) /\ bytes.queueTotalSize = Len(Concat(bytes.queue))
  /\ \A j \in 1..Len(bytes.queue) : bytes.queue[j] # <<>>
  /\ \A p \in {bytes.pullIntos[j] : j \in 1..Len(bytes.pullIntos)} :
       p.read \in 0..asked /\ p.filled \in 0..Len(p.data) - 1
  /\ {bytes.closeRequested, bytes.pulling, bytes.pullAgain} \subseteq BOOLEAN
  /\ bytes.pulling = TRUE <=> pulls # "none"
  /\ \A k \in ByteReads : given[k].st = "none" <=> k > asked
  /\ lapses \subseteq {"overtaken", "dropped", "misplaced", "cancelled"}

\* What the reads were given, one after the other, and what is kept for later.
Delivered == Concat([k \in 1..asked |-> given[k].data])
Kept ==
  LET held == Concat([j \in 1..Len(bytes.pullIntos) |->
                        SubSeq(bytes.pullIntos[j].data, 1, bytes.pullIntos[j].filled)])
  IN  Concat(bytes.queue) \o held

\* Bytes are read in the order the source provided them, and none is lost or
\* made up, through the queue, views and buffers in any mixture, by readers of
\* both kinds in turn; with four exceptions that the steps above name: they overtake
\* each other, the end drops them, the source's view is not the one that is filled,
\* or the reader cancels.  An error drops what is kept, and nothing else.
BytesInOrder ==
  lapses = {} =>
    /\ bytes.state # "errored" => Delivered \o Kept = Numbers(0, provided)
    /\ Delivered = Numbers(0, Len(Delivered))

\* No read waits while there are bytes, unless the controller has buffers of its
\* own; each waits in one place and only on an open stream; and a reader is told
\* of the end.
ByteReadersHear ==
  /\ bytes.auto = 0 => Overtaken(ByteWorld) = {}
  /\ lapses \intersect {"misplaced"} = {} =>
       \A k \in ByteReads :
         given[k].st = "pending" <=>
           \/ \E j \in 1..Len(bytes.requests) : bytes.requests[j] = k
           \/ \E j \in 1..Len(bytes.pullIntos) : bytes.pullIntos[j].read = k
  /\ SomeoneWaits(ByteWorld) => bytes.state = "readable" /\ bytes.reader # 0
  /\ bytes.reader # 0 =>
       holders[bytes.reader].closed = CASE bytes.state = "readable" -> "pending"
                                        [] bytes.state = "closed" -> "resolved"
                                        [] OTHER -> "rejected"

\* No byte overtakes another, is lost or made up on its way through the queue, views
\* and buffers of the controller, and no read is forgotten.
BytesKeepOrder == ByteTypeOK /\ BytesInOrder /\ ByteReadersHear
=============================================================================
