------------------------ MODULE ReadableStream_proofs ------------------------
(***************************************************************************)
(* Proofs about ReadableStream for any high water mark, sizes and bounds.  *)
(* As for WritableStream the invariant is stated of a world.  Base holds   *)
(* of what every method makes; Stored, which ties the queue to the chunks  *)
(* given, is suspended while a method empties the queue to end the stream. *)
(***************************************************************************)
EXTENDS ReadableStream, Induction_proofs

WorldType == [stream : StreamType, answer : [Reads -> Answers],
              closed : [Readers -> Promise], pull : PullType]

\* Promises exist for the k reads made and the n readers acquired.
Known(w, k, n) ==
  /\ w.stream.reader <= n
  /\ \A i \in Reads : w.answer[i].st = "none" <=> i > k
  /\ \A r \in Readers : w.closed[r] = "none" <=> r > n

\* The reads that wait are the requests, in the order they came.
Waits(w) ==
  /\ \A i \in Reads : w.answer[i].st = "pending" <=>
       \E j \in 1..Len(w.stream.requests) : w.stream.requests[j] = i
  /\ \A i, j \in 1..Len(w.stream.requests) : i < j => w.stream.requests[i] < w.stream.requests[j]
  /\ w.stream.requests # <<>> =>
       w.stream.state = "readable" /\ w.stream.queue = <<>> /\ w.stream.reader # 0
Ending(state) == IF state = "readable" THEN "pending" ELSE IF state = "closed" THEN "resolved" ELSE "rejected"
Tells(w) == w.stream.reader # 0 => w.closed[w.stream.reader] = Ending(w.stream.state)

\* Later reads are given later chunks, and those that wait are later still.
Ordered(w, m) ==
  /\ \A i, j \in Reads : i < j /\ w.answer[i].st = "value" /\ w.answer[j].st = "value" =>
                           w.answer[i].chunk < w.answer[j].chunk
  /\ \A i \in Reads : w.answer[i].st = "value" => w.answer[i].chunk <= m
  /\ \A i, j \in Reads : w.answer[i].st = "value" /\ w.answer[j].st = "pending" => i < j
Flagged(w) == w.stream.pulling = TRUE <=> w.pull # "none"
Room(w) == w.stream.queueTotalSize = TotalSize(w.stream.queue)

Base(w, m, k, n) ==
  /\ w \in WorldType /\ m \in 0..MaxChunks /\ k \in 0..MaxReads /\ n \in 0..MaxReaders
  /\ Known(w, k, n) /\ Waits(w) /\ Tells(w) /\ Ordered(w, m) /\ Flagged(w) /\ Room(w)

\* What was not given is in the queue.
GivenIn(a) == {a[j].chunk : j \in {i \in Reads : a[i].st = "value"}}
Stored(w, m) ==
  w.stream.state = "readable" =>
    /\ GivenIn(w.answer) = 1..(m - Len(w.stream.queue))
    /\ \A j \in 1..Len(w.stream.queue) : w.stream.queue[j].value = m - Len(w.stream.queue) + j

Sound(w, m, k, n) == Base(w, m, k, n) /\ Stored(w, m)

IInv == Sound(World, enqueued, reads, readers) /\ start \in Promise

-----------------------------------------------------------------------------
(***************************************************************************)
(* Answers and queues.                                                     *)
(***************************************************************************)
LEMMA AnswerFacts ==
  /\ \A st \in {"none", "pending", "done", "rejected"} : Says(st) \in Answers /\ Says(st).st = st
  /\ \A c \in Chunks : Value(c) \in Answers /\ Value(c).st = "value" /\ Value(c).chunk = c
  /\ \A a \in Answers : a.st = "value" => a.chunk \in Chunks
BY DEF Answers, Says, Value

LEMMA ItemSizes == \A x \in Item : x.size \in Nat
BY DEF Item

LEMMA SeqFacts ==
  ASSUME NEW S, NEW q \in Seq(S)
  PROVE  /\ Len(q) \in Nat /\ (Len(q) = 0 <=> q = <<>>) /\ \A j \in 1..Len(q) : q[j] \in S
         /\ q # <<>> => /\ Head(q) = q[1] /\ q[1] \in S /\ 1 \in 1..Len(q) /\ Tail(q) \in Seq(S)
                        /\ Len(Tail(q)) = Len(q) - 1
                        /\ \A j \in 1..Len(Tail(q)) : Tail(q)[j] = q[j + 1] /\ j + 1 \in 1..Len(q)
OBVIOUS

LEMMA EmptyIsNone == Len(<<>>) = 0 /\ \A S : <<>> \in Seq(S)
OBVIOUS

\* The fields of a good world.
LEMMA Fields ==
  ASSUME NEW w, w \in WorldType
  PROVE  /\ w.stream \in StreamType /\ w.answer \in [Reads -> Answers]
         /\ w.closed \in [Readers -> Promise] /\ w.pull \in PullType
         /\ w.stream.reader \in 0..MaxReaders /\ w.stream.requests \in Seq(Reads)
         /\ w.stream.queue \in Seq(Item) /\ w.stream.queueTotalSize \in Nat
         /\ w.stream.closeRequested \in BOOLEAN /\ w.stream.pulling \in BOOLEAN
         /\ w.stream.pullAgain \in BOOLEAN /\ w.stream.state \in {"readable", "closed", "errored"}
         /\ w.stream.reader # 0 => w.stream.reader \in Readers
<1>1. w.stream \in StreamType /\ w.answer \in [Reads -> Answers]
      /\ w.closed \in [Readers -> Promise] /\ w.pull \in PullType
  BY DEF WorldType
<1>2. w.stream.reader \in 0..MaxReaders
  BY <1>1 DEF StreamType
<1>3. w.stream.reader # 0 => w.stream.reader \in Readers
  BY <1>2, ConstantsAssumption DEF Readers
<1> QED BY <1>1, <1>2, <1>3 DEF StreamType

-----------------------------------------------------------------------------
(***************************************************************************)
(* The methods that answer what waits.                                     *)
(***************************************************************************)
LEMMA AnswerAllBase ==
  ASSUME NEW w, NEW m, NEW k, NEW n, Base(w, m, k, n), NEW st \in {"done", "rejected"}
  PROVE  LET v == AnswerAll(w, st)
         IN  /\ Base(v, m, k, n)
             /\ v.stream.requests = <<>> /\ v.closed = w.closed /\ v.pull = w.pull
             /\ v.stream.state = w.stream.state /\ v.stream.reader = w.stream.reader
             /\ v.stream.queue = w.stream.queue
             /\ v.stream.closeRequested = w.stream.closeRequested
             /\ GivenIn(v.answer) = GivenIn(w.answer)
             /\ \A i \in Reads : w.answer[i].st = "value" <=> v.answer[i].st = "value"
<1> DEFINE v == AnswerAll(w, st)
<1> DEFINE stream1 == [w.stream EXCEPT !.requests = <<>>]
<1> DEFINE answer1 == [i \in Reads |->
               IF \E j \in 1..Len(w.stream.requests) : w.stream.requests[j] = i
               THEN Says(st) ELSE w.answer[i]]
<1> USE DEF Base
<1>1. /\ stream1 \in StreamType /\ stream1.requests = <<>> /\ stream1.state = w.stream.state
      /\ stream1.reader = w.stream.reader /\ stream1.queue = w.stream.queue
      /\ stream1.queueTotalSize = w.stream.queueTotalSize /\ stream1.pulling = w.stream.pulling
      /\ stream1.closeRequested = w.stream.closeRequested
  <2>1. PICK q \in Seq(Reads) : q = <<>>
    BY EmptyIsNone
  <2>2. stream1 = [w.stream EXCEPT !.requests = q] /\ w.stream \in StreamType
    BY <2>1, Fields
  <2> HIDE DEF stream1
  <2> QED BY <2>1, <2>2 DEF StreamType
<1>2. \A i \in Reads : answer1[i] = IF w.answer[i].st = "pending" THEN Says(st) ELSE w.answer[i]
  BY DEF Waits
<1>3. answer1 \in [Reads -> Answers]
  BY AnswerFacts, Fields
<1>4. v = [w EXCEPT !.stream = stream1, !.answer = answer1]
  BY DEF AnswerAll, WorldType
<1> HIDE DEF stream1, answer1
<1>5. v = [w EXCEPT !.stream = stream1, !.answer = answer1, !.closed = w.closed, !.pull = w.pull]
  BY <1>4 DEF WorldType
<1> HIDE DEF v
<1>6. v \in WorldType /\ v.stream = stream1 /\ v.answer = answer1 /\ v.closed = w.closed /\ v.pull = w.pull
  BY <1>1, <1>3, <1>5, Fields DEF WorldType
<1>7. \A i \in Reads : /\ answer1[i].st # "pending"
                       /\ answer1[i].st = "none" <=> w.answer[i].st = "none"
                       /\ answer1[i].st = "value" <=> w.answer[i].st = "value"
                       /\ answer1[i].st = "value" => answer1[i] = w.answer[i]
  BY <1>2, AnswerFacts
<1>8. GivenIn(answer1) = GivenIn(w.answer)
  BY <1>7 DEF GivenIn
<1>9. Known(v, k, n)
  BY <1>1, <1>6, <1>7 DEF Known
<1>10. Waits(v)
  <2>1. \A j \in 1..Len(<<>>) : FALSE
    BY EmptyIsNone
  <2> QED BY <2>1, <1>1, <1>6, <1>7 DEF Waits
<1>11. Tells(v) /\ Flagged(v) /\ Room(v)
  BY <1>1, <1>6 DEF Tells, Flagged, Room
<1>12. Ordered(v, m)
  BY <1>6, <1>7 DEF Ordered
<1> QED BY <1>1, <1>6, <1>7, <1>8, <1>9, <1>10, <1>11, <1>12 DEF v

\* The end of the stream as its reader sees it.
LEMMA EndBase ==
  ASSUME NEW w, NEW m, NEW k, NEW n, Base(w, m, k, n), w.stream.state = "readable",
         NEW state \in {"closed", "errored"}, NEW st \in {"done", "rejected"}
  PROVE  LET v == End(w, state, st, Ending(state))
         IN  /\ Base(v, m, k, n)
             /\ v.stream.state = state /\ v.stream.queue = w.stream.queue /\ v.pull = w.pull
             /\ GivenIn(v.answer) = GivenIn(w.answer)
<1> DEFINE v == End(w, state, st, Ending(state))
<1> DEFINE r == w.stream.reader
<1>0. w \in WorldType /\ m \in 0..MaxChunks /\ k \in 0..MaxReads /\ n \in 0..MaxReaders
  BY DEF Base
<1>1. CASE r = 0
  <2> DEFINE stream1 == [w.stream EXCEPT !.state = state]
  <2>1. v = [w EXCEPT !.stream = stream1]
    BY <1>0, <1>1 DEF End, WorldType
  <2>2. /\ stream1 \in StreamType /\ stream1.requests = w.stream.requests /\ stream1.state = state
        /\ stream1.reader = 0 /\ stream1.queue = w.stream.queue
        /\ stream1.queueTotalSize = w.stream.queueTotalSize /\ stream1.pulling = w.stream.pulling
    <3>1. w.stream \in StreamType
      BY <1>0, Fields
    <3> QED BY <3>1, <1>1 DEF StreamType
  <2> HIDE DEF stream1, v
  <2>3. v = [w EXCEPT !.stream = stream1, !.answer = w.answer, !.closed = w.closed, !.pull = w.pull]
    BY <2>1, <1>0 DEF WorldType
  <2>4. v \in WorldType /\ v.stream = stream1 /\ v.answer = w.answer /\ v.closed = w.closed /\ v.pull = w.pull
    BY <2>2, <2>3, <1>0, Fields DEF WorldType
  <2>5. w.stream.requests = <<>>
    BY <1>1 DEF Base, Waits
  <2>6. Known(v, k, n) /\ Waits(v) /\ Ordered(v, m)
    <3>1. Known(v, k, n)
      BY <2>2, <2>4, <1>1 DEF Base, Known
    <3>2. Waits(v) /\ Ordered(v, m)
      BY <2>2, <2>4, <2>5 DEF Base, Waits, Ordered
    <3> QED BY <3>1, <3>2
  <2>7. Tells(v) /\ Flagged(v) /\ Room(v)
    BY <2>2, <2>4 DEF Base, Tells, Flagged, Room
  <2> QED BY <1>0, <2>2, <2>4, <2>6, <2>7 DEF Base, v
<1>2. CASE r # 0
  <2> DEFINE u == AnswerAll(w, st)
  <2> DEFINE stream1 == [u.stream EXCEPT !.state = state]
  <2> DEFINE closed1 == [u.closed EXCEPT ![r] = Settle(@, Ending(state))]
  <2>1. /\ Base(u, m, k, n) /\ u.stream.requests = <<>> /\ u.closed = w.closed /\ u.pull = w.pull
        /\ u.stream.state = "readable" /\ u.stream.reader = r /\ u.stream.queue = w.stream.queue
        /\ GivenIn(u.answer) = GivenIn(w.answer)
    BY AnswerAllBase, ZenonT(60)
  <2>2. v = [u EXCEPT !.stream.state = state, !.closed[r] = Settle(@, Ending(state))]
    BY <1>2 DEF End
  <2> HIDE DEF u, v
  <2>3. u \in WorldType
    BY <2>1 DEF Base
  <2>4. v = [u EXCEPT !.stream = stream1, !.closed = closed1]
    BY <2>2, <2>3 DEF WorldType
  <2>5. /\ stream1 \in StreamType /\ stream1.requests = <<>> /\ stream1.state = state
        /\ stream1.reader = r /\ stream1.queue = u.stream.queue
        /\ stream1.queueTotalSize = u.stream.queueTotalSize /\ stream1.pulling = u.stream.pulling
    <3>1. u.stream \in StreamType
      BY <2>3, Fields
    <3> QED BY <3>1, <2>1 DEF StreamType
  <2>6. r \in Readers /\ u.closed[r] = "pending" /\ u.closed \in [Readers -> Promise]
    BY <1>2, <2>1, <2>3, Fields DEF Base, Tells, Ending
  <2>7. /\ closed1 \in [Readers -> Promise] /\ closed1[r] = Ending(state)
        /\ \A q \in Readers : closed1[q] = "none" <=> u.closed[q] = "none"
    <3>1. Ending(state) \in Promise /\ Ending(state) # "none" /\ Settle(u.closed[r], Ending(state)) = Ending(state)
      BY <2>6 DEF Ending, Promise, Settle
    <3> QED BY <3>1, <2>6
  <2> HIDE DEF stream1, closed1
  <2>8. v = [u EXCEPT !.stream = stream1, !.answer = u.answer, !.closed = closed1, !.pull = u.pull]
    BY <2>4, <2>3 DEF WorldType
  <2>9. v \in WorldType /\ v.stream = stream1 /\ v.answer = u.answer /\ v.closed = closed1 /\ v.pull = u.pull
    BY <2>3, <2>5, <2>7, <2>8, Fields DEF WorldType
  <2>10. Known(v, k, n)
    BY <2>1, <2>5, <2>7, <2>9 DEF Base, Known
  <2>11. Waits(v) /\ Ordered(v, m)
    BY <2>1, <2>5, <2>9 DEF Base, Waits, Ordered
  <2>12. Tells(v) /\ Flagged(v) /\ Room(v)
    BY <2>1, <2>5, <2>7, <2>9 DEF Base, Tells, Flagged, Room
  <2> QED BY <1>0, <2>1, <2>5, <2>9, <2>10, <2>11, <2>12 DEF Base, v
<1> QED BY <1>1, <1>2

LEMMA EmptiedBase ==
  ASSUME NEW w, NEW m, NEW k, NEW n, Base(w, m, k, n)
  PROVE  LET v == Emptied(w)
         IN  Base(v, m, k, n) /\ v.stream.state = w.stream.state /\ v.pull = w.pull
<1> DEFINE v == Emptied(w)
<1> DEFINE stream1 == [w.stream EXCEPT !.queue = <<>>, !.queueTotalSize = 0]
<1> USE DEF Base
<1>1. /\ stream1 \in StreamType /\ stream1.requests = w.stream.requests
      /\ stream1.state = w.stream.state /\ stream1.reader = w.stream.reader
      /\ stream1.queue = <<>> /\ stream1.queueTotalSize = 0 /\ stream1.pulling = w.stream.pulling
  <2>1. PICK q \in Seq(Item) : q = <<>>
    BY EmptyIsNone
  <2>2. stream1 = [w.stream EXCEPT !.queue = q, !.queueTotalSize = 0] /\ w.stream \in StreamType
    BY <2>1, Fields
  <2> HIDE DEF stream1
  <2> QED BY <2>1, <2>2 DEF StreamType
<1>2. v = [w EXCEPT !.stream = stream1]
  BY DEF Emptied, WorldType
<1> HIDE DEF stream1, v
<1>3. v = [w EXCEPT !.stream = stream1, !.answer = w.answer, !.closed = w.closed, !.pull = w.pull]
  BY <1>2 DEF WorldType
<1>4. v \in WorldType /\ v.stream = stream1 /\ v.answer = w.answer /\ v.closed = w.closed /\ v.pull = w.pull
  BY <1>1, <1>3, Fields DEF WorldType
<1>5. Known(v, k, n)
  BY <1>1, <1>4 DEF Known
<1>6. Waits(v) /\ Ordered(v, m)
  BY <1>1, <1>4, SMTT(60) DEF Waits, Ordered
<1>7. Tells(v) /\ Flagged(v) /\ Room(v)
  BY <1>1, <1>4, TotalEmpty DEF Tells, Flagged, Room
<1> QED BY <1>1, <1>4, <1>5, <1>6, <1>7 DEF v

LEMMA ErrorSound ==
  ASSUME NEW w, NEW m, NEW k, NEW n, Sound(w, m, k, n)
  PROVE  LET v == Error(w)
         IN  /\ Sound(v, m, k, n) /\ v.stream.state # "readable" /\ v.pull = w.pull
             /\ w.stream.state = "readable" => v.stream.state = "errored"
             /\ w.stream.state # "readable" => v = w
<1>1. CASE w.stream.state # "readable"
  BY <1>1 DEF Error
<1>2. CASE w.stream.state = "readable"
  <2> DEFINE u == Emptied(w)
  <2>1. Base(u, m, k, n) /\ u.stream.state = "readable" /\ u.pull = w.pull
    BY <1>2, EmptiedBase DEF Sound
  <2>2. Error(w) = End(u, "errored", "rejected", "rejected")
    BY <1>2 DEF Error
  <2>3. Ending("errored") = "rejected"
    BY DEF Ending
  <2> HIDE DEF u
  <2> DEFINE v == End(u, "errored", "rejected", Ending("errored"))
  <2>4. Base(v, m, k, n) /\ v.stream.state = "errored" /\ v.pull = u.pull
    BY <2>1, EndBase
  <2> HIDE DEF v
  <2>5. Error(w) = v
    BY <2>2, <2>3 DEF v
  <2> QED BY <1>2, <2>1, <2>4, <2>5 DEF Sound, Stored
<1> QED BY <1>1, <1>2

LEMMA PullSound ==
  ASSUME NEW w, NEW m, NEW k, NEW n, Sound(w, m, k, n)
  PROVE  LET v == CallPullIfNeeded(w)
         IN  /\ Sound(v, m, k, n)
             /\ v.stream.state = w.stream.state /\ v.stream.queueTotalSize = w.stream.queueTotalSize
             /\ v.stream.closeRequested = w.stream.closeRequested
             /\ v.pull # w.pull => w.pull = "none" /\ v.pull = "running" /\ ShouldPull(w)
<1> DEFINE v == CallPullIfNeeded(w)
<1>0. w \in WorldType
  BY DEF Sound, Base
<1>1. CASE ~ShouldPull(w)
  BY <1>1 DEF CallPullIfNeeded
<1>2. CASE ShouldPull(w)
  <2> DEFINE stream1 == IF w.stream.pulling THEN [w.stream EXCEPT !.pullAgain = TRUE]
                        ELSE [w.stream EXCEPT !.pulling = TRUE]
  <2> DEFINE pull1 == IF w.stream.pulling THEN w.pull ELSE "running"
  <2>1. v = [w EXCEPT !.stream = stream1, !.pull = pull1]
    <3>1. CASE w.stream.pulling
      BY <1>0, <1>2, <3>1 DEF CallPullIfNeeded, WorldType
    <3>2. CASE ~w.stream.pulling
      BY <1>0, <1>2, <3>2 DEF CallPullIfNeeded, WorldType
    <3> QED BY <3>1, <3>2
  <2>2. /\ stream1 \in StreamType /\ stream1.requests = w.stream.requests
        /\ stream1.state = w.stream.state /\ stream1.reader = w.stream.reader
        /\ stream1.queue = w.stream.queue /\ stream1.queueTotalSize = w.stream.queueTotalSize
        /\ stream1.closeRequested = w.stream.closeRequested /\ stream1.pulling = TRUE
    <3>1. w.stream \in StreamType /\ w.stream.pulling \in BOOLEAN
      BY <1>0, Fields
    <3>2. CASE w.stream.pulling = TRUE
      BY <3>1, <3>2 DEF StreamType
    <3>3. CASE w.stream.pulling = FALSE
      BY <3>1, <3>3 DEF StreamType
    <3> QED BY <3>1, <3>2, <3>3
  <2>3. /\ pull1 \in PullType /\ pull1 # "none"
        /\ pull1 # w.pull => w.pull = "none" /\ pull1 = "running"
    <3>1. w.pull \in PullType /\ w.stream.pulling \in BOOLEAN /\ (w.stream.pulling = TRUE <=> w.pull # "none")
      BY <1>0, Fields DEF Sound, Base, Flagged
    <3>2. CASE w.stream.pulling = TRUE
      BY <3>1, <3>2
    <3>3. CASE w.stream.pulling = FALSE
      BY <3>1, <3>3 DEF PullType
    <3> QED BY <3>1, <3>2, <3>3
  <2> HIDE DEF stream1, pull1, v
  <2>4. v = [w EXCEPT !.stream = stream1, !.answer = w.answer, !.closed = w.closed, !.pull = pull1]
    BY <2>1, <1>0 DEF WorldType
  <2>5. v \in WorldType /\ v.stream = stream1 /\ v.answer = w.answer /\ v.closed = w.closed /\ v.pull = pull1
    BY <2>2, <2>3, <2>4, <1>0, Fields DEF WorldType
  <2>6. Known(v, k, n)
    BY <2>2, <2>5 DEF Sound, Base, Known
  <2>7. Waits(v) /\ Ordered(v, m)
    BY <2>2, <2>5, SMTT(60) DEF Sound, Base, Waits, Ordered
  <2>8. Tells(v) /\ Flagged(v) /\ Room(v) /\ Stored(v, m)
    BY <2>2, <2>3, <2>5 DEF Sound, Base, Tells, Flagged, Room, Stored
  <2> QED BY <1>2, <2>2, <2>3, <2>5, <2>6, <2>7, <2>8 DEF Sound, Base, v
<1> QED BY <1>1, <1>2

-----------------------------------------------------------------------------
(***************************************************************************)
(* A chunk finds a read, or a read a chunk.                                *)
(***************************************************************************)
\* Numbers of chunks in a queue of length l, the last of m.
LEMMA Numbers ==
  ASSUME NEW m \in Nat, NEW l \in Nat
  PROVE  /\ (m - l) + (l + 1) = m + 1 /\ m - l \in Int
         /\ m - l + 1 = (m - l) + 1 /\ m - (l - 1) = (m - l) + 1
         /\ \A x \in 1..(m - l) : x < (m - l) + 1
OBVIOUS

LEMMA OneMore ==
  ASSUME NEW x \in Int, x + 1 \in Nat \ {0}
  PROVE  (1..x) \union {x + 1} = 1..(x + 1)
OBVIOUS

LEMMA GivenMore ==
  ASSUME NEW a \in [Reads -> Answers], NEW b \in [Reads -> Answers], NEW h \in Reads,
         a[h].st # "value", b[h].st = "value", \A i \in Reads : i # h => b[i] = a[i]
  PROVE  GivenIn(b) = GivenIn(a) \union {b[h].chunk}
<1>1. ASSUME NEW x \in GivenIn(b) PROVE x \in GivenIn(a) \union {b[h].chunk}
  <2>1. PICK j \in Reads : b[j].st = "value" /\ x = b[j].chunk
    BY <1>1 DEF GivenIn
  <2>2. CASE j = h
    BY <2>1, <2>2
  <2>3. CASE j # h
    BY <2>1, <2>3 DEF GivenIn
  <2> QED BY <2>2, <2>3
<1>2. ASSUME NEW x \in GivenIn(a) PROVE x \in GivenIn(b)
  <2>1. PICK j \in Reads : a[j].st = "value" /\ x = a[j].chunk
    BY <1>2 DEF GivenIn
  <2>2. j # h /\ b[j] = a[j]
    BY <2>1
  <2> QED BY <2>1, <2>2 DEF GivenIn
<1>3. b[h].chunk \in GivenIn(b)
  BY DEF GivenIn
<1> QED BY <1>1, <1>2, <1>3

\* The read that waits longest is given chunk m + 1.
LEMMA HandSound ==
  ASSUME NEW w, NEW m, NEW k, NEW n, Sound(w, m, k, n), w.stream.requests # <<>>, m < MaxChunks
  PROVE  Sound(Hand(w, m + 1), m + 1, k, n)
<1> DEFINE v == Hand(w, m + 1)
<1> DEFINE c == m + 1
<1> DEFINE h == Head(w.stream.requests)
<1> DEFINE rs == Tail(w.stream.requests)
<1> DEFINE stream1 == [w.stream EXCEPT !.requests = rs]
<1> DEFINE answer1 == [w.answer EXCEPT ![h] = Value(c)]
<1> USE DEF Sound, Base
<1>0. /\ w \in WorldType /\ w.stream.requests \in Seq(Reads) /\ w.stream \in StreamType
      /\ w.answer \in [Reads -> Answers] /\ m \in Nat /\ MaxChunks \in Nat
  BY Fields, ConstantsAssumption
<1>1. /\ h = w.stream.requests[1] /\ h \in Reads /\ rs \in Seq(Reads) /\ Len(w.stream.requests) \in Nat
      /\ 1 \in 1..Len(w.stream.requests) /\ Len(rs) = Len(w.stream.requests) - 1
      /\ \A j \in 1..Len(rs) : rs[j] = w.stream.requests[j + 1] /\ j + 1 \in 1..Len(w.stream.requests)
  BY <1>0, SeqFacts
<1>2. c \in Chunks /\ c \in 0..MaxChunks /\ c \in Nat
  BY <1>0 DEF Chunks
<1>3. w.stream.state = "readable" /\ w.stream.queue = <<>> /\ w.stream.reader # 0
  BY DEF Waits
<1>4. v = [w EXCEPT !.stream = stream1, !.answer = answer1]
  BY <1>0 DEF Hand, WorldType
<1> HIDE DEF h, rs, c
<1>5. /\ stream1 \in StreamType /\ stream1.requests = rs
      /\ stream1.state = w.stream.state /\ stream1.reader = w.stream.reader
      /\ stream1.queue = w.stream.queue /\ stream1.queueTotalSize = w.stream.queueTotalSize
      /\ stream1.pulling = w.stream.pulling
  BY <1>0, <1>1 DEF StreamType
<1>6. /\ answer1 \in [Reads -> Answers] /\ answer1[h].st = "value" /\ answer1[h].chunk = c
      /\ \A i \in Reads : i # h => answer1[i] = w.answer[i]
  <2>1. Value(c) \in Answers /\ Value(c).st = "value" /\ Value(c).chunk = c
    BY <1>2, AnswerFacts
  <2> QED BY <2>1, <1>0, <1>1
<1> HIDE DEF stream1, answer1, v
<1>7. v = [w EXCEPT !.stream = stream1, !.answer = answer1, !.closed = w.closed, !.pull = w.pull]
  BY <1>4, <1>0 DEF WorldType
<1>8. v \in WorldType /\ v.stream = stream1 /\ v.answer = answer1 /\ v.closed = w.closed /\ v.pull = w.pull
  BY <1>0, <1>5, <1>6, <1>7, Fields DEF WorldType
<1>9. w.answer[h].st = "pending" /\ \A i \in Reads : w.answer[i].st = "pending" /\ i # h => i > h
  <2>1. w.answer[h].st = "pending"
    BY <1>1 DEF Waits
  <2>2. ASSUME NEW i \in Reads, w.answer[i].st = "pending", i # h PROVE i > h
    <3>1. PICK j \in 1..Len(w.stream.requests) : w.stream.requests[j] = i
      BY <2>2 DEF Waits
    <3>2. 1 < j
      BY <2>2, <3>1, <1>1
    <3>3. w.stream.requests[1] < w.stream.requests[j]
      BY <3>2, <1>1 DEF Waits
    <3> QED BY <3>1, <3>3, <1>1 DEF Reads
  <2> QED BY <2>1, <2>2
<1>10. Known(v, k, n)
  <2>1. \A i \in Reads : answer1[i].st = "none" <=> w.answer[i].st = "none"
    BY <1>6, <1>9
  <2> QED BY <2>1, <1>5, <1>8 DEF Known
<1>11. Waits(v)
  <2>1. ASSUME NEW i \in Reads
        PROVE  answer1[i].st = "pending" <=> \E j \in 1..Len(rs) : rs[j] = i
    <3>1. CASE i = h
      <4>1. \A j \in 1..Len(rs) : rs[j] # h
        <5> TAKE j \in 1..Len(rs)
        <5>1. 1 < j + 1 /\ rs[j] = w.stream.requests[j + 1] /\ j + 1 \in 1..Len(w.stream.requests)
          BY <1>1
        <5>2. w.stream.requests[1] < w.stream.requests[j + 1]
          BY <5>1, <1>1 DEF Waits
        <5> QED BY <5>1, <5>2, <1>1, SMTT(60) DEF Reads
      <4> QED BY <3>1, <4>1, <1>6
    <3>2. CASE i # h
      <4>1. ASSUME NEW j \in 1..Len(w.stream.requests), w.stream.requests[j] = i
            PROVE  \E l \in 1..Len(rs) : rs[l] = i
        <5>1. j # 1
          BY <3>2, <4>1, <1>1
        <5>2. j - 1 \in 1..Len(rs) /\ (j - 1) + 1 = j
          BY <5>1, <1>1
        <5>3. rs[j - 1] = w.stream.requests[j]
          BY <5>2, <1>1
        <5> QED BY <5>2, <5>3, <4>1
      <4>2. ASSUME NEW l \in 1..Len(rs), rs[l] = i
            PROVE  \E j \in 1..Len(w.stream.requests) : w.stream.requests[j] = i
        BY <4>2, <1>1
      <4>3. w.answer[i].st = "pending" <=> \E j \in 1..Len(w.stream.requests) : w.stream.requests[j] = i
        BY DEF Waits
      <4> QED BY <3>2, <4>1, <4>2, <4>3, <1>6
    <3> QED BY <3>1, <3>2
  <2>2. ASSUME NEW i \in 1..Len(rs), NEW j \in 1..Len(rs), i < j PROVE rs[i] < rs[j]
    <3>1. i + 1 < j + 1 /\ i + 1 \in 1..Len(w.stream.requests) /\ j + 1 \in 1..Len(w.stream.requests)
      BY <2>2, <1>1
    <3>2. w.stream.requests[i + 1] < w.stream.requests[j + 1]
      BY <3>1 DEF Waits
    <3> QED BY <3>2, <1>1
  <2> QED BY <2>1, <2>2, <1>3, <1>5, <1>8 DEF Waits
<1>12. Tells(v) /\ Flagged(v) /\ Room(v)
  BY <1>5, <1>8 DEF Tells, Flagged, Room
<1>13. Ordered(v, c)
  <2>1. \A i \in Reads : w.answer[i].st = "value" => i < h /\ w.answer[i].chunk < c
    <3> TAKE i \in Reads
    <3> HAVE w.answer[i].st = "value"
    <3>1. i < h
      BY <1>1, <1>9 DEF Ordered
    <3>2. w.answer[i].chunk <= m /\ w.answer[i].chunk \in Chunks
      BY <1>0, AnswerFacts DEF Ordered
    <3> QED BY <3>1, <3>2, <1>0 DEF Chunks, c
  <2>2. \A i, j \in Reads : i < j /\ answer1[i].st = "value" /\ answer1[j].st = "value" =>
                              answer1[i].chunk < answer1[j].chunk
    <3> TAKE i, j \in Reads
    <3> HAVE i < j /\ answer1[i].st = "value" /\ answer1[j].st = "value"
    <3>1. CASE i = h
      <4>1. j # h /\ ~(j < h)
        BY <3>1, <1>1 DEF Reads
      <4>2. w.answer[j].st = "value"
        BY <4>1, <1>6
      <4> QED BY <4>1, <4>2, <2>1
    <3>2. CASE i # h /\ j = h
      BY <3>2, <2>1, <1>6
    <3>3. CASE i # h /\ j # h
      BY <3>3, <1>6 DEF Ordered
    <3> QED BY <3>1, <3>2, <3>3
  <2>3. \A i \in Reads : answer1[i].st = "value" => answer1[i].chunk <= c
    <3> TAKE i \in Reads
    <3> HAVE answer1[i].st = "value"
    <3>1. CASE i = h
      BY <3>1, <1>2, <1>6
    <3>2. CASE i # h
      <4>1. w.answer[i].st = "value" /\ answer1[i] = w.answer[i]
        BY <3>2, <1>6
      <4>2. w.answer[i].chunk < c /\ w.answer[i].chunk \in Chunks
        BY <4>1, <2>1, <1>0, AnswerFacts
      <4> QED BY <4>1, <4>2, <1>2 DEF Chunks
    <3> QED BY <3>1, <3>2
  <2>4. \A i, j \in Reads : answer1[i].st = "value" /\ answer1[j].st = "pending" => i < j
    <3> TAKE i, j \in Reads
    <3> HAVE answer1[i].st = "value" /\ answer1[j].st = "pending"
    <3>1. j # h /\ w.answer[j].st = "pending" /\ j > h
      BY <1>6, <1>9
    <3>2. CASE i = h
      BY <3>1, <3>2, <1>1 DEF Reads
    <3>3. CASE i # h
      BY <3>1, <3>3, <1>6 DEF Ordered
    <3> QED BY <3>2, <3>3
  <2> QED BY <2>2, <2>3, <2>4, <1>8 DEF Ordered
<1>14. Stored(v, c)
  <2>1. Len(w.stream.queue) = 0 /\ stream1.queue = w.stream.queue
    BY <1>3, <1>5, EmptyIsNone
  <2>2. GivenIn(w.answer) = 1..m
    <3>1. m - 0 = m
      BY <1>0
    <3> QED BY <2>1, <3>1, <1>3 DEF Stored
  <2>3. GivenIn(answer1) = GivenIn(w.answer) \union {c}
    <3>2. w.answer[h].st # "value"
      BY <1>9
    <3>3. GivenIn(answer1) = GivenIn(w.answer) \union {answer1[h].chunk}
      <4>1. /\ w.answer \in [Reads -> Answers] /\ answer1 \in [Reads -> Answers] /\ h \in Reads
            /\ answer1[h].st = "value" /\ \A i \in Reads : i # h => answer1[i] = w.answer[i]
        BY <1>0, <1>1, <1>6
      <4> HIDE DEF Sound, Base
      <4> QED BY <3>2, <4>1, GivenMore
    <3> QED BY <3>3, <1>6
  <2>4. 1..m \union {c} = 1..(c - 0)
    BY <1>0 DEF c
  <2>5. \A j \in 1..0 : FALSE
    OBVIOUS
  <2> QED BY <2>1, <2>2, <2>3, <2>4, <2>5, <1>8 DEF Stored
<1> QED BY <1>2, <1>8, <1>10, <1>11, <1>12, <1>13, <1>14 DEF v, c

\* Chunk m + 1 waits in the queue.
LEMMA KeepSound ==
  ASSUME NEW w, NEW m, NEW k, NEW n, Sound(w, m, k, n), w.stream.requests = <<>>,
         w.stream.state = "readable", m < MaxChunks, NEW z \in Nat
  PROVE  Sound(Keep(w, m + 1, z), m + 1, k, n)
<1> DEFINE v == Keep(w, m + 1, z)
<1> DEFINE e == [value |-> m + 1, size |-> z]
<1> DEFINE queue1 == Append(w.stream.queue, e)
<1> DEFINE total1 == w.stream.queueTotalSize + z
<1> DEFINE stream1 == [w.stream EXCEPT !.queue = queue1, !.queueTotalSize = total1]
<1> USE DEF Sound, Base
<1>0. /\ w \in WorldType /\ w.stream.queue \in Seq(Item) /\ w.stream \in StreamType
      /\ w.answer \in [Reads -> Answers] /\ m \in Nat /\ MaxChunks \in Nat
      /\ w.stream.queueTotalSize \in Nat /\ Len(w.stream.queue) \in Nat
  BY Fields, ConstantsAssumption
<1>1. m + 1 \in 0..MaxChunks /\ e \in Item /\ e.value = m + 1 /\ e.size = z /\ total1 \in Nat
  BY <1>0 DEF Item, Chunks
<1>2. v = [w EXCEPT !.stream = stream1]
  BY <1>0 DEF Keep, WorldType
<1> HIDE DEF e
<1>3. /\ queue1 \in Seq(Item) /\ Len(queue1) = Len(w.stream.queue) + 1 /\ queue1[Len(w.stream.queue) + 1] = e
      /\ \A j \in 1..Len(w.stream.queue) : queue1[j] = w.stream.queue[j]
  BY <1>0, <1>1
<1>4. TotalSize(queue1) = TotalSize(w.stream.queue) + z
  BY <1>0, <1>1, ItemSizes, TotalAppend
<1> HIDE DEF queue1
<1>5. total1 = TotalSize(queue1)
  BY <1>4 DEF Room
<1> HIDE DEF total1
<1>6. /\ stream1 \in StreamType /\ stream1.requests = w.stream.requests
      /\ stream1.state = w.stream.state /\ stream1.reader = w.stream.reader
      /\ stream1.queue = queue1 /\ stream1.queueTotalSize = total1
      /\ stream1.pulling = w.stream.pulling
  BY <1>0, <1>1, <1>3 DEF StreamType
<1> HIDE DEF stream1, v
<1>7. v = [w EXCEPT !.stream = stream1, !.answer = w.answer, !.closed = w.closed, !.pull = w.pull]
  BY <1>2, <1>0 DEF WorldType
<1>8. v \in WorldType /\ v.stream = stream1 /\ v.answer = w.answer /\ v.closed = w.closed /\ v.pull = w.pull
  BY <1>0, <1>6, <1>7, Fields DEF WorldType
<1>9. Known(v, k, n)
  BY <1>6, <1>8 DEF Known
<1>10. Waits(v)
  BY <1>6, <1>8 DEF Waits
<1>11. Tells(v) /\ Flagged(v) /\ Room(v)
  BY <1>5, <1>6, <1>8 DEF Tells, Flagged, Room
<1>12. Ordered(v, m + 1)
  <2>1. \A i \in Reads : w.answer[i].st = "value" => w.answer[i].chunk <= m + 1
    <3> TAKE i \in Reads
    <3> HAVE w.answer[i].st = "value"
    <3>1. w.answer[i].chunk <= m /\ w.answer[i].chunk \in Chunks
      BY <1>0, AnswerFacts DEF Ordered
    <3> QED BY <3>1, <1>0 DEF Chunks
  <2> QED BY <2>1, <1>8 DEF Ordered
<1>13. Stored(v, m + 1)
  <2>1. (m + 1) - Len(queue1) = m - Len(w.stream.queue)
    BY <1>0, <1>3
  <2>2. GivenIn(w.answer) = 1..(m - Len(w.stream.queue))
    BY DEF Stored
  <2>3. ASSUME NEW j \in 1..Len(queue1) PROVE queue1[j].value = (m + 1) - Len(queue1) + j
    <3>1. CASE j \in 1..Len(w.stream.queue)
      BY <3>1, <2>1, <1>3 DEF Stored
    <3>2. CASE j = Len(w.stream.queue) + 1
      <4>1. queue1[j].value = m + 1
        BY <3>2, <1>1, <1>3
      <4>2. (m - Len(w.stream.queue)) + j = m + 1
        BY <3>2, <1>0, Numbers, Zenon
      <4> QED BY <4>1, <4>2, <2>1
    <3>3. j \in 1..Len(w.stream.queue) \/ j = Len(w.stream.queue) + 1
      BY <1>0, <1>3
    <3> QED BY <3>1, <3>2, <3>3
  <2> QED BY <2>1, <2>2, <2>3, <1>6, <1>8 DEF Stored
<1> QED BY <1>1, <1>8, <1>9, <1>10, <1>11, <1>12, <1>13 DEF v

\* Read k + 1 takes the first chunk of the queue ...
Taken(w, k) ==
  [w EXCEPT !.stream.queue = Tail(@), !.stream.queueTotalSize = @ - Head(w.stream.queue).size,
            !.answer[k] = Value(Head(w.stream.queue).value)]

LEMMA TakenSound ==
  ASSUME NEW w, NEW m, NEW k, NEW n, Sound(w, m, k, n), w.stream.queue # <<>>,
         w.stream.state = "readable", k < MaxReads
  PROVE  LET v == Taken(w, k + 1)
         IN  /\ Sound(v, m, k + 1, n) /\ v.stream.state = "readable"
             /\ v.stream.closeRequested = w.stream.closeRequested /\ v.pull = w.pull
<1> DEFINE v == Taken(w, k + 1)
<1> DEFINE h == k + 1
<1> DEFINE e == Head(w.stream.queue)
<1> DEFINE c == e.value
<1> DEFINE queue1 == Tail(w.stream.queue)
<1> DEFINE total1 == w.stream.queueTotalSize - e.size
<1> DEFINE stream1 == [w.stream EXCEPT !.queue = queue1, !.queueTotalSize = total1]
<1> DEFINE answer1 == [w.answer EXCEPT ![h] = Value(c)]
<1> USE DEF Sound, Base
<1>0. /\ w \in WorldType /\ w.stream.queue \in Seq(Item) /\ w.stream \in StreamType
      /\ w.answer \in [Reads -> Answers] /\ m \in Nat /\ k \in Nat /\ MaxReads \in Nat
      /\ w.stream.queueTotalSize \in Nat /\ Len(w.stream.queue) \in Nat
  BY Fields, ConstantsAssumption
<1>1. /\ e = w.stream.queue[1] /\ e \in Item /\ 1 \in 1..Len(w.stream.queue)
      /\ queue1 \in Seq(Item) /\ Len(queue1) = Len(w.stream.queue) - 1
      /\ \A j \in 1..Len(queue1) : queue1[j] = w.stream.queue[j + 1] /\ j + 1 \in 1..Len(w.stream.queue)
  BY <1>0, SeqFacts
<1>2. h \in Reads /\ h \in Nat /\ h \in 0..MaxReads
  BY <1>0 DEF Reads
<1>3. w.stream.requests = <<>> /\ \A i \in Reads : w.answer[i].st # "pending"
  <2>1. w.stream.requests = <<>>
    BY DEF Waits
  <2>2. \A j \in 1..Len(<<>>) : FALSE
    BY EmptyIsNone
  <2> QED BY <2>1, <2>2 DEF Waits
<1>4. v = [w EXCEPT !.stream = stream1, !.answer = answer1]
  BY <1>0 DEF Taken, WorldType
<1>5. TotalSize(queue1) = TotalSize(w.stream.queue) - e.size
  BY <1>0, ItemSizes, TotalTail
<1>6. c \in Chunks /\ c = (m - Len(w.stream.queue)) + 1 /\ m - Len(queue1) = c
  <2>1. c \in Chunks
    BY <1>1 DEF Item
  <2>2. c = m - Len(w.stream.queue) + 1
    BY <1>1 DEF Stored
  <2>3. m - Len(queue1) = (m - Len(w.stream.queue)) + 1 /\ m - Len(w.stream.queue) + 1 = (m - Len(w.stream.queue)) + 1
    <3>1. /\ m - (Len(w.stream.queue) - 1) = (m - Len(w.stream.queue)) + 1
          /\ m - Len(w.stream.queue) + 1 = (m - Len(w.stream.queue)) + 1
      BY <1>0, Numbers, Zenon
    <3>2. Len(queue1) = Len(w.stream.queue) - 1
      BY <1>1
    <3> QED BY <3>1, <3>2, Zenon
  <2> QED BY <2>1, <2>2, <2>3
<1> HIDE DEF h, e, queue1
<1>7. total1 = TotalSize(queue1) /\ total1 \in Nat
  <2>1. w.stream.queueTotalSize = TotalSize(w.stream.queue)
    BY DEF Room
  <2>2. TotalSize(queue1) \in Nat
    BY <1>1, ItemSizes, TotalNat
  <2> QED BY <2>1, <2>2, <1>5
<1> HIDE DEF total1, c
<1>8. /\ stream1 \in StreamType /\ stream1.requests = <<>>
      /\ stream1.state = "readable" /\ stream1.reader = w.stream.reader
      /\ stream1.queue = queue1 /\ stream1.queueTotalSize = total1
      /\ stream1.pulling = w.stream.pulling /\ stream1.closeRequested = w.stream.closeRequested
  BY <1>0, <1>1, <1>3, <1>7 DEF StreamType
<1>9. /\ answer1 \in [Reads -> Answers] /\ answer1[h].st = "value" /\ answer1[h].chunk = c
      /\ \A i \in Reads : i # h => answer1[i] = w.answer[i]
  <2>1. Value(c) \in Answers /\ Value(c).st = "value" /\ Value(c).chunk = c
    BY <1>6, AnswerFacts
  <2> QED BY <2>1, <1>0, <1>2
<1> HIDE DEF stream1, answer1, v
<1>10. v = [w EXCEPT !.stream = stream1, !.answer = answer1, !.closed = w.closed, !.pull = w.pull]
  BY <1>4, <1>0 DEF WorldType
<1>11. v \in WorldType /\ v.stream = stream1 /\ v.answer = answer1 /\ v.closed = w.closed /\ v.pull = w.pull
  BY <1>0, <1>8, <1>9, <1>10, Fields DEF WorldType
<1>12. \A i \in Reads : w.answer[i].st = "value" => i < h /\ w.answer[i].chunk < c
  <2> TAKE i \in Reads
  <2> HAVE w.answer[i].st = "value"
  <2>1. ~(i > k) /\ i \in Nat
    BY DEF Known, Reads
  <2>2. w.answer[i].chunk \in GivenIn(w.answer)
    BY DEF GivenIn
  <2>3. w.answer[i].chunk \in 1..(m - Len(w.stream.queue))
    BY <2>2 DEF Stored
  <2>4. i < k + 1
    BY <2>1, <1>0
  <2>5. w.answer[i].chunk < (m - Len(w.stream.queue)) + 1
    BY <2>3, <1>0, Numbers, Zenon
  <2> QED BY <2>4, <2>5, <1>6 DEF h
<1>13. w.answer[h].st # "value" /\ w.answer[h].st = "none"
  BY <1>0, <1>2 DEF Known, h
<1>14. Known(v, k + 1, n)
  <2>1. \A i \in Reads : answer1[i].st = "none" <=> i > k + 1
    <3> TAKE i \in Reads
    <3>1. CASE i = h
      BY <3>1, <1>0, <1>9 DEF h
    <3>2. CASE i # h
      <4>1. i > k + 1 <=> i > k
        BY <3>2, <1>0 DEF h, Reads
      <4> QED BY <3>2, <4>1, <1>9 DEF Known
    <3> QED BY <3>1, <3>2
  <2> QED BY <2>1, <1>8, <1>11 DEF Known
<1>15. Waits(v)
  <2>1. \A i \in Reads : answer1[i].st # "pending"
    BY <1>3, <1>9
  <2>2. \A j \in 1..Len(<<>>) : FALSE
    BY EmptyIsNone
  <2> QED BY <2>1, <2>2, <1>8, <1>11 DEF Waits
<1>16. Tells(v) /\ Flagged(v) /\ Room(v)
  BY <1>7, <1>8, <1>11 DEF Tells, Flagged, Room
<1>17. Ordered(v, m)
  <2>1. \A i, j \in Reads : i < j /\ answer1[i].st = "value" /\ answer1[j].st = "value" =>
                              answer1[i].chunk < answer1[j].chunk
    <3> TAKE i, j \in Reads
    <3> HAVE i < j /\ answer1[i].st = "value" /\ answer1[j].st = "value"
    <3>1. CASE i = h
      <4>1. j # h /\ ~(j < h)
        BY <3>1, <1>2 DEF Reads
      <4>2. w.answer[j].st = "value"
        BY <4>1, <1>9
      <4> QED BY <4>1, <4>2, <1>12
    <3>2. CASE i # h /\ j = h
      BY <3>2, <1>12, <1>9
    <3>3. CASE i # h /\ j # h
      BY <3>3, <1>9 DEF Ordered
    <3> QED BY <3>1, <3>2, <3>3
  <2>2. \A i \in Reads : answer1[i].st = "value" => answer1[i].chunk <= m
    <3> TAKE i \in Reads
    <3> HAVE answer1[i].st = "value"
    <3>1. CASE i = h
      <4>1. c <= m
        BY <1>0, <1>1, <1>6
      <4> QED BY <3>1, <4>1, <1>9
    <3>2. CASE i # h
      BY <3>2, <1>9 DEF Ordered
    <3> QED BY <3>1, <3>2
  <2>3. \A i \in Reads : answer1[i].st # "pending"
    BY <1>3, <1>9
  <2> QED BY <2>1, <2>2, <2>3, <1>11 DEF Ordered
<1>18. Stored(v, m)
  <2>1. GivenIn(answer1) = GivenIn(w.answer) \union {c}
    BY <1>0, <1>2, <1>9, <1>13, GivenMore
  <2>2. GivenIn(w.answer) = 1..(m - Len(w.stream.queue))
    BY DEF Stored
  <2>3. 1..(m - Len(w.stream.queue)) \union {c} = 1..(m - Len(queue1))
    <3>1. m - Len(w.stream.queue) \in Int
      BY <1>0, Numbers, Zenon
    <3>2. c \in Nat \ {0}
      BY <1>6 DEF Chunks
    <3> QED BY <3>1, <3>2, <1>6, OneMore
  <2>4. ASSUME NEW j \in 1..Len(queue1) PROVE queue1[j].value = m - Len(queue1) + j
    <3>1. w.stream.queue[j + 1].value = m - Len(w.stream.queue) + (j + 1) /\ queue1[j] = w.stream.queue[j + 1]
      BY <1>1 DEF Stored
    <3>2. m - Len(w.stream.queue) + (j + 1) = m - Len(queue1) + j
      BY <1>0, <1>1
    <3> QED BY <3>1, <3>2
  <2> QED BY <2>1, <2>2, <2>3, <2>4, <1>8, <1>11 DEF Stored
<1> QED BY <1>2, <1>8, <1>11, <1>14, <1>15, <1>16, <1>17, <1>18 DEF v, h

\* ... or waits.
Waiting(w, k) ==
  [w EXCEPT !.stream.requests = Append(@, k), !.answer[k] = Says("pending")]

LEMMA WaitingSound ==
  ASSUME NEW w, NEW m, NEW k, NEW n, Sound(w, m, k, n), w.stream.queue = <<>>,
         w.stream.state = "readable", w.stream.reader # 0, k < MaxReads
  PROVE  LET v == Waiting(w, k + 1)
         IN  Sound(v, m, k + 1, n) /\ v.stream.state = "readable" /\ v.pull = w.pull
<1> DEFINE v == Waiting(w, k + 1)
<1> DEFINE h == k + 1
<1> DEFINE rs == Append(w.stream.requests, h)
<1> DEFINE stream1 == [w.stream EXCEPT !.requests = rs]
<1> DEFINE answer1 == [w.answer EXCEPT ![h] = Says("pending")]
<1> USE DEF Sound, Base
<1>0. /\ w \in WorldType /\ w.stream.requests \in Seq(Reads) /\ w.stream \in StreamType
      /\ w.answer \in [Reads -> Answers] /\ k \in Nat /\ MaxReads \in Nat
  BY Fields, ConstantsAssumption
<1>1. h \in Reads /\ h \in Nat /\ h \in 0..MaxReads
  BY <1>0 DEF Reads
<1>2. v = [w EXCEPT !.stream = stream1, !.answer = answer1]
  BY <1>0 DEF Waiting, WorldType
<1>3. w.answer[h].st = "none" /\ \A i \in Reads : w.answer[i].st # "none" => i < h
  <2>1. \A i \in Reads : ~(i > k) => i < h
    BY <1>0 DEF Reads
  <2> HIDE DEF h
  <2>2. h > k
    BY <1>0 DEF h
  <2> QED BY <2>1, <2>2, <1>1 DEF Known
<1> HIDE DEF h
<1>4. /\ rs \in Seq(Reads) /\ Len(w.stream.requests) \in Nat /\ Len(rs) = Len(w.stream.requests) + 1
      /\ rs[Len(w.stream.requests) + 1] = h
      /\ \A j \in 1..Len(w.stream.requests) : rs[j] = w.stream.requests[j]
  BY <1>0, <1>1
<1> HIDE DEF rs
<1>5. /\ stream1 \in StreamType /\ stream1.requests = rs
      /\ stream1.state = "readable" /\ stream1.reader = w.stream.reader
      /\ stream1.queue = w.stream.queue /\ stream1.queueTotalSize = w.stream.queueTotalSize
      /\ stream1.pulling = w.stream.pulling
  BY <1>0, <1>4 DEF StreamType
<1>6. /\ answer1 \in [Reads -> Answers] /\ answer1[h].st = "pending"
      /\ \A i \in Reads : i # h => answer1[i] = w.answer[i]
  <2>1. Says("pending") \in Answers /\ Says("pending").st = "pending"
    BY AnswerFacts
  <2> QED BY <2>1, <1>0, <1>1
<1> HIDE DEF stream1, answer1, v
<1>7. v = [w EXCEPT !.stream = stream1, !.answer = answer1, !.closed = w.closed, !.pull = w.pull]
  BY <1>2, <1>0 DEF WorldType
<1>8. v \in WorldType /\ v.stream = stream1 /\ v.answer = answer1 /\ v.closed = w.closed /\ v.pull = w.pull
  BY <1>0, <1>5, <1>6, <1>7, Fields DEF WorldType
<1>9. Known(v, k + 1, n)
  <2>1. \A i \in Reads : answer1[i].st = "none" <=> i > k + 1
    <3> TAKE i \in Reads
    <3>1. CASE i = h
      <4>1. ~(h > k + 1)
        BY <1>0 DEF h
      <4> QED BY <3>1, <4>1, <1>6
    <3>2. CASE i # h
      <4>1. i > k + 1 <=> i > k
        BY <3>2, <1>0 DEF h, Reads
      <4> QED BY <3>2, <4>1, <1>6 DEF Known
    <3> QED BY <3>1, <3>2
  <2> QED BY <2>1, <1>5, <1>8 DEF Known
<1>10. Waits(v)
  <2>1. ASSUME NEW i \in Reads
        PROVE  answer1[i].st = "pending" <=> \E j \in 1..Len(rs) : rs[j] = i
    <3>1. CASE i = h
      <4>1. Len(w.stream.requests) + 1 \in 1..Len(rs)
        BY <1>4
      <4> QED BY <3>1, <4>1, <1>4, <1>6
    <3>2. CASE i # h
      <4>1. ASSUME NEW j \in 1..Len(rs), rs[j] = i
            PROVE  \E l \in 1..Len(w.stream.requests) : w.stream.requests[l] = i
        <5>1. j \in 1..Len(w.stream.requests) \/ j = Len(w.stream.requests) + 1
          BY <1>4
        <5> QED BY <5>1, <4>1, <3>2, <1>4
      <4>2. ASSUME NEW l \in 1..Len(w.stream.requests), w.stream.requests[l] = i
            PROVE  \E j \in 1..Len(rs) : rs[j] = i
        <5>1. l \in 1..Len(rs)
          BY <1>4
        <5> QED BY <5>1, <4>2, <1>4
      <4>3. w.answer[i].st = "pending" <=> \E j \in 1..Len(w.stream.requests) : w.stream.requests[j] = i
        BY DEF Waits
      <4> QED BY <3>2, <4>1, <4>2, <4>3, <1>6
    <3> QED BY <3>1, <3>2
  <2>2. ASSUME NEW i \in 1..Len(rs), NEW j \in 1..Len(rs), i < j PROVE rs[i] < rs[j]
    <3>1. i \in 1..Len(w.stream.requests)
      BY <2>2, <1>4
    <3>2. CASE j \in 1..Len(w.stream.requests)
      BY <2>2, <3>1, <3>2, <1>4 DEF Waits
    <3>3. CASE j = Len(w.stream.requests) + 1
      <4>1. rs[j] = h /\ rs[i] = w.stream.requests[i] /\ rs[i] \in Reads
        BY <3>1, <3>3, <1>0, <1>4
      <4>2. w.answer[rs[i]].st = "pending"
        BY <3>1, <4>1 DEF Waits
      <4> QED BY <4>1, <4>2, <1>3
    <3>4. j \in 1..Len(w.stream.requests) \/ j = Len(w.stream.requests) + 1
      BY <1>4
    <3> QED BY <3>2, <3>3, <3>4
  <2> QED BY <2>1, <2>2, <1>5, <1>8 DEF Waits
<1>11. Tells(v) /\ Flagged(v) /\ Room(v)
  BY <1>5, <1>8 DEF Tells, Flagged, Room
<1>12. Ordered(v, m)
  <2>1. \A i \in Reads : answer1[i].st = "value" <=> w.answer[i].st = "value"
    BY <1>3, <1>6
  <2>2. \A i \in Reads : answer1[i].st = "value" => answer1[i] = w.answer[i]
    BY <1>6
  <2>3. \A i, j \in Reads : answer1[i].st = "value" /\ answer1[j].st = "pending" => i < j
    <3> TAKE i, j \in Reads
    <3> HAVE answer1[i].st = "value" /\ answer1[j].st = "pending"
    <3>1. w.answer[i].st = "value" /\ i < h
      BY <2>1, <1>3
    <3>2. CASE j = h
      BY <3>1, <3>2
    <3>3. CASE j # h
      BY <3>1, <3>3, <1>6 DEF Ordered
    <3> QED BY <3>2, <3>3
  <2> QED BY <2>1, <2>2, <2>3, <1>8 DEF Ordered
<1>13. Stored(v, m)
  <2>1. \A i \in Reads : /\ answer1[i].st = "value" <=> w.answer[i].st = "value"
                         /\ answer1[i].st = "value" => answer1[i].chunk = w.answer[i].chunk
    BY <1>3, <1>6
  <2>2. GivenIn(answer1) = GivenIn(w.answer)
    BY <2>1 DEF GivenIn
  <2> QED BY <2>2, <1>5, <1>8 DEF Stored
<1> QED BY <1>1, <1>5, <1>8, <1>9, <1>10, <1>11, <1>12, <1>13 DEF v, h

-----------------------------------------------------------------------------
(***************************************************************************)
(* The steps.  Each keeps the invariant, calls pull() only when it may, and *)
(* does not end the stream, unless it says how.                            *)
(***************************************************************************)
Asks ==
  pull' = "running" /\ pull # "running" =>
    pull \in {"none", "resolved"} /\ CanCloseOrEnqueue' /\ stream'.queueTotalSize < HighWaterMark
Drained == stream'.state = "closed" => GivenIn(answer') = 1..enqueued'

LEMMA WorldFields ==
  ASSUME IInv
  PROVE  /\ World.stream = stream /\ World.answer = answer /\ World.closed = closed /\ World.pull = pull
         /\ World \in WorldType /\ Sound(World, enqueued, reads, readers)
         /\ stream \in StreamType /\ answer \in [Reads -> Answers]
         /\ closed \in [Readers -> Promise] /\ pull \in PullType
         /\ enqueued \in 0..MaxChunks /\ reads \in 0..MaxReads /\ readers \in 0..MaxReaders
<1>1. World.stream = stream /\ World.answer = answer /\ World.closed = closed /\ World.pull = pull
  BY DEF World
<1>2. /\ World \in WorldType /\ Sound(World, enqueued, reads, readers)
      /\ enqueued \in 0..MaxChunks /\ reads \in 0..MaxReads /\ readers \in 0..MaxReaders
  BY DEF IInv, Sound, Base
<1> QED BY <1>1, <1>2, Fields

LEMMA BecomesWorld ==
  ASSUME NEW w \in WorldType, Becomes(w)
  PROVE  World' = w /\ stream' = w.stream /\ answer' = w.answer /\ pull' = w.pull
BY DEF World, Becomes, WorldType

LEMMA Holds ==
  ASSUME Sound(World', enqueued', reads', readers'), start' \in Promise
  PROVE  IInv'
BY DEF IInv

\* A step that ends with _callPullIfNeeded.
LEMMA PullEnds ==
  ASSUME NEW w, Sound(w, enqueued', reads', readers'), Becomes(CallPullIfNeeded(w)),
         start' \in Promise, w.pull = pull \/ (w.pull = "none" /\ pull = "resolved")
  PROVE  IInv' /\ Asks /\ stream'.state = w.stream.state
<1> DEFINE v == CallPullIfNeeded(w)
<1>1. /\ Sound(v, enqueued', reads', readers')
      /\ v.stream.state = w.stream.state /\ v.stream.queueTotalSize = w.stream.queueTotalSize
      /\ v.stream.closeRequested = w.stream.closeRequested
      /\ v.pull # w.pull => w.pull = "none" /\ v.pull = "running" /\ ShouldPull(w)
  BY PullSound
<1>2. Becomes(v)
  OBVIOUS
<1> HIDE DEF v
<1>3. World' = v /\ stream' = v.stream /\ pull' = v.pull
  BY <1>1, <1>2, BecomesWorld DEF Sound, Base
<1>4. IInv'
  BY <1>1, <1>3, Holds
<1>5. Asks
  <2> SUFFICES ASSUME pull' = "running", pull # "running"
               PROVE  pull \in {"none", "resolved"} /\ CanCloseOrEnqueue' /\ stream'.queueTotalSize < HighWaterMark
    BY DEF Asks
  <2>1. v.pull # w.pull
    BY <1>3
  <2>2. pull \in {"none", "resolved"} /\ ShouldPull(w)
    BY <2>1, <1>1
  <2>3. w.stream.queueTotalSize \in Nat
    BY Fields DEF Sound, Base
  <2>4. w.stream.queueTotalSize < HighWaterMark
    BY <2>2, <2>3, ConstantsAssumption DEF ShouldPull
  <2>5. stream'.state = "readable" /\ ~stream'.closeRequested
    BY <2>2, <1>1, <1>3 DEF ShouldPull
  <2> QED BY <2>2, <2>4, <2>5, <1>1, <1>3 DEF CanCloseOrEnqueue
<1> QED BY <1>1, <1>3, <1>4, <1>5

\* ... and one that does not.
LEMMA StepEnds ==
  ASSUME NEW w, Sound(w, enqueued', reads', readers'), Becomes(w), start' \in Promise,
         w.pull = pull \/ w.pull = "none"
  PROVE  IInv' /\ Asks
<1>1. World' = w /\ pull' = w.pull
  BY BecomesWorld DEF Sound, Base
<1> QED BY <1>1, Holds DEF Asks

\* A step that closes the stream; nothing is lost when its queue was empty.
LEMMA Closes ==
  ASSUME NEW w, Base(w, enqueued', reads', readers'), w.stream.state = "readable",
         Becomes(End(w, "closed", "done", "resolved")), start' \in Promise, w.pull = pull
  PROVE  IInv' /\ Asks /\ (Stored(w, enqueued') /\ w.stream.queue = <<>> => Drained)
<1> DEFINE v == End(w, "closed", "done", Ending("closed"))
<1>1. Base(v, enqueued', reads', readers') /\ v.stream.state = "closed" /\ v.pull = w.pull
      /\ GivenIn(v.answer) = GivenIn(w.answer)
  BY EndBase
<1>2. Becomes(v)
  BY DEF Ending
<1> HIDE DEF v
<1>3. Sound(v, enqueued', reads', readers')
  BY <1>1 DEF Sound, Stored
<1>4. IInv' /\ Asks
  BY <1>1, <1>2, <1>3, StepEnds
<1>5. ASSUME Stored(w, enqueued'), w.stream.queue = <<>> PROVE GivenIn(answer') = 1..enqueued'
  <2>1. answer' = v.answer
    BY <1>1, <1>2, BecomesWorld DEF Base
  <2>2. enqueued' \in Nat /\ enqueued' - Len(w.stream.queue) = enqueued'
    <3>1. enqueued' \in Nat
      BY ConstantsAssumption DEF Base
    <3>2. Len(w.stream.queue) = 0
      BY <1>5, EmptyIsNone
    <3>3. \A m \in Nat : m - 0 = m
      OBVIOUS
    <3>4. enqueued' - 0 = enqueued'
      BY <3>1, <3>3, Zenon
    <3> QED BY <3>1, <3>2, <3>4, Zenon
  <2> QED BY <2>1, <2>2, <1>1, <1>5 DEF Stored
<1> QED BY <1>4, <1>5 DEF Drained

LEMMA GetReader_IInv == IInv /\ GetReader => IInv' /\ Asks /\ stream'.state = stream.state
<1> SUFFICES ASSUME IInv, GetReader PROVE IInv' /\ Asks /\ stream'.state = stream.state
  OBVIOUS
<1> DEFINE r == readers + 1
<1>0. r \in Readers /\ readers \in Nat /\ r \in 0..MaxReaders /\ r # 0 /\ stream.reader = 0
      /\ stream.state \in {"readable", "closed", "errored"}
  BY WorldFields, ConstantsAssumption DEF GetReader, Readers, StreamType
<1>1. /\ stream' = [stream EXCEPT !.reader = r] /\ readers' = r
      /\ enqueued' = enqueued /\ reads' = reads /\ answer' = answer /\ pull' = pull /\ start' = start
  BY DEF GetReader
<1>2. closed' = [closed EXCEPT ![r] = Ending(stream.state)] /\ Ending(stream.state) \in Promise \ {"none"}
  <2>1. CASE stream.state = "readable"
    BY <2>1 DEF GetReader, Ending, Promise
  <2>2. CASE stream.state = "closed"
    BY <2>2 DEF GetReader, Ending, Promise
  <2>3. CASE stream.state = "errored"
    BY <2>3 DEF GetReader, Ending, Promise
  <2> QED BY <2>1, <2>2, <2>3, <1>0
<1> HIDE DEF r
<1> DEFINE w == World
<1>3. /\ w.stream = stream /\ w.answer = answer /\ w.closed = closed /\ w.pull = pull
      /\ Sound(w, enqueued, reads, readers)
  BY WorldFields
<1> HIDE DEF w
<1>4. /\ stream' \in StreamType /\ stream'.reader = r
      /\ stream'.state = stream.state /\ stream'.queue = stream.queue /\ stream'.requests = stream.requests
      /\ stream'.queueTotalSize = stream.queueTotalSize /\ stream'.pulling = stream.pulling
  <2>1. stream \in StreamType
    BY WorldFields
  <2> QED BY <2>1, <1>0, <1>1 DEF StreamType
<1>5. /\ closed' \in [Readers -> Promise] /\ closed'[r] = Ending(stream.state)
      /\ \A q \in Readers : q # r => closed'[q] = closed[q]
  BY <1>0, <1>2, WorldFields
<1> DEFINE v == World'
<1>6. /\ v \in WorldType /\ v.stream = stream' /\ v.answer = answer
      /\ v.closed = closed' /\ v.pull = pull
  BY <1>1, <1>4, <1>5, WorldFields DEF World, WorldType
<1> HIDE DEF v
<1>7. stream.requests = <<>>
  BY <1>0, <1>3 DEF Sound, Base, Waits
<1>8. Known(v, reads, r)
  <2>1. \A q \in Readers : closed'[q] = "none" <=> q > r
    <3> TAKE q \in Readers
    <3>1. CASE q = r
      BY <3>1, <1>0, <1>2, <1>5
    <3>2. CASE q # r
      <4>1. q > readers <=> q > r
        BY <3>2, <1>0 DEF Readers, r
      <4>2. closed[q] = "none" <=> q > readers
        BY <1>3 DEF Sound, Base, Known
      <4> QED BY <3>2, <4>1, <4>2, <1>5
    <3> QED BY <3>1, <3>2
  <2>2. \A i \in Reads : answer[i].st = "none" <=> i > reads
    BY <1>3 DEF Sound, Base, Known
  <2>3. r <= r
    BY <1>0 DEF Readers
  <2> QED BY <2>1, <2>2, <2>3, <1>4, <1>6 DEF Known
<1>9. Waits(v) /\ Ordered(v, enqueued)
  BY <1>3, <1>4, <1>6, <1>7 DEF Sound, Base, Waits, Ordered
<1>10. Tells(v) /\ Flagged(v) /\ Room(v)
  BY <1>3, <1>4, <1>5, <1>6 DEF Sound, Base, Tells, Flagged, Room
<1>11. Stored(v, enqueued)
  BY <1>3, <1>4, <1>6 DEF Sound, Stored
<1>12. Sound(v, enqueued, reads, r)
  BY <1>0, <1>6, <1>8, <1>9, <1>10, <1>11, WorldFields DEF Sound, Base
<1>13. IInv'
  BY <1>1, <1>12, Holds DEF v, IInv
<1> QED BY <1>1, <1>4, <1>13 DEF Asks

LEMMA ReleaseLock_IInv == IInv /\ ReleaseLock => IInv' /\ Asks /\ stream'.state = stream.state
<1> SUFFICES ASSUME IInv, ReleaseLock PROVE IInv' /\ Asks /\ stream'.state = stream.state
  OBVIOUS
<1> DEFINE u == AnswerAll(World, "rejected")
<1> DEFINE v == [u EXCEPT !.stream.reader = 0]
<1> DEFINE stream1 == [u.stream EXCEPT !.reader = 0]
<1>0. /\ enqueued' = enqueued /\ reads' = reads /\ readers' = readers /\ start' = start
      /\ Becomes(v)
  BY DEF ReleaseLock
<1>1. /\ Base(u, enqueued, reads, readers) /\ u.stream.requests = <<>> /\ u.pull = pull
      /\ u.stream.state = stream.state /\ u.stream.queue = stream.queue
      /\ GivenIn(u.answer) = GivenIn(answer)
  BY WorldFields, AnswerAllBase DEF Sound
<1>2. Stored(u, enqueued)
  BY <1>1, WorldFields DEF Sound, Stored
<1> HIDE DEF u
<1>3. u \in WorldType
  BY <1>1 DEF Base
<1>4. v = [u EXCEPT !.stream = stream1]
  BY <1>3 DEF WorldType
<1>5. /\ stream1 \in StreamType /\ stream1.requests = <<>> /\ stream1.state = u.stream.state
      /\ stream1.reader = 0 /\ stream1.queue = u.stream.queue
      /\ stream1.queueTotalSize = u.stream.queueTotalSize /\ stream1.pulling = u.stream.pulling
  <2>1. u.stream \in StreamType /\ 0 \in 0..MaxReaders
    BY <1>3, Fields, ConstantsAssumption
  <2> QED BY <2>1, <1>1 DEF StreamType
<1> HIDE DEF stream1, v
<1>6. v = [u EXCEPT !.stream = stream1, !.answer = u.answer, !.closed = u.closed, !.pull = u.pull]
  BY <1>4, <1>3 DEF WorldType
<1>7. v \in WorldType /\ v.stream = stream1 /\ v.answer = u.answer /\ v.closed = u.closed /\ v.pull = u.pull
  BY <1>3, <1>5, <1>6, Fields DEF WorldType
<1>8. Known(v, reads, readers)
  <2>1. 0 <= readers
    BY WorldFields
  <2> QED BY <2>1, <1>1, <1>5, <1>7 DEF Base, Known
<1>9. Waits(v) /\ Ordered(v, enqueued)
  BY <1>1, <1>5, <1>7 DEF Base, Waits, Ordered
<1>10. Tells(v) /\ Flagged(v) /\ Room(v) /\ Stored(v, enqueued)
  BY <1>1, <1>2, <1>5, <1>7 DEF Base, Tells, Flagged, Room, Stored
<1>11. Sound(v, enqueued, reads, readers)
  BY <1>7, <1>8, <1>9, <1>10, WorldFields DEF Sound, Base
<1>12. start' \in Promise
  BY <1>0 DEF IInv
<1>13. IInv' /\ Asks
  BY <1>0, <1>1, <1>7, <1>11, <1>12, StepEnds
<1>14. stream' = v.stream
  BY <1>0, <1>7, BecomesWorld
<1> QED BY <1>1, <1>5, <1>7, <1>13, <1>14

LEMMA Read_IInv == IInv /\ Read => IInv' /\ Asks /\ Drained
<1> SUFFICES ASSUME IInv, Read PROVE IInv' /\ Asks /\ Drained
  OBVIOUS
<1>0. /\ enqueued' = enqueued /\ reads' = reads + 1 /\ readers' = readers /\ start' = start
      /\ stream.state = "readable" /\ stream.reader # 0 /\ reads < MaxReads
      /\ start' \in Promise
  BY DEF Read, IInv
<1>1. CASE stream.queue = <<>>
  <2> DEFINE v == Waiting(World, reads + 1)
  <2>1. Becomes(CallPullIfNeeded(v))
    BY <1>1 DEF Read, Wait, Waiting
  <2>2. Sound(v, enqueued, reads + 1, readers) /\ v.stream.state = "readable" /\ v.pull = pull
    BY <1>0, <1>1, WorldFields, WaitingSound
  <2> HIDE DEF v
  <2>3. IInv' /\ Asks /\ stream'.state = "readable"
    BY <1>0, <2>1, <2>2, PullEnds
  <2> QED BY <2>3 DEF Drained
<1>2. CASE stream.queue # <<>>
  <2> DEFINE v == Taken(World, reads + 1)
  <2>1. Becomes(IF v.stream.closeRequested /\ v.stream.queue = <<>> THEN FinishClose(v) ELSE CallPullIfNeeded(v))
    <3>1. Becomes(TakeChunk(World, reads + 1))
      BY <1>2 DEF Read
    <3>2. World.stream.queue = stream.queue
      BY WorldFields
    <3> QED BY <3>1, Zenon DEF TakeChunk, Taken
  <2>2. Sound(v, enqueued, reads + 1, readers) /\ v.stream.state = "readable" /\ v.pull = pull
    BY <1>0, <1>2, WorldFields, TakenSound, ZenonT(60)
  <2> HIDE DEF v
  <2>3. CASE v.stream.closeRequested /\ v.stream.queue = <<>>
    <3>1. Becomes(End(v, "closed", "done", "resolved"))
      BY <2>1, <2>3 DEF FinishClose
    <3>2. Base(v, enqueued', reads', readers') /\ Stored(v, enqueued')
      BY <1>0, <2>2 DEF Sound
    <3> QED BY <1>0, <2>2, <2>3, <3>1, <3>2, Closes
  <2>4. CASE ~(v.stream.closeRequested /\ v.stream.queue = <<>>)
    <3>1. Becomes(CallPullIfNeeded(v))
      BY <2>1, <2>4
    <3>2. IInv' /\ Asks /\ stream'.state = "readable"
      BY <1>0, <2>2, <3>1, PullEnds
    <3> QED BY <3>2 DEF Drained
  <2> QED BY <2>3, <2>4
<1> QED BY <1>1, <1>2

LEMMA Cancel_IInv == IInv /\ Cancel => IInv' /\ Asks
<1> SUFFICES ASSUME IInv, Cancel PROVE IInv' /\ Asks
  OBVIOUS
<1> DEFINE u == Emptied(World)
<1>0. /\ enqueued' = enqueued /\ reads' = reads /\ readers' = readers /\ start' = start
      /\ start' \in Promise /\ stream.state = "readable"
      /\ Becomes(End(u, "closed", "done", "resolved"))
  BY DEF Cancel, IInv
<1>1. Base(u, enqueued, reads, readers) /\ u.stream.state = "readable" /\ u.pull = pull
  BY <1>0, WorldFields, EmptiedBase DEF Sound
<1> HIDE DEF u
<1> QED BY <1>0, <1>1, Closes

LEMMA Enqueue_IInv ==
  ASSUME IInv, NEW z \in Sizes, Enqueue(z)
  PROVE  IInv' /\ Asks /\ stream'.state = stream.state
<1> DEFINE v == IF stream.requests # <<>> THEN Hand(World, enqueued + 1)
                ELSE Keep(World, enqueued + 1, z)
<1>0. /\ enqueued' = enqueued + 1 /\ reads' = reads /\ readers' = readers /\ start' = start
      /\ start' \in Promise /\ stream.state = "readable" /\ enqueued < MaxChunks
      /\ Becomes(CallPullIfNeeded(v)) /\ z \in Nat
  BY ConstantsAssumption DEF Enqueue, IInv, CanCloseOrEnqueue
<1>1. Sound(v, enqueued + 1, reads, readers)
  <2>1. CASE stream.requests # <<>>
    BY <2>1, <1>0, WorldFields, HandSound
  <2>2. CASE stream.requests = <<>>
    BY <2>2, <1>0, WorldFields, KeepSound
  <2> QED BY <2>1, <2>2
<1>2. v.stream.state = stream.state /\ v.pull = pull
  BY WorldFields DEF Hand, Keep, WorldType, StreamType
<1> HIDE DEF v
<1> QED BY <1>0, <1>1, <1>2, PullEnds

\* A step that ends with error().
LEMMA Errors ==
  ASSUME NEW w, Sound(w, enqueued', reads', readers'), Becomes(Error(w)), start' \in Promise,
         w.pull = pull \/ w.pull = "none"
  PROVE  /\ IInv' /\ Asks /\ (w.stream.state = "readable" => stream'.state = "errored")
         /\ w.stream.state # "readable" => stream'.state = w.stream.state
<1> DEFINE v == Error(w)
<1>1. /\ Sound(v, enqueued', reads', readers') /\ v.pull = w.pull
      /\ w.stream.state = "readable" => v.stream.state = "errored"
      /\ w.stream.state # "readable" => v = w
  BY ErrorSound
<1>2. Becomes(v)
  OBVIOUS
<1> HIDE DEF v
<1>3. stream' = v.stream
  BY <1>1, <1>2, BecomesWorld DEF Sound, Base
<1>4. IInv' /\ Asks
  BY <1>1, <1>2, StepEnds
<1> QED BY <1>1, <1>3, <1>4

LEMMA ErrorSource_IInv ==
  ASSUME IInv, ErrorSource
  PROVE  IInv' /\ Asks /\ (stream.state = "readable" => stream'.state # "closed")
<1>1. /\ Becomes(Error(World)) /\ enqueued' = enqueued /\ reads' = reads /\ readers' = readers
      /\ start' \in Promise
  BY DEF ErrorSource, IInv
<1>2. Sound(World, enqueued', reads', readers') /\ World.pull = pull /\ World.stream = stream
  BY <1>1, WorldFields
<1> QED BY <1>1, <1>2, Errors

LEMMA CloseSource_IInv == IInv /\ CloseSource => IInv' /\ Asks /\ Drained
<1> SUFFICES ASSUME IInv, CloseSource PROVE IInv' /\ Asks /\ Drained
  OBVIOUS
<1> DEFINE v == [World EXCEPT !.stream.closeRequested = TRUE]
<1> DEFINE stream1 == [stream EXCEPT !.closeRequested = TRUE]
<1>0. /\ enqueued' = enqueued /\ reads' = reads /\ readers' = readers /\ start' = start
      /\ start' \in Promise /\ stream.state = "readable"
      /\ Becomes(IF v.stream.queue = <<>> THEN FinishClose(v) ELSE v)
  BY DEF CloseSource, IInv, CanCloseOrEnqueue
<1> DEFINE w == World
<1>1. /\ w.stream = stream /\ w.answer = answer /\ w.closed = closed /\ w.pull = pull
      /\ Sound(w, enqueued, reads, readers) /\ w \in WorldType /\ stream \in StreamType
  BY WorldFields
<1>2. v = [w EXCEPT !.stream = stream1]
  BY <1>1 DEF WorldType
<1> HIDE DEF w
<1>3. /\ stream1 \in StreamType /\ stream1.requests = stream.requests /\ stream1.state = "readable"
      /\ stream1.reader = stream.reader /\ stream1.queue = stream.queue
      /\ stream1.queueTotalSize = stream.queueTotalSize /\ stream1.pulling = stream.pulling
  BY <1>0, <1>1 DEF StreamType
<1> HIDE DEF stream1, v
<1>4. v = [w EXCEPT !.stream = stream1, !.answer = w.answer, !.closed = w.closed, !.pull = w.pull]
  BY <1>2, <1>1 DEF WorldType
<1>5. v \in WorldType /\ v.stream = stream1 /\ v.answer = w.answer /\ v.closed = w.closed /\ v.pull = w.pull
  BY <1>1, <1>3, <1>4, Fields DEF WorldType
<1>6. Known(v, reads, readers)
  BY <1>1, <1>3, <1>5 DEF Sound, Base, Known
<1>7. Waits(v) /\ Ordered(v, enqueued)
  BY <1>0, <1>1, <1>3, <1>5 DEF Sound, Base, Waits, Ordered
<1>8. Tells(v) /\ Flagged(v) /\ Room(v) /\ Stored(v, enqueued)
  BY <1>0, <1>1, <1>3, <1>5 DEF Sound, Base, Tells, Flagged, Room, Stored
<1>9. Sound(v, enqueued, reads, readers)
  BY <1>5, <1>6, <1>7, <1>8, WorldFields DEF Sound, Base
<1>10. CASE v.stream.queue = <<>>
  <2>1. Becomes(End(v, "closed", "done", "resolved"))
    BY <1>0, <1>10 DEF FinishClose
  <2>2. Base(v, enqueued', reads', readers') /\ Stored(v, enqueued')
    BY <1>0, <1>9 DEF Sound
  <2> QED BY <1>0, <1>1, <1>3, <1>5, <1>10, <2>1, <2>2, Closes
<1>11. CASE v.stream.queue # <<>>
  <2>1. Becomes(v)
    BY <1>0, <1>11
  <2>2. IInv' /\ Asks
    BY <2>1, <1>0, <1>1, <1>5, <1>9, StepEnds
  <2>3. stream' = v.stream
    BY <2>1, <1>5, BecomesWorld
  <2> QED BY <2>2, <2>3, <1>3, <1>5 DEF Drained
<1> QED BY <1>10, <1>11

LEMMA Started_IInv ==
  ASSUME IInv, Started
  PROVE  IInv' /\ Asks /\ (stream.state = "readable" => stream'.state # "closed")
<1>0. enqueued' = enqueued /\ reads' = reads /\ readers' = readers
  BY DEF Started
<1>1. Sound(World, enqueued', reads', readers') /\ World.pull = pull /\ World.stream = stream
  BY <1>0, WorldFields
<1>2. CASE start' = "resolved" /\ Becomes(CallPullIfNeeded(World))
  <2>1. start' \in Promise
    BY <1>2 DEF Promise
  <2> QED BY <1>1, <1>2, <2>1, PullEnds
<1>3. CASE start' = "rejected" /\ Becomes(Error(World))
  <2>1. start' \in Promise
    BY <1>3 DEF Promise
  <2> QED BY <1>1, <1>3, <2>1, Errors
<1> QED BY <1>2, <1>3 DEF Started

LEMMA PullMoves ==
  ASSUME IInv, PullReturns \/ \E how \in {"resolved", "rejected"} : PullSettles(how)
  PROVE  IInv' /\ Asks /\ stream'.state = stream.state
<1>1. /\ stream' = stream /\ answer' = answer /\ closed' = closed /\ enqueued' = enqueued
      /\ reads' = reads /\ readers' = readers /\ start' = start
      /\ pull' \in {"pending", "resolved", "rejected"} /\ pull # "none"
  BY DEF PullReturns, PullSettles
<1> DEFINE w == World
<1>2. /\ w.stream = stream /\ w.answer = answer /\ w.closed = closed /\ w.pull = pull
      /\ Sound(w, enqueued, reads, readers)
  BY WorldFields
<1> HIDE DEF w
<1> DEFINE v == World'
<1>3. v \in WorldType /\ v.stream = stream /\ v.answer = answer /\ v.closed = closed /\ v.pull = pull'
  BY <1>1, WorldFields DEF World, WorldType, PullType, Promise
<1> HIDE DEF v
<1>4. Known(v, reads, readers)
  BY <1>2, <1>3 DEF Sound, Base, Known
<1>5. Waits(v) /\ Ordered(v, enqueued)
  BY <1>2, <1>3 DEF Sound, Base, Waits, Ordered
<1>6. Tells(v) /\ Flagged(v) /\ Room(v) /\ Stored(v, enqueued)
  BY <1>1, <1>2, <1>3 DEF Sound, Base, Tells, Flagged, Room, Stored
<1>7. Sound(v, enqueued, reads, readers)
  BY <1>3, <1>4, <1>5, <1>6, WorldFields DEF Sound, Base
<1>8. start' \in Promise
  BY <1>1 DEF IInv
<1> QED BY <1>1, <1>7, <1>8, Holds DEF v, Asks

\* How the handlers of pull() begin.
LEMMA PulledSound ==
  ASSUME IInv, NEW again \in BOOLEAN, NEW v,
         v = IF again THEN [Pulled EXCEPT !.stream.pullAgain = FALSE] ELSE Pulled
  PROVE  Sound(v, enqueued, reads, readers) /\ v.pull = "none" /\ v.stream.state = stream.state
<1> DEFINE w == World
<1> DEFINE stream1 == IF again THEN [stream EXCEPT !.pulling = FALSE, !.pullAgain = FALSE]
                      ELSE [stream EXCEPT !.pulling = FALSE]
<1>1. /\ w.stream = stream /\ w.answer = answer /\ w.closed = closed /\ w.pull = pull
      /\ Sound(w, enqueued, reads, readers) /\ w \in WorldType /\ stream \in StreamType
  BY WorldFields
<1>2. v = [w EXCEPT !.stream = stream1, !.pull = "none"]
  <2>1. CASE again
    BY <1>1, <2>1 DEF Pulled, WorldType
  <2>2. CASE ~again
    BY <1>1, <2>2 DEF Pulled, WorldType
  <2> QED BY <2>1, <2>2
<1> HIDE DEF w
<1>3. /\ stream1 \in StreamType /\ stream1.requests = stream.requests /\ stream1.state = stream.state
      /\ stream1.reader = stream.reader /\ stream1.queue = stream.queue
      /\ stream1.queueTotalSize = stream.queueTotalSize /\ stream1.pulling = FALSE
  <2>1. CASE again
    BY <1>1, <2>1 DEF StreamType
  <2>2. CASE ~again
    BY <1>1, <2>2 DEF StreamType
  <2> QED BY <2>1, <2>2
<1> HIDE DEF stream1
<1>4. v = [w EXCEPT !.stream = stream1, !.answer = w.answer, !.closed = w.closed, !.pull = "none"]
  BY <1>2, <1>1 DEF WorldType
<1>5. v \in WorldType /\ v.stream = stream1 /\ v.answer = w.answer /\ v.closed = w.closed /\ v.pull = "none"
  BY <1>1, <1>3, <1>4, Fields DEF WorldType, PullType, Promise
<1>6. Known(v, reads, readers)
  BY <1>1, <1>3, <1>5 DEF Sound, Base, Known
<1>7. Waits(v) /\ Ordered(v, enqueued)
  <2>1. Waits(w) /\ Ordered(w, enqueued)
    BY <1>1 DEF Sound, Base
  <2>2. Waits(v)
    <3>1. /\ v.answer = w.answer /\ v.stream.requests = w.stream.requests
          /\ v.stream.state = w.stream.state /\ v.stream.queue = w.stream.queue
          /\ v.stream.reader = w.stream.reader
      BY <1>1, <1>3, <1>5
    <3>2. /\ \A i \in Reads : v.answer[i].st = "pending" <=>
                \E j \in 1..Len(v.stream.requests) : v.stream.requests[j] = i
          /\ \A i, j \in 1..Len(v.stream.requests) :
               i < j => v.stream.requests[i] < v.stream.requests[j]
      BY <2>1, <3>1 DEF Waits
    <3>3. v.stream.requests # <<>> =>
            v.stream.state = "readable" /\ v.stream.queue = <<>> /\ v.stream.reader # 0
      BY <2>1, <3>1 DEF Waits
    <3> QED BY <3>2, <3>3 DEF Waits
  <2>3. Ordered(v, enqueued)
    BY <2>1, <1>3, <1>5 DEF Ordered
  <2> QED BY <2>2, <2>3
<1>8. Tells(v) /\ Flagged(v) /\ Room(v) /\ Stored(v, enqueued)
  BY <1>1, <1>3, <1>5, ZenonT(60) DEF Sound, Base, Tells, Flagged, Room, Stored
<1> QED BY <1>3, <1>5, <1>6, <1>7, <1>8, WorldFields DEF Sound, Base

LEMMA PullDone_IInv ==
  ASSUME IInv, PullDone
  PROVE  IInv' /\ Asks /\ stream'.state = stream.state
<1>0. /\ enqueued' = enqueued /\ reads' = reads /\ readers' = readers /\ start' \in Promise
      /\ pull = "resolved"
  BY DEF PullDone, IInv
<1>1. CASE stream.pullAgain
  <2> DEFINE v == [Pulled EXCEPT !.stream.pullAgain = FALSE]
  <2>1. Sound(v, enqueued, reads, readers) /\ v.pull = "none" /\ v.stream.state = stream.state
    <3>1. v = IF TRUE THEN [Pulled EXCEPT !.stream.pullAgain = FALSE] ELSE Pulled
      OBVIOUS
    <3> HIDE DEF v
    <3> QED BY <3>1, PulledSound
  <2>2. Becomes(CallPullIfNeeded(v))
    BY <1>1 DEF PullDone
  <2> HIDE DEF v
  <2> QED BY <1>0, <2>1, <2>2, PullEnds
<1>2. CASE ~stream.pullAgain
  <2> DEFINE v == Pulled
  <2>1. Sound(v, enqueued, reads, readers) /\ v.pull = "none" /\ v.stream.state = stream.state
    <3>1. v = IF FALSE THEN [Pulled EXCEPT !.stream.pullAgain = FALSE] ELSE Pulled
      OBVIOUS
    <3> HIDE DEF v
    <3> QED BY <3>1, PulledSound
  <2>2. Becomes(v)
    BY <1>2 DEF PullDone
  <2> HIDE DEF v
  <2>3. IInv' /\ Asks
    BY <1>0, <2>1, <2>2, StepEnds
  <2>4. stream' = v.stream
    BY <2>1, <2>2, BecomesWorld DEF Sound, Base
  <2> QED BY <2>1, <2>3, <2>4
<1> QED BY <1>1, <1>2

LEMMA PullFails_IInv ==
  ASSUME IInv, PullFailed \/ PullThrows
  PROVE  IInv' /\ Asks /\ (stream.state = "readable" => stream'.state # "closed")
<1> DEFINE v == Pulled
<1>0. /\ enqueued' = enqueued /\ reads' = reads /\ readers' = readers /\ start' \in Promise
      /\ Becomes(Error(v))
  BY DEF PullFailed, PullThrows, PullFails, IInv
<1>1. Sound(v, enqueued, reads, readers) /\ v.pull = "none" /\ v.stream.state = stream.state
  <2>1. v = IF FALSE THEN [Pulled EXCEPT !.stream.pullAgain = FALSE] ELSE Pulled
    OBVIOUS
  <2> HIDE DEF v
  <2> QED BY <2>1, PulledSound
<1> HIDE DEF v
<1> QED BY <1>0, <1>1, Errors

LEMMA Stutter_IInv == IInv /\ UNCHANGED vars => IInv' /\ Asks /\ stream'.state = stream.state
<1> SUFFICES ASSUME IInv, UNCHANGED vars PROVE IInv' /\ Asks /\ stream'.state = stream.state
  OBVIOUS
<1>1. World' = World /\ Sound(World, enqueued, reads, readers) /\ start \in Promise
  BY DEF IInv, World, vars
<1>2. IInv'
  BY <1>1, Holds DEF vars
<1> QED BY <1>2 DEF Asks, vars

LEMMA Init_IInv == Init => IInv
<1> SUFFICES ASSUME Init PROVE IInv
  OBVIOUS
<1> USE ConstantsAssumption
<1>1. stream \in StreamType
  <2>1. PICK q \in Seq(Reads) : q = <<>>
    BY EmptyIsNone
  <2>2. PICK p \in Seq(Item) : p = <<>>
    BY EmptyIsNone
  <2>3. stream = [state |-> "readable", reader |-> 0, requests |-> q,
               queue |-> p, queueTotalSize |-> 0, closeRequested |-> FALSE,
               pulling |-> FALSE, pullAgain |-> FALSE]
    BY <2>1, <2>2 DEF Init
  <2> QED BY <2>3 DEF StreamType
<1> DEFINE w == World
<1>2. /\ w.stream = stream /\ w.answer = answer /\ w.closed = closed /\ w.pull = "none"
      /\ stream.state = "readable" /\ stream.queue = <<>> /\ stream.queueTotalSize = 0
      /\ stream.requests = <<>> /\ stream.pulling = FALSE /\ stream.reader = 0
      /\ enqueued = 0 /\ reads = 0 /\ readers = 0 /\ start \in Promise
  BY DEF Init, World, Promise
<1>3. /\ answer \in [Reads -> Answers] /\ \A i \in Reads : answer[i].st = "none" /\ i > 0
      /\ closed \in [Readers -> Promise] /\ \A r \in Readers : closed[r] = "none" /\ r > 0
  BY AnswerFacts DEF Init, Reads, Readers, Promise
<1>4. w \in WorldType
  BY <1>1, <1>2, <1>3 DEF World, WorldType, PullType, Promise
<1> HIDE DEF w
<1>5. Known(w, 0, 0)
  BY <1>2, <1>3 DEF Known
<1>6. Waits(w)
  <2>1. \A j \in 1..Len(<<>>) : FALSE
    BY EmptyIsNone
  <2> QED BY <2>1, <1>2, <1>3 DEF Waits
<1>7. Ordered(w, 0) /\ Tells(w) /\ Flagged(w) /\ Room(w)
  BY <1>2, <1>3, TotalEmpty DEF Ordered, Tells, Flagged, Room
<1>8. Stored(w, 0)
  <2>1. GivenIn(answer) = {}
    BY <1>3 DEF GivenIn
  <2>2. 0 - 0 = 0 /\ 1..0 = {} /\ Len(<<>>) = 0
    BY EmptyIsNone
  <2> QED BY <2>1, <2>2, <1>2 DEF Stored
<1> QED BY <1>2, <1>4, <1>5, <1>6, <1>7, <1>8 DEF IInv, Sound, Base, w

\* What every step does.
Ends == stream.state = "readable" /\ stream'.state = "closed" => Cancel \/ Drained

LEMMA NextSteps == IInv /\ [Next]_vars => IInv' /\ Asks /\ Ends
<1> SUFFICES ASSUME IInv, [Next]_vars PROVE IInv' /\ Asks /\ Ends
  OBVIOUS
<1>1. CASE GetReader
  BY <1>1, GetReader_IInv DEF Ends
<1>2. CASE ReleaseLock
  BY <1>2, ReleaseLock_IInv DEF Ends
<1>3. CASE Read
  BY <1>3, Read_IInv DEF Ends
<1>4. CASE ReadEnded \/ Refuse \/ UNCHANGED vars
  BY <1>4, Stutter_IInv DEF ReadEnded, Refuse, Ends
<1>5. CASE Cancel
  BY <1>5, Cancel_IInv DEF Ends
<1>6. CASE \E z \in Sizes : Enqueue(z)
  BY <1>6, Enqueue_IInv DEF Ends
<1>7. CASE ErrorSource
  BY <1>7, ErrorSource_IInv DEF Ends
<1>8. CASE CloseSource
  BY <1>8, CloseSource_IInv DEF Ends
<1>9. CASE Started
  BY <1>9, Started_IInv DEF Ends
<1>10. CASE PullReturns \/ \E how \in {"resolved", "rejected"} : PullSettles(how)
  BY <1>10, PullMoves DEF Ends
<1>11. CASE PullDone
  BY <1>11, PullDone_IInv DEF Ends
<1>12. CASE PullFailed \/ PullThrows
  BY <1>12, PullFails_IInv DEF Ends
<1> QED BY <1>1, <1>2, <1>3, <1>4, <1>5, <1>6, <1>7, <1>8, <1>9, <1>10, <1>11, <1>12 DEF Next, Job

\* The invariant the theorems below follow from.
THEOREM Invariant == Spec => []IInv
BY Init_IInv, NextSteps, PTL DEF Spec

-----------------------------------------------------------------------------
(***************************************************************************)
(* The theorems.                                                           *)
(***************************************************************************)
\* The fields keep their types, and promises exist for exactly the calls of
\* read() on an open stream and the readers that getReader() made.
THEOREM TypeCorrect == Spec => []TypeOK
<1>1. IInv => TypeOK
  <2> SUFFICES ASSUME IInv PROVE TypeOK
    OBVIOUS
  <2>1. Known(World, reads, readers) /\ start \in Promise
    BY DEF IInv, Sound, Base
  <2>2. /\ stream.reader <= readers
        /\ \A k \in Reads : answer[k].st = "none" <=> k > reads
        /\ \A r \in Readers : closed[r] = "none" <=> r > readers
    BY <2>1, WorldFields DEF Known
  <2> QED BY <2>1, <2>2, WorldFields DEF TypeOK
<1> QED BY <1>1, Invariant, PTL

\* The chunks the reads were given, as the model counts them.
LEMMA GivenAll ==
  ASSUME IInv
  PROVE  Given(reads) = GivenIn(answer) /\ 1..reads \subseteq Reads
<1>1. \A i \in Reads : answer[i].st = "none" <=> i > reads
  BY WorldFields DEF IInv, Sound, Base, Known
<1>2. reads \in Nat /\ reads <= MaxReads /\ MaxReads \in Nat
  BY WorldFields, ConstantsAssumption
<1>3. 1..reads \subseteq Reads /\ \A i \in Reads : ~(i > reads) => i \in 1..reads
  BY <1>2 DEF Reads
<1>4. {i \in 1..reads : answer[i].st = "value"} = {i \in Reads : answer[i].st = "value"}
  BY <1>1, <1>3
<1> QED BY <1>3, <1>4 DEF Given, GivenIn

LEMMA GivenAllNext ==
  ASSUME IInv'
  PROVE  Given(reads)' = GivenIn(answer')
<1>1. \A i \in Reads : answer'[i].st = "none" <=> i > reads'
  <2>1. Sound(World', enqueued', reads', readers')
    BY DEF IInv
  <2>2. World'.answer = answer'
    BY DEF World
  <2> QED BY <2>1, <2>2 DEF Sound, Base, Known
<1>2. reads' \in Nat /\ reads' <= MaxReads /\ MaxReads \in Nat
  BY ConstantsAssumption DEF IInv, Sound, Base
<1>3. 1..reads' \subseteq Reads /\ \A i \in Reads : ~(i > reads') => i \in 1..reads'
  BY <1>2 DEF Reads
<1>4. {i \in 1..reads' : answer'[i].st = "value"} = {i \in Reads : answer'[i].st = "value"}
  BY <1>1, <1>3
<1> QED BY <1>4 DEF Given, GivenIn

\* No chunk is lost, handed out twice or overtaken between enqueue() and read(),
\* and queueTotalSize is what the queue holds.
THEOREM ChunksKeepOrder == Spec => []ChunksInOrder
<1>1. IInv => ChunksInOrder
  <2> SUFFICES ASSUME IInv PROVE ChunksInOrder
    OBVIOUS
  <2>1. Ordered(World, enqueued) /\ Stored(World, enqueued) /\ Room(World)
    BY DEF IInv, Sound, Base
  <2>2. \A j, k \in 1..reads :
          j < k /\ answer[j].st = "value" /\ answer[k].st = "value" => answer[j].chunk < answer[k].chunk
    BY <2>1, WorldFields, GivenAll DEF Ordered
  <2>3. stream.state = "readable" =>
          /\ Given(reads) = 1..(enqueued - Len(stream.queue))
          /\ \A j \in 1..Len(stream.queue) : stream.queue[j].value = enqueued - Len(stream.queue) + j
    BY <2>1, WorldFields, GivenAll DEF Stored
  <2>4. stream.queueTotalSize = TotalSize(stream.queue)
    BY <2>1, WorldFields DEF Room
  <2> QED BY <2>2, <2>3, <2>4 DEF ChunksInOrder
<1> QED BY <1>1, Invariant, PTL

\* A read waits only in the list of the reader that has the lock of an open stream
\* with nothing to give, and that reader is told how the stream ended.
THEOREM WaitingIsHeard == Spec => []ReadersHear
<1>1. IInv => ReadersHear
  <2> SUFFICES ASSUME IInv PROVE ReadersHear
    OBVIOUS
  <2>1. Waits(World) /\ Tells(World)
    BY DEF IInv, Sound, Base
  <2>2. /\ \A k \in Reads :
             answer[k].st = "pending" <=> \E j \in 1..Len(stream.requests) : stream.requests[j] = k
        /\ stream.requests # <<>> =>
             stream.state = "readable" /\ stream.queue = <<>> /\ stream.reader # 0
    BY <2>1, WorldFields DEF Waits
  <2>3. stream.reader # 0 => closed[stream.reader] = Ending(stream.state)
    BY <2>1, WorldFields DEF Tells
  <2>4. Ending(stream.state) = CASE stream.state = "readable" -> "pending"
                                 [] stream.state = "closed" -> "resolved"
                                 [] OTHER -> "rejected"
    BY DEF Ending
  <2> QED BY <2>2, <2>3, <2>4 DEF ReadersHear
<1> QED BY <1>1, Invariant, PTL

\* close() ends the stream only when every chunk was given to a read.
THEOREM ClosesWhenDrained == Spec => ClosedWhenDrained
<1>1. IInv /\ IInv' /\ [Next]_vars =>
        [stream.state = "readable" /\ stream'.state = "closed" =>
           Cancel \/ Given(reads)' = 1..enqueued']_vars
  <2> SUFFICES ASSUME IInv, IInv', [Next]_vars, stream.state = "readable", stream'.state = "closed"
               PROVE  Cancel \/ Given(reads)' = 1..enqueued'
    OBVIOUS
  <2>1. Cancel \/ GivenIn(answer') = 1..enqueued'
    BY NextSteps DEF Ends, Drained
  <2>2. (Given(reads) = GivenIn(answer))'
    BY GivenAllNext
  <2> QED BY <2>1, <2>2
<1> QED BY <1>1, Invariant, PTL DEF Spec, ClosedWhenDrained

\* pull() is called for an open stream with room, one call at a time.
THEOREM PullsOneByOne == Spec => OnePull
<1>1. IInv /\ [Next]_vars =>
        [pull' = "running" /\ pull # "running" =>
           /\ pull \in {"none", "resolved"}
           /\ CanCloseOrEnqueue'
           /\ stream'.queueTotalSize < HighWaterMark]_vars
  BY NextSteps DEF Asks
<1> QED BY <1>1, Invariant, PTL DEF Spec, OnePull

-----------------------------------------------------------------------------
(***************************************************************************)
(* The end of the stream.  Streams that are joined to others rest on it.   *)
(***************************************************************************)
\* An ended stream stays so; only close() asks for the end, and a stream that
\* is not cancelled is closed only when it was asked for.
EndStays ==
  /\ stream.state # "readable" => stream'.state = stream.state
  /\ stream.closeRequested = TRUE => stream'.closeRequested = TRUE
  /\ stream'.closeRequested = TRUE => stream.closeRequested = TRUE \/ CloseSource
  /\ stream.state = "readable" /\ stream'.state = "closed" => Cancel \/ stream'.closeRequested = TRUE

\* What the methods make of the fields that tell the end.
LEMMA AnswerAllKeeps ==
  ASSUME NEW w \in WorldType, NEW st
  PROVE  LET v == AnswerAll(w, st)
         IN  /\ v.stream.closeRequested = w.stream.closeRequested
             /\ v.stream.state = w.stream.state
BY DEF AnswerAll, WorldType, StreamType

LEMMA EndKeeps ==
  ASSUME NEW w \in WorldType, NEW state, NEW st, NEW how
  PROVE  LET v == End(w, state, st, how)
         IN  /\ v.stream.closeRequested = w.stream.closeRequested
             /\ v.stream.state = state
<1> DEFINE a == AnswerAll(w, st)
<1> DEFINE r == w.stream.reader
<1>1. CASE r = 0
  BY <1>1 DEF End, WorldType, StreamType
<1>2. CASE r # 0
  <2>1. a.stream = [w.stream EXCEPT !.requests = <<>>]
    BY DEF AnswerAll, WorldType
  <2>2. DOMAIN a = DOMAIN w
    BY DEF AnswerAll, WorldType
  <2>3. a.stream.closeRequested = w.stream.closeRequested
    BY AnswerAllKeeps
  <2>4. End(w, state, st, how) = [a EXCEPT !.stream.state = state, !.closed[r] = Settle(@, how)]
    BY <1>2 DEF End
  <2> HIDE DEF a
  <2>5. "stream" \in DOMAIN a /\ "state" \in DOMAIN a.stream /\ "closeRequested" \in DOMAIN a.stream
    BY <2>1, <2>2 DEF WorldType, StreamType
  <2>6. End(w, state, st, how).stream = [a.stream EXCEPT !.state = state]
    BY <2>4, <2>5
  <2> QED BY <2>3, <2>5, <2>6
<1> QED BY <1>1, <1>2

LEMMA EmptiedKeeps ==
  ASSUME NEW w \in WorldType
  PROVE  /\ Emptied(w).stream.closeRequested = w.stream.closeRequested
         /\ Emptied(w).stream.state = w.stream.state
BY DEF Emptied, WorldType, StreamType

LEMMA ErrorKeeps ==
  ASSUME NEW w, NEW m, NEW k, NEW n, Base(w, m, k, n)
  PROVE  /\ Error(w).stream.closeRequested = w.stream.closeRequested
         /\ w.stream.state # "readable" => Error(w).stream.state = w.stream.state
         /\ w.stream.state = "readable" => Error(w).stream.state = "errored"
<1>1. CASE w.stream.state # "readable"
  BY <1>1 DEF Error
<1>2. CASE w.stream.state = "readable"
  <2> DEFINE u == Emptied(w)
  <2>1. Error(w) = End(u, "errored", "rejected", "rejected")
    BY <1>2 DEF Error
  <2>2. u.stream.closeRequested = w.stream.closeRequested
    BY EmptiedKeeps DEF Base
  <2>3. u \in WorldType
    <3>1. Base(u, m, k, n)
      BY <1>2, EmptiedBase
    <3> QED BY <3>1 DEF Base
  <2> HIDE DEF u
  <2> QED BY <1>2, <2>1, <2>2, <2>3, EndKeeps
<1> QED BY <1>1, <1>2

\* A step that ends with _callPullIfNeeded or by closing.
LEMMA PullEndStays ==
  ASSUME NEW w, NEW m, NEW k, NEW n, Sound(w, m, k, n),
         Becomes(CallPullIfNeeded(w)) \/ Becomes(w),
         w.stream.state = stream.state, w.stream.closeRequested = stream.closeRequested
  PROVE  EndStays
<1> DEFINE v == CallPullIfNeeded(w)
<1>1. v.stream.state = w.stream.state /\ v.stream.closeRequested = w.stream.closeRequested
  BY PullSound
<1>2. stream' = v.stream \/ stream' = w.stream
  BY DEF Becomes
<1> HIDE DEF v
<1> QED BY <1>1, <1>2 DEF EndStays

LEMMA CloseAsks == IInv /\ CloseSource => stream'.closeRequested = TRUE
<1> SUFFICES ASSUME IInv, CloseSource PROVE stream'.closeRequested = TRUE
  OBVIOUS
<1> DEFINE v == [World EXCEPT !.stream.closeRequested = TRUE]
<1>1. v.stream.closeRequested = TRUE /\ v \in WorldType
  BY WorldFields DEF WorldType, StreamType
<1>2. stream' = IF v.stream.queue = <<>> THEN End(v, "closed", "done", "resolved").stream ELSE v.stream
  BY DEF CloseSource, FinishClose, Becomes
<1> HIDE DEF v
<1> QED BY <1>1, <1>2, EndKeeps

LEMMA ErrorEnds ==
  ASSUME IInv, ErrorSource
  PROVE  /\ stream'.closeRequested = stream.closeRequested
         /\ stream'.state = IF stream.state = "readable" THEN "errored" ELSE stream.state
<1>1. stream' = Error(World).stream
  BY DEF ErrorSource, Becomes
<1> QED BY <1>1, WorldFields, ErrorKeeps DEF Sound

LEMMA PullDoneKeeps ==
  ASSUME IInv, PullDone
  PROVE  stream'.state = stream.state /\ stream'.closeRequested = stream.closeRequested
<1> DEFINE v == IF stream.pullAgain THEN [Pulled EXCEPT !.stream.pullAgain = FALSE] ELSE Pulled
<1> DEFINE u == CallPullIfNeeded(v)
<1>1. stream' = u.stream \/ stream' = v.stream
  BY DEF PullDone, Becomes
<1>2. Sound(v, enqueued, reads, readers) /\ v.stream.state = stream.state
  <2>1. stream.pullAgain \in BOOLEAN
    BY WorldFields DEF StreamType
  <2> HIDE DEF v
  <2> QED BY <2>1, PulledSound DEF v
<1>3. v.stream.closeRequested = stream.closeRequested
  BY WorldFields DEF Pulled, WorldType, StreamType
<1> HIDE DEF v
<1>4. u.stream.state = v.stream.state /\ u.stream.closeRequested = v.stream.closeRequested
  BY <1>2, PullSound
<1> HIDE DEF u
<1> QED BY <1>1, <1>2, <1>3, <1>4

LEMMA NextEndStays == IInv /\ [Next]_vars => EndStays
<1> SUFFICES ASSUME IInv, [Next]_vars PROVE EndStays
  OBVIOUS
<1>0. /\ World \in WorldType /\ Sound(World, enqueued, reads, readers) /\ World.stream = stream
      /\ stream \in StreamType
  BY WorldFields
<1>1. CASE GetReader
  BY <1>0, <1>1 DEF GetReader, EndStays, StreamType
<1>2. CASE ReleaseLock
  <2> DEFINE a == AnswerAll(World, "rejected")
  <2>1. a \in WorldType /\ a.stream.state = stream.state /\ a.stream.closeRequested = stream.closeRequested
    <3>1. Base(a, enqueued, reads, readers)
      BY <1>0, AnswerAllBase DEF Sound
    <3>2. a.stream.state = stream.state /\ a.stream.closeRequested = stream.closeRequested
      BY <1>0, AnswerAllKeeps
    <3> HIDE DEF a
    <3> QED BY <3>1, <3>2 DEF Base
  <2>2. stream' = [a EXCEPT !.stream.reader = 0].stream
    BY <1>2 DEF ReleaseLock, Becomes
  <2> HIDE DEF a
  <2>3. stream'.state = a.stream.state /\ stream'.closeRequested = a.stream.closeRequested
    BY <2>1, <2>2 DEF WorldType, StreamType
  <2> QED BY <2>1, <2>3 DEF EndStays
<1>3. CASE Read
  <2>0. stream.state = "readable" /\ stream.reader # 0 /\ reads < MaxReads
    BY <1>3 DEF Read
  <2>1. CASE stream.queue = <<>>
    <3> DEFINE v == Waiting(World, reads + 1)
    <3>1. Becomes(CallPullIfNeeded(v))
      BY <1>3, <2>1 DEF Read, Wait, Waiting
    <3>2. Sound(v, enqueued, reads + 1, readers) /\ v.stream.state = "readable"
      BY <1>0, <2>0, <2>1, WaitingSound
    <3>3. v.stream.closeRequested = stream.closeRequested
      BY <1>0 DEF Waiting, WorldType, StreamType
    <3> HIDE DEF v
    <3> QED BY <2>0, <3>1, <3>2, <3>3, PullEndStays
  <2>2. CASE stream.queue # <<>>
    <3> DEFINE v == Taken(World, reads + 1)
    <3>1. Becomes(IF v.stream.closeRequested /\ v.stream.queue = <<>> THEN FinishClose(v) ELSE CallPullIfNeeded(v))
      <4>1. Becomes(TakeChunk(World, reads + 1))
        BY <1>3, <2>2 DEF Read
      <4>2. World.stream.queue = stream.queue
        BY <1>0
      <4> QED BY <4>1, Zenon DEF TakeChunk, Taken
    <3>2. /\ Sound(v, enqueued, reads + 1, readers) /\ v.stream.state = "readable"
          /\ v.stream.closeRequested = stream.closeRequested
      BY <1>0, <2>0, <2>2, TakenSound, ZenonT(60)
    <3> HIDE DEF v
    <3>3. CASE v.stream.closeRequested /\ v.stream.queue = <<>>
      <4>1. stream' = End(v, "closed", "done", "resolved").stream
        BY <3>1, <3>3 DEF FinishClose, Becomes
      <4>2. stream'.closeRequested = v.stream.closeRequested /\ stream'.state = "closed"
        BY <3>2, <4>1, EndKeeps DEF Sound, Base
      <4>3. v.stream.closeRequested \in BOOLEAN
        BY <3>2, Fields DEF Sound, Base
      <4> QED BY <2>0, <3>2, <3>3, <4>2, <4>3 DEF EndStays
    <3>4. CASE ~(v.stream.closeRequested /\ v.stream.queue = <<>>)
      <4>1. Becomes(CallPullIfNeeded(v))
        BY <3>1, <3>4
      <4> QED BY <2>0, <3>2, <4>1, PullEndStays
    <3> QED BY <3>3, <3>4
  <2> QED BY <2>1, <2>2
<1>4. CASE ReadEnded \/ Refuse \/ UNCHANGED vars
  BY <1>4 DEF ReadEnded, Refuse, vars, EndStays
<1>5. CASE Cancel
  <2> DEFINE u == Emptied(World)
  <2>1. stream' = End(u, "closed", "done", "resolved").stream /\ stream.state = "readable"
    BY <1>5 DEF Cancel, Becomes
  <2>2. u \in WorldType
    <3>1. Base(u, enqueued, reads, readers)
      BY <1>0, <2>1, EmptiedBase DEF Sound
    <3> QED BY <3>1 DEF Base
  <2>3. u.stream.closeRequested = stream.closeRequested
    BY <1>0, EmptiedKeeps
  <2> HIDE DEF u
  <2>4. stream'.closeRequested = stream.closeRequested
    BY <2>1, <2>2, <2>3, EndKeeps
  <2> QED BY <1>5, <2>1, <2>4 DEF EndStays
<1>6. CASE \E z \in Sizes : Enqueue(z)
  <2>1. PICK z \in Sizes : Enqueue(z)
    BY <1>6
  <2> DEFINE v == IF stream.requests # <<>> THEN Hand(World, enqueued + 1)
                  ELSE Keep(World, enqueued + 1, z)
  <2>2. stream.state = "readable" /\ enqueued < MaxChunks /\ Becomes(CallPullIfNeeded(v)) /\ z \in Nat
    BY <2>1, ConstantsAssumption DEF Enqueue, CanCloseOrEnqueue
  <2>3. Sound(v, enqueued + 1, reads, readers)
    <3>1. CASE stream.requests # <<>>
      BY <1>0, <2>2, <3>1, HandSound
    <3>2. CASE stream.requests = <<>>
      BY <1>0, <2>2, <3>2, KeepSound
    <3> QED BY <3>1, <3>2
  <2>4. v.stream.state = stream.state /\ v.stream.closeRequested = stream.closeRequested
    BY <1>0 DEF Hand, Keep, WorldType, StreamType
  <2> HIDE DEF v
  <2> QED BY <2>2, <2>3, <2>4, PullEndStays
<1>7. CASE ErrorSource
  BY <1>7, ErrorEnds DEF EndStays
<1>8. CASE CloseSource
  <2>1. stream'.closeRequested = TRUE /\ stream.state = "readable"
    BY <1>8, CloseAsks DEF CloseSource, CanCloseOrEnqueue
  <2> QED BY <1>8, <2>1 DEF EndStays
<1>9. CASE Started
  <2>1. CASE Becomes(CallPullIfNeeded(World))
    BY <1>0, <2>1, PullEndStays
  <2>2. CASE Becomes(Error(World))
    <3>1. stream' = Error(World).stream
      BY <2>2 DEF Becomes
    <3> QED BY <1>0, <3>1, ErrorKeeps DEF EndStays, Sound
  <2> QED BY <1>9, <2>1, <2>2 DEF Started
<1>10. CASE PullReturns \/ \E how \in {"resolved", "rejected"} : PullSettles(how)
  BY <1>10 DEF PullReturns, PullSettles, EndStays
<1>11. CASE PullDone
  BY <1>11, PullDoneKeeps DEF EndStays
<1>12. CASE PullFailed \/ PullThrows
  <2> DEFINE v == Pulled
  <2>1. stream' = Error(v).stream
    BY <1>12 DEF PullFailed, PullThrows, PullFails, Becomes
  <2>2. Sound(v, enqueued, reads, readers) /\ v.stream.state = stream.state
    <3>1. v = IF FALSE THEN [Pulled EXCEPT !.stream.pullAgain = FALSE] ELSE Pulled
      OBVIOUS
    <3> HIDE DEF v
    <3> QED BY <3>1, PulledSound
  <2>3. v.stream.closeRequested = stream.closeRequested
    BY <1>0 DEF Pulled, WorldType, StreamType
  <2> HIDE DEF v
  <2> QED BY <2>1, <2>2, <2>3, ErrorKeeps DEF EndStays, Sound
<1> QED BY <1>1, <1>2, <1>3, <1>4, <1>5, <1>6, <1>7, <1>8, <1>9, <1>10, <1>11, <1>12 DEF Next, Job

\* An ended stream stays as it ended, and without cancel() the stream closes only
\* after close() asked for it.
THEOREM EndIsFinal == Spec => [][EndStays]_vars
<1>1. IInv /\ [Next]_vars => [EndStays]_vars
  BY NextEndStays
<1> QED BY <1>1, Invariant, PTL DEF Spec
=============================================================================
