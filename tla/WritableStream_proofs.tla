------------------------ MODULE WritableStream_proofs ------------------------
(***************************************************************************)
(* Proofs about WritableStream for any high water mark, sizes and bounds.  *)
(* The invariant is stated of a world, as the methods are: what a method   *)
(* makes of a good world is a good one, and a step is a chain of methods.  *)
(***************************************************************************)
EXTENDS WritableStream, Induction_proofs, SequenceTheorems

WorldType == [stream : StreamType, result : [Entries -> Promise],
              closed : [Writers -> Promise], ready : [Writers -> Promise]]

\* Promises exist for the m entries accepted and the n writers acquired.
Known(w, m, n) ==
  /\ w.stream.writer <= n
  /\ \A i \in Entries : w.result[i] = "none" <=> i > m
  /\ \A v \in Writers : (w.closed[v] = "none" <=> v > n) /\ (w.ready[v] = "none" <=> v > n)

\* The sink was given the first entries, the last of them is the one at work and
\* the head of the queue, and the rest waits in the order of its numbers.
Order(w, s, m) ==
  /\ s.given = [k \in 1..Len(s.given) |-> k] /\ Len(s.given) <= m
  /\ w.stream.writing = TRUE <=> s.call # "none"
  /\ w.stream.writing = TRUE => s.entry \in Entry /\ s.entry.id = Len(s.given)
  /\ w.stream.writing = TRUE /\ s.entry.type = "close" => s.entry.id = m /\ w.stream.closeRequested = TRUE
  /\ w.stream.state = "closed" => w.stream.writing = FALSE
  /\ w.stream.state = "writable" =>
       /\ w.stream.writing = TRUE => w.stream.queue # <<>> /\ Head(w.stream.queue) = s.entry
       /\ w.stream.writing = FALSE => Len(s.given) = m - Len(w.stream.queue)
       /\ \A j \in 1..Len(w.stream.queue) :
            /\ w.stream.queue[j].id = m - Len(w.stream.queue) + j
            /\ w.stream.queue[j].type = "close" <=>
                 w.stream.closeRequested = TRUE /\ j = Len(w.stream.queue)

\* The sink fulfilled all it was given, but for the one that it works on or failed at.
Fulfilled(w, s, m) ==
  /\ s.call \in {"running", "pending", "rejected"} => s.fulfilled = 1..(Len(s.given) - 1)
  /\ s.call = "resolved" => s.fulfilled = 1..Len(s.given)
  /\ w.stream.state = "closed" => s.fulfilled = 1..m
  /\ \A i \in Entries : w.result[i] = "resolved" => 1..i \subseteq s.fulfilled
Caught(w, s) ==
  s.call = "none" /\ w.stream.state = "writable" => s.fulfilled = 1..Len(s.given)

\* Only what is in the queue waits for its answer.
Answered(w, m) ==
  /\ w.stream.state = "writable" =>
       \A i \in Entries : w.result[i] = "pending" => i > m - Len(w.stream.queue)
  /\ w.stream.state # "writable" => \A i \in Entries : w.result[i] # "pending"

Room(w) ==
  w.stream.state = "writable" => w.stream.queueTotalSize = TotalSize(w.stream.queue)
Told(w) ==
  w.stream.state = "writable" /\ w.stream.writer # 0 =>
    (w.ready[w.stream.writer] = "pending" <=> w.stream.backpressure = TRUE)

\* After CheckBackpressure and AdvanceQueue.
Pressed(w) ==
  w.stream.state = "writable" /\ HighWaterMark > 0 =>
    (w.stream.backpressure = TRUE <=> w.stream.queueTotalSize >= HighWaterMark)
Busy(w) == w.stream.state = "writable" /\ w.stream.queue # <<>> => w.stream.writing = TRUE

Sound(w, s, m, n) ==
  /\ w \in WorldType /\ s \in SinkType /\ m \in 0..MaxEntries /\ n \in 0..MaxWriters
  /\ Known(w, m, n) /\ Order(w, s, m) /\ Fulfilled(w, s, m) /\ Answered(w, m)
  /\ Room(w) /\ Told(w)

IInv ==
  /\ Sound(World, sink, made, writers) /\ Caught(World, sink)
  /\ Pressed(World) /\ Busy(World) /\ start \in Promise

-----------------------------------------------------------------------------
(***************************************************************************)
(* Sizes of queues.                                                        *)
(***************************************************************************)
LEMMA EntrySizes == \A x \in Entry : x.size \in Nat
BY DEF Entry

\* Queues.
LEMMA Queues ==
  ASSUME NEW q \in Seq(Entry)
  PROVE  /\ Len(q) \in Nat /\ (Len(q) = 0 <=> q = <<>>) /\ <<>> \in Seq(Entry) /\ Len(<<>>) = 0
         /\ q # <<>> => /\ Head(q) = q[1] /\ q[1] \in Entry /\ Tail(q) \in Seq(Entry)
                        /\ Len(Tail(q)) = Len(q) - 1
                        /\ \A j \in 1..Len(Tail(q)) : Tail(q)[j] = q[j + 1] /\ j + 1 \in 1..Len(q)
         /\ \A j \in 1..Len(q) : q[j] \in Entry
OBVIOUS

-----------------------------------------------------------------------------
(***************************************************************************)
(* CheckBackpressure.                                                      *)
(***************************************************************************)
LEMMA SettleType ==
  ASSUME NEW p \in Promise, NEW how \in {"resolved", "rejected"}
  PROVE  /\ Settle(p, how) \in Promise
         /\ Settle(p, how) = "none" <=> p = "none"
         /\ Settle(p, how) # "pending"
         /\ p # "pending" => Settle(p, how) = p
BY DEF Settle, Promise

\* A settled promise of the writer that has the lock.
LEMMA OfWriterType ==
  ASSUME NEW w \in WorldType, NEW p \in [Writers -> Promise], NEW how \in {"resolved", "rejected"}
  PROVE  /\ OfWriter(p, w, how) \in [Writers -> Promise]
         /\ \A v \in Writers : OfWriter(p, w, how)[v] = "none" <=> p[v] = "none"
         /\ w.stream.writer # 0 => OfWriter(p, w, how)[w.stream.writer] # "pending"
<1>1. w.stream.writer \in 0..MaxWriters
  BY DEF WorldType, StreamType
<1>2. CASE w.stream.writer = 0
  BY <1>2 DEF OfWriter
<1>3. CASE w.stream.writer # 0
  <2>1. w.stream.writer \in Writers
    BY <1>1, <1>3, ConstantsAssumption DEF Writers
  <2>2. OfWriter(p, w, how) = [p EXCEPT ![w.stream.writer] = Settle(@, how)]
    BY <1>3 DEF OfWriter
  <2> QED BY <2>1, <2>2, SettleType
<1> QED BY <1>2, <1>3

LEMMA CheckSound ==
  ASSUME NEW w, NEW s, NEW m, NEW n, Sound(w, s, m, n)
  PROVE  LET c == CheckBackpressure(w)
         IN  Sound(c, s, m, n) /\ Pressed(c) /\ (Caught(w, s) => Caught(c, s))
<1> DEFINE c == CheckBackpressure(w)
<1> DEFINE bp == HighWaterMark - w.stream.queueTotalSize <= 0
<1> USE DEF Sound
<1>0. /\ w \in WorldType /\ w.stream \in StreamType /\ w.ready \in [Writers -> Promise]
      /\ w.stream.queueTotalSize \in Int /\ HighWaterMark \in Nat
      /\ w.stream.backpressure \in BOOLEAN
  BY ConstantsAssumption DEF WorldType, StreamType
<1>1. bp \in BOOLEAN /\ (bp = TRUE <=> w.stream.queueTotalSize >= HighWaterMark)
  BY <1>0
<1> HIDE DEF bp
<1>2. CASE bp = w.stream.backpressure
  <2>1. c = w
    BY <1>2 DEF CheckBackpressure, bp
  <2>2. Pressed(w)
    BY <1>1, <1>2 DEF Pressed
  <2> QED BY <2>1, <2>2
<1>3. CASE bp # w.stream.backpressure
  <2> DEFINE ready1 == IF w.stream.writer = 0 THEN w.ready
                       ELSE IF bp THEN [w.ready EXCEPT ![w.stream.writer] = "pending"]
                       ELSE OfWriter(w.ready, w, "resolved")
  <2>1. c = [w EXCEPT !.stream.backpressure = bp, !.ready = ready1]
    BY <1>3 DEF CheckBackpressure, bp
  <2>2. /\ ready1 \in [Writers -> Promise]
        /\ \A v \in Writers : ready1[v] = "none" <=> w.ready[v] = "none"
        /\ w.stream.writer # 0 => (ready1[w.stream.writer] = "pending" <=> bp = TRUE)
    <3>1. w.stream.writer = 0 \/ w.stream.writer \in Writers
      BY <1>0, ConstantsAssumption DEF StreamType, Writers
    <3>2. CASE w.stream.writer = 0
      BY <3>2, <1>0
    <3>3. CASE w.stream.writer # 0 /\ bp = TRUE
      <4>1. ready1 = [w.ready EXCEPT ![w.stream.writer] = "pending"]
        BY <3>3
      <4>2. w.ready[w.stream.writer] # "none"
        BY <3>1, <3>3 DEF Known, Writers
      <4> QED BY <3>1, <3>3, <4>1, <4>2, <1>0 DEF Promise
    <3>4. CASE w.stream.writer # 0 /\ bp # TRUE
      <4>1. ready1 = OfWriter(w.ready, w, "resolved")
        BY <3>4, <1>1
      <4> QED BY <3>4, <4>1, <1>0, OfWriterType
    <3> QED BY <3>2, <3>3, <3>4
  <2> HIDE DEF ready1
  <2>3. /\ c \in WorldType
        /\ c.stream.state = w.stream.state /\ c.stream.queue = w.stream.queue
        /\ c.stream.queueTotalSize = w.stream.queueTotalSize /\ c.stream.writing = w.stream.writing
        /\ c.stream.closeRequested = w.stream.closeRequested /\ c.stream.writer = w.stream.writer
        /\ c.stream.backpressure = bp
        /\ c.result = w.result /\ c.closed = w.closed /\ c.ready = ready1
    <3> DEFINE stream1 == [w.stream EXCEPT !.backpressure = bp]
    <3>1. /\ stream1 \in StreamType /\ stream1.state = w.stream.state /\ stream1.queue = w.stream.queue
          /\ stream1.queueTotalSize = w.stream.queueTotalSize /\ stream1.writing = w.stream.writing
          /\ stream1.closeRequested = w.stream.closeRequested /\ stream1.writer = w.stream.writer
          /\ stream1.backpressure = bp
      BY <1>0, <1>1 DEF StreamType
    <3>2. c = [w EXCEPT !.stream = stream1, !.ready = ready1]
      BY <2>1, <1>0 DEF WorldType
    <3> HIDE DEF stream1, c
    <3>3. c \in WorldType /\ c.stream = stream1 /\ c.result = w.result /\ c.closed = w.closed /\ c.ready = ready1
      BY <3>1, <3>2, <2>2, <1>0 DEF WorldType
    <3> QED BY <3>1, <3>3
  <2> HIDE DEF c
  <2>4. Known(c, m, n)
    BY <2>2, <2>3 DEF Known
  <2>5. Order(c, s, m) /\ Fulfilled(c, s, m) /\ Answered(c, m) /\ Room(c)
    <3>1. Order(c, s, m)
      BY <2>3 DEF Order
    <3>2. Fulfilled(c, s, m) /\ Answered(c, m) /\ Room(c)
      BY <2>3 DEF Fulfilled, Answered, Room
    <3> QED BY <3>1, <3>2
  <2>6. Told(c)
    BY <2>2, <2>3 DEF Told
  <2>7. Pressed(c)
    BY <2>3, <1>1 DEF Pressed
  <2>8. Caught(w, s) => Caught(c, s)
    BY <2>3 DEF Caught
  <2> QED BY <2>3, <2>4, <2>5, <2>6, <2>7, <2>8 DEF c
<1> QED BY <1>2, <1>3

-----------------------------------------------------------------------------
(***************************************************************************)
(* _error(): the stream is not writable any more and nothing waits.        *)
(***************************************************************************)
\* The place of entry i in a queue of length k, the last of m.
LEMMA InQueue ==
  ASSUME NEW k \in Nat, NEW m \in Nat, NEW i \in Nat, i > m - k, i <= m
  PROVE  \E j \in 1..k : m - k + j = i
<1>1. i - (m - k) \in 1..k /\ m - k + (i - (m - k)) = i
  OBVIOUS
<1> QED BY <1>1

LEMMA ErrorSound ==
  ASSUME NEW w, NEW s, NEW m, NEW n, Sound(w, s, m, n)
  PROVE  Sound(Error(w), s, m, n) /\ Error(w).stream.state # "writable"
<1> DEFINE c == Error(w)
<1> USE DEF Sound
<1>0. /\ w \in WorldType /\ w.stream \in StreamType /\ w.stream.queue \in Seq(Entry)
      /\ w.result \in [Entries -> Promise] /\ w.closed \in [Writers -> Promise]
      /\ w.ready \in [Writers -> Promise] /\ w.stream.writing \in BOOLEAN
  BY DEF WorldType, StreamType
<1>1. CASE w.stream.state # "writable"
  BY <1>1 DEF Error
<1>2. CASE w.stream.state = "writable"
  <2> DEFINE gone == {e.id : e \in Queued(w.stream.queue)}
  <2> DEFINE stream1 == [w.stream EXCEPT !.state = "errored", !.queue = <<>>, !.queueTotalSize = 0]
  <2> DEFINE result1 == [i \in Entries |-> IF i \in gone THEN Settle(w.result[i], "rejected") ELSE w.result[i]]
  <2> DEFINE closed1 == OfWriter(w.closed, w, "rejected")
  <2> DEFINE ready1 == OfWriter(w.ready, w, "rejected")
  <2>1. c = [w EXCEPT !.stream = stream1, !.result = result1, !.closed = closed1, !.ready = ready1]
    BY <1>2, <1>0 DEF Error, WorldType
  <2>2. /\ stream1 \in StreamType /\ stream1.state = "errored" /\ stream1.writing = w.stream.writing
        /\ stream1.closeRequested = w.stream.closeRequested /\ stream1.writer = w.stream.writer
    <3>1. \E q \in Seq(Entry), t \in Int, st \in {"writable", "errored", "closed"} :
            /\ st = "errored"
            /\ stream1 = [w.stream EXCEPT !.state = st, !.queue = q, !.queueTotalSize = t]
      <4>1. <<>> \in Seq(Entry) /\ 0 \in Int /\ "errored" \in {"writable", "errored", "closed"}
        OBVIOUS
      <4> QED BY <4>1, Zenon
    <3> HIDE DEF stream1
    <3>2. PICK q \in Seq(Entry), t \in Int, st \in {"writable", "errored", "closed"} :
            /\ st = "errored"
            /\ stream1 = [w.stream EXCEPT !.state = st, !.queue = q, !.queueTotalSize = t]
      BY <3>1
    <3>3. w.stream \in StreamType
      BY <1>0
    <3>4. /\ stream1 \in StreamType /\ stream1.state = st /\ stream1.writing = w.stream.writing
          /\ stream1.closeRequested = w.stream.closeRequested /\ stream1.writer = w.stream.writer
      <4> HIDE DEF Sound
      <4> DEFINE x == w.stream
      <4>1. x \in StreamType /\ stream1 = [x EXCEPT !.state = st, !.queue = q, !.queueTotalSize = t]
        BY <3>2, <3>3
      <4> HIDE DEF x
      <4>2. /\ stream1 \in StreamType /\ stream1.state = st /\ stream1.writing = x.writing
            /\ stream1.closeRequested = x.closeRequested /\ stream1.writer = x.writer
        BY <4>1 DEF StreamType
      <4> QED BY <4>2 DEF x
    <3> QED BY <3>2, <3>4
  <2>3. /\ result1 \in [Entries -> Promise]
        /\ \A i \in Entries : result1[i] = "none" <=> w.result[i] = "none"
        /\ \A i \in Entries : result1[i] = "resolved" => w.result[i] = "resolved"
    <3>1. \A i \in Entries : Settle(w.result[i], "rejected") \in Promise /\ w.result[i] \in Promise
      BY <1>0, SettleType
    <3>2. \A i \in Entries : w.result[i] # "pending" => result1[i] = w.result[i]
      BY DEF Settle
    <3>3. \A i \in Entries : w.result[i] = "pending" => result1[i] \in {"pending", "rejected"}
      BY DEF Settle
    <3> HIDE DEF gone
    <3>4. result1 \in [Entries -> Promise]
      BY <3>1
    <3> HIDE DEF result1
    <3> QED BY <3>2, <3>3, <3>4
  <2>4. \A i \in Entries : result1[i] # "pending"
    <3> TAKE i \in Entries
    <3>1. CASE w.result[i] = "pending"
      <4>1. i > m - Len(w.stream.queue) /\ i <= m /\ i \in Nat /\ m \in Nat
        BY <3>1, <1>2 DEF Answered, Known, Entries
      <4>0. Len(w.stream.queue) \in Nat
        BY <1>0, Queues
      <4>2. PICK j \in 1..Len(w.stream.queue) : m - Len(w.stream.queue) + j = i
        BY <4>0, <4>1, InQueue
      <4>3. w.stream.queue[j].id = i
        BY <4>2, <1>2 DEF Order
      <4>4. i \in gone
        BY <4>2, <4>3 DEF Queued
      <4> QED BY <4>4, SettleType, <1>0
    <3>2. CASE w.result[i] # "pending"
      BY <3>2 DEF Settle
    <3> QED BY <3>1, <3>2
  <2>5. /\ closed1 \in [Writers -> Promise] /\ ready1 \in [Writers -> Promise]
        /\ \A v \in Writers : (closed1[v] = "none" <=> w.closed[v] = "none") /\ (ready1[v] = "none" <=> w.ready[v] = "none")
    BY <1>0, OfWriterType
  <2> HIDE DEF gone, stream1, result1, closed1, ready1
  <2>6. c \in WorldType /\ c.stream = stream1 /\ c.result = result1 /\ c.closed = closed1 /\ c.ready = ready1
    BY <2>1, <2>2, <2>3, <2>5, <1>0, ZenonT(60) DEF WorldType
  <2> HIDE DEF c
  <2>7. Known(c, m, n)
    BY <2>2, <2>3, <2>5, <2>6 DEF Known
  <2>8. Order(c, s, m)
    BY <2>2, <2>6, <1>2 DEF Order
  <2>9. Fulfilled(c, s, m)
    BY <2>2, <2>3, <2>6 DEF Fulfilled
  <2>10. Answered(c, m) /\ Room(c) /\ Told(c) /\ c.stream.state # "writable"
    BY <2>2, <2>4, <2>6 DEF Answered, Room, Told
  <2> QED BY <2>6, <2>7, <2>8, <2>9, <2>10 DEF c
<1> QED BY <1>1, <1>2

-----------------------------------------------------------------------------
(***************************************************************************)
(* Done: the entry at the sink leaves the queue with its answer.           *)
(***************************************************************************)
Rest(s) == [s EXCEPT !.call = "none", !.entry = Close(0)]

LEMMA AfterFirst ==
  ASSUME NEW m \in Nat, NEW k \in Nat, NEW l, l = k - 1, NEW i \in Nat, i > m - k, i # m - k + 1
  PROVE  i > m - l
OBVIOUS

LEMMA DoneSound ==
  ASSUME NEW w, NEW s, NEW m, NEW n, Sound(w, s, m, n), s.call # "none",
         NEW how \in {"resolved", "rejected"}, how = "resolved" => s.call = "resolved"
  PROVE  LET d == Done(w, s.entry, how)
         IN  /\ Sound(d, Rest(s), m, n) /\ d.stream.state = w.stream.state
             /\ d.stream.writing = FALSE
             /\ how = "resolved" => Caught(d, Rest(s))
             /\ w.stream.state = "writable" => d.stream.queue = Tail(w.stream.queue)
             /\ d.closed = w.closed
             /\ \A i \in Entries : w.result[i] # "pending" => d.result[i] = w.result[i]
<1> DEFINE d == Done(w, s.entry, how)
<1> DEFINE e == s.entry
<1> USE DEF Sound
<1>0. /\ w \in WorldType /\ w.stream \in StreamType /\ w.stream.queue \in Seq(Entry)
      /\ w.result \in [Entries -> Promise] /\ w.closed \in [Writers -> Promise]
      /\ w.ready \in [Writers -> Promise] /\ w.stream.writing \in BOOLEAN
      /\ w.stream.queueTotalSize \in Int
  BY DEF WorldType, StreamType
<1>1. w.stream.writing = TRUE /\ e \in Entry /\ e.id \in Entries /\ e.size \in Nat /\ e.id = Len(s.given)
  BY DEF Order, Entry
<1>s. /\ Rest(s) \in SinkType /\ Rest(s).call = "none" /\ Rest(s).given = s.given
      /\ Rest(s).fulfilled = s.fulfilled /\ s.call \in Promise \union {"running"}
  BY DEF Rest, SinkType, Promise
<1> DEFINE queue1 == Shift(w.stream.queue)
<1> DEFINE stream1 == [w.stream EXCEPT !.writing = FALSE, !.queue = queue1,
                                       !.queueTotalSize = w.stream.queueTotalSize - e.size]
<1> DEFINE result1 == [w.result EXCEPT ![e.id] = Settle(w.result[e.id], how)]
<1>2. d = [w EXCEPT !.stream = stream1, !.result = result1]
  BY <1>0 DEF Done, WorldType
<1>3. queue1 \in Seq(Entry)
  BY <1>0, Queues DEF Shift
<1> HIDE DEF queue1, e
<1>4. /\ stream1 \in StreamType /\ stream1.state = w.stream.state /\ stream1.writing = FALSE
      /\ stream1.queue = queue1 /\ stream1.queueTotalSize = w.stream.queueTotalSize - e.size
      /\ stream1.closeRequested = w.stream.closeRequested /\ stream1.writer = w.stream.writer
      /\ stream1.backpressure = w.stream.backpressure
  <2>1. w.stream.queueTotalSize - e.size \in Int
    BY <1>0, <1>1
  <2> QED BY <1>0, <1>3, <2>1 DEF StreamType
<1>5. /\ result1 \in [Entries -> Promise]
      /\ \A i \in Entries : i # e.id => result1[i] = w.result[i]
      /\ result1[e.id] = "none" <=> w.result[e.id] = "none"
      /\ result1[e.id] # "pending"
      /\ w.result[e.id] # "pending" => result1[e.id] = w.result[e.id]
      /\ result1[e.id] = "resolved" => how = "resolved" \/ w.result[e.id] = "resolved"
  <2>1. result1[e.id] = Settle(w.result[e.id], how) /\ w.result[e.id] \in Promise
    BY <1>0, <1>1
  <2>2. result1 \in [Entries -> Promise]
    BY <1>0, <1>1, <2>1, SettleType
  <2>3. result1[e.id] \in {how, w.result[e.id]}
    BY <2>1 DEF Settle
  <2> QED BY <1>0, <1>1, <2>1, <2>2, <2>3, SettleType
<1> HIDE DEF stream1, result1
<1>6. d \in WorldType /\ d.stream = stream1 /\ d.result = result1 /\ d.closed = w.closed /\ d.ready = w.ready
  BY <1>2, <1>4, <1>5, <1>0 DEF WorldType
<1> HIDE DEF d
<1>7. Known(d, m, n)
  BY <1>4, <1>5, <1>6 DEF Known
<1>8. w.stream.state = "writable" =>
        /\ w.stream.queue # <<>> /\ Head(w.stream.queue) = e /\ queue1 = Tail(w.stream.queue)
        /\ Len(queue1) = Len(w.stream.queue) - 1 /\ Len(w.stream.queue) \in Nat
        /\ e.id = m - Len(w.stream.queue) + 1 /\ m \in Nat
        /\ \A j \in 1..Len(queue1) : queue1[j] = w.stream.queue[j + 1] /\ j + 1 \in 1..Len(w.stream.queue)
  <2> SUFFICES ASSUME w.stream.state = "writable"
               PROVE  /\ w.stream.queue # <<>> /\ Head(w.stream.queue) = e /\ queue1 = Tail(w.stream.queue)
                      /\ Len(queue1) = Len(w.stream.queue) - 1 /\ Len(w.stream.queue) \in Nat
                      /\ e.id = m - Len(w.stream.queue) + 1 /\ m \in Nat
                      /\ \A j \in 1..Len(queue1) : queue1[j] = w.stream.queue[j + 1] /\ j + 1 \in 1..Len(w.stream.queue)
    OBVIOUS
  <2>1. w.stream.queue # <<>> /\ Head(w.stream.queue) = e
    BY <1>1 DEF Order, e
  <2>2. 1 \in 1..Len(w.stream.queue) /\ w.stream.queue[1] = e
    BY <2>1, <1>0, Queues
  <2>3. e.id = m - Len(w.stream.queue) + 1
    BY <2>2 DEF Order
  <2>4. queue1 = Tail(w.stream.queue)
    BY <2>1 DEF queue1, Shift
  <2> QED BY <2>1, <2>3, <2>4, <1>0, Queues
<1>9. Order(d, Rest(s), m)
  <2>1. Rest(s).given = [k \in 1..Len(Rest(s).given) |-> k] /\ Len(Rest(s).given) <= m
    BY <1>s DEF Order
  <2>2. ASSUME w.stream.state = "writable" PROVE Len(s.given) = m - Len(queue1)
    BY <2>2, <1>1, <1>8
  <2>3. ASSUME w.stream.state = "writable", NEW j \in 1..Len(queue1)
        PROVE  /\ queue1[j].id = m - Len(queue1) + j
               /\ queue1[j].type = "close" <=> w.stream.closeRequested = TRUE /\ j = Len(queue1)
    <3>1. /\ w.stream.queue[j + 1].id = m - Len(w.stream.queue) + (j + 1)
          /\ w.stream.queue[j + 1].type = "close" <=>
               w.stream.closeRequested = TRUE /\ j + 1 = Len(w.stream.queue)
      BY <2>3, <1>8 DEF Order
    <3>0. m \in Nat /\ Len(w.stream.queue) \in Nat /\ Len(queue1) = Len(w.stream.queue) - 1 /\ j \in Nat
      BY <2>3, <1>8
    <3>2. /\ m - Len(w.stream.queue) + (j + 1) = m - Len(queue1) + j
          /\ j + 1 = Len(w.stream.queue) <=> j = Len(queue1)
      BY <3>0
    <3> QED BY <2>3, <3>1, <3>2, <1>8
  <2> QED BY <2>1, <2>2, <2>3, <1>4, <1>6, <1>s DEF Order
<1>10. Fulfilled(d, Rest(s), m)
  <2>1. w.stream.state # "closed"
    BY <1>1 DEF Order
  <2>2. ASSUME NEW i \in Entries, result1[i] = "resolved" PROVE 1..i \subseteq s.fulfilled
    <3>1. CASE w.result[i] = "resolved"
      BY <3>1 DEF Fulfilled
    <3>2. CASE w.result[i] # "resolved"
      <4>1. i = e.id /\ how = "resolved"
        BY <2>2, <3>2, <1>5
      <4>2. s.fulfilled = 1..Len(s.given)
        BY <4>1 DEF Fulfilled
      <4> QED BY <4>1, <4>2, <1>1
    <3> QED BY <3>1, <3>2
  <2> QED BY <2>1, <2>2, <1>4, <1>6, <1>s DEF Fulfilled
<1>11. Answered(d, m)
  <2>1. CASE w.stream.state = "writable"
    <3>1. ASSUME NEW i \in Entries, result1[i] = "pending" PROVE i > m - Len(queue1)
      <4>1. i # e.id /\ w.result[i] = "pending"
        BY <3>1, <1>5
      <4>2. i > m - Len(w.stream.queue) /\ i \in Nat
        BY <4>1, <2>1 DEF Answered, Entries
      <4>3. Len(queue1) = Len(w.stream.queue) - 1 /\ Len(w.stream.queue) \in Nat /\ m \in Nat
            /\ e.id = m - Len(w.stream.queue) + 1
        BY <2>1, <1>8
      <4>4. i # m - Len(w.stream.queue) + 1
        BY <4>1, <4>3
      <4> QED BY <4>2, <4>3, <4>4, AfterFirst, Zenon
    <3> QED BY <3>1, <2>1, <1>4, <1>6 DEF Answered
  <2>2. CASE w.stream.state # "writable"
    BY <2>2, <1>4, <1>5, <1>6 DEF Answered
  <2> QED BY <2>1, <2>2
<1>12. Room(d)
  <2> SUFFICES ASSUME w.stream.state = "writable" PROVE stream1.queueTotalSize = TotalSize(queue1)
    BY <1>4, <1>6 DEF Room
  <2>1. TotalSize(Tail(w.stream.queue)) = TotalSize(w.stream.queue) - e.size
    BY <1>8, <1>0, TotalTail, EntrySizes
  <2> QED BY <2>1, <1>4, <1>8 DEF Room
<1>13. Told(d)
  BY <1>4, <1>6 DEF Told
<1>14. how = "resolved" => Caught(d, Rest(s))
  BY <1>s DEF Caught, Fulfilled
<1>15. w.stream.state = "writable" => d.stream.queue = Tail(w.stream.queue)
  BY <1>4, <1>6, <1>8
<1>16. \A i \in Entries : w.result[i] # "pending" => d.result[i] = w.result[i]
  BY <1>5, <1>6
<1> QED BY <1>4, <1>6, <1>7, <1>9, <1>10, <1>11, <1>12, <1>13, <1>14, <1>15, <1>16, <1>s DEF d

-----------------------------------------------------------------------------
(***************************************************************************)
(* Add: an entry takes its place at the end of the queue.                  *)
(***************************************************************************)
LEMMA Appended ==
  ASSUME NEW q \in Seq(Entry), NEW e \in Entry
  PROVE  LET r == Append(q, e)
         IN  /\ r \in Seq(Entry) /\ r # <<>> /\ Len(q) \in Nat /\ Len(r) = Len(q) + 1
             /\ r[Len(q) + 1] = e /\ \A j \in 1..Len(q) : r[j] = q[j]
             /\ q # <<>> => Head(r) = Head(q)
<1> DEFINE r == Append(q, e)
<1>1. /\ r \in Seq(Entry) /\ r # <<>> /\ Len(q) \in Nat /\ Len(r) = Len(q) + 1
      /\ r[Len(q) + 1] = e
  OBVIOUS
<1>2. \A j \in 1..Len(q) : r[j] = q[j]
  OBVIOUS
<1>3. q # <<>> => 1 \in 1..Len(q) /\ Head(q) = q[1] /\ Head(r) = r[1]
  OBVIOUS
<1> HIDE DEF r
<1> QED BY <1>1, <1>2, <1>3 DEF r

LEMMA Places ==
  ASSUME NEW m \in Nat, NEW k \in Nat, NEW l, l = k + 1
  PROVE  m - k = (m + 1) - l /\ m + 1 = (m + 1) - l + l /\ m + 1 > (m + 1) - l
OBVIOUS

LEMMA AddSound ==
  ASSUME NEW w, NEW s, NEW m, NEW n, Sound(w, s, m, n), w.stream.state = "writable",
         w.stream.closeRequested = FALSE, m < MaxEntries, NEW e \in Entry, e.id = m + 1
  PROVE  LET a == Add(w, e)
         IN  /\ Sound(a, s, m + 1, n)
             /\ Caught(w, s) => Caught(a, s)
             /\ e.size = 0 /\ Pressed(w) => Pressed(a)
<1> DEFINE a == Add(w, e)
<1> DEFINE queue1 == Append(w.stream.queue, e)
<1> DEFINE stream1 == [w.stream EXCEPT !.queue = queue1,
                                       !.queueTotalSize = w.stream.queueTotalSize + e.size,
                                       !.closeRequested = w.stream.closeRequested \/ e.type = "close"]
<1> DEFINE result1 == [w.result EXCEPT ![e.id] = "pending"]
<1> USE DEF Sound
<1>0. /\ w \in WorldType /\ w.stream \in StreamType /\ w.stream.queue \in Seq(Entry)
      /\ w.result \in [Entries -> Promise] /\ w.closed \in [Writers -> Promise]
      /\ w.ready \in [Writers -> Promise] /\ w.stream.writing \in BOOLEAN
      /\ w.stream.queueTotalSize \in Int /\ m \in Nat /\ MaxEntries \in Nat
      /\ Len(s.given) \in Nat
  BY ConstantsAssumption DEF WorldType, StreamType, SinkType
<1>1. e.id \in Entries /\ e.size \in Nat /\ m + 1 \in 0..MaxEntries
  BY <1>0 DEF Entry, Entries
<1>2. a = [w EXCEPT !.stream = stream1, !.result = result1]
  BY <1>0 DEF Add, WorldType
<1>3. /\ queue1 \in Seq(Entry) /\ queue1 # <<>> /\ Len(w.stream.queue) \in Nat
      /\ Len(queue1) = Len(w.stream.queue) + 1
      /\ queue1[Len(w.stream.queue) + 1] = e /\ \A j \in 1..Len(w.stream.queue) : queue1[j] = w.stream.queue[j]
      /\ w.stream.queue # <<>> => Head(queue1) = Head(w.stream.queue)
  BY <1>0, Appended
<1>t. TotalSize(queue1) = TotalSize(w.stream.queue) + e.size
  BY <1>0, TotalAppend, EntrySizes
<1> HIDE DEF queue1
<1>n. m \in Nat /\ Len(w.stream.queue) \in Nat /\ Len(queue1) = Len(w.stream.queue) + 1
  BY <1>0, <1>3
<1>4. /\ stream1 \in StreamType /\ stream1.state = "writable" /\ stream1.writing = w.stream.writing
      /\ stream1.queue = queue1 /\ stream1.queueTotalSize = w.stream.queueTotalSize + e.size
      /\ stream1.closeRequested = TRUE <=> e.type = "close"
      /\ stream1.writer = w.stream.writer /\ stream1.backpressure = w.stream.backpressure
  <2>1. w.stream.queueTotalSize + e.size \in Int
    BY <1>0, <1>1
  <2>2. PICK b \in BOOLEAN : b = (w.stream.closeRequested \/ e.type = "close")
    OBVIOUS
  <2>3. b = TRUE <=> e.type = "close"
    BY <2>2, Zenon
  <2>4. stream1 = [w.stream EXCEPT !.queue = queue1,
                                   !.queueTotalSize = w.stream.queueTotalSize + e.size,
                                   !.closeRequested = b]
    BY <2>2, Zenon
  <2> HIDE DEF stream1
  <2> QED BY <1>0, <1>3, <2>1, <2>3, <2>4 DEF StreamType
<1>5. /\ result1 \in [Entries -> Promise] /\ result1[e.id] = "pending"
      /\ \A i \in Entries : i # e.id => result1[i] = w.result[i]
  BY <1>0, <1>1 DEF Promise
<1> HIDE DEF stream1, result1
<1>6. a \in WorldType /\ a.stream = stream1 /\ a.result = result1 /\ a.closed = w.closed /\ a.ready = w.ready
  BY <1>2, <1>4, <1>5, <1>0 DEF WorldType
<1> HIDE DEF a
<1>7. Known(a, m + 1, n)
  <2>1. \A i \in Entries : result1[i] = "none" <=> i > m + 1
    <3> TAKE i \in Entries
    <3>1. i \in Nat /\ (w.result[i] = "none" <=> i > m)
      BY DEF Known, Entries
    <3>2. CASE i = m + 1
      BY <3>2, <1>5, <1>0
    <3>3. CASE i # m + 1
      <4>1. result1[i] = w.result[i]
        BY <3>3, <1>5
      <4> QED BY <3>1, <3>3, <4>1, <1>0
    <3> QED BY <3>2, <3>3
  <2> QED BY <2>1, <1>4, <1>6 DEF Known
<1>8. Order(a, s, m + 1)
  <2>1. Len(s.given) <= m + 1
    BY <1>0 DEF Order
  <2>2. w.stream.writing = TRUE => s.entry.type # "close"
    BY DEF Order
  <2>3. w.stream.writing = TRUE => queue1 # <<>> /\ Head(queue1) = s.entry
    BY <1>3 DEF Order
  <2>4. w.stream.writing = FALSE => Len(s.given) = (m + 1) - Len(queue1)
    <3>1. w.stream.writing = FALSE => Len(s.given) = m - Len(w.stream.queue)
      BY DEF Order
    <3>2. m - Len(w.stream.queue) = (m + 1) - Len(queue1)
      BY <1>n
    <3> QED BY <3>1, <3>2
  <2>5. ASSUME NEW j \in 1..Len(queue1)
        PROVE  /\ queue1[j].id = (m + 1) - Len(queue1) + j
               /\ queue1[j].type = "close" <=> stream1.closeRequested = TRUE /\ j = Len(queue1)
    <3>1. CASE j \in 1..Len(w.stream.queue)
      <4>1. queue1[j] = w.stream.queue[j] /\ w.stream.queue[j].id = m - Len(w.stream.queue) + j
            /\ w.stream.queue[j].type # "close"
        BY <3>1, <1>3 DEF Order
      <4>2. m - Len(w.stream.queue) + j = (m + 1) - Len(queue1) + j /\ j # Len(queue1)
        BY <3>1, <1>n, SMTT(60)
      <4> QED BY <4>1, <4>2, <1>4
    <3>2. CASE j = Len(w.stream.queue) + 1
      <4>1. queue1[j] = e /\ j = Len(queue1)
        BY <3>2, <1>3
      <4>2. m + 1 = (m + 1) - Len(queue1) + j
        BY <4>1, <1>n, Places, Zenon
      <4> QED BY <4>1, <4>2, <1>4
    <3>3. j \in 1..Len(w.stream.queue) \/ j = Len(w.stream.queue) + 1
      BY <1>n
    <3> QED BY <3>1, <3>2, <3>3
  <2>6. stream1.state # "closed"
    BY <1>4
  <2>7. /\ s.given = [k \in 1..Len(s.given) |-> k]
        /\ w.stream.writing = TRUE <=> s.call # "none"
        /\ w.stream.writing = TRUE => s.entry \in Entry /\ s.entry.id = Len(s.given)
    BY DEF Order
  <2> QED BY <2>1, <2>2, <2>3, <2>4, <2>5, <2>6, <2>7, <1>4, <1>6 DEF Order
<1>9. Fulfilled(a, s, m + 1)
  <2>1. \A i \in Entries : result1[i] = "resolved" => w.result[i] = "resolved"
    BY <1>5
  <2> QED BY <2>1, <1>4, <1>6 DEF Fulfilled
<1>10. Answered(a, m + 1)
  <2>1. ASSUME NEW i \in Entries, result1[i] = "pending" PROVE i > (m + 1) - Len(queue1)
    <3>0. (m + 1) - Len(queue1) = m - Len(w.stream.queue) /\ i \in Nat
      BY <1>n DEF Entries
    <3>1. CASE i = m + 1
      BY <3>1, <1>n, Places, Zenon
    <3>2. CASE i # m + 1
      <4>1. w.result[i] = "pending"
        BY <2>1, <3>2, <1>5
      <4> QED BY <4>1, <3>0 DEF Answered
    <3> QED BY <3>1, <3>2
  <2> QED BY <2>1, <1>4, <1>6 DEF Answered
<1>11. Room(a)
  BY <1>t, <1>4, <1>6 DEF Room
<1>12. Told(a)
  BY <1>4, <1>6 DEF Told
<1>13. Caught(w, s) => Caught(a, s)
  BY <1>4, <1>6 DEF Caught
<1>14. e.size = 0 /\ Pressed(w) => Pressed(a)
  BY <1>0, <1>4, <1>6 DEF Pressed
<1> QED BY <1>1, <1>6, <1>7, <1>8, <1>9, <1>10, <1>11, <1>12, <1>13, <1>14 DEF a

-----------------------------------------------------------------------------
(***************************************************************************)
(* The end of a method.                                                    *)
(***************************************************************************)
LEMMA BecomesWorld ==
  ASSUME NEW w \in WorldType, Becomes(w)
  PROVE  World' = w
BY DEF World, Becomes, WorldType

LEMMA Counted ==
  ASSUME NEW g \in Seq(Entries), g = [k \in 1..Len(g) |-> k], NEW i \in Entries, i = Len(g) + 1
  PROVE  LET h == Append(g, i)
         IN  /\ h \in Seq(Entries) /\ Len(h) = i /\ i - 1 = Len(g)
             /\ h = [k \in 1..Len(h) |-> k]
<1> DEFINE h == Append(g, i)
<1>1. h \in Seq(Entries) /\ Len(h) = i /\ Len(g) \in Nat /\ i \in Nat
  BY DEF Entries
<1>2. \A k \in 1..Len(h) : h[k] = k
  <2> TAKE k \in 1..Len(h)
  <2>1. CASE k \in 1..Len(g)
    <3>1. h[k] = g[k]
      BY <2>1
    <3>2. g[k] = k
      BY <2>1
    <3> QED BY <3>1, <3>2
  <2>2. CASE k = Len(g) + 1
    BY <2>2
  <2> QED BY <2>1, <2>2, <1>1
<1>3. h \in [1..Len(h) -> Entries]
  BY <1>1, LenProperties
<1> HIDE DEF h
<1>4. h = [k \in 1..Len(h) |-> k]
  BY <1>2, <1>3
<1>5. i - 1 = Len(g)
  BY <1>1
<1> QED BY <1>1, <1>4, <1>5 DEF h

LEMMA AdvanceSound ==
  ASSUME NEW w, NEW s, NEW m, NEW n, Sound(w, s, m, n), Caught(w, s), Pressed(w), AdvanceQueue(w, s)
  PROVE  Sound(World', sink', m, n) /\ Caught(World', sink') /\ Pressed(World') /\ Busy(World')
<1> USE DEF Sound
<1>0. /\ w \in WorldType /\ w.stream \in StreamType /\ w.stream.queue \in Seq(Entry)
      /\ w.stream.writing \in BOOLEAN /\ m \in Nat
      /\ s \in SinkType /\ s.given \in Seq(Entries) /\ Len(s.given) \in Nat
      /\ w.result \in [Entries -> Promise] /\ w.closed \in [Writers -> Promise]
      /\ w.ready \in [Writers -> Promise]
  BY ConstantsAssumption DEF WorldType, StreamType, SinkType
<1>1. CASE ~Advances(w)
  <2>1. Becomes(w) /\ sink' = s
    BY <1>1 DEF AdvanceQueue
  <2>2. World' = w
    BY <2>1, <1>0, BecomesWorld
  <2>3. Busy(w)
    BY <1>1, <1>0 DEF Advances, Busy
  <2> QED BY <2>1, <2>2, <2>3
<1>2. CASE Advances(w)
  <2> DEFINE e == Head(w.stream.queue)
  <2> DEFINE c == [w EXCEPT !.stream.writing = TRUE]
  <2> DEFINE t == [s EXCEPT !.call = "running", !.entry = e, !.given = Append(s.given, e.id)]
  <2>1. Becomes(c) /\ sink' = t
    BY <1>2 DEF AdvanceQueue
  <2>2. w.stream.writing = FALSE /\ w.stream.queue # <<>> /\ w.stream.state = "writable"
    BY <1>2, <1>0 DEF Advances
  <2>3. /\ e \in Entry /\ e = w.stream.queue[1] /\ 1 \in 1..Len(w.stream.queue)
        /\ Len(w.stream.queue) \in Nat /\ Len(w.stream.queue) >= 1
    BY <2>2, <1>0, Queues
  <2>4. /\ s.call = "none" /\ e.id = m - Len(w.stream.queue) + 1
        /\ Len(s.given) = m - Len(w.stream.queue) /\ s.fulfilled = 1..Len(s.given)
        /\ e.type = "close" <=> w.stream.closeRequested = TRUE /\ Len(w.stream.queue) = 1
    BY <2>2, <2>3 DEF Order, Caught
  <2>5. e.id = Len(s.given) + 1 /\ e.id \in Entries /\ e.id <= m /\ (Len(w.stream.queue) = 1 => e.id = m)
    <3>1. e.id \in Entries
      BY <2>3 DEF Entry
    <3>2. \A k \in Nat : k >= 1 => m - k + 1 <= m /\ (m - k) + 1 = m - k + 1 /\ (k = 1 => m - k + 1 = m)
      BY <1>0
    <3>3. e.id <= m /\ e.id = (m - Len(w.stream.queue)) + 1 /\ (Len(w.stream.queue) = 1 => e.id = m)
      BY <3>2, <2>3, <2>4
    <3> QED BY <3>1, <3>3, <2>4
  <2> HIDE DEF e
  <2>6. LET h == Append(s.given, e.id)
        IN  /\ h \in Seq(Entries) /\ Len(h) = e.id /\ e.id - 1 = Len(s.given)
            /\ h = [k \in 1..Len(h) |-> k]
    <3>1. s.given = [k \in 1..Len(s.given) |-> k]
      BY DEF Order
    <3> QED BY <3>1, <2>5, <1>0, Counted
  <2>7. /\ t \in SinkType /\ t.call = "running" /\ t.entry = e /\ t.given = Append(s.given, e.id)
        /\ t.fulfilled = s.fulfilled
    BY <2>3, <2>6, <1>0 DEF SinkType
  <2>8. /\ c \in WorldType /\ c.result = w.result /\ c.closed = w.closed /\ c.ready = w.ready
        /\ c.stream.state = "writable" /\ c.stream.writing = TRUE /\ c.stream.queue = w.stream.queue
        /\ c.stream.queueTotalSize = w.stream.queueTotalSize
        /\ c.stream.closeRequested = w.stream.closeRequested
        /\ c.stream.backpressure = w.stream.backpressure /\ c.stream.writer = w.stream.writer
    <3> DEFINE stream1 == [w.stream EXCEPT !.writing = TRUE]
    <3>1. /\ stream1 \in StreamType /\ stream1.writing = TRUE /\ stream1.queue = w.stream.queue
          /\ stream1.state = w.stream.state /\ stream1.queueTotalSize = w.stream.queueTotalSize
          /\ stream1.closeRequested = w.stream.closeRequested
          /\ stream1.backpressure = w.stream.backpressure /\ stream1.writer = w.stream.writer
      BY <1>0 DEF StreamType
    <3>2. c = [w EXCEPT !.stream = stream1]
      BY <1>0 DEF WorldType
    <3> HIDE DEF stream1, c
    <3>3. c \in WorldType /\ c.stream = stream1 /\ c.result = w.result /\ c.closed = w.closed /\ c.ready = w.ready
      BY <3>1, <3>2, <1>0 DEF WorldType
    <3> QED BY <3>1, <3>3, <2>2
  <2> HIDE DEF c, t
  <2>9. Known(c, m, n) /\ Answered(c, m) /\ Room(c) /\ Told(c)
    <3>1. Known(c, m, n)
      BY <2>8 DEF Known
    <3>2. Answered(c, m)
      BY <2>2, <2>8 DEF Answered
    <3>3. Room(c) /\ Told(c)
      BY <2>2, <2>8 DEF Room, Told
    <3> QED BY <3>1, <3>2, <3>3
  <2>10. Order(c, t, m)
    <3>1. t.given = [k \in 1..Len(t.given) |-> k] /\ Len(t.given) = e.id /\ e.id <= m
      BY <2>5, <2>6, <2>7
    <3>2. \A j \in 1..Len(w.stream.queue) :
            /\ w.stream.queue[j].id = m - Len(w.stream.queue) + j
            /\ w.stream.queue[j].type = "close" <=>
                 w.stream.closeRequested = TRUE /\ j = Len(w.stream.queue)
      BY <2>2 DEF Order
    <3>3. e = Head(w.stream.queue)
      BY DEF e
    <3>4. e.type = "close" => e.id = m /\ w.stream.closeRequested = TRUE
      BY <2>4, <2>5
    <3>5. t.call # "none" /\ t.entry \in Entry /\ t.entry.id = Len(t.given)
      BY <3>1, <2>3, <2>7
    <3> HIDE DEF Sound
    <3> QED BY <3>1, <3>2, <3>3, <3>4, <3>5, <2>2, <2>7, <2>8 DEF Order
  <2>11. Fulfilled(c, t, m)
    <3>1. s.fulfilled = 1..(Len(t.given) - 1)
      BY <2>4, <2>6, <2>7
    <3> QED BY <3>1, <2>7, <2>8 DEF Fulfilled
  <2>12. Caught(c, t) /\ Pressed(c) /\ Busy(c)
    BY <2>2, <2>7, <2>8 DEF Caught, Pressed, Busy
  <2>13. World' = c
    BY <2>1, <2>8, BecomesWorld
  <2> QED BY <2>1, <2>7, <2>8, <2>9, <2>10, <2>11, <2>12, <2>13
<1> QED BY <1>1, <1>2

-----------------------------------------------------------------------------
(***************************************************************************)
(* The steps.                                                              *)
(***************************************************************************)
LEMMA Holds ==
  ASSUME Sound(World', sink', made', writers'), Caught(World', sink'),
         Pressed(World'), Busy(World'), start' \in Promise
  PROVE  IInv'
BY DEF IInv

\* A stream that is not writable owes its writer and its sink nothing.
LEMMA Over ==
  ASSUME NEW w, NEW s, w.stream.state # "writable"
  PROVE  Caught(w, s) /\ Pressed(w) /\ Busy(w)
BY DEF Caught, Pressed, Busy

LEMMA OrderAlike ==
  ASSUME NEW w, NEW c, NEW s, NEW m, Order(w, s, m),
         c.stream.state = w.stream.state, c.stream.queue = w.stream.queue,
         c.stream.writing = w.stream.writing, c.stream.closeRequested = w.stream.closeRequested
  PROVE  Order(c, s, m)
BY DEF Order

LEMMA Init_IInv == Init => IInv
<1> SUFFICES ASSUME Init PROVE IInv
  OBVIOUS
<1> USE ConstantsAssumption
<1>1. stream \in StreamType
  <2>1. <<>> \in Seq(Entry)
    OBVIOUS
  <2>2. PICK q \in Seq(Entry) : q = <<>>
    BY <2>1
  <2>3. stream = [state |-> "writable", queue |-> q, queueTotalSize |-> 0,
               writing |-> FALSE, closeRequested |-> FALSE, backpressure |-> FALSE,
               writer |-> 0]
    BY <2>2 DEF Init
  <2> QED BY <2>3 DEF StreamType
<1>2. World \in WorldType
  BY <1>1 DEF Init, World, WorldType, Promise
<1>3. sink \in SinkType /\ sink.given = <<>> /\ sink.fulfilled = {} /\ sink.call = "none"
  <2>1. <<>> \in Seq(Entries)
    OBVIOUS
  <2>2. PICK g \in Seq(Entries) : g = <<>>
    BY <2>1
  <2>3. sink = [call |-> "none", entry |-> Close(0), given |-> g, fulfilled |-> {}]
    BY <2>2 DEF Init
  <2> QED BY <2>2, <2>3 DEF SinkType, Promise
<1>4. /\ World.stream = stream /\ World.result = result /\ World.closed = closed /\ World.ready = ready
      /\ stream.state = "writable" /\ stream.queue = <<>> /\ stream.queueTotalSize = 0
      /\ stream.writing = FALSE /\ stream.closeRequested = FALSE /\ stream.backpressure = FALSE
      /\ stream.writer = 0 /\ made = 0 /\ writers = 0 /\ start \in Promise
  BY DEF Init, World, Promise
<1>5. /\ \A i \in Entries : result[i] = "none" /\ i > 0
      /\ \A v \in Writers : closed[v] = "none" /\ ready[v] = "none" /\ v > 0
  BY DEF Init, Entries, Writers
<1>6. Len(<<>>) = 0 /\ <<>> = [k \in 1..0 |-> k] /\ 1..0 = {}
  <2>1. Len(<<>>) = 0 /\ 1..0 = {}
    OBVIOUS
  <2>2. <<>> = [k \in 1..0 |-> k]
    BY SMT
  <2> QED BY <2>1, <2>2
<1>7. Known(World, 0, 0)
  BY <1>4, <1>5 DEF Known
<1>8. Order(World, sink, 0)
  <2>1. \A j \in 1..Len(<<>>) : FALSE
    BY <1>6
  <2>2. sink.given = [k \in 1..Len(sink.given) |-> k] /\ Len(sink.given) <= 0
    BY <1>3, <1>6
  <2>3. /\ World.stream.writing = FALSE /\ World.stream.queue = <<>> /\ World.stream.state = "writable"
        /\ Len(sink.given) = 0 - Len(World.stream.queue)
    <3>1. Len(World.stream.queue) = 0
      BY <1>4, <1>6
    <3>2. Len(sink.given) = 0
      BY <1>3, <1>6
    <3> QED BY <3>1, <3>2, <1>4
  <2> QED BY <2>1, <2>2, <2>3, <1>3 DEF Order
<1>9. Fulfilled(World, sink, 0) /\ Answered(World, 0)
  BY <1>3, <1>4, <1>5 DEF Fulfilled, Answered
<1>10. Room(World) /\ Told(World)
  BY <1>4, TotalEmpty DEF Room, Told
<1>11. Caught(World, sink) /\ Pressed(World) /\ Busy(World)
  BY <1>3, <1>4, <1>6 DEF Caught, Pressed, Busy
<1> QED BY <1>2, <1>3, <1>4, <1>7, <1>8, <1>9, <1>10, <1>11 DEF IInv, Sound

\* The fields of a good world.
LEMMA Fields ==
  ASSUME IInv
  PROVE  /\ stream \in StreamType /\ stream.writer \in 0..MaxWriters /\ stream.queue \in Seq(Entry)
         /\ result \in [Entries -> Promise] /\ closed \in [Writers -> Promise]
         /\ ready \in [Writers -> Promise] /\ sink \in SinkType
         /\ made \in 0..MaxEntries /\ writers \in 0..MaxWriters
         /\ World.stream = stream /\ World.result = result /\ World.closed = closed /\ World.ready = ready
         /\ stream.backpressure \in BOOLEAN /\ stream.closeRequested \in BOOLEAN
         /\ stream.writing \in BOOLEAN
<1>1. World \in WorldType /\ sink \in SinkType /\ made \in 0..MaxEntries /\ writers \in 0..MaxWriters
  BY DEF IInv, Sound
<1>2. World.stream = stream /\ World.result = result /\ World.closed = closed /\ World.ready = ready
  BY DEF World
<1>3. /\ stream \in StreamType /\ result \in [Entries -> Promise] /\ closed \in [Writers -> Promise]
      /\ ready \in [Writers -> Promise]
  BY <1>1, <1>2 DEF WorldType
<1> QED BY <1>1, <1>2, <1>3 DEF StreamType

LEMMA GetWriter_IInv == IInv /\ GetWriter => IInv'
<1> SUFFICES ASSUME IInv, GetWriter PROVE IInv'
  OBVIOUS
<1> DEFINE v == writers + 1
<1>0. v \in Writers /\ writers \in Nat /\ v \in 0..MaxWriters /\ v # 0
  BY Fields, ConstantsAssumption DEF GetWriter, Writers
<1>1. /\ stream' = [stream EXCEPT !.writer = v] /\ writers' = v
      /\ result' = result /\ made' = made /\ sink' = sink /\ start' = start
  BY DEF GetWriter
<1>2. \E p \in Promise : p # "none" /\ closed' = [closed EXCEPT ![v] = p]
  <2>1. CASE stream.state = "errored"
    BY <2>1 DEF GetWriter, Promise
  <2>2. CASE stream.state = "closed"
    BY <2>2 DEF GetWriter, Promise
  <2>3. CASE stream.state \notin {"errored", "closed"}
    BY <2>3 DEF GetWriter, Promise
  <2> QED BY <2>1, <2>2, <2>3
<1>3. ready' = [ready EXCEPT ![v] = IF stream.backpressure THEN "pending" ELSE "resolved"]
  BY DEF GetWriter
<1>4. PICK p \in Promise : p # "none" /\ closed' = [closed EXCEPT ![v] = p]
  BY <1>2
<1>5. PICK q \in {"pending", "resolved"} : ready' = [ready EXCEPT ![v] = q] /\ (q = "pending" <=> stream.backpressure = TRUE)
  <2>1. CASE stream.backpressure = TRUE
    BY <1>3, <2>1
  <2>2. CASE stream.backpressure = FALSE
    BY <1>3, <2>2
  <2> QED BY <2>1, <2>2, Fields
<1> HIDE DEF v
<1>6. /\ stream' \in StreamType /\ stream'.writer = v
      /\ stream'.state = stream.state /\ stream'.queue = stream.queue /\ stream'.writing = stream.writing
      /\ stream'.closeRequested = stream.closeRequested /\ stream'.backpressure = stream.backpressure
      /\ stream'.queueTotalSize = stream.queueTotalSize
  <2>1. stream \in StreamType
    BY Fields
  <2> QED BY <2>1, <1>0, <1>1 DEF StreamType
<1>7. /\ closed' \in [Writers -> Promise] /\ ready' \in [Writers -> Promise]
      /\ closed'[v] # "none" /\ ready'[v] = q
      /\ \A u \in Writers : u # v => closed'[u] = closed[u] /\ ready'[u] = ready[u]
  BY <1>0, <1>4, <1>5, Fields DEF Promise
<1>8. /\ World' \in WorldType /\ World'.stream = stream' /\ World'.result = result
      /\ World'.closed = closed' /\ World'.ready = ready'
  BY <1>1, <1>6, <1>7, Fields DEF World, WorldType
<1>9. /\ World.stream = stream /\ World.result = result /\ World.closed = closed /\ World.ready = ready
      /\ made \in 0..MaxEntries /\ sink \in SinkType
  BY Fields
<1>10. Known(World', made, v)
  <2>1. \A u \in Writers : (closed'[u] = "none" <=> u > v) /\ (ready'[u] = "none" <=> u > v)
    <3> TAKE u \in Writers
    <3>1. CASE u = v
      BY <3>1, <1>0, <1>5, <1>7
    <3>2. CASE u # v
      <4>1. u > writers <=> u > v
        BY <3>2, <1>0 DEF Writers, v
      <4>2. closed'[u] = closed[u] /\ ready'[u] = ready[u]
        BY <3>2, <1>7
      <4>3. (closed[u] = "none" <=> u > writers) /\ (ready[u] = "none" <=> u > writers)
        BY <1>9 DEF IInv, Sound, Known
      <4> QED BY <4>1, <4>2, <4>3
    <3> QED BY <3>1, <3>2
  <2>2. \A i \in Entries : result[i] = "none" <=> i > made
    BY <1>9 DEF IInv, Sound, Known
  <2>3. v <= v
    BY <1>0 DEF Writers
  <2> QED BY <2>1, <2>2, <2>3, <1>6, <1>8 DEF Known
<1>11. Order(World', sink, made)
  <2>1. Order(World, sink, made)
    BY DEF IInv, Sound
  <2> QED BY <2>1, <1>6, <1>8, <1>9, OrderAlike
<1>12. Fulfilled(World', sink, made) /\ Answered(World', made) /\ Room(World')
  <2>1. Fulfilled(World', sink, made)
    BY <1>6, <1>8, <1>9 DEF IInv, Sound, Fulfilled
  <2>2. Answered(World', made) /\ Room(World')
    BY <1>6, <1>8, <1>9 DEF IInv, Sound, Answered, Room
  <2> QED BY <2>1, <2>2
<1>13. Told(World')
  BY <1>5, <1>6, <1>7, <1>8 DEF Told
<1>14. Caught(World', sink) /\ Pressed(World') /\ Busy(World')
  BY <1>6, <1>8, <1>9 DEF IInv, Caught, Pressed, Busy
<1>15. Sound(World', sink', made', writers')
  BY <1>0, <1>1, <1>8, <1>9, <1>10, <1>11, <1>12, <1>13 DEF Sound
<1> QED BY <1>1, <1>14, <1>15, Holds DEF IInv

LEMMA ReleaseLock_IInv == IInv /\ ReleaseLock => IInv'
<1> SUFFICES ASSUME IInv, ReleaseLock PROVE IInv'
  OBVIOUS
<1>1. /\ stream' = [stream EXCEPT !.writer = 0] /\ writers' = writers
      /\ result' = result /\ made' = made /\ sink' = sink /\ start' = start
      /\ closed' = closed /\ ready' = ready
  BY DEF ReleaseLock
<1>6. /\ stream' \in StreamType /\ stream'.writer = 0
      /\ stream'.state = stream.state /\ stream'.queue = stream.queue /\ stream'.writing = stream.writing
      /\ stream'.closeRequested = stream.closeRequested /\ stream'.backpressure = stream.backpressure
      /\ stream'.queueTotalSize = stream.queueTotalSize
  <2>1. stream \in StreamType /\ 0 \in 0..MaxWriters
    BY Fields, ConstantsAssumption
  <2> QED BY <2>1, <1>1 DEF StreamType
<1>8. /\ World' \in WorldType /\ World'.stream = stream' /\ World'.result = result
      /\ World'.closed = closed /\ World'.ready = ready
  BY <1>1, <1>6, Fields DEF World, WorldType
<1>9. /\ World.stream = stream /\ World.result = result /\ World.closed = closed /\ World.ready = ready
      /\ made \in 0..MaxEntries /\ sink \in SinkType /\ writers \in 0..MaxWriters
  BY Fields
<1>10. Known(World', made, writers)
  BY <1>6, <1>8, <1>9 DEF IInv, Sound, Known
<1>11. Order(World', sink, made)
  <2>1. Order(World, sink, made)
    BY DEF IInv, Sound
  <2> QED BY <2>1, <1>6, <1>8, <1>9, OrderAlike
<1>12. Fulfilled(World', sink, made) /\ Answered(World', made) /\ Room(World')
  <2>1. Fulfilled(World', sink, made)
    BY <1>6, <1>8, <1>9 DEF IInv, Sound, Fulfilled
  <2>2. Answered(World', made) /\ Room(World')
    BY <1>6, <1>8, <1>9 DEF IInv, Sound, Answered, Room
  <2> QED BY <2>1, <2>2
<1>13. Told(World')
  BY <1>6, <1>8 DEF Told
<1>14. Caught(World', sink) /\ Pressed(World') /\ Busy(World')
  BY <1>6, <1>8, <1>9 DEF IInv, Caught, Pressed, Busy
<1>15. Sound(World', sink', made', writers')
  BY <1>1, <1>8, <1>9, <1>10, <1>11, <1>12, <1>13 DEF Sound
<1> QED BY <1>1, <1>14, <1>15, Holds DEF IInv

\* The steps that are a chain of methods.
LEMMA WorldGood ==
  ASSUME IInv
  PROVE  /\ Sound(World, sink, made, writers) /\ Caught(World, sink) /\ Pressed(World)
         /\ World \in WorldType
BY DEF IInv, Sound

LEMMA Write_IInv ==
  ASSUME IInv, NEW k \in Sizes, Write(k)
  PROVE  IInv'
<1> DEFINE e == Chunk(made + 1, k)
<1> DEFINE a == Add(World, e)
<1> DEFINE c == CheckBackpressure(a)
<1>0. /\ stream.state = "writable" /\ stream.closeRequested = FALSE /\ made < MaxEntries
      /\ made' = made + 1 /\ writers' = writers /\ start' = start
  BY Fields DEF Write, Refused
<1>1. AdvanceQueue(c, sink)
  BY DEF Write
<1>2. e \in Entry /\ e.id = made + 1
  BY <1>0, Fields, ConstantsAssumption DEF Chunk, Entry, Entries
<1> HIDE DEF e
<1>3. Sound(a, sink, made + 1, writers) /\ Caught(a, sink)
  <2>1. World.stream.state = "writable" /\ World.stream.closeRequested = FALSE
    BY <1>0, Fields
  <2> QED BY <2>1, <1>0, <1>2, WorldGood, AddSound
<1> HIDE DEF a
<1>4. Sound(c, sink, made + 1, writers) /\ Caught(c, sink) /\ Pressed(c)
  BY <1>3, CheckSound
<1> HIDE DEF c
<1>5. /\ Sound(World', sink', made + 1, writers) /\ Caught(World', sink')
      /\ Pressed(World') /\ Busy(World')
  BY <1>1, <1>4, AdvanceSound
<1> QED BY <1>0, <1>5, Holds DEF IInv

LEMMA CloseStream_IInv == IInv /\ CloseStream => IInv'
<1> SUFFICES ASSUME IInv, CloseStream PROVE IInv'
  OBVIOUS
<1> DEFINE e == Close(made + 1)
<1> DEFINE a == Add(World, e)
<1>0. /\ stream.state = "writable" /\ stream.closeRequested = FALSE /\ made < MaxEntries
      /\ made' = made + 1 /\ writers' = writers /\ start' = start
  BY Fields DEF CloseStream, Refused
<1>1. AdvanceQueue(a, sink)
  BY DEF CloseStream
<1>2. e \in Entry /\ e.id = made + 1 /\ e.size = 0
  BY <1>0, Fields, ConstantsAssumption DEF Close, Entry, Entries
<1> HIDE DEF e
<1>3. Sound(a, sink, made + 1, writers) /\ Caught(a, sink) /\ Pressed(a)
  <2>1. World.stream.state = "writable" /\ World.stream.closeRequested = FALSE
    BY <1>0, Fields
  <2> QED BY <2>1, <1>0, <1>2, WorldGood, AddSound
<1> HIDE DEF a
<1>4. /\ Sound(World', sink', made + 1, writers) /\ Caught(World', sink')
      /\ Pressed(World') /\ Busy(World')
  BY <1>1, <1>3, AdvanceSound
<1> QED BY <1>0, <1>4, Holds DEF IInv

\* _error() ends a step.
LEMMA Errors_IInv ==
  ASSUME NEW w, NEW s, Sound(w, s, made, writers), Becomes(Error(w)), sink' = s,
         made' = made, writers' = writers, start' \in Promise
  PROVE  IInv'
<1> DEFINE c == Error(w)
<1>1. Sound(c, s, made, writers) /\ c.stream.state # "writable"
  BY ErrorSound
<1>2. Becomes(c)
  OBVIOUS
<1> HIDE DEF c
<1>3. World' = c
  BY <1>1, <1>2, BecomesWorld DEF Sound
<1>4. Caught(World', sink') /\ Pressed(World') /\ Busy(World')
  BY <1>1, <1>3, Over
<1> QED BY <1>1, <1>3, <1>4, Holds

LEMMA Errors ==
  ASSUME IInv, WriteThrows \/ Abort
  PROVE  IInv'
<1>1. /\ Becomes(Error(World)) /\ sink' = sink /\ made' = made /\ writers' = writers /\ start' = start
  BY DEF WriteThrows, Abort
<1> QED BY <1>1, WorldGood, Errors_IInv DEF IInv

LEMMA Started_IInv == IInv /\ Started => IInv'
<1> SUFFICES ASSUME IInv, Started PROVE IInv'
  OBVIOUS
<1>0. made' = made /\ writers' = writers
  BY DEF Started
<1>1. CASE start' = "resolved" /\ AdvanceQueue(World, sink)
  <2>1. /\ Sound(World', sink', made, writers) /\ Caught(World', sink')
        /\ Pressed(World') /\ Busy(World')
    BY <1>1, WorldGood, AdvanceSound
  <2>2. start' \in Promise
    BY <1>1 DEF Promise
  <2> QED BY <1>0, <2>1, <2>2, Holds
<1>2. CASE start' = "rejected" /\ Becomes(Error(World)) /\ sink' = sink
  <2>1. start' \in Promise
    BY <1>2 DEF Promise
  <2> QED BY <1>0, <1>2, <2>1, WorldGood, Errors_IInv
<1> QED BY <1>1, <1>2 DEF Started

LEMMA WriteDone_IInv == IInv /\ WriteDone => IInv'
<1> SUFFICES ASSUME IInv, WriteDone PROVE IInv'
  OBVIOUS
<1> DEFINE d == Done(World, sink.entry, "resolved")
<1> DEFINE c == CheckBackpressure(d)
<1>0. made' = made /\ writers' = writers /\ start' = start /\ sink.call = "resolved" /\ sink.call # "none"
  BY DEF WriteDone
<1>1. AdvanceQueue(c, Rest(sink))
  BY DEF WriteDone, Idle, Rest
<1>2. Sound(d, Rest(sink), made, writers) /\ Caught(d, Rest(sink))
  BY <1>0, WorldGood, DoneSound
<1> HIDE DEF d
<1>3. Sound(c, Rest(sink), made, writers) /\ Caught(c, Rest(sink)) /\ Pressed(c)
  BY <1>2, CheckSound
<1> HIDE DEF c
<1>4. /\ Sound(World', sink', made, writers) /\ Caught(World', sink')
      /\ Pressed(World') /\ Busy(World')
  BY <1>1, <1>3, AdvanceSound
<1> QED BY <1>0, <1>4, Holds DEF IInv

LEMMA SinkFails_IInv ==
  ASSUME IInv, SinkFailed \/ SinkThrows
  PROVE  IInv'
<1> DEFINE d == Done(World, sink.entry, "rejected")
<1>0. made' = made /\ writers' = writers /\ start' = start /\ sink.call # "none"
      /\ sink' = Rest(sink) /\ Becomes(Error(d))
  BY DEF SinkFailed, SinkThrows, SinkFails, Idle, Rest
<1>1. Sound(d, Rest(sink), made, writers)
  BY <1>0, WorldGood, DoneSound
<1> HIDE DEF d
<1>2. start' \in Promise
  BY <1>0 DEF IInv
<1> QED BY <1>0, <1>1, <1>2, Errors_IInv

\* The sink goes on with the entry at work.
LEMMA SinkGoesOn ==
  ASSUME NEW w, NEW s, NEW m, NEW n, Sound(w, s, m, n), s.call \in {"running", "pending"},
         NEW t \in SinkType, t.entry = s.entry, t.given = s.given,
         t.call \in {"pending", "resolved", "rejected"},
         t.fulfilled = IF t.call = "resolved" THEN s.fulfilled \union {s.entry.id} ELSE s.fulfilled
  PROVE  Sound(w, t, m, n) /\ Caught(w, t)
<1> USE DEF Sound
<1>1. s.call # "none" /\ t.call # "none" /\ w.stream.writing = TRUE /\ s.entry.id = Len(s.given)
  BY DEF Order
<1>2. Order(w, t, m)
  BY <1>1 DEF Order
<1>3. s.fulfilled = 1..(Len(s.given) - 1) /\ Len(s.given) \in Nat
  BY DEF Fulfilled, SinkType
<1>4. w.stream.state # "closed"
  BY <1>1 DEF Order
<1>5. s.fulfilled \subseteq t.fulfilled
  OBVIOUS
<1>6. t.call = "resolved" => t.fulfilled = 1..Len(t.given)
  <2>1. 1..(Len(s.given) - 1) \union {Len(s.given)} = 1..Len(s.given) \/ Len(s.given) = 0
    BY <1>3
  <2>2. Len(s.given) # 0
    <3>1. s.entry \in Entry
      BY <1>1 DEF Order
    <3> QED BY <3>1, <1>1 DEF Entry, Entries
  <2> QED BY <2>1, <2>2, <1>1, <1>3
<1>7. t.call # "resolved" => t.fulfilled = 1..(Len(t.given) - 1)
  BY <1>3
<1>8. \A i \in Entries : w.result[i] = "resolved" => 1..i \subseteq t.fulfilled
  BY <1>5 DEF Fulfilled
<1>9. Fulfilled(w, t, m)
  BY <1>4, <1>6, <1>7, <1>8 DEF Fulfilled
<1> QED BY <1>1, <1>2, <1>9 DEF Caught

LEMMA SameWorld ==
  ASSUME IInv, UNCHANGED <<stream, made, result, writers, closed, ready, start>>,
         Sound(World, sink', made, writers), Caught(World, sink')
  PROVE  IInv'
<1>1. World' = World
  BY DEF World
<1>2. Pressed(World) /\ Busy(World) /\ start \in Promise
  BY DEF IInv
<1> QED BY <1>1, <1>2, Holds

LEMMA SinkReturns_IInv == IInv /\ SinkReturns => IInv'
<1> SUFFICES ASSUME IInv, SinkReturns PROVE IInv'
  OBVIOUS
<1>1. sink \in SinkType /\ sink.call = "running" /\ sink' = [sink EXCEPT !.call = "pending"]
  BY Fields DEF SinkReturns
<1>2. /\ sink' \in SinkType /\ sink'.call = "pending" /\ sink'.entry = sink.entry
      /\ sink'.given = sink.given /\ sink'.fulfilled = sink.fulfilled
  BY <1>1 DEF SinkType, Promise
<1>3. Sound(World, sink', made, writers) /\ Caught(World, sink')
  BY <1>1, <1>2, WorldGood, SinkGoesOn
<1> QED BY <1>3, SameWorld DEF SinkReturns

LEMMA SinkSettles_IInv ==
  ASSUME IInv, NEW how \in {"resolved", "rejected"}, SinkSettles(how)
  PROVE  IInv'
<1>1. /\ sink \in SinkType /\ sink.call = "pending"
      /\ sink' = [sink EXCEPT !.call = how,
                              !.fulfilled = IF how = "resolved" THEN sink.fulfilled \union {sink.entry.id}
                                            ELSE sink.fulfilled]
  BY Fields DEF SinkSettles
<1>2. sink.entry \in Entry /\ sink.entry.id \in Entries
  <2>1. Order(World, sink, made)
    BY DEF IInv, Sound
  <2> QED BY <2>1, <1>1 DEF Order, Entry
<1> DEFINE f == IF how = "resolved" THEN sink.fulfilled \union {sink.entry.id} ELSE sink.fulfilled
<1>3. f \in SUBSET Entries
  BY <1>1, <1>2 DEF SinkType
<1>4. sink' = [sink EXCEPT !.call = how, !.fulfilled = f]
  BY <1>1
<1> HIDE DEF f
<1>5. /\ sink' \in SinkType /\ sink'.call = how /\ sink'.entry = sink.entry
      /\ sink'.given = sink.given /\ sink'.fulfilled = f
  BY <1>1, <1>3, <1>4 DEF SinkType, Promise
<1>6. Sound(World, sink', made, writers) /\ Caught(World, sink')
  <2>1. sink'.fulfilled = IF sink'.call = "resolved" THEN sink.fulfilled \union {sink.entry.id} ELSE sink.fulfilled
    BY <1>5 DEF f
  <2> QED BY <2>1, <1>1, <1>5, WorldGood, SinkGoesOn, ZenonT(60)
<1> QED BY <1>6, SameWorld DEF SinkSettles

\* The close was the last entry: nobody waits any more.
LEMMA CloseDone_IInv == IInv /\ CloseDone => IInv'
<1> SUFFICES ASSUME IInv, CloseDone PROVE IInv'
  OBVIOUS
<1> DEFINE d == Done(World, sink.entry, "resolved")
<1> DEFINE c == [d EXCEPT !.stream.state = "closed", !.closed = OfWriter(d.closed, d, "resolved")]
<1>0. /\ made' = made /\ writers' = writers /\ start' = start /\ sink' = Rest(sink)
      /\ sink.call = "resolved" /\ sink.call # "none" /\ sink.entry.type = "close"
  BY DEF CloseDone, Idle, Rest
<1>1. Becomes(c)
  BY DEF CloseDone
<1>2. /\ Sound(d, Rest(sink), made, writers) /\ d.stream.state = stream.state
      /\ d.stream.writing = FALSE
      /\ stream.state = "writable" => d.stream.queue = Tail(stream.queue)
  <2>1. Sound(World, sink, made, writers) /\ World.stream = stream
    BY WorldGood, Fields
  <2>2. /\ Sound(d, Rest(sink), made, writers) /\ d.stream.state = World.stream.state
        /\ d.stream.writing = FALSE
        /\ World.stream.state = "writable" => d.stream.queue = Tail(World.stream.queue)
    BY <2>1, <1>0, DoneSound, ZenonT(60)
  <2> HIDE DEF d
  <2> QED BY <2>1, <2>2
<1> HIDE DEF d
<1>3. /\ d \in WorldType /\ d.stream \in StreamType /\ d.closed \in [Writers -> Promise]
      /\ Known(d, made, writers) /\ Answered(d, made) /\ Order(d, Rest(sink), made)
      /\ Fulfilled(d, Rest(sink), made)
  BY <1>2 DEF Sound, WorldType
<1> DEFINE stream1 == [d.stream EXCEPT !.state = "closed"]
<1> DEFINE closed1 == OfWriter(d.closed, d, "resolved")
<1>4. c = [d EXCEPT !.stream = stream1, !.closed = closed1]
  BY <1>3 DEF WorldType
<1>5. /\ stream1 \in StreamType /\ stream1.state = "closed" /\ stream1.writing = FALSE
      /\ stream1.writer = d.stream.writer
  BY <1>2, <1>3 DEF StreamType
<1>6. /\ closed1 \in [Writers -> Promise]
      /\ \A v \in Writers : closed1[v] = "none" <=> d.closed[v] = "none"
  BY <1>3, OfWriterType
<1> HIDE DEF stream1, closed1
<1>7. c \in WorldType /\ c.stream = stream1 /\ c.result = d.result /\ c.closed = closed1 /\ c.ready = d.ready
  BY <1>3, <1>4, <1>5, <1>6 DEF WorldType
<1> HIDE DEF c
<1>8. /\ stream.writing = TRUE /\ sink.entry.id = Len(sink.given) /\ sink.entry.id = made
      /\ sink.fulfilled = 1..made /\ stream.state # "closed"
      /\ Rest(sink).given = sink.given /\ Rest(sink).call = "none" /\ Rest(sink).fulfilled = sink.fulfilled
  <2>1. Order(World, sink, made) /\ Fulfilled(World, sink, made)
    BY DEF IInv, Sound
  <2>2. stream.writing = TRUE /\ sink.entry.id = Len(sink.given) /\ sink.entry.id = made
        /\ stream.state # "closed"
    BY <2>1, <1>0, Fields DEF Order
  <2>3. sink.fulfilled = 1..made
    BY <2>1, <2>2, <1>0 DEF Fulfilled
  <2>4. Rest(sink).given = sink.given /\ Rest(sink).call = "none" /\ Rest(sink).fulfilled = sink.fulfilled
    BY Fields DEF Rest, SinkType
  <2> QED BY <2>2, <2>3, <2>4
<1>9. \A i \in Entries : d.result[i] # "pending"
  <2>1. CASE stream.state = "writable"
    <3>1. Len(d.stream.queue) = 0
      <4>1. Order(World, sink, made)
        BY DEF IInv, Sound
      <4>2. stream.queue # <<>> /\ Head(stream.queue) = sink.entry
        BY <4>1, <2>1, <1>8, Fields DEF Order
      <4>3. stream.queue[1] = sink.entry /\ 1 \in 1..Len(stream.queue)
            /\ Len(Tail(stream.queue)) = Len(stream.queue) - 1
        BY <4>2, Fields, Queues
      <4>4. World.stream.state = "writable" /\ World.stream.queue = stream.queue
        BY <2>1, Fields
      <4>5. \A j \in 1..Len(stream.queue) :
              stream.queue[j].type = "close" => j = Len(stream.queue)
        BY <4>1, <4>4 DEF Order
      <4>6. 1 = Len(stream.queue)
        BY <4>3, <4>5, <1>0
      <4>7. Len(Tail(stream.queue)) = 0
        BY <4>3, <4>6
      <4>8. d.stream.queue = Tail(stream.queue)
        BY <1>2, <2>1
      <4> QED BY <4>7, <4>8
    <3>2. \A i \in Entries : d.result[i] = "pending" => i > made - 0
      BY <3>1, <1>2, <1>3, <2>1 DEF Answered
    <3>3. \A i \in Entries : d.result[i] = "none" <=> i > made
      BY <1>3 DEF Known
    <3>4. made - 0 = made
      BY Fields
    <3> QED BY <3>2, <3>3, <3>4
  <2>2. CASE stream.state # "writable"
    BY <2>2, <1>2, <1>3 DEF Answered
  <2> QED BY <2>1, <2>2
<1>10. Known(c, made, writers)
  BY <1>3, <1>5, <1>6, <1>7 DEF Known
<1>11. Order(c, Rest(sink), made)
  BY <1>2, <1>3, <1>5, <1>7 DEF Order
<1>12. Fulfilled(c, Rest(sink), made)
  BY <1>3, <1>5, <1>7, <1>8 DEF Fulfilled
<1>13. Answered(c, made) /\ Room(c) /\ Told(c)
  BY <1>5, <1>7, <1>9 DEF Answered, Room, Told
<1>14. Sound(c, Rest(sink), made, writers)
  BY <1>2, <1>7, <1>10, <1>11, <1>12, <1>13 DEF Sound
<1>15. World' = c
  BY <1>1, <1>7, BecomesWorld
<1>16. Caught(World', sink') /\ Pressed(World') /\ Busy(World')
  BY <1>5, <1>7, <1>15, Over
<1> QED BY <1>0, <1>14, <1>15, <1>16, Holds DEF IInv

LEMMA Stutter_IInv == IInv /\ UNCHANGED vars => IInv'
BY DEF IInv, World, vars

LEMMA Next_IInv == IInv /\ [Next]_vars => IInv'
<1> SUFFICES ASSUME IInv, [Next]_vars PROVE IInv'
  OBVIOUS
<1>1. CASE GetWriter
  BY <1>1, GetWriter_IInv
<1>2. CASE ReleaseLock
  BY <1>2, ReleaseLock_IInv
<1>3. CASE \E k \in Sizes : Write(k)
  BY <1>3, Write_IInv
<1>4. CASE WriteThrows \/ Abort
  BY <1>4, Errors
<1>5. CASE CloseStream
  BY <1>5, CloseStream_IInv
<1>6. CASE Refuse
  BY <1>6, Stutter_IInv DEF Refuse
<1>7. CASE Started
  BY <1>7, Started_IInv
<1>8. CASE SinkReturns
  BY <1>8, SinkReturns_IInv
<1>9. CASE SinkThrows \/ SinkFailed
  BY <1>9, SinkFails_IInv
<1>10. CASE \E how \in {"resolved", "rejected"} : SinkSettles(how)
  BY <1>10, SinkSettles_IInv
<1>11. CASE WriteDone
  BY <1>11, WriteDone_IInv
<1>12. CASE CloseDone
  BY <1>12, CloseDone_IInv
<1>13. CASE UNCHANGED vars
  BY <1>13, Stutter_IInv
<1> QED BY <1>1, <1>2, <1>3, <1>4, <1>5, <1>6, <1>7, <1>8, <1>9, <1>10, <1>11, <1>12, <1>13 DEF Next, Job

\* The invariant the theorems below follow from.
THEOREM Invariant == Spec => []IInv
BY Init_IInv, Next_IInv, PTL DEF Spec

-----------------------------------------------------------------------------
(***************************************************************************)
(* The theorems.                                                           *)
(***************************************************************************)
\* The fields keep their types, and promises exist for exactly the entries that
\* write() and close() accepted and the writers that getWriter() made.
THEOREM TypeCorrect == Spec => []TypeOK
<1>1. IInv => TypeOK
  <2> SUFFICES ASSUME IInv PROVE TypeOK
    OBVIOUS
  <2>1. Known(World, made, writers) /\ Order(World, sink, made) /\ start \in Promise
    BY DEF IInv, Sound
  <2>2. /\ stream.writer <= writers
        /\ \A i \in Entries : result[i] = "none" <=> i > made
        /\ \A w \in Writers : (closed[w] = "none" <=> w > writers) /\ (ready[w] = "none" <=> w > writers)
    BY <2>1, Fields DEF Known
  <2>3. sink.call # "none" => sink.entry \in Entry
    BY <2>1, Fields DEF Order
  <2> QED BY <2>1, <2>2, <2>3, Fields DEF TypeOK
<1> QED BY <1>1, Invariant, PTL

\* _advanceQueue hands the sink every accepted entry once and in order, one at a
\* time, and leaves nothing behind while the stream is writable.
THEOREM EntriesInOrder == Spec => []HandedInOrder
<1>1. IInv => HandedInOrder
  <2> SUFFICES ASSUME IInv PROVE HandedInOrder
    OBVIOUS
  <2>1. Order(World, sink, made) /\ Busy(World)
    BY DEF IInv, Sound
  <2>2. /\ sink.given = [k \in 1..Len(sink.given) |-> k]
        /\ stream.writing = TRUE <=> sink.call # "none"
        /\ stream.writing = TRUE => sink.entry.id = Len(sink.given)
    BY <2>1, Fields DEF Order
  <2>3. stream.state = "writable" =>
          /\ stream.queue # <<>> <=> stream.writing = TRUE
          /\ stream.writing = TRUE => Head(stream.queue) = sink.entry
    BY <2>1, Fields DEF Order, Busy
  <2>4. stream.state = "writable" =>
          \A j \in 1..Len(stream.queue) :
            /\ stream.queue[j].id = made - Len(stream.queue) + j
            /\ stream.queue[j].type = "close" <=>
                 stream.closeRequested = TRUE /\ j = Len(stream.queue)
    BY <2>1, Fields, SMTT(60) DEF Order
  <2>5. stream.writing \in BOOLEAN /\ stream.closeRequested \in BOOLEAN
    BY Fields
  <2> QED BY <2>2, <2>3, <2>4, <2>5 DEF HandedInOrder
<1> QED BY <1>1, Invariant, PTL

\* What the promises of write() and close() say is what the sink did.
THEOREM AnswersAreTrue == Spec => []Truthful
<1>1. IInv => Truthful
  <2> SUFFICES ASSUME IInv PROVE Truthful
    OBVIOUS
  <2>1. Fulfilled(World, sink, made) /\ Answered(World, made)
    BY DEF IInv, Sound
  <2> QED BY <2>1, Fields DEF Truthful, Fulfilled, Answered
<1> QED BY <1>1, Invariant, PTL

\* writer.ready and queueTotalSize tell what the queue holds.
THEOREM ReadyIsTrue == Spec => []ReadyTellsRoom
<1>1. IInv => ReadyTellsRoom
  <2> SUFFICES ASSUME IInv PROVE ReadyTellsRoom
    OBVIOUS
  <2>1. Room(World) /\ Told(World) /\ Pressed(World)
    BY DEF IInv, Sound
  <2>2. stream.backpressure \in BOOLEAN
    BY Fields
  <2>3. stream.state = "writable" => stream.queueTotalSize = TotalSize(stream.queue)
    BY <2>1, Fields DEF Room
  <2>4. stream.state = "writable" /\ HighWaterMark > 0 =>
          (stream.backpressure = TRUE <=> stream.queueTotalSize >= HighWaterMark)
    BY <2>1, Fields DEF Pressed
  <2>5. stream.state = "writable" /\ stream.writer # 0 =>
          (ready[stream.writer] = "pending" <=> stream.backpressure = TRUE)
    BY <2>1, Fields DEF Told
  <2> QED BY <2>2, <2>3, <2>4, <2>5 DEF ReadyTellsRoom
<1> QED BY <1>1, Invariant, PTL

\* What Done leaves of the promises when nobody waits.
LEMMA DoneQuiet ==
  ASSUME NEW s, NEW m, NEW n, NEW how \in {"resolved", "rejected"}, Sound(World, s, m, n),
         s.call # "none", how = "resolved" => s.call = "resolved", stream.state = "errored"
  PROVE  LET d == Done(World, s.entry, how)
         IN  d.result = result /\ d.stream.state = "errored" /\ d \in WorldType
<1> DEFINE d == Done(World, s.entry, how)
<1>1. World.stream = stream /\ World.result = result /\ World.result \in [Entries -> Promise]
  BY DEF World, Sound, WorldType
<1>2. /\ Sound(d, Rest(s), m, n) /\ d.stream.state = World.stream.state
      /\ \A i \in Entries : World.result[i] # "pending" => d.result[i] = World.result[i]
  BY DoneSound, ZenonT(60)
<1> HIDE DEF d
<1>3. \A i \in Entries : World.result[i] # "pending"
  BY <1>1 DEF Sound, Answered
<1>4. d.result \in [Entries -> Promise] /\ d \in WorldType
  BY <1>2 DEF Sound, WorldType
<1>5. d.result = World.result
  BY <1>1, <1>2, <1>3, <1>4
<1> QED BY <1>1, <1>2, <1>4, <1>5 DEF d

\* After an error a step that leaves a world which is still not writable calls the sink no more.
LEMMA Quiet ==
  ASSUME NEW w, NEW s, w.stream.state = "errored", AdvanceQueue(w, s)
  PROVE  result' = w.result /\ sink' = s /\ stream' = w.stream
BY DEF AdvanceQueue, Advances, Becomes

\* Once the stream is errored the sink is called no more, no promise of write() or
\* close() changes, and only the answer to a close at the sink moves the state.
THEOREM ErrorsAreFinal == Spec => ErrorIsFinal
<1> DEFINE Final == stream.state = "errored" =>
                      /\ sink'.given = sink.given
                      /\ result' = result
                      /\ stream'.state = "closed" => sink.entry.type = "close"
<1>1. IInv /\ [Next]_vars => [Final]_vars
  <2> SUFFICES ASSUME IInv, Next, stream.state = "errored"
               PROVE  /\ sink'.given = sink.given
                      /\ result' = result
                      /\ stream'.state = "closed" => sink.entry.type = "close"
    OBVIOUS
  <2>0. /\ World.stream = stream /\ World.result = result /\ sink \in SinkType /\ stream \in StreamType
        /\ Sound(World, sink, made, writers)
    BY Fields, WorldGood
  <2>1. Error(World) = World
    BY <2>0 DEF Error
  <2>2. Rest(sink).given = sink.given
    BY <2>0 DEF Rest, SinkType
  <2>3. CASE GetWriter \/ ReleaseLock
    BY <2>3, <2>0 DEF GetWriter, ReleaseLock, StreamType
  <2>4. CASE (\E k \in Sizes : Write(k)) \/ WriteThrows \/ CloseStream
    BY <2>4 DEF Write, WriteThrows, CloseStream, Refused
  <2>5. CASE Abort \/ Refuse
    BY <2>5, <2>0, <2>1 DEF Abort, Refuse, Becomes, vars
  <2>6. CASE Started
    <3>1. CASE AdvanceQueue(World, sink)
      <4>1. result' = World.result /\ sink' = sink /\ stream' = World.stream
        BY <3>1, <2>0, Quiet
      <4> QED BY <4>1, <2>0
    <3>2. CASE Becomes(Error(World)) /\ UNCHANGED sink
      BY <3>2, <2>0, <2>1 DEF Becomes
    <3> QED BY <2>6, <3>1, <3>2 DEF Started
  <2>7. CASE SinkReturns
    BY <2>7, <2>0 DEF SinkReturns, SinkType
  <2>8. CASE \E how \in {"resolved", "rejected"} : SinkSettles(how)
    <3>1. PICK how \in {"resolved", "rejected"} : SinkSettles(how)
      BY <2>8
    <3>2. sink'.given = sink.given
      BY <3>1, <2>0 DEF SinkSettles, SinkType
    <3> QED BY <3>1, <3>2 DEF SinkSettles
  <2>9. CASE SinkThrows \/ SinkFailed
    <3> DEFINE d == Done(World, sink.entry, "rejected")
    <3>1. sink' = Rest(sink) /\ Becomes(Error(d)) /\ sink.call # "none"
      BY <2>9 DEF SinkThrows, SinkFailed, SinkFails, Rest, Idle
    <3>2. d.result = result /\ d.stream.state = "errored"
      BY <3>1, <2>0, DoneQuiet
    <3> HIDE DEF d
    <3>3. Error(d) = d
      BY <3>2 DEF Error
    <3> QED BY <3>1, <3>2, <3>3, <2>2 DEF Becomes
  <2>10. CASE WriteDone
    <3> DEFINE d == Done(World, sink.entry, "resolved")
    <3> DEFINE c == CheckBackpressure(d)
    <3>1. AdvanceQueue(c, Rest(sink)) /\ sink.call = "resolved" /\ sink.call # "none"
      BY <2>10 DEF WriteDone, Rest, Idle
    <3>2. d.result = result /\ d.stream.state = "errored" /\ d \in WorldType
      BY <3>1, <2>0, DoneQuiet
    <3> HIDE DEF d
    <3>3. c.result = d.result /\ c.stream.state = d.stream.state
      <4>1. CASE (HighWaterMark - d.stream.queueTotalSize <= 0) = d.stream.backpressure
        BY <4>1 DEF CheckBackpressure
      <4>2. CASE (HighWaterMark - d.stream.queueTotalSize <= 0) # d.stream.backpressure
        <5> DEFINE bp == HighWaterMark - d.stream.queueTotalSize <= 0
        <5>1. c = [d EXCEPT !.stream.backpressure = bp,
                            !.ready = IF d.stream.writer = 0 THEN d.ready
                                      ELSE IF bp THEN [d.ready EXCEPT ![d.stream.writer] = "pending"]
                                      ELSE OfWriter(d.ready, d, "resolved")]
          BY <4>2 DEF CheckBackpressure
        <5> HIDE DEF bp, c
        <5> QED BY <5>1, <3>2 DEF WorldType, StreamType
      <4> QED BY <4>1, <4>2
    <3> HIDE DEF c
    <3>4. result' = c.result /\ sink' = Rest(sink) /\ stream' = c.stream
      BY <3>1, <3>2, <3>3, Quiet
    <3> QED BY <3>2, <3>3, <3>4, <2>2
  <2>11. CASE CloseDone
    <3> DEFINE d == Done(World, sink.entry, "resolved")
    <3> DEFINE c == [d EXCEPT !.stream.state = "closed", !.closed = OfWriter(d.closed, d, "resolved")]
    <3>1. sink' = Rest(sink) /\ Becomes(c) /\ sink.call = "resolved" /\ sink.call # "none"
          /\ sink.entry.type = "close"
      BY <2>11 DEF CloseDone, Rest, Idle
    <3>2. d.result = result /\ d \in WorldType
      BY <3>1, <2>0, DoneQuiet
    <3> HIDE DEF d
    <3>3. c.result = d.result
      BY <3>2 DEF WorldType
    <3> QED BY <3>1, <3>2, <3>3, <2>2 DEF Becomes
  <2> QED BY <2>3, <2>4, <2>5, <2>6, <2>7, <2>8, <2>9, <2>10, <2>11 DEF Next, Job
<1> QED BY <1>1, Invariant, PTL DEF Spec, ErrorIsFinal

-----------------------------------------------------------------------------
(***************************************************************************)
(* What a step may do to the end of the stream and to the sink.  Streams   *)
(* that are joined to others rest on it.                                   *)
(***************************************************************************)
Settles == \E how \in {"resolved", "rejected"} : SinkSettles(how)

Moves ==
  /\ stream.closeRequested = TRUE => stream'.closeRequested = TRUE /\ made' = made
  /\ sink.fulfilled \subseteq sink'.fulfilled /\ Len(sink.given) <= Len(sink'.given)
  /\ stream'.state = "closed" =>
       stream.state = "closed" \/ (sink.call = "resolved" /\ sink.entry.type = "close")
  /\ stream'.state = "errored" =>
       \/ stream.state = "errored" \/ WriteThrows \/ Abort \/ SinkThrows \/ sink.call = "rejected"
       \/ start' = "rejected" /\ start # "rejected"
  /\ sink'.call \in {"pending", "resolved", "rejected"} => sink' = sink \/ SinkReturns \/ Settles
  /\ sink.call \in {"running", "pending"} => sink' = sink \/ SinkReturns \/ SinkThrows \/ Settles

LEMMA CheckKeeps ==
  ASSUME NEW w \in WorldType
  PROVE  LET c == CheckBackpressure(w)
         IN  /\ c.stream.state = w.stream.state /\ c.stream.writing = w.stream.writing
             /\ c.stream.closeRequested = w.stream.closeRequested
<1> DEFINE bp == HighWaterMark - w.stream.queueTotalSize <= 0
<1> DEFINE c == CheckBackpressure(w)
<1>1. CASE bp = w.stream.backpressure
  BY <1>1 DEF CheckBackpressure
<1>2. CASE bp # w.stream.backpressure
  <2> DEFINE ready1 == IF w.stream.writer = 0 THEN w.ready
                       ELSE IF bp THEN [w.ready EXCEPT ![w.stream.writer] = "pending"]
                       ELSE OfWriter(w.ready, w, "resolved")
  <2>1. c = [w EXCEPT !.stream.backpressure = bp, !.ready = ready1]
    BY <1>2 DEF CheckBackpressure
  <2> HIDE DEF bp, c, ready1
  <2>2. /\ c.stream.state = w.stream.state /\ c.stream.writing = w.stream.writing
        /\ c.stream.closeRequested = w.stream.closeRequested
    BY <2>1 DEF WorldType, StreamType
  <2> QED BY <2>2 DEF c
<1> QED BY <1>1, <1>2

LEMMA AddKeeps ==
  ASSUME NEW w \in WorldType, NEW e
  PROVE  LET a == Add(w, e)
         IN  a.stream.state = w.stream.state /\ a.stream.writing = w.stream.writing
BY DEF Add, WorldType, StreamType

LEMMA ErrorKeeps ==
  ASSUME NEW w \in WorldType
  PROVE  /\ Error(w).stream.closeRequested = w.stream.closeRequested
         /\ w.stream.state # "writable" => Error(w).stream.state = w.stream.state
         /\ w.stream.state = "writable" => Error(w).stream.state = "errored"
BY DEF Error, WorldType, StreamType

LEMMA DoneKeeps ==
  ASSUME NEW w \in WorldType, NEW e, NEW how
  PROVE  LET d == Done(w, e, how)
         IN  d.stream.state = w.stream.state /\ d.stream.closeRequested = w.stream.closeRequested
BY DEF Done, WorldType, StreamType

LEMMA AdvanceMoves ==
  ASSUME NEW w \in WorldType, NEW s \in SinkType, AdvanceQueue(w, s)
  PROVE  /\ stream'.state = w.stream.state /\ stream'.closeRequested = w.stream.closeRequested
         /\ sink'.fulfilled = s.fulfilled /\ Len(s.given) <= Len(sink'.given)
         /\ sink' = s \/ (w.stream.writing = FALSE /\ sink'.call = "running")
<1>0. w.stream \in StreamType /\ w.stream.writing \in BOOLEAN
  BY DEF WorldType, StreamType
<1>1. CASE ~Advances(w)
  BY <1>1 DEF AdvanceQueue, Becomes, SinkType
<1>2. CASE Advances(w)
  <2> DEFINE c == [w EXCEPT !.stream.writing = TRUE]
  <2> DEFINE e == Head(w.stream.queue)
  <2>1. Becomes(c) /\ sink' = [s EXCEPT !.call = "running", !.entry = e, !.given = Append(s.given, e.id)]
    BY <1>2 DEF AdvanceQueue
  <2>2. c.stream.state = w.stream.state /\ c.stream.closeRequested = w.stream.closeRequested
    BY DEF WorldType, StreamType
  <2> HIDE DEF c, e
  <2>3. s.given \in Seq(Entries)
    BY DEF SinkType
  <2>4. Len(s.given) <= Len(Append(s.given, e.id))
    BY <2>3
  <2>5. sink'.fulfilled = s.fulfilled /\ sink'.given = Append(s.given, e.id) /\ sink'.call = "running"
    BY <2>1 DEF SinkType
  <2>6. w.stream.writing = FALSE
    BY <1>0, <1>2 DEF Advances
  <2> QED BY <2>1, <2>2, <2>4, <2>5, <2>6 DEF Becomes
<1> QED BY <1>1, <1>2

\* A step that ends with _advanceQueue.
LEMMA AdvanceEnds ==
  ASSUME IInv, NEW w \in WorldType, NEW s \in SinkType, AdvanceQueue(w, s),
         w.stream.state = stream.state, w.stream.closeRequested = stream.closeRequested,
         s = sink \/ (sink.call = "resolved" /\ s = Rest(sink)),
         w.stream.writing = stream.writing \/ s # sink,
         stream.closeRequested = TRUE => made' = made
  PROVE  Moves
<1>1. /\ stream'.state = stream.state /\ stream'.closeRequested = stream.closeRequested
      /\ sink'.fulfilled = s.fulfilled /\ Len(s.given) <= Len(sink'.given)
      /\ sink' = s \/ (w.stream.writing = FALSE /\ sink'.call = "running")
  BY AdvanceMoves
<1>2. s.fulfilled = sink.fulfilled /\ s.given = sink.given /\ (s # sink => s.call = "none" /\ sink.call = "resolved")
  BY Fields DEF Rest, SinkType
<1>3. stream.writing = TRUE <=> sink.call # "none"
  BY Fields DEF IInv, Sound, Order
<1> QED BY <1>1, <1>2, <1>3 DEF Moves

LEMMA NextMoves == IInv /\ [Next]_vars => Moves
<1> SUFFICES ASSUME IInv, [Next]_vars PROVE Moves
  OBVIOUS
<1>0. /\ World \in WorldType /\ World.stream = stream /\ sink \in SinkType /\ stream \in StreamType
      /\ Len(sink.given) \in Nat
  BY Fields, WorldGood DEF SinkType
<1>1. CASE GetWriter \/ ReleaseLock
  <2>1. sink' = sink /\ made' = made
    BY <1>1 DEF GetWriter, ReleaseLock
  <2>2. stream'.state = stream.state /\ stream'.closeRequested = stream.closeRequested
    BY <1>0, <1>1 DEF GetWriter, ReleaseLock, StreamType
  <2> QED BY <1>0, <2>1, <2>2 DEF Moves
<1>2. CASE UNCHANGED vars \/ Refuse
  BY <1>0, <1>2 DEF Refuse, vars, Moves
<1>3. CASE \E k \in Sizes : Write(k)
  <2>1. PICK k \in Sizes : Write(k)
    BY <1>3
  <2> DEFINE a == Add(World, Chunk(made + 1, k))
  <2> DEFINE c == CheckBackpressure(a)
  <2>2. AdvanceQueue(c, sink) /\ stream.closeRequested # TRUE /\ stream.state = "writable" /\ made < MaxEntries
    BY <2>1 DEF Write, Refused
  <2>3. Chunk(made + 1, k) \in Entry /\ Chunk(made + 1, k).id = made + 1
    BY <2>2, Fields, ConstantsAssumption DEF Chunk, Entry, Entries
  <2>4. a \in WorldType
    <3>1. World.stream.state = "writable" /\ World.stream.closeRequested = FALSE
      BY <2>2, Fields
    <3>2. Sound(a, sink, made + 1, writers)
      BY <2>2, <2>3, <3>1, WorldGood, AddSound
    <3> QED BY <3>2 DEF Sound
  <2>5. c \in WorldType
    <3>1. World.stream.state = "writable" /\ World.stream.closeRequested = FALSE
      BY <2>2, Fields
    <3>2. Sound(a, sink, made + 1, writers)
      BY <2>2, <2>3, <3>1, WorldGood, AddSound
    <3> HIDE DEF a
    <3>3. Sound(c, sink, made + 1, writers)
      BY <3>2, CheckSound
    <3> QED BY <3>3 DEF Sound
  <2>6. a.stream.state = stream.state /\ a.stream.writing = stream.writing
    BY <1>0, AddKeeps
  <2> HIDE DEF a
  <2>7. c.stream.state = a.stream.state /\ c.stream.writing = a.stream.writing
    BY <2>4, CheckKeeps
  <2> HIDE DEF c
  <2>8. /\ stream'.state = stream.state /\ sink'.fulfilled = sink.fulfilled
        /\ Len(sink.given) <= Len(sink'.given)
        /\ sink' = sink \/ (stream.writing = FALSE /\ sink'.call = "running")
    BY <1>0, <2>2, <2>5, <2>6, <2>7, AdvanceMoves
  <2>9. stream.writing = TRUE <=> sink.call # "none"
    BY Fields DEF IInv, Sound, Order
  <2> QED BY <2>2, <2>8, <2>9 DEF Moves
<1>4. CASE CloseStream
  <2> DEFINE a == Add(World, Close(made + 1))
  <2>1. AdvanceQueue(a, sink) /\ stream.closeRequested # TRUE /\ stream.state = "writable" /\ made < MaxEntries
    BY <1>4 DEF CloseStream, Refused
  <2>2. Close(made + 1) \in Entry /\ Close(made + 1).id = made + 1
    BY <2>1, Fields, ConstantsAssumption DEF Close, Entry, Entries
  <2>3. a \in WorldType
    <3>1. World.stream.state = "writable" /\ World.stream.closeRequested = FALSE
      BY <2>1, Fields
    <3>2. Sound(a, sink, made + 1, writers)
      BY <2>1, <2>2, <3>1, WorldGood, AddSound
    <3> QED BY <3>2 DEF Sound
  <2>4. a.stream.state = stream.state /\ a.stream.writing = stream.writing
    BY <1>0, AddKeeps
  <2> HIDE DEF a
  <2>5. /\ stream'.state = stream.state /\ sink'.fulfilled = sink.fulfilled
        /\ Len(sink.given) <= Len(sink'.given)
        /\ sink' = sink \/ (stream.writing = FALSE /\ sink'.call = "running")
    BY <1>0, <2>1, <2>3, <2>4, AdvanceMoves
  <2>6. stream.writing = TRUE <=> sink.call # "none"
    BY Fields DEF IInv, Sound, Order
  <2> QED BY <2>1, <2>5, <2>6 DEF Moves
<1>5. CASE WriteThrows \/ Abort
  <2>1. /\ Becomes(Error(World)) /\ sink' = sink /\ made' = made
    BY <1>5 DEF WriteThrows, Abort
  <2>2. stream' = Error(World).stream
    BY <2>1 DEF Becomes
  <2> QED BY <1>0, <1>5, <2>1, <2>2, ErrorKeeps DEF Moves
<1>6. CASE Started
  <2>1. CASE start' = "resolved" /\ AdvanceQueue(World, sink)
    BY <1>0, <1>6, <2>1, AdvanceEnds DEF Started
  <2>2. CASE start' = "rejected" /\ Becomes(Error(World)) /\ sink' = sink
    <3>1. stream' = Error(World).stream /\ made' = made /\ start = "pending"
      BY <1>6, <2>2 DEF Becomes, Started
    <3> QED BY <1>0, <2>2, <3>1, ErrorKeeps DEF Moves
  <2> QED BY <1>6, <2>1, <2>2 DEF Started
<1>7. CASE SinkReturns
  <2>1. sink' = [sink EXCEPT !.call = "pending"] /\ stream' = stream /\ made' = made
    BY <1>7 DEF SinkReturns
  <2>2. sink'.fulfilled = sink.fulfilled /\ sink'.given = sink.given
    BY <1>0, <2>1 DEF SinkType
  <2> QED BY <1>0, <1>7, <2>1, <2>2 DEF Moves
<1>8. CASE Settles
  <2>1. PICK how \in {"resolved", "rejected"} : SinkSettles(how)
    BY <1>8 DEF Settles
  <2>2. stream' = stream /\ made' = made
    BY <2>1 DEF SinkSettles
  <2>3. sink.fulfilled \subseteq sink'.fulfilled /\ sink'.given = sink.given
    BY <1>0, <2>1 DEF SinkSettles, SinkType
  <2> QED BY <1>0, <1>8, <2>2, <2>3 DEF Moves
<1>9. CASE SinkThrows \/ SinkFailed
  <2> DEFINE d == Done(World, sink.entry, "rejected")
  <2>1. sink' = Rest(sink) /\ Becomes(Error(d)) /\ sink.call # "none" /\ made' = made
    BY <1>9 DEF SinkThrows, SinkFailed, SinkFails, Rest, Idle
  <2>2. Sound(d, Rest(sink), made, writers)
    BY <2>1, WorldGood, DoneSound
  <2>3. d.stream.state = stream.state /\ d.stream.closeRequested = stream.closeRequested
    BY <1>0, DoneKeeps
  <2>4. d \in WorldType
    BY <2>2 DEF Sound
  <2> HIDE DEF d
  <2>5. /\ stream'.closeRequested = stream.closeRequested
        /\ stream'.state = IF stream.state = "writable" THEN "errored" ELSE stream.state
    BY <2>1, <2>3, <2>4, ErrorKeeps DEF Becomes
  <2>6. sink'.call = "none" /\ sink'.fulfilled = sink.fulfilled /\ sink'.given = sink.given
    BY <1>0, <2>1 DEF Rest, SinkType
  <2> QED BY <1>0, <1>9, <2>1, <2>5, <2>6 DEF Moves, SinkFailed
<1>10. CASE WriteDone
  <2> DEFINE d == Done(World, sink.entry, "resolved")
  <2> DEFINE c == CheckBackpressure(d)
  <2>1. AdvanceQueue(c, Rest(sink)) /\ sink.call = "resolved" /\ sink.call # "none" /\ made' = made
    BY <1>10 DEF WriteDone, Rest, Idle
  <2>2. Sound(d, Rest(sink), made, writers)
    BY <2>1, WorldGood, DoneSound
  <2>3. d.stream.state = stream.state /\ d.stream.closeRequested = stream.closeRequested
    BY <1>0, DoneKeeps
  <2>4. d \in WorldType /\ Rest(sink) \in SinkType
    BY <2>2 DEF Sound
  <2> HIDE DEF d
  <2>5. Sound(c, Rest(sink), made, writers)
    BY <2>2, CheckSound
  <2>6. c.stream.state = stream.state /\ c.stream.closeRequested = stream.closeRequested
    BY <2>3, <2>4, CheckKeeps
  <2>7. c \in WorldType
    BY <2>5 DEF Sound
  <2>8. Rest(sink) # sink
    BY <1>0, <2>1 DEF Rest, SinkType
  <2> HIDE DEF c
  <2> QED BY <1>0, <2>1, <2>4, <2>6, <2>7, <2>8, AdvanceEnds
<1>11. CASE CloseDone
  <2> DEFINE d == Done(World, sink.entry, "resolved")
  <2> DEFINE c == [d EXCEPT !.stream.state = "closed", !.closed = OfWriter(d.closed, d, "resolved")]
  <2>1. sink' = Rest(sink) /\ Becomes(c) /\ sink.call = "resolved" /\ sink.call # "none"
        /\ sink.entry.type = "close" /\ made' = made
    BY <1>11 DEF CloseDone, Rest, Idle
  <2>2. Sound(d, Rest(sink), made, writers)
    BY <2>1, WorldGood, DoneSound
  <2>3. d.stream.state = stream.state /\ d.stream.closeRequested = stream.closeRequested
    BY <1>0, DoneKeeps
  <2>4. d \in WorldType
    BY <2>2 DEF Sound
  <2> HIDE DEF d
  <2>5. c.stream.state = "closed" /\ c.stream.closeRequested = d.stream.closeRequested
    BY <2>4 DEF WorldType, StreamType
  <2>6. sink'.call = "none" /\ sink'.fulfilled = sink.fulfilled /\ sink'.given = sink.given
    BY <1>0, <2>1 DEF Rest, SinkType
  <2> QED BY <1>0, <2>1, <2>3, <2>5, <2>6 DEF Moves, Becomes
<1> QED BY <1>1, <1>2, <1>3, <1>4, <1>5, <1>6, <1>7, <1>8, <1>9, <1>10, <1>11 DEF Next, Job, Settles

=============================================================================
