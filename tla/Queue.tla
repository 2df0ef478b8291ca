-------------------------------- MODULE Queue --------------------------------
(***************************************************************************)
(* src/src/queue.c and its JavaScript class (src/quickjs-queue.c): a list  *)
(* of reference-counted chunks, two counters kept beside it, and the       *)
(* ArrayBuffers that share a chunk's memory.  The methods run to           *)
(* completion one after the other; the garbage collector may drop an       *)
(* ArrayBuffer, and with it a reference, between any two of them.          *)
(*                                                                         *)
(* A byte is named by its position in the order of writing, so a chunk's   *)
(* data is the interval from .. from+size-1.                               *)
(***************************************************************************)
EXTENDS PrefixSums, FiniteSets

CONSTANTS
  Chunk,        \* the addresses malloc() can return
  SizeMod,      \* 2^w for a size_t of w bits
  MaxWritten,   \* bound: bytes written in one behaviour
  MaxViews,     \* bound: live ArrayBuffers on one chunk
  Asserts       \* TRUE: built without NDEBUG, a failing assert() aborts

ASSUME ConstantsAssumption ==
  /\ SizeMod \in Nat /\ MaxWritten \in Nat /\ MaxViews \in Nat
  /\ 2 * MaxWritten < SizeMod
  /\ IsFiniteSet(Chunk) /\ 2 * Cardinality(Chunk) < SizeMod   \* a chunk takes memory
  /\ Asserts \in BOOLEAN

VARIABLES
  list,      \* q->list, the oldest chunk first
  heap,      \* heap[c]: the memory at c; free when ref_count is 0
  nbytes,    \* q->nbytes
  nchunks,   \* q->nchunks
  views,     \* views[c]: live ArrayBuffers made from c
  mode,      \* "open", "gone" (finalized) or "aborted" (an assert failed)
  written,   \* bytes written so far: the position of the next byte
  reply      \* what the last call returned

vars == <<list, heap, nbytes, nchunks, views, mode, written, reply>>

Free == [ref_count |-> 0, size |-> 0, pos |-> 0, from |-> 0]
Mem == [ref_count : Nat, size : Nat, pos : Nat, from : Nat]

\* a - b and a + b in a size_t.
SizeMinus(a, b) == IF b <= a THEN a - b ELSE a - b + SizeMod

SizePlus(a, b) == IF a + b < SizeMod THEN a + b ELSE a + b - SizeMod

\* The ssize_t with the bits of the size_t x.
Signed(x) == IF 2 * x >= SizeMod THEN x - SizeMod ELSE x

Bytes(a, k) == [j \in 0..(k - 1) |-> a + j]
Nothing == Bytes(0, 0)

Reply(op, arg, n, bytes) ==
  reply' = [op |-> op, arg |-> arg, n |-> n, bytes |-> bytes]

-----------------------------------------------------------------------------
\* chunk_free: the chunk m loses one reference; the last one frees its memory.
chunk_free(m) ==
  IF m.ref_count = 1 THEN Free ELSE [m EXCEPT !.ref_count = @ - 1]

chunk_size(c) == heap[c].size - heap[c].pos

\* The position in the stream of the first byte c still holds.
First(c) == heap[c].from + heap[c].pos

\* chunk_tailpos: TailPos[i] is what the chunks older than list[i] hold, so
\* TailPos[Len(list) + 1] is what all of them hold.
TailPos ==
  LET rest == [i \in 1..Len(list) |-> chunk_size(list[i])]
  IN  [i \in 1..(Len(list) + 1) |-> Sums(rest)[i - 1]]

Queued == TailPos[Len(list) + 1]

ShorterOf(a, b) == IF a <= b THEN a ELSE b

\* Mutant of Taken: forgets MIN_NUM and gives the whole rest of the request.
TakenPastEnd(n, i) == IF TailPos[i] < n THEN n - TailPos[i] ELSE 0

\* The loop of queue_read, queue_peek and queue_skip gives i-th oldest chunk
\* the bytes of the request that the older ones could not satisfy.
Taken(n, i) ==
  IF TailPos[i] < n THEN ShorterOf(chunk_size(list[i]), n - TailPos[i]) ELSE 0

\* It unlinks a chunk it reached and emptied: these are the Drained(n) oldest.
Drained(n) ==
  CHOOSE k \in 0..Len(list) :
    \A i \in 1..Len(list) :
      i <= k <=> TailPos[i] < n /\ Taken(n, i) = chunk_size(list[i])

\* Mutant of Copied: copies from b->data instead of &b->data[b->pos].
CopiedFromStart(n) ==
  [j \in 0..(ShorterOf(n, Queued) - 1) |->
     LET i == CHOOSE i \in 1..Len(list) :
                TailPos[i] <= j /\ j < TailPos[i] + Taken(n, i)
     IN  heap[list[i]].from + (j - TailPos[i])]

\* memcpy into the caller's buffer, chunk after chunk.
Copied(n) ==
  [j \in 0..(ShorterOf(n, Queued) - 1) |->
     LET i == CHOOSE i \in 1..Len(list) :
                TailPos[i] <= j /\ j < TailPos[i] + Taken(n, i)
     IN  First(list[i]) + (j - TailPos[i])]

IndexOf(c) == CHOOSE i \in 1..Len(list) : list[i] = c
Listed(c) == \E i \in 1..Len(list) : list[i] = c

\* What queue_read and queue_skip leave behind.
Consume(n) ==
  LET k == Drained(n) IN
  /\ list' = SubSeq(list, k + 1, Len(list))
  /\ heap' = [c \in Chunk |->
       IF ~Listed(c) THEN heap[c]
       ELSE LET read == [heap[c] EXCEPT !.pos = @ + Taken(n, IndexOf(c))]
            IN  IF IndexOf(c) <= k THEN chunk_free(read) ELSE read]
  /\ nbytes' = SizeMinus(nbytes, ShorterOf(n, Queued))
  /\ nchunks' = SizeMinus(nchunks, k)

\* Mutant of chunk_arraybuffer: forgets chunk_dup.
chunk_arraybuffer_nodup(c) ==
  /\ views[c] < MaxViews
  /\ views' = [views EXCEPT ![c] = @ + 1]
  /\ UNCHANGED heap

\* chunk_arraybuffer: an ArrayBuffer over the rest of chunk c.
chunk_arraybuffer(c) ==
  /\ views[c] < MaxViews
  /\ views' = [views EXCEPT ![c] = @ + 1]
  /\ heap' = [heap EXCEPT ![c].ref_count = @ + 1]

Unchanged == UNCHANGED <<list, heap, nbytes, nchunks, views>>
-----------------------------------------------------------------------------
Init ==
  /\ list = <<>>
  /\ heap = [c \in Chunk |-> Free]
  /\ nbytes = 0
  /\ nchunks = 0
  /\ views = [c \in Chunk |-> 0]
  /\ mode = "open"
  /\ written = 0
  /\ reply = [op |-> "none", arg |-> 0, n |-> 0, bytes |-> Nothing]

\* Queue.prototype.write
Write(n) ==
  /\ mode = "open"
  /\ written + n <= MaxWritten
  /\ \E c \in Chunk :
       /\ heap[c].ref_count = 0
       /\ heap' = [heap EXCEPT ![c] =
                     [ref_count |-> 1, size |-> n, pos |-> 0, from |-> written]]
       /\ list' = Append(list, c)
  /\ nbytes' = SizePlus(nbytes, n)
  /\ nchunks' = SizePlus(nchunks, 1)
  /\ written' = written + n
  /\ Reply("write", n, n, Nothing)
  /\ UNCHANGED <<views, mode>>

\* ... when malloc() fails
WriteFails(n) ==
  /\ mode = "open"
  /\ Reply("write", n, -1, Nothing)
  /\ Unchanged /\ UNCHANGED <<mode, written>>

\* Queue.prototype.read
Read(n) ==
  /\ mode = "open"
  /\ Consume(n)
  /\ Reply("read", n, ShorterOf(n, Queued), Copied(n))
  /\ UNCHANGED <<views, mode, written>>

\* Queue.prototype.skip
Skip(n) ==
  /\ mode = "open"
  /\ Consume(n)
  /\ Reply("skip", n, ShorterOf(n, Queued), Nothing)
  /\ UNCHANGED <<views, mode, written>>

\* Queue.prototype.peek
Peek(n) ==
  /\ mode = "open"
  /\ Reply("peek", n, ShorterOf(n, Queued), Copied(n))
  /\ Unchanged /\ UNCHANGED <<mode, written>>

\* Mutant of TakeChunk: counts the chunk's size, not what is left of it.
TakeChunkWhole ==
  /\ mode = "open"
  /\ IF list = <<>>
       THEN Reply("next", 0, -1, Nothing) /\ Unchanged
       ELSE LET c == Head(list) IN
            /\ list' = Tail(list)
            /\ nchunks' = SizeMinus(nchunks, 1)
            /\ nbytes' = SizeMinus(nbytes, heap[c].size)
            /\ chunk_arraybuffer(c)
            /\ Reply("next", 0, chunk_size(c), Bytes(First(c), chunk_size(c)))
  /\ UNCHANGED <<mode, written>>

\* Queue.prototype.next and the iterator's next(): queue_next unlinks the
\* oldest chunk and keeps the list's reference, chunk_arraybuffer adds one.
TakeChunk ==
  /\ mode = "open"
  /\ IF list = <<>>
       THEN Reply("next", 0, -1, Nothing) /\ Unchanged
       ELSE LET c == Head(list) IN
            /\ list' = Tail(list)
            /\ nchunks' = SizeMinus(nchunks, 1)
            /\ nbytes' = SizeMinus(nbytes, chunk_size(c))
            /\ chunk_arraybuffer(c)
            /\ Reply("next", 0, chunk_size(c), Bytes(First(c), chunk_size(c)))
  /\ UNCHANGED <<mode, written>>

\* Queue.prototype.chunk(pos), and the getters tail (pos = 0) and head (-1).
\* queue_chunk counts from the oldest chunk, or from the newest when pos < 0.
ChunkAt(pos) ==
  LET i == IF pos >= 0 THEN pos + 1 ELSE Len(list) + 1 + pos
      inRange == IF pos >= 0 THEN pos < nchunks ELSE pos >= -Signed(nchunks)
  IN
  /\ mode = "open"
  /\ IF inRange /\ i \in 1..Len(list)
       THEN /\ chunk_arraybuffer(list[i])
            /\ Reply("chunk", pos, chunk_size(list[i]),
                     Bytes(First(list[i]), chunk_size(list[i])))
            /\ UNCHANGED <<list, nbytes, nchunks>>
       ELSE Reply("chunk", pos, -1, Nothing) /\ Unchanged
  /\ UNCHANGED <<mode, written>>

\* Queue.prototype.at(offset): queue_at finds the chunk around the offset and
\* how far into it the offset lies; the caller gets both.
At(offset) ==
  LET at == IF offset >= 0 THEN offset ELSE Queued + offset
      inRange == IF offset >= 0 THEN offset < nbytes ELSE offset >= -Signed(nbytes)
      around == {i \in 1..Len(list) : TailPos[i] <= at /\ at < TailPos[i + 1]}
  IN
  /\ mode = "open"
  /\ IF inRange /\ around # {}
       THEN LET i == CHOOSE i \in around : TRUE IN
            /\ chunk_arraybuffer(list[i])
            /\ Reply("at", offset, 1, Bytes(First(list[i]) + (at - TailPos[i]), 1))
            /\ UNCHANGED <<list, nbytes, nchunks>>
       ELSE Reply("at", offset, -1, Nothing) /\ Unchanged
  /\ UNCHANGED <<mode, written>>

\* The sizes of all listed chunks, whatever was read from them.
AllocatedBytes == Sums([i \in 1..Len(list) |-> heap[list[i]].size])[Len(list)]

\* queue_clear subtracts chunk->size for every chunk, read from or not, and
\* then asserts that nothing is counted any more.
queue_clear(after) ==
  /\ list' = <<>>
  /\ heap' = [c \in Chunk |-> IF Listed(c) THEN chunk_free(heap[c]) ELSE heap[c]]
  /\ nchunks' = SizeMinus(nchunks, Len(list))
  /\ nbytes' = SizeMinus(nbytes, AllocatedBytes)
  /\ mode' = IF Asserts /\ ~(nchunks' = 0 /\ nbytes' = 0) THEN "aborted" ELSE after
  /\ UNCHANGED <<views, written>>

\* Queue.prototype.clear
Clear ==
  /\ mode = "open"
  /\ queue_clear("open")
  /\ Reply("clear", 0, 0, Nothing)

\* The Queue object is garbage: js_queue_finalizer.
Finalize ==
  /\ mode = "open"
  /\ queue_clear("gone")
  /\ Reply("clear", 0, 0, Nothing)

\* An ArrayBuffer is garbage: chunk_arraybuffer_free.
DropView(c) ==
  /\ mode # "aborted"
  /\ views[c] > 0
  /\ views' = [views EXCEPT ![c] = @ - 1]
  /\ heap' = [heap EXCEPT ![c] = chunk_free(@)]
  /\ UNCHANGED <<list, nbytes, nchunks, mode, written, reply>>

Next ==
  \/ \E n \in 0..MaxWritten :
       Write(n) \/ WriteFails(n) \/ Read(n) \/ Skip(n) \/ Peek(n)
  \/ \E i \in -MaxWritten..MaxWritten : ChunkAt(i) \/ At(i)
  \/ \E c \in Chunk : DropView(c)
  \/ TakeChunk \/ Clear \/ Finalize

Spec == Init /\ [][Next]_vars
-----------------------------------------------------------------------------
(***************************************************************************)
(* Properties.                                                             *)
(***************************************************************************)
\* Types; a chunk is listed at most once and never read past its end.
TypeOK ==
  /\ list \in Seq(Chunk)
  /\ \A i, j \in 1..Len(list) : list[i] = list[j] => i = j
  /\ heap \in [Chunk -> Mem]
  /\ \A c \in Chunk : heap[c].pos <= heap[c].size
  /\ nbytes \in 0..(SizeMod - 1)
  /\ nchunks \in 0..(SizeMod - 1)
  /\ views \in [Chunk -> 0..MaxViews]
  /\ mode \in {"open", "gone", "aborted"}
  /\ written \in 0..MaxWritten

\* The counters the getters size, empty and chunks report, and queue_at and
\* queue_chunk trust for their bounds, agree with the list itself after any
\* sequence of writes, partial reads, skips, iterations and clears.
CountersMatch ==
  mode = "open" => nbytes = Queued /\ nchunks = Len(list)

\* Every holder of a chunk is counted, the list and each live ArrayBuffer: no
\* chunk is freed, and its memory handed out again, under a reader.
HoldersCounted ==
  mode # "aborted" =>
    \A c \in Chunk : heap[c].ref_count >= views[c] + (IF Listed(c) THEN 1 ELSE 0)

\* Chunk by chunk, copied or shared, through any mix of the calls, the user
\* sees one stream of bytes in the order of writing: queue.c implements ByteFifo.
Consumed == IF list = <<>> THEN written ELSE First(list[1])

Fifo == INSTANCE ByteFifo WITH consumed <- Consumed

ImplementsFifo == Fifo!Spec

\* The assertion that ends queue_clear: nothing is counted in a cleared queue.
ClearedQueueCountsNothing ==
  reply.op = "clear" => nchunks = 0 /\ nbytes = 0
=============================================================================
