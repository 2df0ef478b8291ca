---------------------------- MODULE Bytes_proofs ----------------------------
(***************************************************************************)
(* Proofs about the two ways that bytes are queued: Queue, the list of     *)
(* chunks in C, for any number of chunks, any bounds and any size_t, and   *)
(* ByteStream, the byte stream and its views, for any sizes and bounds.    *)
(*                                                                         *)
(* The proof about ByteStream takes each method as a function of the       *)
(* fields: lemmas named ...Is say what it changes, those named ...Keeps    *)
(* that it keeps what is known of the stream (WorldOK), and those about    *)
(* Flow that what was delivered, is on its way and is kept are the bytes   *)
(* in order.                                                               *)
(***************************************************************************)
EXTENDS Queue, ByteStream, Induction_proofs, FiniteSetTheorems

-----------------------------------------------------------------------------
(***************************************************************************)
(* Queue.                                                                  *)
(***************************************************************************)
\* The chunks in list order hold consecutive stretches of the stream, only
\* the oldest was read from, and the newest ends where the next write begins.
Contiguous ==
  /\ \A i \in 1..Len(list) :
       heap[list[i]].from + heap[list[i]].size
         = IF i = Len(list) THEN written ELSE First(list[i + 1])
  /\ \A i \in 2..Len(list) : heap[list[i]].pos = 0
  /\ mode # "open" => list = <<>>

\* Where the bytes in front of chunk i end and those of chunk i begin.
Edge(i) == IF i \in 1..Len(list) THEN First(list[i]) ELSE written

ListOK ==
  /\ list \in Seq(Chunk)
  /\ \A i, j \in 1..Len(list) : list[i] = list[j] => i = j
  /\ heap \in [Chunk -> Mem]
  /\ \A c \in Chunk : heap[c].pos <= heap[c].size
  /\ written \in Nat
  /\ Contiguous

-----------------------------------------------------------------------------
\* Types of the parts of a chunk, and what chunk_size and Edge are made of.
LEMMA ChunkFacts ==
  ASSUME ListOK
  PROVE  /\ Len(list) \in Nat
         /\ \A i \in 1..Len(list) :
              /\ list[i] \in Chunk
              /\ heap[list[i]].from \in Nat /\ heap[list[i]].pos \in Nat
              /\ heap[list[i]].size \in Nat
              /\ First(list[i]) \in Nat /\ chunk_size(list[i]) \in Nat
              /\ Edge(i) = First(list[i])
              /\ Edge(i + 1) = Edge(i) + chunk_size(list[i])
         /\ Edge(Len(list) + 1) = written
         /\ Edge(1) = Consumed
         /\ \A i \in 1..(Len(list) + 1) : Edge(i) \in Nat
<1>1. Len(list) \in Nat /\ written \in Nat
  BY DEF ListOK
<1>2. ASSUME NEW i \in 1..Len(list)
      PROVE  /\ list[i] \in Chunk
             /\ heap[list[i]].from \in Nat /\ heap[list[i]].pos \in Nat
             /\ heap[list[i]].size \in Nat /\ heap[list[i]].pos <= heap[list[i]].size
  <2>1. list[i] \in Chunk
    BY DEF ListOK
  <2>2. heap[list[i]] \in Mem
    BY <2>1 DEF ListOK
  <2> QED BY <2>1, <2>2 DEF ListOK, Mem
<1>3. ASSUME NEW i \in 1..Len(list)
      PROVE  First(list[i]) \in Nat /\ chunk_size(list[i]) \in Nat
  BY <1>2, SMTT(60) DEF First, chunk_size
<1>4. ASSUME NEW i \in 1..Len(list)
      PROVE  Edge(i + 1) = Edge(i) + chunk_size(list[i])
  <2>1. Edge(i) = First(list[i])
    BY DEF Edge
  <2>2. heap[list[i]].from + heap[list[i]].size = Edge(i + 1)
    BY <1>1 DEF ListOK, Contiguous, Edge
  <2> QED BY <2>1, <2>2, <1>2, SMTT(60) DEF First, chunk_size
<1>5. Edge(1) = Consumed
  BY <1>1 DEF Edge, Consumed, ListOK
<1> QED BY <1>1, <1>2, <1>3, <1>4, <1>5 DEF Edge

\* The running totals of chunk_tailpos are distances in the stream.
LEMMA TailPosIsDistance ==
  ASSUME ListOK
  PROVE  /\ \A i \in 1..(Len(list) + 1) : TailPos[i] = Edge(i) - Consumed
         /\ \A i, j \in 1..(Len(list) + 1) : i <= j => Edge(i) <= Edge(j)
         /\ Queued = written - Consumed /\ Queued \in Nat
         /\ Consumed \in Nat /\ TailPos[1] = 0
<1> DEFINE f == [i \in 1..Len(list) |-> chunk_size(list[i])]
<1> DEFINE g == [i \in 1..(Len(list) + 1) |-> Edge(i)]
<1>0. Len(list) \in Nat
  BY ChunkFacts
<1>1. f \in Seq(Nat) /\ Len(f) = Len(list)
  BY ChunkFacts
<1>2. g \in [1..(Len(f) + 1) -> Int]
  BY <1>1, ChunkFacts
<1>3. \A i \in 1..Len(f) : g[i + 1] = g[i] + f[i]
  BY <1>1, <1>0, ChunkFacts
<1>4. TailPos = [i \in 1..(Len(list) + 1) |-> Sums(f)[i - 1]]
  BY DEF TailPos
<1> HIDE DEF f, g
<1>5. \A i \in 0..Len(f) : Sums(f)[i] = g[i + 1] - g[1]
  BY <1>1, <1>2, <1>3, SumsTelescope
<1>6. \A i \in 1..(Len(list) + 1) : TailPos[i] = Edge(i) - Consumed
  <2> TAKE i \in 1..(Len(list) + 1)
  <2>1. TailPos[i] = Sums(f)[i - 1]
    BY <1>4
  <2>2. i - 1 \in 0..Len(f) /\ (i - 1) + 1 = i
    BY <1>0, <1>1
  <2>3. Sums(f)[i - 1] = g[i] - g[1]
    BY <1>5, <2>2
  <2>4. g[i] = Edge(i) /\ g[1] = Edge(1)
    BY <1>0 DEF g
  <2> QED BY <2>1, <2>3, <2>4, ChunkFacts
<1>7. ASSUME NEW i \in 1..(Len(list) + 1), NEW j \in 1..(Len(list) + 1), i <= j
      PROVE  Edge(i) <= Edge(j)
  <2>1. i - 1 \in 0..Len(f) /\ j - 1 \in (i - 1)..Len(f)
    BY <1>7, <1>0, <1>1
  <2>2. Sums(f)[i - 1] <= Sums(f)[j - 1]
    BY <2>1, <1>1, SumsMonotone
  <2>3. TailPos[i] <= TailPos[j]
    BY <2>2, <1>4
  <2>4. Edge(i) \in Nat /\ Edge(j) \in Nat /\ Edge(1) \in Nat /\ Edge(1) = Consumed
    BY ChunkFacts, <1>0
  <2> QED BY <2>3, <2>4, <1>6
<1>8. Consumed \in Nat /\ TailPos[1] = 0
  BY ChunkFacts, <1>6, <1>0
<1>9. Queued = written - Consumed /\ Queued \in Nat
  <2>1. Queued = Edge(Len(list) + 1) - Consumed
    BY <1>6, <1>0 DEF Queued
  <2>2. Edge(1) <= Edge(Len(list) + 1)
    BY <1>7, <1>0
  <2> QED BY <2>1, <2>2, <1>8, <1>0, ChunkFacts
<1> QED BY <1>6, <1>7, <1>8, <1>9

\* What queue_clear subtracts: everything from the first byte of the oldest chunk.
LEMMA AllocatedIsNat ==
  ASSUME ListOK
  PROVE  AllocatedBytes \in 0..written
<1> DEFINE f == [i \in 1..Len(list) |-> heap[list[i]].size]
<1> DEFINE g == [i \in 1..(Len(list) + 1) |->
                   IF i \in 1..Len(list) THEN heap[list[i]].from ELSE written]
<1>0. Len(list) \in Nat /\ written \in Nat
  BY ChunkFacts DEF ListOK
<1>1. f \in Seq(Nat) /\ Len(f) = Len(list)
  BY ChunkFacts
<1>2. g \in [1..(Len(f) + 1) -> Int] /\ g[1] \in Nat /\ g[Len(list) + 1] = written
  BY <1>0, <1>1, ChunkFacts
<1>3. ASSUME NEW i \in 1..Len(f) PROVE g[i + 1] = g[i] + f[i]
  <2>1. g[i] = heap[list[i]].from /\ f[i] = heap[list[i]].size
    BY <1>1, <1>0
  <2>2. CASE i = Len(list)
    BY <2>1, <2>2, <1>2 DEF ListOK, Contiguous
  <2>3. CASE i # Len(list)
    <3> HIDE DEF f, g
    <3>0. i \in 1..Len(list)
      BY <1>1
    <3>1. i + 1 \in 2..Len(list) /\ i + 1 \in 1..Len(list) /\ i \in 1..Len(list)
      BY <3>0, <2>3, <1>0
    <3>2. heap[list[i + 1]].pos = 0 /\ heap[list[i + 1]].from \in Nat
      BY <3>1, ChunkFacts DEF ListOK, Contiguous
    <3>3. heap[list[i]].from + heap[list[i]].size = First(list[i + 1])
      BY <3>1, <2>3 DEF ListOK, Contiguous
    <3>4. g[i + 1] = heap[list[i + 1]].from
      BY <3>1, <1>0 DEF g
    <3> QED BY <3>2, <3>3, <3>4, <2>1 DEF First
  <2> QED BY <2>2, <2>3
<1>4. AllocatedBytes = Sums(f)[Len(f)]
  BY <1>1 DEF AllocatedBytes
<1> HIDE DEF f, g
<1>5. Sums(f)[Len(f)] = g[Len(f) + 1] - g[1]
  <2>1. \A i \in 0..Len(f) : Sums(f)[i] = g[i + 1] - g[1]
    BY <1>1, <1>2, <1>3, SumsTelescope
  <2>2. Len(f) \in 0..Len(f)
    BY <1>0, <1>1
  <2> QED BY <2>1, <2>2
<1>6. Sums(f)[Len(f)] \in Nat
  BY <1>0, <1>1, SumsProperties
<1> QED BY <1>0, <1>1, <1>2, <1>4, <1>5, <1>6

\* The same, chunk by chunk.
LEMMA TailPosFacts ==
  ASSUME ListOK, NEW i \in 1..Len(list)
  PROVE  /\ TailPos[i] \in Nat /\ TailPos[i + 1] \in Nat
         /\ chunk_size(list[i]) \in Nat
         /\ TailPos[i + 1] = TailPos[i] + chunk_size(list[i])
         /\ TailPos[i + 1] <= Queued
         /\ First(list[i]) = Consumed + TailPos[i]
<1> DEFINE L == Len(list)
<1>0. L \in Nat
  BY ChunkFacts
<1>1. i \in 1..(L + 1) /\ i + 1 \in 1..(L + 1) /\ 1 \in 1..(L + 1) /\ L + 1 \in 1..(L + 1)
  BY <1>0
<1>2. TailPos[i] = Edge(i) - Consumed /\ TailPos[i + 1] = Edge(i + 1) - Consumed
      /\ Queued = Edge(L + 1) - Consumed
  BY <1>1, TailPosIsDistance DEF Queued
<1>3. Edge(1) <= Edge(i) /\ Edge(i + 1) <= Edge(L + 1) /\ Edge(1) = Consumed
  <2>1. 1 <= i /\ i + 1 <= L + 1
    BY <1>0
  <2>2. \A a, b \in 1..(L + 1) : a <= b => Edge(a) <= Edge(b)
    BY TailPosIsDistance
  <2> QED BY <1>1, <2>1, <2>2, ChunkFacts
<1>4. Edge(i) \in Nat /\ Edge(i + 1) \in Nat /\ Edge(L + 1) \in Nat /\ Consumed \in Nat
      /\ chunk_size(list[i]) \in Nat
  BY <1>1, TailPosIsDistance, ChunkFacts
<1>5. Edge(i) = First(list[i]) /\ Edge(i + 1) = Edge(i) + chunk_size(list[i])
  BY ChunkFacts
<1> QED BY <1>2, <1>3, <1>4, <1>5, SMTT(60)

\* Which chunks a request of n bytes unlinks, and how far it gets into the next.
LEMMA DrainedFacts ==
  ASSUME ListOK, NEW n \in Nat
  PROVE  LET k == Drained(n)
             got == ShorterOf(n, Queued)
         IN  /\ k \in 0..Len(list)
             /\ \A i \in 1..Len(list) :
                  /\ Taken(n, i) \in 0..chunk_size(list[i])
                  /\ i <= k => Taken(n, i) = chunk_size(list[i])
                  /\ i > k + 1 => Taken(n, i) = 0
                  /\ i = k + 1 => First(list[i]) + Taken(n, i) = Consumed + got
             /\ k = Len(list) => written = Consumed + got
             /\ got \in 0..Queued
<1> DEFINE Gone(i) == TailPos[i] < n /\ TailPos[i + 1] <= n
<1> DEFINE L == Len(list)
<1>0. L \in Nat /\ written \in Nat
  BY ChunkFacts DEF ListOK
<1>1. ASSUME NEW i \in 1..L
      PROVE  /\ i \in 1..(L + 1) /\ i + 1 \in 1..(L + 1)
             /\ TailPos[i] \in Nat /\ TailPos[i + 1] \in Nat
             /\ chunk_size(list[i]) \in Nat
             /\ TailPos[i + 1] = TailPos[i] + chunk_size(list[i])
             /\ First(list[i]) = Consumed + TailPos[i]
  <2>1. i \in 1..(L + 1) /\ i + 1 \in 1..(L + 1)
    BY <1>0
  <2> QED BY <2>1, TailPosFacts
<1>2. ASSUME NEW i \in 1..(L + 1), NEW j \in 1..(L + 1), i <= j
      PROVE  TailPos[i] <= TailPos[j]
  <2>1. TailPos[i] = Edge(i) - Consumed /\ TailPos[j] = Edge(j) - Consumed
    BY TailPosIsDistance
  <2>2. Edge(i) <= Edge(j) /\ Edge(i) \in Nat /\ Edge(j) \in Nat /\ Consumed \in Nat
    BY <1>2, TailPosIsDistance, ChunkFacts
  <2> QED BY <2>1, <2>2
<1>3. ASSUME NEW i \in 1..L
      PROVE  /\ Taken(n, i) \in 0..chunk_size(list[i])
             /\ Gone(i) <=> TailPos[i] < n /\ Taken(n, i) = chunk_size(list[i])
             /\ n <= TailPos[i] => Taken(n, i) = 0
             /\ TailPos[i] < n => Taken(n, i) = ShorterOf(chunk_size(list[i]), n - TailPos[i])
  BY <1>1, SMTT(60) DEF Taken, ShorterOf
<1>4. \E k \in 0..L : \A i \in 1..L : i <= k <=> Gone(i)
  <2> DEFINE T == {i \in 1..L : ~Gone(i)}
  <2>1. CASE T = {}
    <3>1. L \in 0..L /\ \A i \in 1..L : i <= L
      BY <1>0
    <3>2. \A i \in 1..L : Gone(i)
      BY <2>1
    <3> HIDE DEF Gone
    <3> QED BY <3>1, <3>2
  <2>2. CASE T # {}
    <3>1. T \in SUBSET Nat
      BY <1>0
    <3> HIDE DEF T
    <3>2. PICK m \in T : \A i \in T : m <= i
      BY <2>2, <3>1, LeastElement
    <3>3. m \in 1..L /\ ~Gone(m)
      BY <3>2 DEF T
    <3>4. ASSUME NEW i \in 1..L PROVE i <= m - 1 <=> Gone(i)
      <4>1. CASE i < m
        BY <4>1, <3>2, <3>3, <1>0 DEF T
      <4>2. CASE i = m
        BY <4>2, <3>3, <1>0
      <4>3. CASE i > m
        <5>1. TailPos[m] <= TailPos[i] /\ TailPos[m + 1] <= TailPos[i]
          BY <4>3, <1>0, <1>2, <3>3
        <5>2. TailPos[m] \in Nat /\ TailPos[m + 1] \in Nat /\ TailPos[i] \in Nat
          BY <1>1, <3>3
        <5>3. ~Gone(i)
          BY <5>1, <5>2, <3>3
        <5> QED BY <5>3, <4>3, <3>3, <1>0
      <4> QED BY <4>1, <4>2, <4>3, <3>3, <1>0
    <3>5. m - 1 \in 0..L
      BY <3>3, <1>0
    <3> QED BY <3>4, <3>5
  <2> QED BY <2>1, <2>2
<1> DEFINE k == Drained(n)
<1>5. k \in 0..L /\ \A i \in 1..L : i <= k <=> Gone(i)
  BY <1>3, <1>4 DEF Drained
<1> HIDE DEF k
<1>q. Queued \in Nat /\ Queued = TailPos[L + 1] /\ Consumed \in Nat
      /\ Queued = written - Consumed
  BY TailPosIsDistance DEF Queued
<1> DEFINE got == ShorterOf(n, Queued)
<1>6. ASSUME NEW i \in 1..L, i > k + 1 PROVE Taken(n, i) = 0
  <2>1. k + 1 \in 1..L /\ ~Gone(k + 1)
    BY <1>5, <1>6, <1>0
  <2>2. k + 2 \in 1..(L + 1) /\ (k + 1) + 1 = k + 2 /\ k + 2 <= i
    BY <2>1, <1>5, <1>6, <1>0
  <2>3. TailPos[k + 1] <= TailPos[i] /\ TailPos[k + 2] <= TailPos[i]
    BY <2>1, <2>2, <1>2, <1>1
  <2>4. TailPos[k + 1] \in Nat /\ TailPos[k + 2] \in Nat /\ TailPos[i] \in Nat
    BY <2>1, <2>2, <1>1
  <2>5. n <= TailPos[i]
    BY <2>1, <2>2, <2>3, <2>4
  <2> QED BY <2>5, <1>3
<1>7. ASSUME NEW i \in 1..L, i = k + 1 PROVE First(list[i]) + Taken(n, i) = Consumed + got
  <2>1. TailPos[i] <= n
    <3>1. CASE k = 0
      BY <3>1, <1>7, TailPosIsDistance
    <3>2. CASE k # 0
      <4>1. k \in 1..L /\ Gone(k)
        BY <3>2, <1>5, <1>0
      <4> QED BY <4>1, <1>7
    <3> QED BY <3>1, <3>2
  <2>2. ~Gone(i)
    BY <1>5, <1>7
  <2>3. TailPos[i] <= Queued /\ TailPos[i + 1] <= Queued
    <3>1. i \in 1..(L + 1) /\ i + 1 \in 1..(L + 1) /\ L + 1 \in 1..(L + 1)
          /\ i <= L + 1 /\ i + 1 <= L + 1
      BY <1>0
    <3> QED BY <3>1, <1>2, <1>q
  <2>4. CASE TailPos[i] < n
    <3>1. Taken(n, i) = n - TailPos[i]
      BY <2>2, <2>4, <1>1, <1>3 DEF ShorterOf
    <3>2. n < TailPos[i + 1]
      BY <2>2, <2>4, <1>1
    <3>3. got = n
      BY <3>2, <2>3, <1>1, <1>q DEF ShorterOf
    <3> QED BY <3>1, <3>3, <1>1, <1>q
  <2>5. CASE TailPos[i] = n
    <3>1. Taken(n, i) = 0
      BY <2>5, <1>3, <1>1
    <3>2. got = n
      BY <2>5, <2>3, <1>q DEF ShorterOf
    <3> QED BY <3>1, <3>2, <2>5, <1>1, <1>q
  <2> QED BY <2>1, <2>4, <2>5, <1>1
<1>8. ASSUME k = L PROVE written = Consumed + got
  <2>1. Queued <= n
    <3>1. CASE L = 0
      <4>1. L + 1 = 1
        BY <3>1
      <4>2. Queued = 0
        BY <4>1, <1>q, TailPosIsDistance
      <4> QED BY <4>2
    <3>2. CASE L # 0
      <4>1. L \in 1..L /\ Gone(L)
        BY <3>2, <1>5, <1>8, <1>0
      <4> QED BY <4>1, <1>q
    <3> QED BY <3>1, <3>2
  <2> QED BY <2>1, <1>q, <1>0 DEF ShorterOf
<1>9. got \in 0..Queued
  BY <1>q DEF ShorterOf
<1>10. ASSUME NEW i \in 1..L, i <= k PROVE Taken(n, i) = chunk_size(list[i])
  BY <1>10, <1>5, <1>3
<1> QED BY <1>3, <1>5, <1>6, <1>7, <1>8, <1>9, <1>10 DEF k

\* Every byte held lies in some chunk.
LEMMA OffsetHasChunk ==
  ASSUME ListOK, NEW j \in 0..(Queued - 1)
  PROVE  \E i \in 1..Len(list) : TailPos[i] <= j /\ j < TailPos[i + 1]
<1> DEFINE L == Len(list)
<1> DEFINE T == {i \in 1..L : j < TailPos[i + 1]}
<1>0. L \in Nat /\ Queued \in Nat /\ j < TailPos[L + 1] /\ TailPos[1] = 0 /\ j \in Nat
  BY ChunkFacts, TailPosIsDistance DEF Queued
<1>1. L \in T
  <2>1. L # 0
    BY <1>0
  <2> QED BY <2>1, <1>0
<1>2. T \in SUBSET Nat
  BY <1>0
<1> HIDE DEF T
<1>3. PICK m \in T : \A i \in T : m <= i
  BY <1>1, <1>2, LeastElement
<1>4. m \in 1..L /\ j < TailPos[m + 1]
  BY <1>3 DEF T
<1>5. TailPos[m] <= j
  <2>1. CASE m = 1
    BY <2>1, <1>0
  <2>2. CASE m # 1
    <3>1. m - 1 \in 1..L /\ m - 1 \notin T /\ (m - 1) + 1 = m
      BY <2>2, <1>3, <1>4, <1>0
    <3>2. ~(j < TailPos[m])
      BY <3>1 DEF T
    <3> QED BY <3>2, <1>4, <1>0, TailPosFacts
  <2> QED BY <2>1, <2>2
<1> QED BY <1>4, <1>5

\* memcpy delivers consecutive bytes, beginning with the oldest one held.
LEMMA CopiedIsPrefix ==
  ASSUME ListOK, NEW n \in Nat
  PROVE  Copied(n) = Bytes(Consumed, ShorterOf(n, Queued))
<1> DEFINE got == ShorterOf(n, Queued)
<1> DEFINE L == Len(list)
<1>0. L \in Nat /\ Queued \in Nat /\ got \in Nat /\ got <= n /\ got <= Queued /\ Consumed \in Nat
  BY ChunkFacts, TailPosIsDistance DEF ShorterOf
<1>1. ASSUME NEW j \in 0..(got - 1)
      PROVE  LET i == CHOOSE i \in 1..L : TailPos[i] <= j /\ j < TailPos[i] + Taken(n, i)
             IN  First(list[i]) + (j - TailPos[i]) = Consumed + j
  <2>1. j \in 0..(Queued - 1) /\ j < n /\ j \in Nat
    BY <1>0
  <2>2. PICK m \in 1..L : TailPos[m] <= j /\ j < TailPos[m + 1]
    BY <2>1, OffsetHasChunk
  <2>3. j < TailPos[m] + Taken(n, m)
    BY <2>1, <2>2, TailPosFacts DEF Taken, ShorterOf
  <2> DEFINE i == CHOOSE i \in 1..L : TailPos[i] <= j /\ j < TailPos[i] + Taken(n, i)
  <2>4. i \in 1..L
    BY <2>2, <2>3
  <2> HIDE DEF i
  <2>5. First(list[i]) = Consumed + TailPos[i] /\ TailPos[i] \in Nat
    BY <2>4, TailPosFacts
  <2>6. First(list[i]) + (j - TailPos[i]) = Consumed + j
    BY <2>5, <1>0, <2>1
  <2> QED BY <2>6 DEF i
<1> QED BY <1>1 DEF Copied, Bytes

-----------------------------------------------------------------------------
(***************************************************************************)
(* The inductive invariant.  TypeOK alone is not inductive: that a read    *)
(* stays inside its chunk rests on the chunks being contiguous, and that a *)
(* write gets memory nobody holds rests on the reference counts.           *)
(***************************************************************************)
IInv == TypeOK /\ Contiguous /\ HoldersCounted

LEMMA IInvListOK == IInv => ListOK
  BY DEF IInv, TypeOK, ListOK

LEMMA TypeOf_chunk_free ==
  ASSUME NEW m \in Mem, m.pos <= m.size, m.ref_count >= 1
  PROVE  /\ chunk_free(m) \in Mem
         /\ chunk_free(m).pos <= chunk_free(m).size
         /\ chunk_free(m).ref_count = m.ref_count - 1
         /\ m.ref_count > 1 => /\ chunk_free(m).from = m.from
                               /\ chunk_free(m).pos = m.pos
                               /\ chunk_free(m).size = m.size
  BY DEF chunk_free, Mem, Free

LEMMA SizeArithmetic ==
  ASSUME NEW a \in 0..(SizeMod - 1), NEW b \in 0..(SizeMod - 1)
  PROVE  SizeMinus(a, b) \in 0..(SizeMod - 1) /\ SizePlus(a, b) \in 0..(SizeMod - 1)
  BY ConstantsAssumption DEF SizeMinus, SizePlus

\* A chunk is listed once, so there are no more of them than addresses.
LEMMA ListIsShort ==
  ASSUME list \in Seq(Chunk), \A i, j \in 1..Len(list) : list[i] = list[j] => i = j
  PROVE  Len(list) \in 0..(SizeMod - 1) /\ 2 * Len(list) < SizeMod
<1>1. Len(list) \in Nat
  OBVIOUS
<1>2. list \in [1..Len(list) -> Chunk]
  OBVIOUS
<1>3. list \in Injection(1..Len(list), Chunk)
  BY <1>2 DEF Injection, IsInjective
<1>4. Cardinality(1..Len(list)) <= Cardinality(Chunk)
  BY <1>3, FS_Injection, ConstantsAssumption
<1>5. Cardinality(1..Len(list)) = Len(list)
  <2>1. Cardinality(1..Len(list)) = IF 1 > Len(list) THEN 0 ELSE Len(list) - 1 + 1
    BY <1>1, FS_Interval, SMTT(60)
  <2> QED BY <2>1, <1>1
<1>6. Cardinality(Chunk) \in Nat
  BY FS_CardinalityType, ConstantsAssumption
<1> QED BY <1>1, <1>4, <1>5, <1>6, ConstantsAssumption

LEMMA InitIInv == Init => IInv
<1> SUFFICES ASSUME Init PROVE IInv
  OBVIOUS
<1>1. TypeOK
  BY ConstantsAssumption DEF Init, TypeOK, Free, Mem
<1>2. Contiguous
  BY DEF Init, Contiguous
<1>3. HoldersCounted
  BY DEF Init, HoldersCounted, Listed, Free
<1> QED BY <1>1, <1>2, <1>3 DEF IInv

LEMMA WriteStep ==
  ASSUME IInv, NEW n \in Nat, Write(n)
  PROVE  IInv' /\ Consumed' = Consumed /\ Len(list') = Len(list) + 1
<1> USE DEF IInv
<1>1. PICK c \in Chunk :
        /\ heap[c].ref_count = 0
        /\ heap' = [heap EXCEPT ![c] =
                      [ref_count |-> 1, size |-> n, pos |-> 0, from |-> written]]
        /\ list' = Append(list, c)
  BY DEF Write
<1>2. views[c] = 0 /\ ~Listed(c)
  BY <1>1 DEF Write, HoldersCounted, TypeOK
<1> DEFINE L == Len(list)
<1>3. L \in Nat /\ list \in Seq(Chunk) /\ Len(list') = L + 1 /\ list'[L + 1] = c
      /\ \A i \in 1..L : list'[i] = list[i] /\ list[i] \in Chunk /\ list[i] # c
  BY <1>1, <1>2 DEF TypeOK, Listed
<1>4. heap'[c] = [ref_count |-> 1, size |-> n, pos |-> 0, from |-> written]
      /\ \A d \in Chunk : d # c => heap'[d] = heap[d]
  BY <1>1 DEF TypeOK
<1>5. written' = written + n /\ written \in Nat /\ written' \in 0..MaxWritten
  BY ConstantsAssumption DEF Write, TypeOK
<1>6. TypeOK'
  <2>1. list' \in Seq(Chunk)
    BY <1>1, <1>3
  <2>2. ASSUME NEW i \in 1..(L + 1), NEW j \in 1..(L + 1), list'[i] = list'[j]
        PROVE  i = j
    <3>1. CASE i = L + 1 /\ j = L + 1
      BY <3>1
    <3>2. CASE i \in 1..L /\ j \in 1..L
      <4>1. list[i] = list[j]
        BY <3>2, <2>2, <1>3
      <4> QED BY <4>1, <3>2 DEF TypeOK
    <3>3. CASE i \in 1..L /\ j = L + 1
      BY <3>3, <2>2, <1>3
    <3>4. CASE i = L + 1 /\ j \in 1..L
      BY <3>4, <2>2, <1>3
    <3>5. (i = L + 1 \/ i \in 1..L) /\ (j = L + 1 \/ j \in 1..L)
      BY <1>3
    <3> QED BY <3>1, <3>2, <3>3, <3>4, <3>5
  <2>3. heap' \in [Chunk -> Mem] /\ \A d \in Chunk : heap'[d].pos <= heap'[d].size
    <3>1. heap'[c] \in Mem /\ heap'[c].pos <= heap'[c].size
      BY <1>4, <1>5 DEF Mem
    <3> QED BY <1>1, <1>4, <3>1 DEF TypeOK
  <2>4. n \in 0..(SizeMod - 1) /\ 1 \in 0..(SizeMod - 1)
    <3>1. n <= MaxWritten
      BY <1>5, ConstantsAssumption
    <3>2. Cardinality(Chunk) # 0
      BY FS_EmptySet, ConstantsAssumption
    <3>3. Cardinality(Chunk) \in Nat
      BY FS_CardinalityType, ConstantsAssumption
    <3> QED BY <3>1, <3>2, <3>3, ConstantsAssumption
  <2>5. nbytes' \in 0..(SizeMod - 1) /\ nchunks' \in 0..(SizeMod - 1)
    <3>1. nchunks' = SizePlus(nchunks, 1)
      BY DEF Write
    <3>2. nbytes' = SizePlus(nbytes, n)
      BY DEF Write
    <3>3. nbytes \in 0..(SizeMod - 1) /\ nchunks \in 0..(SizeMod - 1)
      BY DEF TypeOK
    <3> QED BY <3>1, <3>2, <3>3, <2>4, SizeArithmetic
  <2>6. views' = views /\ mode' = mode
    BY DEF Write
  <2> QED BY <2>1, <2>2, <2>3, <2>5, <2>6, <1>3, <1>5 DEF TypeOK
<1>7. Contiguous'
  <2>1. ASSUME NEW i \in 1..Len(list')
        PROVE  heap'[list'[i]].from + heap'[list'[i]].size
                 = IF i = Len(list') THEN written' ELSE First(list[i + 1])'
    <3>1. CASE i = L + 1
      BY <3>1, <1>3, <1>4, <1>5
    <3>2. CASE i = L
      <4>1. L \in 1..L /\ heap'[list'[i]] = heap[list[L]]
        BY <3>2, <1>3, <1>4
      <4>2. heap[list[L]].from + heap[list[L]].size = written
        BY <4>1 DEF Contiguous
      <4>3. First(list[i + 1])' = heap'[c].from + heap'[c].pos
        BY <3>2, <1>3 DEF First
      <4>4. First(list[i + 1])' = written
        BY <4>3, <1>4, <1>5
      <4> QED BY <4>1, <4>2, <4>4, <3>2, <1>3
    <3>3. CASE i < L
      <4>1. i \in 1..L /\ i + 1 \in 1..L /\ i # L
        BY <3>3, <1>3
      <4>2. heap[list[i]].from + heap[list[i]].size = First(list[i + 1])
        BY <4>1 DEF Contiguous
      <4>3. heap'[list'[i]] = heap[list[i]] /\ heap'[list'[i + 1]] = heap[list[i + 1]]
        BY <4>1, <1>3, <1>4
      <4> QED BY <4>1, <4>2, <4>3, <1>3 DEF First
    <3> QED BY <3>1, <3>2, <3>3, <1>3
  <2>2. \A i \in 2..Len(list') : heap'[list'[i]].pos = 0
    BY <1>3, <1>4 DEF Contiguous
  <2> QED BY <2>1, <2>2 DEF Contiguous, Write
<1>8. HoldersCounted'
  <2> SUFFICES ASSUME NEW d \in Chunk
               PROVE  heap'[d].ref_count >= views'[d] + (IF Listed(d)' THEN 1 ELSE 0)
    BY DEF HoldersCounted
  <2>1. CASE d = c
    <3>1. views'[d] = 0 /\ heap'[d].ref_count = 1
      BY <2>1, <1>2, <1>4 DEF Write
    <3> QED BY <3>1
  <2>2. CASE d # c
    <3>1. Listed(d)' => Listed(d)
      BY <2>2, <1>3 DEF Listed
    <3>2. heap'[d] = heap[d] /\ views' = views
      BY <2>2, <1>4 DEF Write
    <3>3. heap[d].ref_count >= views[d] + (IF Listed(d) THEN 1 ELSE 0)
      BY DEF HoldersCounted, Write
    <3>4. heap[d].ref_count \in Nat /\ views[d] \in Nat
      BY DEF TypeOK, Mem
    <3> QED BY <3>1, <3>2, <3>3, <3>4
  <2> QED BY <2>1, <2>2
<1>9. Consumed' = Consumed
  <2>1. CASE list = <<>>
    <3>1. L = 0 /\ list' # <<>> /\ list'[1] = c
      BY <2>1, <1>3
    <3>2. Consumed' = heap'[c].from + heap'[c].pos
      BY <3>1 DEF Consumed, First
    <3> QED BY <3>2, <2>1, <1>4, <1>5 DEF Consumed
  <2>2. CASE list # <<>>
    <3>1. 1 \in 1..L /\ list' # <<>>
      BY <2>2, <1>3
    <3>2. list'[1] = list[1] /\ heap'[list[1]] = heap[list[1]]
      BY <3>1, <1>3, <1>4
    <3> QED BY <3>1, <3>2, <2>2 DEF Consumed, First
  <2> QED BY <2>1, <2>2
<1> QED BY <1>3, <1>6, <1>7, <1>8, <1>9

LEMMA ConsumeStep ==
  ASSUME IInv, NEW n \in Nat, mode = "open", Consume(n),
         UNCHANGED <<views, mode, written>>
  PROVE  IInv' /\ Consumed' = Consumed + ShorterOf(n, Queued)
<1> USE DEF IInv
<1> DEFINE k == Drained(n)
           got == ShorterOf(n, Queued)
           L == Len(list)
<1>0. ListOK
  BY IInvListOK
<1>1. /\ L \in Nat /\ written \in Nat /\ Consumed \in Nat
      /\ Queued \in Nat /\ Queued <= written /\ Queued = written - Consumed
      /\ list \in Seq(Chunk)
  BY <1>0, ChunkFacts, TailPosIsDistance DEF ListOK
<1>2. /\ k \in 0..L /\ got \in 0..Queued /\ (k = L => written = Consumed + got)
      /\ \A i \in 1..L :
           /\ Taken(n, i) \in 0..chunk_size(list[i])
           /\ i <= k => Taken(n, i) = chunk_size(list[i])
           /\ i > k + 1 => Taken(n, i) = 0
           /\ i = k + 1 => First(list[i]) + Taken(n, i) = Consumed + got
  BY <1>0, DrainedFacts
<1>k. k \in 0..L /\ L \in Nat
  BY <1>1, <1>2
<1>3. ASSUME NEW i \in 1..L PROVE list[i] \in Chunk /\ Listed(list[i]) /\ IndexOf(list[i]) = i
  <2>1. list[i] \in Chunk /\ Listed(list[i])
    BY <1>1 DEF Listed
  <2>2. \A j \in 1..L : list[j] = list[i] => j = i
    BY DEF TypeOK
  <2> QED BY <2>1, <2>2 DEF IndexOf
<1>4. list' = SubSeq(list, k + 1, L)
  BY DEF Consume
<1>5. /\ list' \in Seq(Chunk) /\ Len(list') = L - k
      /\ \A i \in 1..(L - k) : list'[i] = list[k + i] /\ k + i \in 1..L
  BY <1>1, <1>2, <1>4, SMTT(60)
<1> DEFINE read(c) == [heap[c] EXCEPT !.pos = @ + Taken(n, IndexOf(c))]
<1>6. heap' = [c \in Chunk |-> IF ~Listed(c) THEN heap[c]
                               ELSE IF IndexOf(c) <= k THEN chunk_free(read(c)) ELSE read(c)]
  BY DEF Consume
<1> HIDE DEF k, got
<1>7. ASSUME NEW i \in 1..L
      PROVE  LET c == list[i] IN
             /\ read(c) \in Mem /\ read(c).pos <= read(c).size
             /\ read(c).pos = heap[c].pos + Taken(n, i)
             /\ read(c).ref_count = heap[c].ref_count /\ heap[c].ref_count \in Nat
             /\ read(c).from = heap[c].from /\ read(c).size = heap[c].size
             /\ heap[c].ref_count >= 1
  <2> DEFINE c == list[i]
  <2>1. c \in Chunk /\ Listed(c) /\ IndexOf(c) = i
    BY <1>3
  <2>2. heap[c] \in Mem /\ heap[c].pos <= heap[c].size
    BY <2>1 DEF TypeOK
  <2>3. Taken(n, i) \in 0..(heap[c].size - heap[c].pos)
    BY <1>2 DEF chunk_size
  <2>4. heap[c].ref_count >= 1
    <3>1. heap[c].ref_count >= views[c] + 1
      BY <2>1 DEF HoldersCounted
    <3>2. views[c] \in Nat
      BY <2>1, ConstantsAssumption DEF TypeOK
    <3>3. heap[c].ref_count \in Nat
      BY <2>2 DEF Mem
    <3> QED BY <3>1, <3>2, <3>3
  <2> QED BY <2>1, <2>2, <2>3, <2>4, SMTT(60) DEF Mem
<1>8. ASSUME NEW i \in 1..L, i > k PROVE heap'[list[i]] = read(list[i])
  BY <1>8, <1>2, <1>3, <1>6
<1>9. ASSUME NEW i \in 1..L, i <= k PROVE heap'[list[i]] = chunk_free(read(list[i]))
  BY <1>9, <1>2, <1>3, <1>6
<1>10. ASSUME NEW c \in Chunk, ~Listed(c) PROVE heap'[c] = heap[c]
  BY <1>10, <1>6
<1> HIDE DEF read
<1>11. ASSUME NEW c \in Chunk, Listed(c) PROVE \E i \in 1..L : c = list[i]
  BY <1>11 DEF Listed
<1>12. ASSUME NEW c \in Chunk
       PROVE  heap'[c] \in Mem /\ heap'[c].pos <= heap'[c].size
  <2>1. CASE ~Listed(c)
    BY <2>1, <1>10 DEF TypeOK
  <2>2. CASE Listed(c)
    <3>1. PICK i \in 1..L : c = list[i]
      BY <2>2, <1>11
    <3>2. read(c) \in Mem /\ read(c).pos <= read(c).size /\ read(c).ref_count >= 1
      BY <3>1, <1>7
    <3>3. CASE i > k
      BY <3>1, <3>2, <3>3, <1>8
    <3>4. CASE i <= k
      BY <3>1, <3>2, <3>4, <1>9, TypeOf_chunk_free
    <3> QED BY <3>3, <3>4, <1>2
  <2> QED BY <2>1, <2>2
<1>13. TypeOK'
  <2>1. \A i, j \in 1..Len(list') : list'[i] = list'[j] => i = j
    <3> SUFFICES ASSUME NEW i \in 1..(L - k), NEW j \in 1..(L - k), list'[i] = list'[j]
                 PROVE  i = j
      BY <1>5
    <3>1. list[k + i] = list[k + j] /\ k + i \in 1..L /\ k + j \in 1..L
      BY <1>5
    <3>2. k + i = k + j
      BY <3>1 DEF TypeOK
    <3> QED BY <3>2, <1>2
  <2>2. heap' \in [Chunk -> Mem]
    <3>1. heap' = [c \in Chunk |-> heap'[c]]
      BY <1>6
    <3> QED BY <3>1, <1>12
  <2>3. nbytes' \in 0..(SizeMod - 1)
    <3>1. got \in 0..(SizeMod - 1)
      <4>1. written <= MaxWritten
        BY DEF TypeOK
      <4> QED BY <4>1, <1>1, <1>2, ConstantsAssumption
    <3>2. nbytes' = SizeMinus(nbytes, got)
      BY DEF Consume, got
    <3> QED BY <3>1, <3>2, SizeArithmetic DEF TypeOK
  <2>4. nchunks' \in 0..(SizeMod - 1)
    <3>1. k \in 0..(SizeMod - 1)
      <4>1. L \in 0..(SizeMod - 1)
        BY ListIsShort DEF TypeOK
      <4> QED BY <4>1, <1>k, ConstantsAssumption
    <3>2. nchunks' = SizeMinus(nchunks, k)
      BY DEF Consume, k
    <3> QED BY <3>1, <3>2, SizeArithmetic DEF TypeOK
  <2> QED BY <2>1, <2>2, <2>3, <2>4, <1>5, <1>12 DEF TypeOK
<1>14. Contiguous'
  <2>1. ASSUME NEW i \in 1..Len(list')
        PROVE  heap'[list'[i]].from + heap'[list'[i]].size
                 = IF i = Len(list') THEN written' ELSE First(list[i + 1])'
    <3> DEFINE m == k + i
    <3>1. m \in 1..L /\ m > k /\ list'[i] = list[m] /\ i \in 1..(L - k)
      BY <1>2, <1>5
    <3>2. heap'[list'[i]].from + heap'[list'[i]].size = heap[list[m]].from + heap[list[m]].size
      BY <3>1, <1>7, <1>8
    <3>3. CASE i = L - k
      <4>1. m = L
        BY <3>3, <1>1, <1>2
      <4>2. heap[list[m]].from + heap[list[m]].size = written
        BY <4>1, <3>1 DEF Contiguous
      <4> QED BY <4>2, <3>2, <3>3, <1>5
    <3>4. CASE i # L - k
      <4>1. m + 1 \in 1..L /\ m # L /\ m + 1 > k + 1 /\ i + 1 \in 1..(L - k) /\ k + (i + 1) = m + 1
        BY <3>1, <3>4, <1>k
      <4>2. heap[list[m]].from + heap[list[m]].size = First(list[m + 1])
        BY <4>1, <3>1 DEF Contiguous
      <4>3. list'[i + 1] = list[m + 1]
        BY <4>1, <1>5
      <4>4. Taken(n, m + 1) = 0
        BY <4>1, <1>2
      <4>5. heap'[list[m + 1]] = read(list[m + 1])
        <5>1. m + 1 \in 1..L /\ m + 1 > k
          BY <4>1, <1>k
        <5> HIDE DEF m
        <5> QED BY <5>1, <1>8
      <4>6. heap[list[m + 1]].pos \in Nat
        BY <4>1, <1>0, ChunkFacts
      <4>7. First(list[i + 1])' = First(list[m + 1])
        BY <4>1, <4>3, <4>4, <4>5, <4>6, <1>7 DEF First
      <4> QED BY <4>2, <4>7, <3>2, <3>4, <1>5
    <3> QED BY <3>3, <3>4
  <2>2. ASSUME NEW i \in 2..Len(list') PROVE heap'[list'[i]].pos = 0
    <3>1. k + i \in 1..L /\ k + i \in 2..L /\ k + i > k + 1 /\ k + i > k /\ list'[i] = list[k + i]
      BY <1>1, <1>2, <1>5
    <3>2. Taken(n, k + i) = 0 /\ heap[list[k + i]].pos = 0
      BY <3>1, <1>2 DEF Contiguous
    <3>3. heap'[list'[i]] = read(list[k + i])
      BY <3>1, <1>8
    <3> QED BY <3>1, <3>2, <3>3, <1>7
  <2> QED BY <2>1, <2>2 DEF Contiguous
<1>15. HoldersCounted'
  <2> SUFFICES ASSUME NEW c \in Chunk
               PROVE  heap'[c].ref_count >= views[c] + (IF Listed(c)' THEN 1 ELSE 0)
    BY DEF HoldersCounted
  <2>0. heap[c].ref_count \in Nat /\ views[c] \in Nat
        /\ heap[c].ref_count >= views[c] + (IF Listed(c) THEN 1 ELSE 0)
    BY DEF TypeOK, Mem, HoldersCounted
  <2>1. CASE ~Listed(c)
    <3>1. ~Listed(c)'
      BY <2>1, <1>5 DEF Listed
    <3> QED BY <3>1, <2>0, <2>1, <1>10
  <2>2. CASE Listed(c)
    <3>1. PICK i \in 1..L : c = list[i]
      BY <2>2, <1>11
    <3>2. CASE i > k
      <4>1. heap'[c].ref_count = heap[c].ref_count
        BY <3>1, <3>2, <1>7, <1>8
      <4> QED BY <4>1, <2>0, <2>2
    <3>3. CASE i <= k
      <4>1. heap'[c].ref_count = heap[c].ref_count - 1
        <5>1. /\ read(c) \in Mem /\ read(c).pos <= read(c).size
              /\ read(c).ref_count >= 1 /\ read(c).ref_count = heap[c].ref_count
          BY <3>1, <1>7
        <5>2. heap'[c] = chunk_free(read(c))
          BY <3>1, <3>3, <1>9
        <5> QED BY <5>1, <5>2, TypeOf_chunk_free
      <4>2. ~Listed(c)'
        <5> SUFFICES ASSUME NEW j \in 1..(L - k), list'[j] = c PROVE FALSE
          BY <1>5 DEF Listed
        <5>1. list[k + j] = list[i] /\ k + j \in 1..L
          BY <3>1, <1>5
        <5>2. k + j = i
          BY <5>1, <3>1 DEF TypeOK
        <5> QED BY <5>2, <3>3, <1>2
      <4> QED BY <4>1, <4>2, <2>0, <2>2
    <3> QED BY <3>2, <3>3, <1>2
  <2> QED BY <2>1, <2>2
<1>16. Consumed' = Consumed + got
  <2>1. CASE k = L
    <3>1. list' = <<>>
      BY <2>1, <1>5, <1>1
    <3> QED BY <3>1, <2>1, <1>2 DEF Consumed
  <2>2. CASE k # L
    <3>1. k + 1 \in 1..L /\ k + 1 > k /\ 1 \in 1..(L - k)
      BY <2>2, <1>1, <1>2
    <3>2. list'[1] = list[k + 1] /\ list' # <<>>
      BY <3>1, <1>5
    <3>3. Consumed' = heap'[list[k + 1]].from + heap'[list[k + 1]].pos
      BY <3>2 DEF Consumed, First
    <3>4. heap'[list[k + 1]].from = heap[list[k + 1]].from
          /\ heap'[list[k + 1]].pos = heap[list[k + 1]].pos + Taken(n, k + 1)
      BY <3>1, <1>7, <1>8
    <3>5. First(list[k + 1]) + Taken(n, k + 1) = Consumed + got
      BY <3>1, <1>2
    <3>6. heap[list[k + 1]].from \in Nat /\ heap[list[k + 1]].pos \in Nat
          /\ Taken(n, k + 1) \in Int
      BY <3>1, <1>0, <1>2, ChunkFacts, SMTT(60)
    <3> QED BY <3>3, <3>4, <3>5, <3>6 DEF First
  <2> QED BY <2>1, <2>2
<1> QED BY <1>13, <1>14, <1>15, <1>16 DEF got

\* One more ArrayBuffer on a chunk that is, or just was, listed.
LEMMA ViewedHeap ==
  ASSUME IInv, mode # "aborted", NEW c \in Chunk, chunk_arraybuffer(c)
  PROVE  /\ views' \in [Chunk -> 0..MaxViews]
         /\ heap' \in [Chunk -> Mem]
         /\ \A d \in Chunk :
              /\ heap'[d].from = heap[d].from /\ heap'[d].pos = heap[d].pos
              /\ heap'[d].size = heap[d].size
              /\ heap'[d].pos <= heap'[d].size
              /\ heap'[d].ref_count >= views'[d] + (IF Listed(d) THEN 1 ELSE 0)
<1>1. heap' = [heap EXCEPT ![c].ref_count = @ + 1] /\ views' = [views EXCEPT ![c] = @ + 1]
      /\ views[c] < MaxViews
  BY DEF chunk_arraybuffer
<1>2. ASSUME NEW d \in Chunk
      PROVE  heap[d] \in Mem /\ heap[d].pos <= heap[d].size /\ views[d] \in 0..MaxViews
             /\ heap[d].ref_count >= views[d] + (IF Listed(d) THEN 1 ELSE 0)
  BY DEF IInv, TypeOK, HoldersCounted
<1>3. heap \in [Chunk -> Mem] /\ views \in [Chunk -> 0..MaxViews]
  BY DEF IInv, TypeOK
<1>4. heap[c].ref_count + 1 \in Nat /\ heap[c].ref_count \in Nat /\ views[c] + 1 \in 0..MaxViews
  BY <1>1, <1>2, ConstantsAssumption DEF Mem
<1>5. views' \in [Chunk -> 0..MaxViews]
  BY <1>1, <1>3, <1>4
<1>6. heap'[c] = [heap[c] EXCEPT !.ref_count = @ + 1]
      /\ \A d \in Chunk : d # c => heap'[d] = heap[d]
  BY <1>1, <1>3
<1>7. heap'[c] \in Mem
  BY <1>2, <1>4, <1>6 DEF Mem
<1>8. heap' \in [Chunk -> Mem]
  <2>1. heap' = [d \in Chunk |-> heap'[d]]
    BY <1>1, <1>3
  <2>2. \A d \in Chunk : heap'[d] \in Mem
    BY <1>2, <1>6, <1>7
  <2> QED BY <2>1, <2>2
<1>9. ASSUME NEW d \in Chunk
      PROVE  /\ heap'[d].from = heap[d].from /\ heap'[d].pos = heap[d].pos
             /\ heap'[d].size = heap[d].size
             /\ heap'[d].pos <= heap'[d].size
             /\ heap'[d].ref_count >= views'[d] + (IF Listed(d) THEN 1 ELSE 0)
  <2>1. CASE d = c
    <3>1. heap'[c].ref_count = heap[c].ref_count + 1 /\ views'[c] = views[c] + 1
          /\ heap'[c].from = heap[c].from /\ heap'[c].pos = heap[c].pos
          /\ heap'[c].size = heap[c].size
      BY <1>1, <1>2, <1>3, <1>6 DEF Mem
    <3>2. views[c] \in Nat /\ heap[c].ref_count \in Nat
      BY <1>2, <1>4, ConstantsAssumption
    <3> QED BY <2>1, <3>1, <3>2, <1>2
  <2>2. CASE d # c
    BY <2>2, <1>1, <1>2, <1>3, <1>6
  <2> QED BY <2>1, <2>2
<1> QED BY <1>5, <1>8, <1>9

\* chunk(pos) and at(offset) leave the list and the counters alone.
LEMMA ViewStep ==
  ASSUME IInv, mode = "open", NEW c \in Chunk, chunk_arraybuffer(c),
         UNCHANGED <<list, nbytes, nchunks, mode, written>>
  PROVE  IInv' /\ Consumed' = Consumed
<1> USE DEF IInv
<1>1. mode # "aborted"
  OBVIOUS
<1>2. /\ views' \in [Chunk -> 0..MaxViews] /\ heap' \in [Chunk -> Mem]
      /\ \A d \in Chunk :
           /\ heap'[d].from = heap[d].from /\ heap'[d].pos = heap[d].pos
           /\ heap'[d].size = heap[d].size /\ heap'[d].pos <= heap'[d].size
           /\ heap'[d].ref_count >= views'[d] + (IF Listed(d) THEN 1 ELSE 0)
  BY <1>1, ViewedHeap
<1>3. list \in Seq(Chunk) /\ \A i \in 1..Len(list) : list[i] \in Chunk
  BY DEF TypeOK
<1>4. TypeOK'
  BY <1>2 DEF TypeOK
<1>5. \A d \in Chunk : First(d)' = First(d)
  BY <1>2 DEF First
<1>6. Contiguous'
  <2>1. ASSUME NEW i \in 1..Len(list)
        PROVE  heap'[list[i]].from + heap'[list[i]].size
                 = IF i = Len(list) THEN written ELSE First(list[i + 1])'
    <3>1. heap[list[i]].from + heap[list[i]].size
            = IF i = Len(list) THEN written ELSE First(list[i + 1])
      BY DEF Contiguous
    <3>2. heap'[list[i]].from + heap'[list[i]].size = heap[list[i]].from + heap[list[i]].size
      BY <1>2, <1>3
    <3>3. i # Len(list) => First(list[i + 1])' = First(list[i + 1])
      <4> SUFFICES ASSUME i # Len(list) PROVE i + 1 \in 1..Len(list)
        BY <1>3, <1>5
      <4> QED BY <1>3
    <3> QED BY <3>1, <3>2, <3>3
  <2>2. \A i \in 2..Len(list) : heap'[list[i]].pos = 0
    <3> TAKE i \in 2..Len(list)
    <3>1. i \in 1..Len(list)
      BY <1>3
    <3> QED BY <3>1, <1>2, <1>3 DEF Contiguous
  <2> QED BY <2>1, <2>2 DEF Contiguous
<1>7. HoldersCounted'
  BY <1>2 DEF HoldersCounted, Listed
<1>8. Consumed' = Consumed
  <2>1. CASE list = <<>>
    BY <2>1 DEF Consumed
  <2>2. CASE list # <<>>
    <3>1. list[1] \in Chunk
      BY <2>2, <1>3
    <3> QED BY <3>1, <1>5 DEF Consumed
  <2> QED BY <2>1, <2>2
<1> QED BY <1>4, <1>6, <1>7, <1>8

LEMMA TakeChunkStep ==
  ASSUME IInv, TakeChunk
  PROVE  IInv' /\ Consumed' = IF list = <<>> THEN Consumed
                              ELSE Consumed + chunk_size(Head(list))
<1> USE DEF IInv
<1> DEFINE L == Len(list)
<1>0. mode = "open" /\ UNCHANGED <<mode, written>>
  BY DEF TakeChunk
<1>1. CASE list = <<>>
  <2>1. UNCHANGED <<list, heap, nbytes, nchunks, views, mode, written>>
    BY <1>1 DEF TakeChunk, Unchanged
  <2>2. TypeOK'
    BY <2>1 DEF TypeOK
  <2>3. Contiguous'
    BY <2>1 DEF Contiguous, First
  <2>4. HoldersCounted'
    BY <2>1 DEF HoldersCounted, Listed
  <2> QED BY <2>1, <2>2, <2>3, <2>4, <1>1 DEF Consumed
<1>2. CASE list # <<>>
  <2> DEFINE c == Head(list)
  <2>1. /\ list' = Tail(list) /\ chunk_arraybuffer(c)
        /\ nchunks' = SizeMinus(nchunks, 1) /\ nbytes' = SizeMinus(nbytes, chunk_size(c))
    BY <1>2 DEF TakeChunk
  <2>2. /\ list \in Seq(Chunk) /\ L \in Nat \ {0} /\ c = list[1] /\ c \in Chunk
        /\ list' \in Seq(Chunk) /\ Len(list') = L - 1
        /\ \A i \in 1..(L - 1) : list'[i] = list[i + 1] /\ i + 1 \in 1..L /\ list[i + 1] \in Chunk
    BY <1>2, <2>1 DEF TypeOK
  <2> HIDE DEF c
  <2>3. /\ views' \in [Chunk -> 0..MaxViews] /\ heap' \in [Chunk -> Mem]
        /\ \A d \in Chunk :
             /\ heap'[d].from = heap[d].from /\ heap'[d].pos = heap[d].pos
             /\ heap'[d].size = heap[d].size /\ heap'[d].pos <= heap'[d].size
             /\ heap'[d].ref_count >= views'[d] + (IF Listed(d) THEN 1 ELSE 0)
    BY <2>1, <2>2, <1>0, ViewedHeap
  <2>4. /\ chunk_size(c) \in Nat /\ Edge(2) = Consumed + chunk_size(c)
        /\ chunk_size(c) <= written
    <3>1. 1 \in 1..L /\ 1 + 1 = 2 /\ 2 \in 1..(L + 1) /\ 1 \in 1..(L + 1) /\ L + 1 \in 1..(L + 1)
          /\ 2 <= L + 1
      BY <2>2
    <3>2. Edge(2) = Edge(1) + chunk_size(list[1]) /\ chunk_size(list[1]) \in Nat
          /\ Edge(1) = Consumed /\ Edge(L + 1) = written /\ Edge(1) \in Nat /\ Edge(2) \in Nat
          /\ written \in Nat
      BY <3>1, ChunkFacts, IInvListOK DEF ListOK
    <3>3. Edge(2) <= Edge(L + 1)
      BY <3>1, TailPosIsDistance, IInvListOK
    <3>4. Consumed \in Nat /\ chunk_size(list[1]) <= written
      <4>1. Edge(1) + chunk_size(list[1]) <= written
        BY <3>2, <3>3
      <4>2. Edge(1) \in Nat /\ chunk_size(list[1]) \in Nat /\ written \in Nat /\ Edge(1) = Consumed
        BY <3>2
      <4> HIDE DEF L
      <4> QED BY <4>1, <4>2
    <3> QED BY <3>2, <3>4, <2>2
  <2>5. TypeOK'
    <3>1. \A i, j \in 1..Len(list') : list'[i] = list'[j] => i = j
      <4> SUFFICES ASSUME NEW i \in 1..(L - 1), NEW j \in 1..(L - 1), list'[i] = list'[j]
                   PROVE  i = j
        BY <2>2
      <4>1. list[i + 1] = list[j + 1] /\ i + 1 \in 1..L /\ j + 1 \in 1..L
        BY <2>2
      <4>2. i + 1 = j + 1
        BY <4>1 DEF TypeOK
      <4> QED BY <4>2, <2>2
    <3>2. nbytes' \in 0..(SizeMod - 1)
      <4>1. chunk_size(c) \in 0..(SizeMod - 1)
        BY <2>4, ConstantsAssumption DEF TypeOK
      <4> QED BY <4>1, <2>1, SizeArithmetic DEF TypeOK
    <3>3. nchunks' \in 0..(SizeMod - 1)
      <4>1. 1 \in 0..(SizeMod - 1)
        BY ListIsShort, <2>2, ConstantsAssumption DEF TypeOK
      <4> QED BY <4>1, <2>1, SizeArithmetic DEF TypeOK
    <3> QED BY <3>1, <3>2, <3>3, <2>2, <2>3, <1>0 DEF TypeOK
  <2>6. ASSUME NEW i \in 1..(L - 1) PROVE First(list[i])' = First(list[i + 1])
    <3>1. list'[i] = list[i + 1] /\ list[i + 1] \in Chunk
      BY <2>2
    <3>2. First(list[i])' = heap'[list[i + 1]].from + heap'[list[i + 1]].pos
      BY <3>1 DEF First
    <3> QED BY <3>1, <3>2, <2>3 DEF First
  <2>7. Contiguous'
    <3>1. ASSUME NEW i \in 1..(L - 1)
          PROVE  heap'[list'[i]].from + heap'[list'[i]].size
                   = IF i = L - 1 THEN written' ELSE First(list[i + 1])'
      <4>1. heap'[list'[i]].from + heap'[list'[i]].size
              = heap[list[i + 1]].from + heap[list[i + 1]].size
        BY <2>2, <2>3
      <4>2. heap[list[i + 1]].from + heap[list[i + 1]].size
              = IF i + 1 = L THEN written ELSE First(list[(i + 1) + 1])
        BY <2>2 DEF Contiguous
      <4>3. i # L - 1 => First(list[i + 1])' = First(list[(i + 1) + 1])
        <5> SUFFICES ASSUME i # L - 1 PROVE i + 1 \in 1..(L - 1)
          BY <2>6
        <5> QED BY <2>2
      <4> QED BY <4>1, <4>2, <4>3, <1>0, <2>2
    <3>2. ASSUME NEW i \in 2..(L - 1) PROVE heap'[list'[i]].pos = 0
      <4>1. i \in 1..(L - 1) /\ i + 1 \in 2..L
        BY <2>2
      <4>2. heap[list[i + 1]].pos = 0
        BY <4>1 DEF Contiguous
      <4>3. list'[i] = list[i + 1] /\ list[i + 1] \in Chunk
        BY <4>1, <2>2
      <4> QED BY <4>2, <4>3, <2>3
    <3> QED BY <3>1, <3>2, <2>2, <1>0 DEF Contiguous
  <2>8. HoldersCounted'
    <3> SUFFICES ASSUME NEW d \in Chunk
                 PROVE  heap'[d].ref_count >= views'[d] + (IF Listed(d)' THEN 1 ELSE 0)
      BY DEF HoldersCounted
    <3>1. Listed(d)' => Listed(d)
      BY <2>2 DEF Listed
    <3>2. heap'[d].ref_count \in Nat /\ views'[d] \in Nat
      BY <2>3, ConstantsAssumption DEF Mem
    <3> QED BY <3>1, <3>2, <2>3
  <2>9. Consumed' = Consumed + chunk_size(c)
    <3>1. CASE L = 1
      <4>1. list' = <<>>
        BY <3>1, <2>2
      <4>2. Edge(2) = written
        BY <3>1 DEF Edge
      <4> QED BY <4>1, <4>2, <2>4, <1>0 DEF Consumed
    <3>2. CASE L # 1
      <4>1. 1 \in 1..(L - 1) /\ 1 + 1 = 2 /\ 2 \in 1..L /\ list' # <<>>
        BY <3>2, <2>2
      <4>2. First(list[1])' = First(list[2])
        BY <4>1, <2>6
      <4>3. Edge(2) = First(list[2])
        BY <4>1 DEF Edge
      <4>4. Consumed' = First(list[1])'
        BY <4>1 DEF Consumed
      <4> QED BY <4>2, <4>3, <4>4, <2>4
    <3> QED BY <3>1, <3>2
  <2> QED BY <2>5, <2>7, <2>8, <2>9, <1>2 DEF c
<1> QED BY <1>1, <1>2

LEMMA ClearStep ==
  ASSUME IInv, mode = "open", NEW after \in {"open", "gone"}, queue_clear(after)
  PROVE  IInv' /\ Consumed' = written
<1> USE DEF IInv
<1>1. list' = <<>> /\ views' = views /\ written' = written
      /\ mode' \in {"open", "gone", "aborted"}
  BY DEF queue_clear
<1>2. heap' = [c \in Chunk |-> IF Listed(c) THEN chunk_free(heap[c]) ELSE heap[c]]
  BY DEF queue_clear
<1>3. ASSUME NEW c \in Chunk
      PROVE  heap'[c] \in Mem /\ heap'[c].pos <= heap'[c].size
             /\ heap'[c].ref_count >= views[c]
  <2>1. heap[c] \in Mem /\ heap[c].pos <= heap[c].size /\ views[c] \in Nat
        /\ heap[c].ref_count \in Nat
        /\ heap[c].ref_count >= views[c] + (IF Listed(c) THEN 1 ELSE 0)
    BY ConstantsAssumption DEF TypeOK, Mem, HoldersCounted
  <2>2. CASE Listed(c)
    <3>1. heap[c].ref_count >= 1
      BY <2>1, <2>2
    <3>2. chunk_free(heap[c]) \in Mem /\ chunk_free(heap[c]).pos <= chunk_free(heap[c]).size
          /\ chunk_free(heap[c]).ref_count = heap[c].ref_count - 1
      BY <2>1, <3>1, TypeOf_chunk_free
    <3> QED BY <1>2, <2>1, <2>2, <3>2
  <2>3. CASE ~Listed(c)
    BY <1>2, <2>1, <2>3
  <2> QED BY <2>2, <2>3
<1>4. TypeOK'
  <2>1. heap' \in [Chunk -> Mem]
    BY <1>2, <1>3
  <2>2. Len(list) \in 0..(SizeMod - 1)
    BY ListIsShort DEF TypeOK
  <2>3. AllocatedBytes \in 0..(SizeMod - 1)
    <3>1. AllocatedBytes \in 0..written /\ written \in 0..MaxWritten
      BY AllocatedIsNat, IInvListOK DEF TypeOK
    <3> QED BY <3>1, ConstantsAssumption
  <2>4. nbytes' = SizeMinus(nbytes, AllocatedBytes) /\ nchunks' = SizeMinus(nchunks, Len(list))
    BY DEF queue_clear
  <2>5. nbytes' \in 0..(SizeMod - 1) /\ nchunks' \in 0..(SizeMod - 1)
    BY <2>2, <2>3, <2>4, SizeArithmetic DEF TypeOK
  <2> QED BY <1>1, <1>3, <2>1, <2>5 DEF TypeOK
<1>5. Contiguous'
  BY <1>1 DEF Contiguous
<1>6. HoldersCounted'
  <2> SUFFICES ASSUME NEW c \in Chunk
               PROVE  heap'[c].ref_count >= views'[c] + (IF Listed(c)' THEN 1 ELSE 0)
    BY DEF HoldersCounted
  <2>1. ~Listed(c)'
    BY <1>1 DEF Listed
  <2>2. views[c] \in Nat
    BY ConstantsAssumption DEF TypeOK
  <2> QED BY <2>1, <2>2, <1>1, <1>3
<1>7. Consumed' = written
  BY <1>1 DEF Consumed
<1> QED BY <1>4, <1>5, <1>6, <1>7

LEMMA DropViewStep ==
  ASSUME IInv, NEW c \in Chunk, DropView(c)
  PROVE  IInv' /\ Consumed' = Consumed
<1> USE DEF IInv
<1>1. /\ heap' = [heap EXCEPT ![c] = chunk_free(heap[c])]
      /\ views' = [views EXCEPT ![c] = @ - 1] /\ views[c] > 0 /\ mode # "aborted"
      /\ UNCHANGED <<list, nbytes, nchunks, mode, written>>
  BY DEF DropView
<1>2. heap \in [Chunk -> Mem] /\ views \in [Chunk -> 0..MaxViews]
  BY DEF TypeOK
<1>3. heap[c] \in Mem /\ heap[c].pos <= heap[c].size /\ heap[c].ref_count \in Nat
      /\ views[c] \in 0..MaxViews
      /\ heap[c].ref_count >= views[c] + (IF Listed(c) THEN 1 ELSE 0)
  BY <1>1, <1>2 DEF TypeOK, Mem, HoldersCounted
<1>4. heap[c].ref_count >= 1 /\ (Listed(c) => heap[c].ref_count > 1)
      /\ views[c] - 1 \in 0..MaxViews
  BY <1>1, <1>3, ConstantsAssumption
<1>5. /\ chunk_free(heap[c]) \in Mem
      /\ chunk_free(heap[c]).pos <= chunk_free(heap[c]).size
      /\ chunk_free(heap[c]).ref_count = heap[c].ref_count - 1
      /\ heap[c].ref_count > 1 => /\ chunk_free(heap[c]).from = heap[c].from
                                  /\ chunk_free(heap[c]).pos = heap[c].pos
                                  /\ chunk_free(heap[c]).size = heap[c].size
  BY <1>3, <1>4, TypeOf_chunk_free
<1>6. heap'[c] = chunk_free(heap[c]) /\ views'[c] = views[c] - 1
      /\ \A d \in Chunk : d # c => heap'[d] = heap[d] /\ views'[d] = views[d]
  BY <1>1, <1>2
<1>7. ASSUME NEW d \in Chunk, Listed(d)
      PROVE  heap'[d].from = heap[d].from /\ heap'[d].pos = heap[d].pos
             /\ heap'[d].size = heap[d].size
  <2>1. CASE d = c
    BY <2>1, <1>4, <1>5, <1>6, <1>7
  <2>2. CASE d # c
    BY <2>2, <1>6
  <2> QED BY <2>1, <2>2
<1>8. ASSUME NEW i \in 1..Len(list)
      PROVE  /\ heap'[list[i]].from = heap[list[i]].from /\ heap'[list[i]].pos = heap[list[i]].pos
             /\ heap'[list[i]].size = heap[list[i]].size
             /\ First(list[i])' = First(list[i])
  <2>1. list[i] \in Chunk /\ Listed(list[i])
    BY DEF TypeOK, Listed
  <2>2. heap'[list[i]].from = heap[list[i]].from /\ heap'[list[i]].pos = heap[list[i]].pos
        /\ heap'[list[i]].size = heap[list[i]].size
    BY <2>1, <1>7
  <2>3. list' = list
    BY <1>1
  <2> QED BY <2>2, <2>3 DEF First
<1>9. TypeOK'
  <2>1. heap' \in [Chunk -> Mem] /\ \A d \in Chunk : heap'[d].pos <= heap'[d].size
    <3>1. heap' \in [Chunk -> Mem]
      BY <1>1, <1>2, <1>5
    <3>2. \A d \in Chunk : heap[d].pos <= heap[d].size
      BY DEF TypeOK
    <3> QED BY <3>1, <3>2, <1>5, <1>6
  <2>2. views' \in [Chunk -> 0..MaxViews]
    BY <1>1, <1>2, <1>4
  <2> QED BY <2>1, <2>2, <1>1 DEF TypeOK
<1>10. Contiguous'
  <2>1. Len(list) \in Nat
    BY DEF TypeOK
  <2>2. ASSUME NEW i \in 1..Len(list)
        PROVE  heap'[list[i]].from + heap'[list[i]].size
                 = IF i = Len(list) THEN written ELSE First(list[i + 1])'
    <3>1. heap[list[i]].from + heap[list[i]].size
            = IF i = Len(list) THEN written ELSE First(list[i + 1])
      BY DEF Contiguous
    <3>2. i # Len(list) => First(list[i + 1])' = First(list[i + 1])
      <4> SUFFICES ASSUME i # Len(list) PROVE i + 1 \in 1..Len(list)
        BY <1>8
      <4> QED BY <2>1
    <3> QED BY <3>1, <3>2, <1>8
  <2>3. ASSUME NEW i \in 2..Len(list) PROVE heap'[list[i]].pos = 0
    <3>1. i \in 1..Len(list)
      BY <2>1
    <3> QED BY <3>1, <1>8 DEF Contiguous
  <2> QED BY <2>2, <2>3, <1>1 DEF Contiguous
<1>11. HoldersCounted'
  <2> SUFFICES ASSUME NEW d \in Chunk
               PROVE  heap'[d].ref_count >= views'[d] + (IF Listed(d) THEN 1 ELSE 0)
    BY <1>1 DEF HoldersCounted, Listed
  <2>1. CASE d = c
    <3>1. views[c] \in Nat
      BY <1>3, ConstantsAssumption
    <3> QED BY <2>1, <3>1, <1>3, <1>5, <1>6
  <2>2. CASE d # c
    BY <2>2, <1>1, <1>6 DEF HoldersCounted
  <2> QED BY <2>1, <2>2
<1>12. Consumed' = Consumed
  <2>1. CASE list = <<>>
    BY <2>1, <1>1 DEF Consumed
  <2>2. CASE list # <<>>
    <3>1. 1 \in 1..Len(list)
      BY <2>2 DEF TypeOK
    <3> QED BY <3>1, <1>1, <1>8 DEF Consumed
  <2> QED BY <2>1, <2>2
<1> QED BY <1>9, <1>10, <1>11, <1>12

LEMMA IdleStep ==
  ASSUME IInv, UNCHANGED <<list, heap, nbytes, nchunks, views, mode, written>>
  PROVE  IInv' /\ Consumed' = Consumed
<1>1. TypeOK'
  BY DEF IInv, TypeOK
<1>2. Contiguous'
  BY DEF IInv, Contiguous, First
<1>3. HoldersCounted'
  BY DEF IInv, HoldersCounted, Listed
<1>4. Consumed' = Consumed
  BY DEF Consumed, First
<1> QED BY <1>1, <1>2, <1>3, <1>4 DEF IInv

LEMMA InRange ==
  ASSUME NEW n \in 0..MaxWritten PROVE n \in Nat
  BY ConstantsAssumption

LEMMA StepIInv == IInv /\ [Next]_vars => IInv'
<1> SUFFICES ASSUME IInv, [Next]_vars PROVE IInv'
  OBVIOUS
<1>1. ASSUME NEW n \in 0..MaxWritten, Write(n) PROVE IInv'
  BY <1>1, WriteStep, InRange
<1>2. ASSUME NEW n \in 0..MaxWritten, WriteFails(n) \/ Peek(n) PROVE IInv'
  BY <1>2, IdleStep DEF WriteFails, Peek, Unchanged
<1>3. ASSUME NEW n \in 0..MaxWritten, Read(n) \/ Skip(n) PROVE IInv'
  <2>1. mode = "open" /\ Consume(n) /\ UNCHANGED <<views, mode, written>>
    BY <1>3 DEF Read, Skip
  <2> QED BY <2>1, ConsumeStep, InRange
<1>4. ASSUME NEW i \in -MaxWritten..MaxWritten, ChunkAt(i) PROVE IInv'
  <2> DEFINE at == IF i >= 0 THEN i + 1 ELSE Len(list) + 1 + i
  <2>1. CASE UNCHANGED <<list, heap, nbytes, nchunks, views, mode, written>>
    BY <2>1, IdleStep
  <2>2. CASE /\ at \in 1..Len(list) /\ mode = "open" /\ chunk_arraybuffer(list[at])
             /\ UNCHANGED <<list, nbytes, nchunks, mode, written>>
    <3>1. list[at] \in Chunk
      BY <2>2 DEF IInv, TypeOK
    <3> QED BY <3>1, <2>2, ViewStep
  <2> QED BY <1>4, <2>1, <2>2 DEF ChunkAt, Unchanged
<1>5. ASSUME NEW i \in -MaxWritten..MaxWritten, At(i) PROVE IInv'
  <2>1. CASE UNCHANGED <<list, heap, nbytes, nchunks, views, mode, written>>
    BY <2>1, IdleStep
  <2>2. CASE \E j \in 1..Len(list) :
               /\ mode = "open" /\ chunk_arraybuffer(list[j])
               /\ UNCHANGED <<list, nbytes, nchunks, mode, written>>
    <3>1. PICK j \in 1..Len(list) :
               /\ mode = "open" /\ chunk_arraybuffer(list[j])
               /\ UNCHANGED <<list, nbytes, nchunks, mode, written>>
      BY <2>2
    <3>2. list[j] \in Chunk
      BY DEF IInv, TypeOK
    <3> QED BY <3>1, <3>2, ViewStep
  <2> QED BY <1>5, <2>1, <2>2 DEF At, Unchanged
<1>6. ASSUME NEW c \in Chunk, DropView(c) PROVE IInv'
  BY <1>6, DropViewStep
<1>7. ASSUME TakeChunk PROVE IInv'
  BY <1>7, TakeChunkStep
<1>8. ASSUME Clear \/ Finalize PROVE IInv'
  BY <1>8, ClearStep DEF Clear, Finalize
<1>9. ASSUME UNCHANGED vars PROVE IInv'
  BY <1>9, IdleStep DEF vars
<1> QED BY <1>1, <1>2, <1>3, <1>4, <1>5, <1>6, <1>7, <1>8, <1>9 DEF Next

THEOREM InvariantHolds == Spec => []IInv
  BY InitIInv, StepIInv, PTL DEF Spec

\* Types, and a chunk is never listed twice or read past its end.
THEOREM TypeCorrect == Spec => []TypeOK
  BY InvariantHolds, PTL DEF IInv

\* Whatever the garbage collector drops and whenever, memory that the list or
\* an ArrayBuffer uses is never free.
THEOREM HoldersAreCounted == Spec => []HoldersCounted
  BY InvariantHolds, PTL DEF IInv

-----------------------------------------------------------------------------
(***************************************************************************)
(* The counters.  Only a build whose asserts abort keeps them right: in a  *)
(* release build queue_clear() can leave nbytes wrapped around.            *)
(***************************************************************************)
LEMMA QueuedIsHeld ==
  IInv => /\ Queued = written - Consumed
          /\ Consumed \in Nat /\ Queued \in Nat /\ written \in Nat
          /\ 2 * Queued < SizeMod
          /\ Len(list) \in Nat /\ 2 * Len(list) < SizeMod
<1> SUFFICES ASSUME IInv
             PROVE  /\ Queued = written - Consumed
                    /\ Consumed \in Nat /\ Queued \in Nat /\ written \in Nat
                    /\ 2 * Queued < SizeMod
                    /\ Len(list) \in Nat /\ 2 * Len(list) < SizeMod
  OBVIOUS
<1>1. Queued = written - Consumed /\ Queued \in Nat /\ Consumed \in Nat
  BY IInvListOK, TailPosIsDistance
<1>2. written \in Nat /\ written <= MaxWritten
  BY ConstantsAssumption DEF IInv, TypeOK
<1>3. Len(list) \in Nat /\ 2 * Len(list) < SizeMod
  BY ListIsShort DEF IInv, TypeOK
<1> QED BY <1>1, <1>2, <1>3, ConstantsAssumption

LEMMA InitCounters == Init => CountersMatch
<1> SUFFICES ASSUME Init PROVE CountersMatch
  OBVIOUS
<1>1. Queued = written - Consumed
  BY InitIInv, QueuedIsHeld
<1> QED BY <1>1 DEF Init, CountersMatch, Consumed

LEMMA StepCounters ==
  Asserts /\ IInv /\ IInv' /\ CountersMatch /\ [Next]_vars => CountersMatch'
<1> SUFFICES ASSUME Asserts, IInv, IInv', CountersMatch, [Next]_vars, mode' = "open"
             PROVE  nbytes' = Queued' /\ nchunks' = Len(list')
  BY DEF CountersMatch
<1>1. /\ Queued = written - Consumed /\ Consumed \in Nat /\ Queued \in Nat /\ written \in Nat
      /\ 2 * Queued < SizeMod /\ Len(list) \in Nat /\ 2 * Len(list) < SizeMod
  BY QueuedIsHeld
<1>2. /\ Queued' = written' - Consumed' /\ Consumed' \in Nat /\ Queued' \in Nat /\ written' \in Nat
      /\ 2 * Queued' < SizeMod /\ Len(list') \in Nat /\ 2 * Len(list') < SizeMod
  <2>1. (IInv => /\ Queued = written - Consumed
                 /\ Consumed \in Nat /\ Queued \in Nat /\ written \in Nat
                 /\ 2 * Queued < SizeMod
                 /\ Len(list) \in Nat /\ 2 * Len(list) < SizeMod)'
    BY QueuedIsHeld, PTL
  <2> QED BY <2>1
<1>3. mode = "open" => nbytes = Queued /\ nchunks = Len(list)
  BY DEF CountersMatch
<1>4. SizeMod \in Nat
  BY ConstantsAssumption
<1>5. ASSUME UNCHANGED <<list, heap, nbytes, nchunks, views, mode, written>>
      PROVE  nbytes' = Queued' /\ nchunks' = Len(list')
  <2>1. Consumed' = Consumed /\ mode = "open"
    BY <1>5, IdleStep
  <2>2. Queued' = Queued
    BY <2>1, <1>1, <1>2, <1>5
  <2> QED BY <2>1, <2>2, <1>3, <1>5
<1>6. ASSUME NEW c \in Chunk, chunk_arraybuffer(c), mode = "open",
             UNCHANGED <<list, nbytes, nchunks, mode, written>>
      PROVE  nbytes' = Queued' /\ nchunks' = Len(list')
  <2>1. Consumed' = Consumed
    BY <1>6, ViewStep
  <2>2. Queued' = Queued
    BY <2>1, <1>1, <1>2, <1>6
  <2> QED BY <2>2, <1>3, <1>6
<1>7. ASSUME NEW n \in 0..MaxWritten, Write(n)
      PROVE  nbytes' = Queued' /\ nchunks' = Len(list')
  <2>1. Consumed' = Consumed /\ Len(list') = Len(list) + 1 /\ n \in Nat
    BY <1>7, WriteStep, InRange
  <2>2. /\ mode = "open" /\ written' = written + n
        /\ nbytes' = SizePlus(nbytes, n) /\ nchunks' = SizePlus(nchunks, 1)
    BY <1>7 DEF Write
  <2>3. Queued' = Queued + n
    BY <2>1, <2>2, <1>1, <1>2
  <2>4. nbytes' = Queued + n
    BY <2>1, <2>2, <2>3, <1>1, <1>2, <1>3, <1>4 DEF SizePlus
  <2>5. nchunks' = Len(list) + 1
    BY <2>1, <2>2, <1>1, <1>2, <1>3, <1>4 DEF SizePlus
  <2> QED BY <2>1, <2>3, <2>4, <2>5
<1>8. ASSUME NEW n \in 0..MaxWritten, Read(n) \/ Skip(n)
      PROVE  nbytes' = Queued' /\ nchunks' = Len(list')
  <2>1. mode = "open" /\ Consume(n) /\ UNCHANGED <<views, mode, written>> /\ n \in Nat
    BY <1>8, InRange DEF Read, Skip
  <2>2. Consumed' = Consumed + ShorterOf(n, Queued)
    BY <2>1, ConsumeStep
  <2>3. Drained(n) \in 0..Len(list) /\ ShorterOf(n, Queued) \in 0..Queued
    BY <2>1, DrainedFacts, IInvListOK
  <2>4. Queued' = Queued - ShorterOf(n, Queued)
    <3> DEFINE got == ShorterOf(n, Queued)
    <3>1. Consumed' = Consumed + got /\ got \in Int /\ written' = written
      BY <2>1, <2>2, <2>3, <1>1
    <3> HIDE DEF got
    <3>2. Queued' = Queued - got
      BY <3>1, <1>1, <1>2
    <3> QED BY <3>2 DEF got
  <2>5. nbytes' = SizeMinus(nbytes, ShorterOf(n, Queued))
        /\ nchunks' = SizeMinus(nchunks, Drained(n))
        /\ list' = SubSeq(list, Drained(n) + 1, Len(list))
    BY <2>1 DEF Consume
  <2>6. Len(list') = Len(list) - Drained(n)
    BY <2>3, <2>5, SMTT(60) DEF IInv, TypeOK
  <2>7. nbytes' = Queued - ShorterOf(n, Queued)
    BY <2>1, <2>3, <2>5, <1>1, <1>3 DEF SizeMinus
  <2>8. nchunks' = Len(list) - Drained(n)
    BY <2>1, <2>3, <2>5, <1>1, <1>3 DEF SizeMinus
  <2> QED BY <2>4, <2>6, <2>7, <2>8
<1>9. ASSUME NEW i \in -MaxWritten..MaxWritten, ChunkAt(i)
      PROVE  nbytes' = Queued' /\ nchunks' = Len(list')
  <2> DEFINE at == IF i >= 0 THEN i + 1 ELSE Len(list) + 1 + i
  <2>1. CASE UNCHANGED <<list, heap, nbytes, nchunks, views, mode, written>>
    BY <2>1, <1>5
  <2>2. CASE /\ at \in 1..Len(list) /\ mode = "open" /\ chunk_arraybuffer(list[at])
             /\ UNCHANGED <<list, nbytes, nchunks, mode, written>>
    <3>1. list[at] \in Chunk
      BY <2>2 DEF IInv, TypeOK
    <3> QED BY <3>1, <2>2, <1>6
  <2> QED BY <1>9, <2>1, <2>2 DEF ChunkAt, Unchanged
<1>10. ASSUME NEW i \in -MaxWritten..MaxWritten, At(i)
       PROVE  nbytes' = Queued' /\ nchunks' = Len(list')
  <2>1. CASE UNCHANGED <<list, heap, nbytes, nchunks, views, mode, written>>
    BY <2>1, <1>5
  <2>2. CASE \E j \in 1..Len(list) :
               /\ mode = "open" /\ chunk_arraybuffer(list[j])
               /\ UNCHANGED <<list, nbytes, nchunks, mode, written>>
    <3>1. PICK j \in 1..Len(list) :
               /\ mode = "open" /\ chunk_arraybuffer(list[j])
               /\ UNCHANGED <<list, nbytes, nchunks, mode, written>>
      BY <2>2
    <3>2. list[j] \in Chunk
      BY DEF IInv, TypeOK
    <3> QED BY <3>1, <3>2, <1>6
  <2> QED BY <1>10, <2>1, <2>2 DEF At, Unchanged
<1>11. ASSUME NEW c \in Chunk, DropView(c)
       PROVE  nbytes' = Queued' /\ nchunks' = Len(list')
  <2>1. Consumed' = Consumed /\ UNCHANGED <<list, nbytes, nchunks, mode, written>>
    BY <1>11, DropViewStep DEF DropView
  <2>2. Queued' = Queued
    BY <2>1, <1>1, <1>2
  <2> QED BY <2>1, <2>2, <1>3
<1>12. ASSUME TakeChunk
       PROVE  nbytes' = Queued' /\ nchunks' = Len(list')
  <2>1. CASE list = <<>>
    <3>1. UNCHANGED <<list, heap, nbytes, nchunks, views, mode, written>>
      BY <1>12, <2>1 DEF TakeChunk, Unchanged
    <3> QED BY <3>1, <1>5
  <2>2. CASE list # <<>>
    <3> DEFINE n == chunk_size(Head(list))
    <3>1. /\ mode = "open" /\ list' = Tail(list) /\ written' = written
          /\ nchunks' = SizeMinus(nchunks, 1) /\ nbytes' = SizeMinus(nbytes, n)
      BY <1>12, <2>2 DEF TakeChunk
    <3>2. Consumed' = Consumed + n
      BY <1>12, <2>2, TakeChunkStep
    <3>3. Len(list) >= 1 /\ Len(list') = Len(list) - 1 /\ Head(list) = list[1]
      BY <3>1, <2>2 DEF IInv, TypeOK
    <3>4. n \in Nat
      BY <3>3, <1>1, ChunkFacts, IInvListOK
    <3> HIDE DEF n
    <3>5. Queued' = Queued - n /\ n <= Queued
      BY <3>1, <3>2, <3>4, <1>1, <1>2
    <3>6. nbytes' = Queued - n
      BY <3>1, <3>4, <3>5, <1>1, <1>3 DEF SizeMinus
    <3>7. nchunks' = Len(list) - 1
      BY <3>1, <3>3, <1>1, <1>3 DEF SizeMinus
    <3> QED BY <3>3, <3>5, <3>6, <3>7
  <2> QED BY <2>1, <2>2
<1>13. ASSUME Clear PROVE nbytes' = Queued' /\ nchunks' = Len(list')
  <2>1. mode = "open" /\ queue_clear("open")
    BY <1>13 DEF Clear
  <2>2. nchunks' = 0 /\ nbytes' = 0 /\ list' = <<>> /\ written' = written
    BY <2>1 DEF queue_clear
  <2>3. Consumed' = written
    BY <2>1, ClearStep
  <2> QED BY <2>2, <2>3, <1>1, <1>2
<1>14. ASSUME Finalize PROVE nbytes' = Queued' /\ nchunks' = Len(list')
  BY <1>14 DEF Finalize, queue_clear
<1>15. ASSUME NEW n \in 0..MaxWritten, WriteFails(n) \/ Peek(n)
       PROVE  nbytes' = Queued' /\ nchunks' = Len(list')
  BY <1>15, <1>5 DEF WriteFails, Peek, Unchanged
<1>16. ASSUME UNCHANGED vars PROVE nbytes' = Queued' /\ nchunks' = Len(list')
  BY <1>16, <1>5 DEF vars
<1> QED BY <1>7, <1>8, <1>9, <1>10, <1>11, <1>12, <1>13, <1>14, <1>15, <1>16 DEF Next

\* In a build whose asserts abort, the counters agree with the list as long as
\* the queue is in use.
THEOREM CountersAreRight == Asserts => (Spec => []CountersMatch)
<1> SUFFICES ASSUME Asserts PROVE Spec => []CountersMatch
  OBVIOUS
<1>1. IInv /\ IInv' /\ CountersMatch /\ [Next]_vars => CountersMatch'
  BY StepCounters
<1> QED BY InitCounters, InvariantHolds, <1>1, PTL DEF Spec

-----------------------------------------------------------------------------
(***************************************************************************)
(* Queue implements ByteFifo.                                              *)
(***************************************************************************)
LEMMA InitRefines == Init => Fifo!Init
  BY DEF Init, Fifo!Init, Consumed, Nothing, Bytes, Fifo!Nothing, Fifo!Bytes

LEMMA ReplyRefines ==
  ASSUME NEW op, NEW arg, NEW n, NEW a, NEW k
  PROVE  /\ Reply(op, arg, n, Bytes(a, k)) => Fifo!Reply(op, arg, n, Fifo!Bytes(a, k))
         /\ Reply(op, arg, n, Nothing) => Fifo!Reply(op, arg, n, Fifo!Nothing)
  BY DEF Reply, Bytes, Nothing, Fifo!Reply, Fifo!Bytes, Fifo!Nothing

LEMMA AtRefines ==
  ASSUME IInv, CountersMatch, NEW i \in -MaxWritten..MaxWritten, At(i)
  PROVE  Fifo!At(i)
<1> DEFINE at == IF i >= 0 THEN i ELSE Queued + i
           inRange == IF i >= 0 THEN i < nbytes ELSE i >= -Signed(nbytes)
           around == {j \in 1..Len(list) : TailPos[j] <= at /\ at < TailPos[j + 1]}
<1>0. /\ Queued = written - Consumed /\ Consumed \in Nat /\ Queued \in Nat /\ written \in Nat
      /\ 2 * Queued < SizeMod /\ i \in Int /\ ListOK
  BY QueuedIsHeld, IInvListOK, ConstantsAssumption
<1>1. nbytes = Queued /\ mode = "open"
  BY DEF CountersMatch, At
<1>2. inRange <=> at \in 0..(Queued - 1)
  BY <1>0, <1>1, ConstantsAssumption DEF Signed
<1>3. inRange <=> i \in -Fifo!Held..(Fifo!Held - 1)
  BY <1>0, <1>1, ConstantsAssumption DEF Signed, Fifo!Held
<1>4. CASE inRange
  <2>1. around # {}
    BY <1>2, <1>4, <1>0, OffsetHasChunk
  <2> DEFINE j == CHOOSE j \in around : TRUE
  <2>2. /\ chunk_arraybuffer(list[j])
        /\ Reply("at", i, 1, Bytes(First(list[j]) + (at - TailPos[j]), 1))
        /\ UNCHANGED <<list, nbytes, nchunks>> /\ UNCHANGED <<mode, written>>
    BY <2>1, <1>4 DEF At
  <2>3. j \in 1..Len(list)
    BY <2>1
  <2> HIDE DEF j
  <2>4. First(list[j]) = Consumed + TailPos[j] /\ TailPos[j] \in Nat
    BY <2>3, <1>0, TailPosFacts
  <2>5. First(list[j]) + (at - TailPos[j]) = (IF i >= 0 THEN Consumed ELSE written) + i
    BY <2>4, <1>0
  <2>6. list[j] \in Chunk
    BY <2>3 DEF IInv, TypeOK
  <2>7. Consumed' = Consumed /\ written' = written
    BY <2>2, <2>6, <1>1, ViewStep
  <2>8. Fifo!Reply("at", i, 1, Fifo!Bytes((IF i >= 0 THEN Consumed ELSE written) + i, 1))
    BY <2>2, <2>5, ReplyRefines
  <2> QED BY <2>7, <2>8, <1>3, <1>4 DEF Fifo!At
<1>5. CASE ~inRange
  <2>1. Reply("at", i, -1, Nothing) /\ Unchanged /\ UNCHANGED <<mode, written>>
    BY <1>5 DEF At
  <2>2. Consumed' = Consumed
    BY <2>1, IdleStep DEF Unchanged
  <2>3. Fifo!Reply("at", i, -1, Fifo!Nothing)
    BY <2>1, ReplyRefines
  <2> QED BY <2>1, <2>2, <2>3, <1>3, <1>5 DEF Fifo!At
<1> QED BY <1>4, <1>5

LEMMA WindowRefines ==
  ASSUME IInv, NEW i \in -MaxWritten..MaxWritten, ChunkAt(i)
  PROVE  Fifo!Window(i)
<1> DEFINE at == IF i >= 0 THEN i + 1 ELSE Len(list) + 1 + i
<1>1. CASE Reply("chunk", i, -1, Nothing) /\ Unchanged /\ UNCHANGED <<mode, written>>
  <2>1. Consumed' = Consumed
    BY <1>1, IdleStep DEF Unchanged
  <2>2. Fifo!Reply("chunk", i, -1, Fifo!Nothing)
    BY <1>1, ReplyRefines
  <2> QED BY <1>1, <2>1, <2>2 DEF Fifo!Window
<1>2. CASE /\ at \in 1..Len(list) /\ mode = "open" /\ chunk_arraybuffer(list[at])
           /\ Reply("chunk", i, chunk_size(list[at]),
                    Bytes(First(list[at]), chunk_size(list[at])))
           /\ UNCHANGED <<list, nbytes, nchunks, mode, written>>
  <2> DEFINE a == First(list[at])
             k == chunk_size(list[at])
  <2>1. Consumed' = Consumed
    <3>1. list[at] \in Chunk
      BY <1>2 DEF IInv, TypeOK
    <3> QED BY <3>1, <1>2, ViewStep
  <2>2. Fifo!Reply("chunk", i, k, Fifo!Bytes(a, k))
    BY <1>2, ReplyRefines
  <2>3. /\ a = Consumed + TailPos[at] /\ TailPos[at] \in Nat /\ k \in Nat
        /\ TailPos[at] + k <= Queued
    BY <1>2, IInvListOK, TailPosFacts
  <2>4. Queued = written - Consumed /\ Consumed \in Nat /\ written \in Nat
    BY QueuedIsHeld
  <2> HIDE DEF a, k
  <2>5. a \in Consumed..written /\ k \in 0..(written - a)
    BY <2>3, <2>4, SMTT(60)
  <2> QED BY <1>2, <2>1, <2>2, <2>5 DEF Fifo!Window
<1> QED BY <1>1, <1>2 DEF ChunkAt

LEMMA ReadRefines ==
  ASSUME IInv, NEW n \in 0..MaxWritten
  PROVE  /\ Read(n) => Fifo!Read(n)
         /\ Skip(n) => Fifo!Skip(n)
         /\ Peek(n) => Fifo!Peek(n)
<1>1. /\ Queued = written - Consumed /\ Consumed \in Nat /\ Queued \in Nat /\ n \in Nat
  BY QueuedIsHeld, InRange
<1>2. ShorterOf(n, Queued) = Fifo!AtMost(n)
  BY <1>1 DEF ShorterOf, Fifo!AtMost, Fifo!Held
<1>3. Copied(n) = Bytes(Consumed, Fifo!AtMost(n))
  BY <1>1, <1>2, CopiedIsPrefix, IInvListOK
<1>4. ASSUME mode = "open" /\ Consume(n) /\ UNCHANGED <<views, mode, written>>
      PROVE  Consumed' = Consumed + Fifo!AtMost(n)
  BY <1>1, <1>2, <1>4, ConsumeStep
<1>5. ASSUME Read(n) PROVE Fifo!Read(n)
  BY <1>2, <1>3, <1>4, <1>5, ReplyRefines DEF Read, Fifo!Read
<1>6. ASSUME Skip(n) PROVE Fifo!Skip(n)
  BY <1>2, <1>4, <1>6, ReplyRefines DEF Skip, Fifo!Skip
<1>7. ASSUME Peek(n) PROVE Fifo!Peek(n)
  <2>1. Consumed' = Consumed /\ written' = written
    BY <1>7, IdleStep DEF Peek, Unchanged
  <2> QED BY <1>2, <1>3, <1>7, <2>1, ReplyRefines DEF Peek, Fifo!Peek
<1> QED BY <1>5, <1>6, <1>7

LEMMA TakeChunkRefines ==
  ASSUME IInv, TakeChunk
  PROVE  Fifo!TakeChunk
<1>1. /\ Queued = written - Consumed /\ Consumed \in Nat /\ Queued \in Nat /\ written \in Nat
  BY QueuedIsHeld
<1>2. CASE list = <<>>
  <2>1. Reply("next", 0, -1, Nothing) /\ written' = written
    BY <1>2 DEF TakeChunk
  <2>2. Consumed' = Consumed
    BY <1>2, TakeChunkStep
  <2>3. Fifo!Held = 0
    BY <1>2, <1>1 DEF Consumed, Fifo!Held
  <2> QED BY <2>1, <2>2, <2>3, ReplyRefines DEF Fifo!TakeChunk
<1>3. CASE list # <<>>
  <2> DEFINE k == chunk_size(Head(list))
  <2>1. Reply("next", 0, k, Bytes(First(Head(list)), k)) /\ written' = written
    BY <1>3 DEF TakeChunk
  <2>2. Consumed' = Consumed + k
    BY <1>3, TakeChunkStep
  <2>3. 1 \in 1..Len(list) /\ Head(list) = list[1]
    BY <1>3 DEF IInv, TypeOK
  <2>4. First(list[1]) = Consumed + TailPos[1] /\ k \in Nat /\ TailPos[1 + 1] <= Queued
        /\ TailPos[1 + 1] = TailPos[1] + k /\ TailPos[1] = 0
    BY <2>3, TailPosFacts, TailPosIsDistance, IInvListOK
  <2> HIDE DEF k
  <2>5. First(Head(list)) = Consumed /\ k \in 0..Fifo!Held
    BY <2>3, <2>4, <1>1 DEF Fifo!Held
  <2>6. Fifo!Reply("next", 0, k, Fifo!Bytes(Consumed, k))
    BY <2>1, <2>5, ReplyRefines
  <2> QED BY <2>1, <2>2, <2>5, <2>6 DEF Fifo!TakeChunk
<1> QED BY <1>2, <1>3

LEMMA StepRefines ==
  IInv /\ CountersMatch /\ [Next]_vars => [Fifo!Next]_(Fifo!fifoVars)
<1> SUFFICES ASSUME IInv, CountersMatch, [Next]_vars
             PROVE  Fifo!Next \/ UNCHANGED Fifo!fifoVars
  BY DEF Fifo!fifoVars
<1>1. ASSUME NEW n \in 0..MaxWritten, Write(n) PROVE Fifo!Write(n)
  <2>1. Consumed' = Consumed
    BY <1>1, WriteStep, InRange
  <2> QED BY <1>1, <2>1, ReplyRefines DEF Write, Fifo!Write
<1>2. ASSUME NEW n \in 0..MaxWritten, WriteFails(n) PROVE Fifo!Write(n)
  <2>1. Consumed' = Consumed /\ written' = written
    BY <1>2, IdleStep DEF WriteFails, Unchanged
  <2> QED BY <1>2, <2>1, ReplyRefines DEF WriteFails, Fifo!Write
<1>3. ASSUME Clear \/ Finalize PROVE Fifo!Clear
  <2>1. PICK after \in {"open", "gone"} :
          mode = "open" /\ queue_clear(after) /\ Reply("clear", 0, 0, Nothing)
    BY <1>3 DEF Clear, Finalize
  <2>2. Consumed' = written /\ written' = written
    BY <2>1, ClearStep DEF queue_clear
  <2> QED BY <2>1, <2>2, ReplyRefines DEF Fifo!Clear
<1>4. ASSUME NEW c \in Chunk, DropView(c) PROVE UNCHANGED Fifo!fifoVars
  <2>1. Consumed' = Consumed
    BY <1>4, DropViewStep
  <2> QED BY <1>4, <2>1 DEF DropView, Fifo!fifoVars
<1>5. ASSUME UNCHANGED vars PROVE UNCHANGED Fifo!fifoVars
  <2>1. Consumed' = Consumed
    BY <1>5, IdleStep DEF vars
  <2> QED BY <1>5, <2>1 DEF vars, Fifo!fifoVars
<1> QED BY <1>1, <1>2, <1>3, <1>4, <1>5, ReadRefines, TakeChunkRefines, AtRefines, WindowRefines
        DEF Next, Fifo!Next

\* In a build whose asserts abort, every behaviour of the chunk list is a
\* behaviour of the byte queue, for any chunks, sizes and bounds.
THEOREM QueueImplementsFifo == Asserts => (Spec => ImplementsFifo)
<1> SUFFICES ASSUME Asserts PROVE Spec => ImplementsFifo
  OBVIOUS
<1>1. Spec => []CountersMatch
  BY CountersAreRight
<1>2. IInv /\ CountersMatch /\ [Next]_vars => [Fifo!Next]_(Fifo!fifoVars)
  BY StepRefines
<1> QED BY <1>1, <1>2, InitRefines, InvariantHolds, PTL DEF Spec, ImplementsFifo, Fifo!Spec

-----------------------------------------------------------------------------
(***************************************************************************)
(* ByteStream.  What holds of Concat, first.                               *)
(***************************************************************************)
\* One after the other, by a name that the provers do not look into.
Then(x, y) == x \o y

LEMMA ThenThen ==
  ASSUME NEW T, NEW x \in Seq(T), NEW y \in Seq(T), NEW z \in Seq(T)
  PROVE  Then(Then(x, y), z) = Then(x, Then(y, z))
BY DEF Then

\* c[i] are the first i parts in one.
Joins(parts, c, n) == c[0] = <<>> /\ \A i \in 1..n : c[i] = c[i - 1] \o parts[i]

\* The recursion that defines Concat has a solution, so Concat satisfies it.
LEMMA ConcatSolved ==
  ASSUME NEW T, NEW s \in Seq(Seq(T))
  PROVE  \E c \in [0..Len(s) -> Seq(T)] : Joins(s, c, Len(s)) /\ Concat(s) = c[Len(s)]
<1> DEFINE Solvable(k) == k <= Len(s) => \E c \in [0..k -> Seq(T)] : Joins(s, c, k)
<1> DEFINE N == {k \in Nat : Solvable(k)}
<1>0. Len(s) \in Nat /\ \A i \in 1..Len(s) : s[i] \in Seq(T)
  OBVIOUS
<1>1. 0 \in N
  <2>1. <<>> \in Seq(T)
    OBVIOUS
  <2>2. [i \in 0..0 |-> <<>>] \in [0..0 -> Seq(T)] /\ Joins(s, [i \in 0..0 |-> <<>>], 0)
    BY <2>1 DEF Joins
  <2> QED BY <2>2
<1>2. ASSUME NEW n \in N PROVE n + 1 \in N
  <2> HIDE DEF Solvable
  <2>0. n \in Nat /\ Solvable(n)
    BY <1>2
  <2>a. SUFFICES Solvable(n + 1)
    BY <2>0
  <2>1. SUFFICES ASSUME n + 1 <= Len(s)
                 PROVE  \E c \in [0..(n + 1) -> Seq(T)] : Joins(s, c, n + 1)
    BY DEF Solvable
  <2>b. n <= Len(s) /\ n + 1 \in 1..Len(s) /\ n \in 0..n /\ s[n + 1] \in Seq(T)
    BY <2>0, <2>1, <1>0
  <2>2. PICK c \in [0..n -> Seq(T)] : Joins(s, c, n)
    BY <2>0, <2>b DEF Solvable
  <2>3. PICK v \in Seq(T) : v = c[n] \o s[n + 1]
    <3>1. c[n] \in Seq(T)
      BY <2>2, <2>b
    <3>2. c[n] \o s[n + 1] \in Seq(T)
      BY <3>1, <2>b
    <3> QED BY <3>2
  <2> DEFINE t == [i \in 0..(n + 1) |-> IF i = n + 1 THEN v ELSE c[i]]
  <2>4. t \in [0..(n + 1) -> Seq(T)]
    BY <2>3, <2>2, <2>0
  <2>5. Joins(s, t, n + 1)
    <3>1. t[0] = <<>>
      BY <2>0, <2>2 DEF Joins
    <3>2. ASSUME NEW i \in 1..(n + 1) PROVE t[i] = t[i - 1] \o s[i]
      <4>1. CASE i = n + 1
        <5>1. t[i] = v /\ t[i - 1] = c[n] /\ s[i] = s[n + 1]
          BY <4>1, <2>0
        <5> HIDE DEF t
        <5> QED BY <5>1, <2>3
      <4>2. CASE i # n + 1
        <5>1. i \in 1..n /\ i - 1 \in 0..n /\ i \in 0..n /\ i - 1 # n + 1
          BY <4>2, <2>0
        <5>2. t[i] = c[i] /\ t[i - 1] = c[i - 1]
          BY <5>1, <4>2, <2>0
        <5>3. c[i] = c[i - 1] \o s[i]
          BY <5>1, <2>2 DEF Joins
        <5> HIDE DEF t
        <5> QED BY <5>2, <5>3
      <4> QED BY <4>1, <4>2
    <3> HIDE DEF t
    <3> QED BY <3>1, <3>2 DEF Joins
  <2> QED BY <2>4, <2>5
<1>3. N = Nat
  <2> HIDE DEF N
  <2>1. N \in SUBSET Nat BY DEF N
  <2> QED BY <1>1, <1>2, <2>1, SetInduction
<1>4. PICK c \in [0..Len(s) -> Seq(T)] : Joins(s, c, Len(s))
  <2> HIDE DEF Solvable
  <2>1. Len(s) \in N
    BY <1>3, <1>0
  <2>2. Solvable(Len(s)) /\ Len(s) <= Len(s)
    BY <2>1, <1>0
  <2> QED BY <2>2 DEF Solvable
<1> DEFINE Step(q, i) == IF i = 0 THEN <<>> ELSE q[i - 1] \o s[i]
<1>5. c = [i \in 0..Len(s) |-> Step(c, i)]
  <2>1. ASSUME NEW i \in 0..Len(s) PROVE c[i] = Step(c, i)
    <3>1. CASE i = 0
      BY <3>1, <1>4 DEF Joins
    <3>2. CASE i # 0
      <4>1. i \in 1..Len(s)
        BY <3>2, <1>0
      <4>2. c[i] = c[i - 1] \o s[i]
        BY <4>1, <1>4 DEF Joins
      <4> QED BY <4>2, <3>2
    <3> QED BY <3>1, <3>2
  <2> HIDE DEF Step
  <2> QED BY <2>1, <1>4
<1> DEFINE Solution == CHOOSE q : q = [i \in 0..Len(s) |-> Step(q, i)]
<1>6. Concat(s) = Solution[Len(s)]
  BY DEF Concat
<1>7. Solution = [i \in 0..Len(s) |-> Step(Solution, i)]
  <2> HIDE DEF Step
  <2> QED BY <1>5
<1> HIDE DEF Solution
<1>8. \A i \in 0..Len(s) : Solution[i] = Step(Solution, i)
  <2> HIDE DEF Step
  <2> QED BY <1>7
<1>9. Solution[0] = <<>> /\ \A i \in 1..Len(s) : Solution[i] = Solution[i - 1] \o s[i]
  <2>1. Solution[0] = <<>>
    BY <1>8, <1>0
  <2>2. ASSUME NEW i \in 1..Len(s) PROVE Solution[i] = Solution[i - 1] \o s[i]
    <3>1. i \in 0..Len(s) /\ i # 0
      BY <1>0
    <3>2. Solution[i] = Step(Solution, i)
      BY <1>8, <3>1
    <3> QED BY <3>1, <3>2
  <2> QED BY <2>1, <2>2
<1> DEFINE E == {k \in Nat : k <= Len(s) => Solution[k] \in Seq(T)}
<1>10. E = Nat
  <2>1. 0 \in E
    <3>1. <<>> \in Seq(T)
      OBVIOUS
    <3> QED BY <3>1, <1>9
  <2>2. ASSUME NEW n \in E PROVE n + 1 \in E
    <3>1. SUFFICES ASSUME n + 1 <= Len(s) PROVE Solution[n + 1] \in Seq(T)
      OBVIOUS
    <3>2. n + 1 \in 1..Len(s) /\ (n + 1) - 1 = n /\ Solution[n] \in Seq(T) /\ s[n + 1] \in Seq(T)
      BY <3>1, <1>0
    <3>3. Solution[n] \o s[n + 1] \in Seq(T)
      BY <3>2
    <3>4. Solution[n + 1] = Solution[n] \o s[n + 1]
      BY <1>9, <3>2
    <3> QED BY <3>3, <3>4
  <2> HIDE DEF E
  <2>3. E \in SUBSET Nat BY DEF E
  <2> QED BY <2>1, <2>2, <2>3, SetInduction
<1>11. Solution \in [0..Len(s) -> Seq(T)]
  <2>1. \A k \in 0..Len(s) : Solution[k] \in Seq(T)
    BY <1>10, <1>0
  <2> HIDE DEF Step
  <2> QED BY <2>1, <1>7
<1>12. Joins(s, Solution, Len(s))
  BY <1>9 DEF Joins
<1> QED BY <1>6, <1>11, <1>12

LEMMA ConcatType ==
  ASSUME NEW T, NEW s \in Seq(Seq(T))
  PROVE  Concat(s) \in Seq(T)
<1>1. PICK c \in [0..Len(s) -> Seq(T)] : Concat(s) = c[Len(s)]
  BY ConcatSolved
<1>2. Len(s) \in 0..Len(s)
  OBVIOUS
<1> QED BY <1>1, <1>2

LEMMA ConcatNothing == Concat(<<>>) = <<>>
<1>1. <<>> \in Seq(Seq(Nat)) /\ Len(<<>>) = 0
  OBVIOUS
<1>2. PICK c \in [0..Len(<<>>) -> Seq(Nat)] : Joins(<<>>, c, Len(<<>>)) /\ Concat(<<>>) = c[Len(<<>>)]
  BY <1>1, ConcatSolved
<1> QED BY <1>1, <1>2 DEF Joins

\* What the parts of two sequences amount to, one after the other.
LEMMA ConcatBoth ==
  ASSUME NEW T, NEW s \in Seq(Seq(T)), NEW t \in Seq(Seq(T))
  PROVE  Concat(s \o t) = Concat(s) \o Concat(t)
<1>0. PICK m \in Nat, n \in Nat : m = Len(s) /\ n = Len(t)
  OBVIOUS
<1>1. PICK u \in Seq(Seq(T)) : u = s \o t
  <2>1. s \o t \in Seq(Seq(T))
    OBVIOUS
  <2> QED BY <2>1
<1>2. Len(u) = m + n /\ (\A i \in 1..m : u[i] = s[i]) /\ (\A i \in 1..n : u[m + i] = t[i])
  <2>1. Len(u) = m + n /\ \A i \in 1..(m + n) : u[i] = IF i <= m THEN s[i] ELSE t[i - m]
    BY <1>0, <1>1, ConcatProperties
  <2>2. ASSUME NEW i \in 1..n PROVE u[m + i] = t[i]
    <3>1. m + i \in 1..(m + n) /\ ~(m + i <= m) /\ (m + i) - m = i
      BY <1>0
    <3> QED BY <2>1, <3>1
  <2>3. ASSUME NEW i \in 1..m PROVE u[i] = s[i]
    <3>1. i \in 1..(m + n) /\ i <= m
      BY <1>0
    <3> QED BY <2>1, <3>1
  <2> QED BY <2>1, <2>2, <2>3
<1>3. PICK a \in [0..m -> Seq(T)] : Joins(s, a, m) /\ Concat(s) = a[m]
  BY ConcatSolved, <1>0
<1>4. PICK b \in [0..n -> Seq(T)] : Joins(t, b, n) /\ Concat(t) = b[n]
  BY ConcatSolved, <1>0
<1>5. PICK c \in [0..(m + n) -> Seq(T)] : Joins(u, c, m + n) /\ Concat(u) = c[m + n]
  <2>1. \E c \in [0..Len(u) -> Seq(T)] : Joins(u, c, Len(u)) /\ Concat(u) = c[Len(u)]
    BY ConcatSolved
  <2>2. Len(u) = m + n
    BY <1>2
  <2> QED BY <2>1, <2>2
<1>6. \A k \in Nat : k <= m => c[k] = a[k]
  <2> DEFINE E == {k \in Nat : k <= m => c[k] = a[k]}
  <2>1. 0 \in E
    BY <1>3, <1>5 DEF Joins
  <2>2. ASSUME NEW k \in E PROVE k + 1 \in E
    <3>1. SUFFICES ASSUME k + 1 <= m PROVE c[k + 1] = a[k + 1]
      OBVIOUS
    <3>2. k + 1 \in 1..m /\ k + 1 \in 1..(m + n) /\ (k + 1) - 1 = k /\ c[k] = a[k]
      BY <3>1
    <3>3. a[k + 1] = a[k] \o s[k + 1]
      BY <1>3, <3>2 DEF Joins
    <3>4. c[k + 1] = c[k] \o u[k + 1]
      BY <1>5, <3>2 DEF Joins
    <3>5. u[k + 1] = s[k + 1]
      BY <1>2, <3>2
    <3> QED BY <3>2, <3>3, <3>4, <3>5
  <2>3. E = Nat
    <3> HIDE DEF E
    <3>1. E \in SUBSET Nat BY DEF E
    <3> QED BY <2>1, <2>2, <3>1, SetInduction
  <2> QED BY <2>3
<1>7. \A k \in Nat : k <= n => c[m + k] = a[m] \o b[k]
  <2> DEFINE Good(k) == k <= n => c[m + k] = a[m] \o b[k]
  <2> DEFINE E == {k \in Nat : Good(k)}
  <2>0. a[m] \in Seq(T) /\ c[m] = a[m]
    BY <1>3, <1>6, <1>0
  <2>1. 0 \in E
    <3>1. b[0] = <<>>
      BY <1>4 DEF Joins
    <3>2. a[m] \o b[0] = a[m]
      BY <3>1, <2>0, ConcatEmptySeq
    <3>3. c[m + 0] = a[m]
      BY <2>0
    <3> QED BY <3>2, <3>3
  <2>2. ASSUME NEW k \in E PROVE k + 1 \in E
    <3> HIDE DEF Good
    <3>0. k \in Nat /\ Good(k)
      BY <2>2
    <3>a. SUFFICES Good(k + 1)
      BY <3>0
    <3>1. SUFFICES ASSUME k + 1 <= n PROVE c[m + (k + 1)] = a[m] \o b[k + 1]
      BY DEF Good
    <3>2. k <= n /\ k + 1 \in 1..n /\ m + (k + 1) \in 1..(m + n) /\ (k + 1) - 1 = k /\ (m + (k + 1)) - 1 = m + k /\ k \in 0..n
      BY <3>0, <3>1
    <3>3. b[k + 1] = b[k] \o t[k + 1]
      BY <1>4, <3>2 DEF Joins
    <3>4. c[m + (k + 1)] = c[m + k] \o u[m + (k + 1)]
      BY <1>5, <3>2 DEF Joins
    <3>5. u[m + (k + 1)] = t[k + 1]
      BY <1>2, <3>2
    <3>6. c[m + k] = a[m] \o b[k]
      BY <3>0, <3>2 DEF Good
    <3>7. b[k] \in Seq(T) /\ t[k + 1] \in Seq(T)
      <4>1. b[k] \in Seq(T)
        BY <1>4, <3>2
      <4>2. t[k + 1] \in Seq(T)
        BY <3>2, <1>0
      <4> QED BY <4>1, <4>2
    <3>8. (a[m] \o b[k]) \o t[k + 1] = a[m] \o (b[k] \o t[k + 1])
      <4>2. a[m] \in Seq(T)
        BY <2>0
      <4>3. PICK x \in Seq(T), y \in Seq(T), z \in Seq(T) : x = a[m] /\ y = b[k] /\ z = t[k + 1]
        BY <4>2, <3>7
      <4>4. Then(Then(x, y), z) = Then(x, Then(y, z))
        BY ThenThen
      <4>5. (x \o y) \o z = x \o (y \o z)
        BY <4>4 DEF Then
      <4> QED BY <4>3, <4>5
    <3> QED BY <3>3, <3>4, <3>5, <3>6, <3>8
  <2>3. E = Nat
    <3> HIDE DEF E
    <3>1. E \in SUBSET Nat BY DEF E
    <3> QED BY <2>1, <2>2, <3>1, SetInduction
  <2> QED BY <2>3
<1>8. c[m + n] = a[m] \o b[n]
  BY <1>7, <1>0
<1> QED BY <1>8, <1>1, <1>3, <1>4, <1>5

\* Parts that are empty.
LEMMA ConcatBlank ==
  ASSUME NEW T, NEW s \in Seq(Seq(T)), \A i \in 1..Len(s) : s[i] = <<>>
  PROVE  Concat(s) = <<>>
<1>1. PICK c \in [0..Len(s) -> Seq(T)] : Joins(s, c, Len(s)) /\ Concat(s) = c[Len(s)]
  BY ConcatSolved
<1> DEFINE E == {k \in Nat : k <= Len(s) => c[k] = <<>>}
<1>2. 0 \in E
  BY <1>1 DEF Joins
<1>3. ASSUME NEW k \in E PROVE k + 1 \in E
  <2>1. SUFFICES ASSUME k + 1 <= Len(s) PROVE c[k + 1] = <<>>
    OBVIOUS
  <2>2. k + 1 \in 1..Len(s) /\ (k + 1) - 1 = k /\ c[k] = <<>>
    BY <2>1
  <2>3. c[k + 1] = c[k] \o s[k + 1]
    BY <1>1, <2>2 DEF Joins
  <2>4. s[k + 1] = <<>>
    BY <2>2
  <2>5. <<>> \o <<>> = <<>>
    OBVIOUS
  <2> HIDE DEF E
  <2> QED BY <2>2, <2>3, <2>4, <2>5
<1>4. E = Nat
  <2> HIDE DEF E
  <2>1. E \in SUBSET Nat BY DEF E
  <2> QED BY <1>2, <1>3, <2>1, SetInduction
<1>5. Len(s) \in E
  BY <1>4
<1> QED BY <1>5, <1>1

LEMMA ConcatOne ==
  ASSUME NEW T, NEW x \in Seq(T)
  PROVE  Concat(<<x>>) = x
<1>0. <<x>> \in Seq(Seq(T)) /\ Len(<<x>>) = 1 /\ <<x>>[1] = x
  OBVIOUS
<1>1. PICK c \in [0..1 -> Seq(T)] : Joins(<<x>>, c, 1) /\ Concat(<<x>>) = c[1]
  BY <1>0, ConcatSolved
<1>2. c[0] = <<>> /\ c[1] = c[0] \o x
  <2>1. c[0] = <<>> /\ c[1] = c[1 - 1] \o <<x>>[1]
    BY <1>1 DEF Joins
  <2>2. 1 - 1 = 0
    OBVIOUS
  <2> QED BY <2>1, <2>2, <1>0
<1>3. <<>> \o x = x
  BY ConcatEmptySeq
<1> QED BY <1>1, <1>2, <1>3

LEMMA ConcatAppend ==
  ASSUME NEW T, NEW s \in Seq(Seq(T)), NEW x \in Seq(T)
  PROVE  Concat(Append(s, x)) = Concat(s) \o x
<1>1. <<x>> \in Seq(Seq(T))
  OBVIOUS
<1>2. Append(s, x) = s \o <<x>>
  BY AppendIsConcat
<1>3. Concat(s \o <<x>>) = Concat(s) \o Concat(<<x>>)
  BY <1>1, ConcatBoth
<1> QED BY <1>2, <1>3, ConcatOne

LEMMA ConcatTail ==
  ASSUME NEW T, NEW s \in Seq(Seq(T)), s # <<>>
  PROVE  Concat(s) = Head(s) \o Concat(Tail(s))
<1>1. Head(s) \in Seq(T) /\ Tail(s) \in Seq(Seq(T)) /\ <<Head(s)>> \in Seq(Seq(T))
  OBVIOUS
<1>2. s = <<Head(s)>> \o Tail(s)
  OBVIOUS
<1>3. Concat(<<Head(s)>> \o Tail(s)) = Concat(<<Head(s)>>) \o Concat(Tail(s))
  BY <1>1, ConcatBoth
<1>4. Concat(<<Head(s)>>) = Head(s)
  BY <1>1, ConcatOne
<1> QED BY <1>2, <1>3, <1>4

\* One empty part, with only empty ones after it, is written.
LEMMA ConcatWrite ==
  ASSUME NEW T, NEW s \in Seq(Seq(T)), NEW t \in Seq(Seq(T)), NEW k \in 1..Len(s),
         Len(t) = Len(s),
         \A i \in 1..Len(s) : i < k => t[i] = s[i],
         \A i \in 1..Len(s) : k <= i => s[i] = <<>>,
         \A i \in 1..Len(s) : k < i => t[i] = <<>>
  PROVE  Concat(t) = Concat(s) \o t[k]
<1>0. PICK n \in Nat : n = Len(s)
  OBVIOUS
<1>1. PICK a \in Seq(Seq(T)) : a = SubSeq(s, 1, k - 1)
  <2>1. SubSeq(s, 1, k - 1) \in Seq(Seq(T))
    OBVIOUS
  <2> QED BY <2>1
<1>2. PICK b \in Seq(Seq(T)) : b = SubSeq(s, k, n)
  <2>1. SubSeq(s, k, n) \in Seq(Seq(T))
    BY <1>0
  <2> QED BY <2>1
<1>3. PICK d \in Seq(Seq(T)) : d = SubSeq(t, k + 1, n)
  <2>1. SubSeq(t, k + 1, n) \in Seq(Seq(T))
    BY <1>0
  <2> QED BY <2>1
<1>4. t[k] \in Seq(T)
  BY <1>0
<1>5. s = a \o b
  <2>1. SubSeq(s, 1, k - 1) \o SubSeq(s, (k - 1) + 1, n) = SubSeq(s, 1, n)
    <3>1. 1 \in 1..(Len(s) + 1) /\ k - 1 \in (1 - 1)..Len(s) /\ n \in (k - 1)..Len(s)
      BY <1>0
    <3> QED BY <3>1, ConcatAdjacentSubSeq
  <2>2. (k - 1) + 1 = k
    OBVIOUS
  <2> QED BY <2>1, <2>2, <1>0, <1>1, <1>2, SubSeqFull
<1>6. t = Append(a, t[k]) \o d
  <2>1. SubSeq(t, 1, k) \o SubSeq(t, k + 1, n) = SubSeq(t, 1, n)
    <3>1. 1 \in 1..(Len(t) + 1) /\ k \in (1 - 1)..Len(t) /\ n \in k..Len(t)
      BY <1>0
    <3> QED BY <3>1, ConcatAdjacentSubSeq
  <2>2. SubSeq(t, 1, n) = t
    BY <1>0, SubSeqFull
  <2>3. SubSeq(t, 1, k) = Append(a, t[k])
    <3>1. PICK e \in Seq(Seq(T)) : e = SubSeq(t, 1, k)
      <4>1. SubSeq(t, 1, k) \in Seq(Seq(T))
        BY <1>0, SMTT(60)
      <4> QED BY <4>1
    <3>2. Len(e) = k /\ \A i \in 1..k : e[i] = t[i]
      BY <3>1, <1>0
    <3>3. Len(a) = k - 1 /\ \A i \in 1..(k - 1) : a[i] = t[i]
      BY <1>1, <1>0, SMTT(60)
    <3>4. PICK f \in Seq(Seq(T)) : f = Append(a, t[k])
      <4>1. Append(a, t[k]) \in Seq(Seq(T))
        BY <1>4
      <4> QED BY <4>1
    <3>5. Len(f) = k /\ \A i \in 1..k : f[i] = t[i]
      <4>1. Len(f) = Len(a) + 1 /\ (\A i \in 1..Len(a) : f[i] = a[i]) /\ f[Len(a) + 1] = t[k]
        BY <3>4, <1>4, AppendProperties
      <4>2. (k - 1) + 1 = k /\ \A i \in 1..k : i = k \/ i \in 1..(k - 1)
        OBVIOUS
      <4> QED BY <4>1, <4>2, <3>3
    <3>6. e = f
      BY <3>2, <3>5, SeqEqual
    <3> QED BY <3>1, <3>4, <3>6
  <2> QED BY <2>1, <2>2, <2>3, <1>3
<1>7. Concat(b) = <<>>
  <2>1. ASSUME NEW i \in 1..Len(b) PROVE b[i] = <<>>
    <3>1. Len(b) = (IF k <= n THEN n - (k) + 1 ELSE 0) /\ \A j \in 1..(n - (k) + 1) : b[j] = s[k + j - 1]
      <4>1. \A j \in (k)..n : s[j] \in Seq(T)
        BY <1>0
      <4> QED BY <1>2, <4>1, SubSeqProperties
    <3>2. i \in 1..(n - (k) + 1) /\ k + i - 1 \in 1..Len(s) /\ k <= k + i - 1
      BY <3>1, <1>0
    <3> QED BY <3>1, <3>2
  <2> QED BY <2>1, ConcatBlank
<1>8. Concat(d) = <<>>
  <2>1. ASSUME NEW i \in 1..Len(d) PROVE d[i] = <<>>
    <3>1. Len(d) = (IF k + 1 <= n THEN n - (k + 1) + 1 ELSE 0) /\ \A j \in 1..(n - (k + 1) + 1) : d[j] = t[k + 1 + j - 1]
      <4>1. \A j \in (k + 1)..n : t[j] \in Seq(T)
        BY <1>0
      <4> QED BY <1>3, <4>1, SubSeqProperties
    <3>2. i \in 1..(n - (k + 1) + 1) /\ k + 1 + i - 1 \in 1..Len(s) /\ k < k + 1 + i - 1
      BY <3>1, <1>0
    <3> QED BY <3>1, <3>2
  <2> QED BY <2>1, ConcatBlank
<1>9. Concat(s) = Concat(a)
  <2>1. Concat(a) \in Seq(T)
    BY ConcatType
  <2>2. Concat(a \o b) = Concat(a) \o Concat(b)
    BY ConcatBoth
  <2>3. Concat(a) \o <<>> = Concat(a)
    BY <2>1, ConcatEmptySeq
  <2> QED BY <1>5, <1>7, <2>2, <2>3
<1>10. Concat(t) = Concat(a) \o t[k]
  <2>1. PICK e \in Seq(Seq(T)) : e = Append(a, t[k])
    <3>1. Append(a, t[k]) \in Seq(Seq(T))
      BY <1>4
    <3> QED BY <3>1
  <2>2. Concat(e) = Concat(a) \o t[k]
    BY <2>1, <1>4, ConcatAppend
  <2>3. Concat(e) \in Seq(T)
    BY ConcatType
  <2>4. Concat(e \o d) = Concat(e) \o Concat(d)
    BY ConcatBoth
  <2>5. Concat(e) \o <<>> = Concat(e)
    BY <2>3, ConcatEmptySeq
  <2> QED BY <1>6, <1>8, <2>1, <2>2, <2>4, <2>5
<1> QED BY <1>9, <1>10

-----------------------------------------------------------------------------
(***************************************************************************)
(* The invariant, by parts.                                                *)
(***************************************************************************)
PullIntoSet == [read : Nat, data : Seq(Nat), filled : Nat]
RequestSet == [len : Nat, at : Nat, live : BOOLEAN]
FieldSet ==
  [state : {"readable", "closed", "errored"}, reader : Nat, requests : Seq(ByteReads),
   queue : Seq(Seq(Nat)), queueTotalSize : Nat, closeRequested : BOOLEAN, pulling : BOOLEAN,
   pullAgain : BOOLEAN, pullIntos : Seq(PullIntoSet), request : RequestSet, auto : Nat]
AnswerSet == [st : {"none", "pending", "value", "done", "rejected"}, data : Seq(Nat)]
HolderSet == [kind : {"default", "byob"}, closed : {"pending", "resolved", "rejected"}]
WorldSet ==
  [b : FieldSet, given : [ByteReads -> AnswerSet], holders : Seq(HolderSet),
   pulls : {"none", "running", "pending", "resolved", "rejected"}]

InSeq(k, s) == \E j \in 1..Len(s) : s[j] = k
HasView(k, s) == \E j \in 1..Len(s) : s[j].read = k
Rising(s) == \A i, j \in 1..Len(s) : i < j => s[i] < s[j]

\* What is known of each part of the fields, whatever has happened.
QueueOK(queue, total) == total = Len(Concat(queue)) /\ \A j \in 1..Len(queue) : queue[j] # <<>>
ViewsOK(vs, a) ==
  /\ \A j \in 1..Len(vs) : vs[j].read \in 0..a /\ vs[j].filled < Len(vs[j].data)
  /\ \A i, j \in 1..Len(vs) : i < j => vs[i].read < vs[j].read /\ vs[j].filled = 0
RequestOK(request, vs) ==
  request.live = TRUE => vs # <<>> /\ request.len + request.at = Len(vs[1].data)
LockOK(b, hs) ==
  /\ b.reader \in 0..Len(hs)
  /\ b.requests # <<>> => b.reader # 0 /\ hs[b.reader].kind = "default"
  /\ \A j \in 1..Len(b.pullIntos) :
       b.pullIntos[j].read # 0 => b.reader # 0 /\ hs[b.reader].kind = "byob"
  /\ b.state # "readable" => b.requests = <<>> /\ b.pullIntos = <<>>
  /\ b.auto = 0 => \A j \in 1..Len(b.pullIntos) : b.pullIntos[j].read # 0
ClosedSays(state) ==
  CASE state = "readable" -> "pending" [] state = "closed" -> "resolved" [] OTHER -> "rejected"
ToldOK(b, hs) == b.reader # 0 => hs[b.reader].closed = ClosedSays(b.state)
GivenOK(g, a) == \A k \in ByteReads : g[k].st = "none" <=> k > a
WaitsOK(w) ==
  \A k \in ByteReads :
    w.given[k].st = "pending" <=> InSeq(k, w.b.requests) \/ HasView(k, w.b.pullIntos)

WorldOK(w, a) ==
  /\ w \in WorldSet
  /\ QueueOK(w.b.queue, w.b.queueTotalSize)
  /\ ViewsOK(w.b.pullIntos, a)
  /\ RequestOK(w.b.request, w.b.pullIntos)
  /\ Rising(w.b.requests)
  /\ LockOK(w.b, w.holders)
  /\ ToldOK(w.b, w.holders)
  /\ GivenOK(w.given, a)
  /\ (w.b.pulling = TRUE <=> w.pulls # "none")

\* No read waits while there are bytes in the queue, or behind a buffer.
InTurn(w) == Overtaken(w) = {}

\* What a read that waits, and those after it, were given so far: nothing.
LaterEmpty(g) ==
  \A k, j \in ByteReads : k <= j /\ g[k].st \in {"none", "pending"} => g[j].data = <<>>
DeliveredOf(g, a) == Concat([k \in 1..a |-> g[k].data])
Held(vs) == Concat([j \in 1..Len(vs) |-> SubSeq(vs[j].data, 1, vs[j].filled)])
KeptOf(b) == Concat(b.queue) \o Held(b.pullIntos)
Begins(s) == s = Numbers(0, Len(s))
OrderOK(w, a, n) ==
  /\ w.b.state # "errored" => DeliveredOf(w.given, a) \o KeptOf(w.b) = Numbers(0, n)
  /\ Begins(DeliveredOf(w.given, a))

\* The inductive invariant.  Where a lapse ends the behaviour, less is left of it.
ByteInv ==
  /\ asked \in 0..MaxByteReads /\ provided \in Nat
  /\ WorldOK(ByteWorld, asked)
  /\ bytes.auto = 0 => InTurn(ByteWorld)
  /\ lapses \subseteq {"overtaken", "dropped", "misplaced", "cancelled"}
  /\ "misplaced" \notin lapses => WaitsOK(ByteWorld)
  /\ lapses = {} =>
       /\ InTurn(ByteWorld)
       /\ bytes.state # "readable" => bytes.queue = <<>>
       /\ LaterEmpty(given)
       /\ OrderOK(ByteWorld, asked, provided)

-----------------------------------------------------------------------------
(***************************************************************************)
(* What the methods make of the fields.                                    *)
(***************************************************************************)
LEMMA WorldFields ==
  ASSUME NEW w \in WorldSet
  PROVE  /\ w.b \in FieldSet /\ w.given \in [ByteReads -> AnswerSet] /\ w.holders \in Seq(HolderSet)
         /\ w.pulls \in {"none", "running", "pending", "resolved", "rejected"}
BY DEF WorldSet

LEMMA FieldFields ==
  ASSUME NEW b \in FieldSet
  PROVE  /\ b.state \in {"readable", "closed", "errored"} /\ b.reader \in Nat
         /\ b.requests \in Seq(ByteReads) /\ b.queue \in Seq(Seq(Nat)) /\ b.queueTotalSize \in Nat
         /\ b.closeRequested \in BOOLEAN /\ b.pulling \in BOOLEAN /\ b.pullAgain \in BOOLEAN
         /\ b.pullIntos \in Seq(PullIntoSet) /\ b.request \in RequestSet /\ b.auto \in Nat
BY DEF FieldSet

\* An answer is one whatever it brings.
LEMMA AnswerType ==
  ASSUME NEW st \in {"none", "pending", "value", "done", "rejected"}, NEW data \in Seq(Nat)
  PROVE  Answer(st, data) \in AnswerSet /\ Answer(st, data).st = st /\ Answer(st, data).data = data
BY DEF Answer, AnswerSet

LEMMA SomeBytes == <<>> \in Seq(Nat)
OBVIOUS

\* v is w but for these fields.
SameReader(w, v) ==
  /\ v.b.reader = w.b.reader /\ v.b.auto = w.b.auto /\ v.b.closeRequested = w.b.closeRequested
  /\ v.b.pulling = w.b.pulling /\ v.b.pullAgain = w.b.pullAgain /\ v.pulls = w.pulls
SameQueue(w, v) == v.b.queue = w.b.queue /\ v.b.queueTotalSize = w.b.queueTotalSize

\* AnswerRequests: no request is left, and each read that waited is answered.
LEMMA AnswerRequestsIs ==
  ASSUME NEW w \in WorldSet, NEW st \in {"done", "rejected"}, NEW v, v = AnswerRequests(w, st)
  PROVE  /\ v \in WorldSet /\ SameReader(w, v) /\ SameQueue(w, v)
         /\ v.b.state = w.b.state /\ v.b.requests = <<>> /\ v.b.pullIntos = w.b.pullIntos
         /\ v.b.request = w.b.request /\ v.holders = w.holders
         /\ \A k \in ByteReads : v.given[k] = IF InSeq(k, w.b.requests) THEN Answer(st, <<>>) ELSE w.given[k]
<1>1. PICK b \in FieldSet : b = w.b
  BY WorldFields
<1>2. PICK c : c = [b EXCEPT !.requests = <<>>]
  OBVIOUS
<1>3. PICK f : f = [k \in ByteReads |-> IF InSeq(k, b.requests) THEN Answer(st, <<>>) ELSE w.given[k]]
  OBVIOUS
<1>4. v = [w EXCEPT !.b = c, !.given = f]
  <2>1. f = [k \in ByteReads |-> IF \E j \in 1..Len(w.b.requests) : w.b.requests[j] = k
                                 THEN Answer(st, <<>>) ELSE w.given[k]]
    BY <1>1, <1>3 DEF InSeq
  <2>2. v = [w EXCEPT !.b.requests = <<>>, !.given = f]
    BY <2>1 DEF AnswerRequests
  <2> QED BY <2>2, <1>1, <1>2
<1>5. c \in FieldSet
  <2>1. <<>> \in Seq(ByteReads)
    OBVIOUS
  <2> QED BY <2>1, <1>2 DEF FieldSet
<1>6. f \in [ByteReads -> AnswerSet]
  <2>1. Answer(st, <<>>) \in AnswerSet
    BY AnswerType, SomeBytes
  <2> QED BY <1>3, <2>1, WorldFields
<1>7. v \in WorldSet /\ v.b = c /\ v.given = f /\ v.holders = w.holders /\ v.pulls = w.pulls
  BY <1>4, <1>5, <1>6 DEF WorldSet
<1>8. c.reader = b.reader /\ c.auto = b.auto /\ c.closeRequested = b.closeRequested
      /\ c.pulling = b.pulling /\ c.pullAgain = b.pullAgain /\ c.state = b.state /\ c.requests = <<>>
      /\ c.queue = b.queue /\ c.queueTotalSize = b.queueTotalSize
      /\ c.pullIntos = b.pullIntos /\ c.request = b.request
  BY <1>2 DEF FieldSet
<1>9. \A k \in ByteReads : v.given[k] = IF InSeq(k, w.b.requests) THEN Answer(st, <<>>) ELSE w.given[k]
  BY <1>1, <1>3, <1>7
<1> QED BY <1>1, <1>7, <1>8, <1>9 DEF SameReader, SameQueue

\* SettleClosed: the reader is told, once, and no other is.
LEMMA SettleClosedIs ==
  ASSUME NEW w \in WorldSet, NEW how \in {"resolved", "rejected"}, NEW v, v = SettleClosed(w, how),
         w.b.reader \in 0..Len(w.holders)
  PROVE  /\ v \in WorldSet /\ v.b = w.b /\ v.given = w.given /\ v.pulls = w.pulls
         /\ Len(v.holders) = Len(w.holders)
         /\ \A r \in 1..Len(w.holders) :
              /\ v.holders[r].kind = w.holders[r].kind
              /\ v.holders[r].closed = IF r = w.b.reader /\ w.holders[r].closed = "pending" THEN how
                                       ELSE w.holders[r].closed
<1>1. w.holders \in Seq(HolderSet) /\ \A r \in 1..Len(w.holders) : w.holders[r] \in HolderSet
  BY WorldFields
<1>2. CASE w.b.reader = 0 \/ w.holders[w.b.reader].closed # "pending"
  <2>1. v = w
    BY <1>2 DEF SettleClosed
  <2> QED BY <2>1, <1>1, <1>2
<1>3. CASE ~(w.b.reader = 0 \/ w.holders[w.b.reader].closed # "pending")
  <2>1. PICK r \in 1..Len(w.holders) : r = w.b.reader
    BY <1>3
  <2>2. PICK e \in HolderSet : e = [w.holders[r] EXCEPT !.closed = how]
    <3>1. [w.holders[r] EXCEPT !.closed = how] \in HolderSet
      BY <1>1 DEF HolderSet
    <3> QED BY <3>1
  <2>3. PICK h : h = [w.holders EXCEPT ![r] = e]
    OBVIOUS
  <2>4. v = [w EXCEPT !.holders = h]
    BY <1>3, <2>1, <2>2, <2>3 DEF SettleClosed
  <2>5. h \in Seq(HolderSet) /\ Len(h) = Len(w.holders)
        /\ \A i \in 1..Len(w.holders) : h[i] = IF i = r THEN e ELSE w.holders[i]
    BY <2>2, <2>3, <1>1
  <2>6. v \in WorldSet /\ v.b = w.b /\ v.given = w.given /\ v.pulls = w.pulls /\ v.holders = h
    BY <2>4, <2>5 DEF WorldSet
  <2>7. e.kind = w.holders[r].kind /\ e.closed = how
    BY <2>2, <1>1 DEF HolderSet
  <2> QED BY <2>5, <2>6, <2>7, <2>1, <1>3
<1> QED BY <1>2, <1>3

\* What of its view a read is given.
Filled(p) == SubSeq(p.data, 1, p.filled)

LEMMA FilledType ==
  ASSUME NEW p \in PullIntoSet, p.filled <= Len(p.data)
  PROVE  /\ Filled(p) \in Seq(Nat) /\ Len(Filled(p)) = p.filled
         /\ \A i \in 1..p.filled : Filled(p)[i] = p.data[i]
<1>1. p.data \in Seq(Nat) /\ p.filled \in Nat
  BY DEF PullIntoSet
<1>2. PICK d \in Seq(Nat), n \in Nat : d = p.data /\ n = p.filled
  BY <1>1
<1>3. SubSeq(d, 1, n) \in Seq(Nat) /\ Len(SubSeq(d, 1, n)) = n /\ \A i \in 1..n : SubSeq(d, 1, n)[i] = d[i]
  BY <1>2
<1> QED BY <1>2, <1>3 DEF Filled

\* AnswerPullIntos: no view is left, and each read that waited has what its view held.
LEMMA AnswerPullIntosIs ==
  ASSUME NEW w \in WorldSet, NEW st \in {"done", "rejected"}, NEW v, v = AnswerPullIntos(w, st),
         \A j \in 1..Len(w.b.pullIntos) : w.b.pullIntos[j].filled <= Len(w.b.pullIntos[j].data)
  PROVE  /\ v \in WorldSet /\ SameReader(w, v) /\ SameQueue(w, v)
         /\ v.b.state = w.b.state /\ v.b.requests = w.b.requests /\ v.b.pullIntos = <<>>
         /\ v.b.request.live = FALSE /\ v.holders = w.holders
         /\ \A k \in ByteReads :
              IF HasView(k, w.b.pullIntos)
              THEN /\ v.given[k].st = st
                   /\ \/ v.given[k].data = <<>>
                      \/ st = "done" /\ \E j \in 1..Len(w.b.pullIntos) : v.given[k].data = Filled(w.b.pullIntos[j])
              ELSE v.given[k] = w.given[k]
<1>1. PICK b \in FieldSet : b = w.b
  BY WorldFields
<1>2. PICK vs \in Seq(PullIntoSet) : vs = b.pullIntos
  BY <1>1, FieldFields
<1>3. PICK c : c = [b EXCEPT !.pullIntos = <<>>, !.request.live = FALSE]
  OBVIOUS
<1> DEFINE Of(k) == CHOOSE q \in {vs[j] : j \in 1..Len(vs)} : q.read = k
<1> DEFINE Part(k) == IF st = "done" THEN Filled(Of(k)) ELSE <<>>
<1>4. PICK f : f = [k \in ByteReads |-> IF HasView(k, vs) THEN Answer(st, Part(k)) ELSE w.given[k]]
  OBVIOUS
<1>5. v = [w EXCEPT !.b = c, !.given = f]
  <2>1. f = [k \in ByteReads |->
               IF \E j \in 1..Len(w.b.pullIntos) : w.b.pullIntos[j].read = k
               THEN Answer(st, IF st = "done"
                               THEN LET p == CHOOSE q \in {w.b.pullIntos[j] : j \in 1..Len(w.b.pullIntos)} : q.read = k
                                    IN  SubSeq(p.data, 1, p.filled)
                               ELSE <<>>)
               ELSE w.given[k]]
    BY <1>1, <1>2, <1>4 DEF HasView, Filled
  <2>2. v = [w EXCEPT !.b.pullIntos = <<>>, !.b.request.live = FALSE, !.given = f]
    BY <2>1 DEF AnswerPullIntos
  <2> QED BY <2>2, <1>1, <1>3 DEF WorldSet, FieldSet
<1>6. c \in FieldSet /\ c.request.live = FALSE
  <2>1. <<>> \in Seq(PullIntoSet)
    OBVIOUS
  <2> QED BY <2>1, <1>3 DEF FieldSet, RequestSet
<1>7. ASSUME NEW k \in ByteReads, HasView(k, vs)
      PROVE  /\ Part(k) \in Seq(Nat)
             /\ Part(k) = <<>> \/ (st = "done" /\ \E j \in 1..Len(vs) : Part(k) = Filled(vs[j]))
  <2>1. PICK j \in 1..Len(vs) : vs[j].read = k
    BY <1>7 DEF HasView
  <2>2. \E q \in {vs[i] : i \in 1..Len(vs)} : q.read = k
    BY <2>1
  <2>3. Of(k) \in {vs[i] : i \in 1..Len(vs)}
    BY <2>2
  <2>4. PICK i \in 1..Len(vs) : Of(k) = vs[i]
    BY <2>3
  <2>5. Filled(vs[i]) \in Seq(Nat)
    <3>1. vs[i] \in PullIntoSet /\ vs[i].filled <= Len(vs[i].data)
      BY <1>1, <1>2
    <3> QED BY <3>1, FilledType
  <2> HIDE DEF Of
  <2> QED BY <2>4, <2>5, SomeBytes
<1> HIDE DEF Part
<1>8. f \in [ByteReads -> AnswerSet]
  <2>1. ASSUME NEW k \in ByteReads PROVE f[k] \in AnswerSet
    <3>1. CASE HasView(k, vs)
      BY <3>1, <1>4, <1>7, AnswerType
    <3>2. CASE ~HasView(k, vs)
      BY <3>2, <1>4, WorldFields
    <3> QED BY <3>1, <3>2
  <2> QED BY <2>1, <1>4
<1>9. v \in WorldSet /\ v.b = c /\ v.given = f /\ v.holders = w.holders /\ v.pulls = w.pulls
  BY <1>5, <1>6, <1>8 DEF WorldSet
<1>10. c.reader = b.reader /\ c.auto = b.auto /\ c.closeRequested = b.closeRequested
       /\ c.pulling = b.pulling /\ c.pullAgain = b.pullAgain /\ c.state = b.state /\ c.requests = b.requests
       /\ c.queue = b.queue /\ c.queueTotalSize = b.queueTotalSize /\ c.pullIntos = <<>>
  BY <1>3 DEF FieldSet
<1>11. ASSUME NEW k \in ByteReads
       PROVE  IF HasView(k, vs)
              THEN /\ v.given[k].st = st
                   /\ \/ v.given[k].data = <<>>
                      \/ st = "done" /\ \E j \in 1..Len(vs) : v.given[k].data = Filled(vs[j])
              ELSE v.given[k] = w.given[k]
  <2>1. CASE HasView(k, vs)
    <3>1. v.given[k] = Answer(st, Part(k))
      BY <2>1, <1>9, <1>4
    <3>2. Answer(st, Part(k)).st = st /\ Answer(st, Part(k)).data = Part(k)
      BY DEF Answer
    <3> QED BY <3>1, <3>2, <2>1, <1>7
  <2>2. CASE ~HasView(k, vs)
    BY <2>2, <1>9, <1>4
  <2> QED BY <2>1, <2>2
<1> QED BY <1>1, <1>2, <1>6, <1>9, <1>10, <1>11 DEF SameReader, SameQueue

-----------------------------------------------------------------------------
(***************************************************************************)
(* What ends the stream: error(), close() and cancel() answer the reads that*)
(* wait, tell the reader and leave nothing behind.                         *)
(***************************************************************************)
\* What the reads that waited in u are given at its end.
Answered(u, g, st) ==
  \A k \in ByteReads :
    IF HasView(k, u.b.pullIntos)
    THEN /\ g[k].st = st
         /\ \/ g[k].data = <<>>
            \/ st = "done" /\ \E j \in 1..Len(u.b.pullIntos) : g[k].data = Filled(u.b.pullIntos[j])
    ELSE IF InSeq(k, u.b.requests) THEN g[k].st = st /\ g[k].data = <<>> ELSE g[k] = u.given[k]
SameHolders(hs, is, r, how) ==
  /\ Len(is) = Len(hs)
  /\ \A i \in 1..Len(hs) :
       /\ is[i].kind = hs[i].kind
       /\ is[i].closed = IF i = r /\ hs[i].closed = "pending" THEN how ELSE hs[i].closed
Ended(u, v, st, how) ==
  /\ v \in WorldSet /\ SameReader(u, v) /\ SameQueue(u, v)
  /\ v.b.state = u.b.state /\ v.b.requests = <<>> /\ v.b.pullIntos = <<>> /\ v.b.request.live = FALSE
  /\ SameHolders(u.holders, v.holders, u.b.reader, how)
  /\ Answered(u, v.given, st)

\* Everyone is told of the end.
LEMMA EndIs ==
  ASSUME NEW u \in WorldSet, NEW st \in {"done", "rejected"}, NEW how \in {"resolved", "rejected"},
         NEW v, v = AnswerPullIntos(SettleClosed(AnswerRequests(u, st), how), st),
         u.b.reader \in 0..Len(u.holders),
         \A j \in 1..Len(u.b.pullIntos) : u.b.pullIntos[j].filled <= Len(u.b.pullIntos[j].data)
  PROVE  Ended(u, v, st, how)
<1>1. PICK x : x = AnswerRequests(u, st)
  OBVIOUS
<1>2. /\ x \in WorldSet /\ SameReader(u, x) /\ SameQueue(u, x)
      /\ x.b.state = u.b.state /\ x.b.requests = <<>> /\ x.b.pullIntos = u.b.pullIntos
      /\ x.b.request = u.b.request /\ x.holders = u.holders
      /\ \A k \in ByteReads : x.given[k] = IF InSeq(k, u.b.requests) THEN Answer(st, <<>>) ELSE u.given[k]
  BY <1>1, AnswerRequestsIs
<1>3. x.b.reader \in 0..Len(x.holders) /\ x.b.reader = u.b.reader
  BY <1>2 DEF SameReader
<1>4. PICK y : y = SettleClosed(x, how)
  OBVIOUS
<1>5. /\ y \in WorldSet /\ y.b = x.b /\ y.given = x.given /\ y.pulls = x.pulls
      /\ Len(y.holders) = Len(x.holders)
      /\ \A r \in 1..Len(x.holders) :
           /\ y.holders[r].kind = x.holders[r].kind
           /\ y.holders[r].closed = IF r = x.b.reader /\ x.holders[r].closed = "pending" THEN how
                                    ELSE x.holders[r].closed
  BY <1>2, <1>3, <1>4, SettleClosedIs, SMTT(60)
<1>6. \A j \in 1..Len(y.b.pullIntos) : y.b.pullIntos[j].filled <= Len(y.b.pullIntos[j].data)
  BY <1>2, <1>5
<1>7. v = AnswerPullIntos(y, st)
  BY <1>1, <1>4
<1>8. /\ v \in WorldSet /\ SameReader(y, v) /\ SameQueue(y, v)
      /\ v.b.state = y.b.state /\ v.b.requests = y.b.requests /\ v.b.pullIntos = <<>>
      /\ v.b.request.live = FALSE /\ v.holders = y.holders
      /\ \A k \in ByteReads :
           IF HasView(k, y.b.pullIntos)
           THEN /\ v.given[k].st = st
                /\ \/ v.given[k].data = <<>>
                   \/ st = "done" /\ \E j \in 1..Len(y.b.pullIntos) : v.given[k].data = Filled(y.b.pullIntos[j])
           ELSE v.given[k] = y.given[k]
  BY <1>5, <1>6, <1>7, AnswerPullIntosIs, ZenonT(60)
<1>9. SameReader(u, v) /\ SameQueue(u, v)
  BY <1>2, <1>5, <1>8 DEF SameReader, SameQueue
<1>10. SameHolders(u.holders, v.holders, u.b.reader, how)
  BY <1>2, <1>3, <1>5, <1>8 DEF SameHolders
<1>11. ASSUME NEW k \in ByteReads
       PROVE  IF HasView(k, u.b.pullIntos)
              THEN /\ v.given[k].st = st
                   /\ \/ v.given[k].data = <<>>
                      \/ st = "done" /\ \E j \in 1..Len(u.b.pullIntos) : v.given[k].data = Filled(u.b.pullIntos[j])
              ELSE IF InSeq(k, u.b.requests) THEN v.given[k].st = st /\ v.given[k].data = <<>>
              ELSE v.given[k] = u.given[k]
  <2>1. y.b.pullIntos = u.b.pullIntos /\ y.given[k] = IF InSeq(k, u.b.requests) THEN Answer(st, <<>>) ELSE u.given[k]
    BY <1>2, <1>5
  <2>2. Answer(st, <<>>).st = st /\ Answer(st, <<>>).data = <<>>
    BY DEF Answer
  <2>3. CASE HasView(k, u.b.pullIntos)
    BY <2>1, <2>3, <1>8
  <2>4. CASE ~HasView(k, u.b.pullIntos)
    <3>1. v.given[k] = y.given[k]
      BY <2>1, <2>4, <1>8
    <3> QED BY <3>1, <2>1, <2>2, <2>4
  <2> QED BY <2>3, <2>4
<1>12. Answered(u, v.given, st)
  BY <1>11 DEF Answered
<1> QED BY <1>2, <1>5, <1>8, <1>9, <1>10, <1>12 DEF Ended

\* The world at its end, before anyone is told.
Ending(u, a) ==
  /\ u \in WorldSet /\ u.b.state # "readable"
  /\ QueueOK(u.b.queue, u.b.queueTotalSize)
  /\ ViewsOK(u.b.pullIntos, a)
  /\ u.b.reader \in 0..Len(u.holders)
  /\ u.b.reader # 0 => u.holders[u.b.reader].closed = "pending"
  /\ GivenOK(u.given, a) /\ WaitsOK(u)
  /\ u.b.pulling = TRUE <=> u.pulls # "none"

\* A stream whose reads are all answered keeps what is known of it.
LEMMA EndedOK ==
  ASSUME NEW u, NEW v, NEW a \in Nat, NEW st \in {"done", "rejected"}, NEW how,
         Ending(u, a), how = ClosedSays(u.b.state), Ended(u, v, st, how)
  PROVE  WorldOK(v, a) /\ WaitsOK(v) /\ InTurn(v)
<1>1. QueueOK(v.b.queue, v.b.queueTotalSize)
  BY DEF Ending, Ended, SameQueue
<1>2. v.b.requests = <<>> /\ v.b.pullIntos = <<>> /\ v.b.request.live = FALSE /\ Len(<<>>) = 0
  BY DEF Ended
<1>3. ViewsOK(v.b.pullIntos, a) /\ RequestOK(v.b.request, v.b.pullIntos) /\ Rising(v.b.requests)
  BY <1>2 DEF ViewsOK, RequestOK, Rising
<1>4. LockOK(v.b, v.holders)
  <2>1. v.b.reader \in 0..Len(v.holders)
    BY DEF Ending, Ended, SameReader, SameHolders
  <2> QED BY <2>1, <1>2 DEF LockOK
<1>5. ToldOK(v.b, v.holders)
  <2>1. SUFFICES ASSUME v.b.reader # 0 PROVE v.holders[v.b.reader].closed = ClosedSays(v.b.state)
    BY DEF ToldOK
  <2>2. v.b.reader = u.b.reader /\ v.b.state = u.b.state /\ u.b.reader \in 1..Len(u.holders)
    BY <2>1 DEF Ending, Ended, SameReader
  <2>3. v.holders[u.b.reader].closed = IF u.holders[u.b.reader].closed = "pending" THEN how
                                       ELSE u.holders[u.b.reader].closed
    BY <2>2 DEF Ended, SameHolders
  <2> QED BY <2>1, <2>2, <2>3 DEF Ending
<1>6. ASSUME NEW k \in ByteReads
      PROVE  (v.given[k].st = "none" <=> k > a) /\ v.given[k].st # "pending"
  <2>1. (u.given[k].st = "none" <=> k > a)
        /\ (u.given[k].st = "pending" <=> InSeq(k, u.b.requests) \/ HasView(k, u.b.pullIntos))
    BY DEF Ending, GivenOK, WaitsOK
  <2>2. CASE HasView(k, u.b.pullIntos)
    <3>1. v.given[k].st = st /\ u.given[k].st = "pending"
      BY <2>2, <2>1 DEF Ended, Answered
    <3> QED BY <3>1, <2>1
  <2>3. CASE ~HasView(k, u.b.pullIntos) /\ InSeq(k, u.b.requests)
    <3>1. v.given[k].st = st /\ u.given[k].st = "pending"
      BY <2>3, <2>1 DEF Ended, Answered
    <3> QED BY <3>1, <2>1
  <2>4. CASE ~HasView(k, u.b.pullIntos) /\ ~InSeq(k, u.b.requests)
    <3>1. v.given[k] = u.given[k]
      BY <2>4 DEF Ended, Answered
    <3> QED BY <3>1, <2>1, <2>4
  <2> QED BY <2>2, <2>3, <2>4
<1>7. GivenOK(v.given, a)
  BY <1>6 DEF GivenOK
<1>8. WaitsOK(v)
  <2>1. ASSUME NEW k \in ByteReads PROVE ~InSeq(k, v.b.requests) /\ ~HasView(k, v.b.pullIntos)
    BY <1>2 DEF InSeq, HasView
  <2> QED BY <2>1, <1>6 DEF WaitsOK
<1>9. v.b.pulling = TRUE <=> v.pulls # "none"
  BY DEF Ending, Ended, SameReader
<1>10. InTurn(v)
  BY <1>2 DEF InTurn, Overtaken, SomeoneWaits
<1>11. v \in WorldSet
  BY DEF Ended
<1>12. WorldOK(v, a)
  BY <1>1, <1>3, <1>4, <1>5, <1>7, <1>9, <1>11 DEF WorldOK
<1> QED BY <1>8, <1>10, <1>12

LEMMA FilledNothing ==
  ASSUME NEW p \in PullIntoSet, p.filled = 0 PROVE Filled(p) = <<>>
BY DEF Filled, PullIntoSet

\* Reads that had nothing get nothing, unless a view is filled in part.
LEMMA EndedGives ==
  ASSUME NEW u, NEW v, NEW a \in Nat, NEW st \in {"done", "rejected"}, NEW how,
         Ending(u, a), Ended(u, v, st, how), LaterEmpty(u.given),
         st = "rejected" \/ ~Partly(u)
  PROVE  LaterEmpty(v.given) /\ \A k \in ByteReads : v.given[k].data = u.given[k].data
<1>1. ASSUME NEW k \in ByteReads PROVE v.given[k].data = u.given[k].data
  <2>1. u.given[k].st = "pending" <=> InSeq(k, u.b.requests) \/ HasView(k, u.b.pullIntos)
    BY DEF Ending, WaitsOK
  <2>2. u.given[k].st = "pending" => u.given[k].data = <<>>
    BY DEF LaterEmpty, ByteReads
  <2>3. CASE HasView(k, u.b.pullIntos)
    <3>1. \/ v.given[k].data = <<>>
          \/ st = "done" /\ \E j \in 1..Len(u.b.pullIntos) : v.given[k].data = Filled(u.b.pullIntos[j])
      BY <2>3 DEF Ended, Answered
    <3>2. ASSUME st = "done", NEW j \in 1..Len(u.b.pullIntos) PROVE Filled(u.b.pullIntos[j]) = <<>>
      <4>1. u.b.pullIntos \in Seq(PullIntoSet)
        BY WorldFields, FieldFields DEF Ending
      <4>2. u.b.pullIntos[j] \in PullIntoSet
        BY <4>1
      <4>3. ~(u.b.pullIntos[j].filled > 0)
        BY <3>2 DEF Partly
      <4>4. u.b.pullIntos[j].filled = 0
        BY <4>2, <4>3 DEF PullIntoSet
      <4> QED BY <4>2, <4>4, FilledNothing
    <3> QED BY <2>1, <2>2, <2>3, <3>1, <3>2
  <2>4. CASE ~HasView(k, u.b.pullIntos) /\ InSeq(k, u.b.requests)
    <3>1. v.given[k].data = <<>>
      BY <2>4 DEF Ended, Answered
    <3> QED BY <3>1, <2>1, <2>2, <2>4
  <2>5. CASE ~HasView(k, u.b.pullIntos) /\ ~InSeq(k, u.b.requests)
    BY <2>5 DEF Ended, Answered
  <2> QED BY <2>3, <2>4, <2>5
<1>2. ASSUME NEW k \in ByteReads, v.given[k].st \in {"none", "pending"}
      PROVE  u.given[k].st \in {"none", "pending"}
  BY <1>2 DEF Ended, Answered
<1>3. LaterEmpty(v.given)
  BY <1>1, <1>2 DEF LaterEmpty
<1> QED BY <1>1, <1>3

\* The same answers are the same bytes.
LEMMA SameDelivered ==
  ASSUME NEW g, NEW h, NEW a \in Nat, a <= MaxByteReads, \A k \in ByteReads : g[k].data = h[k].data
  PROVE  DeliveredOf(g, a) = DeliveredOf(h, a)
<1>1. \A k \in 1..a : k \in ByteReads
  BY ByteAssumption DEF ByteReads
<1>2. [k \in 1..a |-> g[k].data] = [k \in 1..a |-> h[k].data]
  BY <1>1
<1> QED BY <1>2 DEF DeliveredOf

\* u is w in another state, and perhaps without its queue.
Turned(w, u, s) ==
  /\ u \in WorldSet /\ SameReader(w, u) /\ u.b.state = s
  /\ u.b.requests = w.b.requests /\ u.b.pullIntos = w.b.pullIntos
  /\ u.holders = w.holders /\ u.given = w.given

\* The stream has another state.
LEMMA TurnedIs ==
  ASSUME NEW w \in WorldSet, NEW s \in {"readable", "closed", "errored"}
  PROVE  /\ Turned(w, [w EXCEPT !.b.state = s], s) /\ SameQueue(w, [w EXCEPT !.b.state = s])
         /\ Turned(w, [NoBytes(w) EXCEPT !.b.state = s], s)
         /\ [NoBytes(w) EXCEPT !.b.state = s].b.queue = <<>>
         /\ [NoBytes(w) EXCEPT !.b.state = s].b.queueTotalSize = 0
<1>1. PICK b \in FieldSet : b = w.b
  BY WorldFields
<1>2. PICK c : c = [b EXCEPT !.state = s]
  OBVIOUS
<1>3. PICK d : d = [b EXCEPT !.queue = <<>>, !.queueTotalSize = 0, !.state = s]
  OBVIOUS
<1>4. c \in FieldSet
  BY <1>2 DEF FieldSet
<1>5. d \in FieldSet
  <2>1. <<>> \in Seq(Seq(Nat)) /\ 0 \in Nat
    OBVIOUS
  <2> QED BY <1>3, <2>1 DEF FieldSet
<1>6. PICK u : u = [w EXCEPT !.b.state = s]
  OBVIOUS
<1>7. PICK v : v = [NoBytes(w) EXCEPT !.b.state = s]
  OBVIOUS
<1>8. u = [w EXCEPT !.b = c]
  BY <1>1, <1>2, <1>6
<1>9. v = [w EXCEPT !.b = d]
  <2>1. v = [w EXCEPT !.b.queue = <<>>, !.b.queueTotalSize = 0, !.b.state = s]
    BY <1>7 DEF NoBytes, WorldSet
  <2> QED BY <2>1, <1>1, <1>3 DEF WorldSet, FieldSet
<1>10. u \in WorldSet /\ u.b = c /\ u.given = w.given /\ u.holders = w.holders /\ u.pulls = w.pulls
  BY <1>8, <1>4 DEF WorldSet
<1>11. v \in WorldSet /\ v.b = d /\ v.given = w.given /\ v.holders = w.holders /\ v.pulls = w.pulls
  BY <1>9, <1>5 DEF WorldSet
<1>12. c.reader = b.reader /\ c.auto = b.auto /\ c.closeRequested = b.closeRequested
       /\ c.pulling = b.pulling /\ c.pullAgain = b.pullAgain /\ c.state = s /\ c.requests = b.requests
       /\ c.queue = b.queue /\ c.queueTotalSize = b.queueTotalSize /\ c.pullIntos = b.pullIntos
  BY <1>2 DEF FieldSet
<1>13. d.reader = b.reader /\ d.auto = b.auto /\ d.closeRequested = b.closeRequested
       /\ d.pulling = b.pulling /\ d.pullAgain = b.pullAgain /\ d.state = s /\ d.requests = b.requests
       /\ d.queue = <<>> /\ d.queueTotalSize = 0 /\ d.pullIntos = b.pullIntos
  BY <1>3 DEF FieldSet
<1>14. Turned(w, u, s) /\ SameQueue(w, u)
  BY <1>1, <1>10, <1>12 DEF Turned, SameReader, SameQueue
<1>15. Turned(w, v, s) /\ v.b.queue = <<>> /\ v.b.queueTotalSize = 0
  BY <1>1, <1>11, <1>13 DEF Turned, SameReader
<1> QED BY <1>6, <1>7, <1>14, <1>15

LEMMA QueueNothing == QueueOK(<<>>, 0)
<1>1. Len(<<>>) = 0
  OBVIOUS
<1> QED BY <1>1, ConcatNothing DEF QueueOK

LEMMA TurnedEnds ==
  ASSUME NEW w, NEW u, NEW a, NEW s \in {"closed", "errored"},
         WorldOK(w, a), WaitsOK(w), w.b.state = "readable",
         Turned(w, u, s), QueueOK(u.b.queue, u.b.queueTotalSize)
  PROVE  Ending(u, a)
<1>1. u \in WorldSet /\ u.b.state # "readable" /\ QueueOK(u.b.queue, u.b.queueTotalSize)
  BY DEF Turned
<1>2. ViewsOK(u.b.pullIntos, a) /\ GivenOK(u.given, a) /\ WaitsOK(u)
  BY DEF WorldOK, Turned, WaitsOK
<1>3. u.b.reader \in 0..Len(u.holders)
  BY DEF WorldOK, LockOK, Turned, SameReader
<1>4. u.b.reader # 0 => u.holders[u.b.reader].closed = "pending"
  BY DEF WorldOK, ToldOK, ClosedSays, Turned, SameReader
<1>5. u.b.pulling = TRUE <=> u.pulls # "none"
  BY DEF WorldOK, Turned, SameReader
<1> QED BY <1>1, <1>2, <1>3, <1>4, <1>5 DEF Ending

LEMMA ViewsWithin ==
  ASSUME NEW vs \in Seq(PullIntoSet), NEW a, ViewsOK(vs, a), NEW j \in 1..Len(vs)
  PROVE  vs[j].filled <= Len(vs[j].data)
<1>1. vs[j] \in PullIntoSet /\ vs[j].filled < Len(vs[j].data)
  BY DEF ViewsOK
<1>2. vs[j].filled \in Nat /\ vs[j].data \in Seq(Nat)
  BY <1>1 DEF PullIntoSet
<1> QED BY <1>1, <1>2

\* Everything the three ends have in common.
LEMMA EndsWell ==
  ASSUME NEW w, NEW u, NEW v, NEW a \in Nat, NEW s \in {"closed", "errored"},
         NEW st \in {"done", "rejected"}, NEW how \in {"resolved", "rejected"},
         WorldOK(w, a), WaitsOK(w), w.b.state = "readable",
         Turned(w, u, s), QueueOK(u.b.queue, u.b.queueTotalSize), how = ClosedSays(s),
         v = AnswerPullIntos(SettleClosed(AnswerRequests(u, st), how), st)
  PROVE  /\ Ending(u, a) /\ Ended(u, v, st, how)
         /\ WorldOK(v, a) /\ WaitsOK(v) /\ InTurn(v) /\ v.b.state = s /\ v.b.queue = u.b.queue
         /\ v.b.pullIntos = <<>>
<1>1. Ending(u, a) /\ u.b.state = s
  BY TurnedEnds DEF Turned
<1>2. u \in WorldSet /\ u.b.reader \in 0..Len(u.holders)
  BY <1>1 DEF Ending
<1>3. \A j \in 1..Len(u.b.pullIntos) : u.b.pullIntos[j].filled <= Len(u.b.pullIntos[j].data)
  <2>1. u.b.pullIntos \in Seq(PullIntoSet)
    BY <1>2, WorldFields, FieldFields
  <2>2. ViewsOK(u.b.pullIntos, a)
    BY <1>1 DEF Ending
  <2> QED BY <2>1, <2>2, ViewsWithin
<1>4. Ended(u, v, st, how)
  BY <1>2, <1>3, EndIs
<1>5. WorldOK(v, a) /\ WaitsOK(v) /\ InTurn(v)
  BY <1>1, <1>4, EndedOK
<1> QED BY <1>1, <1>4, <1>5 DEF Ended, SameQueue

\* controller.error() of an open stream.
LEMMA ByteErrorEnds ==
  ASSUME NEW w, NEW a \in Nat, NEW v, v = ByteError(w),
         WorldOK(w, a), WaitsOK(w), w.b.state = "readable"
  PROVE  /\ WorldOK(v, a) /\ WaitsOK(v) /\ InTurn(v) /\ v.b.state = "errored" /\ v.b.queue = <<>>
         /\ LaterEmpty(w.given) =>
              LaterEmpty(v.given) /\ \A k \in ByteReads : v.given[k].data = w.given[k].data
<1>1. w \in WorldSet
  BY DEF WorldOK
<1>2. PICK u : u = [NoBytes(w) EXCEPT !.b.state = "errored"]
  OBVIOUS
<1>3. Turned(w, u, "errored") /\ u.b.queue = <<>> /\ u.b.queueTotalSize = 0
  BY <1>1, <1>2, TurnedIs
<1>4. v = AnswerPullIntos(SettleClosed(AnswerRequests(u, "rejected"), "rejected"), "rejected")
  BY <1>2 DEF ByteError
<1>5. ClosedSays("errored") = "rejected"
  BY DEF ClosedSays
<1>6. QueueOK(u.b.queue, u.b.queueTotalSize)
  BY <1>3, QueueNothing
<1>7. /\ Ending(u, a) /\ Ended(u, v, "rejected", "rejected")
      /\ WorldOK(v, a) /\ WaitsOK(v) /\ InTurn(v) /\ v.b.state = "errored" /\ v.b.queue = u.b.queue
  BY <1>3, <1>4, <1>5, <1>6, EndsWell
<1>8. ASSUME LaterEmpty(w.given)
      PROVE  LaterEmpty(v.given) /\ \A k \in ByteReads : v.given[k].data = w.given[k].data
  <2>1. LaterEmpty(u.given) /\ u.given = w.given
    BY <1>3, <1>8 DEF Turned
  <2>2. LaterEmpty(v.given) /\ \A k \in ByteReads : v.given[k].data = u.given[k].data
    BY <2>1, <1>7, EndedGives
  <2> QED BY <2>1, <2>2
<1> QED BY <1>3, <1>7, <1>8

LEMMA ByteErrorAgain ==
  ASSUME NEW w, w.b.state # "readable" PROVE ByteError(w) = w
BY DEF ByteError

\* readableStreamCancel of an open stream.
LEMMA CancelEnds ==
  ASSUME NEW w, NEW a \in Nat, NEW v,
         v = AnswerPullIntos(SettleClosed(AnswerRequests(
               [NoBytes(w) EXCEPT !.b.state = "closed"], "done"), "resolved"), "done"),
         WorldOK(w, a), WaitsOK(w), w.b.state = "readable"
  PROVE  WorldOK(v, a) /\ WaitsOK(v) /\ InTurn(v)
<1>1. w \in WorldSet
  BY DEF WorldOK
<1>2. PICK u : u = [NoBytes(w) EXCEPT !.b.state = "closed"]
  OBVIOUS
<1>3. Turned(w, u, "closed") /\ u.b.queue = <<>> /\ u.b.queueTotalSize = 0
  BY <1>1, <1>2, TurnedIs
<1>4. v = AnswerPullIntos(SettleClosed(AnswerRequests(u, "done"), "resolved"), "done")
  BY <1>2
<1>5. ClosedSays("closed") = "resolved"
  BY DEF ClosedSays
<1>6. QueueOK(u.b.queue, u.b.queueTotalSize)
  BY <1>3, QueueNothing
<1> QED BY <1>3, <1>4, <1>5, <1>6, EndsWell

\* _finishClose of an open stream: what it had is given to the reads.
LEMMA FinishCloseEnds ==
  ASSUME NEW w, NEW a \in Nat, NEW v, v = ByteFinishClose(w), a <= MaxByteReads,
         WorldOK(w, a), WaitsOK(w), w.b.state = "readable"
  PROVE  /\ WorldOK(v, a) /\ WaitsOK(v) /\ InTurn(v) /\ v.b.state = "closed" /\ v.b.queue = w.b.queue
         /\ v.b.pullIntos = <<>>
         /\ LaterEmpty(w.given) /\ ~Partly(w) =>
              LaterEmpty(v.given) /\ DeliveredOf(v.given, a) = DeliveredOf(w.given, a)
<1>1. w \in WorldSet
  BY DEF WorldOK
<1>2. PICK u : u = [w EXCEPT !.b.state = "closed"]
  OBVIOUS
<1>3. Turned(w, u, "closed") /\ SameQueue(w, u)
  BY <1>1, <1>2, TurnedIs
<1>4. v = AnswerPullIntos(SettleClosed(AnswerRequests(u, "done"), "resolved"), "done")
  BY <1>2 DEF ByteFinishClose
<1>5. ClosedSays("closed") = "resolved"
  BY DEF ClosedSays
<1>6. QueueOK(u.b.queue, u.b.queueTotalSize)
  BY <1>3 DEF SameQueue, WorldOK
<1>7. /\ Ending(u, a) /\ Ended(u, v, "done", "resolved")
      /\ WorldOK(v, a) /\ WaitsOK(v) /\ InTurn(v) /\ v.b.state = "closed" /\ v.b.queue = u.b.queue
      /\ v.b.pullIntos = <<>>
  BY <1>3, <1>4, <1>5, <1>6, EndsWell
<1>8. ASSUME LaterEmpty(w.given), ~Partly(w)
      PROVE  LaterEmpty(v.given) /\ DeliveredOf(v.given, a) = DeliveredOf(w.given, a)
  <2>1. LaterEmpty(u.given) /\ ~Partly(u) /\ u.given = w.given
    BY <1>3, <1>8 DEF Turned, Partly
  <2>2. LaterEmpty(v.given) /\ \A k \in ByteReads : v.given[k].data = u.given[k].data
    BY <2>1, <1>7, EndedGives
  <2> QED BY <2>1, <2>2, SameDelivered
<1> QED BY <1>3, <1>7, <1>8 DEF SameQueue

-----------------------------------------------------------------------------
(***************************************************************************)
(* _callPullIfNeeded, which allocates a buffer when it calls pull().       *)
(***************************************************************************)
\* A view that is new holds nothing.
LEMMA PullIntoType ==
  ASSUME NEW k \in Nat, NEW n \in Nat
  PROVE  /\ PullInto(k, n) \in PullIntoSet /\ PullInto(k, n).read = k /\ PullInto(k, n).filled = 0
         /\ Len(PullInto(k, n).data) = n
<1>1. [i \in 1..n |-> 0] \in Seq(Nat) /\ Len([i \in 1..n |-> 0]) = n
  OBVIOUS
<1>2. PICK z \in Seq(Nat) : z = [i \in 1..n |-> 0]
  BY <1>1
<1>3. PullInto(k, n) = [read |-> k, data |-> z, filled |-> 0]
  BY <1>2 DEF PullInto
<1> QED BY <1>1, <1>2, <1>3 DEF PullIntoSet

\* Nothing changes but that pull() is called, or is to be called again.
SameRest(w, v) ==
  /\ v \in WorldSet /\ v.given = w.given /\ v.holders = w.holders
  /\ v.b.state = w.b.state /\ v.b.reader = w.b.reader /\ v.b.requests = w.b.requests
  /\ SameQueue(w, v) /\ v.b.request = w.b.request /\ v.b.auto = w.b.auto
Calls(w, v) ==
  /\ SameRest(w, v)
  /\ (w.b.pulling = TRUE <=> w.pulls # "none") => (v.b.pulling = TRUE <=> v.pulls # "none")
  /\ \/ v.b.pullIntos = w.b.pullIntos
     \/ /\ w.b.pullIntos = <<>> /\ w.b.auto > 0 /\ w.b.state = "readable"
        /\ v.b.pullIntos = <<PullInto(0, w.b.auto)>>

\* _callPullIfNeeded sets flags, and may allocate a buffer.
LEMMA CallIs ==
  ASSUME NEW w \in WorldSet, NEW v, v = CallBytePullIfNeeded(w) PROVE Calls(w, v)
<1>1. PICK b \in FieldSet : b = w.b
  BY WorldFields
<1>2. CASE ~ByteShouldPull(w)
  BY <1>2 DEF CallBytePullIfNeeded, Calls, SameRest, SameQueue
<1>3. CASE ByteShouldPull(w) /\ w.b.pulling
  <2>1. PICK c : c = [b EXCEPT !.pullAgain = TRUE]
    OBVIOUS
  <2>2. v = [w EXCEPT !.b = c]
    BY <1>3, <1>1, <2>1 DEF CallBytePullIfNeeded
  <2>3. c \in FieldSet
    BY <2>1 DEF FieldSet
  <2>4. v \in WorldSet /\ v.b = c /\ v.given = w.given /\ v.holders = w.holders /\ v.pulls = w.pulls
    BY <2>2, <2>3 DEF WorldSet
  <2>5. c.reader = b.reader /\ c.auto = b.auto
        /\ c.pulling = b.pulling /\ c.state = b.state /\ c.requests = b.requests
        /\ c.queue = b.queue /\ c.queueTotalSize = b.queueTotalSize
        /\ c.pullIntos = b.pullIntos /\ c.request = b.request
    BY <2>1 DEF FieldSet
  <2> QED BY <1>1, <2>4, <2>5 DEF Calls, SameRest, SameQueue
<1>4. CASE ByteShouldPull(w) /\ ~w.b.pulling
  <2>0. PICK vs \in Seq(PullIntoSet) :
             vs = IF b.pullIntos = <<>> /\ b.auto > 0 THEN <<PullInto(0, b.auto)>> ELSE b.pullIntos
    <3>1. b.auto \in Nat /\ b.pullIntos \in Seq(PullIntoSet)
      BY FieldFields
    <3>2. PullInto(0, b.auto) \in PullIntoSet
      BY <3>1, PullIntoType
    <3>3. <<PullInto(0, b.auto)>> \in Seq(PullIntoSet)
      BY <3>2
    <3> QED BY <3>1, <3>3
  <2>1. PICK c : c = [b EXCEPT !.pulling = TRUE, !.pullIntos = vs]
    OBVIOUS
  <2>2. v = [w EXCEPT !.b = c, !.pulls = "running"]
    <3>1. v = [w EXCEPT !.b.pulling = TRUE, !.pulls = "running",
                        !.b.pullIntos = IF w.b.pullIntos = <<>> /\ w.b.auto > 0
                                        THEN <<PullInto(0, w.b.auto)>> ELSE w.b.pullIntos]
      BY <1>4 DEF CallBytePullIfNeeded, WorldSet, FieldSet
    <3> QED BY <3>1, <1>1, <2>0, <2>1 DEF WorldSet, FieldSet
  <2>3. c \in FieldSet
    BY <2>1, <2>0 DEF FieldSet
  <2>4. v \in WorldSet /\ v.b = c /\ v.given = w.given /\ v.holders = w.holders /\ v.pulls = "running"
    BY <2>2, <2>3 DEF WorldSet
  <2>5. c.reader = b.reader /\ c.auto = b.auto
        /\ c.pulling = TRUE /\ c.state = b.state /\ c.requests = b.requests
        /\ c.queue = b.queue /\ c.queueTotalSize = b.queueTotalSize
        /\ c.pullIntos = vs /\ c.request = b.request
    BY <2>1 DEF FieldSet
  <2>6. b.state = "readable"
    BY <1>4, <1>1 DEF ByteShouldPull
  <2>7. SameRest(w, v)
    BY <1>1, <2>4, <2>5 DEF SameRest, SameQueue
  <2>8. \/ v.b.pullIntos = w.b.pullIntos
        \/ /\ w.b.pullIntos = <<>> /\ w.b.auto > 0 /\ w.b.state = "readable"
           /\ v.b.pullIntos = <<PullInto(0, w.b.auto)>>
    BY <1>1, <2>0, <2>4, <2>5, <2>6
  <2>9. v.b.pulling = TRUE /\ v.pulls # "none"
    BY <2>4, <2>5
  <2> QED BY <2>7, <2>8, <2>9 DEF Calls
<1> QED BY <1>2, <1>3, <1>4

LEMMA HeldNothing == Held(<<>>) = <<>>
<1>1. [j \in 1..Len(<<>>) |-> SubSeq(<<>>[j].data, 1, <<>>[j].filled)] = <<>>
  OBVIOUS
<1> QED BY <1>1, ConcatNothing DEF Held

\* The parts that are held are bytes.
LEMMA HeldType ==
  ASSUME NEW vs \in Seq(PullIntoSet), NEW a, ViewsOK(vs, a)
  PROVE  /\ [j \in 1..Len(vs) |-> Filled(vs[j])] \in Seq(Seq(Nat))
         /\ Held(vs) = Concat([j \in 1..Len(vs) |-> Filled(vs[j])])
         /\ Held(vs) \in Seq(Nat)
<1>1. ASSUME NEW j \in 1..Len(vs) PROVE Filled(vs[j]) \in Seq(Nat)
  <2>1. vs[j] \in PullIntoSet /\ vs[j].filled <= Len(vs[j].data)
    BY ViewsWithin
  <2> QED BY <2>1, FilledType
<1>2. [j \in 1..Len(vs) |-> Filled(vs[j])] \in Seq(Seq(Nat))
  BY <1>1
<1>3. Held(vs) = Concat([j \in 1..Len(vs) |-> Filled(vs[j])])
  BY DEF Held, Filled
<1> QED BY <1>2, <1>3, ConcatType

\* Only the first view is filled in part, so what is held is in it.
LEMMA HeldFirst ==
  ASSUME NEW vs \in Seq(PullIntoSet), NEW a, ViewsOK(vs, a), vs # <<>>
  PROVE  Held(vs) = Filled(vs[1])
<1>1. PICK parts \in Seq(Seq(Nat)) : parts = [j \in 1..Len(vs) |-> Filled(vs[j])] /\ Held(vs) = Concat(parts)
  BY HeldType
<1>2. Len(parts) = Len(vs) /\ Len(vs) \in Nat \ {0} /\ parts # <<>> /\ Head(parts) = Filled(vs[1])
      /\ \A j \in 1..Len(vs) : parts[j] = Filled(vs[j])
  BY <1>1
<1>3. Concat(parts) = Head(parts) \o Concat(Tail(parts))
  BY <1>2, ConcatTail
<1>4. Tail(parts) \in Seq(Seq(Nat)) /\ Len(Tail(parts)) = Len(parts) - 1
      /\ \A j \in 1..(Len(parts) - 1) : Tail(parts)[j] = parts[j + 1]
  BY <1>2
<1>5. ASSUME NEW j \in 1..Len(Tail(parts)) PROVE Tail(parts)[j] = <<>>
  <2>1. j + 1 \in 1..Len(vs) /\ 1 \in 1..Len(vs) /\ 1 < j + 1 /\ Tail(parts)[j] = parts[j + 1]
    BY <1>2, <1>4
  <2>2. vs[j + 1].filled = 0 /\ vs[j + 1] \in PullIntoSet
    BY <2>1 DEF ViewsOK
  <2>3. Filled(vs[j + 1]) = <<>>
    BY <2>2, FilledNothing
  <2> QED BY <2>1, <2>3, <1>2
<1>6. Concat(Tail(parts)) = <<>>
  BY <1>4, <1>5, ConcatBlank
<1>7. Head(parts) \in Seq(Nat)
  BY <1>2
<1>8. Head(parts) \o <<>> = Head(parts)
  BY <1>7, ConcatEmptySeq
<1> QED BY <1>1, <1>2, <1>3, <1>6, <1>8

\* Views with nothing in them hold nothing.
LEMMA HeldBlank ==
  ASSUME NEW vs \in Seq(PullIntoSet), NEW a, ViewsOK(vs, a),
         vs # <<>> => vs[1].filled = 0
  PROVE  Held(vs) = <<>>
<1>1. CASE vs = <<>>
  BY <1>1, HeldNothing
<1>2. CASE vs # <<>>
  <2>1. vs[1] \in PullIntoSet
    BY <1>2
  <2> QED BY <2>1, <1>2, HeldFirst, FilledNothing
<1> QED BY <1>1, <1>2

\* What a call of pull() leaves as it was.
LEMMA CallKeeps ==
  ASSUME NEW w, NEW a \in Nat, NEW v, v = CallBytePullIfNeeded(w), WorldOK(w, a)
  PROVE  /\ WorldOK(v, a) /\ (WaitsOK(w) => WaitsOK(v)) /\ (InTurn(w) => InTurn(v))
         /\ v.given = w.given /\ v.b.state = w.b.state /\ v.b.queue = w.b.queue
         /\ v.b.auto = w.b.auto /\ KeptOf(v.b) = KeptOf(w.b)
<1>1. w \in WorldSet /\ Calls(w, v) /\ SameRest(w, v)
  <2>1. w \in WorldSet
    BY DEF WorldOK
  <2> QED BY <2>1, CallIs DEF Calls
<1>2. CASE v.b.pullIntos = w.b.pullIntos
  <2>1. WorldOK(v, a)
    <3>1. QueueOK(v.b.queue, v.b.queueTotalSize) /\ ViewsOK(v.b.pullIntos, a)
          /\ RequestOK(v.b.request, v.b.pullIntos) /\ Rising(v.b.requests)
      BY <1>1, <1>2 DEF WorldOK, SameRest, SameQueue
    <3>2. LockOK(v.b, v.holders)
      BY <1>1, <1>2 DEF WorldOK, LockOK, SameRest
    <3>3. ToldOK(v.b, v.holders) /\ GivenOK(v.given, a) /\ v \in WorldSet
      BY <1>1 DEF WorldOK, ToldOK, SameRest
    <3>4. v.b.pulling = TRUE <=> v.pulls # "none"
      BY <1>1 DEF WorldOK, Calls
    <3> QED BY <3>1, <3>2, <3>3, <3>4 DEF WorldOK
  <2>2. WaitsOK(w) => WaitsOK(v)
    BY <1>1, <1>2 DEF WaitsOK, SameRest
  <2>3. InTurn(w) => InTurn(v)
    BY <1>1, <1>2 DEF InTurn, Overtaken, SomeoneWaits, SameRest, SameQueue
  <2> QED BY <1>1, <1>2, <2>1, <2>2, <2>3 DEF SameRest, SameQueue, KeptOf
<1>3. CASE /\ w.b.pullIntos = <<>> /\ w.b.auto > 0 /\ w.b.state = "readable"
           /\ v.b.pullIntos = <<PullInto(0, w.b.auto)>>
  <2>0. w.b.auto \in Nat /\ v.b.auto = w.b.auto
    BY <1>1, WorldFields, FieldFields DEF SameRest
  <2>1. PICK p \in PullIntoSet : p = PullInto(0, w.b.auto) /\ p.read = 0 /\ p.filled = 0 /\ Len(p.data) = w.b.auto
    BY <2>0, PullIntoType
  <2>2. v.b.pullIntos = <<p>> /\ Len(<<p>>) = 1 /\ <<p>>[1] = p /\ <<p>> \in Seq(PullIntoSet) /\ \A j \in 1..1 : j = 1
    BY <1>3, <2>1
  <2>3. ViewsOK(v.b.pullIntos, a)
    BY <2>0, <2>1, <2>2, <1>3 DEF ViewsOK
  <2>4. RequestOK(v.b.request, v.b.pullIntos)
    BY <1>1, <1>3 DEF RequestOK, WorldOK, SameRest
  <2>5. LockOK(v.b, v.holders)
    <3>1. v.b.auto # 0
      BY <2>0, <1>3
    <3>2. \A j \in 1..Len(v.b.pullIntos) : v.b.pullIntos[j].read = 0
      BY <2>1, <2>2
    <3> QED BY <3>1, <3>2, <1>1, <1>3 DEF LockOK, WorldOK, SameRest
  <2>6. QueueOK(v.b.queue, v.b.queueTotalSize) /\ Rising(v.b.requests)
        /\ ToldOK(v.b, v.holders) /\ GivenOK(v.given, a) /\ v \in WorldSet
    BY <1>1 DEF WorldOK, ToldOK, SameRest, SameQueue
  <2>7. v.b.pulling = TRUE <=> v.pulls # "none"
    BY <1>1 DEF WorldOK, Calls
  <2>8. WorldOK(v, a)
    BY <2>3, <2>4, <2>5, <2>6, <2>7 DEF WorldOK
  <2>9. WaitsOK(w) => WaitsOK(v)
    <3>1. \A k \in ByteReads : ~HasView(k, <<p>>) /\ ~HasView(k, <<>>)
      BY <2>1, <2>2 DEF HasView, ByteReads
    <3> QED BY <3>1, <2>2, <1>1, <1>3 DEF WaitsOK, SameRest
  <2>10. InTurn(w) => InTurn(v)
    <3>1. ~\E j \in 1..Len(v.b.pullIntos) : v.b.pullIntos[j].read # 0
      BY <2>1, <2>2
    <3> QED BY <3>1, <1>1 DEF InTurn, Overtaken, SomeoneWaits, SameRest, SameQueue
  <2>11. KeptOf(v.b) = KeptOf(w.b)
    <3>1. Held(v.b.pullIntos) = <<>>
      BY <2>1, <2>2, <2>3, HeldBlank
    <3> QED BY <3>1, <1>1, <1>3, HeldNothing DEF KeptOf, SameRest, SameQueue
  <2> QED BY <1>1, <2>8, <2>9, <2>10, <2>11 DEF SameRest, SameQueue
<1> QED BY <1>1, <1>2, <1>3 DEF Calls

-----------------------------------------------------------------------------
(***************************************************************************)
(* Bytes for the queue, and an answer for a read.                          *)
(***************************************************************************)
SameFlags(w, v) ==
  /\ v \in WorldSet /\ v.holders = w.holders /\ v.pulls = w.pulls /\ v.b.pulling = w.b.pulling
  /\ v.b.state = w.b.state /\ v.b.reader = w.b.reader /\ v.b.auto = w.b.auto
  /\ v.b.closeRequested = w.b.closeRequested /\ v.b.pullAgain = w.b.pullAgain

\* ToQueue: bytes at the end of the queue.
LEMMA ToQueueIs ==
  ASSUME NEW w \in WorldSet, NEW data \in Seq(Nat), NEW v, v = ToQueue(w, data)
  PROVE  /\ SameFlags(w, v) /\ v.given = w.given /\ v.b.requests = w.b.requests
         /\ v.b.pullIntos = w.b.pullIntos /\ v.b.request = w.b.request
         /\ v.b.queue = Append(w.b.queue, data) /\ v.b.queueTotalSize = w.b.queueTotalSize + Len(data)
<1>1. PICK b \in FieldSet : b = w.b
  BY WorldFields
<1>2. PICK q \in Seq(Seq(Nat)) : q = Append(b.queue, data)
  <2>1. b.queue \in Seq(Seq(Nat))
    BY FieldFields
  <2>2. Append(b.queue, data) \in Seq(Seq(Nat))
    BY <2>1
  <2> QED BY <2>2
<1>3. PICK n \in Nat : n = b.queueTotalSize + Len(data)
  <2>1. b.queueTotalSize \in Nat
    BY FieldFields
  <2>2. b.queueTotalSize + Len(data) \in Nat
    BY <2>1
  <2> QED BY <2>2
<1>4. PICK c : c = [b EXCEPT !.queue = q, !.queueTotalSize = n]
  OBVIOUS
<1>5. v = [w EXCEPT !.b = c]
  <2>1. v = [w EXCEPT !.b.queue = Append(w.b.queue, data), !.b.queueTotalSize = w.b.queueTotalSize + Len(data)]
    BY DEF ToQueue, WorldSet, FieldSet
  <2> QED BY <2>1, <1>1, <1>2, <1>3, <1>4 DEF WorldSet, FieldSet
<1>6. c \in FieldSet
  BY <1>4 DEF FieldSet
<1>7. v \in WorldSet /\ v.b = c /\ v.given = w.given /\ v.holders = w.holders /\ v.pulls = w.pulls
  BY <1>5, <1>6 DEF WorldSet
<1>8. c.reader = b.reader /\ c.auto = b.auto /\ c.closeRequested = b.closeRequested
      /\ c.pulling = b.pulling /\ c.pullAgain = b.pullAgain /\ c.state = b.state /\ c.requests = b.requests
      /\ c.queue = q /\ c.queueTotalSize = n /\ c.pullIntos = b.pullIntos /\ c.request = b.request
  BY <1>4 DEF FieldSet
<1> QED BY <1>1, <1>2, <1>3, <1>7, <1>8 DEF SameFlags

\* One more chunk that is not empty.
LEMMA QueueMore ==
  ASSUME NEW queue \in Seq(Seq(Nat)), NEW total \in Nat, QueueOK(queue, total),
         NEW data \in Seq(Nat), data # <<>>
  PROVE  QueueOK(Append(queue, data), total + Len(data)) /\ Concat(Append(queue, data)) = Concat(queue) \o data
<1>1. Concat(Append(queue, data)) = Concat(queue) \o data
  BY ConcatAppend
<1>2. PICK c \in Seq(Nat) : c = Concat(queue)
  BY ConcatType
<1>3. Len(c \o data) = Len(c) + Len(data)
  OBVIOUS
<1>4. total + Len(data) = Len(Concat(Append(queue, data)))
  BY <1>1, <1>2, <1>3 DEF QueueOK
<1>5. \A j \in 1..Len(Append(queue, data)) : Append(queue, data)[j] # <<>>
  <2>1. PICK m \in Nat : m = Len(queue)
    OBVIOUS
  <2>2. Len(Append(queue, data)) = m + 1 /\ (\A j \in 1..m : Append(queue, data)[j] = queue[j])
        /\ Append(queue, data)[m + 1] = data
    BY <2>1, AppendProperties
  <2>3. \A j \in 1..(m + 1) : j \in 1..m \/ j = m + 1
    OBVIOUS
  <2> QED BY <2>1, <2>2, <2>3 DEF QueueOK
<1> QED BY <1>1, <1>4, <1>5 DEF QueueOK

\* v is w with bytes in the queue, behind the others.
Queues(w, v, a, data) ==
  /\ WorldOK(v, a) /\ (WaitsOK(w) => WaitsOK(v)) /\ v.given = w.given
  /\ v.b.state = w.b.state /\ v.b.auto = w.b.auto /\ v.b.requests = w.b.requests
  /\ v.b.pullIntos = w.b.pullIntos /\ Concat(v.b.queue) = Concat(w.b.queue) \o data

\* ... keeps what is known of the stream.
LEMMA ToQueueKeeps ==
  ASSUME NEW w, NEW a \in Nat, NEW data \in Seq(Nat), data # <<>>, NEW v, v = ToQueue(w, data), WorldOK(w, a)
  PROVE  Queues(w, v, a, data)
<1>1. w \in WorldSet
  BY DEF WorldOK
<1>2. /\ SameFlags(w, v) /\ v.given = w.given /\ v.b.requests = w.b.requests
      /\ v.b.pullIntos = w.b.pullIntos /\ v.b.request = w.b.request
      /\ v.b.queue = Append(w.b.queue, data) /\ v.b.queueTotalSize = w.b.queueTotalSize + Len(data)
  BY <1>1, ToQueueIs
<1>3. QueueOK(v.b.queue, v.b.queueTotalSize) /\ Concat(v.b.queue) = Concat(w.b.queue) \o data
  <2>1. w.b.queue \in Seq(Seq(Nat)) /\ w.b.queueTotalSize \in Nat /\ QueueOK(w.b.queue, w.b.queueTotalSize)
    BY <1>1, WorldFields, FieldFields DEF WorldOK
  <2> QED BY <2>1, <1>2, QueueMore
<1>4. LockOK(v.b, v.holders)
  BY <1>2 DEF WorldOK, LockOK, SameFlags
<1>5. ToldOK(v.b, v.holders)
  BY <1>2 DEF WorldOK, ToldOK, SameFlags
<1>6. v \in WorldSet /\ ViewsOK(v.b.pullIntos, a) /\ RequestOK(v.b.request, v.b.pullIntos)
      /\ Rising(v.b.requests) /\ GivenOK(v.given, a)
  BY <1>2 DEF WorldOK, SameFlags
<1>7. v.b.pulling = TRUE <=> v.pulls # "none"
  BY <1>2 DEF WorldOK, SameFlags
<1>8. WorldOK(v, a)
  BY <1>3, <1>4, <1>5, <1>6, <1>7 DEF WorldOK
<1>9. WaitsOK(w) => WaitsOK(v)
  BY <1>2 DEF WaitsOK
<1> QED BY <1>2, <1>3, <1>8, <1>9 DEF SameFlags, Queues

\* A read is answered.
Answers(w, k, st, data) == [w EXCEPT !.given[k] = Answer(st, data)]
\* Every read but k waits where it should.
WaitsBut(w, k) ==
  \A j \in ByteReads :
    IF j = k THEN ~InSeq(j, w.b.requests) /\ ~HasView(j, w.b.pullIntos)
    ELSE w.given[j].st = "pending" <=> InSeq(j, w.b.requests) \/ HasView(j, w.b.pullIntos)

\* v is w but for the answer of k.
OnlyAnswer(w, k, st, data, v) ==
  /\ v \in WorldSet /\ v.b = w.b /\ v.holders = w.holders /\ v.pulls = w.pulls
  /\ v.given[k].st = st /\ v.given[k].data = data
  /\ \A j \in ByteReads : j # k => v.given[j] = w.given[j]

\* An answer for one read.
LEMMA AnswersIs ==
  ASSUME NEW w \in WorldSet, NEW k \in ByteReads, NEW st \in {"none", "pending", "value", "done", "rejected"},
         NEW data \in Seq(Nat), NEW v, v = Answers(w, k, st, data)
  PROVE  OnlyAnswer(w, k, st, data, v)
<1>1. PICK e \in AnswerSet : e = Answer(st, data) /\ e.st = st /\ e.data = data
  BY AnswerType
<1>2. PICK g \in [ByteReads -> AnswerSet] : g = w.given
  BY WorldFields
<1>3. PICK f : f = [g EXCEPT ![k] = e]
  OBVIOUS
<1>4. f \in [ByteReads -> AnswerSet] /\ f[k] = e /\ \A j \in ByteReads : j # k => f[j] = g[j]
  BY <1>3
<1>5. v = [w EXCEPT !.given = f]
  BY <1>1, <1>2, <1>3 DEF Answers
<1>6. v \in WorldSet /\ v.b = w.b /\ v.holders = w.holders /\ v.pulls = w.pulls /\ v.given = f
  BY <1>5, <1>4 DEF WorldSet
<1> QED BY <1>1, <1>2, <1>4, <1>6 DEF OnlyAnswer

\* ... keeps what is known of the stream, when it is of a read that was taken out.
LEMMA AnswersKeeps ==
  ASSUME NEW w, NEW a \in Nat, NEW k \in ByteReads, k <= a,
         NEW st \in {"value", "done", "rejected"}, NEW data \in Seq(Nat),
         NEW v, v = Answers(w, k, st, data), WorldOK(w, a)
  PROVE  /\ WorldOK(v, a) /\ (WaitsBut(w, k) => WaitsOK(v)) /\ (InTurn(w) => InTurn(v)) /\ v.b = w.b
<1>1. w \in WorldSet
  BY DEF WorldOK
<1>2. /\ v \in WorldSet /\ v.b = w.b /\ v.holders = w.holders /\ v.pulls = w.pulls
      /\ v.given[k].st = st /\ v.given[k].data = data
      /\ \A j \in ByteReads : j # k => v.given[j] = w.given[j]
  <2>1. st \in {"none", "pending", "value", "done", "rejected"}
    OBVIOUS
  <2>2. OnlyAnswer(w, k, st, data, v)
    BY <2>1, <1>1, AnswersIs
  <2> QED BY <2>2 DEF OnlyAnswer
<1>3. GivenOK(v.given, a)
  <2>1. ASSUME NEW j \in ByteReads PROVE v.given[j].st = "none" <=> j > a
    <3>1. CASE j = k
      BY <3>1, <1>2 DEF ByteReads
    <3>2. CASE j # k
      BY <3>2, <1>2 DEF WorldOK, GivenOK
    <3> QED BY <3>1, <3>2
  <2> QED BY <2>1 DEF GivenOK
<1>4. WorldOK(v, a)
  BY <1>2, <1>3 DEF WorldOK
<1>5. WaitsBut(w, k) => WaitsOK(v)
  <2>1. SUFFICES ASSUME WaitsBut(w, k), NEW j \in ByteReads
                 PROVE  v.given[j].st = "pending" <=> InSeq(j, v.b.requests) \/ HasView(j, v.b.pullIntos)
    BY DEF WaitsOK
  <2>2. CASE j = k
    BY <2>1, <2>2, <1>2 DEF WaitsBut
  <2>3. CASE j # k
    BY <2>1, <2>3, <1>2 DEF WaitsBut
  <2> QED BY <2>2, <2>3
<1>6. InTurn(w) => InTurn(v)
  BY <1>2 DEF InTurn, Overtaken, SomeoneWaits
<1> QED BY <1>2, <1>4, <1>5, <1>6

LEMMA DeliveredType ==
  ASSUME NEW g \in [ByteReads -> AnswerSet], NEW a \in Nat, a <= MaxByteReads
  PROVE  [k \in 1..a |-> g[k].data] \in Seq(Seq(Nat)) /\ DeliveredOf(g, a) \in Seq(Nat)
<1>1. ASSUME NEW k \in 1..a PROVE g[k].data \in Seq(Nat)
  <2>1. k \in ByteReads
    BY ByteAssumption DEF ByteReads
  <2>2. g[k] \in AnswerSet
    BY <2>1
  <2> QED BY <2>2 DEF AnswerSet
<1>2. [k \in 1..a |-> g[k].data] \in Seq(Seq(Nat))
  BY <1>1
<1> QED BY <1>2, ConcatType DEF DeliveredOf

\* What the first read that waits is given comes after what was delivered.
LEMMA AnswersDeliver ==
  ASSUME NEW w \in WorldSet, NEW a \in Nat, a <= MaxByteReads, NEW k \in 1..a,
         NEW data \in Seq(Nat), NEW v, v = Answers(w, k, "value", data),
         LaterEmpty(w.given), w.given[k].st = "pending", GivenOK(w.given, a),
         \A j \in ByteReads : w.given[j].st = "pending" => k <= j
  PROVE  LaterEmpty(v.given) /\ DeliveredOf(v.given, a) = DeliveredOf(w.given, a) \o data
<1>0. k \in ByteReads
  BY ByteAssumption DEF ByteReads
<1>1. /\ v \in WorldSet /\ v.given[k].st = "value" /\ v.given[k].data = data
      /\ \A j \in ByteReads : j # k => v.given[j] = w.given[j]
  <2>1. "value" \in {"none", "pending", "value", "done", "rejected"}
    OBVIOUS
  <2>2. OnlyAnswer(w, k, "value", data, v)
    BY <2>1, <1>0, AnswersIs
  <2> QED BY <2>2 DEF OnlyAnswer
<1>2. LaterEmpty(v.given)
  <2>1. SUFFICES ASSUME NEW i \in ByteReads, NEW j \in ByteReads, i <= j, v.given[i].st \in {"none", "pending"}
                 PROVE  v.given[j].data = <<>>
    BY DEF LaterEmpty
  <2>2. i # k /\ v.given[i] = w.given[i]
    BY <2>1, <1>1
  <2>3. k < i
    <3>1. CASE w.given[i].st = "pending"
      BY <3>1, <2>2 DEF ByteReads
    <3>2. CASE w.given[i].st = "none"
      BY <3>2 DEF GivenOK, ByteReads
    <3> QED BY <3>1, <3>2, <2>1, <2>2
  <2>4. j # k /\ v.given[j] = w.given[j]
    BY <2>1, <2>3, <1>1 DEF ByteReads
  <2> QED BY <2>1, <2>2, <2>4 DEF LaterEmpty
<1>3. w.given \in [ByteReads -> AnswerSet] /\ v.given \in [ByteReads -> AnswerSet]
  BY <1>1, WorldFields
<1>4. PICK s \in Seq(Seq(Nat)) : s = [i \in 1..a |-> w.given[i].data]
  BY <1>3, DeliveredType
<1>5. PICK t \in Seq(Seq(Nat)) : t = [i \in 1..a |-> v.given[i].data]
  BY <1>3, DeliveredType
<1>6. Len(s) = a /\ Len(t) = a /\ \A i \in 1..a : s[i] = w.given[i].data /\ t[i] = v.given[i].data
  BY <1>4, <1>5
<1>7. \A i \in 1..a : i \in ByteReads
  BY ByteAssumption DEF ByteReads
<1>8. \A i \in 1..Len(s) : i < k => t[i] = s[i]
  <2>1. SUFFICES ASSUME NEW i \in 1..a, i < k PROVE t[i] = s[i]
    BY <1>6
  <2>2. i # k /\ i \in ByteReads
    BY <2>1, <1>7
  <2>3. v.given[i] = w.given[i]
    BY <2>2, <1>1
  <2> QED BY <2>3, <1>6
<1>9. \A i \in 1..Len(s) : k <= i => s[i] = <<>>
  BY <1>0, <1>6, <1>7 DEF LaterEmpty
<1>10. \A i \in 1..Len(s) : k < i => t[i] = <<>>
  <2>1. SUFFICES ASSUME NEW i \in 1..a, k < i PROVE t[i] = <<>>
    BY <1>6
  <2>2. v.given[i] = w.given[i]
    <3>1. i # k /\ i \in ByteReads
      BY <2>1, <1>7
    <3> QED BY <3>1, <1>1
  <2>3. s[i] = <<>>
    BY <2>1, <1>6, <1>9
  <2> QED BY <2>2, <2>3, <1>6
<1>11. Concat(t) = Concat(s) \o t[k]
  <2>1. k \in 1..Len(s) /\ Len(t) = Len(s)
    BY <1>6
  <2> QED BY <2>1, <1>8, <1>9, <1>10, ConcatWrite, ZenonT(60)
<1>12. t[k] = data
  BY <1>1, <1>6
<1> QED BY <1>2, <1>4, <1>5, <1>11, <1>12 DEF DeliveredOf

-----------------------------------------------------------------------------
(***************************************************************************)
(* What waits in front is taken out: a pull-into or a request.             *)
(***************************************************************************)
\* The first view, or the first read, is taken out before it is answered.
Pop(w) == [w EXCEPT !.b.pullIntos = Tail(@), !.b.request = NoRequest]
PopRead(w) == [w EXCEPT !.b.requests = Tail(@)]

\* The pull-into in front is gone, and with it the request that the source has.
LEMMA PopIs ==
  ASSUME NEW w \in WorldSet, w.b.pullIntos # <<>>, NEW v, v = Pop(w)
  PROVE  /\ SameFlags(w, v) /\ SameQueue(w, v) /\ v.given = w.given /\ v.b.requests = w.b.requests
         /\ v.b.pullIntos = Tail(w.b.pullIntos) /\ v.b.request = NoRequest
<1>1. PICK b \in FieldSet : b = w.b
  BY WorldFields
<1>2. PICK q \in Seq(PullIntoSet) : q = Tail(b.pullIntos)
  <2>1. b.pullIntos \in Seq(PullIntoSet)
    BY FieldFields
  <2>2. Tail(b.pullIntos) \in Seq(PullIntoSet)
    BY <2>1, <1>1
  <2> QED BY <2>2
<1>3. PICK r \in RequestSet : r = NoRequest
  BY DEF NoRequest, RequestSet
<1>4. PICK c : c = [b EXCEPT !.pullIntos = q, !.request = r]
  OBVIOUS
<1>5. v = [w EXCEPT !.b = c]
  <2>1. v = [w EXCEPT !.b.pullIntos = Tail(w.b.pullIntos), !.b.request = NoRequest]
    BY DEF Pop, WorldSet, FieldSet
  <2> QED BY <2>1, <1>1, <1>2, <1>3, <1>4 DEF WorldSet, FieldSet
<1>6. c \in FieldSet
  BY <1>4 DEF FieldSet
<1>7. v \in WorldSet /\ v.b = c /\ v.given = w.given /\ v.holders = w.holders /\ v.pulls = w.pulls
  BY <1>5, <1>6 DEF WorldSet
<1>8. c.reader = b.reader /\ c.auto = b.auto /\ c.closeRequested = b.closeRequested
      /\ c.pulling = b.pulling /\ c.pullAgain = b.pullAgain /\ c.state = b.state /\ c.requests = b.requests
      /\ c.queue = b.queue /\ c.queueTotalSize = b.queueTotalSize /\ c.pullIntos = q /\ c.request = r
  BY <1>4 DEF FieldSet
<1> QED BY <1>1, <1>2, <1>3, <1>7, <1>8 DEF SameFlags, SameQueue

\* What is left of the views when the first is gone.
LEMMA ViewsTail ==
  ASSUME NEW vs \in Seq(PullIntoSet), NEW a, ViewsOK(vs, a), vs # <<>>
  PROVE  /\ ViewsOK(Tail(vs), a) /\ Tail(vs) \in Seq(PullIntoSet)
         /\ Len(Tail(vs)) = Len(vs) - 1 /\ Len(vs) \in Nat \ {0} /\ vs[1] \in PullIntoSet
         /\ \A j \in 1..Len(Tail(vs)) :
              /\ j + 1 \in 1..Len(vs) /\ Tail(vs)[j] = vs[j + 1]
              /\ vs[1].read < Tail(vs)[j].read /\ Tail(vs)[j].filled = 0
              /\ Tail(vs)[j].read # 0 /\ Tail(vs)[j].read # vs[1].read
<1>1. PICK t \in Seq(PullIntoSet) : t = Tail(vs)
  <2>1. Tail(vs) \in Seq(PullIntoSet)
    OBVIOUS
  <2> QED BY <2>1
<1>2. Len(vs) \in Nat \ {0} /\ Len(t) = Len(vs) - 1 /\ \A j \in 1..Len(t) : j + 1 \in 1..Len(vs) /\ t[j] = vs[j + 1]
  BY <1>1
<1>3. \A j \in 1..Len(vs) : vs[j] \in PullIntoSet
  OBVIOUS
<1>4. 1 \in 1..Len(vs) /\ vs[1] \in PullIntoSet
  BY <1>2, <1>3
<1>5. ASSUME NEW j \in 1..Len(t)
      PROVE  /\ t[j].read \in 0..a /\ t[j].filled < Len(t[j].data) /\ t[j].filled = 0
             /\ vs[1].read < t[j].read /\ t[j].read # 0 /\ t[j].read # vs[1].read
  <2>1. PICK i \in 1..Len(vs) : i = j + 1 /\ 1 < i /\ t[j] = vs[i]
    BY <1>2
  <2>2. vs[i].read \in 0..a /\ vs[i].filled < Len(vs[i].data)
        /\ vs[1].read < vs[i].read /\ vs[i].filled = 0
    BY <2>1, <1>4 DEF ViewsOK
  <2>3. vs[1].read \in Nat /\ vs[i].read \in Nat
    BY <1>3, <1>4 DEF PullIntoSet
  <2>4. vs[i].read # 0 /\ vs[i].read # vs[1].read
    BY <2>2, <2>3
  <2> QED BY <2>1, <2>2, <2>4
<1>6. ASSUME NEW i \in 1..Len(t), NEW j \in 1..Len(t), i < j
      PROVE  t[i].read < t[j].read
  <2>1. i + 1 \in 1..Len(vs) /\ j + 1 \in 1..Len(vs) /\ i + 1 < j + 1
    BY <1>2, <1>6
  <2>2. vs[i + 1].read < vs[j + 1].read
    BY <2>1 DEF ViewsOK
  <2> QED BY <2>2, <1>2
<1>7. ViewsOK(t, a)
  BY <1>5, <1>6 DEF ViewsOK
<1> QED BY <1>1, <1>2, <1>4, <1>5, <1>7

LEMMA PopKeeps ==
  ASSUME NEW w, NEW a \in Nat, NEW v, v = Pop(w), WorldOK(w, a), w.b.pullIntos # <<>>
  PROVE  /\ WorldOK(v, a) /\ (InTurn(w) => InTurn(v)) /\ v.given = w.given
         /\ v.b.state = w.b.state /\ v.b.auto = w.b.auto /\ v.b.requests = w.b.requests
         /\ v.b.queue = w.b.queue /\ v.b.pullIntos = Tail(w.b.pullIntos) /\ Held(v.b.pullIntos) = <<>>
         /\ v.b.request = NoRequest
<1>1. w \in WorldSet
  BY DEF WorldOK
<1>2. /\ SameFlags(w, v) /\ SameQueue(w, v) /\ v.given = w.given /\ v.b.requests = w.b.requests
      /\ v.b.pullIntos = Tail(w.b.pullIntos) /\ v.b.request = NoRequest
  BY <1>1, PopIs
<1>3. PICK vs \in Seq(PullIntoSet) : vs = w.b.pullIntos
  BY <1>1, WorldFields, FieldFields
<1>4. ViewsOK(vs, a) /\ vs # <<>>
  BY <1>3 DEF WorldOK
<1>5. /\ ViewsOK(Tail(vs), a) /\ Tail(vs) \in Seq(PullIntoSet)
      /\ Len(Tail(vs)) = Len(vs) - 1 /\ Len(vs) \in Nat \ {0}
      /\ \A j \in 1..Len(Tail(vs)) :
           /\ j + 1 \in 1..Len(vs) /\ Tail(vs)[j] = vs[j + 1]
           /\ Tail(vs)[j].filled = 0 /\ Tail(vs)[j].read # 0
  BY <1>4, ViewsTail
<1>6. QueueOK(v.b.queue, v.b.queueTotalSize) /\ v \in WorldSet /\ Rising(v.b.requests) /\ GivenOK(v.given, a)
  BY <1>2 DEF WorldOK, SameFlags, SameQueue
<1>7. ViewsOK(v.b.pullIntos, a)
  BY <1>2, <1>3, <1>5
<1>8. RequestOK(v.b.request, v.b.pullIntos)
  BY <1>2 DEF RequestOK, NoRequest
<1>9. LockOK(v.b, v.holders)
  <2>1. v.b.reader \in 0..Len(v.holders) /\ (v.b.requests # <<>> => v.b.reader # 0 /\ v.holders[v.b.reader].kind = "default")
    BY <1>2 DEF SameFlags, WorldOK, LockOK
  <2>2. ASSUME NEW j \in 1..Len(v.b.pullIntos), v.b.pullIntos[j].read # 0
        PROVE  v.b.reader # 0 /\ v.holders[v.b.reader].kind = "byob"
    <3>1. j + 1 \in 1..Len(w.b.pullIntos) /\ w.b.pullIntos[j + 1].read # 0
      BY <2>2, <1>2, <1>3, <1>5
    <3>2. w.b.reader # 0 /\ w.holders[w.b.reader].kind = "byob"
      BY <3>1 DEF WorldOK, LockOK
    <3> QED BY <3>2, <1>2 DEF SameFlags
  <2>3. v.b.state = "readable"
    BY <1>2 DEF SameFlags, WorldOK, LockOK
  <2>4. v.b.auto = 0 => \A j \in 1..Len(v.b.pullIntos) : v.b.pullIntos[j].read # 0
    BY <1>2, <1>3, <1>5
  <2> QED BY <2>1, <2>2, <2>3, <2>4 DEF LockOK
<1>10. ToldOK(v.b, v.holders) /\ (v.b.pulling = TRUE <=> v.pulls # "none")
  BY <1>2 DEF WorldOK, ToldOK, SameFlags
<1>11. WorldOK(v, a)
  BY <1>6, <1>7, <1>8, <1>9, <1>10 DEF WorldOK
<1>12. Held(v.b.pullIntos) = <<>>
  <2>1. Tail(vs) # <<>> => Tail(vs)[1].filled = 0
    <3>1. Tail(vs) # <<>> => 1 \in 1..Len(Tail(vs))
      BY <1>5
    <3> QED BY <3>1, <1>5
  <2>2. Held(Tail(vs)) = <<>>
    BY <2>1, <1>5, HeldBlank
  <2> QED BY <2>2, <1>2, <1>3
<1>13. InTurn(w) => InTurn(v)
  <2>1. SUFFICES ASSUME InTurn(w), SomeoneWaits(v)
                 PROVE  v.b.queue = <<>> /\ ~\E j \in 1..Len(v.b.pullIntos) :
                                            v.b.pullIntos[1].read = 0 /\ v.b.pullIntos[j].read # 0
    BY DEF InTurn, Overtaken
  <2>2. SomeoneWaits(w)
    <3>1. CASE v.b.requests # <<>>
      BY <3>1, <1>2 DEF SomeoneWaits
    <3>2. ASSUME NEW j \in 1..Len(v.b.pullIntos), v.b.pullIntos[j].read # 0 PROVE SomeoneWaits(w)
      <4>1. j + 1 \in 1..Len(w.b.pullIntos) /\ w.b.pullIntos[j + 1].read # 0
        BY <3>2, <1>2, <1>3, <1>5
      <4> QED BY <4>1 DEF SomeoneWaits
    <3> QED BY <2>1, <3>1, <3>2 DEF SomeoneWaits
  <2>3. w.b.queue = <<>>
    BY <2>1, <2>2 DEF InTurn, Overtaken
  <2>4. ASSUME NEW j \in 1..Len(v.b.pullIntos) PROVE v.b.pullIntos[1].read # 0
    <3>1. 1 \in 1..Len(Tail(vs)) /\ v.b.pullIntos = Tail(vs)
      BY <2>4, <1>2, <1>3, <1>5
    <3> QED BY <3>1, <1>5
  <2> QED BY <2>3, <2>4, <1>2 DEF SameQueue
<1> QED BY <1>2, <1>11, <1>12, <1>13 DEF SameFlags, SameQueue

\* The request in front is gone.
LEMMA PopReadIs ==
  ASSUME NEW w \in WorldSet, w.b.requests # <<>>, NEW v, v = PopRead(w)
  PROVE  /\ SameFlags(w, v) /\ SameQueue(w, v) /\ v.given = w.given /\ v.b.requests = Tail(w.b.requests)
         /\ v.b.pullIntos = w.b.pullIntos /\ v.b.request = w.b.request
<1>1. PICK b \in FieldSet : b = w.b
  BY WorldFields
<1>2. PICK q \in Seq(ByteReads) : q = Tail(b.requests)
  <2>1. b.requests \in Seq(ByteReads)
    BY FieldFields
  <2>2. Tail(b.requests) \in Seq(ByteReads)
    BY <2>1, <1>1
  <2> QED BY <2>2
<1>4. PICK c : c = [b EXCEPT !.requests = q]
  OBVIOUS
<1>5. v = [w EXCEPT !.b = c]
  <2>1. v = [w EXCEPT !.b.requests = Tail(w.b.requests)]
    BY DEF PopRead, WorldSet, FieldSet
  <2> QED BY <2>1, <1>1, <1>2, <1>4 DEF WorldSet, FieldSet
<1>6. c \in FieldSet
  BY <1>4 DEF FieldSet
<1>7. v \in WorldSet /\ v.b = c /\ v.given = w.given /\ v.holders = w.holders /\ v.pulls = w.pulls
  BY <1>5, <1>6 DEF WorldSet
<1>8. c.reader = b.reader /\ c.auto = b.auto /\ c.closeRequested = b.closeRequested
      /\ c.pulling = b.pulling /\ c.pullAgain = b.pullAgain /\ c.state = b.state /\ c.requests = q
      /\ c.queue = b.queue /\ c.queueTotalSize = b.queueTotalSize /\ c.pullIntos = b.pullIntos
      /\ c.request = b.request
  BY <1>4 DEF FieldSet
<1> QED BY <1>1, <1>2, <1>7, <1>8 DEF SameFlags, SameQueue

LEMMA PopReadKeeps ==
  ASSUME NEW w, NEW a \in Nat, NEW v, v = PopRead(w), WorldOK(w, a), w.b.requests # <<>>
  PROVE  /\ WorldOK(v, a) /\ v.given = w.given
         /\ v.b.state = w.b.state /\ v.b.auto = w.b.auto /\ v.b.requests = Tail(w.b.requests)
         /\ v.b.queue = w.b.queue /\ v.b.pullIntos = w.b.pullIntos
<1>1. w \in WorldSet
  BY DEF WorldOK
<1>2. /\ SameFlags(w, v) /\ SameQueue(w, v) /\ v.given = w.given /\ v.b.requests = Tail(w.b.requests)
      /\ v.b.pullIntos = w.b.pullIntos /\ v.b.request = w.b.request
  BY <1>1, PopReadIs
<1>3. PICK s \in Seq(ByteReads) : s = w.b.requests
  BY <1>1, WorldFields, FieldFields
<1>4. Rising(v.b.requests)
  <2>0. s # <<>>
    BY <1>3
  <2>1. PICK t \in Seq(ByteReads) : t = Tail(s)
    <3>1. Tail(s) \in Seq(ByteReads)
      BY <2>0
    <3> QED BY <3>1
  <2>2. Len(t) = Len(s) - 1 /\ \A j \in 1..Len(t) : j + 1 \in 1..Len(s) /\ t[j] = s[j + 1]
    BY <2>1, <1>3
  <2>3. ASSUME NEW i \in 1..Len(t), NEW j \in 1..Len(t), i < j PROVE t[i] < t[j]
    <3>1. i + 1 \in 1..Len(s) /\ j + 1 \in 1..Len(s) /\ i + 1 < j + 1
      BY <2>2, <2>3
    <3>2. s[i + 1] < s[j + 1]
      BY <3>1, <1>3 DEF WorldOK, Rising
    <3> QED BY <3>2, <2>2
  <2>4. Rising(t)
    BY <2>3 DEF Rising
  <2> QED BY <2>1, <2>4, <1>2, <1>3
<1>5. QueueOK(v.b.queue, v.b.queueTotalSize) /\ v \in WorldSet /\ GivenOK(v.given, a)
      /\ ViewsOK(v.b.pullIntos, a) /\ RequestOK(v.b.request, v.b.pullIntos)
  BY <1>2 DEF WorldOK, SameFlags, SameQueue
<1>6. LockOK(v.b, v.holders)
  BY <1>2 DEF SameFlags, WorldOK, LockOK
<1>7. ToldOK(v.b, v.holders) /\ (v.b.pulling = TRUE <=> v.pulls # "none")
  BY <1>2 DEF WorldOK, ToldOK, SameFlags
<1>8. WorldOK(v, a)
  BY <1>4, <1>5, <1>6, <1>7 DEF WorldOK
<1> QED BY <1>2, <1>8 DEF SameFlags, SameQueue

-----------------------------------------------------------------------------
(***************************************************************************)
(* The read in front is the one that waits longest, so its answer comes behind*)
(* all that was delivered.                                                 *)
(***************************************************************************)
\* k is the read that waits longest.
Longest(w, k, a) ==
  /\ k \in ByteReads /\ k \in 1..a /\ w.given[k].st = "pending"
  /\ \A j \in ByteReads : w.given[j].st = "pending" => k <= j

\* The request in front is of the read that waits longest ...
LEMMA LongestRequest ==
  ASSUME NEW w, NEW a \in Nat, WorldOK(w, a), WaitsOK(w), w.b.requests # <<>>,
         NEW k, k = Head(w.b.requests), NEW v, v = PopRead(w)
  PROVE  Longest(w, k, a) /\ WaitsBut(v, k)
<1>1. w \in WorldSet
  BY DEF WorldOK
<1>2. PICK s \in Seq(ByteReads) : s = w.b.requests /\ s # <<>>
  BY <1>1, WorldFields, FieldFields
<1>3. Len(s) \in Nat \ {0} /\ k = s[1] /\ 1 \in 1..Len(s) /\ \A j \in 1..Len(s) : s[j] \in ByteReads
  BY <1>2
<1>4. \A j \in 1..Len(s) : 1 < j => s[1] < s[j]
  BY <1>2, <1>3 DEF WorldOK, Rising
<1>5. ASSUME NEW j \in 1..Len(w.b.pullIntos) PROVE w.b.pullIntos[j].read = 0
  BY <1>2 DEF WorldOK, LockOK
<1>6. \A j \in ByteReads : ~HasView(j, w.b.pullIntos)
  BY <1>5 DEF HasView, ByteReads
<1>7. \A j \in ByteReads : w.given[j].st = "pending" <=> InSeq(j, s)
  BY <1>2, <1>6 DEF WaitsOK
<1>8. k \in ByteReads /\ w.given[k].st = "pending"
  BY <1>3, <1>7 DEF InSeq
<1>9. k \in 1..a
  BY <1>8 DEF WorldOK, GivenOK, ByteReads
<1>10. ASSUME NEW j \in ByteReads, w.given[j].st = "pending" PROVE k <= j
  <2>1. PICK i \in 1..Len(s) : s[i] = j
    BY <1>7, <1>10 DEF InSeq
  <2>2. CASE i = 1
    BY <2>1, <2>2, <1>3 DEF ByteReads
  <2>3. CASE i # 1
    <3>1. 1 < i
      BY <2>3
    <3> QED BY <3>1, <2>1, <1>3, <1>4 DEF ByteReads
  <2> QED BY <2>2, <2>3
<1>11. v.given = w.given /\ v.b.requests = Tail(s) /\ v.b.pullIntos = w.b.pullIntos
  BY <1>1, <1>2, PopReadIs
<1>12. PICK t \in Seq(ByteReads) : t = Tail(s)
  <2>1. Tail(s) \in Seq(ByteReads)
    BY <1>2
  <2> QED BY <2>1
<1>13. Len(t) = Len(s) - 1 /\ \A j \in 1..Len(t) : j + 1 \in 1..Len(s) /\ t[j] = s[j + 1]
  BY <1>12, <1>2
<1>14. ASSUME NEW j \in ByteReads PROVE InSeq(j, s) <=> j = k \/ InSeq(j, t)
  <2>1. ASSUME InSeq(j, s), j # k PROVE InSeq(j, t)
    <3>1. PICK i \in 1..Len(s) : s[i] = j
      BY <2>1 DEF InSeq
    <3>2. i # 1
      BY <3>1, <2>1, <1>3
    <3>3. i - 1 \in 1..Len(t) /\ (i - 1) + 1 = i
      BY <3>2, <1>3, <1>13
    <3>4. t[i - 1] = s[(i - 1) + 1]
      BY <3>3, <1>13
    <3> QED BY <3>1, <3>3, <3>4 DEF InSeq
  <2>2. ASSUME InSeq(j, t) PROVE InSeq(j, s)
    BY <2>2, <1>13 DEF InSeq
  <2> QED BY <2>1, <2>2, <1>3 DEF InSeq
<1>15. ~InSeq(k, t)
  <2>1. SUFFICES ASSUME NEW j \in 1..Len(t), t[j] = k PROVE FALSE
    BY DEF InSeq
  <2>2. j + 1 \in 1..Len(s) /\ 1 < j + 1 /\ t[j] = s[j + 1]
    BY <1>13
  <2>3. s[1] < s[j + 1]
    BY <2>2, <1>4
  <2> QED BY <2>1, <2>2, <2>3, <1>3, <1>8 DEF ByteReads
<1>16. WaitsBut(v, k)
  <2>1. SUFFICES ASSUME NEW j \in ByteReads
                 PROVE  IF j = k THEN ~InSeq(j, v.b.requests) /\ ~HasView(j, v.b.pullIntos)
                        ELSE v.given[j].st = "pending" <=> InSeq(j, v.b.requests) \/ HasView(j, v.b.pullIntos)
    BY DEF WaitsBut
  <2>2. ~HasView(j, v.b.pullIntos) /\ v.b.requests = t /\ v.given = w.given
    BY <1>6, <1>11, <1>12
  <2>3. CASE j = k
    BY <2>2, <2>3, <1>15
  <2>4. CASE j # k
    BY <2>2, <2>4, <1>7, <1>14
  <2> QED BY <2>3, <2>4
<1> QED BY <1>8, <1>9, <1>10, <1>16 DEF Longest

\* ... and so is the view in front, if it is not a buffer of the controller.
LEMMA LongestView ==
  ASSUME NEW w, NEW a \in Nat, a <= MaxByteReads, WorldOK(w, a), WaitsOK(w), w.b.pullIntos # <<>>,
         NEW k, k = w.b.pullIntos[1].read, k # 0, NEW v, v = Pop(w)
  PROVE  Longest(w, k, a) /\ WaitsBut(v, k)
<1>1. w \in WorldSet
  BY DEF WorldOK
<1>2. PICK s \in Seq(PullIntoSet) : s = w.b.pullIntos /\ s # <<>>
  BY <1>1, WorldFields, FieldFields
<1>3. ViewsOK(s, a)
  BY <1>2 DEF WorldOK
<1>4. PICK t \in Seq(PullIntoSet) : t = Tail(s)
  BY <1>2, <1>3, ViewsTail
<1>5. /\ Len(t) = Len(s) - 1 /\ Len(s) \in Nat \ {0}
      /\ \A j \in 1..Len(t) : /\ j + 1 \in 1..Len(s) /\ t[j] = s[j + 1]
                              /\ s[1].read < t[j].read /\ t[j].read # s[1].read
  BY <1>2, <1>3, <1>4, ViewsTail
<1>6. k = s[1].read /\ 1 \in 1..Len(s)
  BY <1>2, <1>5
<1>7. k \in 1..a
  <2>1. k \in 0..a
    BY <1>6, <1>3 DEF ViewsOK
  <2> QED BY <2>1
<1>8. k \in ByteReads
  BY <1>7, ByteAssumption, SMTT(60) DEF ByteReads
<1>9. w.b.requests = <<>>
  BY <1>2, <1>6 DEF WorldOK, LockOK
<1>10. \A j \in ByteReads : ~InSeq(j, w.b.requests)
  BY <1>9 DEF InSeq
<1>11. \A j \in ByteReads : w.given[j].st = "pending" <=> HasView(j, s)
  BY <1>2, <1>10 DEF WaitsOK
<1>12. w.given[k].st = "pending"
  BY <1>6, <1>8, <1>11 DEF HasView
<1>13. ASSUME NEW j \in ByteReads PROVE HasView(j, s) <=> j = k \/ HasView(j, t)
  <2>1. ASSUME HasView(j, s), j # k PROVE HasView(j, t)
    <3>1. PICK i \in 1..Len(s) : s[i].read = j
      BY <2>1 DEF HasView
    <3>2. i # 1
      BY <3>1, <2>1, <1>6
    <3>3. i - 1 \in 1..Len(t) /\ (i - 1) + 1 = i
      BY <3>2, <1>5
    <3>4. t[i - 1] = s[(i - 1) + 1]
      BY <3>3, <1>5
    <3> QED BY <3>1, <3>3, <3>4 DEF HasView
  <2>2. ASSUME HasView(j, t) PROVE HasView(j, s)
    BY <2>2, <1>5 DEF HasView
  <2> QED BY <2>1, <2>2, <1>6 DEF HasView
<1>14. ~HasView(k, t)
  BY <1>5, <1>6 DEF HasView
<1>15. ASSUME NEW j \in ByteReads, w.given[j].st = "pending" PROVE k <= j
  <2>1. PICK i \in 1..Len(s) : s[i].read = j
    BY <1>11, <1>15 DEF HasView
  <2>2. CASE i = 1
    BY <2>1, <2>2, <1>6 DEF ByteReads
  <2>3. CASE i # 1
    <3>1. 1 < i
      BY <2>3
    <3>2. s[1].read < s[i].read
      BY <3>1, <1>3, <1>6 DEF ViewsOK
    <3> QED BY <3>2, <2>1, <1>6, <1>7 DEF ByteReads
  <2> QED BY <2>2, <2>3
<1>16. v.given = w.given /\ v.b.requests = w.b.requests /\ v.b.pullIntos = t
  BY <1>1, <1>2, <1>4, PopIs
<1>17. WaitsBut(v, k)
  <2>1. SUFFICES ASSUME NEW j \in ByteReads
                 PROVE  IF j = k THEN ~InSeq(j, v.b.requests) /\ ~HasView(j, v.b.pullIntos)
                        ELSE v.given[j].st = "pending" <=> InSeq(j, v.b.requests) \/ HasView(j, v.b.pullIntos)
    BY DEF WaitsBut
  <2>2. ~InSeq(j, v.b.requests) /\ v.b.pullIntos = t /\ v.given = w.given
    BY <1>10, <1>16
  <2>3. CASE j = k
    BY <2>2, <2>3, <1>14
  <2>4. CASE j # k
    BY <2>2, <2>4, <1>11, <1>13
  <2> QED BY <2>3, <2>4
<1> QED BY <1>7, <1>8, <1>12, <1>15, <1>17 DEF Longest

\* A buffer of the controller's is nobody's read.
LEMMA PopNobody ==
  ASSUME NEW w, NEW a \in Nat, WorldOK(w, a), WaitsOK(w), w.b.pullIntos # <<>>,
         w.b.pullIntos[1].read = 0, NEW v, v = Pop(w)
  PROVE  WaitsOK(v)
<1>1. w \in WorldSet
  BY DEF WorldOK
<1>2. PICK s \in Seq(PullIntoSet) : s = w.b.pullIntos /\ s # <<>>
  BY <1>1, WorldFields, FieldFields
<1>3. ViewsOK(s, a)
  BY <1>2 DEF WorldOK
<1>4. PICK t \in Seq(PullIntoSet) : t = Tail(s)
  BY <1>2, <1>3, ViewsTail
<1>5. /\ Len(t) = Len(s) - 1 /\ Len(s) \in Nat \ {0}
      /\ \A j \in 1..Len(t) : j + 1 \in 1..Len(s) /\ t[j] = s[j + 1]
  BY <1>2, <1>3, <1>4, ViewsTail
<1>6. s[1].read = 0
  BY <1>2
<1>7. ASSUME NEW j \in ByteReads PROVE HasView(j, s) <=> HasView(j, t)
  <2>1. ASSUME HasView(j, s) PROVE HasView(j, t)
    <3>1. PICK i \in 1..Len(s) : s[i].read = j
      BY <2>1 DEF HasView
    <3>2. i # 1
      BY <3>1, <1>6 DEF ByteReads
    <3>3. i - 1 \in 1..Len(t) /\ (i - 1) + 1 = i
      BY <3>2, <1>5
    <3>4. t[i - 1] = s[(i - 1) + 1]
      BY <3>3, <1>5
    <3> QED BY <3>1, <3>3, <3>4 DEF HasView
  <2>2. ASSUME HasView(j, t) PROVE HasView(j, s)
    BY <2>2, <1>5 DEF HasView
  <2> QED BY <2>1, <2>2
<1>8. v.given = w.given /\ v.b.requests = w.b.requests /\ v.b.pullIntos = t
  BY <1>1, <1>2, <1>4, PopIs
<1> QED BY <1>2, <1>7, <1>8 DEF WaitsOK

LEMMA ThenWhole ==
  ASSUME NEW d \in Seq(Nat), NEW x \in Seq(Nat), NEW q, q = <<>>
  PROVE  (d \o x) \o q = (d \o q) \o x
<1>1. d \o x \in Seq(Nat)
  OBVIOUS
<1>2. (d \o x) \o <<>> = d \o x /\ d \o <<>> = d
  BY <1>1, ConcatEmptySeq
<1> QED BY <1>2

\* Bytes that were made from w are given or queued in v, after what is there.
Passed(w, v, a, x) ==
  DeliveredOf(v.given, a) \o Concat(v.b.queue) = (DeliveredOf(w.given, a) \o Concat(w.b.queue)) \o x

LEMMA DeliveredSeq ==
  ASSUME NEW w \in WorldSet, NEW a \in Nat, a <= MaxByteReads
  PROVE  DeliveredOf(w.given, a) \in Seq(Nat) /\ Concat(w.b.queue) \in Seq(Nat)
<1>1. w.given \in [ByteReads -> AnswerSet] /\ w.b.queue \in Seq(Seq(Nat))
  BY WorldFields, FieldFields
<1> QED BY <1>1, DeliveredType, ConcatType

\* The read that waits longest is answered when the queue is empty.
LEMMA LongestPassed ==
  ASSUME NEW w \in WorldSet, NEW u \in WorldSet, NEW a \in Nat, a <= MaxByteReads, NEW k, Longest(w, k, a),
         NEW x \in Seq(Nat), u.given = w.given, u.b.queue = <<>>, w.b.queue = <<>>,
         NEW v, v = Answers(u, k, "value", x), LaterEmpty(w.given), GivenOK(w.given, a)
  PROVE  LaterEmpty(v.given) /\ Passed(w, v, a, x)
<1>1. k \in 1..a /\ k \in ByteReads /\ u.given[k].st = "pending"
      /\ \A j \in ByteReads : u.given[j].st = "pending" => k <= j
  BY DEF Longest
<1>2. LaterEmpty(v.given) /\ DeliveredOf(v.given, a) = DeliveredOf(u.given, a) \o x
  BY <1>1, AnswersDeliver, ZenonT(60)
<1>3. v.b = u.b
  <2>1. "value" \in {"none", "pending", "value", "done", "rejected"}
    OBVIOUS
  <2>2. OnlyAnswer(u, k, "value", x, v)
    BY <2>1, <1>1, AnswersIs
  <2> QED BY <2>2 DEF OnlyAnswer
<1>4. DeliveredOf(w.given, a) \in Seq(Nat)
  BY DeliveredSeq
<1>5. PICK d \in Seq(Nat) : d = DeliveredOf(w.given, a)
  BY <1>4
<1>q. PICK q : q = <<>>
  OBVIOUS
<1>6. (d \o x) \o q = (d \o q) \o x
  BY <1>q, ThenWhole
<1> QED BY <1>2, <1>3, <1>5, <1>q, <1>6, ConcatNothing DEF Passed

LEMMA ToQueuePassed ==
  ASSUME NEW w \in WorldSet, NEW v, NEW a \in Nat, a <= MaxByteReads, NEW x \in Seq(Nat),
         v.given = w.given, Concat(v.b.queue) = Concat(w.b.queue) \o x
  PROVE  Passed(w, v, a, x)
<1>1. PICK d \in Seq(Nat), q \in Seq(Nat) : d = DeliveredOf(w.given, a) /\ q = Concat(w.b.queue)
  BY DeliveredSeq
<1>2. (d \o q) \o x = d \o (q \o x)
  <2>1. Then(Then(d, q), x) = Then(d, Then(q, x))
    BY ThenThen
  <2> QED BY <2>1 DEF Then
<1> QED BY <1>1, <1>2 DEF Passed

\* The fields that the bytes do not touch.
SameOpen(w, v) == v.b.state = w.b.state /\ v.b.auto = w.b.auto

LEMMA HandIs ==
  ASSUME NEW w, NEW data, w.b.requests # <<>>, NEW k, k = Head(w.b.requests)
  PROVE  HandOrQueue(w, data) = Answers(PopRead(w), k, "value", data)
BY DEF HandOrQueue, Answers, PopRead

\* _deliverAutoAllocated: bytes for the read in front, or for the queue, are behind all that was delivered.
LEMMA HandKeeps ==
  ASSUME NEW w, NEW a \in Nat, a <= MaxByteReads, NEW data \in Seq(Nat), data # <<>>,
         NEW v, v = HandOrQueue(w, data), WorldOK(w, a), WaitsOK(w)
  PROVE  /\ WorldOK(v, a) /\ WaitsOK(v) /\ SameOpen(w, v) /\ v.b.pullIntos = w.b.pullIntos
         /\ InTurn(w) /\ w.b.pullIntos = <<>> => InTurn(v)
         /\ InTurn(w) /\ LaterEmpty(w.given) => LaterEmpty(v.given) /\ Passed(w, v, a, data)
<1>0. w \in WorldSet
  BY DEF WorldOK
<1>1. CASE w.b.requests = <<>>
  <2>1. v = ToQueue(w, data)
    BY <1>1 DEF HandOrQueue
  <2>2. /\ WorldOK(v, a) /\ (WaitsOK(w) => WaitsOK(v)) /\ v.given = w.given
        /\ v.b.state = w.b.state /\ v.b.auto = w.b.auto /\ v.b.requests = w.b.requests
        /\ v.b.pullIntos = w.b.pullIntos /\ Concat(v.b.queue) = Concat(w.b.queue) \o data
    <3>1. Queues(w, v, a, data)
      BY <2>1, ToQueueKeeps
    <3> QED BY <3>1 DEF Queues
  <2>3. w.b.pullIntos = <<>> => InTurn(v)
    BY <2>2, <1>1 DEF InTurn, Overtaken, SomeoneWaits
  <2>4. Passed(w, v, a, data)
    BY <2>2, <1>0, ToQueuePassed
  <2> QED BY <2>2, <2>3, <2>4 DEF SameOpen
<1>2. CASE w.b.requests # <<>>
  <2>1. PICK k : k = Head(w.b.requests)
    OBVIOUS
  <2>2. PICK u : u = PopRead(w)
    OBVIOUS
  <2>3. v = Answers(u, k, "value", data)
    BY <1>2, <2>1, <2>2, HandIs
  <2>4. Longest(w, k, a) /\ WaitsBut(u, k)
    BY <1>2, <2>1, <2>2, LongestRequest
  <2>5. /\ WorldOK(u, a) /\ u.given = w.given
        /\ u.b.state = w.b.state /\ u.b.auto = w.b.auto /\ u.b.requests = Tail(w.b.requests)
        /\ u.b.queue = w.b.queue /\ u.b.pullIntos = w.b.pullIntos
    BY <1>2, <2>2, PopReadKeeps
  <2>6. k \in ByteReads /\ k <= a
    BY <2>4 DEF Longest
  <2>7. /\ WorldOK(v, a) /\ (WaitsBut(u, k) => WaitsOK(v)) /\ (InTurn(u) => InTurn(v)) /\ v.b = u.b
    <3>1. "value" \in {"value", "done", "rejected"}
      OBVIOUS
    <3> QED BY <3>1, <2>3, <2>5, <2>6, AnswersKeeps
  <2>8. InTurn(w) => w.b.queue = <<>>
    BY <1>2 DEF InTurn, Overtaken, SomeoneWaits
  <2>9. InTurn(w) /\ w.b.pullIntos = <<>> => InTurn(v)
    <3>1. SUFFICES ASSUME InTurn(w), w.b.pullIntos = <<>> PROVE InTurn(u)
      BY <2>7
    <3>2. u.b.queue = <<>> /\ u.b.pullIntos = <<>> /\ Len(<<>>) = 0
      BY <3>1, <2>5, <2>8
    <3> QED BY <3>2 DEF InTurn, Overtaken
  <2>10. ASSUME InTurn(w), LaterEmpty(w.given) PROVE LaterEmpty(v.given) /\ Passed(w, v, a, data)
    <3>1. u \in WorldSet /\ u.b.queue = <<>> /\ w.b.queue = <<>> /\ GivenOK(w.given, a)
      BY <2>5, <2>8, <2>10 DEF WorldOK
    <3> QED BY <3>1, <2>3, <2>4, <2>5, <2>10, <1>0, LongestPassed
  <2> QED BY <2>4, <2>5, <2>7, <2>9, <2>10 DEF SameOpen
<1> QED BY <1>1, <1>2

\* A pull-into that is filled is delivered to its read, or for a buffer to a read or
\* the queue.
\* p is the first view, filled; and what becomes of its bytes.
Fills(p, w) ==
  /\ w.b.pullIntos # <<>> /\ p.read = w.b.pullIntos[1].read
  /\ Filled(p) \in Seq(Nat) /\ Filled(p) # <<>>
Delivers(w, v, a, p) ==
  /\ WorldOK(v, a) /\ WaitsOK(v) /\ SameOpen(w, v) /\ v.b.pullIntos = Tail(w.b.pullIntos)
  /\ Held(v.b.pullIntos) = <<>>
  /\ InTurn(w) /\ w.b.pullIntos[1].read # 0 => InTurn(v)
  /\ w.b.pullIntos[1].read # 0 => v.b.requests = w.b.requests
  /\ InTurn(w) /\ LaterEmpty(w.given) => LaterEmpty(v.given) /\ Passed(w, v, a, Filled(p))

\* A view that is filled brings its bytes behind all that was delivered.
LEMMA DeliverKeeps ==
  ASSUME NEW w, NEW a \in Nat, a <= MaxByteReads, WorldOK(w, a), WaitsOK(w), NEW p, Fills(p, w),
         NEW v, v = Deliver(Pop(w), p)
  PROVE  Delivers(w, v, a, p)
<1>f. /\ w.b.pullIntos # <<>> /\ p.read = w.b.pullIntos[1].read
      /\ Filled(p) \in Seq(Nat) /\ Filled(p) # <<>>
  BY DEF Fills
<1>0. w \in WorldSet /\ GivenOK(w.given, a)
  BY DEF WorldOK
<1>1. PICK u : u = Pop(w)
  OBVIOUS
<1>2. /\ WorldOK(u, a) /\ (InTurn(w) => InTurn(u)) /\ u.given = w.given
      /\ u.b.state = w.b.state /\ u.b.auto = w.b.auto /\ u.b.requests = w.b.requests
      /\ u.b.queue = w.b.queue /\ u.b.pullIntos = Tail(w.b.pullIntos) /\ Held(u.b.pullIntos) = <<>>
  BY <1>f, <1>1, PopKeeps, SMTT(60)
<1>3. PICK x \in Seq(Nat) : x = Filled(p) /\ x # <<>>
  BY <1>f
<1>4. CASE p.read = 0
  <2>1. v = HandOrQueue(u, x)
    BY <1>1, <1>3, <1>4 DEF Deliver, Filled
  <2>2. WaitsOK(u)
    BY <1>f, <1>1, <1>4, PopNobody
  <2>3. /\ WorldOK(v, a) /\ WaitsOK(v) /\ SameOpen(u, v) /\ v.b.pullIntos = u.b.pullIntos
        /\ InTurn(u) /\ LaterEmpty(u.given) => LaterEmpty(v.given) /\ Passed(u, v, a, x)
    BY <2>1, <2>2, <1>2, <1>3, HandKeeps
  <2>4. Passed(u, v, a, x) => Passed(w, v, a, x)
    BY <1>2 DEF Passed
  <2> QED BY <2>3, <2>4, <1>2, <1>3, <1>4, <1>f DEF SameOpen, Delivers
<1>5. CASE p.read # 0
  <2>1. PICK k : k = w.b.pullIntos[1].read /\ k # 0 /\ k = p.read
    BY <1>f, <1>5
  <2>2. v = Answers(u, k, "value", x)
    BY <1>1, <1>3, <1>5, <2>1 DEF Deliver, Filled, Answers
  <2>3. Longest(w, k, a) /\ WaitsBut(u, k)
    BY <1>f, <1>1, <2>1, LongestView
  <2>4. k \in ByteReads /\ k <= a
    BY <2>3 DEF Longest
  <2>5. /\ WorldOK(v, a) /\ (WaitsBut(u, k) => WaitsOK(v)) /\ (InTurn(u) => InTurn(v)) /\ v.b = u.b
    <3>1. "value" \in {"value", "done", "rejected"}
      OBVIOUS
    <3> QED BY <3>1, <2>2, <2>4, <1>2, AnswersKeeps
  <2>6. ASSUME InTurn(w), LaterEmpty(w.given) PROVE LaterEmpty(v.given) /\ Passed(w, v, a, x)
    <3>1. Len(w.b.pullIntos) \in Nat \ {0}
      <4>1. w.b.pullIntos \in Seq(PullIntoSet)
        BY <1>0, WorldFields, FieldFields
      <4> QED BY <4>1, <1>f
    <3>2. SomeoneWaits(w)
      <4>1. 1 \in 1..Len(w.b.pullIntos)
        BY <3>1
      <4> QED BY <4>1, <2>1 DEF SomeoneWaits
    <3>3. w.b.queue = <<>>
      BY <3>2, <2>6 DEF InTurn, Overtaken
    <3>4. u \in WorldSet /\ u.b.queue = <<>>
      BY <3>3, <1>2 DEF WorldOK
    <3> QED BY <3>3, <3>4, <2>2, <2>3, <1>0, <1>2, <2>6, LongestPassed
  <2> QED BY <2>3, <2>5, <2>6, <1>2, <1>3 DEF SameOpen, Delivers
<1> QED BY <1>4, <1>5

-----------------------------------------------------------------------------
(***************************************************************************)
(* One turn of _fillPendingFromBytes.                                      *)
(***************************************************************************)
LEMMA ThenType ==
  ASSUME NEW T, NEW x \in Seq(T), NEW y \in Seq(T) PROVE Then(x, y) \in Seq(T)
BY DEF Then

\* Bytes that are kept in the first view, or delivered with what it held.
LEMMA FlowPart ==
  ASSUME NEW d \in Seq(Nat), NEW q \in Seq(Nat), NEW h \in Seq(Nat), NEW x \in Seq(Nat), NEW k, k = Then(h, x)
  PROVE  Then(d, Then(q, k)) = Then(Then(d, Then(q, h)), x)
<1>1. Then(q, h) \in Seq(Nat) /\ Then(h, x) \in Seq(Nat)
  BY ThenType
<1>2. Then(Then(d, Then(q, h)), x) = Then(d, Then(Then(q, h), x))
  BY <1>1, ThenThen
<1>3. Then(Then(q, h), x) = Then(q, Then(h, x))
  BY ThenThen
<1> QED BY <1>2, <1>3

Moves(e, r, d, q, k) == Then(e, r) = Then(Then(d, q), k)
Moved(e, r, d, q, h, x) == Then(e, Then(r, <<>>)) = Then(Then(d, Then(q, h)), x)

LEMMA FlowFull ==
  ASSUME NEW d \in Seq(Nat), NEW q \in Seq(Nat), NEW h \in Seq(Nat), NEW x \in Seq(Nat), NEW k, k = Then(h, x),
         NEW e \in Seq(Nat), NEW r \in Seq(Nat), Moves(e, r, d, q, k)
  PROVE  Moved(e, r, d, q, h, x)
<1>1. Then(r, <<>>) = r
  BY ConcatEmptySeq DEF Then
<1>2. k \in Seq(Nat)
  BY ThenType
<1>3. Then(Then(d, q), k) = Then(d, Then(q, k))
  BY <1>2, ThenThen
<1> QED BY <1>1, <1>3, FlowPart DEF Moves, Moved

LEMMA WrittenIs ==
  ASSUME NEW p \in PullIntoSet, NEW data \in Seq(Nat), NEW n \in Nat, n <= Len(data),
         p.filled + n <= Len(p.data), NEW q, q = Written(p, data, n)
  PROVE  /\ q \in PullIntoSet /\ q.read = p.read /\ Len(q.data) = Len(p.data) /\ q.filled = p.filled + n
         /\ Filled(q) \in Seq(Nat) /\ Len(Filled(q)) = p.filled + n
         /\ Filled(q) = Then(Filled(p), SubSeq(data, 1, n))
<1>1. p.read \in Nat /\ p.data \in Seq(Nat) /\ p.filled \in Nat
  BY DEF PullIntoSet
<1>2. PICK d \in Seq(Nat), f \in Nat, m \in Nat : d = p.data /\ f = p.filled /\ m = Len(d)
  BY <1>1
<1>3. PICK z : z = [i \in 1..m |-> IF i \in f + 1..f + n THEN data[i - f] ELSE d[i]]
  OBVIOUS
<1>4. z \in Seq(Nat) /\ Len(z) = m /\ \A i \in 1..m : z[i] = IF i \in f + 1..f + n THEN data[i - f] ELSE d[i]
  <2>1. ASSUME NEW i \in 1..m PROVE (IF i \in f + 1..f + n THEN data[i - f] ELSE d[i]) \in Nat
    <3>1. CASE i \in f + 1..f + n
      <4>1. i - f \in 1..Len(data)
        BY <3>1, <1>2, SMTT(60)
      <4>2. data[i - f] \in Nat
        BY <4>1
      <4> QED BY <3>1, <4>2
    <3>2. CASE ~(i \in f + 1..f + n)
      BY <3>2, <1>2, SMTT(60)
    <3> QED BY <3>1, <3>2
  <2>2. z \in [1..m -> Nat]
    BY <2>1, <1>3
  <2>3. z \in Seq(Nat) /\ Len(z) = m
    <3>1. \A i \in 1..m : z[i] \in Nat
      BY <2>2
    <3>2. z = [i \in 1..m |-> z[i]]
      BY <2>2
    <3>3. [i \in 1..m |-> z[i]] \in Seq(Nat) /\ Len([i \in 1..m |-> z[i]]) = m
      BY <3>1, <1>2
    <3> QED BY <3>2, <3>3
  <2> QED BY <2>3, <1>3
<1>5. q = [p EXCEPT !.filled = f + n, !.data = z]
  BY <1>2, <1>3 DEF Written, PullIntoSet
<1>6. q \in PullIntoSet /\ q.read = p.read /\ q.data = z /\ q.filled = f + n
  <2>1. PICK g \in Nat : g = f + n
    BY <1>2
  <2>2. q = [p EXCEPT !.filled = g, !.data = z]
    BY <2>1, <1>5
  <2> QED BY <2>1, <2>2, <1>4 DEF PullIntoSet
<1>7. Filled(q) \in Seq(Nat) /\ Len(Filled(q)) = f + n /\ \A i \in 1..f + n : Filled(q)[i] = z[i]
  <2>1. q.filled <= Len(q.data)
    BY <1>2, <1>4, <1>6
  <2> QED BY <2>1, <1>6, FilledType
<1>8. Filled(p) \in Seq(Nat) /\ Len(Filled(p)) = f /\ \A i \in 1..f : Filled(p)[i] = d[i]
  <2>1. p.filled <= Len(p.data)
    BY <1>2
  <2> QED BY <2>1, <1>2, FilledType
<1>9. SubSeq(data, 1, n) \in Seq(Nat) /\ Len(SubSeq(data, 1, n)) = n /\ \A i \in 1..n : SubSeq(data, 1, n)[i] = data[i]
  OBVIOUS
<1>10. PICK x \in Seq(Nat), y \in Seq(Nat), t \in Seq(Nat) : x = Filled(p) /\ y = SubSeq(data, 1, n) /\ t = Filled(q)
  BY <1>7, <1>8, <1>9
<1>11. t = x \o y
  <2>1. Len(x \o y) = f + n /\ x \o y \in Seq(Nat)
    <3>1. Len(x) = f /\ Len(y) = n
      BY <1>8, <1>9, <1>10
    <3>2. Len(x \o y) = Len(x) + Len(y) /\ x \o y \in Seq(Nat)
      OBVIOUS
    <3> QED BY <3>1, <3>2
  <2>2. ASSUME NEW i \in 1..f + n PROVE t[i] = (x \o y)[i]
    <3>1. (x \o y)[i] = IF i <= f THEN x[i] ELSE y[i - f]
      BY <1>8, <1>9, <1>10, SMTT(60)
    <3>2. t[i] = IF i \in f + 1..f + n THEN data[i - f] ELSE d[i]
      <4>1. i \in 1..m
        BY <1>2
      <4> QED BY <4>1, <1>4, <1>7, <1>10
    <3>3. CASE i <= f
      <4>1. ~(i \in f + 1..f + n) /\ i \in 1..f
        BY <3>3
      <4> QED BY <4>1, <3>1, <3>2, <3>3, <1>8, <1>10
    <3>4. CASE ~(i <= f)
      <4>1. i \in f + 1..f + n /\ i - f \in 1..n
        BY <3>4
      <4> QED BY <4>1, <3>1, <3>2, <3>4, <1>9, <1>10
    <3> QED BY <3>3, <3>4
  <2>3. PICK s \in Seq(Nat) : s = x \o y
    BY <2>1
  <2>4. Len(t) = f + n
    BY <1>7, <1>10
  <2> QED BY <2>1, <2>2, <2>3, <2>4, SeqEqual
<1> QED BY <1>2, <1>4, <1>6, <1>7, <1>10, <1>11 DEF Then

Put(w, q) == [w EXCEPT !.b.pullIntos[1] = q]

\* The view in front is replaced.
LEMMA PutIs ==
  ASSUME NEW w \in WorldSet, w.b.pullIntos # <<>>, NEW q \in PullIntoSet, NEW v, v = Put(w, q)
  PROVE  /\ SameFlags(w, v) /\ SameQueue(w, v) /\ v.given = w.given /\ v.b.requests = w.b.requests
         /\ v.b.request = w.b.request /\ v.b.pullIntos \in Seq(PullIntoSet)
         /\ Len(v.b.pullIntos) = Len(w.b.pullIntos) /\ v.b.pullIntos[1] = q
         /\ \A j \in 1..Len(w.b.pullIntos) : j # 1 => v.b.pullIntos[j] = w.b.pullIntos[j]
<1>1. PICK b \in FieldSet : b = w.b
  BY WorldFields
<1>2. PICK s \in Seq(PullIntoSet) : s = b.pullIntos /\ s # <<>>
  BY <1>1, FieldFields
<1>3. PICK t : t = [s EXCEPT ![1] = q]
  OBVIOUS
<1>4. t \in Seq(PullIntoSet) /\ Len(t) = Len(s) /\ t[1] = q /\ \A j \in 1..Len(s) : j # 1 => t[j] = s[j]
  <2>1. 1 \in 1..Len(s)
    BY <1>2
  <2>2. t \in Seq(PullIntoSet) /\ Len(t) = Len(s)
    BY <2>1, <1>3
  <2> QED BY <2>1, <2>2, <1>3
<1>5. PICK c : c = [b EXCEPT !.pullIntos = t]
  OBVIOUS
<1>6. v = [w EXCEPT !.b = c]
  BY <1>1, <1>2, <1>3, <1>5 DEF Put, WorldSet, FieldSet
<1>7. c \in FieldSet
  BY <1>4, <1>5 DEF FieldSet
<1>8. v \in WorldSet /\ v.b = c /\ v.given = w.given /\ v.holders = w.holders /\ v.pulls = w.pulls
  BY <1>6, <1>7 DEF WorldSet
<1>9. c.reader = b.reader /\ c.auto = b.auto /\ c.closeRequested = b.closeRequested
      /\ c.pulling = b.pulling /\ c.pullAgain = b.pullAgain /\ c.state = b.state /\ c.requests = b.requests
      /\ c.queue = b.queue /\ c.queueTotalSize = b.queueTotalSize /\ c.pullIntos = t
      /\ c.request = b.request
  BY <1>5 DEF FieldSet
<1> QED BY <1>1, <1>2, <1>4, <1>8, <1>9 DEF SameFlags, SameQueue

\* q takes the place of the first view, and what v then has of w.
Replaces(q, w) ==
  /\ w.b.pullIntos # <<>> /\ q \in PullIntoSet /\ q.filled < Len(q.data)
  /\ q.read = w.b.pullIntos[1].read /\ Len(q.data) = Len(w.b.pullIntos[1].data)
Replaced(w, v, a, q) ==
  /\ WorldOK(v, a) /\ (WaitsOK(w) => WaitsOK(v)) /\ (InTurn(w) => InTurn(v))
  /\ SameOpen(w, v) /\ v.given = w.given /\ v.b.requests = w.b.requests /\ v.b.queue = w.b.queue
  /\ Len(v.b.pullIntos) = Len(w.b.pullIntos) /\ Held(v.b.pullIntos) = Filled(q)

LEMMA PutKeeps ==
  ASSUME NEW w, NEW a \in Nat, WorldOK(w, a), NEW q, Replaces(q, w), NEW v, v = Put(w, q)
  PROVE  Replaced(w, v, a, q)
<1>0. /\ w.b.pullIntos # <<>> /\ q \in PullIntoSet /\ q.filled < Len(q.data)
      /\ q.read = w.b.pullIntos[1].read /\ Len(q.data) = Len(w.b.pullIntos[1].data)
  BY DEF Replaces
<1>1. w \in WorldSet
  BY DEF WorldOK
<1>2. PICK s \in Seq(PullIntoSet) : s = w.b.pullIntos /\ s # <<>>
  BY <1>0, <1>1, WorldFields, FieldFields
<1>3. PICK t : t = v.b.pullIntos
  OBVIOUS
<1>4. /\ SameFlags(w, v) /\ SameQueue(w, v) /\ v.given = w.given /\ v.b.requests = w.b.requests
      /\ v.b.request = w.b.request /\ t \in Seq(PullIntoSet) /\ Len(t) = Len(s) /\ t[1] = q
      /\ \A j \in 1..Len(s) : j # 1 => t[j] = s[j]
  BY <1>1, <1>2, <1>3, <1>0, PutIs, SMTT(60)
<1>5. ViewsOK(s, a) /\ Len(s) \in Nat \ {0} /\ 1 \in 1..Len(s)
  BY <1>0, <1>2 DEF WorldOK
<1>6. \A j \in 1..Len(s) : t[j].read = s[j].read
  BY <1>0, <1>2, <1>4
<1>7. ViewsOK(t, a)
  <2>1. ASSUME NEW j \in 1..Len(t) PROVE t[j].read \in 0..a /\ t[j].filled < Len(t[j].data)
    <3>1. s[j].read \in 0..a /\ s[j].filled < Len(s[j].data)
      BY <1>4, <1>5 DEF ViewsOK
    <3> QED BY <3>1, <1>0, <1>4, <1>6
  <2>2. ASSUME NEW i \in 1..Len(t), NEW j \in 1..Len(t), i < j
        PROVE  t[i].read < t[j].read /\ t[j].filled = 0
    <3>1. s[i].read < s[j].read /\ s[j].filled = 0
      BY <2>2, <1>4, <1>5 DEF ViewsOK
    <3>2. j # 1
      BY <2>2
    <3> QED BY <3>1, <3>2, <1>0, <1>4, <1>6
  <2> QED BY <2>1, <2>2 DEF ViewsOK
<1>8. RequestOK(v.b.request, t)
  <2>1. t # <<>>
    BY <1>4, <1>5
  <2>2. Len(t[1].data) = Len(s[1].data)
    BY <1>0, <1>2, <1>4
  <2> QED BY <2>1, <2>2, <1>2, <1>4 DEF WorldOK, RequestOK
<1>9. LockOK(v.b, v.holders)
  <2>1. v.b.reader \in 0..Len(v.holders) /\ (v.b.requests # <<>> => v.b.reader # 0 /\ v.holders[v.b.reader].kind = "default")
    BY <1>4 DEF SameFlags, WorldOK, LockOK
  <2>2. ASSUME NEW j \in 1..Len(t), t[j].read # 0
        PROVE  v.b.reader # 0 /\ v.holders[v.b.reader].kind = "byob"
    <3>1. j \in 1..Len(w.b.pullIntos) /\ w.b.pullIntos[j].read # 0
      BY <2>2, <1>2, <1>0, <1>4, <1>6
    <3>2. w.b.reader # 0 /\ w.holders[w.b.reader].kind = "byob"
      BY <3>1 DEF WorldOK, LockOK
    <3> QED BY <3>2, <1>4 DEF SameFlags
  <2>3. v.b.state = "readable"
    BY <1>0, <1>4 DEF SameFlags, WorldOK, LockOK
  <2>4. v.b.auto = 0 => \A j \in 1..Len(t) : t[j].read # 0
    BY <1>2, <1>4, <1>6 DEF SameFlags, WorldOK, LockOK
  <2> QED BY <2>1, <2>2, <2>3, <2>4, <1>3 DEF LockOK
<1>10. QueueOK(v.b.queue, v.b.queueTotalSize) /\ v \in WorldSet /\ Rising(v.b.requests) /\ GivenOK(v.given, a)
       /\ ToldOK(v.b, v.holders) /\ (v.b.pulling = TRUE <=> v.pulls # "none")
  BY <1>4 DEF WorldOK, SameFlags, SameQueue, ToldOK
<1>11. WorldOK(v, a)
  BY <1>3, <1>7, <1>8, <1>9, <1>10 DEF WorldOK
<1>12. WaitsOK(w) => WaitsOK(v)
  <2>1. \A k \in ByteReads : HasView(k, t) <=> HasView(k, s)
    BY <1>4, <1>6 DEF HasView
  <2> QED BY <2>1, <1>2, <1>3, <1>4 DEF WaitsOK
<1>13. InTurn(w) => InTurn(v)
  <2>1. (\E j \in 1..Len(t) : t[j].read # 0) <=> \E j \in 1..Len(s) : s[j].read # 0
    BY <1>0, <1>4, <1>6
  <2>2. SomeoneWaits(v) <=> SomeoneWaits(w)
    BY <2>1, <1>2, <1>3, <1>4 DEF SomeoneWaits
  <2>3. (\E j \in 1..Len(t) : t[1].read = 0 /\ t[j].read # 0) <=> \E j \in 1..Len(s) : s[1].read = 0 /\ s[j].read # 0
    <3>1. t[1].read = s[1].read
      BY <1>4, <1>5, <1>6
    <3> QED BY <2>1, <3>1, Zenon
  <2> QED BY <2>2, <2>3, <1>2, <1>3, <1>4 DEF InTurn, Overtaken, SameQueue
<1>14. Held(t) = Filled(q)
  <2>1. t # <<>>
    BY <1>4, <1>5
  <2> QED BY <2>1, <1>4, <1>7, HeldFirst
<1> QED BY <1>2, <1>3, <1>4, <1>11, <1>12, <1>13, <1>14 DEF SameFlags, SameQueue, SameOpen, Replaced

-----------------------------------------------------------------------------
\* What holds while bytes are on their way to the views: what was given, what is kept
\* and what is left are the bytes in their order.
Flow(w, a, x) == Then(Then(DeliveredOf(w.given, a), KeptOf(w.b)), x)
Turning(s, a, n) ==
  /\ WorldOK(s.w, a) /\ WaitsOK(s.w) /\ LaterEmpty(s.w.given) /\ s.data \in Seq(Nat)
  /\ Flow(s.w, a, s.data) = Numbers(0, n)
  /\ s.data # <<>> /\ s.w.b.pullIntos # <<>> => InTurn(s.w)
  /\ s.w.b.auto = 0 => InTurn(s.w) /\ s.w.b.requests = <<>>
  /\ s.w.b.state = "readable"

\* t is s after a turn that wrote n bytes into q.
FirstTurn(s, t, n, q) ==
  /\ t.w = IF q.filled < Len(q.data) THEN Put(s.w, q) ELSE Deliver(Pop(s.w), q)
  /\ t.data = SubSeq(s.data, n + 1, Len(s.data))

LEMMA FillFirstIs ==
  ASSUME NEW s, s.data # <<>>, s.w.b.pullIntos # <<>>, NEW p, p = Head(s.w.b.pullIntos),
         NEW n, n = Least(Len(p.data) - p.filled, Len(s.data)), NEW q, q = Written(p, s.data, n),
         NEW t, t = FillFirst(s)
  PROVE  FirstTurn(s, t, n, q)
<1> DEFINE P == Head(s.w.b.pullIntos)
<1> DEFINE N == Least(Len(P.data) - P.filled, Len(s.data))
<1> DEFINE Q == Written(P, s.data, N)
<1>1. FillFirst(s) = [w |-> IF Q.filled < Len(Q.data) THEN Put(s.w, Q) ELSE Deliver(Pop(s.w), Q),
                      data |-> SubSeq(s.data, N + 1, Len(s.data))]
  BY Zenon DEF FillFirst, Put, Pop
<1>2. p = P /\ n = N /\ q = Q
  OBVIOUS
<1> HIDE DEF P, N, Q
<1>3. PICK x, y : /\ x = IF Q.filled < Len(Q.data) THEN Put(s.w, Q) ELSE Deliver(Pop(s.w), Q)
                  /\ y = SubSeq(s.data, N + 1, Len(s.data))
  OBVIOUS
<1>4. t = [w |-> x, data |-> y]
  BY <1>1, <1>3
<1>5. t.w = x /\ t.data = y
  BY <1>4
<1> QED BY <1>2, <1>3, <1>5, Zenon DEF FirstTurn

LEMMA FlowTail ==
  ASSUME NEW x \in Seq(Nat), NEW n \in 0..Len(x)
  PROVE  Then(SubSeq(x, 1, n), SubSeq(x, n + 1, Len(x))) = x
<1>1. SubSeq(x, 1, n) \o SubSeq(x, n + 1, Len(x)) = SubSeq(x, 1, Len(x))
  <2>1. 1 \in 1..(Len(x) + 1) /\ n \in (1 - 1)..Len(x) /\ Len(x) \in n..Len(x)
    OBVIOUS
  <2> QED BY <2>1, ConcatAdjacentSubSeq
<1> QED BY <1>1, SubSeqFull DEF Then

LEMMA LeastIs ==
  ASSUME NEW x \in Nat, NEW y \in Nat
  PROVE  Least(x, y) \in Nat /\ Least(x, y) <= x /\ Least(x, y) <= y /\ (Least(x, y) = x \/ Least(x, y) = y)
BY DEF Least

\* What is kept, as a sequence.
LEMMA KeptSeq ==
  ASSUME NEW w, NEW a \in Nat, WorldOK(w, a)
  PROVE  /\ Concat(w.b.queue) \in Seq(Nat) /\ Held(w.b.pullIntos) \in Seq(Nat)
         /\ KeptOf(w.b) = Then(Concat(w.b.queue), Held(w.b.pullIntos))
<1>1. w \in WorldSet /\ ViewsOK(w.b.pullIntos, a)
  BY DEF WorldOK
<1>2. w.b.queue \in Seq(Seq(Nat)) /\ w.b.pullIntos \in Seq(PullIntoSet)
  BY <1>1, WorldFields, FieldFields
<1>3. Held(w.b.pullIntos) \in Seq(Nat)
  BY <1>1, <1>2, HeldType
<1> QED BY <1>2, <1>3, ConcatType DEF KeptOf, Then

\* An empty rest changes nothing.
LEMMA FlowEnds ==
  ASSUME NEW w, NEW a \in Nat, a <= MaxByteReads, WorldOK(w, a)
  PROVE  /\ DeliveredOf(w.given, a) \in Seq(Nat) /\ KeptOf(w.b) \in Seq(Nat)
         /\ Flow(w, a, <<>>) = Then(DeliveredOf(w.given, a), KeptOf(w.b))
<1>1. w \in WorldSet
  BY DEF WorldOK
<1>2. DeliveredOf(w.given, a) \in Seq(Nat)
  BY <1>1, DeliveredSeq
<1>3. KeptOf(w.b) \in Seq(Nat)
  BY KeptSeq, ThenType
<1>4. PICK x \in Seq(Nat) : x = Then(DeliveredOf(w.given, a), KeptOf(w.b))
  BY <1>2, <1>3, ThenType
<1>5. x \o <<>> = x
  BY ConcatEmptySeq
<1> QED BY <1>2, <1>3, <1>4, <1>5 DEF Flow, Then

\* A view in front of others is not a buffer when nobody is out of turn.
LEMMA FirstIsRead ==
  ASSUME NEW w, NEW a \in Nat, WorldOK(w, a), w.b.pullIntos # <<>>,
         InTurn(w), Tail(w.b.pullIntos) # <<>> \/ w.b.auto = 0
  PROVE  w.b.pullIntos[1].read # 0
<1>1. w \in WorldSet /\ ViewsOK(w.b.pullIntos, a)
  BY DEF WorldOK
<1>2. PICK s \in Seq(PullIntoSet) : s = w.b.pullIntos /\ s # <<>>
  BY <1>1, WorldFields, FieldFields
<1>3. Len(s) \in Nat \ {0} /\ 1 \in 1..Len(s)
  BY <1>2
<1>4. CASE w.b.auto = 0
  BY <1>2, <1>3, <1>4 DEF WorldOK, LockOK
<1>5. CASE Tail(s) # <<>>
  <2>1. 2 \in 1..Len(s)
    BY <1>2, <1>5
  <2>2. s[1].read < s[2].read /\ s[1] \in PullIntoSet /\ s[2] \in PullIntoSet
    BY <2>1, <1>1, <1>2, <1>3 DEF ViewsOK
  <2>3. s[2].read # 0
    BY <2>2 DEF PullIntoSet
  <2>4. SomeoneWaits(w)
    BY <2>1, <2>3, <1>2 DEF SomeoneWaits
  <2>5. ~(s[1].read = 0 /\ s[2].read # 0)
    BY <2>1, <2>4, <1>2 DEF InTurn, Overtaken
  <2> QED BY <2>3, <2>5, <1>2
<1> QED BY <1>2, <1>4, <1>5

LEMMA RestOf ==
  ASSUME NEW x \in Seq(Nat), NEW n \in 0..Len(x)
  PROVE  /\ SubSeq(x, 1, n) \in Seq(Nat) /\ SubSeq(x, n + 1, Len(x)) \in Seq(Nat)
         /\ n = Len(x) => SubSeq(x, n + 1, Len(x)) = <<>> /\ SubSeq(x, 1, n) = x
<1>1. SubSeq(x, 1, n) \in Seq(Nat) /\ SubSeq(x, n + 1, Len(x)) \in Seq(Nat)
  OBVIOUS
<1>2. n = Len(x) => SubSeq(x, n + 1, Len(x)) = <<>>
  OBVIOUS
<1>3. n = Len(x) => SubSeq(x, 1, n) = x
  BY SubSeqFull
<1> QED BY <1>1, <1>2, <1>3

\* A turn of the loop keeps the order, and there is one view less, or no byte left.
LEMMA TurnKeeps ==
  ASSUME NEW s, NEW a \in Nat, a <= MaxByteReads, NEW n \in Nat, Turning(s, a, n), NEW t, t = FillFirst(s)
  PROVE  /\ Turning(t, a, n)
         /\ \/ t.data = <<>> \/ t.w.b.pullIntos = <<>>
            \/ Len(t.w.b.pullIntos) = Len(s.w.b.pullIntos) - 1
<1>1. CASE s.data = <<>> \/ s.w.b.pullIntos = <<>>
  <2>1. t = s
    BY <1>1, Zenon DEF FillFirst
  <2> QED BY <2>1, <1>1, Zenon
<1>2. CASE s.data # <<>> /\ s.w.b.pullIntos # <<>>
  <2>1. PICK w : w = s.w /\ WorldOK(w, a) /\ WaitsOK(w) /\ LaterEmpty(w.given) /\ InTurn(w)
                 /\ (w.b.auto = 0 => w.b.requests = <<>>) /\ w.b.state = "readable"
    BY <1>2 DEF Turning
  <2>2. PICK x \in Seq(Nat) : x = s.data /\ x # <<>> /\ Flow(w, a, x) = Numbers(0, n)
    BY <1>2, <2>1 DEF Turning
  <2>3. PICK vs \in Seq(PullIntoSet) : vs = w.b.pullIntos /\ vs # <<>> /\ ViewsOK(vs, a)
    <3>1. w \in WorldSet /\ ViewsOK(w.b.pullIntos, a)
      BY <2>1 DEF WorldOK
    <3> QED BY <3>1, <1>2, <2>1, WorldFields, FieldFields
  <2>4. PICK p \in PullIntoSet : p = Head(vs) /\ p = vs[1]
    BY <2>3
  <2>5. PICK f \in Nat, m \in Nat : f = p.filled /\ m = Len(p.data) /\ f < m
    <3>1. p.filled \in Nat /\ p.data \in Seq(Nat)
      BY DEF PullIntoSet
    <3>2. 1 \in 1..Len(vs)
      BY <2>3
    <3>3. p.filled < Len(p.data)
      BY <3>2, <2>3, <2>4 DEF ViewsOK
    <3> QED BY <3>1, <3>3
  <2>6. PICK k \in Nat : k = Least(m - f, Len(x)) /\ k <= m - f /\ k \in 0..Len(x) /\ (k = m - f \/ k = Len(x))
    <3>1. m - f \in Nat /\ Len(x) \in Nat
      BY <2>5
    <3>2. PICK k \in Nat : k = Least(m - f, Len(x)) /\ k <= m - f /\ k <= Len(x) /\ (k = m - f \/ k = Len(x))
      <4>1. PICK u \in Nat, z \in Nat : u = m - f /\ z = Len(x)
        BY <3>1
      <4>2. Least(u, z) \in Nat /\ Least(u, z) <= u /\ Least(u, z) <= z /\ (Least(u, z) = u \/ Least(u, z) = z)
        BY LeastIs
      <4> QED BY <4>1, <4>2
    <3>3. k \in 0..Len(x)
      BY <3>1, <3>2
    <3> QED BY <3>2, <3>3
  <2>7. PICK q : q = Written(p, x, k)
    OBVIOUS
  <2>8. /\ q \in PullIntoSet /\ q.read = p.read /\ Len(q.data) = m /\ q.filled = f + k
        /\ Filled(q) \in Seq(Nat) /\ Len(Filled(q)) = f + k
        /\ Filled(q) = Then(Filled(p), SubSeq(x, 1, k))
    <3>1. k <= Len(x) /\ p.filled + k <= Len(p.data)
      BY <2>5, <2>6
    <3> QED BY <3>1, <2>5, <2>7, WrittenIs, SMTT(60)
  <2>9. PICK v : v = t.w /\ t.data = SubSeq(x, k + 1, Len(x))
                 /\ v = IF q.filled < Len(q.data) THEN Put(w, q) ELSE Deliver(Pop(w), q)
    <3>1. p = Head(s.w.b.pullIntos) /\ k = Least(Len(p.data) - p.filled, Len(s.data)) /\ q = Written(p, s.data, k)
      BY <2>1, <2>2, <2>3, <2>4, <2>5, <2>6, <2>7, ZenonT(60)
    <3>2. FirstTurn(s, t, k, q)
      BY <3>1, <1>2, FillFirstIs
    <3> QED BY <3>2, <2>1, <2>2, Zenon DEF FirstTurn
  <2>10. PICK d \in Seq(Nat), c \in Seq(Nat), h \in Seq(Nat), y \in Seq(Nat) :
            /\ d = DeliveredOf(w.given, a) /\ c = Concat(w.b.queue) /\ h = Filled(p) /\ y = SubSeq(x, 1, k)
            /\ Held(w.b.pullIntos) = h
    <3>1. Held(vs) = Filled(p)
      BY <2>3, <2>4, HeldFirst
    <3>2. Filled(p) \in Seq(Nat)
      <4>1. p.filled <= Len(p.data)
        BY <2>5
      <4> QED BY <4>1, FilledType
    <3>3. DeliveredOf(w.given, a) \in Seq(Nat) /\ Concat(w.b.queue) \in Seq(Nat)
      BY <2>1, FlowEnds, KeptSeq
    <3>4. SubSeq(x, 1, k) \in Seq(Nat)
      BY <2>6, RestOf
    <3> QED BY <3>1, <3>2, <3>3, <3>4, <2>3
  <2>11. Flow(w, a, x) = Then(Then(d, Then(c, h)), x)
    <3>1. KeptOf(w.b) = Then(Concat(w.b.queue), Held(w.b.pullIntos))
      BY <2>1, KeptSeq
    <3> QED BY <3>1, <2>10 DEF Flow
  <2>12. CASE f + k < m
    <3>1. v = Put(w, q) /\ k = Len(x)
      <4>1. q.filled < Len(q.data) /\ k # m - f
        <5>1. k # m - f
          BY <2>12
        <5> QED BY <5>1, <2>8, <2>12
      <4> QED BY <4>1, <2>6, <2>9
    <3>2. t.data = <<>> /\ y = x
      BY <3>1, <2>6, <2>9, <2>10, RestOf
    <3>3. /\ WorldOK(v, a) /\ (WaitsOK(w) => WaitsOK(v)) /\ (InTurn(w) => InTurn(v))
          /\ SameOpen(w, v) /\ v.given = w.given /\ v.b.requests = w.b.requests /\ v.b.queue = w.b.queue
          /\ Held(v.b.pullIntos) = Filled(q)
      <4>1. q.filled < Len(q.data)
        BY <2>8, <2>12
      <4>2. Replaces(q, w)
        BY <4>1, <2>3, <2>4, <2>5, <2>8 DEF Replaces
      <4>3. Replaced(w, v, a, q)
        BY <4>2, <3>1, <2>1, PutKeeps
      <4> QED BY <4>3 DEF Replaced
    <3>4. Flow(v, a, t.data) = Then(d, Then(c, Filled(q)))
      <4>1. Flow(v, a, <<>>) = Then(DeliveredOf(v.given, a), KeptOf(v.b))
        BY <3>3, FlowEnds
      <4>2. KeptOf(v.b) = Then(Concat(v.b.queue), Held(v.b.pullIntos))
        BY <3>3, KeptSeq
      <4> QED BY <4>1, <4>2, <3>2, <3>3, <2>10
    <3>5. Filled(q) = Then(h, x)
      BY <2>8, <2>10, <3>2
    <3>6. Flow(v, a, t.data) = Numbers(0, n)
      BY <3>4, <3>5, <2>2, <2>11, FlowPart
    <3>7. t.data \in Seq(Nat)
      BY <3>2, SomeBytes
    <3> QED BY <3>2, <3>3, <3>6, <3>7, <2>1, <2>9 DEF Turning, SameOpen
  <2>13. CASE ~(f + k < m)
    <3>1. v = Deliver(Pop(w), q) /\ f + k = m
      <4>1. ~(q.filled < Len(q.data)) /\ f + k = m
        <5>0. k <= m - f
          BY <2>6
        <5>1. f + k = m
          BY <5>0, <2>13
        <5> QED BY <5>1, <2>8, <2>13
      <4> QED BY <4>1, <2>9
    <3>2. Filled(q) # <<>>
      <4>1. Len(Filled(q)) # 0
        BY <3>1, <2>5, <2>8
      <4> QED BY <4>1
    <3>3. w.b.pullIntos # <<>> /\ q.read = w.b.pullIntos[1].read
      BY <2>3, <2>4, <2>8
    <3>4. /\ WorldOK(v, a) /\ WaitsOK(v) /\ SameOpen(w, v) /\ v.b.pullIntos = Tail(w.b.pullIntos)
          /\ Held(v.b.pullIntos) = <<>>
          /\ w.b.pullIntos[1].read # 0 => InTurn(v) /\ v.b.requests = w.b.requests
          /\ LaterEmpty(v.given) /\ Passed(w, v, a, Filled(q))
      <4>1. Fills(q, w)
        BY <3>2, <3>3, <2>8 DEF Fills
      <4>2. Delivers(w, v, a, q)
        BY <4>1, <3>1, <2>1, DeliverKeeps
      <4> QED BY <4>2, <2>1 DEF Delivers
    <3>5. PICK e \in Seq(Nat), r \in Seq(Nat), z \in Seq(Nat) :
             /\ e = DeliveredOf(v.given, a) /\ r = Concat(v.b.queue)
             /\ z = t.data /\ Then(y, z) = x
      <4>1. Then(SubSeq(x, 1, k), SubSeq(x, k + 1, Len(x))) = x /\ SubSeq(x, k + 1, Len(x)) \in Seq(Nat)
        BY <2>6, FlowTail, RestOf
      <4>2. DeliveredOf(v.given, a) \in Seq(Nat) /\ Concat(v.b.queue) \in Seq(Nat)
        BY <3>4, FlowEnds, KeptSeq
      <4> QED BY <4>1, <4>2, <2>9, <2>10
    <3>6. Flow(v, a, t.data) = Then(Then(e, Then(r, <<>>)), z)
      <4>1. KeptOf(v.b) = Then(Concat(v.b.queue), Held(v.b.pullIntos))
        BY <3>4, KeptSeq
      <4> QED BY <4>1, <3>4, <3>5 DEF Flow
    <3>7. PICK i \in Seq(Nat) : i = Filled(q) /\ Then(e, r) = Then(Then(d, c), i) /\ i = Then(h, y)
      <4>1. Then(e, r) = Then(Then(d, c), Filled(q))
        BY <3>4, <3>5, <2>10 DEF Passed, Then
      <4>2. Filled(q) = Then(h, y)
        BY <2>8, <2>10
      <4> QED BY <4>1, <4>2, <2>8
    <3>8. Then(e, Then(r, <<>>)) = Then(Then(d, Then(c, h)), y)
      <4>1. Moves(e, r, d, c, i)
        BY <3>7 DEF Moves
      <4>2. Moved(e, r, d, c, h, y)
        BY <4>1, <3>7, FlowFull
      <4> QED BY <4>2 DEF Moved
    <3>9. Then(Then(Then(d, Then(c, h)), y), z) = Then(Then(d, Then(c, h)), x)
      <4>1. PICK u \in Seq(Nat) : u = Then(d, Then(c, h))
        BY ThenType
      <4>2. Then(Then(u, y), z) = Then(u, Then(y, z))
        BY ThenThen
      <4> QED BY <4>1, <4>2, <3>5
    <3>10. Flow(v, a, t.data) = Numbers(0, n)
      BY <3>6, <3>8, <3>9, <2>2, <2>11
    <3>11. v.b.pullIntos # <<>> => InTurn(v)
      <4>1. v.b.pullIntos # <<>> => w.b.pullIntos[1].read # 0
        BY <3>3, <3>4, <2>1, FirstIsRead
      <4> QED BY <4>1, <3>4
    <3>12. v.b.auto = 0 => InTurn(v) /\ v.b.requests = <<>>
      <4>1. w.b.auto = 0 => w.b.pullIntos[1].read # 0
        BY <3>3, <2>1, FirstIsRead
      <4> QED BY <4>1, <3>4, <2>1 DEF SameOpen
    <3>13. Len(v.b.pullIntos) = Len(s.w.b.pullIntos) - 1
      <4>1. Len(Tail(vs)) = Len(vs) - 1
        BY <2>3
      <4> QED BY <4>1, <3>4, <2>1, <2>3
    <3> QED BY <3>4, <3>5, <3>10, <3>11, <3>12, <3>13, <2>1, <2>9 DEF Turning, SameOpen
  <2> QED BY <2>12, <2>13
<1> QED BY <1>1, <1>2

-----------------------------------------------------------------------------
(***************************************************************************)
(* All turns of _fillPendingFromBytes, and enqueue().                      *)
(***************************************************************************)
\* With nothing in the views, what was passed on is all there is.
LEMMA PassedFlow ==
  ASSUME NEW w, NEW v, NEW a \in Nat, a <= MaxByteReads, WorldOK(w, a), WorldOK(v, a),
         Held(w.b.pullIntos) = <<>>, Held(v.b.pullIntos) = <<>>, NEW x \in Seq(Nat), Passed(w, v, a, x)
  PROVE  Flow(v, a, <<>>) = Flow(w, a, x)
<1>1. /\ Flow(v, a, <<>>) = Then(DeliveredOf(v.given, a), KeptOf(v.b))
      /\ DeliveredOf(w.given, a) \in Seq(Nat)
  BY FlowEnds
<1>2. /\ Concat(w.b.queue) \in Seq(Nat) /\ KeptOf(w.b) = Then(Concat(w.b.queue), Held(w.b.pullIntos))
      /\ Concat(v.b.queue) \in Seq(Nat) /\ KeptOf(v.b) = Then(Concat(v.b.queue), Held(v.b.pullIntos))
  BY KeptSeq
<1>3. PICK q \in Seq(Nat), r \in Seq(Nat) : q = Concat(w.b.queue) /\ r = Concat(v.b.queue)
  BY <1>2
<1>4. q \o <<>> = q /\ r \o <<>> = r
  BY ConcatEmptySeq
<1>5. KeptOf(w.b) = q /\ KeptOf(v.b) = r
  BY <1>2, <1>3, <1>4 DEF Then
<1>6. Flow(v, a, <<>>) = DeliveredOf(v.given, a) \o r
  BY <1>1, <1>5 DEF Then
<1>7. Flow(w, a, x) = (DeliveredOf(w.given, a) \o q) \o x
  BY <1>5 DEF Flow, Then
<1> QED BY <1>3, <1>6, <1>7 DEF Passed

\* The turns of the loop, up to the k-th.
TurnsTo(c, w, data, k) ==
  /\ c = [i \in 0..k |-> c[i]] /\ c[0] = [w |-> w, data |-> data]
  /\ \A i \in 1..k : c[i] = FillFirst(c[i - 1])
Leaves(s) == IF s.data = <<>> THEN s.w ELSE ToQueue(s.w, s.data)

\* The recursion that defines FillPending has a solution, so FillPending follows its turns.
LEMMA TurnsSolved ==
  ASSUME NEW w, NEW data, NEW m \in Nat, m = Len(w.b.pullIntos)
  PROVE  \E c : TurnsTo(c, w, data, m) /\ FillPending(w, data) = Leaves(c[m])
<1> DEFINE Solvable(k) == \E c : TurnsTo(c, w, data, k)
<1> DEFINE E == {k \in Nat : Solvable(k)}
<1>1. 0 \in E
  <2>1. PICK s : s = [w |-> w, data |-> data]
    OBVIOUS
  <2>2. PICK c : c = [i \in 0..0 |-> s]
    OBVIOUS
  <2>3. c[0] = s /\ c = [i \in 0..0 |-> c[i]]
    BY <2>2
  <2>4. TurnsTo(c, w, data, 0)
    BY <2>1, <2>3 DEF TurnsTo
  <2> QED BY <2>4
<1>2. ASSUME NEW k \in E PROVE k + 1 \in E
  <2> HIDE DEF Solvable
  <2>0. k \in Nat /\ Solvable(k)
    BY <1>2
  <2>a. SUFFICES Solvable(k + 1)
    BY <2>0
  <2>1. PICK c : TurnsTo(c, w, data, k)
    BY <2>0 DEF Solvable
  <2>2. PICK v : v = FillFirst(c[k])
    OBVIOUS
  <2>3. PICK t : t = [i \in 0..(k + 1) |-> IF i = k + 1 THEN v ELSE c[i]]
    OBVIOUS
  <2>4. t[k + 1] = v /\ \A i \in 0..k : t[i] = c[i]
    <3>1. k + 1 \in 0..(k + 1) /\ \A i \in 0..k : i \in 0..(k + 1) /\ i # k + 1
      BY <2>0
    <3> QED BY <3>1, <2>3
  <2>5. t = [i \in 0..(k + 1) |-> t[i]]
    BY <2>3
  <2>6. t[0] = [w |-> w, data |-> data]
    <3>1. 0 \in 0..k
      BY <2>0
    <3> QED BY <3>1, <2>1, <2>4 DEF TurnsTo
  <2>7. ASSUME NEW i \in 1..(k + 1) PROVE t[i] = FillFirst(t[i - 1])
    <3>1. CASE i = k + 1
      <4>1. i - 1 = k /\ k \in 0..k
        BY <3>1, <2>0
      <4> QED BY <4>1, <3>1, <2>2, <2>4
    <3>2. CASE i # k + 1
      <4>1. i \in 1..k /\ i \in 0..k /\ i - 1 \in 0..k
        BY <3>2, <2>0
      <4>2. c[i] = FillFirst(c[i - 1])
        BY <4>1, <2>1 DEF TurnsTo
      <4> QED BY <4>1, <4>2, <2>4
    <3> QED BY <3>1, <3>2
  <2>8. TurnsTo(t, w, data, k + 1)
    BY <2>5, <2>6, <2>7 DEF TurnsTo
  <2> QED BY <2>8 DEF Solvable
<1>3. E = Nat
  <2> HIDE DEF E
  <2>1. E \in SUBSET Nat BY DEF E
  <2> QED BY <1>1, <1>2, <2>1, SetInduction
<1>4. PICK c : TurnsTo(c, w, data, m)
  BY <1>3
<1> DEFINE Step(q, i) == IF i = 0 THEN [w |-> w, data |-> data] ELSE FillFirst(q[i - 1])
<1>5. c = [i \in 0..m |-> Step(c, i)]
  <2>1. ASSUME NEW i \in 0..m PROVE c[i] = Step(c, i)
    <3>1. CASE i = 0
      BY <3>1, <1>4 DEF TurnsTo
    <3>2. CASE i # 0
      <4>1. i \in 1..m
        BY <3>2
      <4> QED BY <4>1, <3>2, <1>4 DEF TurnsTo
    <3> QED BY <3>1, <3>2
  <2>2. c = [i \in 0..m |-> c[i]]
    BY <1>4 DEF TurnsTo
  <2> HIDE DEF Step
  <2>3. [i \in 0..m |-> c[i]] = [i \in 0..m |-> Step(c, i)]
    BY <2>1
  <2> QED BY <2>2, <2>3
<1> DEFINE Solution == CHOOSE q : q = [i \in 0..m |-> Step(q, i)]
<1>6. FillPending(w, data) = Leaves(Solution[m])
  BY DEF FillPending, Leaves
<1>7. Solution = [i \in 0..m |-> Step(Solution, i)]
  <2> HIDE DEF Step
  <2> QED BY <1>5
<1> HIDE DEF Solution
<1>8. \A i \in 0..m : Solution[i] = Step(Solution, i)
  <2> HIDE DEF Step
  <2> QED BY <1>7
<1>9. TurnsTo(Solution, w, data, m)
  <2>1. Solution = [i \in 0..m |-> Solution[i]]
    <3> HIDE DEF Step
    <3> QED BY <1>7
  <2>2. Solution[0] = [w |-> w, data |-> data]
    BY <1>8
  <2>3. ASSUME NEW i \in 1..m PROVE Solution[i] = FillFirst(Solution[i - 1])
    <3>1. i \in 0..m /\ i # 0
      OBVIOUS
    <3> QED BY <3>1, <1>8
  <2> QED BY <2>1, <2>2, <2>3 DEF TurnsTo
<1> QED BY <1>6, <1>9

\* The streams that a step may leave behind, when it has not dropped bytes.
Sound(w, a, n) ==
  /\ WorldOK(w, a) /\ WaitsOK(w) /\ LaterEmpty(w.given) /\ Flow(w, a, <<>>) = Numbers(0, n)
  /\ w.b.auto = 0 => InTurn(w)
  /\ w.b.state = "readable"
\* The streams that bytes x may come to.
Open(w, a, n, x) ==
  /\ WorldOK(w, a) /\ WaitsOK(w) /\ LaterEmpty(w.given) /\ Flow(w, a, x) = Numbers(0, n)
  /\ InTurn(w) /\ w.b.state = "readable" /\ x \in Seq(Nat) /\ x # <<>>

LEMMA FillPendingKeeps ==
  ASSUME NEW w, NEW a \in Nat, a <= MaxByteReads, NEW n \in Nat, NEW x, Open(w, a, n, x),
         w.b.pullIntos # <<>>, NEW v, v = FillPending(w, x)
  PROVE  Sound(v, a, n)
<1>0. w \in WorldSet
  BY DEF Open, WorldOK
<1>1. w.b.pullIntos \in Seq(PullIntoSet)
  BY <1>0, WorldFields, FieldFields
<1>2. PICK m \in Nat : m = Len(w.b.pullIntos) /\ m # 0
  BY <1>1
<1>3. PICK c : TurnsTo(c, w, x, m) /\ v = Leaves(c[m])
  BY <1>2, TurnsSolved
<1> DEFINE Good(k) ==
      k <= m => /\ Turning(c[k], a, n)
                /\ c[k].data = <<>> \/ c[k].w.b.pullIntos = <<>> \/ Len(c[k].w.b.pullIntos) = m - k
<1> DEFINE E == {k \in Nat : Good(k)}
<1>4. 0 \in E
  <2>1. c[0] = [w |-> w, data |-> x]
    BY <1>3 DEF TurnsTo
  <2>2. c[0].w = w /\ c[0].data = x
    BY <2>1
  <2>3. w.b.auto = 0 => w.b.requests = <<>>
    <3>1. SUFFICES ASSUME w.b.auto = 0 PROVE w.b.requests = <<>>
      OBVIOUS
    <3>2. 1 \in 1..Len(w.b.pullIntos)
      BY <1>2
    <3>3. w.b.pullIntos[1].read # 0
      BY <3>1, <3>2 DEF Open, WorldOK, LockOK
    <3> QED BY <3>2, <3>3 DEF Open, WorldOK, LockOK
  <2>4. Turning(c[0], a, n)
    BY <2>2, <2>3 DEF Open, Turning
  <2> QED BY <2>2, <2>4, <1>2
<1>5. ASSUME NEW k \in E PROVE k + 1 \in E
  <2> HIDE DEF Good
  <2>0. k \in Nat /\ Good(k)
    BY <1>5
  <2>a. SUFFICES Good(k + 1)
    BY <2>0
  <2>1. SUFFICES ASSUME k + 1 <= m
                 PROVE  /\ Turning(c[k + 1], a, n)
                        /\ \/ c[k + 1].data = <<>> \/ c[k + 1].w.b.pullIntos = <<>>
                           \/ Len(c[k + 1].w.b.pullIntos) = m - (k + 1)
    BY DEF Good
  <2>2. k <= m /\ k + 1 \in 1..m /\ (k + 1) - 1 = k
    BY <2>0, <2>1
  <2>3. PICK s, t : s = c[k] /\ t = c[k + 1] /\ t = FillFirst(s)
    BY <2>2, <1>3 DEF TurnsTo
  <2>4. Turning(s, a, n) /\ (s.data = <<>> \/ s.w.b.pullIntos = <<>> \/ Len(s.w.b.pullIntos) = m - k)
    BY <2>0, <2>2, <2>3 DEF Good
  <2>5. /\ Turning(t, a, n)
        /\ \/ t.data = <<>> \/ t.w.b.pullIntos = <<>>
           \/ Len(t.w.b.pullIntos) = Len(s.w.b.pullIntos) - 1
    BY <2>3, <2>4, TurnKeeps, Zenon
  <2>6. s.data = <<>> \/ s.w.b.pullIntos = <<>> => t = s
    BY <2>3, Zenon DEF FillFirst
  <2>7. (m - k) - 1 = m - (k + 1)
    BY <2>0
  <2> QED BY <2>3, <2>4, <2>5, <2>6, <2>7
<1>6. E = Nat
  <2> HIDE DEF E
  <2>1. E \in SUBSET Nat BY DEF E
  <2> QED BY <1>4, <1>5, <2>1, SetInduction
<1>7. PICK s : s = c[m] /\ Turning(s, a, n) /\ (s.data = <<>> \/ s.w.b.pullIntos = <<>>)
  <2>1. m \in E
    BY <1>6
  <2>2. Turning(c[m], a, n)
        /\ (c[m].data = <<>> \/ c[m].w.b.pullIntos = <<>> \/ Len(c[m].w.b.pullIntos) = m - m)
    BY <2>1
  <2>3. c[m].w.b.pullIntos \in Seq(PullIntoSet)
    <3>1. c[m].w \in WorldSet
      BY <2>2 DEF Turning, WorldOK
    <3> QED BY <3>1, WorldFields, FieldFields
  <2>4. Len(c[m].w.b.pullIntos) = 0 => c[m].w.b.pullIntos = <<>>
    BY <2>3
  <2>5. m - m = 0
    OBVIOUS
  <2> QED BY <2>2, <2>4, <2>5
<1>8. CASE s.data = <<>>
  <2>1. v = s.w
    BY <1>3, <1>7, <1>8 DEF Leaves
  <2> QED BY <2>1, <1>7, <1>8 DEF Turning, Sound
<1>9. CASE s.data # <<>>
  <2>0. PICK u : u = s.w
    OBVIOUS
  <2>1. PICK y \in Seq(Nat) : y = s.data /\ y # <<>> /\ v = ToQueue(u, y)
    BY <2>0, <1>3, <1>7, <1>9 DEF Leaves, Turning
  <2>2. /\ WorldOK(u, a) /\ WaitsOK(u) /\ LaterEmpty(u.given) /\ Flow(u, a, y) = Numbers(0, n)
        /\ (u.b.auto = 0 => InTurn(u) /\ u.b.requests = <<>>) /\ u.b.state = "readable"
        /\ u.b.pullIntos = <<>>
    BY <2>0, <2>1, <1>7 DEF Turning
  <2>3. /\ WorldOK(v, a) /\ (WaitsOK(u) => WaitsOK(v)) /\ v.given = u.given
        /\ v.b.state = u.b.state /\ v.b.auto = u.b.auto /\ v.b.requests = u.b.requests
        /\ v.b.pullIntos = u.b.pullIntos /\ Concat(v.b.queue) = Concat(u.b.queue) \o y
    <3>1. WorldOK(u, a) /\ v = ToQueue(u, y) /\ y # <<>>
      BY <2>1, <2>2
    <3>2. Queues(u, v, a, y)
      BY <3>1, ToQueueKeeps
    <3> QED BY <3>2 DEF Queues
  <2>4. Passed(u, v, a, y)
    <3>1. u \in WorldSet
      BY <2>2 DEF WorldOK
    <3> QED BY <3>1, <2>3, ToQueuePassed
  <2>5. Flow(v, a, <<>>) = Flow(u, a, y)
    <3>1. Held(u.b.pullIntos) = <<>> /\ Held(v.b.pullIntos) = <<>>
      BY <2>2, <2>3, HeldNothing
    <3> QED BY <3>1, <2>2, <2>3, <2>4, PassedFlow, ZenonT(60)
  <2>6. v.b.auto = 0 => InTurn(v)
    <3>1. Len(<<>>) = 0
      OBVIOUS
    <3> QED BY <3>1, <2>2, <2>3 DEF InTurn, Overtaken, SomeoneWaits
  <2> QED BY <2>2, <2>3, <2>5, <2>6 DEF Sound
<1> QED BY <1>8, <1>9

\* controller.enqueue(): the bytes go where they are waited for, in their order.
LEMMA TakeKeeps ==
  ASSUME NEW w, NEW a \in Nat, a <= MaxByteReads, NEW n \in Nat, NEW x, Open(w, a, n, x), NEW v, v = Take(w, x)
  PROVE  Sound(v, a, n)
<1>1. CASE w.b.pullIntos # <<>>
  BY <1>1, FillPendingKeeps DEF Take
<1>2. CASE w.b.pullIntos = <<>>
  <2>1. v = HandOrQueue(w, x)
    BY <1>2 DEF Take
  <2>2. PICK y \in Seq(Nat) : y = x /\ y # <<>>
    BY DEF Open
  <2>3. /\ WorldOK(v, a) /\ WaitsOK(v) /\ SameOpen(w, v) /\ v.b.pullIntos = w.b.pullIntos
        /\ InTurn(w) /\ w.b.pullIntos = <<>> => InTurn(v)
        /\ InTurn(w) /\ LaterEmpty(w.given) => LaterEmpty(v.given) /\ Passed(w, v, a, y)
    BY <2>1, <2>2, HandKeeps DEF Open
  <2>4. Flow(v, a, <<>>) = Flow(w, a, y)
    <3>1. Held(w.b.pullIntos) = <<>> /\ Held(v.b.pullIntos) = <<>>
      BY <1>2, <2>3, HeldNothing
    <3> QED BY <3>1, <2>3, PassedFlow DEF Open
  <2> QED BY <2>2, <2>3, <2>4, <1>2 DEF Open, Sound, SameOpen
<1> QED BY <1>1, <1>2

-----------------------------------------------------------------------------
(***************************************************************************)
(* _fillViewFromQueue: what is dropped is what the view got.               *)
(***************************************************************************)
LEMMA PrefixIs ==
  ASSUME NEW x \in Seq(Nat), NEW y \in Seq(Nat), NEW z, z = Then(x, y)
  PROVE  SubSeq(z, 1, Len(x)) = x
<1>1. PICK m \in Nat, n \in Nat : m = Len(x) /\ n = Len(y)
  OBVIOUS
<1>2. z \in Seq(Nat) /\ Len(z) = m + n /\ \A i \in 1..(m + n) : z[i] = IF i <= m THEN x[i] ELSE y[i - m]
  BY <1>1, ConcatProperties DEF Then
<1>3. PICK s \in Seq(Nat) : s = SubSeq(z, 1, m)
  <2>1. SubSeq(z, 1, m) \in Seq(Nat)
    BY <1>1, <1>2
  <2> QED BY <2>1
<1>4. Len(s) = m /\ \A i \in 1..m : s[i] = z[i]
  BY <1>1, <1>2, <1>3
<1>5. \A i \in 1..m : s[i] = x[i]
  BY <1>1, <1>2, <1>4
<1>6. s = x
  BY <1>1, <1>4, <1>5, SeqEqual
<1> QED BY <1>1, <1>3, <1>6

LEMMA ThenLen ==
  ASSUME NEW x \in Seq(Nat), NEW y \in Seq(Nat) PROVE Len(Then(x, y)) = Len(x) + Len(y)
BY DEF Then

\* The chunks in front, up to the k-th.
LEMMA UpToIs ==
  ASSUME NEW queue \in Seq(Seq(Nat)), NEW k \in 0..Len(queue)
  PROVE  SubSeq(queue, 1, k) \in Seq(Seq(Nat)) /\ Concat(SubSeq(queue, 1, k)) \in Seq(Nat) /\ UpTo(queue, k) \in Nat
<1>1. SubSeq(queue, 1, k) \in Seq(Seq(Nat))
  OBVIOUS
<1>2. Concat(SubSeq(queue, 1, k)) \in Seq(Nat)
  BY <1>1, ConcatType
<1> QED BY <1>1, <1>2 DEF UpTo

UsedUp(queue, n, k) == UpTo(queue, k) <= n /\ (k < Len(queue) => n < UpTo(queue, k + 1))

\* There are chunks that are used up, and a next one that is not.
LEMMA SomeUsedUp ==
  ASSUME NEW queue \in Seq(Seq(Nat)), NEW n \in Nat
  PROVE  \E k \in 0..Len(queue) : UsedUp(queue, n, k)
<1>0. PICK m \in Nat : m = Len(queue)
  OBVIOUS
<1>1. SUFFICES ASSUME \A k \in 0..m : ~UsedUp(queue, n, k) PROVE FALSE
  BY <1>0
<1> DEFINE Fits(k) == k <= m => UpTo(queue, k) <= n
<1> DEFINE E == {k \in Nat : Fits(k)}
<1>2. 0 \in E
  <2>1. SubSeq(queue, 1, 0) = <<>> /\ Len(<<>>) = 0
    OBVIOUS
  <2>2. UpTo(queue, 0) = 0
    BY <2>1, ConcatNothing DEF UpTo
  <2> QED BY <2>2
<1>3. ASSUME NEW k \in E PROVE k + 1 \in E
  <2> HIDE DEF Fits
  <2>0. k \in Nat /\ Fits(k)
    BY <1>3
  <2>1. SUFFICES ASSUME k + 1 <= m PROVE UpTo(queue, k + 1) <= n
    BY <2>0 DEF Fits
  <2>2. k \in 0..m /\ k + 1 \in 0..m /\ k < m
    BY <2>0, <2>1
  <2>3. UpTo(queue, k) <= n
    BY <2>0, <2>2 DEF Fits
  <2>4. ~(n < UpTo(queue, k + 1))
    BY <2>2, <2>3, <1>0, <1>1 DEF UsedUp
  <2>5. UpTo(queue, k + 1) \in Nat
    BY <2>2, <1>0, UpToIs
  <2> QED BY <2>4, <2>5
<1>4. E = Nat
  <2> HIDE DEF E
  <2>1. E \in SUBSET Nat BY DEF E
  <2> QED BY <1>2, <1>3, <2>1, SetInduction
<1>5. UpTo(queue, m) <= n
  <2>1. m \in E
    BY <1>4
  <2> QED BY <2>1
<1>6. UsedUp(queue, n, m)
  BY <1>0, <1>5 DEF UsedUp
<1> QED BY <1>1, <1>6, <1>0

\* The first n bytes are gone, the others are as they were.
Drops(queue, n, d) ==
  /\ d \in Seq(Seq(Nat)) /\ \A j \in 1..Len(d) : d[j] # <<>>
  /\ SubSeq(Concat(queue), 1, n) \in Seq(Nat)
  /\ Then(SubSeq(Concat(queue), 1, n), Concat(d)) = Concat(queue)
  /\ Len(Concat(d)) = Len(Concat(queue)) - n

\* The rest of a sequence from a place on.
LEMMA SubSeqEnd ==
  ASSUME NEW S, NEW s \in Seq(S), NEW from \in 1..Len(s) + 1
  PROVE  /\ Len(SubSeq(s, from, Len(s))) = Len(s) - from + 1
         /\ \A i \in 1..Len(s) - from + 1 : SubSeq(s, from, Len(s))[i] = s[from + i - 1]
<1>1. from \in Int /\ Len(s) \in Int /\ \A i \in from..Len(s) : s[i] \in S
  OBVIOUS
<1>2. Len(SubSeq(s, from, Len(s))) = IF from <= Len(s) THEN Len(s) - from + 1 ELSE 0
  BY <1>1, SubSeqProperties
<1>3. \A i \in 1..Len(s) - from + 1 : SubSeq(s, from, Len(s))[i] = s[from + i - 1]
  BY <1>1, SubSeqProperties
<1>4. Len(s) - from + 1 = IF from <= Len(s) THEN Len(s) - from + 1 ELSE 0
  OBVIOUS
<1> QED BY <1>2, <1>3, <1>4

LEMMA DropIs ==
  ASSUME NEW queue \in Seq(Seq(Nat)), NEW total \in Nat, QueueOK(queue, total), NEW n \in 0..total,
         NEW d, d = Drop(queue, n)
  PROVE  Drops(queue, n, d)
<1>0. PICK m \in Nat, c \in Seq(Nat) : m = Len(queue) /\ c = Concat(queue) /\ total = Len(c)
  BY ConcatType DEF QueueOK
<1>a. n \in Nat /\ n <= Len(c)
  BY <1>0
<1> DEFINE K == CHOOSE k \in 0..Len(queue) : UpTo(queue, k) <= n /\ (k < Len(queue) => n < UpTo(queue, k + 1))
<1>1. K \in 0..Len(queue) /\ UsedUp(queue, n, K)
  <2>1. \E k \in 0..Len(queue) : UpTo(queue, k) <= n /\ (k < Len(queue) => n < UpTo(queue, k + 1))
    BY SomeUsedUp, <1>a DEF UsedUp
  <2> QED BY <2>1 DEF UsedUp
<1>2. d = IF K = Len(queue) THEN <<>>
          ELSE <<SubSeq(queue[K + 1], n - UpTo(queue, K) + 1, Len(queue[K + 1]))>> \o SubSeq(queue, K + 2, Len(queue))
  BY DEF Drop
<1> HIDE DEF K
<1>3. PICK k \in 0..m : k = K
  BY <1>0, <1>1
<1>4. PICK front \in Seq(Nat) : front = Concat(SubSeq(queue, 1, k)) /\ UpTo(queue, k) = Len(front) /\ Len(front) <= n
  BY <1>0, <1>1, <1>3, UpToIs DEF UpTo, UsedUp
<1>5. CASE k = m
  <2>1. d = <<>> /\ <<>> \in Seq(Seq(Nat)) /\ Len(<<>>) = 0
    BY <1>0, <1>2, <1>3, <1>5
  <2>2. front = c
    BY <1>0, <1>4, <1>5, SubSeqFull
  <2>3. n = Len(c)
    BY <2>2, <1>4, <1>a
  <2>4. SubSeq(c, 1, n) = c
    BY <2>3, SubSeqFull
  <2>5. Then(c, <<>>) = c
    BY ConcatEmptySeq DEF Then
  <2>6. Concat(d) = <<>> /\ Len(Concat(d)) = Len(c) - n
    BY <2>1, <2>3, ConcatNothing
  <2>7. \A j \in 1..Len(d) : d[j] # <<>>
    BY <2>1
  <2> QED BY <2>1, <2>4, <2>5, <2>6, <2>7, <1>0 DEF Drops
<1>6. CASE k # m
  <2>1. k + 1 \in 1..m /\ k < m
    BY <1>6
  <2>2. PICK e \in Seq(Nat) : e = queue[k + 1]
    BY <2>1, <1>0
  <2>3. PICK s \in Seq(Seq(Nat)), t \in Seq(Seq(Nat)), v \in Seq(Seq(Nat)) :
           s = SubSeq(queue, 1, k) /\ t = SubSeq(queue, k + 2, m) /\ v = SubSeq(queue, k + 1, m)
    <3>1. SubSeq(queue, 1, k) \in Seq(Seq(Nat)) /\ SubSeq(queue, k + 2, m) \in Seq(Seq(Nat))
          /\ SubSeq(queue, k + 1, m) \in Seq(Seq(Nat))
      BY <1>0, <2>1
    <3> QED BY <3>1
  <2>t. Len(t) = m - k - 1 /\ \A l \in 1..(m - k - 1) : t[l] = queue[k + 1 + l]
    <3>1. PICK from \in Nat : from = k + 2 /\ from \in 1..(Len(queue) + 1)
      BY <2>1, <1>0
    <3>2. t = SubSeq(queue, from, Len(queue))
      BY <2>3, <3>1, <1>0
    <3>3. Len(t) = Len(queue) - from + 1 /\ \A l \in 1..(Len(queue) - from + 1) : t[l] = queue[from + l - 1]
      BY <3>1, <3>2, SubSeqEnd
    <3>4. Len(queue) - from + 1 = m - k - 1 /\ \A l \in 1..(m - k - 1) : from + l - 1 = k + 1 + l
      BY <3>1, <1>0
    <3> QED BY <3>3, <3>4
  <2>4. queue = s \o v
    <3>1. SubSeq(queue, 1, k) \o SubSeq(queue, k + 1, m) = SubSeq(queue, 1, m)
      <4>1. 1 \in 1..(Len(queue) + 1) /\ k \in (1 - 1)..Len(queue) /\ m \in k..Len(queue)
        BY <1>0, <2>1
      <4> QED BY <4>1, ConcatAdjacentSubSeq
    <3> QED BY <3>1, <2>3, <1>0, SubSeqFull
  <2>5. v # <<>> /\ Head(v) = e /\ Tail(v) = t
    <3>1. Len(v) = m - k /\ \A j \in 1..(m - k) : v[j] = queue[k + j]
      BY <2>1, <2>3, <1>0
    <3>2. v # <<>> /\ v[1] = queue[k + 1]
      BY <3>1, <2>1
    <3>3. Len(t) = m - k - 1 /\ \A j \in 1..(m - k - 1) : t[j] = queue[k + 1 + j]
      BY <2>t
    <3>4. PICK u \in Seq(Seq(Nat)) : u = Tail(v)
      <4>1. Tail(v) \in Seq(Seq(Nat))
        BY <3>2
      <4> QED BY <4>1
    <3>5. Len(u) = m - k - 1 /\ \A j \in 1..(m - k - 1) : u[j] = v[j + 1]
      BY <3>1, <3>2, <3>4
    <3>6. \A j \in 1..(m - k - 1) : u[j] = t[j]
      <4>1. SUFFICES ASSUME NEW j \in 1..(m - k - 1) PROVE u[j] = t[j]
        OBVIOUS
      <4>2. j + 1 \in 1..(m - k) /\ k + (j + 1) = k + 1 + j
        BY <2>1
      <4>3. v[j + 1] = queue[k + (j + 1)]
        BY <4>2, <3>1
      <4> QED BY <4>2, <4>3, <3>3, <3>5
    <3>7. u = t
      BY <3>3, <3>5, <3>6, SeqEqual, Zenon
    <3> QED BY <3>2, <3>4, <3>7, <2>2
  <2>6. PICK back \in Seq(Nat) : back = Concat(t)
    BY ConcatType
  <2>7. c = Then(front, Then(e, back))
    <3>1. Concat(s \o v) = Concat(s) \o Concat(v)
      BY ConcatBoth
    <3>2. Concat(v) = Head(v) \o Concat(Tail(v))
      BY <2>5, ConcatTail
    <3> QED BY <3>1, <3>2, <2>3, <2>4, <2>5, <2>6, <1>0, <1>4, Zenon DEF Then
  <2>8. n < Len(front) + Len(e)
    <3>1. n < UpTo(queue, k + 1)
      BY <1>0, <1>1, <1>3, <2>1 DEF UsedUp
    <3>2. SubSeq(queue, 1, k + 1) = Append(s, e)
      <4>1. PICK u \in Seq(Seq(Nat)) : u = SubSeq(queue, 1, k + 1)
        <5>1. k + 1 \in 0..Len(queue)
          BY <2>1, <1>0
        <5> QED BY <5>1, UpToIs
      <4>2. Len(u) = k + 1 /\ \A j \in 1..(k + 1) : u[j] = queue[j]
        BY <4>1, <2>1, <1>0
      <4>3. Len(s) = k /\ \A j \in 1..k : s[j] = queue[j]
        BY <2>1, <2>3, <1>0
      <4>4. PICK x \in Seq(Seq(Nat)) : x = Append(s, e)
        <5>1. Append(s, e) \in Seq(Seq(Nat))
          OBVIOUS
        <5> QED BY <5>1
      <4>5. Len(x) = k + 1 /\ \A j \in 1..(k + 1) : x[j] = queue[j]
        <5>1. Len(x) = Len(s) + 1 /\ (\A j \in 1..Len(s) : x[j] = s[j]) /\ x[Len(s) + 1] = e
          BY <4>4, AppendProperties
        <5>2. \A j \in 1..(k + 1) : j \in 1..k \/ j = k + 1
          BY <2>1
        <5> QED BY <5>1, <5>2, <4>3, <2>2
      <4>6. x = u
        BY <4>2, <4>5, SeqEqual
      <4> QED BY <4>1, <4>4, <4>6
    <3>3. Concat(Append(s, e)) = Concat(s) \o e
      BY ConcatAppend
    <3>4. Len(front \o e) = Len(front) + Len(e)
      OBVIOUS
    <3> QED BY <3>1, <3>2, <3>3, <3>4, <2>3, <1>4 DEF UpTo
  <2>9. PICK i \in 0..Len(e) : i = n - Len(front) /\ i < Len(e) /\ n = Len(front) + i
    <3>1. PICK l \in Nat, f \in Nat : l = Len(e) /\ f = Len(front) /\ f <= n /\ n < f + l
      BY <2>8, <1>4
    <3>2. n - f \in 0..l /\ n - f < l /\ n = f + (n - f)
      BY <3>1, <1>a
    <3> QED BY <3>1, <3>2
  <2>10. PICK x \in Seq(Nat), y \in Seq(Nat) :
            x = SubSeq(e, 1, i) /\ y = SubSeq(e, i + 1, Len(e)) /\ Then(x, y) = e /\ Len(x) = i /\ y # <<>>
    <3>1. SubSeq(e, 1, i) \in Seq(Nat) /\ SubSeq(e, i + 1, Len(e)) \in Seq(Nat)
      BY RestOf
    <3>2. Then(SubSeq(e, 1, i), SubSeq(e, i + 1, Len(e))) = e
      BY FlowTail
    <3>3. Len(SubSeq(e, 1, i)) = i
      OBVIOUS
    <3>4. SubSeq(e, i + 1, Len(e)) # <<>>
      <4>1. PICK l \in Nat : l = Len(e)
        OBVIOUS
      <4>2. i \in Nat /\ i < l
        BY <2>9, <4>1
      <4>3. PICK rest \in Seq(Nat) : rest = SubSeq(e, i + 1, l)
        <5>1. SubSeq(e, i + 1, Len(e)) \in Seq(Nat)
          BY RestOf
        <5> QED BY <5>1, <4>1
      <4>4. Len(rest) = l - i
        BY <4>1, <4>2, <4>3
      <4>5. Len(rest) # 0
        BY <4>2, <4>4
      <4>6. rest # <<>>
        BY <4>5
      <4> QED BY <4>1, <4>3, <4>6
    <3> QED BY <3>1, <3>2, <3>3, <3>4
  <2>11. d = <<y>> \o t
    BY <1>0, <1>2, <1>3, <1>4, <1>6, <2>2, <2>3, <2>9, <2>10
  <2>12. /\ d \in Seq(Seq(Nat)) /\ Len(d) = 1 + Len(t) /\ d[1] = y
         /\ \A j \in 1..Len(t) : d[j + 1] = t[j]
    BY <2>11
  <2>13. \A j \in 1..Len(d) : d[j] # <<>>
    <3>1. SUFFICES ASSUME NEW j \in 1..Len(d), j # 1 PROVE d[j] # <<>>
      BY <2>10, <2>12
    <3>2. j - 1 \in 1..Len(t) /\ (j - 1) + 1 = j
      BY <3>1, <2>12
    <3>3. d[j] = t[j - 1]
      BY <3>2, <2>12
    <3>4. Len(t) = m - k - 1 /\ \A l \in 1..(m - k - 1) : t[l] = queue[k + 1 + l]
      BY <2>t
    <3>5. t[j - 1] = queue[k + 1 + (j - 1)] /\ k + 1 + (j - 1) \in 1..Len(queue)
      <4>1. PICK l \in 1..(m - k - 1) : l = j - 1
        BY <3>2, <3>4
      <4>2. k + 1 + l \in 1..m
        BY <2>1
      <4> QED BY <4>1, <4>2, <3>4, <1>0
    <3> QED BY <3>3, <3>5 DEF QueueOK
  <2>14. Concat(d) = Then(y, back)
    <3>1. <<y>> \in Seq(Seq(Nat))
      OBVIOUS
    <3>2. Concat(<<y>> \o t) = Concat(<<y>>) \o Concat(t)
      BY <3>1, ConcatBoth
    <3>3. Concat(<<y>>) = y
      BY ConcatOne
    <3> QED BY <3>2, <3>3, <2>6, <2>11 DEF Then
  <2>15. PICK z \in Seq(Nat), r \in Seq(Nat) : z = Then(front, x) /\ r = Then(y, back)
    BY ThenType
  <2>16. c = Then(z, r)
    <3>1. Then(z, r) = Then(front, Then(x, r))
      BY <2>15, ThenThen
    <3>2. Then(x, r) = Then(Then(x, y), back)
      BY <2>15, ThenThen
    <3>3. Then(x, r) = Then(e, back)
      BY <3>2, <2>10
    <3> QED BY <3>1, <3>3, <2>7
  <2>17. Len(z) = n
    <3>1. Len(z) = Len(front) + Len(x)
      BY <2>15, ThenLen
    <3> QED BY <3>1, <2>9, <2>10
  <2>18. SubSeq(c, 1, n) = z
    BY <2>16, <2>17, PrefixIs
  <2>19. Len(r) = Len(c) - n
    <3>1. Len(c) = Len(z) + Len(r)
      BY <2>16, ThenLen
    <3> QED BY <3>1, <2>17, <1>a
  <2> QED BY <2>12, <2>13, <2>14, <2>15, <2>16, <2>18, <2>19, <1>0 DEF Drops
<1> QED BY <1>5, <1>6

-----------------------------------------------------------------------------
(***************************************************************************)
(* A step that starts with no lapse leaves the invariant.                  *)
(***************************************************************************)
\* Nothing went wrong so far.
Calm(w, a, n) ==
  /\ WorldOK(w, a) /\ WaitsOK(w) /\ InTurn(w)
  /\ w.b.state # "readable" => w.b.queue = <<>>
  /\ LaterEmpty(w.given) /\ OrderOK(w, a, n)

\* What a step may leave, that ends with a lapse or does not.
Lawful(w, a, n) ==
  /\ WorldOK(w, a) /\ WaitsOK(w) /\ (w.b.auto = 0 => InTurn(w))
  /\ InTurn(w) /\ Dropped(w) = {} => Calm(w, a, n)

LEMMA CalmLawful ==
  ASSUME NEW w, NEW a, NEW n, Calm(w, a, n) PROVE Lawful(w, a, n)
BY DEF Calm, Lawful

\* A step that leaves a lawful state.
LEMMA StepDone ==
  ASSUME lapses = {}, NEW w, ByteStep(w), Lawful(w, asked', provided'),
         asked' \in 0..MaxByteReads, provided' \in Nat
  PROVE  ByteInv'
<1>1. w \in WorldSet
  BY DEF Lawful, WorldOK
<1>2. ByteWorld' = w
  BY <1>1 DEF ByteStep, ByteBecomes, ByteWorld, WorldSet
<1>3. lapses' = Overtaken(w) \union Dropped(w)
  BY DEF ByteStep
<1>4. Overtaken(w) \subseteq {"overtaken"} /\ Dropped(w) \subseteq {"dropped"}
  BY DEF Overtaken, Dropped
<1>5. lapses' \subseteq {"overtaken", "dropped", "misplaced", "cancelled"} /\ "misplaced" \notin lapses'
  BY <1>3, <1>4
<1>6. bytes' = w.b /\ given' = w.given
  BY DEF ByteStep, ByteBecomes
<1>7. lapses' = {} => Calm(w, asked', provided')
  BY <1>3 DEF Lawful, InTurn
<1>8. WorldOK(w, asked') /\ WaitsOK(w) /\ (bytes'.auto = 0 => InTurn(w))
  BY <1>6 DEF Lawful
<1>9. lapses' = {} => /\ InTurn(w) /\ (bytes'.state # "readable" => bytes'.queue = <<>>)
                      /\ LaterEmpty(given') /\ OrderOK(w, asked', provided')
  BY <1>6, <1>7 DEF Calm
<1> QED BY <1>2, <1>5, <1>8, <1>9 DEF ByteInv

\* A step that leaves a calm state, or something else that is let through.
LEMMA CalmDone ==
  ASSUME NEW w, ByteBecomes(w), Calm(w, asked', provided'), lapses' = {},
         asked' \in 0..MaxByteReads, provided' \in Nat
  PROVE  ByteInv'
<1>1. w \in WorldSet
  BY DEF Calm, WorldOK
<1>2. ByteWorld' = w
  BY <1>1 DEF ByteBecomes, ByteWorld, WorldSet
<1>3. bytes' = w.b /\ given' = w.given
  BY DEF ByteBecomes
<1>4. WorldOK(w, asked') /\ WaitsOK(w) /\ InTurn(w)
  BY DEF Calm
<1>5. (bytes'.state # "readable" => bytes'.queue = <<>>) /\ LaterEmpty(given') /\ OrderOK(w, asked', provided')
  BY <1>3 DEF Calm
<1>6. lapses' \subseteq {"overtaken", "dropped", "misplaced", "cancelled"}
  OBVIOUS
<1> QED BY <1>2, <1>4, <1>5, <1>6 DEF ByteInv

\* The state that a step starts from.
LEMMA StartsCalm ==
  ASSUME ByteInv, lapses = {}
  PROVE  /\ Calm(ByteWorld, asked, provided) /\ asked \in Nat /\ asked <= MaxByteReads /\ provided \in Nat
         /\ ByteWorld.b = bytes /\ ByteWorld.given = given /\ ByteWorld.holders = holders /\ ByteWorld.pulls = pulls
         /\ MaxByteReads \in Nat /\ WorldOK(ByteWorld, asked) /\ WaitsOK(ByteWorld) /\ InTurn(ByteWorld)
         /\ LaterEmpty(given) /\ ByteWorld \in WorldSet
<1>1. ByteWorld.b = bytes /\ ByteWorld.given = given /\ ByteWorld.holders = holders /\ ByteWorld.pulls = pulls
  BY DEF ByteWorld
<1>2. MaxByteReads \in Nat
  BY ByteAssumption
<1>3. asked \in Nat /\ asked <= MaxByteReads /\ provided \in Nat
  BY <1>2 DEF ByteInv
<1>4. "misplaced" \notin lapses
  OBVIOUS
<1>5. WorldOK(ByteWorld, asked) /\ WaitsOK(ByteWorld) /\ InTurn(ByteWorld) /\ LaterEmpty(given)
      /\ (bytes.state # "readable" => bytes.queue = <<>>) /\ OrderOK(ByteWorld, asked, provided)
  BY <1>4 DEF ByteInv
<1>6. ByteWorld \in WorldSet
  BY <1>5 DEF WorldOK
<1> QED BY <1>1, <1>2, <1>3, <1>5, <1>6 DEF Calm

LEMMA NumbersType ==
  ASSUME NEW a \in Nat, NEW n \in Nat
  PROVE  Numbers(a, n) \in Seq(Nat) /\ Len(Numbers(a, n)) = n /\ \A i \in 1..n : Numbers(a, n)[i] = a + i
<1>1. \A i \in 1..n : a + i \in Nat
  OBVIOUS
<1> QED BY <1>1 DEF Numbers

\* What comes first of the bytes in order is in order.
LEMMA OrderBegins ==
  ASSUME NEW w, NEW a \in Nat, a <= MaxByteReads, NEW n \in Nat, WorldOK(w, a),
         DeliveredOf(w.given, a) \o KeptOf(w.b) = Numbers(0, n)
  PROVE  OrderOK(w, a, n)
<1>1. PICK x \in Seq(Nat), y \in Seq(Nat) : x = DeliveredOf(w.given, a) /\ y = KeptOf(w.b)
  <2>1. w.given \in [ByteReads -> AnswerSet]
    BY WorldFields DEF WorldOK
  <2>2. DeliveredOf(w.given, a) \in Seq(Nat)
    BY <2>1, DeliveredType
  <2>3. KeptOf(w.b) \in Seq(Nat)
    <3>1. Concat(w.b.queue) \in Seq(Nat) /\ Held(w.b.pullIntos) \in Seq(Nat)
          /\ KeptOf(w.b) = Then(Concat(w.b.queue), Held(w.b.pullIntos))
      BY KeptSeq
    <3> QED BY <3>1, ThenType
  <2> QED BY <2>2, <2>3
<1>2. PICK m \in Nat, k \in Nat : m = Len(x) /\ k = Len(y)
  OBVIOUS
<1>3. PICK z \in Seq(Nat) : z = x \o y
  BY ConcatProperties
<1>4. Len(z) = m + k /\ \A i \in 1..m : z[i] = x[i]
  BY <1>2, <1>3, ConcatProperties
<1>5. z = Numbers(0, n)
  BY <1>1, <1>3
<1>6. Len(z) = n /\ \A i \in 1..n : z[i] = i
  <2>1. Len(Numbers(0, n)) = n /\ \A i \in 1..n : Numbers(0, n)[i] = 0 + i
    BY NumbersType
  <2> QED BY <2>1, <1>5
<1>7. \A i \in 1..m : x[i] = i
  BY <1>2, <1>4, <1>6
<1>8. PICK b \in Seq(Nat) : b = Numbers(0, m) /\ Len(b) = m /\ \A i \in 1..m : b[i] = i
  <2>1. Numbers(0, m) \in Seq(Nat) /\ Len(Numbers(0, m)) = m /\ \A i \in 1..m : Numbers(0, m)[i] = 0 + i
    BY NumbersType
  <2> QED BY <2>1
<1>9. x = b
  BY <1>2, <1>7, <1>8, SeqEqual
<1>10. Begins(x)
  BY <1>2, <1>8, <1>9 DEF Begins
<1> QED BY <1>1, <1>10 DEF OrderOK

LEMMA CalmOrder ==
  ASSUME NEW w, NEW a \in Nat, a <= MaxByteReads, NEW n \in Nat, Calm(w, a, n), w.b.state # "errored"
  PROVE  Flow(w, a, <<>>) = Numbers(0, n)
<1>1. WorldOK(w, a) /\ OrderOK(w, a, n)
  BY DEF Calm
<1>2. Flow(w, a, <<>>) = Then(DeliveredOf(w.given, a), KeptOf(w.b))
  BY <1>1, FlowEnds
<1> QED BY <1>1, <1>2 DEF OrderOK, Then

LEMMA CalmSound ==
  ASSUME NEW w, NEW a \in Nat, a <= MaxByteReads, NEW n \in Nat, Calm(w, a, n), w.b.state = "readable"
  PROVE  Sound(w, a, n)
<1>1. Flow(w, a, <<>>) = Numbers(0, n)
  BY CalmOrder
<1> QED BY <1>1 DEF Calm, Sound

LEMMA SoundCalm ==
  ASSUME NEW w, NEW a \in Nat, a <= MaxByteReads, NEW n \in Nat, Sound(w, a, n), InTurn(w)
  PROVE  Calm(w, a, n)
<1>1. WorldOK(w, a) /\ Flow(w, a, <<>>) = Numbers(0, n) /\ WaitsOK(w) /\ LaterEmpty(w.given) /\ w.b.state = "readable"
  BY DEF Sound
<1>2. Flow(w, a, <<>>) = Then(DeliveredOf(w.given, a), KeptOf(w.b))
  BY <1>1, FlowEnds
<1>3. OrderOK(w, a, n)
  BY <1>1, <1>2, OrderBegins DEF Then
<1> QED BY <1>1, <1>3 DEF Calm

LEMMA SoundLawful ==
  ASSUME NEW w, NEW a \in Nat, a <= MaxByteReads, NEW n \in Nat, Sound(w, a, n)
  PROVE  Lawful(w, a, n)
<1>1. InTurn(w) => Calm(w, a, n)
  BY SoundCalm
<1> QED BY <1>1 DEF Sound, Lawful

LEMMA CalmCall ==
  ASSUME NEW w, NEW a \in Nat, NEW n, Calm(w, a, n), NEW v, v = CallBytePullIfNeeded(w)
  PROVE  Calm(v, a, n)
<1>1. WorldOK(w, a) /\ WaitsOK(w) /\ InTurn(w) /\ LaterEmpty(w.given) /\ OrderOK(w, a, n)
      /\ (w.b.state # "readable" => w.b.queue = <<>>)
  BY DEF Calm
<1>2. /\ WorldOK(v, a) /\ (WaitsOK(w) => WaitsOK(v)) /\ (InTurn(w) => InTurn(v))
      /\ v.given = w.given /\ v.b.state = w.b.state /\ v.b.queue = w.b.queue
      /\ v.b.auto = w.b.auto /\ KeptOf(v.b) = KeptOf(w.b)
  BY <1>1, CallKeeps
<1>3. OrderOK(v, a, n)
  BY <1>1, <1>2 DEF OrderOK
<1> QED BY <1>1, <1>2, <1>3 DEF Calm

LEMMA SoundCall ==
  ASSUME NEW w, NEW a \in Nat, a <= MaxByteReads, NEW n \in Nat, Sound(w, a, n), NEW v, v = CallBytePullIfNeeded(w)
  PROVE  Sound(v, a, n)
<1>1. /\ WorldOK(w, a) /\ WaitsOK(w) /\ LaterEmpty(w.given) /\ Flow(w, a, <<>>) = Numbers(0, n)
      /\ (w.b.auto = 0 => InTurn(w)) /\ w.b.state = "readable"
  BY DEF Sound
<1>2. /\ WorldOK(v, a) /\ (WaitsOK(w) => WaitsOK(v)) /\ (InTurn(w) => InTurn(v))
      /\ v.given = w.given /\ v.b.state = w.b.state /\ v.b.queue = w.b.queue
      /\ v.b.auto = w.b.auto /\ KeptOf(v.b) = KeptOf(w.b)
  BY <1>1, CallKeeps
<1>3. Flow(v, a, <<>>) = Flow(w, a, <<>>)
  BY <1>2 DEF Flow
<1> QED BY <1>1, <1>2, <1>3 DEF Sound

LEMMA CalmError ==
  ASSUME NEW w, NEW a \in Nat, a <= MaxByteReads, NEW n, Calm(w, a, n), NEW v, v = ByteError(w)
  PROVE  Calm(v, a, n)
<1>1. WorldOK(w, a) /\ WaitsOK(w) /\ LaterEmpty(w.given) /\ Begins(DeliveredOf(w.given, a))
  BY DEF Calm, OrderOK
<1>2. CASE w.b.state = "readable"
  <2>1. /\ WorldOK(v, a) /\ WaitsOK(v) /\ InTurn(v) /\ v.b.state = "errored" /\ v.b.queue = <<>>
        /\ LaterEmpty(v.given) /\ \A k \in ByteReads : v.given[k].data = w.given[k].data
    BY <1>1, <1>2, ByteErrorEnds
  <2>2. DeliveredOf(v.given, a) = DeliveredOf(w.given, a)
    BY <2>1, SameDelivered
  <2> QED BY <1>1, <2>1, <2>2 DEF Calm, OrderOK
<1>3. CASE w.b.state # "readable"
  BY <1>3, ByteErrorAgain
<1> QED BY <1>2, <1>3

\* v is w but for what the source asks for and what it is asked.
SameBytes(w, v) ==
  /\ v \in WorldSet /\ v.given = w.given /\ v.holders = w.holders
  /\ v.b.state = w.b.state /\ v.b.reader = w.b.reader /\ v.b.requests = w.b.requests
  /\ SameQueue(w, v) /\ v.b.pullIntos = w.b.pullIntos /\ v.b.auto = w.b.auto
  /\ RequestOK(v.b.request, v.b.pullIntos) /\ (v.b.pulling = TRUE <=> v.pulls # "none")

LEMMA SameCalm ==
  ASSUME NEW w, NEW a, NEW n, Calm(w, a, n), NEW v, SameBytes(w, v)
  PROVE  Calm(v, a, n)
<1>1. WorldOK(w, a)
  BY DEF Calm
<1>2. LockOK(v.b, v.holders)
  BY <1>1 DEF WorldOK, SameBytes, LockOK
<1>3. ToldOK(v.b, v.holders)
  BY <1>1 DEF WorldOK, SameBytes, ToldOK
<1>4. WorldOK(v, a)
  BY <1>1, <1>2, <1>3 DEF WorldOK, SameBytes, SameQueue
<1>5. WaitsOK(v)
  BY DEF Calm, SameBytes, WaitsOK
<1>6. InTurn(v)
  BY DEF Calm, SameBytes, InTurn, Overtaken, SomeoneWaits, SameQueue
<1>7. OrderOK(v, a, n)
  BY DEF Calm, SameBytes, OrderOK, KeptOf, SameQueue
<1> QED BY <1>4, <1>5, <1>6, <1>7 DEF Calm, SameBytes, SameQueue

\* The end by close(), which loses nothing unless it says so.
LEMMA FinishLawful ==
  ASSUME NEW w, NEW a \in Nat, a <= MaxByteReads, NEW n \in Nat, Sound(w, a, n),
         w.b.pullIntos = bytes.pullIntos, bytes.state = "readable", NEW v, v = ByteFinishClose(w)
  PROVE  Lawful(v, a, n)
<1>1. WorldOK(w, a) /\ WaitsOK(w) /\ w.b.state = "readable" /\ LaterEmpty(w.given) /\ Flow(w, a, <<>>) = Numbers(0, n)
  BY DEF Sound
<1>2. /\ WorldOK(v, a) /\ WaitsOK(v) /\ InTurn(v) /\ v.b.state = "closed" /\ v.b.queue = w.b.queue
      /\ v.b.pullIntos = <<>>
      /\ LaterEmpty(w.given) /\ ~Partly(w) =>
           LaterEmpty(v.given) /\ DeliveredOf(v.given, a) = DeliveredOf(w.given, a)
  BY <1>1, FinishCloseEnds
<1>3. ASSUME Dropped(v) = {} PROVE Calm(v, a, n)
  <2>1. v.b.queue = <<>> /\ ~Partly(ByteWorld)
    BY <1>2, <1>3 DEF Dropped
  <2>2. ~Partly(w)
    BY <2>1 DEF Partly, ByteWorld
  <2>3. LaterEmpty(v.given) /\ DeliveredOf(v.given, a) = DeliveredOf(w.given, a)
    BY <1>1, <1>2, <2>2
  <2>4. PICK vs \in Seq(PullIntoSet) : vs = w.b.pullIntos /\ ViewsOK(vs, a)
    BY <1>1, WorldFields, FieldFields DEF WorldOK
  <2>5. vs # <<>> => vs[1].filled = 0
    <3>1. SUFFICES ASSUME vs # <<>> PROVE vs[1].filled = 0
      OBVIOUS
    <3>0. vs[1] \in PullIntoSet /\ 1 \in 1..Len(vs)
      BY <3>1
    <3>2. 1 \in 1..Len(vs) /\ vs[1].filled \in Nat
      BY <3>0 DEF PullIntoSet
    <3> QED BY <3>2, <2>2, <2>4 DEF Partly
  <2>6. Held(w.b.pullIntos) = <<>>
    BY <2>4, <2>5, HeldBlank
  <2>7. KeptOf(v.b) = KeptOf(w.b)
    BY <2>6, <1>2, HeldNothing DEF KeptOf
  <2>8. Flow(v, a, <<>>) = Numbers(0, n)
    BY <2>3, <2>7, <1>1 DEF Flow
  <2>9. Flow(v, a, <<>>) = Then(DeliveredOf(v.given, a), KeptOf(v.b))
    BY <1>2, FlowEnds
  <2>10. OrderOK(v, a, n)
    BY <2>8, <2>9, <1>2, OrderBegins DEF Then
  <2> QED BY <1>2, <2>1, <2>3, <2>10 DEF Calm
<1> QED BY <1>2, <1>3 DEF Lawful

-----------------------------------------------------------------------------
(***************************************************************************)
(* The steps that move no bytes.                                           *)
(***************************************************************************)
LEMMA ErrorBytesStep == ByteInv /\ lapses = {} /\ ErrorBytes => ByteInv'
<1>1. SUFFICES ASSUME ByteInv, lapses = {}, ErrorBytes PROVE ByteInv'
  OBVIOUS
<1>2. PICK v : v = ByteError(ByteWorld)
  OBVIOUS
<1>3. ByteStep(v) /\ asked' = asked /\ provided' = provided
  BY <1>1, <1>2 DEF ErrorBytes
<1>4. Calm(ByteWorld, asked, provided) /\ asked \in Nat /\ asked <= MaxByteReads /\ provided \in Nat
  BY <1>1, StartsCalm
<1>5. Calm(v, asked, provided)
  BY <1>2, <1>4, CalmError
<1>6. Lawful(v, asked', provided')
  BY <1>3, <1>5, CalmLawful
<1>7. asked' \in 0..MaxByteReads /\ provided' \in Nat
  BY <1>3, <1>4, StartsCalm, <1>1
<1> QED BY <1>1, <1>3, <1>6, <1>7, StepDone

LEMMA ByteStartedStep == ByteInv /\ lapses = {} /\ ByteStarted => ByteInv'
<1>1. SUFFICES ASSUME ByteInv, lapses = {}, ByteStarted PROVE ByteInv'
  OBVIOUS
<1>2. PICK v : v = CallBytePullIfNeeded(ByteWorld)
  OBVIOUS
<1>3. PICK u : u = ByteError(ByteWorld)
  OBVIOUS
<1>4. (ByteStep(v) \/ ByteStep(u)) /\ asked' = asked /\ provided' = provided
  BY <1>1, <1>2, <1>3 DEF ByteStarted
<1>5. Calm(ByteWorld, asked, provided) /\ asked \in Nat /\ asked <= MaxByteReads /\ provided \in Nat
      /\ MaxByteReads \in Nat
  BY <1>1, StartsCalm
<1>6. Calm(v, asked, provided) /\ Calm(u, asked, provided)
  BY <1>2, <1>3, <1>5, CalmCall, CalmError
<1>7. Lawful(v, asked', provided') /\ Lawful(u, asked', provided')
  BY <1>4, <1>6, CalmLawful
<1>8. asked' \in 0..MaxByteReads /\ provided' \in Nat
  BY <1>4, <1>5
<1> QED BY <1>1, <1>4, <1>7, <1>8, StepDone

\* What of a stream with other flags or another request.
OtherFlags(w, f) ==
  /\ f \in FieldSet
  /\ f.state = w.b.state /\ f.reader = w.b.reader /\ f.requests = w.b.requests /\ f.queue = w.b.queue
  /\ f.queueTotalSize = w.b.queueTotalSize /\ f.pullIntos = w.b.pullIntos /\ f.auto = w.b.auto
  /\ RequestOK(f.request, f.pullIntos) /\ (f.pulling = TRUE <=> w.pulls # "none")

LEMMA FlagsSame ==
  ASSUME NEW w \in WorldSet, NEW f, OtherFlags(w, f), NEW v, v = [w EXCEPT !.b = f]
  PROVE  SameBytes(w, v) /\ v.b = f /\ v.pulls = w.pulls
<1>1. v \in WorldSet /\ v.b = f /\ v.given = w.given /\ v.holders = w.holders /\ v.pulls = w.pulls
  BY DEF WorldSet, OtherFlags
<1> QED BY <1>1 DEF SameBytes, SameQueue, OtherFlags

LEMMA TakeRequestStep == ByteInv /\ lapses = {} /\ TakeRequest => ByteInv'
<1>1. SUFFICES ASSUME ByteInv, lapses = {}, TakeRequest PROVE ByteInv'
  OBVIOUS
<1>2. Calm(ByteWorld, asked, provided) /\ asked \in Nat /\ asked <= MaxByteReads /\ provided \in Nat
      /\ MaxByteReads \in Nat /\ ByteWorld \in WorldSet /\ WorldOK(ByteWorld, asked) /\ ByteWorld.b = bytes
      /\ ByteWorld.pulls = pulls
  BY <1>1, StartsCalm
<1>3. bytes \in FieldSet /\ (bytes.pulling = TRUE <=> pulls # "none") /\ ViewsOK(bytes.pullIntos, asked)
      /\ bytes.pullIntos \in Seq(PullIntoSet) /\ bytes.pullIntos # <<>>
  BY <1>1, <1>2, WorldFields, FieldFields DEF WorldOK, TakeRequest
<1>4. PICK p \in PullIntoSet : p = Head(bytes.pullIntos) /\ p = bytes.pullIntos[1] /\ p.filled < Len(p.data)
  BY <1>3 DEF ViewsOK
<1>5. PICK r : r = [len |-> Len(p.data) - p.filled, at |-> p.filled, live |-> TRUE]
  OBVIOUS
<1>6. r \in RequestSet /\ r.len + r.at = Len(p.data)
  <2>1. PICK l \in Nat, m \in Nat : l = Len(p.data) /\ m = p.filled /\ m < l
    BY <1>4 DEF PullIntoSet
  <2>2. r = [len |-> l - m, at |-> m, live |-> TRUE] /\ l - m \in Nat /\ (l - m) + m = l
    BY <2>1, <1>5
  <2>3. r \in RequestSet /\ r.len = l - m /\ r.at = m
    BY <2>2 DEF RequestSet
  <2> QED BY <2>1, <2>2, <2>3
<1>7. PICK f : f = [bytes EXCEPT !.request = r]
  OBVIOUS
<1>8. f \in FieldSet /\ f.request = r
      /\ f.state = bytes.state /\ f.reader = bytes.reader /\ f.requests = bytes.requests /\ f.queue = bytes.queue
      /\ f.queueTotalSize = bytes.queueTotalSize /\ f.pullIntos = bytes.pullIntos /\ f.auto = bytes.auto
      /\ f.pulling = bytes.pulling
  BY <1>3, <1>6, <1>7 DEF FieldSet
<1>9. RequestOK(f.request, f.pullIntos)
  BY <1>3, <1>4, <1>6, <1>8 DEF RequestOK
<1>10. PICK v : v = [ByteWorld EXCEPT !.b = f]
  OBVIOUS
<1>11. SameBytes(ByteWorld, v) /\ v.b = f /\ v.pulls = ByteWorld.pulls
  <2>1. OtherFlags(ByteWorld, f)
    <3>1. f.pulling = TRUE <=> ByteWorld.pulls # "none"
      BY <1>2, <1>8 DEF WorldOK
    <3> QED BY <3>1, <1>2, <1>8, <1>9 DEF OtherFlags
  <2> QED BY <2>1, <1>2, <1>10, FlagsSame
<1>12. Calm(v, asked, provided)
  BY <1>2, <1>11, SameCalm
<1>13. ByteBecomes(v) /\ asked' = asked /\ provided' = provided /\ lapses' = {}
  <2>1. bytes' = f /\ UNCHANGED <<provided, asked, given, holders, pulls, begun, lapses>>
    BY <1>1, <1>4, <1>5, <1>7 DEF TakeRequest
  <2> QED BY <2>1, <1>1, <1>2, <1>11, StartsCalm DEF ByteBecomes, SameBytes
<1>14. asked' \in 0..MaxByteReads /\ provided' \in Nat
  BY <1>2, <1>13
<1>15. Calm(v, asked', provided')
  BY <1>12, <1>13
<1> QED BY <1>13, <1>14, <1>15, CalmDone

LEMMA BytePullReturnsStep == ByteInv /\ lapses = {} /\ BytePullReturns => ByteInv'
<1>1. SUFFICES ASSUME ByteInv, lapses = {}, BytePullReturns PROVE ByteInv'
  OBVIOUS
<1>2. Calm(ByteWorld, asked, provided) /\ asked \in Nat /\ asked <= MaxByteReads /\ provided \in Nat
      /\ MaxByteReads \in Nat /\ ByteWorld \in WorldSet /\ WorldOK(ByteWorld, asked) /\ ByteWorld.b = bytes
      /\ ByteWorld.pulls = pulls /\ ByteWorld.given = given /\ ByteWorld.holders = holders
  BY <1>1, StartsCalm
<1>3. pulls # "none" /\ pulls' # "none" /\ pulls' \in {"pending", "resolved", "rejected"}
      /\ UNCHANGED <<bytes, provided, asked, given, holders, begun, lapses>>
  BY <1>1 DEF BytePullReturns
<1>4. PICK v : v = [ByteWorld EXCEPT !.pulls = pulls']
  OBVIOUS
<1>5. v \in WorldSet /\ v.b = bytes /\ v.given = given /\ v.holders = holders /\ v.pulls = pulls'
  BY <1>2, <1>3, <1>4 DEF WorldSet
<1>6. SameBytes(ByteWorld, v)
  <2>1. RequestOK(bytes.request, bytes.pullIntos) /\ (bytes.pulling = TRUE <=> pulls # "none")
    BY <1>2 DEF WorldOK
  <2> QED BY <2>1, <1>2, <1>3, <1>5 DEF SameBytes, SameQueue
<1>7. Calm(v, asked, provided)
  BY <1>2, <1>6, SameCalm
<1>8. ByteBecomes(v) /\ asked' = asked /\ provided' = provided /\ lapses' = {}
  BY <1>1, <1>3, <1>5 DEF ByteBecomes
<1>9. asked' \in 0..MaxByteReads /\ provided' \in Nat /\ Calm(v, asked', provided')
  BY <1>2, <1>7, <1>8
<1> QED BY <1>8, <1>9, CalmDone

\* pull() is over; it may be called again at once.
LEMMA PullOver ==
  ASSUME NEW w, NEW a, NEW n, Calm(w, a, n), NEW again \in BOOLEAN,
         NEW v, v = [w EXCEPT !.b.pulling = FALSE, !.pulls = "none", !.b.pullAgain = again]
  PROVE  Calm(v, a, n)
<1>1. w \in WorldSet /\ WorldOK(w, a)
  BY DEF Calm, WorldOK
<1>2. PICK b \in FieldSet : b = w.b
  BY <1>1, WorldFields
<1>3. PICK f : f = [b EXCEPT !.pulling = FALSE, !.pullAgain = again]
  OBVIOUS
<1>4. f \in FieldSet /\ f.request = b.request
      /\ f.state = b.state /\ f.reader = b.reader /\ f.requests = b.requests /\ f.queue = b.queue
      /\ f.queueTotalSize = b.queueTotalSize /\ f.pullIntos = b.pullIntos /\ f.auto = b.auto
      /\ f.pulling = FALSE
  BY <1>3 DEF FieldSet
<1>5. v = [w EXCEPT !.b = f, !.pulls = "none"]
  BY <1>1, <1>2, <1>3 DEF WorldSet
<1>6. v \in WorldSet /\ v.b = f /\ v.given = w.given /\ v.holders = w.holders /\ v.pulls = "none"
  BY <1>1, <1>4, <1>5 DEF WorldSet
<1>7. RequestOK(b.request, b.pullIntos)
  BY <1>1, <1>2 DEF WorldOK
<1>8. SameBytes(w, v)
  BY <1>2, <1>4, <1>6, <1>7 DEF SameBytes, SameQueue
<1> QED BY <1>8, SameCalm

LEMMA BytePulledStep == ByteInv /\ lapses = {} /\ BytePulled => ByteInv'
<1>1. SUFFICES ASSUME ByteInv, lapses = {}, BytePulled PROVE ByteInv'
  OBVIOUS
<1>2. Calm(ByteWorld, asked, provided) /\ asked \in Nat /\ asked <= MaxByteReads /\ provided \in Nat
      /\ MaxByteReads \in Nat /\ ByteWorld \in WorldSet /\ ByteWorld.b = bytes /\ bytes \in FieldSet
  BY <1>1, StartsCalm, WorldFields
<1>3. PICK w : w = [ByteWorld EXCEPT !.b.pulling = FALSE, !.pulls = "none"]
  OBVIOUS
<1>4. PICK u : u = [w EXCEPT !.b.pullAgain = FALSE]
  OBVIOUS
<1>5. PICK v : v = CallBytePullIfNeeded(u)
  OBVIOUS
<1>6. PICK x : x = ByteError(w)
  OBVIOUS
<1>7. (ByteStep(w) \/ ByteStep(v) \/ ByteStep(x)) /\ asked' = asked /\ provided' = provided
  <2>1. BytePulled = (
          /\ \/ pulls = "resolved"
                /\ ByteStep(IF bytes.pullAgain THEN CallBytePullIfNeeded([w EXCEPT !.b.pullAgain = FALSE]) ELSE w)
             \/ pulls \in {"rejected", "running"} /\ ByteStep(ByteError(w))
          /\ UNCHANGED <<provided, asked, begun>>)
    BY <1>3 DEF BytePulled
  <2> QED BY <2>1, <1>1, <1>4, <1>5, <1>6
<1>8. Calm(w, asked, provided)
  <2>1. w = [ByteWorld EXCEPT !.b.pulling = FALSE, !.pulls = "none", !.b.pullAgain = bytes.pullAgain]
    BY <1>2, <1>3 DEF WorldSet, FieldSet
  <2>2. bytes.pullAgain \in BOOLEAN
    BY <1>2, FieldFields
  <2> QED BY <2>1, <2>2, <1>2, PullOver
<1>9. Calm(u, asked, provided)
  <2>1. u = [ByteWorld EXCEPT !.b.pulling = FALSE, !.pulls = "none", !.b.pullAgain = FALSE]
    BY <1>2, <1>3, <1>4 DEF WorldSet, FieldSet
  <2>2. FALSE \in BOOLEAN
    OBVIOUS
  <2> QED BY <2>1, <2>2, <1>2, PullOver
<1>10. Calm(v, asked, provided) /\ Calm(x, asked, provided)
  BY <1>2, <1>5, <1>6, <1>8, <1>9, CalmCall, CalmError
<1>11. Lawful(w, asked', provided') /\ Lawful(v, asked', provided') /\ Lawful(x, asked', provided')
  BY <1>7, <1>8, <1>10, CalmLawful
<1>12. asked' \in 0..MaxByteReads /\ provided' \in Nat
  BY <1>2, <1>7
<1> QED BY <1>1, <1>7, <1>11, <1>12, StepDone

-----------------------------------------------------------------------------
(***************************************************************************)
(* Readers come and go.                                                    *)
(***************************************************************************)
\* Reads of nobody: requests there are none, and the pull-intos are the controller's.
Nobody(w) ==
  /\ w.b.requests = <<>> /\ \A j \in 1..Len(w.b.pullIntos) : w.b.pullIntos[j].read = 0

\* v is w with another reader, or none.
ReadBy(w, v, r, hs) ==
  /\ v \in WorldSet /\ v.given = w.given /\ v.pulls = w.pulls /\ v.holders = hs
  /\ v.b.state = w.b.state /\ v.b.reader = r /\ v.b.requests = w.b.requests
  /\ SameQueue(w, v) /\ v.b.pullIntos = w.b.pullIntos /\ v.b.auto = w.b.auto
  /\ v.b.request = w.b.request /\ v.b.pulling = w.b.pulling

\* Another reader, or none.
LEMMA ReadsIs ==
  ASSUME NEW w \in WorldSet, NEW r \in Nat, NEW hs \in Seq(HolderSet),
         NEW v, v = [w EXCEPT !.b.reader = r, !.holders = hs]
  PROVE  ReadBy(w, v, r, hs)
<1>1. PICK b \in FieldSet : b = w.b
  BY WorldFields
<1>2. PICK f : f = [b EXCEPT !.reader = r]
  OBVIOUS
<1>3. f \in FieldSet /\ f.request = b.request /\ f.reader = r
      /\ f.state = b.state /\ f.requests = b.requests /\ f.queue = b.queue
      /\ f.queueTotalSize = b.queueTotalSize /\ f.pullIntos = b.pullIntos /\ f.auto = b.auto
      /\ f.pulling = b.pulling
  BY <1>2 DEF FieldSet
<1>4. v = [w EXCEPT !.b = f, !.holders = hs]
  BY <1>1, <1>2 DEF WorldSet
<1>5. v \in WorldSet /\ v.b = f /\ v.given = w.given /\ v.holders = hs /\ v.pulls = w.pulls
  BY <1>3, <1>4 DEF WorldSet
<1> QED BY <1>1, <1>3, <1>5 DEF ReadBy, SameQueue

LEMMA ReadsKeep ==
  ASSUME NEW w, NEW a, WorldOK(w, a), NEW r, NEW hs, NEW v, ReadBy(w, v, r, hs), Nobody(w),
         r \in 0..Len(hs), r # 0 => hs[r].closed = ClosedSays(w.b.state)
  PROVE  WorldOK(v, a) /\ (WaitsOK(w) => WaitsOK(v)) /\ InTurn(v) /\ v.given = w.given /\ KeptOf(v.b) = KeptOf(w.b)
         /\ v.b.state = w.b.state /\ v.b.queue = w.b.queue
<1>1. LockOK(v.b, v.holders)
  BY DEF ReadBy, Nobody, LockOK, WorldOK
<1>2. ToldOK(v.b, v.holders)
  BY DEF ReadBy, ToldOK
<1>3. WorldOK(v, a)
  BY <1>1, <1>2 DEF WorldOK, ReadBy, SameQueue
<1>4. WaitsOK(w) => WaitsOK(v)
  BY DEF WaitsOK, ReadBy
<1>5. InTurn(v)
  BY DEF InTurn, Overtaken, SomeoneWaits, ReadBy, Nobody
<1>6. KeptOf(v.b) = KeptOf(w.b)
  BY DEF KeptOf, ReadBy, SameQueue
<1> QED BY <1>3, <1>4, <1>5, <1>6 DEF ReadBy, SameQueue

LEMMA ReadsCalm ==
  ASSUME NEW w, NEW a, NEW n, Calm(w, a, n), NEW r, NEW hs, NEW v, ReadBy(w, v, r, hs), Nobody(w),
         r \in 0..Len(hs), r # 0 => hs[r].closed = ClosedSays(w.b.state)
  PROVE  Calm(v, a, n)
<1>1. WorldOK(w, a)
  BY DEF Calm
<1>2. WorldOK(v, a) /\ (WaitsOK(w) => WaitsOK(v)) /\ InTurn(v) /\ v.given = w.given /\ KeptOf(v.b) = KeptOf(w.b)
      /\ v.b.state = w.b.state /\ v.b.queue = w.b.queue
  BY <1>1, ReadsKeep
<1>3. OrderOK(v, a, n)
  BY <1>2 DEF Calm, OrderOK
<1> QED BY <1>2, <1>3 DEF Calm

\* getReader()
LEMMA GetByteReaderStep == ByteInv /\ lapses = {} /\ (\E kind \in {"default", "byob"} : GetByteReader(kind)) => ByteInv'
<1>1. SUFFICES ASSUME ByteInv, lapses = {}, NEW kind \in {"default", "byob"}, GetByteReader(kind) PROVE ByteInv'
  OBVIOUS
<1>2. Calm(ByteWorld, asked, provided) /\ asked \in Nat /\ asked <= MaxByteReads /\ provided \in Nat
      /\ MaxByteReads \in Nat /\ ByteWorld \in WorldSet /\ WorldOK(ByteWorld, asked) /\ ByteWorld.b = bytes
      /\ ByteWorld.pulls = pulls /\ ByteWorld.given = given /\ ByteWorld.holders = holders
      /\ bytes \in FieldSet /\ holders \in Seq(HolderSet) /\ bytes.state \in {"readable", "closed", "errored"}
  BY <1>1, StartsCalm, WorldFields, FieldFields
<1>3. bytes.reader = 0 /\ UNCHANGED <<provided, asked, given, pulls, begun, lapses>>
  BY <1>1 DEF GetByteReader
<1>4. PICK e : e = [kind |-> kind, closed |-> ClosedSays(bytes.state)]
  OBVIOUS
<1>5. e \in HolderSet /\ e.closed = ClosedSays(bytes.state)
  BY <1>2, <1>4 DEF HolderSet, ClosedSays
<1>6. PICK hs \in Seq(HolderSet), r \in Nat : hs = Append(holders, e) /\ r = Len(holders) + 1
  <2>1. Append(holders, e) \in Seq(HolderSet) /\ Len(holders) + 1 \in Nat
    BY <1>2, <1>5
  <2> QED BY <2>1
<1>7. r \in 1..Len(hs) /\ hs[r] = e
  BY <1>2, <1>5, <1>6
<1>8. PICK v : v = [ByteWorld EXCEPT !.b.reader = r, !.holders = hs]
  OBVIOUS
<1>9. ReadBy(ByteWorld, v, r, hs)
  BY <1>2, <1>6, <1>8, ReadsIs
<1>10. Nobody(ByteWorld)
  <2>1. LockOK(bytes, holders)
    BY <1>2 DEF WorldOK
  <2> QED BY <2>1, <1>2, <1>3 DEF LockOK, Nobody
<1>11. r \in 0..Len(hs) /\ (r # 0 => hs[r].closed = ClosedSays(ByteWorld.b.state))
  BY <1>7, <1>5, <1>2
<1>12. Calm(v, asked, provided)
  BY <1>2, <1>9, <1>10, <1>11, ReadsCalm
<1>13. bytes' = [bytes EXCEPT !.reader = r] /\ holders' = hs
  <2>1. ClosedSays(bytes.state) = CASE bytes.state = "closed" -> "resolved"
                                    [] bytes.state = "errored" -> "rejected"
                                    [] OTHER -> "pending"
    BY <1>2 DEF ClosedSays
  <2>2. e = [kind |-> kind, closed |-> CASE bytes.state = "closed" -> "resolved"
                                         [] bytes.state = "errored" -> "rejected"
                                         [] OTHER -> "pending"]
    BY <2>1, <1>4
  <2> QED BY <2>2, <1>1, <1>6 DEF GetByteReader
<1>14. v.b = [bytes EXCEPT !.reader = r]
  BY <1>2, <1>8 DEF WorldSet
<1>15. ByteBecomes(v) /\ asked' = asked /\ provided' = provided /\ lapses' = {}
  BY <1>1, <1>2, <1>3, <1>9, <1>13, <1>14 DEF ByteBecomes, ReadBy
<1>16. asked' \in 0..MaxByteReads /\ provided' \in Nat /\ Calm(v, asked', provided')
  BY <1>2, <1>12, <1>15
<1> QED BY <1>15, <1>16, CalmDone

\* A step that ends with a lapse is only asked for what is always so.
LEMMA LapseDone ==
  ASSUME NEW w, ByteBecomes(w), WorldOK(w, asked'), w.b.auto = 0 => InTurn(w), lapses' # {},
         lapses' \subseteq {"overtaken", "dropped", "misplaced", "cancelled"},
         "misplaced" \notin lapses' => WaitsOK(w),
         asked' \in 0..MaxByteReads, provided' \in Nat
  PROVE  ByteInv'
<1>1. w \in WorldSet
  BY DEF WorldOK
<1>2. ByteWorld' = w
  BY <1>1 DEF ByteBecomes, ByteWorld, WorldSet
<1>3. bytes' = w.b /\ given' = w.given
  BY DEF ByteBecomes
<1> QED BY <1>2, <1>3 DEF ByteInv

LEMMA CancelBytesStep == ByteInv /\ lapses = {} /\ CancelBytes => ByteInv'
<1>1. SUFFICES ASSUME ByteInv, lapses = {}, CancelBytes PROVE ByteInv'
  OBVIOUS
<1>2. asked \in Nat /\ asked <= MaxByteReads /\ provided \in Nat /\ WaitsOK(ByteWorld)
      /\ MaxByteReads \in Nat /\ WorldOK(ByteWorld, asked) /\ ByteWorld.b = bytes
  BY <1>1, StartsCalm
<1>3. PICK v : v = AnswerPullIntos(SettleClosed(AnswerRequests(
               [NoBytes(ByteWorld) EXCEPT !.b.state = "closed"], "done"), "resolved"), "done")
  OBVIOUS
<1>4. ByteWorld.b.state = "readable" /\ ByteBecomes(v) /\ asked' = asked /\ provided' = provided /\ lapses' = {"cancelled"}
  BY <1>1, <1>2, <1>3 DEF CancelBytes
<1>5. WorldOK(v, asked) /\ WaitsOK(v) /\ InTurn(v)
  BY <1>2, <1>3, <1>4, CancelEnds
<1>6. WorldOK(v, asked')
  BY <1>4, <1>5
<1>7. asked' \in 0..MaxByteReads /\ provided' \in Nat
  BY <1>2, <1>4
<1> QED BY <1>4, <1>5, <1>6, <1>7, LapseDone

\* v is w after every read that waits was rejected.
Rejects(w, v) ==
  /\ v \in WorldSet /\ SameReader(w, v) /\ SameQueue(w, v) /\ v.b.state = w.b.state /\ v.holders = w.holders
  /\ \/ v.b.pullIntos = w.b.pullIntos /\ v.b.request = w.b.request
     \/ v.b.pullIntos = <<>> /\ v.b.request.live = FALSE
  /\ Nobody(v)
  /\ \A k \in ByteReads :
       IF InSeq(k, w.b.requests) \/ HasView(k, w.b.pullIntos)
       THEN v.given[k].st = "rejected" /\ v.given[k].data = <<>> ELSE v.given[k] = w.given[k]

\* releaseLock() rejects what waits, which keeps what is known of the stream ...
LEMMA RejectsKeep ==
  ASSUME NEW w, NEW a, WorldOK(w, a), WaitsOK(w), NEW v, Rejects(w, v)
  PROVE  WorldOK(v, a) /\ WaitsOK(v) /\ InTurn(v)
<1>1. w \in WorldSet /\ w.b \in FieldSet /\ v.b \in FieldSet
  BY WorldFields DEF WorldOK, Rejects
<1>2. QueueOK(v.b.queue, v.b.queueTotalSize) /\ Rising(v.b.requests)
  BY DEF Rejects, SameQueue, WorldOK, Nobody, Rising
<1>3. ViewsOK(v.b.pullIntos, a) /\ RequestOK(v.b.request, v.b.pullIntos)
  <2>1. CASE v.b.pullIntos = w.b.pullIntos /\ v.b.request = w.b.request
    BY <2>1 DEF WorldOK
  <2>2. CASE v.b.pullIntos = <<>> /\ v.b.request.live = FALSE
    BY <2>2 DEF ViewsOK, RequestOK
  <2> QED BY <2>1, <2>2 DEF Rejects
<1>4. LockOK(v.b, v.holders)
  <2>1. v.b.state # "readable" => v.b.pullIntos = <<>>
    BY DEF Rejects, WorldOK, LockOK
  <2>2. v.b.auto = 0 => \A j \in 1..Len(v.b.pullIntos) : v.b.pullIntos[j].read # 0
    BY DEF Rejects, WorldOK, LockOK, SameReader
  <2>3. v.b.reader \in 0..Len(v.holders)
    BY DEF Rejects, WorldOK, LockOK, SameReader
  <2> QED BY <2>1, <2>2, <2>3 DEF Rejects, Nobody, LockOK
<1>5. ToldOK(v.b, v.holders)
  BY DEF Rejects, WorldOK, ToldOK, SameReader
<1>6. GivenOK(v.given, a)
  <2>1. SUFFICES ASSUME NEW k \in ByteReads PROVE v.given[k].st = "none" <=> k > a
    BY DEF GivenOK
  <2>2. w.given[k].st = "none" <=> k > a
    BY DEF WorldOK, GivenOK
  <2>3. CASE InSeq(k, w.b.requests) \/ HasView(k, w.b.pullIntos)
    <3>1. w.given[k].st = "pending"
      BY <2>3 DEF WaitsOK
    <3> QED BY <2>2, <2>3, <3>1 DEF Rejects
  <2>4. CASE ~(InSeq(k, w.b.requests) \/ HasView(k, w.b.pullIntos))
    BY <2>2, <2>4 DEF Rejects
  <2> QED BY <2>3, <2>4
<1>7. v.b.pulling = TRUE <=> v.pulls # "none"
  BY DEF Rejects, SameReader, WorldOK
<1>8. WaitsOK(v)
  <2>1. SUFFICES ASSUME NEW k \in ByteReads
                 PROVE v.given[k].st # "pending" /\ ~InSeq(k, v.b.requests) /\ ~HasView(k, v.b.pullIntos)
    BY DEF WaitsOK
  <2>2. k # 0
    BY DEF ByteReads
  <2>3. ~InSeq(k, v.b.requests) /\ ~HasView(k, v.b.pullIntos)
    BY <2>2 DEF InSeq, HasView, Rejects, Nobody
  <2>4. v.given[k].st # "pending"
    <3>1. CASE InSeq(k, w.b.requests) \/ HasView(k, w.b.pullIntos)
      BY <3>1 DEF Rejects
    <3>2. CASE ~(InSeq(k, w.b.requests) \/ HasView(k, w.b.pullIntos))
      BY <3>2 DEF Rejects, WaitsOK
    <3> QED BY <3>1, <3>2
  <2> QED BY <2>3, <2>4
<1>9. InTurn(v)
  BY DEF InTurn, Overtaken, SomeoneWaits, Rejects, Nobody
<1> QED BY <1>2, <1>3, <1>4, <1>5, <1>6, <1>7, <1>8, <1>9 DEF WorldOK, Rejects

\* ... and brings no byte to any read.
LEMMA RejectsGive ==
  ASSUME NEW w, WaitsOK(w), LaterEmpty(w.given), NEW v, Rejects(w, v)
  PROVE  LaterEmpty(v.given) /\ \A k \in ByteReads : v.given[k].data = w.given[k].data
<1>1. ASSUME NEW k \in ByteReads PROVE v.given[k].data = w.given[k].data /\ (v.given[k].st \in {"none", "pending"} => v.given[k] = w.given[k])
  <2>1. CASE InSeq(k, w.b.requests) \/ HasView(k, w.b.pullIntos)
    <3>1. w.given[k].st = "pending"
      BY <2>1 DEF WaitsOK
    <3>2. w.given[k].data = <<>>
      <4>1. k <= k
        BY DEF ByteReads
      <4> QED BY <3>1, <4>1 DEF LaterEmpty
    <3> QED BY <2>1, <3>2 DEF Rejects
  <2>2. CASE ~(InSeq(k, w.b.requests) \/ HasView(k, w.b.pullIntos))
    BY <2>2 DEF Rejects
  <2> QED BY <2>1, <2>2
<1>2. LaterEmpty(v.given)
  BY <1>1 DEF LaterEmpty
<1> QED BY <1>1, <1>2

LEMMA NotPartlyHeld ==
  ASSUME NEW w, NEW a, WorldOK(w, a), ~Partly(w) PROVE Held(w.b.pullIntos) = <<>>
<1>1. PICK vs \in Seq(PullIntoSet) : vs = w.b.pullIntos /\ ViewsOK(vs, a)
  BY WorldFields, FieldFields DEF WorldOK
<1>2. vs # <<>> => vs[1].filled = 0
  <2>1. SUFFICES ASSUME vs # <<>> PROVE vs[1].filled = 0
    OBVIOUS
  <2>2. vs[1] \in PullIntoSet /\ 1 \in 1..Len(vs)
    BY <2>1
  <2>3. vs[1].filled \in Nat
    BY <2>2 DEF PullIntoSet
  <2> QED BY <2>2, <2>3, <1>1 DEF Partly
<1> QED BY <1>1, <1>2, HeldBlank

\* Where no view holds bytes, none is lost.
LEMMA RejectsCalm ==
  ASSUME NEW w, NEW a \in Nat, a <= MaxByteReads, NEW n, Calm(w, a, n), NEW v, Rejects(w, v),
         v.b.pullIntos = w.b.pullIntos \/ ~Partly(w)
  PROVE  Calm(v, a, n)
<1>1. WorldOK(w, a) /\ WaitsOK(w) /\ LaterEmpty(w.given) /\ OrderOK(w, a, n) /\ (w.b.state # "readable" => w.b.queue = <<>>)
  BY DEF Calm
<1>2. WorldOK(v, a) /\ WaitsOK(v) /\ InTurn(v)
  BY <1>1, RejectsKeep
<1>3. LaterEmpty(v.given) /\ \A k \in ByteReads : v.given[k].data = w.given[k].data
  BY <1>1, RejectsGive
<1>4. DeliveredOf(v.given, a) = DeliveredOf(w.given, a)
  BY <1>3, SameDelivered
<1>5. v.b.queue = w.b.queue /\ v.b.state = w.b.state
  BY DEF Rejects, SameQueue
<1>6. Held(v.b.pullIntos) = Held(w.b.pullIntos)
  <2>1. CASE v.b.pullIntos = w.b.pullIntos
    BY <2>1
  <2>2. CASE v.b.pullIntos # w.b.pullIntos
    <3>1. v.b.pullIntos = <<>> /\ ~Partly(w)
      BY <2>2 DEF Rejects
    <3> QED BY <3>1, <1>1, NotPartlyHeld, HeldNothing
  <2> QED BY <2>1, <2>2
<1>7. OrderOK(v, a, n)
  BY <1>1, <1>4, <1>5, <1>6 DEF OrderOK, KeptOf
<1> QED BY <1>1, <1>2, <1>3, <1>5, <1>7 DEF Calm

LEMMA RequestsRejected ==
  ASSUME NEW w, NEW a, WorldOK(w, a), w.b.reader # 0, w.holders[w.b.reader].kind = "default",
         NEW v, v = AnswerRequests(w, "rejected")
  PROVE  Rejects(w, v) /\ v.b.pullIntos = w.b.pullIntos
<1>1. w \in WorldSet /\ LockOK(w.b, w.holders)
  BY DEF WorldOK
<1>2. "rejected" \in {"done", "rejected"} /\ "rejected" \in {"none", "pending", "value", "done", "rejected"}
  OBVIOUS
<1>3. /\ v \in WorldSet /\ SameReader(w, v) /\ SameQueue(w, v)
      /\ v.b.state = w.b.state /\ v.b.requests = <<>> /\ v.b.pullIntos = w.b.pullIntos
      /\ v.b.request = w.b.request /\ v.holders = w.holders
      /\ \A k \in ByteReads : v.given[k] = IF InSeq(k, w.b.requests) THEN Answer("rejected", <<>>) ELSE w.given[k]
  BY <1>1, <1>2, AnswerRequestsIs
<1>4. Answer("rejected", <<>>).st = "rejected" /\ Answer("rejected", <<>>).data = <<>>
  BY DEF Answer
<1>5. \A j \in 1..Len(w.b.pullIntos) : w.b.pullIntos[j].read = 0
  BY <1>1 DEF LockOK
<1>6. Nobody(v)
  BY <1>3, <1>5 DEF Nobody
<1>7. \A k \in ByteReads : ~HasView(k, w.b.pullIntos)
  BY <1>5 DEF HasView, ByteReads
<1>8. \A k \in ByteReads :
        IF InSeq(k, w.b.requests) \/ HasView(k, w.b.pullIntos)
        THEN v.given[k].st = "rejected" /\ v.given[k].data = <<>> ELSE v.given[k] = w.given[k]
  BY <1>3, <1>4, <1>7
<1>9. /\ v \in WorldSet /\ SameReader(w, v) /\ SameQueue(w, v)
      /\ v.b.state = w.b.state /\ v.b.pullIntos = w.b.pullIntos
      /\ v.b.request = w.b.request /\ v.holders = w.holders
  BY <1>3
<1>10. Rejects(w, v)
  BY <1>6, <1>8, <1>9 DEF Rejects
<1> QED BY <1>9, <1>10

LEMMA ViewsRejected ==
  ASSUME NEW w, NEW a, WorldOK(w, a), w.b.reader # 0, w.holders[w.b.reader].kind # "default",
         NEW v, v = AnswerPullIntos(w, "rejected")
  PROVE  Rejects(w, v)
<1>1. w \in WorldSet /\ LockOK(w.b, w.holders) /\ w.b.requests = <<>>
  BY DEF WorldOK, LockOK
<1>2. "rejected" \in {"done", "rejected"} /\ "rejected" # "done"
  OBVIOUS
<1>3. PICK vs \in Seq(PullIntoSet) : vs = w.b.pullIntos /\ ViewsOK(vs, a)
  BY WorldFields, FieldFields DEF WorldOK
<1>4. \A j \in 1..Len(w.b.pullIntos) : w.b.pullIntos[j].filled <= Len(w.b.pullIntos[j].data)
  BY <1>3, ViewsWithin
<1>5. /\ v \in WorldSet /\ SameReader(w, v) /\ SameQueue(w, v)
      /\ v.b.state = w.b.state /\ v.b.requests = w.b.requests /\ v.b.pullIntos = <<>>
      /\ v.b.request.live = FALSE /\ v.holders = w.holders
      /\ \A k \in ByteReads :
           IF HasView(k, w.b.pullIntos)
           THEN /\ v.given[k].st = "rejected"
                /\ \/ v.given[k].data = <<>>
                   \/ "rejected" = "done" /\ \E j \in 1..Len(w.b.pullIntos) : v.given[k].data = Filled(w.b.pullIntos[j])
           ELSE v.given[k] = w.given[k]
  BY <1>1, <1>2, <1>4, AnswerPullIntosIs, ZenonT(60)
<1>6. Nobody(v)
  BY <1>1, <1>5 DEF Nobody
<1>7. \A k \in ByteReads : ~InSeq(k, w.b.requests)
  BY <1>1 DEF InSeq
<1>8. \A k \in ByteReads :
        IF InSeq(k, w.b.requests) \/ HasView(k, w.b.pullIntos)
        THEN v.given[k].st = "rejected" /\ v.given[k].data = <<>> ELSE v.given[k] = w.given[k]
  BY <1>2, <1>5, <1>7
<1> QED BY <1>5, <1>6, <1>8 DEF Rejects

\* What the reader's leaving makes of its reads, before the stream is unlocked.
Dismiss(w) == IF Kind(w) = "default" THEN AnswerRequests(w, "rejected") ELSE ReleasePullIntos(w)

LEMMA DismissKeeps ==
  ASSUME NEW w, NEW a \in Nat, WorldOK(w, a), WaitsOK(w), w.b.reader # 0, NEW v, v = Dismiss(w)
  PROVE  WorldOK(v, a) /\ WaitsOK(v) /\ InTurn(v) /\ Nobody(v)
<1>1. Kind(w) = w.holders[w.b.reader].kind
  BY DEF Kind
<1>2. CASE Kind(w) = "default"
  <2>1. v = AnswerRequests(w, "rejected")
    BY <1>2 DEF Dismiss
  <2>2. Rejects(w, v)
    BY <1>1, <1>2, <2>1, RequestsRejected
  <2>3. Nobody(v)
    BY <2>2 DEF Rejects
  <2> QED BY <2>2, <2>3, RejectsKeep
<1>3. CASE Kind(w) # "default"
  <2>1. PICK u : u = AnswerPullIntos(w, "rejected")
    OBVIOUS
  <2>2. Rejects(w, u)
    BY <1>1, <1>3, <2>1, ViewsRejected
  <2>3. Nobody(u)
    BY <2>2 DEF Rejects
  <2>4. WorldOK(u, a) /\ WaitsOK(u) /\ InTurn(u)
    BY <2>2, RejectsKeep
  <2>5. v = u \/ v = ByteError(u)
    BY <1>3, <2>1 DEF Dismiss, ReleasePullIntos
  <2>6. CASE v = ByteError(u)
    <3>1. CASE u.b.state = "readable"
      <4>1. WorldOK(v, a) /\ WaitsOK(v) /\ InTurn(v) /\ v.b.state = "errored"
        BY <2>4, <2>6, <3>1, ByteErrorEnds
      <4>2. v.b.requests = <<>> /\ v.b.pullIntos = <<>>
        BY <4>1 DEF WorldOK, LockOK
      <4> QED BY <4>1, <4>2 DEF Nobody
    <3>2. CASE u.b.state # "readable"
      BY <2>3, <2>4, <2>6, <3>2, ByteErrorAgain
    <3> QED BY <3>1, <3>2
  <2> QED BY <2>3, <2>4, <2>5, <2>6
<1> QED BY <1>2, <1>3

LEMMA DismissCalm ==
  ASSUME NEW w, NEW a \in Nat, a <= MaxByteReads, NEW n, Calm(w, a, n), w.b.reader # 0,
         Kind(w) = "byob" => ~Partly(w), NEW v, v = Dismiss(w)
  PROVE  Calm(v, a, n)
<1>0. WorldOK(w, a)
  BY DEF Calm
<1>1. Kind(w) = w.holders[w.b.reader].kind
  BY DEF Kind
<1>2. CASE Kind(w) = "default"
  <2>1. v = AnswerRequests(w, "rejected")
    BY <1>2 DEF Dismiss
  <2>2. Rejects(w, v) /\ v.b.pullIntos = w.b.pullIntos
    BY <1>0, <1>1, <1>2, <2>1, RequestsRejected
  <2> QED BY <2>2, RejectsCalm
<1>3. CASE Kind(w) # "default"
  <2>1. PICK u : u = AnswerPullIntos(w, "rejected")
    OBVIOUS
  <2>2. Rejects(w, u)
    BY <1>0, <1>1, <1>3, <2>1, ViewsRejected
  <2>3. Kind(w) = "byob"
    <3>1. w.b.reader \in 1..Len(w.holders) /\ w.holders \in Seq(HolderSet)
      BY <1>0, WorldFields DEF WorldOK, LockOK
    <3>2. w.holders[w.b.reader] \in HolderSet
      BY <3>1
    <3> QED BY <1>1, <1>3, <3>2 DEF HolderSet
  <2>4. Calm(u, a, n)
    BY <2>2, <2>3, RejectsCalm
  <2>5. v = u \/ v = ByteError(u)
    BY <1>3, <2>1 DEF Dismiss, ReleasePullIntos
  <2> QED BY <2>4, <2>5, CalmError
<1> QED BY <1>2, <1>3

LEMMA ReleaseByteLockStep == ByteInv /\ lapses = {} /\ ReleaseByteLock => ByteInv'
<1>1. SUFFICES ASSUME ByteInv, lapses = {}, ReleaseByteLock PROVE ByteInv'
  OBVIOUS
<1>2. Calm(ByteWorld, asked, provided) /\ asked \in Nat /\ asked <= MaxByteReads /\ provided \in Nat
      /\ MaxByteReads \in Nat /\ WorldOK(ByteWorld, asked) /\ WaitsOK(ByteWorld) /\ ByteWorld.b = bytes
  BY <1>1, StartsCalm
<1>3. PICK w : w = Dismiss(ByteWorld)
  OBVIOUS
<1>4. PICK v : v = [w EXCEPT !.b.reader = 0]
  OBVIOUS
<1>5. ByteBecomes(v) /\ ByteWorld.b.reader # 0 /\ asked' = asked /\ provided' = provided
      /\ lapses' = IF Kind(ByteWorld) = "byob" /\ Partly(ByteWorld) THEN {"dropped"} ELSE {}
  <2>1. ByteBecomes([w EXCEPT !.b.reader = 0])
    BY <1>1, <1>3 DEF ReleaseByteLock, Dismiss
  <2> QED BY <2>1, <1>1, <1>2, <1>4 DEF ReleaseByteLock
<1>6. WorldOK(w, asked) /\ WaitsOK(w) /\ InTurn(w) /\ Nobody(w)
  BY <1>2, <1>3, <1>5, DismissKeeps
<1>7. ReadBy(w, v, 0, w.holders)
  <2>1. w \in WorldSet /\ w.holders \in Seq(HolderSet) /\ 0 \in Nat
    BY <1>6, WorldFields DEF WorldOK
  <2>2. v = [w EXCEPT !.b.reader = 0, !.holders = w.holders]
    BY <1>4, <2>1 DEF WorldSet
  <2> QED BY <2>1, <2>2, ReadsIs
<1>8. 0 \in 0..Len(w.holders)
  <2>1. w.b.reader \in 0..Len(w.holders)
    BY <1>6 DEF WorldOK, LockOK
  <2> QED BY <2>1
<1>9. asked' \in 0..MaxByteReads /\ provided' \in Nat
  BY <1>2, <1>5
<1>10. CASE Kind(ByteWorld) = "byob" /\ Partly(ByteWorld)
  <2>1. lapses' = {"dropped"}
    BY <1>5, <1>10
  <2>2. WorldOK(v, asked) /\ WaitsOK(v) /\ InTurn(v)
    BY <1>6, <1>7, <1>8, ReadsKeep
  <2>3. WorldOK(v, asked')
    BY <2>2, <1>5
  <2> QED BY <2>1, <2>2, <2>3, <1>5, <1>9, LapseDone
<1>11. CASE ~(Kind(ByteWorld) = "byob" /\ Partly(ByteWorld))
  <2>1. lapses' = {}
    BY <1>5, <1>11
  <2>2. Calm(w, asked, provided)
    BY <1>2, <1>3, <1>5, <1>11, DismissCalm
  <2>3. Calm(v, asked, provided)
    BY <2>2, <1>6, <1>7, <1>8, ReadsCalm
  <2>4. Calm(v, asked', provided')
    BY <2>3, <1>5
  <2> QED BY <2>1, <2>4, <1>5, <1>9, CalmDone
<1> QED BY <1>10, <1>11

-----------------------------------------------------------------------------
(***************************************************************************)
(* Bytes come, and the end.                                                *)
(***************************************************************************)
\* The bytes come in order.
LEMMA NumbersOn ==
  ASSUME NEW a \in Nat, NEW n \in Nat
  PROVE  Then(Numbers(0, a), Numbers(a, n)) = Numbers(0, a + n)
<1>1. PICK x \in Seq(Nat) : x = Numbers(0, a) /\ Len(x) = a /\ \A i \in 1..a : x[i] = 0 + i
  BY NumbersType
<1>2. PICK y \in Seq(Nat) : y = Numbers(a, n) /\ Len(y) = n /\ \A i \in 1..n : y[i] = a + i
  BY NumbersType
<1>3. PICK z \in Seq(Nat) : z = Numbers(0, a + n) /\ Len(z) = a + n /\ \A i \in 1..(a + n) : z[i] = 0 + i
  <2>1. a + n \in Nat /\ 0 \in Nat
    OBVIOUS
  <2> QED BY <2>1, NumbersType
<1>4. PICK t \in Seq(Nat) : t = Then(x, y)
  BY ThenType
<1>5. Len(t) = a + n /\ \A i \in 1..(a + n) : t[i] = IF i <= a THEN x[i] ELSE y[i - a]
  <2>1. Len(x) = a /\ Len(y) = n
    BY <1>1, <1>2
  <2>2. t = x \o y
    BY <1>4 DEF Then
  <2>3. Len(x \o y) = Len(x) + Len(y) /\ \A i \in 1..(Len(x) + Len(y)) : (x \o y)[i] = IF i <= Len(x) THEN x[i] ELSE y[i - Len(x)]
    BY ConcatProperties
  <2> QED BY <2>1, <2>2, <2>3
<1>6. \A i \in 1..(a + n) : t[i] = z[i]
  <2>1. SUFFICES ASSUME NEW i \in 1..(a + n) PROVE t[i] = 0 + i
    BY <1>3
  <2>2. CASE i <= a
    <3>1. i \in 1..a
      BY <2>2
    <3> QED BY <2>2, <3>1, <1>1, <1>5
  <2>3. CASE ~(i <= a)
    <3>1. i - a \in 1..n /\ a + (i - a) = 0 + i
      BY <2>3
    <3> QED BY <2>3, <3>1, <1>2, <1>5
  <2> QED BY <2>2, <2>3
<1>7. t = z
  BY <1>3, <1>5, <1>6, SeqEqual
<1> QED BY <1>1, <1>2, <1>3, <1>4, <1>7

LEMMA FlowOn ==
  ASSUME NEW w, NEW a, NEW x, NEW y, Flow(w, a, <<>>) = y, NEW n \in Nat, y = Numbers(0, n),
         WorldOK(w, a), a \in Nat, a <= MaxByteReads
  PROVE  Flow(w, a, x) = Then(y, x)
<1>1. Flow(w, a, <<>>) = Then(DeliveredOf(w.given, a), KeptOf(w.b))
  BY FlowEnds
<1> QED BY <1>1 DEF Flow

\* What enqueue() starts from.
LEMMA EnqueueOpens ==
  ASSUME ByteInv, lapses = {}, NEW n \in ChunkSizes, EnqueueBytes(n), NEW w, w = ByteWorld,
         NEW x, x = Numbers(provided, n)
  PROVE  Open(w, asked, provided + n, x)
<1>2. Calm(ByteWorld, asked, provided) /\ asked \in Nat /\ asked <= MaxByteReads /\ provided \in Nat
      /\ WorldOK(ByteWorld, asked) /\ WaitsOK(ByteWorld) /\ ByteWorld.b = bytes
      /\ InTurn(ByteWorld) /\ LaterEmpty(ByteWorld.given)
  BY StartsCalm
<1>3. n \in Nat /\ n # 0
  BY ByteAssumption
<1>4. w.b.state = "readable"
  BY <1>2 DEF EnqueueBytes, CanProvide
<1>5. x \in Seq(Nat) /\ x # <<>>
  <2>1. Numbers(provided, n) \in Seq(Nat) /\ Len(Numbers(provided, n)) = n
    BY <1>2, <1>3, NumbersType
  <2>2. Len(<<>>) = 0
    OBVIOUS
  <2> QED BY <2>1, <2>2, <1>3
<1>6. Flow(w, asked, x) = Numbers(0, provided + n)
  <2>1. Flow(w, asked, <<>>) = Numbers(0, provided)
    BY <1>2, <1>4, CalmOrder
  <2>2. Flow(w, asked, x) = Then(Numbers(0, provided), x)
    BY <2>1, <1>2, <1>5, FlowOn
  <2> QED BY <2>2, <1>2, <1>3, NumbersOn
<1> QED BY <1>2, <1>4, <1>5, <1>6 DEF Open

LEMMA EnqueueBytesStep == ByteInv /\ lapses = {} /\ (\E n \in ChunkSizes : EnqueueBytes(n)) => ByteInv'
<1>1. SUFFICES ASSUME ByteInv, lapses = {}, NEW n \in ChunkSizes, EnqueueBytes(n) PROVE ByteInv'
  OBVIOUS
<1>2. asked \in Nat /\ asked <= MaxByteReads /\ provided \in Nat /\ MaxByteReads \in Nat
  BY <1>1, StartsCalm
<1>3. n \in Nat
  BY ByteAssumption
<1>4. PICK w, x : w = ByteWorld /\ x = Numbers(provided, n)
  OBVIOUS
<1>5. PICK u : u = Take(w, x)
  OBVIOUS
<1>6. PICK v : v = CallBytePullIfNeeded(u)
  OBVIOUS
<1>7. provided' = provided + n /\ asked' = asked /\ ByteStep(v)
  BY <1>1, <1>4, <1>5, <1>6 DEF EnqueueBytes
<1>8. Open(w, asked, provided + n, x)
  BY <1>1, <1>4, EnqueueOpens
<1>9. provided + n \in Nat
  BY <1>2, <1>3
<1>10. Sound(u, asked, provided + n)
  BY <1>2, <1>5, <1>8, <1>9, TakeKeeps
<1>11. Sound(v, asked, provided + n)
  BY <1>2, <1>6, <1>9, <1>10, SoundCall
<1>12. Lawful(v, asked', provided')
  BY <1>2, <1>7, <1>9, <1>11, SoundLawful
<1>13. asked' \in 0..MaxByteReads /\ provided' \in Nat
  BY <1>2, <1>7, <1>9
<1> QED BY <1>1, <1>7, <1>12, <1>13, StepDone

LEMMA TotalSays ==
  ASSUME NEW queue \in Seq(Seq(Nat)), NEW total \in Nat, QueueOK(queue, total)
  PROVE  (total > 0) <=> queue # <<>>
<1>1. CASE queue = <<>>
  <2>1. total = 0
    <3>1. Len(<<>>) = 0
      OBVIOUS
    <3> QED BY <3>1, <1>1, ConcatNothing DEF QueueOK
  <2> QED BY <1>1, <2>1
<1>2. CASE queue # <<>>
  <2>1. PICK e \in Seq(Nat) : e = Head(queue) /\ e # <<>>
    <3>1. Head(queue) = queue[1] /\ 1 \in 1..Len(queue) /\ queue[1] \in Seq(Nat)
      BY <1>2
    <3> QED BY <3>1 DEF QueueOK
  <2>2. PICK r \in Seq(Nat) : r = Concat(Tail(queue))
    <3>1. Tail(queue) \in Seq(Seq(Nat))
      BY <1>2
    <3> QED BY <3>1, ConcatType
  <2>3. Concat(queue) = Then(e, r)
    BY <1>2, <2>1, <2>2, ConcatTail DEF Then
  <2>4. total = Len(e) + Len(r)
    BY <2>3, ThenLen DEF QueueOK
  <2>5. Len(e) # 0
    BY <2>1, EmptySeq
  <2>6. PICK l \in Nat, m \in Nat : l = Len(e) /\ m = Len(r)
    OBVIOUS
  <2>7. total > 0
    BY <2>4, <2>5, <2>6
  <2> QED BY <1>2, <2>7
<1> QED BY <1>1, <1>2

\* close() first says that it was called.
LEMMA ClosingSame ==
  ASSUME NEW u, NEW a, WorldOK(u, a), NEW w, w = [u EXCEPT !.b.closeRequested = TRUE]
  PROVE  SameBytes(u, w)
<1>1. u \in WorldSet
  BY DEF WorldOK
<1>2. PICK b \in FieldSet : b = u.b
  BY <1>1, WorldFields
<1>3. PICK f : f = [b EXCEPT !.closeRequested = TRUE]
  OBVIOUS
<1>4. RequestOK(b.request, b.pullIntos) /\ (b.pulling = TRUE <=> u.pulls # "none")
  BY <1>2 DEF WorldOK
<1>5. f \in FieldSet /\ f.request = b.request
      /\ f.state = b.state /\ f.reader = b.reader /\ f.requests = b.requests /\ f.queue = b.queue
      /\ f.queueTotalSize = b.queueTotalSize /\ f.pullIntos = b.pullIntos /\ f.auto = b.auto
      /\ f.pulling = b.pulling
  BY <1>3 DEF FieldSet
<1>6. w = [u EXCEPT !.b = f]
  BY <1>1, <1>2, <1>3 DEF WorldSet
<1>7. OtherFlags(u, f)
  BY <1>2, <1>4, <1>5 DEF OtherFlags
<1> QED BY <1>1, <1>6, <1>7, FlagsSame

LEMMA CloseBytesStep == ByteInv /\ lapses = {} /\ CloseBytes => ByteInv'
<1>1. SUFFICES ASSUME ByteInv, lapses = {}, CloseBytes PROVE ByteInv'
  OBVIOUS
<1>2. Calm(ByteWorld, asked, provided) /\ asked \in Nat /\ asked <= MaxByteReads /\ provided \in Nat
      /\ MaxByteReads \in Nat /\ WorldOK(ByteWorld, asked) /\ ByteWorld \in WorldSet /\ ByteWorld.b = bytes
      /\ ByteWorld.pulls = pulls
  BY <1>1, StartsCalm
<1>3. PICK w : w = [ByteWorld EXCEPT !.b.closeRequested = TRUE]
  OBVIOUS
<1>4. PICK u : u = ByteError(w)
  OBVIOUS
<1>5. PICK v : v = ByteFinishClose(w)
  OBVIOUS
<1>6. bytes.state = "readable" /\ (ByteStep(w) \/ ByteStep(u) \/ ByteStep(v)) /\ asked' = asked /\ provided' = provided
  <2>1. CloseBytes = (
          /\ CanProvide
          /\ ByteStep(IF w.b.queueTotalSize > 0 THEN w
                      ELSE IF w.b.pullIntos # <<>> /\ Head(w.b.pullIntos).filled > 0 THEN ByteError(w)
                      ELSE ByteFinishClose(w))
          /\ UNCHANGED <<provided, asked, begun>>)
    BY <1>3 DEF CloseBytes
  <2> QED BY <2>1, <1>1, <1>4, <1>5 DEF CanProvide
<1>7. SameBytes(ByteWorld, w)
  BY <1>2, <1>3, ClosingSame
<1>8. Calm(w, asked, provided)
  BY <1>2, <1>7, SameCalm
<1>9. Calm(u, asked, provided)
  BY <1>2, <1>4, <1>8, CalmError
<1>10. w.b.state = "readable" /\ w.b.pullIntos = bytes.pullIntos
  BY <1>2, <1>6, <1>7 DEF SameBytes
<1>11. Sound(w, asked, provided)
  BY <1>2, <1>8, <1>10, CalmSound
<1>12. Lawful(v, asked, provided)
  BY <1>2, <1>5, <1>6, <1>10, <1>11, FinishLawful
<1>13. Lawful(w, asked', provided') /\ Lawful(u, asked', provided') /\ Lawful(v, asked', provided')
  BY <1>6, <1>8, <1>9, <1>12, CalmLawful
<1>14. asked' \in 0..MaxByteReads /\ provided' \in Nat
  BY <1>2, <1>6
<1> QED BY <1>1, <1>6, <1>13, <1>14, StepDone

-----------------------------------------------------------------------------
(***************************************************************************)
(* read(): from the queue, or behind the reads that wait.                  *)
(***************************************************************************)
\* The answers, once the read after the a-th has one of its own.
Asks(g, h, a, st, data) ==
  /\ h \in [ByteReads -> AnswerSet] /\ GivenOK(h, a + 1) /\ LaterEmpty(h)
  /\ DeliveredOf(h, a + 1) = Then(DeliveredOf(g, a), data) /\ h[a + 1].st = st
  /\ \A k \in ByteReads : k # a + 1 => h[k] = g[k]

\* One read more: what is delivered grows by its answer.
LEMMA AskedGives ==
  ASSUME NEW g \in [ByteReads -> AnswerSet], NEW a \in Nat, a < MaxByteReads, GivenOK(g, a), LaterEmpty(g),
         NEW st \in {"pending", "value"}, NEW data \in Seq(Nat),
         data = <<>> \/ (st = "value" /\ \A k \in ByteReads : g[k].st # "pending"),
         NEW h, h = [g EXCEPT ![a + 1] = Answer(st, data)]
  PROVE  Asks(g, h, a, st, data)
<1>0. MaxByteReads \in Nat
  BY ByteAssumption
<1>1. PICK k \in ByteReads : k = a + 1 /\ k \in Nat /\ k # 0
  BY <1>0 DEF ByteReads
<1>2. PICK e \in AnswerSet : e = Answer(st, data) /\ e.st = st /\ e.data = data
  <2>1. st \in {"none", "pending", "value", "done", "rejected"}
    OBVIOUS
  <2> QED BY <2>1, AnswerType
<1>3. h \in [ByteReads -> AnswerSet] /\ h[k] = e /\ \A j \in ByteReads : j # k => h[j] = g[j]
  BY <1>1, <1>2
<1>4. GivenOK(h, a + 1)
  <2>1. SUFFICES ASSUME NEW j \in ByteReads PROVE h[j].st = "none" <=> j > a + 1
    BY DEF GivenOK
  <2>2. j \in Nat /\ (g[j].st = "none" <=> j > a)
    BY DEF GivenOK, ByteReads
  <2>3. CASE j = k
    BY <2>3, <1>1, <1>2, <1>3
  <2>4. CASE j # k
    BY <2>2, <2>4, <1>1, <1>3
  <2> QED BY <2>3, <2>4
<1>5. LaterEmpty(h)
  <2>1. SUFFICES ASSUME NEW i \in ByteReads, NEW j \in ByteReads, i <= j, h[i].st \in {"none", "pending"}
                 PROVE  h[j].data = <<>>
    BY DEF LaterEmpty
  <2>2. i \in Nat /\ j \in Nat
    BY DEF ByteReads
  <2>3. CASE data = <<>>
    <3>1. CASE j = k
      BY <3>1, <2>3, <1>2, <1>3
    <3>2. CASE j # k /\ i = k
      <4>1. j > a
        BY <3>2, <2>1, <2>2, <1>1
      <4>2. g[j].st = "none" /\ j <= j
        BY <4>1, <2>2 DEF GivenOK
      <4>3. g[j].data = <<>>
        BY <4>2 DEF LaterEmpty
      <4> QED BY <4>3, <3>2, <1>3
    <3>3. CASE j # k /\ i # k
      <4>1. g[i].st \in {"none", "pending"}
        BY <3>3, <2>1, <1>3
      <4>2. g[j].data = <<>>
        BY <4>1, <2>1 DEF LaterEmpty
      <4> QED BY <4>2, <3>3, <1>3
    <3> QED BY <3>1, <3>2, <3>3
  <2>4. CASE st = "value" /\ \A l \in ByteReads : g[l].st # "pending"
    <3>1. i # k
      BY <2>1, <2>4, <1>2, <1>3
    <3>2. g[i].st = "none"
      BY <3>1, <2>1, <2>4, <1>3
    <3>3. i > a
      BY <3>2 DEF GivenOK
    <3>4. j # k
      BY <3>1, <3>3, <2>1, <2>2, <1>1
    <3>5. g[j].data = <<>>
      BY <3>2, <2>1 DEF LaterEmpty
    <3> QED BY <3>4, <3>5, <1>3
  <2> QED BY <2>3, <2>4
<1>6. DeliveredOf(h, a + 1) = Then(DeliveredOf(g, a), data)
  <2>1. PICK s \in Seq(Seq(Nat)) : s = [i \in 1..a |-> g[i].data]
    <3>1. [i \in 1..a |-> g[i].data] \in Seq(Seq(Nat))
      BY <1>0, DeliveredType
    <3> QED BY <3>1
  <2>2. PICK t \in Seq(Seq(Nat)) : t = [i \in 1..k |-> h[i].data]
    <3>1. k <= MaxByteReads
      BY <1>1, <1>0 DEF ByteReads
    <3>2. [i \in 1..k |-> h[i].data] \in Seq(Seq(Nat))
      BY <3>1, <1>1, <1>3, DeliveredType
    <3> QED BY <3>2
  <2>3. PICK u \in Seq(Seq(Nat)) : u = Append(s, data)
    <3>1. Append(s, data) \in Seq(Seq(Nat))
      OBVIOUS
    <3> QED BY <3>1
  <2>4. Len(u) = Len(s) + 1 /\ (\A j \in 1..Len(s) : u[j] = s[j]) /\ u[Len(s) + 1] = data
    BY <2>3, AppendProperties
  <2>5. Len(s) = a
    BY <2>1
  <2>6. Len(t) = a + 1
    BY <2>2, <1>1
  <2>7. \A j \in 1..(a + 1) : u[j] = t[j]
    <3>1. SUFFICES ASSUME NEW j \in 1..(a + 1) PROVE u[j] = t[j]
      OBVIOUS
    <3>2. j \in ByteReads
      BY <1>0 DEF ByteReads
    <3>3. t[j] = h[j].data
      BY <2>2, <1>1
    <3>4. CASE j = a + 1
      BY <3>3, <3>4, <2>4, <2>5, <1>1, <1>2, <1>3
    <3>5. CASE j # a + 1
      <4>1. j \in 1..a
        BY <3>5
      <4>2. u[j] = s[j]
        BY <4>1, <2>4, <2>5
      <4>3. s[j] = g[j].data
        BY <4>1, <2>1
      <4>4. h[j] = g[j]
        BY <3>2, <3>5, <1>1, <1>3
      <4> QED BY <4>2, <4>3, <4>4, <3>3
    <3> QED BY <3>4, <3>5
  <2>8. u = t
    BY <2>4, <2>5, <2>6, <2>7, SeqEqual
  <2>9. Concat(Append(s, data)) = Concat(s) \o data
    BY ConcatAppend
  <2> QED BY <2>1, <2>2, <2>3, <2>8, <2>9, <1>1 DEF DeliveredOf, Then
<1> QED BY <1>1, <1>2, <1>3, <1>4, <1>5, <1>6 DEF Asks

\* Nobody waits while there is something in the queue.
LEMMA QueueNobody ==
  ASSUME NEW w, NEW a, NEW n, Calm(w, a, n), w.b.queue # <<>>
  PROVE  Nobody(w) /\ \A k \in ByteReads : w.given[k].st # "pending"
<1>1. ~SomeoneWaits(w)
  BY DEF Calm, InTurn, Overtaken
<1>2. Nobody(w)
  BY <1>1 DEF SomeoneWaits, Nobody
<1>3. ASSUME NEW k \in ByteReads PROVE w.given[k].st # "pending"
  <2>1. k # 0
    BY DEF ByteReads
  <2>2. ~InSeq(k, w.b.requests) /\ ~HasView(k, w.b.pullIntos)
    BY <1>2, <2>1 DEF Nobody, InSeq, HasView
  <2> QED BY <2>2 DEF Calm, WaitsOK
<1> QED BY <1>2, <1>3

\* v is w after the next read was given these bytes from the queue.
Takes(w, v, a, data) ==
  /\ v \in WorldSet /\ v.holders = w.holders /\ v.pulls = w.pulls
  /\ v.b.state = w.b.state /\ v.b.reader = w.b.reader /\ v.b.requests = w.b.requests
  /\ v.b.pullIntos = w.b.pullIntos /\ v.b.request = w.b.request /\ v.b.auto = w.b.auto
  /\ v.b.pulling = w.b.pulling
  /\ QueueOK(v.b.queue, v.b.queueTotalSize) /\ data \in Seq(Nat)
  /\ Then(data, Concat(v.b.queue)) = Concat(w.b.queue)
  /\ Asks(w.given, v.given, a, "value", data)

LEMMA ViewsLater ==
  ASSUME NEW vs, NEW a \in Nat, ViewsOK(vs, a) PROVE ViewsOK(vs, a + 1)
<1>1. \A j \in 1..Len(vs) : vs[j].read \in 0..(a + 1)
  <2>1. SUFFICES ASSUME NEW j \in 1..Len(vs) PROVE vs[j].read \in 0..(a + 1)
    OBVIOUS
  <2>2. vs[j].read \in 0..a
    BY DEF ViewsOK
  <2> QED BY <2>2
<1> QED BY <1>1 DEF ViewsOK

\* A read from the queue gets what was in front, behind all that was delivered.
LEMMA TakesSound ==
  ASSUME NEW w, NEW a \in Nat, a < MaxByteReads, NEW n \in Nat, Calm(w, a, n), w.b.state = "readable",
         w.b.queue # <<>>, NEW v, NEW data, Takes(w, v, a, data)
  PROVE  Sound(v, a + 1, n)
<1>0. MaxByteReads \in Nat /\ a <= MaxByteReads /\ a + 1 <= MaxByteReads /\ a + 1 \in Nat
  BY ByteAssumption
<1>1. WorldOK(w, a) /\ WaitsOK(w)
  BY DEF Calm
<1>2. Nobody(w) /\ \A k \in ByteReads : w.given[k].st # "pending"
  BY QueueNobody
<1>3. LockOK(v.b, v.holders) /\ ToldOK(v.b, v.holders)
  BY <1>1 DEF WorldOK, Takes, LockOK, ToldOK
<1>4. ViewsOK(v.b.pullIntos, a + 1)
  BY <1>1, ViewsLater DEF WorldOK, Takes
<1>5. WorldOK(v, a + 1)
  BY <1>1, <1>3, <1>4 DEF WorldOK, Takes, Asks
<1>6. WaitsOK(v)
  <2>1. SUFFICES ASSUME NEW k \in ByteReads
                 PROVE v.given[k].st # "pending" /\ ~InSeq(k, v.b.requests) /\ ~HasView(k, v.b.pullIntos)
    BY DEF WaitsOK
  <2>2. k # 0
    BY DEF ByteReads
  <2>3. ~InSeq(k, v.b.requests) /\ ~HasView(k, v.b.pullIntos)
    BY <1>2, <2>2 DEF InSeq, HasView, Takes, Nobody
  <2>4. v.given[k].st # "pending"
    <3>1. CASE k = a + 1
      BY <3>1 DEF Takes, Asks
    <3>2. CASE k # a + 1
      BY <3>2, <1>2 DEF Takes, Asks
    <3> QED BY <3>1, <3>2
  <2> QED BY <2>3, <2>4
<1>7. InTurn(v)
  BY <1>2 DEF InTurn, Overtaken, SomeoneWaits, Takes, Nobody
<1>8. Flow(w, a, <<>>) = Numbers(0, n)
  BY <1>0, CalmOrder
<1>9. Flow(v, a + 1, <<>>) = Flow(w, a, <<>>)
  <2>1. PICK d \in Seq(Nat) : d = DeliveredOf(w.given, a)
    BY <1>0, <1>1, FlowEnds
  <2>2. PICK h \in Seq(Nat) : h = Held(w.b.pullIntos)
    BY <1>1, KeptSeq
  <2>3. PICK c \in Seq(Nat) : c = Concat(v.b.queue)
    BY <1>0, <1>5, KeptSeq
  <2>4. PICK x \in Seq(Nat) : x = data
    BY DEF Takes
  <2>5. KeptOf(w.b) = Then(Then(x, c), h)
    BY <1>1, <2>2, <2>3, <2>4, KeptSeq DEF Takes
  <2>6. KeptOf(v.b) = Then(c, h)
    <3>1. KeptOf(v.b) = Then(Concat(v.b.queue), Held(v.b.pullIntos))
      BY <1>0, <1>5, KeptSeq
    <3> QED BY <3>1, <2>2, <2>3 DEF Takes
  <2>7. DeliveredOf(v.given, a + 1) = Then(d, x)
    BY <2>1, <2>4 DEF Takes, Asks
  <2>8. PICK k \in Seq(Nat) : k = Then(c, h)
    BY ThenType
  <2>9. Then(Then(x, c), h) = Then(x, k)
    BY <2>8, ThenThen
  <2>10. Then(Then(d, x), k) = Then(d, Then(x, k))
    BY ThenThen
  <2>11. Flow(w, a, <<>>) = Then(d, Then(x, k))
    BY <1>0, <1>1, <2>1, <2>5, <2>9, FlowEnds
  <2>12. Flow(v, a + 1, <<>>) = Then(Then(d, x), k)
    BY <1>0, <1>5, <2>6, <2>7, <2>8, FlowEnds
  <2> QED BY <2>10, <2>11, <2>12
<1>10. LaterEmpty(v.given) /\ v.b.state = "readable"
  BY DEF Takes, Asks
<1> QED BY <1>5, <1>6, <1>7, <1>8, <1>9, <1>10 DEF Sound

\* Bytes from the queue for the k-th read.
TakenFrom(w, k, q, total, data) ==
  [w EXCEPT !.b.queue = q, !.b.queueTotalSize = total, !.given[k] = Answer("value", data)]

LEMMA TakenTakes ==
  ASSUME NEW w, NEW a \in Nat, a < MaxByteReads, NEW n, Calm(w, a, n), w.b.queue # <<>>,
         NEW q \in Seq(Seq(Nat)), NEW total \in Nat, QueueOK(q, total), NEW data \in Seq(Nat),
         Then(data, Concat(q)) = Concat(w.b.queue),
         NEW v, v = TakenFrom(w, a + 1, q, total, data)
  PROVE  Takes(w, v, a, data)
<1>1. w \in WorldSet /\ WorldOK(w, a) /\ GivenOK(w.given, a) /\ LaterEmpty(w.given)
  BY DEF Calm, WorldOK
<1>2. PICK b \in FieldSet : b = w.b
  BY <1>1, WorldFields
<1>3. PICK f : f = [b EXCEPT !.queue = q, !.queueTotalSize = total]
  OBVIOUS
<1>4. PICK g \in [ByteReads -> AnswerSet] : g = w.given
  BY <1>1, WorldFields
<1>5. PICK h : h = [g EXCEPT ![a + 1] = Answer("value", data)]
  OBVIOUS
<1>6. Asks(g, h, a, "value", data)
  <2>1. \A k \in ByteReads : g[k].st # "pending"
    BY <1>4, QueueNobody
  <2>2. "value" \in {"pending", "value"}
    OBVIOUS
  <2>3. GivenOK(g, a) /\ LaterEmpty(g)
    BY <1>1, <1>4
  <2>4. data = <<>> \/ ("value" = "value" /\ \A k \in ByteReads : g[k].st # "pending")
    BY <2>1
  <2> QED BY <2>2, <2>3, <2>4, <1>5, AskedGives
<1>7. v = [w EXCEPT !.b = f, !.given = h]
  BY <1>1, <1>2, <1>3, <1>4, <1>5 DEF TakenFrom, WorldSet
<1>8. /\ f \in FieldSet /\ f.queue = q /\ f.queueTotalSize = total /\ f.state = b.state /\ f.reader = b.reader
      /\ f.requests = b.requests /\ f.pullIntos = b.pullIntos /\ f.request = b.request /\ f.auto = b.auto
      /\ f.pulling = b.pulling
  BY <1>3 DEF FieldSet
<1>9. h \in [ByteReads -> AnswerSet]
  BY <1>6 DEF Asks
<1>10. v \in WorldSet /\ v.b = f /\ v.given = h /\ v.holders = w.holders /\ v.pulls = w.pulls
  BY <1>1, <1>7, <1>8, <1>9 DEF WorldSet
<1> QED BY <1>2, <1>4, <1>6, <1>8, <1>10 DEF Takes

\* The rest of such a read: the end if that was asked for and nothing is left, or a call of pull().
LEMMA TakenLawful ==
  ASSUME NEW w, w = ByteWorld, NEW a \in Nat, a < MaxByteReads, NEW n \in Nat, Calm(w, a, n), w.b.state = "readable",
         w.b.queue # <<>>, NEW v, NEW data, Takes(w, v, a, data),
         NEW u, u = ByteFinishClose(v) \/ u = CallBytePullIfNeeded(v)
  PROVE  Lawful(u, a + 1, n)
<1>0. MaxByteReads \in Nat /\ a + 1 <= MaxByteReads /\ a + 1 \in Nat
  BY ByteAssumption
<1>1. Sound(v, a + 1, n)
  BY TakesSound
<1>2. v.b.pullIntos = bytes.pullIntos /\ bytes.state = "readable"
  BY DEF Takes, ByteWorld
<1>3. CASE u = ByteFinishClose(v)
  BY <1>0, <1>1, <1>2, <1>3, FinishLawful
<1>4. CASE u = CallBytePullIfNeeded(v)
  <2>1. Sound(u, a + 1, n)
    BY <1>0, <1>1, <1>4, SoundCall
  <2> QED BY <2>1, <1>0, SoundLawful
<1> QED BY <1>3, <1>4

\* u is what a read makes of w that takes its bytes from the queue.
Serves(w, u, a) ==
  \E v, e : Takes(w, v, a, e) /\ (u = ByteFinishClose(v) \/ u = CallBytePullIfNeeded(v))

\* read() of the default reader when there are bytes.
LEMMA ReadChunkTakes ==
  ASSUME NEW w, NEW a \in Nat, a < MaxByteReads, NEW n \in Nat, Calm(w, a, n), w.b.queue # <<>>,
         NEW u, u = ReadChunk(w, a + 1)
  PROVE  Serves(w, u, a)
<1>1. PICK queue \in Seq(Seq(Nat)), total \in Nat : queue = w.b.queue /\ total = w.b.queueTotalSize /\ QueueOK(queue, total)
  <2>1. w \in WorldSet /\ QueueOK(w.b.queue, w.b.queueTotalSize)
    BY DEF Calm, WorldOK
  <2> QED BY <2>1, WorldFields, FieldFields
<1>2. PICK e \in Seq(Nat) : e = Head(queue)
  <2>1. Head(queue) \in Seq(Nat)
    BY <1>1
  <2> QED BY <2>1
<1>3. PICK q \in Seq(Seq(Nat)) : q = Tail(queue)
  <2>1. Tail(queue) \in Seq(Seq(Nat))
    BY <1>1
  <2> QED BY <2>1
<1>4. PICK r \in Seq(Nat) : r = Concat(q)
  BY ConcatType
<1>5. Concat(queue) = Then(e, r)
  BY <1>1, <1>2, <1>3, <1>4, ConcatTail DEF Then
<1>6. total = Len(e) + Len(r)
  BY <1>1, <1>5, ThenLen DEF QueueOK
<1>7. PICK l \in Nat : l = Len(r) /\ total - Len(e) = l
  BY <1>6
<1>8. QueueOK(q, l)
  <2>1. \A j \in 1..Len(q) : q[j] # <<>>
    <3>1. SUFFICES ASSUME NEW j \in 1..Len(q) PROVE q[j] # <<>>
      OBVIOUS
    <3>2. j + 1 \in 1..Len(queue) /\ q[j] = queue[j + 1]
      BY <1>1, <1>3, SMTT(60)
    <3> QED BY <3>2, <1>1 DEF QueueOK
  <2> QED BY <2>1, <1>4, <1>7 DEF QueueOK
<1>9. PICK v : v = TakenFrom(w, a + 1, q, l, e)
  OBVIOUS
<1>10. Takes(w, v, a, e)
  BY <1>1, <1>4, <1>5, <1>8, <1>9, TakenTakes
<1>11. u = ByteFinishClose(v) \/ u = CallBytePullIfNeeded(v)
  <2>1. v = [w EXCEPT !.b.queue = Tail(@), !.b.queueTotalSize = @ - Len(Head(w.b.queue)),
                      !.given[a + 1] = Answer("value", Head(w.b.queue))]
    BY <1>1, <1>2, <1>3, <1>7, <1>9 DEF TakenFrom
  <2> QED BY <2>1 DEF ReadChunk
<1> QED BY <1>10, <1>11, Zenon DEF Serves

LEMMA ReadChunkLawful ==
  ASSUME NEW w, w = ByteWorld, NEW a \in Nat, a < MaxByteReads, NEW n \in Nat, Calm(w, a, n), w.b.state = "readable",
         w.b.queue # <<>>, NEW u, u = ReadChunk(w, a + 1)
  PROVE  Lawful(u, a + 1, n)
<1>1. Serves(w, u, a)
  BY ReadChunkTakes
<1>2. PICK v, e : Takes(w, v, a, e) /\ (u = ByteFinishClose(v) \/ u = CallBytePullIfNeeded(v))
  BY <1>1, Zenon DEF Serves
<1> QED BY <1>2, TakenLawful

\* read(view) when there are bytes.
LEMMA FillViewTakes ==
  ASSUME NEW w, NEW a \in Nat, a < MaxByteReads, NEW n \in Nat, Calm(w, a, n), w.b.queue # <<>>,
         NEW size \in Nat, NEW u, u = FillView(w, a + 1, size)
  PROVE  Serves(w, u, a)
<1>1. PICK queue \in Seq(Seq(Nat)), total \in Nat : queue = w.b.queue /\ total = w.b.queueTotalSize /\ QueueOK(queue, total)
  <2>1. w \in WorldSet /\ QueueOK(w.b.queue, w.b.queueTotalSize)
    BY DEF Calm, WorldOK
  <2> QED BY <2>1, WorldFields, FieldFields
<1>2. PICK m \in 0..total : m = Least(size, total)
  <2>1. Least(size, total) \in Nat /\ Least(size, total) <= total
    BY LeastIs
  <2> QED BY <2>1
<1>3. PICK q : q = Drop(queue, m)
  OBVIOUS
<1>4. Drops(queue, m, q)
  BY <1>1, <1>3, DropIs
<1>5. PICK e \in Seq(Nat) : e = SubSeq(Concat(queue), 1, m)
  BY <1>4 DEF Drops
<1>6. q \in Seq(Seq(Nat)) /\ Then(e, Concat(q)) = Concat(queue) /\ Len(Concat(q)) = total - m
      /\ \A j \in 1..Len(q) : q[j] # <<>>
  BY <1>1, <1>4, <1>5 DEF Drops, QueueOK
<1>7. PICK l \in Nat : l = total - m
  OBVIOUS
<1>8. QueueOK(q, l)
  BY <1>6, <1>7 DEF QueueOK
<1>9. PICK v : v = TakenFrom(w, a + 1, q, l, e)
  OBVIOUS
<1>10. Takes(w, v, a, e)
  BY <1>1, <1>6, <1>8, <1>9, TakenTakes
<1>11. u = ByteFinishClose(v) \/ u = CallBytePullIfNeeded(v)
  <2>1. v = [w EXCEPT !.b.queue = Drop(@, m), !.b.queueTotalSize = @ - m,
                      !.given[a + 1] = Answer("value", SubSeq(Concat(w.b.queue), 1, m))]
    BY <1>1, <1>3, <1>5, <1>7, <1>9 DEF TakenFrom
  <2>2. m = Least(size, w.b.queueTotalSize)
    BY <1>1, <1>2
  <2> QED BY <2>1, <2>2 DEF FillView
<1> QED BY <1>10, <1>11, Zenon DEF Serves

LEMMA FillViewLawful ==
  ASSUME NEW w, w = ByteWorld, NEW a \in Nat, a < MaxByteReads, NEW n \in Nat, Calm(w, a, n), w.b.state = "readable",
         w.b.queue # <<>>, NEW size \in Nat, NEW u, u = FillView(w, a + 1, size)
  PROVE  Lawful(u, a + 1, n)
<1>1. Serves(w, u, a)
  BY FillViewTakes
<1>2. PICK v, e : Takes(w, v, a, e) /\ (u = ByteFinishClose(v) \/ u = CallBytePullIfNeeded(v))
  BY <1>1, Zenon DEF Serves
<1> QED BY <1>2, TakenLawful

\* v is w with one more read that waits, in this place.
Joined(w, v, a, requests, vs) ==
  /\ v \in WorldSet /\ v.holders = w.holders /\ v.pulls = w.pulls /\ SameQueue(w, v)
  /\ v.b.state = w.b.state /\ v.b.reader = w.b.reader /\ v.b.request = w.b.request /\ v.b.auto = w.b.auto
  /\ v.b.pulling = w.b.pulling /\ v.b.requests = requests /\ v.b.pullIntos = vs
  /\ Asks(w.given, v.given, a, "pending", <<>>)
WithRead(w, k, requests, vs) ==
  [w EXCEPT !.b.requests = requests, !.b.pullIntos = vs, !.given[k] = Answer("pending", <<>>)]

LEMMA JoinsIs ==
  ASSUME NEW w, NEW a \in Nat, a < MaxByteReads, WorldOK(w, a), LaterEmpty(w.given),
         NEW requests \in Seq(ByteReads), NEW vs \in Seq(PullIntoSet),
         NEW v, v = WithRead(w, a + 1, requests, vs)
  PROVE  Joined(w, v, a, requests, vs)
<1>1. w \in WorldSet /\ GivenOK(w.given, a)
  BY DEF WorldOK
<1>2. PICK b \in FieldSet : b = w.b
  BY <1>1, WorldFields
<1>3. PICK f : f = [b EXCEPT !.requests = requests, !.pullIntos = vs]
  OBVIOUS
<1>4. PICK g \in [ByteReads -> AnswerSet] : g = w.given
  BY <1>1, WorldFields
<1>5. PICK h : h = [g EXCEPT ![a + 1] = Answer("pending", <<>>)]
  OBVIOUS
<1>6. Asks(g, h, a, "pending", <<>>)
  <2>1. "pending" \in {"pending", "value"}
    OBVIOUS
  <2>2. GivenOK(g, a) /\ LaterEmpty(g)
    BY <1>1, <1>4
  <2>3. PICK data \in Seq(Nat) : data = <<>>
    BY SomeBytes
  <2> QED BY <2>1, <2>2, <2>3, <1>5, AskedGives
<1>7. v = [w EXCEPT !.b = f, !.given = h]
  BY <1>1, <1>2, <1>3, <1>4, <1>5 DEF WithRead, WorldSet
<1>8. /\ f \in FieldSet /\ f.queue = b.queue /\ f.queueTotalSize = b.queueTotalSize /\ f.state = b.state /\ f.reader = b.reader
      /\ f.requests = requests /\ f.pullIntos = vs /\ f.request = b.request /\ f.auto = b.auto
      /\ f.pulling = b.pulling
  BY <1>3 DEF FieldSet
<1>9. h \in [ByteReads -> AnswerSet]
  BY <1>6 DEF Asks
<1>10. v \in WorldSet /\ v.b = f /\ v.given = h /\ v.holders = w.holders /\ v.pulls = w.pulls
  BY <1>1, <1>7, <1>8, <1>9 DEF WorldSet
<1> QED BY <1>2, <1>4, <1>6, <1>8, <1>10 DEF Joined, SameQueue

\* The last place is that of the read that came last.
Lasts(s, t, k) == Len(t) = Len(s) + 1 /\ t[Len(s) + 1] = k /\ \A j \in 1..Len(s) : t[j] = s[j]

LEMMA AppendLasts ==
  ASSUME NEW T, NEW s \in Seq(T), NEW k \in T, NEW t, t = Append(s, k)
  PROVE  t \in Seq(T) /\ Lasts(s, t, k) /\ Len(s) \in Nat /\ Len(t) \in Nat \ {0}
<1>1. t \in Seq(T) /\ Len(t) = Len(s) + 1 /\ t[Len(s) + 1] = k /\ \A j \in 1..Len(s) : t[j] = s[j]
  BY AppendProperties
<1>2. Len(s) \in Nat
  OBVIOUS
<1> QED BY <1>1, <1>2 DEF Lasts

\* Whoever waits came earlier.
LEMMA WaitsEarlier ==
  ASSUME NEW w, NEW a \in Nat, WorldOK(w, a), WaitsOK(w), NEW k \in ByteReads,
         InSeq(k, w.b.requests) \/ HasView(k, w.b.pullIntos)
  PROVE  k <= a
<1>1. w.given[k].st = "pending"
  BY DEF WaitsOK
<1>2. ~(k > a) /\ k \in Nat
  BY <1>1 DEF WorldOK, GivenOK, ByteReads
<1> QED BY <1>2

LEMMA LastIn ==
  ASSUME NEW s, NEW t, NEW m \in Nat, m = Len(s), NEW k, Lasts(s, t, k), NEW i
  PROVE  InSeq(i, t) <=> InSeq(i, s) \/ i = k
<1>1. ASSUME InSeq(i, t) PROVE InSeq(i, s) \/ i = k
  <2>1. PICK j \in 1..(m + 1) : t[j] = i
    BY <1>1 DEF InSeq, Lasts
  <2>2. j \in 1..m \/ j = m + 1
    OBVIOUS
  <2> QED BY <2>1, <2>2 DEF Lasts, InSeq
<1>2. ASSUME InSeq(i, s) PROVE InSeq(i, t)
  <2>1. PICK j \in 1..m : s[j] = i
    BY <1>2 DEF InSeq
  <2>2. j \in 1..(m + 1) /\ t[j] = i
    BY <2>1 DEF Lasts
  <2> QED BY <2>2 DEF InSeq, Lasts
<1>3. ASSUME i = k PROVE InSeq(i, t)
  <2>1. m + 1 \in 1..(m + 1)
    OBVIOUS
  <2> QED BY <2>1, <1>3 DEF InSeq, Lasts
<1> QED BY <1>1, <1>2, <1>3

LEMMA LastHas ==
  ASSUME NEW s, NEW t, NEW m \in Nat, m = Len(s), NEW p, Lasts(s, t, p), NEW i
  PROVE  HasView(i, t) <=> HasView(i, s) \/ i = p.read
<1>1. ASSUME HasView(i, t) PROVE HasView(i, s) \/ i = p.read
  <2>1. PICK j \in 1..(m + 1) : t[j].read = i
    BY <1>1 DEF HasView, Lasts
  <2>2. j \in 1..m \/ j = m + 1
    OBVIOUS
  <2> QED BY <2>1, <2>2 DEF Lasts, HasView
<1>2. ASSUME HasView(i, s) PROVE HasView(i, t)
  <2>1. PICK j \in 1..m : s[j].read = i
    BY <1>2 DEF HasView
  <2>2. j \in 1..(m + 1) /\ t[j].read = i
    BY <2>1 DEF Lasts
  <2> QED BY <2>2 DEF HasView, Lasts
<1>3. ASSUME i = p.read PROVE HasView(i, t)
  <2>1. m + 1 \in 1..(m + 1)
    OBVIOUS
  <2> QED BY <2>1, <1>3 DEF HasView, Lasts
<1> QED BY <1>1, <1>2, <1>3

\* A read that waits gets nothing for now.
LEMMA JoinedFlow ==
  ASSUME NEW w, NEW a \in Nat, a < MaxByteReads, NEW n \in Nat, Calm(w, a, n), w.b.state = "readable",
         NEW v, NEW requests, NEW vs, Joined(w, v, a, requests, vs), WorldOK(v, a + 1),
         Held(vs) = Held(w.b.pullIntos)
  PROVE  Flow(v, a + 1, <<>>) = Numbers(0, n)
<1>0. MaxByteReads \in Nat /\ a <= MaxByteReads /\ a + 1 <= MaxByteReads /\ a + 1 \in Nat /\ WorldOK(w, a)
  BY ByteAssumption DEF Calm
<1>1. PICK d \in Seq(Nat) : d = DeliveredOf(w.given, a)
  BY <1>0, FlowEnds
<1>2. DeliveredOf(v.given, a + 1) = d
  <2>1. DeliveredOf(v.given, a + 1) = Then(d, <<>>)
    BY <1>1 DEF Joined, Asks
  <2>2. d \o <<>> = d
    BY ConcatEmptySeq
  <2> QED BY <2>1, <2>2 DEF Then
<1>3. KeptOf(v.b) = KeptOf(w.b)
  BY DEF KeptOf, Joined, SameQueue
<1>4. Flow(w, a, <<>>) = Numbers(0, n)
  BY <1>0, CalmOrder
<1> QED BY <1>1, <1>2, <1>3, <1>4 DEF Flow

\* A request joins those that wait.
LEMMA RequestJoins ==
  ASSUME NEW w, NEW a \in Nat, a < MaxByteReads, NEW n \in Nat, Calm(w, a, n), w.b.state = "readable",
         w.b.queue = <<>>, w.b.reader # 0, w.holders[w.b.reader].kind = "default",
         NEW v, v = WithRead(w, a + 1, Append(w.b.requests, a + 1), w.b.pullIntos)
  PROVE  Sound(v, a + 1, n)
<1>0. MaxByteReads \in Nat /\ WorldOK(w, a) /\ WaitsOK(w) /\ LaterEmpty(w.given) /\ w \in WorldSet /\ LockOK(w.b, w.holders)
  BY ByteAssumption DEF Calm, WorldOK
<1>1. PICK k \in ByteReads : k = a + 1 /\ k \in Nat
  BY <1>0 DEF ByteReads
<1>2. PICK s \in Seq(ByteReads), vs \in Seq(PullIntoSet) : s = w.b.requests /\ vs = w.b.pullIntos
  BY <1>0, WorldFields, FieldFields
<1>3. PICK t : t = Append(s, k)
  OBVIOUS
<1>4. t \in Seq(ByteReads) /\ Lasts(s, t, k) /\ Len(s) \in Nat /\ Len(t) \in Nat \ {0}
  BY <1>3, AppendLasts
<1>5. Joined(w, v, a, t, vs)
  <2>1. v = WithRead(w, a + 1, t, vs)
    BY <1>1, <1>2, <1>3
  <2> QED BY <2>1, <1>0, <1>4, JoinsIs
<1>6. \A j \in 1..Len(vs) : vs[j].read = 0
  BY <1>0, <1>2 DEF LockOK
<1>7. Rising(t)
  <2>1. SUFFICES ASSUME NEW i \in 1..Len(t), NEW j \in 1..Len(t), i < j PROVE t[i] < t[j]
    BY DEF Rising
  <2>2. PICK m \in Nat : m = Len(s) /\ Len(t) = m + 1
    BY <1>4 DEF Lasts
  <2>3. i \in 1..m /\ t[i] = s[i]
    BY <2>1, <2>2, <1>4 DEF Lasts
  <2>4. CASE j \in 1..m
    <3>1. s[i] < s[j]
      BY <2>1, <2>2, <2>3, <2>4, <1>0, <1>2 DEF WorldOK, Rising
    <3>2. t[j] = s[j]
      BY <2>2, <2>4, <1>4 DEF Lasts
    <3> QED BY <2>3, <3>1, <3>2
  <2>5. CASE j = m + 1
    <3>1. t[j] = k
      BY <2>2, <2>5, <1>4 DEF Lasts
    <3>2. s[i] \in ByteReads /\ InSeq(s[i], s)
      BY <2>2, <2>3 DEF InSeq
    <3>3. s[i] <= a
      BY <3>2, <1>0, <1>2, WaitsEarlier
    <3>4. s[i] \in Nat
      <4>1. ByteReads \subseteq Nat
        BY DEF ByteReads
      <4> QED BY <4>1, <3>2, Zenon
    <3> QED BY <2>3, <3>1, <3>3, <3>4, <1>1
  <2> QED BY <2>2, <2>4, <2>5
<1>8. t # <<>>
  BY <1>4, EmptySeq
<1>9. LockOK(v.b, v.holders) /\ ToldOK(v.b, v.holders)
  BY <1>0, <1>2, <1>5, ZenonT(60) DEF LockOK, Joined, ToldOK, WorldOK
<1>10. ViewsOK(v.b.pullIntos, a + 1)
  BY <1>0, <1>2, <1>5, ViewsLater DEF WorldOK, Joined
<1>11. WorldOK(v, a + 1)
  BY <1>0, <1>2, <1>5, <1>7, <1>9, <1>10, ZenonT(60) DEF WorldOK, Joined, Asks, SameQueue
<1>12. WaitsOK(v)
  <2>1. SUFFICES ASSUME NEW i \in ByteReads
                 PROVE v.given[i].st = "pending" <=> InSeq(i, t) \/ HasView(i, vs)
    BY <1>5 DEF WaitsOK, Joined
  <2>2. InSeq(i, t) <=> InSeq(i, s) \/ i = k
    BY <1>4, LastIn
  <2>3. CASE i = k
    BY <2>2, <2>3, <1>1, <1>5 DEF Joined, Asks
  <2>4. CASE i # k
    <3>1. v.given[i] = w.given[i]
      BY <2>4, <1>1, <1>5 DEF Joined, Asks
    <3>2. w.given[i].st = "pending" <=> InSeq(i, s) \/ HasView(i, vs)
      BY <1>0, <1>2, Zenon DEF WaitsOK
    <3> QED BY <2>2, <2>4, <3>1, <3>2
  <2> QED BY <2>3, <2>4
<1>13. InTurn(v)
  BY <1>5, <1>6, Zenon DEF InTurn, Overtaken, Joined, SameQueue
<1>14. Flow(v, a + 1, <<>>) = Numbers(0, n)
  BY <1>2, <1>5, <1>11, JoinedFlow
<1>15. LaterEmpty(v.given) /\ v.b.state = "readable"
  BY <1>5 DEF Joined, Asks
<1> QED BY <1>11, <1>12, <1>13, <1>14, <1>15 DEF Sound

LEMMA LastView ==
  ASSUME NEW s \in Seq(PullIntoSet), NEW a \in Nat, ViewsOK(s, a), NEW p \in PullIntoSet,
         p.read = a + 1, p.filled = 0, p.filled < Len(p.data),
         \A j \in 1..Len(s) : s[j].read <= a, NEW t, t = Append(s, p)
  PROVE  ViewsOK(t, a + 1) /\ Held(t) = Held(s)
<1>1. t \in Seq(PullIntoSet) /\ Lasts(s, t, p) /\ Len(s) \in Nat /\ Len(t) \in Nat \ {0}
  BY AppendLasts
<1>2. PICK m \in Nat : m = Len(s) /\ Len(t) = m + 1 /\ t[m + 1] = p
  BY <1>1 DEF Lasts
<1>3. ASSUME NEW j \in 1..m
      PROVE  t[j] = s[j] /\ s[j] \in PullIntoSet /\ s[j].read \in 0..a /\ s[j].filled < Len(s[j].data)
  BY <1>1, <1>2 DEF Lasts, ViewsOK
<1>4. \A j \in 1..Len(t) : t[j].read \in 0..(a + 1) /\ t[j].filled < Len(t[j].data)
  <2>1. SUFFICES ASSUME NEW j \in 1..(m + 1) PROVE t[j].read \in 0..(a + 1) /\ t[j].filled < Len(t[j].data)
    BY <1>2
  <2>2. CASE j \in 1..m
    <3>1. t[j] = s[j] /\ s[j].read \in 0..a /\ s[j].filled < Len(s[j].data)
      BY <2>2, <1>3
    <3>2. PICK k \in 0..a : k = s[j].read
      BY <3>1
    <3>3. k \in 0..(a + 1)
      OBVIOUS
    <3> QED BY <3>1, <3>2, <3>3
  <2>3. CASE j = m + 1
    <3>1. a + 1 \in 0..(a + 1)
      OBVIOUS
    <3> QED BY <2>3, <3>1, <1>2
  <2>4. j \in 1..m \/ j = m + 1
    OBVIOUS
  <2> QED BY <2>2, <2>3, <2>4
<1>5. \A i, j \in 1..Len(t) : i < j => t[i].read < t[j].read /\ t[j].filled = 0
  <2>1. SUFFICES ASSUME NEW i \in 1..(m + 1), NEW j \in 1..(m + 1), i < j
                 PROVE t[i].read < t[j].read /\ t[j].filled = 0
    BY <1>2
  <2>2. i \in 1..m
    BY <2>1
  <2>3. CASE j \in 1..m
    <3>1. s[i].read < s[j].read /\ s[j].filled = 0
      BY <2>1, <2>2, <2>3, <1>2 DEF ViewsOK
    <3> QED BY <2>2, <2>3, <3>1, <1>3
  <2>4. CASE j = m + 1
    <3>1. PICK k \in 0..a : k = s[i].read /\ t[i].read = k
      BY <2>2, <1>3
    <3>2. k < a + 1
      OBVIOUS
    <3> QED BY <2>4, <3>1, <3>2, <1>2
  <2>5. j \in 1..m \/ j = m + 1
    OBVIOUS
  <2> QED BY <2>3, <2>4, <2>5
<1>6. ViewsOK(t, a + 1)
  BY <1>4, <1>5 DEF ViewsOK
<1>7. CASE m = 0
  <2>1. s = <<>>
    BY <1>2, <1>7
  <2>2. t # <<>> => t[1].filled = 0
    BY <1>2, <1>7
  <2>3. Held(t) = <<>>
    BY <1>1, <1>6, <2>2, HeldBlank
  <2> QED BY <2>1, <2>3, <1>6, HeldNothing
<1>8. CASE m # 0
  <2>1. s # <<>> /\ t # <<>>
    BY <1>1, <1>2, <1>8, EmptySeq
  <2>2. 1 \in 1..m
    BY <1>8
  <2>3. t[1] = s[1]
    BY <2>2, <1>3
  <2>4. Held(s) = Filled(s[1]) /\ Held(t) = Filled(t[1])
    <3>1. Held(s) = Filled(s[1])
      BY <2>1, HeldFirst
    <3>2. Held(t) = Filled(t[1])
      BY <2>1, <1>1, <1>6, HeldFirst
    <3> QED BY <3>1, <3>2
  <2> QED BY <2>3, <2>4, <1>6
<1> QED BY <1>7, <1>8

JoinsView(w, v, k, size) == v = WithRead(w, k, w.b.requests, Append(w.b.pullIntos, PullInto(k, size)))

\* A view joins those that wait.
LEMMA ViewJoins ==
  ASSUME NEW w, NEW a \in Nat, a < MaxByteReads, NEW n \in Nat, Calm(w, a, n), w.b.state = "readable",
         w.b.queue = <<>>, w.b.reader # 0, w.holders[w.b.reader].kind = "byob", NEW size \in Nat, size # 0,
         NEW v, JoinsView(w, v, a + 1, size)
  PROVE  Sound(v, a + 1, n)
<1>0. MaxByteReads \in Nat /\ WorldOK(w, a) /\ WaitsOK(w) /\ LaterEmpty(w.given) /\ w \in WorldSet /\ LockOK(w.b, w.holders)
  BY ByteAssumption DEF Calm, WorldOK
<1>f. ASSUME NEW rs, NEW t, Joined(w, v, a, rs, t), WorldOK(v, a + 1), Held(t) = Held(w.b.pullIntos)
      PROVE  Flow(v, a + 1, <<>>) = Numbers(0, n)
  BY <1>f, JoinedFlow, ZenonT(60)
<1>1. PICK k \in ByteReads : k = a + 1 /\ k \in Nat /\ k # 0
  BY <1>0 DEF ByteReads
<1>2. PICK s \in Seq(PullIntoSet) : s = w.b.pullIntos /\ ViewsOK(s, a)
  BY <1>0, WorldFields, FieldFields DEF WorldOK
<1>3. PICK p \in PullIntoSet : p = PullInto(a + 1, size) /\ p.read = k /\ p.filled = 0 /\ p.filled < Len(p.data)
  <2>1. PullInto(k, size) \in PullIntoSet /\ PullInto(k, size).read = k /\ PullInto(k, size).filled = 0
        /\ Len(PullInto(k, size).data) = size
    BY <1>1, PullIntoType
  <2>2. 0 < size
    OBVIOUS
  <2> QED BY <2>1, <2>2, <1>1
<1>4. PICK t : t = Append(s, p)
  OBVIOUS
<1>5. t \in Seq(PullIntoSet) /\ Lasts(s, t, p) /\ Len(s) \in Nat /\ Len(t) \in Nat \ {0}
  BY <1>4, AppendLasts
<1>6. PICK rs \in Seq(ByteReads) : rs = w.b.requests /\ rs = <<>>
  BY <1>0, WorldFields, FieldFields DEF LockOK
<1>7. Joined(w, v, a, rs, t)
  <2>1. v = WithRead(w, a + 1, rs, t)
    BY <1>2, <1>3, <1>4, <1>6 DEF JoinsView
  <2> QED BY <2>1, <1>0, <1>5, JoinsIs
<1>8. \A j \in 1..Len(s) : s[j].read <= a
  <2>1. SUFFICES ASSUME NEW j \in 1..Len(s) PROVE s[j].read <= a
    OBVIOUS
  <2>2. s[j].read \in 0..a
    BY <1>2 DEF ViewsOK
  <2> QED BY <2>2
<1>9. ViewsOK(t, a + 1) /\ Held(t) = Held(s)
  <2>1. p.read = a + 1 /\ p.filled = 0 /\ p.filled < Len(p.data)
    BY <1>1, <1>3
  <2>2. ViewsOK(s, a)
    BY <1>2
  <2> QED BY <2>1, <2>2, <1>4, <1>8, LastView
<1>10. t # <<>>
  BY <1>5, EmptySeq
<1>11. RequestOK(v.b.request, t)
  <2>1. SUFFICES ASSUME w.b.request.live = TRUE PROVE w.b.request.len + w.b.request.at = Len(t[1].data)
    BY <1>7, <1>10 DEF RequestOK, Joined
  <2>2. s # <<>> /\ w.b.request.len + w.b.request.at = Len(s[1].data)
    BY <2>1, <1>0, <1>2 DEF WorldOK, RequestOK
  <2>3. 1 \in 1..Len(s)
    BY <2>2
  <2>4. t[1] = s[1]
    BY <2>3, <1>5 DEF Lasts
  <2> QED BY <2>2, <2>4
<1>12. w.b.auto = 0 => \A j \in 1..Len(t) : t[j].read # 0
  <2>1. SUFFICES ASSUME w.b.auto = 0, NEW j \in 1..Len(t) PROVE t[j].read # 0
    OBVIOUS
  <2>2. PICK m \in Nat : m = Len(s) /\ Len(t) = m + 1
    BY <1>5 DEF Lasts
  <2>3. CASE j \in 1..m
    <3>1. s[j].read # 0
      BY <2>1, <2>2, <2>3, <1>0, <1>2 DEF LockOK
    <3> QED BY <3>1, <2>2, <2>3, <1>5 DEF Lasts
  <2>4. CASE j = m + 1
    BY <2>2, <2>4, <1>1, <1>3, <1>5 DEF Lasts
  <2>5. j \in 1..m \/ j = m + 1
    BY <2>2
  <2> QED BY <2>3, <2>4, <2>5
<1>13. LockOK(v.b, v.holders) /\ ToldOK(v.b, v.holders)
  <2>1. LockOK(v.b, v.holders)
    BY <1>0, <1>6, <1>7, <1>12 DEF LockOK, Joined
  <2>2. ToldOK(v.b, v.holders)
    BY <1>0, <1>7 DEF Joined, ToldOK, WorldOK
  <2> QED BY <2>1, <2>2
<1>14. WorldOK(v, a + 1)
  <2>1. Rising(v.b.requests)
    BY <1>0, <1>6, <1>7 DEF WorldOK, Joined
  <2> QED BY <2>1, <1>0, <1>7, <1>9, <1>11, <1>13 DEF WorldOK, Joined, Asks, SameQueue
<1>15. WaitsOK(v)
  <2>1. SUFFICES ASSUME NEW i \in ByteReads
                 PROVE v.given[i].st = "pending" <=> InSeq(i, rs) \/ HasView(i, t)
    BY <1>7 DEF WaitsOK, Joined
  <2>2. HasView(i, t) <=> HasView(i, s) \/ i = k
    <3>1. Lasts(s, t, p) /\ Len(s) \in Nat /\ p.read = k
      BY <1>3, <1>5
    <3>2. HasView(i, t) <=> HasView(i, s) \/ i = p.read
      BY <3>1, LastHas
    <3> QED BY <3>1, <3>2
  <2>3. CASE i = k
    BY <2>2, <2>3, <1>1, <1>7 DEF Joined, Asks
  <2>4. CASE i # k
    <3>1. v.given[i] = w.given[i]
      BY <2>4, <1>1, <1>7 DEF Joined, Asks
    <3>2. w.given[i].st = "pending" <=> InSeq(i, rs) \/ HasView(i, s)
      BY <1>0, <1>2, <1>6 DEF WaitsOK
    <3> QED BY <2>2, <2>4, <3>1, <3>2
  <2> QED BY <2>3, <2>4
<1>16. v.b.auto = 0 => InTurn(v)
  <2>1. SUFFICES ASSUME v.b.auto = 0 PROVE InTurn(v)
    OBVIOUS
  <2>2. 1 \in 1..Len(t)
    BY <1>5
  <2>3. t[1].read # 0
    BY <2>1, <2>2, <1>7, <1>12 DEF Joined
  <2>4. v.b.queue = <<>> /\ v.b.pullIntos = t
    BY <1>7 DEF Joined, SameQueue
  <2> QED BY <2>3, <2>4 DEF InTurn, Overtaken
<1>17. Flow(v, a + 1, <<>>) = Numbers(0, n)
  <2>1. Held(t) = Held(w.b.pullIntos)
    BY <1>2, <1>9
  <2> QED BY <2>1, <1>7, <1>14, <1>f
<1>18. LaterEmpty(v.given) /\ v.b.state = "readable"
  BY <1>7 DEF Joined, Asks
<1> QED BY <1>14, <1>15, <1>16, <1>17, <1>18 DEF Sound

\* The read as the handlers write it.
LEMMA RequestWaits ==
  ASSUME NEW w \in WorldSet, NEW k
  PROVE  WithRead(w, k, Append(w.b.requests, k), w.b.pullIntos)
         = [w EXCEPT !.b.requests = Append(@, k), !.given[k] = Answer("pending", <<>>)]
<1>1. PICK b \in FieldSet : b = w.b
  BY WorldFields
<1>2. PICK g, rs : g = [w.given EXCEPT ![k] = Answer("pending", <<>>)] /\ rs = Append(b.requests, k)
  OBVIOUS
<1>3. [b EXCEPT !.requests = rs, !.pullIntos = b.pullIntos] = [b EXCEPT !.requests = rs]
  BY DEF FieldSet
<1>4. WithRead(w, k, Append(w.b.requests, k), w.b.pullIntos)
      = [w EXCEPT !.b = [b EXCEPT !.requests = rs, !.pullIntos = b.pullIntos], !.given = g]
  BY <1>1, <1>2 DEF WithRead, WorldSet
<1>5. [w EXCEPT !.b.requests = Append(@, k), !.given[k] = Answer("pending", <<>>)]
      = [w EXCEPT !.b = [b EXCEPT !.requests = rs], !.given = g]
  BY <1>1, <1>2 DEF WorldSet
<1> QED BY <1>3, <1>4, <1>5

ViewWaiting(w, k, p) ==
  WithRead(w, k, w.b.requests, Append(w.b.pullIntos, p))
  = [w EXCEPT !.b.pullIntos = Append(@, p), !.given[k] = Answer("pending", <<>>)]

LEMMA ViewWaits ==
  ASSUME NEW w \in WorldSet, NEW k, NEW p
  PROVE  ViewWaiting(w, k, p)
<1>1. PICK b \in FieldSet : b = w.b
  BY WorldFields
<1>2. PICK g, t : g = [w.given EXCEPT ![k] = Answer("pending", <<>>)] /\ t = Append(b.pullIntos, p)
  OBVIOUS
<1>3. [b EXCEPT !.requests = b.requests, !.pullIntos = t] = [b EXCEPT !.pullIntos = t]
  BY DEF FieldSet
<1>4. WithRead(w, k, w.b.requests, Append(w.b.pullIntos, p))
      = [w EXCEPT !.b = [b EXCEPT !.requests = b.requests, !.pullIntos = t], !.given = g]
  BY <1>1, <1>2 DEF WithRead, WorldSet
<1>5. [w EXCEPT !.b.pullIntos = Append(@, p), !.given[k] = Answer("pending", <<>>)]
      = [w EXCEPT !.b = [b EXCEPT !.pullIntos = t], !.given = g]
  BY <1>1, <1>2 DEF WorldSet
<1> QED BY <1>3, <1>4, <1>5 DEF ViewWaiting

LEMMA ReadBytesStep == ByteInv /\ lapses = {} /\ ReadBytes => ByteInv'
<1>1. SUFFICES ASSUME ByteInv, lapses = {}, ReadBytes PROVE ByteInv'
  OBVIOUS
<1>2. Calm(ByteWorld, asked, provided) /\ asked \in Nat /\ asked <= MaxByteReads /\ provided \in Nat
      /\ MaxByteReads \in Nat /\ WorldOK(ByteWorld, asked) /\ ByteWorld \in WorldSet /\ ByteWorld.b = bytes
  BY <1>1, StartsCalm
<1>3. PICK w : w = ByteWorld
  OBVIOUS
<1>4. w.b.state = "readable" /\ w.b.reader # 0 /\ w.holders[w.b.reader].kind = "default" /\ asked < MaxByteReads
      /\ asked' = asked + 1 /\ provided' = provided
  BY <1>1, <1>2, <1>3 DEF ReadBytes, Kind
<1>5. asked' \in 0..MaxByteReads /\ provided' \in Nat
  BY <1>2, <1>4
<1>6. CASE bytes.queue # <<>>
  <2>1. PICK u : u = ReadChunk(w, asked + 1)
    OBVIOUS
  <2>2. ByteStep(u)
    BY <2>1, <1>1, <1>3, <1>4, <1>6 DEF ReadBytes
  <2>3. Lawful(u, asked + 1, provided)
    BY <2>1, <1>2, <1>3, <1>4, <1>6, ReadChunkLawful
  <2>4. Lawful(u, asked', provided')
    BY <2>3, <1>4
  <2> QED BY <2>2, <2>4, <1>1, <1>5, StepDone
<1>7. CASE bytes.queue = <<>>
  <2>1. PICK v : v = WithRead(w, asked + 1, Append(w.b.requests, asked + 1), w.b.pullIntos)
    OBVIOUS
  <2>2. PICK u : u = CallBytePullIfNeeded(v)
    OBVIOUS
  <2>3. ByteStep(u)
    <3>1. v = [w EXCEPT !.b.requests = Append(@, asked + 1), !.given[asked + 1] = Answer("pending", <<>>)]
      <4>1. w \in WorldSet
        BY <1>2, <1>3
      <4> QED BY <4>1, <2>1, RequestWaits, Zenon
    <3> QED BY <3>1, <2>2, <1>1, <1>3, <1>4, <1>7 DEF ReadBytes
  <2>4. Sound(v, asked + 1, provided)
    BY <2>1, <1>2, <1>3, <1>4, <1>7, RequestJoins
  <2>5. asked + 1 \in Nat /\ asked + 1 <= MaxByteReads
    BY <1>2, <1>4
  <2>6. Sound(u, asked + 1, provided)
    BY <2>2, <2>4, <2>5, <1>2, SoundCall
  <2>7. Lawful(u, asked', provided')
    BY <2>5, <2>6, <1>2, <1>4, SoundLawful
  <2> QED BY <2>3, <2>7, <1>1, <1>5, StepDone
<1> QED BY <1>6, <1>7

LEMMA ReadIntoStep == ByteInv /\ lapses = {} /\ (\E n \in ViewSizes : ReadInto(n)) => ByteInv'
<1>1. SUFFICES ASSUME ByteInv, lapses = {}, NEW n \in ViewSizes, ReadInto(n) PROVE ByteInv'
  OBVIOUS
<1>2. Calm(ByteWorld, asked, provided) /\ asked \in Nat /\ asked <= MaxByteReads /\ provided \in Nat
      /\ MaxByteReads \in Nat /\ WorldOK(ByteWorld, asked) /\ ByteWorld \in WorldSet /\ ByteWorld.b = bytes
  BY <1>1, StartsCalm
<1>3. PICK w : w = ByteWorld
  OBVIOUS
<1>n. n \in Nat /\ n # 0
  BY ByteAssumption
<1>t. w.b.queueTotalSize > 0 <=> w.b.queue # <<>>
  <2>1. w.b.queue \in Seq(Seq(Nat)) /\ w.b.queueTotalSize \in Nat /\ QueueOK(w.b.queue, w.b.queueTotalSize)
    BY <1>2, <1>3, WorldFields, FieldFields DEF WorldOK
  <2> QED BY <2>1, TotalSays
<1>4. w.b.state = "readable" /\ w.b.reader # 0 /\ w.holders[w.b.reader].kind = "byob" /\ asked < MaxByteReads
      /\ asked' = asked + 1 /\ provided' = provided
  <2>1. w.b.reader # 0 /\ w.holders[w.b.reader].kind = "byob" /\ asked < MaxByteReads
        /\ asked' = asked + 1 /\ provided' = provided /\ (w.b.state = "readable" \/ w.b.queueTotalSize > 0)
    BY <1>1, <1>2, <1>3 DEF ReadInto, Kind
  <2>2. w.b.state # "readable" => w.b.queue = <<>>
    BY <1>2, <1>3 DEF Calm
  <2> QED BY <2>1, <2>2, <1>t
<1>5. asked' \in 0..MaxByteReads /\ provided' \in Nat
  BY <1>2, <1>4
<1>6. CASE w.b.queueTotalSize > 0
  <2>1. PICK u : u = FillView(w, asked + 1, n)
    OBVIOUS
  <2>2. ByteStep(u)
    BY <2>1, <1>1, <1>2, <1>3, <1>4, <1>6 DEF ReadInto
  <2>3. Lawful(u, asked + 1, provided)
    BY <2>1, <1>2, <1>3, <1>4, <1>6, <1>n, <1>t, FillViewLawful
  <2>4. Lawful(u, asked', provided')
    BY <2>3, <1>4
  <2> QED BY <2>2, <2>4, <1>1, <1>5, StepDone
<1>7. CASE ~(w.b.queueTotalSize > 0)
  <2>1. PICK v : v = WithRead(w, asked + 1, w.b.requests, Append(w.b.pullIntos, PullInto(asked + 1, n)))
    OBVIOUS
  <2>2. PICK u : u = CallBytePullIfNeeded(v)
    OBVIOUS
  <2>3. ByteStep(u)
    <3>1. v = [w EXCEPT !.b.pullIntos = Append(@, PullInto(asked + 1, n)), !.given[asked + 1] = Answer("pending", <<>>)]
      <4>1. w \in WorldSet
        BY <1>2, <1>3
      <4>2. ViewWaiting(w, asked + 1, PullInto(asked + 1, n))
        BY <4>1, ViewWaits, Zenon
      <4> QED BY <4>2, <2>1, Zenon DEF ViewWaiting
    <3> QED BY <3>1, <2>2, <1>1, <1>2, <1>3, <1>4, <1>7 DEF ReadInto
  <2>4. Sound(v, asked + 1, provided)
    BY <2>1, <1>2, <1>3, <1>4, <1>7, <1>n, <1>t, ViewJoins DEF JoinsView
  <2>5. asked + 1 \in Nat /\ asked + 1 <= MaxByteReads
    BY <1>2, <1>4
  <2>6. Sound(u, asked + 1, provided)
    BY <2>2, <2>4, <2>5, <1>2, SoundCall
  <2>7. Lawful(u, asked', provided')
    BY <2>5, <2>6, <1>2, <1>4, SoundLawful
  <2> QED BY <2>3, <2>7, <1>1, <1>5, StepDone
<1> QED BY <1>6, <1>7

-----------------------------------------------------------------------------
(***************************************************************************)
(* respond() and respondWithNewView().                                     *)
(***************************************************************************)
\* What an answer of the source has to leave: a are its lapses.
Leaving(v, l, a, n) ==
  /\ l \subseteq {"misplaced", "dropped"}
  /\ WorldOK(v, a) /\ (v.b.auto = 0 => InTurn(v))
  /\ "misplaced" \notin l => WaitsOK(v)
  /\ l = {} /\ InTurn(v) => Calm(v, a, n)

LEMMA RespondDone ==
  ASSUME NEW v, NEW l, Leaving(v, l, asked', provided'), ByteBecomes(v), lapses' = l \union Overtaken(ByteWorld'),
         asked' \in 0..MaxByteReads, provided' \in Nat
  PROVE  ByteInv'
<1>1. v \in WorldSet
  BY DEF Leaving, WorldOK
<1>2. ByteWorld' = v
  BY <1>1 DEF ByteBecomes, ByteWorld, WorldSet
<1>3. bytes' = v.b /\ given' = v.given
  BY DEF ByteBecomes
<1>4. lapses' = l \union Overtaken(v) /\ Overtaken(v) \subseteq {"overtaken"}
  BY <1>2 DEF Overtaken
<1>5. lapses' \subseteq {"overtaken", "dropped", "misplaced", "cancelled"} /\ ("misplaced" \notin lapses' => WaitsOK(v))
  BY <1>4 DEF Leaving
<1>6. lapses' = {} => Calm(v, asked', provided')
  BY <1>4 DEF Leaving, InTurn
<1>7. lapses' = {} => /\ InTurn(v) /\ (bytes'.state # "readable" => bytes'.queue = <<>>)
                      /\ LaterEmpty(given') /\ OrderOK(v, asked', provided')
  BY <1>3, <1>6 DEF Calm
<1>8. WorldOK(v, asked') /\ (bytes'.auto = 0 => InTurn(v))
  BY <1>3 DEF Leaving
<1> QED BY <1>2, <1>5, <1>7, <1>8 DEF ByteInv

\* v is w after p was delivered, which holds x more than the first view.
Puts(w, v, a, n, p, x) ==
  /\ Calm(w, a, n) /\ w.b.state = "readable" /\ w.b.pullIntos # <<>> /\ Delivers(w, v, a, p)
  /\ x \in Seq(Nat) /\ Filled(p) = Then(Filled(w.b.pullIntos[1]), x)

\* What the source writes goes behind what the view that it fills held.
LEMMA DeliversFlow ==
  ASSUME NEW w, NEW a \in Nat, a <= MaxByteReads, NEW n \in Nat, NEW v, NEW p, NEW x, Puts(w, v, a, n, p, x)
  PROVE  Flow(v, a, <<>>) = Then(Numbers(0, n), x)
<1>0. WorldOK(w, a) /\ InTurn(w) /\ LaterEmpty(w.given) /\ x \in Seq(Nat)
      /\ Filled(p) = Then(Filled(w.b.pullIntos[1]), x) /\ w.b.pullIntos # <<>> /\ w.b.state = "readable"
      /\ Delivers(w, v, a, p) /\ Calm(w, a, n)
  BY DEF Calm, Puts
<1>1. WorldOK(v, a) /\ Passed(w, v, a, Filled(p)) /\ Held(v.b.pullIntos) = <<>>
  BY <1>0 DEF Delivers
<1>2. PICK d \in Seq(Nat) : d = DeliveredOf(w.given, a)
  BY <1>0, FlowEnds
<1>3. PICK q \in Seq(Nat), h \in Seq(Nat) : q = Concat(w.b.queue) /\ h = Held(w.b.pullIntos)
  BY <1>0, KeptSeq
<1>4. PICK e \in Seq(Nat) : e = DeliveredOf(v.given, a)
  BY <1>1, FlowEnds
<1>5. PICK r \in Seq(Nat) : r = Concat(v.b.queue)
  BY <1>1, KeptSeq
<1>6. h = Filled(w.b.pullIntos[1])
  <2>1. PICK vs \in Seq(PullIntoSet) : vs = w.b.pullIntos /\ ViewsOK(vs, a)
    BY <1>0, WorldFields, FieldFields DEF WorldOK
  <2>2. vs # <<>>
    BY <2>1, <1>0
  <2>3. Held(vs) = Filled(vs[1])
    BY <2>1, <2>2, HeldFirst
  <2> QED BY <2>1, <2>3, <1>3
<1>7. PICK k : k = Then(h, x)
  BY ZenonT(60)
<1>8. Moves(e, r, d, q, k)
  BY <1>0, <1>1, <1>2, <1>3, <1>4, <1>5, <1>6, <1>7 DEF Moves, Passed, Then
<1>9. Moved(e, r, d, q, h, x)
  BY <1>0, <1>7, <1>8, FlowFull
<1>10. Flow(v, a, <<>>) = Then(e, Then(r, <<>>))
  <2>1. KeptOf(v.b) = Then(r, <<>>)
    BY <1>1, <1>5, KeptSeq
  <2> QED BY <2>1, <1>1, <1>4, FlowEnds
<1>11. Then(d, Then(q, h)) = Numbers(0, n)
  <2>1. KeptOf(w.b) = Then(q, h)
    BY <1>0, <1>3, KeptSeq
  <2>2. Flow(w, a, <<>>) = Then(d, Then(q, h))
    BY <2>1, <1>0, <1>2, FlowEnds
  <2>3. Flow(w, a, <<>>) = Numbers(0, n)
    BY <1>0, CalmOrder
  <2> QED BY <2>2, <2>3
<1> QED BY <1>9, <1>10, <1>11 DEF Moved

\* An answer that fills the first view, or as much of it as the source has.
LEMMA DeliverLeaves ==
  ASSUME NEW w, NEW a \in Nat, a <= MaxByteReads, NEW n \in Nat, Calm(w, a, n), NEW p, Fills(p, w),
         NEW m \in Nat, NEW l, l \subseteq {"misplaced", "dropped"},
         l = {} => Filled(p) = Then(Filled(w.b.pullIntos[1]), Numbers(n, m)),
         NEW v, v = Deliver(Pop(w), p)
  PROVE  Leaving(v, l, a, n + m)
<1>0. WorldOK(w, a) /\ InTurn(w) /\ LaterEmpty(w.given) /\ WaitsOK(w) /\ LockOK(w.b, w.holders)
  BY DEF Calm, WorldOK
<1>1. Delivers(w, v, a, p)
  BY <1>0, DeliverKeeps
<1>2. WorldOK(v, a) /\ WaitsOK(v) /\ SameOpen(w, v) /\ LaterEmpty(v.given)
  BY <1>0, <1>1 DEF Delivers
<1>3. w.b.pullIntos # <<>> /\ w.b.state = "readable"
  BY <1>0 DEF Fills, LockOK
<1>4. v.b.auto = 0 => InTurn(v)
  <2>1. SUFFICES ASSUME v.b.auto = 0 PROVE InTurn(v)
    OBVIOUS
  <2>2. w.b.auto = 0
    BY <2>1, <1>2 DEF SameOpen
  <2>3. w.b.pullIntos[1].read # 0
    BY <2>2, <1>0, <1>3, FirstIsRead
  <2> QED BY <2>3, <1>0, <1>1 DEF Delivers
<1>5. ASSUME l = {}, InTurn(v) PROVE Calm(v, a, n + m)
  <2>1. PICK x \in Seq(Nat) : x = Numbers(n, m)
    BY NumbersType
  <2>2. Flow(v, a, <<>>) = Then(Numbers(0, n), x)
    <3>1. Puts(w, v, a, n, p, x)
      BY <2>1, <1>1, <1>3, <1>5 DEF Puts
    <3> QED BY <3>1, DeliversFlow
  <2>3. Flow(v, a, <<>>) = Numbers(0, n + m)
    BY <2>1, <2>2, NumbersOn
  <2>4. v.b.state = "readable"
    BY <1>2, <1>3 DEF SameOpen
  <2>5. Sound(v, a, n + m)
    BY <2>3, <2>4, <1>2, <1>5 DEF Sound
  <2>6. n + m \in Nat
    OBVIOUS
  <2> QED BY <2>5, <2>6, <1>5, SoundCalm
<1> QED BY <1>2, <1>4, <1>5 DEF Leaving

\* The order of the two assignments does not matter.
LEMMA PopEither ==
  ASSUME NEW w \in WorldSet, w.b.pullIntos # <<>>
  PROVE  Pop(w) = [w EXCEPT !.b.request = NoRequest, !.b.pullIntos = Tail(@)]
<1>1. PICK b \in FieldSet : b = w.b
  BY WorldFields
<1>2. PICK c \in Seq(PullIntoSet) : c = Tail(b.pullIntos)
  <2>1. Tail(b.pullIntos) \in Seq(PullIntoSet)
    BY <1>1, FieldFields
  <2> QED BY <2>1
<1>3. [b EXCEPT !.pullIntos = c, !.request = NoRequest] = [b EXCEPT !.request = NoRequest, !.pullIntos = c]
  BY DEF FieldSet
<1>4. Pop(w) = [w EXCEPT !.b = [b EXCEPT !.pullIntos = c, !.request = NoRequest]]
  BY <1>1, <1>2 DEF Pop, WorldSet
<1>5. [w EXCEPT !.b.request = NoRequest, !.b.pullIntos = Tail(@)]
      = [w EXCEPT !.b = [b EXCEPT !.request = NoRequest, !.pullIntos = c]]
  BY <1>1, <1>2 DEF WorldSet, FieldSet
<1> QED BY <1>3, <1>4, <1>5

LEMMA RespondWithNewViewStep ==
  ByteInv /\ lapses = {} /\ (\E n \in 1..MaxBytes : RespondWithNewView(n)) => ByteInv'
<1>1. SUFFICES ASSUME ByteInv, lapses = {}, NEW n \in 1..MaxBytes, RespondWithNewView(n) PROVE ByteInv'
  OBVIOUS
<1>2. Calm(ByteWorld, asked, provided) /\ asked \in Nat /\ asked <= MaxByteReads /\ provided \in Nat
      /\ MaxByteReads \in Nat /\ WorldOK(ByteWorld, asked) /\ ByteWorld \in WorldSet /\ ByteWorld.b = bytes
  BY <1>1, StartsCalm
<1>3. PICK w : w = ByteWorld
  OBVIOUS
<1>n. n \in Nat /\ n # 0
  <2>1. MaxBytes \in Nat
    BY ByteAssumption
  <2> QED BY <2>1
<1>4. PICK p \in PullIntoSet : p = Head(w.b.pullIntos) /\ p = w.b.pullIntos[1] /\ w.b.pullIntos # <<>>
  <2>1. w.b.pullIntos \in Seq(PullIntoSet) /\ w.b.pullIntos # <<>>
    BY <1>1, <1>2, <1>3, WorldFields, FieldFields DEF RespondWithNewView
  <2> QED BY <2>1
<1>5. PICK x \in Seq(Nat) : x = Numbers(provided, n) /\ Len(x) = n
  BY <1>2, <1>n, NumbersType
<1>6. PICK q : q = [p EXCEPT !.data = x, !.filled = n]
  OBVIOUS
<1>7. q.read = p.read /\ q.data = x /\ q.filled = n
  BY <1>6 DEF PullIntoSet
<1>8. Filled(q) = x /\ x # <<>>
  <2>1. SubSeq(x, 1, Len(x)) = x
    BY SubSeqFull
  <2> QED BY <2>1, <1>5, <1>7, <1>n, EmptySeq DEF Filled
<1>9. Fills(q, w)
  BY <1>4, <1>7, <1>8 DEF Fills
<1>10. PICK l : l = IF p.filled > 0 THEN {"misplaced"} ELSE {}
  OBVIOUS
<1>11. PICK v : v = Deliver(Pop(w), q)
  OBVIOUS
<1>12. ByteBecomes(v) /\ lapses' = l \union Overtaken(ByteWorld') /\ provided' = provided + n /\ asked' = asked
  <2>1. Pop(w) = [ByteWorld EXCEPT !.b.request = NoRequest, !.b.pullIntos = Tail(@)]
    BY <1>2, <1>3, <1>4, PopEither
  <2>2. p = Head(bytes.pullIntos)
    BY <1>2, <1>3, <1>4
  <2>3. ByteBecomes(v) /\ provided' = provided + n /\ asked' = asked
    BY <2>1, <2>2, <1>1, <1>5, <1>6, <1>11 DEF RespondWithNewView
  <2>4. lapses' = lapses \union l \union Overtaken(ByteWorld')
    BY <2>2, <1>1, <1>10 DEF RespondWithNewView
  <2>5. lapses' = l \union Overtaken(ByteWorld')
    BY <2>4, <1>1
  <2> QED BY <2>3, <2>5
<1>13. l \subseteq {"misplaced", "dropped"}
  BY <1>10
<1>14. l = {} => Filled(q) = Then(Filled(w.b.pullIntos[1]), Numbers(provided, n))
  <2>1. SUFFICES ASSUME l = {} PROVE Filled(q) = Then(Filled(p), x)
    BY <1>4, <1>5
  <2>2. p.filled \in Nat
    BY DEF PullIntoSet
  <2>3. p.filled = 0
    BY <2>1, <2>2, <1>10
  <2>4. Filled(p) = <<>>
    BY <2>3, FilledNothing
  <2>5. <<>> \o x = x
    BY ConcatEmptySeq
  <2> QED BY <2>4, <2>5, <1>8 DEF Then
<1>15. Leaving(v, l, asked, provided + n)
  BY <1>2, <1>3, <1>9, <1>11, <1>13, <1>14, <1>n, DeliverLeaves
<1>16. Leaving(v, l, asked', provided') /\ asked' \in 0..MaxByteReads /\ provided' \in Nat
  BY <1>2, <1>12, <1>15, <1>n
<1> QED BY <1>12, <1>16, RespondDone

\* The first view with n more bytes, written where the source's view is.
Responded(p, r, n, base) ==
  [p EXCEPT !.filled = @ + n,
            !.data = [i \in 1..Len(@) |-> IF r.live /\ i \in r.at + 1..r.at + n THEN base + i - r.at ELSE @[i]]]

LEMMA RespondedIs ==
  ASSUME NEW p \in PullIntoSet, NEW r \in RequestSet, NEW n \in Nat, NEW base \in Nat,
         NEW q, q = Responded(p, r, n, base)
  PROVE  q \in PullIntoSet /\ q.read = p.read /\ Len(q.data) = Len(p.data) /\ q.filled = p.filled + n
<1>1. PICK d \in Seq(Nat), f \in Nat, m \in Nat : d = p.data /\ f = p.filled /\ m = Len(d)
  <2>1. p.data \in Seq(Nat) /\ p.filled \in Nat
    BY DEF PullIntoSet
  <2> QED BY <2>1
<1>2. PICK e : e = [i \in 1..m |-> IF r.live /\ i \in r.at + 1..r.at + n THEN base + i - r.at ELSE d[i]]
  OBVIOUS
<1>3. e \in Seq(Nat) /\ Len(e) = m
  <2>1. r.at \in Nat
    BY DEF RequestSet
  <2>2. ASSUME NEW i \in 1..m PROVE e[i] \in Nat
    <3>1. CASE r.live /\ i \in r.at + 1..r.at + n
      <4>1. e[i] = base + i - r.at
        BY <3>1, <1>2
      <4>2. base + i - r.at \in Nat
        BY <3>1, <2>1
      <4> QED BY <4>1, <4>2
    <3>2. CASE ~(r.live /\ i \in r.at + 1..r.at + n)
      <4>1. e[i] = d[i]
        BY <3>2, <1>2
      <4> QED BY <4>1, <1>1
    <3> QED BY <3>1, <3>2
  <2>3. e \in [1..m -> Nat]
    BY <2>2, <1>2
  <2> QED BY <2>3, <1>2
<1>4. q = [p EXCEPT !.filled = f + n, !.data = e]
  BY <1>1, <1>2 DEF Responded
<1>5. q \in PullIntoSet /\ q.read = p.read /\ q.data = e /\ q.filled = f + n
  <2>1. f + n \in Nat
    OBVIOUS
  <2> QED BY <2>1, <1>3, <1>4 DEF PullIntoSet
<1> QED BY <1>1, <1>3, <1>5

\* The source's view is where p is to be filled next, and has room for n bytes.
InPlace(p, r, n) == r.live = TRUE /\ r.at = p.filled /\ p.filled + n <= Len(p.data)

\* If that is where the view is to be filled next, the bytes go there.
LEMMA RespondedFills ==
  ASSUME NEW p \in PullIntoSet, NEW r \in RequestSet, NEW n \in Nat, NEW base \in Nat,
         InPlace(p, r, n), NEW q, q = Responded(p, r, n, base)
  PROVE  Filled(q) = Then(Filled(p), Numbers(base, n))
<1>0. r.live = TRUE /\ r.at = p.filled /\ p.filled + n <= Len(p.data)
  BY DEF InPlace
<1>1. PICK x \in Seq(Nat) : x = Numbers(base, n) /\ Len(x) = n /\ \A i \in 1..n : x[i] = base + i
  BY NumbersType
<1>2. PICK f \in Nat : f = p.filled
  BY DEF PullIntoSet
<1>3. q = Written(p, x, n)
  <2>1. [i \in 1..Len(p.data) |-> IF r.live /\ i \in f + 1..f + n THEN base + i - f ELSE p.data[i]]
        = [i \in 1..Len(p.data) |-> IF i \in f + 1..f + n THEN x[i - f] ELSE p.data[i]]
    <3>1. SUFFICES ASSUME NEW i \in 1..Len(p.data), i \in f + 1..f + n PROVE base + i - f = x[i - f]
      BY <1>0
    <3>2. i - f \in 1..n /\ base + (i - f) = base + i - f
      BY <3>1
    <3>3. x[i - f] = base + (i - f)
      BY <3>2, <1>1
    <3> QED BY <3>2, <3>3
  <2>2. q = [p EXCEPT !.filled = p.filled + n,
                      !.data = [i \in 1..Len(p.data) |-> IF r.live /\ i \in f + 1..f + n THEN base + i - f ELSE p.data[i]]]
    BY <1>0, <1>2 DEF Responded
  <2>3. Written(p, x, n) = [p EXCEPT !.filled = p.filled + n,
                      !.data = [i \in 1..Len(p.data) |-> IF i \in f + 1..f + n THEN x[i - f] ELSE p.data[i]]]
    BY <1>2 DEF Written
  <2> QED BY <2>1, <2>2, <2>3
<1>4. n <= Len(x)
  BY <1>1
<1>5. Filled(q) = Then(Filled(p), SubSeq(x, 1, n))
  BY <1>0, <1>3, <1>4, WrittenIs
<1>6. SubSeq(x, 1, n) = x
  <2>1. SubSeq(x, 1, Len(x)) = x
    BY SubSeqFull
  <2> QED BY <2>1, <1>1
<1> QED BY <1>1, <1>5, <1>6

\* The answer after close(), which says that there is no more.
EndResponse(w, k, data) ==
  LET x == IF k = 0 THEN Pop(w) ELSE Answers(Pop(w), k, "done", data)
  IN  IF x.b.pullIntos = <<>> THEN ByteFinishClose(x) ELSE x

LEMMA RespondEnds ==
  ASSUME NEW w, NEW a \in Nat, a <= MaxByteReads, NEW n, Calm(w, a, n), w.b.pullIntos # <<>>,
         NEW k, k = w.b.pullIntos[1].read, NEW data \in Seq(Nat), NEW v, v = EndResponse(w, k, data)
  PROVE  WorldOK(v, a) /\ WaitsOK(v) /\ InTurn(v)
<1>u. PICK u : u = Pop(w)
  OBVIOUS
<1>x. PICK x : x = IF k = 0 THEN u ELSE Answers(u, k, "done", data)
  OBVIOUS
<1>v. v = IF x.b.pullIntos = <<>> THEN ByteFinishClose(x) ELSE x
  BY <1>u, <1>x DEF EndResponse
<1>0. WorldOK(w, a) /\ InTurn(w) /\ WaitsOK(w) /\ LockOK(w.b, w.holders)
  BY DEF Calm, WorldOK
<1>1. WorldOK(u, a) /\ InTurn(u) /\ u.b.state = w.b.state
  BY <1>0, <1>u, PopKeeps, ZenonT(60)
<1>2. w.b.state = "readable"
  BY <1>0 DEF LockOK
<1>3. WorldOK(x, a) /\ InTurn(x) /\ WaitsOK(x) /\ x.b.state = "readable"
  <2>1. CASE k = 0
    <3>1. WaitsOK(u)
      BY <2>1, <1>0, <1>u, PopNobody
    <3> QED BY <2>1, <3>1, <1>1, <1>2, <1>x
  <2>2. CASE k # 0
    <3>1. Longest(w, k, a) /\ WaitsBut(u, k)
      BY <2>2, <1>0, <1>u, LongestView
    <3>2. k \in ByteReads /\ k <= a
      BY <3>1 DEF Longest
    <3>3. x = Answers(u, k, "done", data) /\ "done" \in {"value", "done", "rejected"}
      BY <2>2, <1>x
    <3>4. WorldOK(x, a) /\ (WaitsBut(u, k) => WaitsOK(x)) /\ (InTurn(u) => InTurn(x)) /\ x.b = u.b
      BY <3>2, <3>3, <1>1, AnswersKeeps
    <3> QED BY <3>1, <3>4, <1>1, <1>2
  <2> QED BY <2>1, <2>2
<1>4. CASE x.b.pullIntos = <<>>
  <2>1. v = ByteFinishClose(x)
    BY <1>4, <1>v
  <2> QED BY <2>1, <1>3, FinishCloseEnds
<1>5. CASE x.b.pullIntos # <<>>
  BY <1>3, <1>5, <1>v
<1> QED BY <1>4, <1>5

\* An answer of no bytes that leaves things as they were.
LEMMA RespondNothing ==
  ASSUME NEW w, NEW a \in Nat, NEW n, Calm(w, a, n), w.b.pullIntos # <<>>,
         NEW q \in PullIntoSet, q.read = w.b.pullIntos[1].read, Len(q.data) = Len(w.b.pullIntos[1].data),
         q.filled = 0, w.b.pullIntos[1].filled = 0,
         NEW v, v = Put([w EXCEPT !.b.request = NoRequest], q)
  PROVE  Calm(v, a, n)
<1>0. WorldOK(w, a) /\ w \in WorldSet
  BY DEF Calm, WorldOK
<1>1. PICK b \in FieldSet, vs \in Seq(PullIntoSet) : b = w.b /\ vs = b.pullIntos /\ ViewsOK(vs, a) /\ vs # <<>>
  BY <1>0, WorldFields, FieldFields DEF WorldOK
<1>2. PICK f : f = [b EXCEPT !.request = NoRequest]
  OBVIOUS
<1>3. NoRequest \in RequestSet /\ NoRequest.live = FALSE
  BY DEF NoRequest, RequestSet
<1>4. /\ f \in FieldSet /\ f.queue = b.queue /\ f.queueTotalSize = b.queueTotalSize /\ f.state = b.state /\ f.reader = b.reader
      /\ f.requests = b.requests /\ f.pullIntos = b.pullIntos /\ f.request = NoRequest /\ f.auto = b.auto
      /\ f.pulling = b.pulling
  BY <1>2, <1>3 DEF FieldSet
<1>5. PICK u : u = [w EXCEPT !.b = f]
  OBVIOUS
<1>6. u = [w EXCEPT !.b.request = NoRequest]
  BY <1>0, <1>1, <1>2, <1>5 DEF WorldSet
<1>7. SameBytes(w, u) /\ u.b = f
  <2>1. RequestOK(f.request, f.pullIntos)
    BY <1>3, <1>4 DEF RequestOK
  <2>2. f.pulling = TRUE <=> w.pulls # "none"
    BY <1>0, <1>1, <1>4 DEF WorldOK
  <2>3. OtherFlags(w, f)
    BY <2>1, <2>2, <1>0, <1>1, <1>4 DEF OtherFlags
  <2> QED BY <2>3, <1>0, <1>5, FlagsSame
<1>8. Calm(u, a, n) /\ WorldOK(u, a)
  <2>1. Calm(u, a, n)
    BY <1>7, SameCalm
  <2> QED BY <2>1 DEF Calm
<1>9. u.b.pullIntos = vs
  BY <1>1, <1>4, <1>7
<1>10. vs[1] \in PullIntoSet /\ vs[1].filled < Len(vs[1].data)
  <2>1. 1 \in 1..Len(vs)
    BY <1>1
  <2> QED BY <2>1, <1>1 DEF ViewsOK
<1>11. Replaces(q, u)
  <2>1. q.filled < Len(q.data)
    BY <1>1, <1>10
  <2> QED BY <2>1, <1>1, <1>9 DEF Replaces
<1>12. Replaced(u, v, a, q)
  BY <1>6, <1>8, <1>11, PutKeeps
<1>13. Held(v.b.pullIntos) = Held(u.b.pullIntos)
  <2>1. Held(v.b.pullIntos) = <<>>
    BY <1>12, FilledNothing DEF Replaced
  <2>2. Held(vs) = <<>>
    BY <1>1, HeldBlank, SMTT(60)
  <2> QED BY <2>1, <2>2, <1>9
<1>14. OrderOK(v, a, n)
  BY <1>8, <1>12, <1>13 DEF Calm, OrderOK, KeptOf, Replaced, SameOpen
<1> QED BY <1>8, <1>12, <1>14 DEF Calm, Replaced, SameOpen

\* The first view written, then taken away: as if it had not been written.
PutPopped(w, q, y) ==
  /\ y = [w EXCEPT !.b.request = NoRequest, !.b.pullIntos[1] = q]
  /\ [y EXCEPT !.b.pullIntos = Tail(@)] = Pop(w)

LEMMA PutPop ==
  ASSUME NEW w \in WorldSet, w.b.pullIntos # <<>>, NEW q \in PullIntoSet,
         NEW y, y = Put([w EXCEPT !.b.request = NoRequest], q)
  PROVE  PutPopped(w, q, y)
<1>1. PICK b \in FieldSet : b = w.b
  BY WorldFields
<1>2. PICK s \in Seq(PullIntoSet) : s = b.pullIntos /\ s # <<>>
  BY <1>1, FieldFields
<1>3. PICK t : t = [s EXCEPT ![1] = q]
  OBVIOUS
<1>4. 1 \in 1..Len(s)
  BY <1>2
<1>5. t \in Seq(PullIntoSet) /\ Len(t) = Len(s) /\ \A i \in 1..Len(s) : i # 1 => t[i] = s[i]
  BY <1>3, <1>4, ExceptSeq
<1>6. t # <<>>
  BY <1>2, <1>5, EmptySeq
<1>7. PICK c \in Seq(PullIntoSet), d \in Seq(PullIntoSet) : c = Tail(s) /\ d = Tail(t)
  <2>1. Tail(s) \in Seq(PullIntoSet) /\ Tail(t) \in Seq(PullIntoSet)
    BY <1>2, <1>5, <1>6
  <2> QED BY <2>1
<1>8. c = d
  <2>1. Len(c) = Len(s) - 1 /\ \A i \in 1..(Len(s) - 1) : c[i] = s[i + 1]
    BY <1>2, <1>7
  <2>2. Len(d) = Len(s) - 1 /\ \A i \in 1..(Len(s) - 1) : d[i] = t[i + 1]
    BY <1>5, <1>6, <1>7
  <2>3. \A i \in 1..(Len(s) - 1) : c[i] = d[i]
    <3>1. SUFFICES ASSUME NEW i \in 1..(Len(s) - 1) PROVE s[i + 1] = t[i + 1]
      BY <2>1, <2>2
    <3>2. i + 1 \in 1..Len(s) /\ i + 1 # 1
      BY <1>4
    <3> QED BY <3>2, <1>5
  <2> QED BY <2>1, <2>2, <2>3, SeqEqual
<1>9. y = [w EXCEPT !.b = [b EXCEPT !.request = NoRequest, !.pullIntos = t]]
  BY <1>1, <1>2, <1>3 DEF Put, WorldSet, FieldSet
<1>10. [w EXCEPT !.b.request = NoRequest, !.b.pullIntos[1] = q]
       = [w EXCEPT !.b = [b EXCEPT !.request = NoRequest, !.pullIntos = t]]
  BY <1>1, <1>2, <1>3 DEF WorldSet, FieldSet
<1>11. [y EXCEPT !.b.pullIntos = Tail(@)] = [w EXCEPT !.b = [b EXCEPT !.request = NoRequest, !.pullIntos = d]]
  <2>1. PICK f : f = [b EXCEPT !.request = NoRequest, !.pullIntos = t]
    OBVIOUS
  <2>2. f.pullIntos = t /\ [f EXCEPT !.pullIntos = d] = [b EXCEPT !.request = NoRequest, !.pullIntos = d]
    BY <2>1 DEF FieldSet
  <2>3. y = [w EXCEPT !.b = f]
    BY <2>1, <1>9
  <2>4. y.b = f /\ [y EXCEPT !.b = [f EXCEPT !.pullIntos = d]] = [w EXCEPT !.b = [f EXCEPT !.pullIntos = d]]
    BY <2>3 DEF WorldSet
  <2>5. [y EXCEPT !.b.pullIntos = Tail(@)] = [y EXCEPT !.b = [y.b EXCEPT !.pullIntos = Tail(y.b.pullIntos)]]
    BY <2>3 DEF WorldSet
  <2>6. y.b.pullIntos = t /\ Tail(y.b.pullIntos) = d
    BY <2>2, <2>4, <1>7
  <2> QED BY <2>2, <2>4, <2>5, <2>6
<1>12. Pop(w) = [w EXCEPT !.b = [b EXCEPT !.pullIntos = c, !.request = NoRequest]]
  BY <1>1, <1>2, <1>7 DEF Pop, WorldSet, FieldSet
<1>13. [b EXCEPT !.pullIntos = c, !.request = NoRequest] = [b EXCEPT !.request = NoRequest, !.pullIntos = c]
  BY DEF FieldSet
<1>14. y = [w EXCEPT !.b.request = NoRequest, !.b.pullIntos[1] = q]
  BY <1>9, <1>10
<1>15. [y EXCEPT !.b.pullIntos = Tail(@)] = Pop(w)
  BY <1>8, <1>11, <1>12, <1>13
<1> QED BY <1>14, <1>15 DEF PutPopped

\* What Respond(n) makes of the fields.
Response(w, n, p, q) ==
  LET u == Pop(w)
      x == IF q.read = 0 THEN u ELSE Answers(u, q.read, "done", SubSeq(q.data, 1, q.filled))
  IN  IF n = 0 /\ w.b.closeRequested THEN IF x.b.pullIntos = <<>> THEN ByteFinishClose(x) ELSE x
      ELSE IF q.filled = 0 THEN Put([w EXCEPT !.b.request = NoRequest], q)
      ELSE IF q.filled > Len(q.data) THEN u ELSE Deliver(u, q)
ResponseLapses(w, n, p, q) ==
  (IF Misplaced(p) /\ q.filled > 0 THEN {"misplaced"} ELSE {})
  \union (IF n = 0 /\ w.b.closeRequested THEN {"dropped"} ELSE {})

LEMMA RespondIs ==
  ASSUME lapses = {}, NEW w, w = ByteWorld, w \in WorldSet, NEW n \in Nat, Respond(n), provided \in Nat,
         NEW p, p = Head(w.b.pullIntos), p \in PullIntoSet, NEW q, q = Responded(p, w.b.request, n, provided)
  PROVE  /\ ByteBecomes(Response(w, n, p, q))
         /\ lapses' = ResponseLapses(w, n, p, q) \union Overtaken(ByteWorld')
         /\ provided' = provided + n /\ asked' = asked
         /\ w.b.pullIntos # <<>> /\ w.b.request # NoRequest /\ n <= w.b.request.len
<1>1. w.b = bytes
  BY Zenon DEF ByteWorld
<1>2. w.b.pullIntos # <<>> /\ w.b.request # NoRequest /\ n <= w.b.request.len /\ provided' = provided + n /\ asked' = asked
  BY <1>1, Zenon DEF Respond
<1>3. w.b.request \in RequestSet
  BY WorldFields, FieldFields
<1>4. q \in PullIntoSet
  BY <1>3, RespondedIs
<1>5. PICK y : y = Put([w EXCEPT !.b.request = NoRequest], q)
  OBVIOUS
<1>6. y = [w EXCEPT !.b.request = NoRequest, !.b.pullIntos[1] = q] /\ [y EXCEPT !.b.pullIntos = Tail(@)] = Pop(w)
  <2>1. PutPopped(w, q, y)
    BY <1>2, <1>4, <1>5, PutPop
  <2> QED BY <2>1 DEF PutPopped
<1>7. PICK u : u = Pop(w)
  OBVIOUS
<1>8. q = [p EXCEPT !.filled = @ + n,
                    !.data = [i \in 1..Len(@) |-> IF bytes.request.live /\ i \in bytes.request.at + 1..bytes.request.at + n
                                                  THEN provided + i - bytes.request.at ELSE @[i]]]
  BY <1>1 DEF Responded
<1>9. /\ ByteBecomes(
           IF n = 0 /\ bytes.closeRequested THEN
             LET v == IF q.read = 0 THEN u
                      ELSE [u EXCEPT !.given[q.read] = Answer("done", SubSeq(q.data, 1, q.filled))]
             IN  IF v.b.pullIntos = <<>> THEN ByteFinishClose(v) ELSE v
           ELSE IF q.filled = 0 THEN y
           ELSE IF q.filled > Len(q.data) THEN u
           ELSE Deliver(u, q))
      /\ lapses' = lapses \union (IF Misplaced(p) /\ q.filled > 0 THEN {"misplaced"} ELSE {})
                    \union (IF n = 0 /\ bytes.closeRequested THEN {"dropped"} ELSE {})
                    \union Overtaken(ByteWorld')
  <2>1. p = Head(bytes.pullIntos)
    BY <1>1
  <2>2. y = [ByteWorld EXCEPT !.b.request = NoRequest, !.b.pullIntos[1] = q] /\ u = [y EXCEPT !.b.pullIntos = Tail(@)]
    BY <1>6, <1>7, Zenon
  <2> HIDE DEF Misplaced, Deliver
  <2>3. Respond(n) => (
      /\ ByteBecomes(
           IF n = 0 /\ bytes.closeRequested THEN
             LET v == IF q.read = 0 THEN u
                      ELSE [u EXCEPT !.given[q.read] = Answer("done", SubSeq(q.data, 1, q.filled))]
             IN  IF v.b.pullIntos = <<>> THEN ByteFinishClose(v) ELSE v
           ELSE IF q.filled = 0 THEN y
           ELSE IF q.filled > Len(q.data) THEN u
           ELSE Deliver(u, q))
      /\ lapses' = lapses \union (IF Misplaced(p) /\ q.filled > 0 THEN {"misplaced"} ELSE {})
                    \union (IF n = 0 /\ bytes.closeRequested THEN {"dropped"} ELSE {})
                    \union Overtaken(ByteWorld'))
    BY <2>1, <2>2, <1>8, ZenonT(60) DEF Respond
  <2> QED BY <2>3
<1>10. ByteBecomes(Response(w, n, p, q))
  BY <1>1, <1>5, <1>7, <1>9 DEF Response, Answers
<1>11. lapses' = ResponseLapses(w, n, p, q) \union Overtaken(ByteWorld')
  BY <1>1, <1>9 DEF ResponseLapses
<1> QED BY <1>2, <1>10, <1>11

\* What respond() leaves, case by case.
LEMMA ResponseLeaves ==
  ASSUME NEW w, w = ByteWorld, NEW a \in Nat, a <= MaxByteReads, NEW base \in Nat, Calm(w, a, base),
         w.b.pullIntos # <<>>, NEW n \in Nat, n <= w.b.request.len,
         NEW p, p = w.b.pullIntos[1], NEW q, q = Responded(p, w.b.request, n, base),
         NEW v, v = Response(w, n, p, q), NEW l, l = ResponseLapses(w, n, p, q)
  PROVE  Leaving(v, l, a, base + n)
<1>0. WorldOK(w, a) /\ InTurn(w) /\ WaitsOK(w) /\ w \in WorldSet
  BY DEF Calm, WorldOK
<1>1. PICK vs \in Seq(PullIntoSet), r \in RequestSet :
        vs = w.b.pullIntos /\ r = w.b.request /\ vs # <<>> /\ ViewsOK(vs, a) /\ RequestOK(r, vs)
  BY <1>0, WorldFields, FieldFields DEF WorldOK
<1>2. p \in PullIntoSet /\ p = vs[1] /\ p.filled < Len(p.data)
  <2>1. 1 \in 1..Len(vs)
    BY <1>1
  <2> QED BY <2>1, <1>1 DEF ViewsOK
<1>3. q \in PullIntoSet /\ q.read = p.read /\ Len(q.data) = Len(p.data) /\ q.filled = p.filled + n
  BY <1>1, <1>2, RespondedIs
<1>4. PICK f \in Nat, m \in Nat, len \in Nat, at \in Nat :
        f = p.filled /\ m = Len(p.data) /\ len = r.len /\ at = r.at /\ f < m /\ n <= len
  <2>1. PICK d \in Seq(Nat), f \in Nat : d = p.data /\ f = p.filled
    <3>1. p.filled \in Nat /\ p.data \in Seq(Nat)
      BY <1>2 DEF PullIntoSet
    <3> QED BY <3>1, Zenon
  <2>2. r.len \in Nat /\ r.at \in Nat
    BY DEF RequestSet
  <2>3. Len(d) \in Nat
    OBVIOUS
  <2>4. f < Len(d) /\ n <= r.len
    BY <2>1, <1>1, <1>2
  <2> QED BY <2>1, <2>2, <2>3, <2>4, Zenon
<1>5. q.filled = f + n /\ Len(q.data) = m
  BY <1>3, <1>4
<1>6. r.live \in BOOLEAN /\ bytes.request = r
  BY <1>1 DEF RequestSet, ByteWorld
<1>7. ~Misplaced(p) => r.live = TRUE /\ r.at = p.filled /\ f + n <= m
  <2>1. SUFFICES ASSUME ~Misplaced(p) PROVE r.live = TRUE /\ r.at = p.filled /\ f + n <= m
    OBVIOUS
  <2>2. r.live = TRUE /\ r.at = p.filled
    BY <2>1, <1>6 DEF Misplaced
  <2>3. len + at = m /\ at = f
    BY <2>2, <1>1, <1>2, <1>4 DEF RequestOK
  <2> QED BY <2>2, <2>3, <1>4
<1>8. l \subseteq {"misplaced", "dropped"} /\ ("misplaced" \in l <=> Misplaced(p) /\ q.filled > 0)
      /\ ("dropped" \in l <=> n = 0 /\ w.b.closeRequested)
  BY DEF ResponseLapses
<1>9. PICK u : u = Pop(w)
  OBVIOUS
<1>10. CASE n = 0 /\ w.b.closeRequested
  <2>1. PICK k : k = w.b.pullIntos[1].read
    OBVIOUS
  <2>2. q.filled <= Len(q.data)
    BY <1>4, <1>5, <1>10, SMTT(60)
  <2>3. SubSeq(q.data, 1, q.filled) \in Seq(Nat)
    BY <2>2, <1>3, FilledType DEF Filled
  <2>4. PICK data \in Seq(Nat) : data = SubSeq(q.data, 1, q.filled)
    BY <2>3
  <2>5. q.read = k
    BY <2>1, <1>3
  <2>6. v = EndResponse(w, k, data)
    BY <2>4, <2>5, <1>10 DEF Response, EndResponse
  <2>7. WorldOK(v, a) /\ WaitsOK(v) /\ InTurn(v)
    BY <2>1, <2>6, RespondEnds
  <2> QED BY <2>7, <1>8, <1>10 DEF Leaving
<1>11. CASE ~(n = 0 /\ w.b.closeRequested) /\ q.filled = 0
  <2>1. v = Put([w EXCEPT !.b.request = NoRequest], q)
    BY <1>11 DEF Response
  <2>2. f = 0 /\ n = 0
    BY <1>5, <1>11
  <2>3. w.b.pullIntos[1].filled = 0
    BY <2>2, <1>4
  <2>4. Calm(v, a, base)
    BY <2>1, <2>3, <1>3, <1>11, RespondNothing
  <2>5. base + n = base
    BY <2>2
  <2>6. Calm(v, a, base + n)
    BY <2>4, <2>5
  <2> QED BY <2>6, <1>8 DEF Leaving, Calm
<1>12. CASE ~(n = 0 /\ w.b.closeRequested) /\ q.filled # 0 /\ q.filled > Len(q.data)
  <2>1. v = u
    BY <1>9, <1>12 DEF Response
  <2>2. Misplaced(p)
    BY <1>5, <1>7, <1>12
  <2>3. q.filled > 0
    BY <1>5, <1>12
  <2>4. "misplaced" \in l
    BY <2>2, <2>3, <1>8
  <2>5. WorldOK(u, a) /\ InTurn(u)
    BY <1>0, <1>9, PopKeeps
  <2> QED BY <2>1, <2>4, <2>5, <1>8, SMTT(60) DEF Leaving
<1>13. CASE ~(n = 0 /\ w.b.closeRequested) /\ q.filled # 0 /\ ~(q.filled > Len(q.data))
  <2>1. v = Deliver(Pop(w), q)
    BY <1>9, <1>13 DEF Response
  <2>2. q.filled <= Len(q.data) /\ q.filled > 0 /\ f + n <= m
    BY <1>5, <1>13
  <2>3. Filled(q) \in Seq(Nat) /\ Len(Filled(q)) = q.filled
    BY <2>2, <1>3, FilledType
  <2>4. Filled(q) # <<>>
    BY <2>3, <1>13, EmptySeq
  <2>5. Fills(q, w)
    BY <2>3, <2>4, <1>3 DEF Fills
  <2>6. l = {} => Filled(q) = Then(Filled(w.b.pullIntos[1]), Numbers(base, n))
    <3>1. SUFFICES ASSUME l = {} PROVE Filled(q) = Then(Filled(p), Numbers(base, n))
      OBVIOUS
    <3>2. ~Misplaced(p)
      BY <3>1, <2>2, <1>8
    <3>3. r.live = TRUE /\ r.at = p.filled /\ p.filled + n <= Len(p.data)
      BY <3>2, <1>4, <1>7
    <3>4. InPlace(p, r, n) /\ q = Responded(p, r, n, base)
      BY <3>3, <1>1 DEF InPlace
    <3> QED BY <3>4, <1>2, RespondedFills
  <2> QED BY <2>1, <2>5, <2>6, <1>8, DeliverLeaves, SMTT(60)
<1> QED BY <1>10, <1>11, <1>12, <1>13

LEMMA RespondStep == ByteInv /\ lapses = {} /\ (\E n \in 0..MaxBytes : Respond(n)) => ByteInv'
<1>1. SUFFICES ASSUME ByteInv, lapses = {}, NEW n \in 0..MaxBytes, Respond(n) PROVE ByteInv'
  OBVIOUS
<1>2. Calm(ByteWorld, asked, provided) /\ asked \in Nat /\ asked <= MaxByteReads /\ provided \in Nat
      /\ MaxByteReads \in Nat /\ WorldOK(ByteWorld, asked) /\ ByteWorld \in WorldSet /\ ByteWorld.b = bytes
  BY <1>1, StartsCalm
<1>3. PICK w : w = ByteWorld
  OBVIOUS
<1>n. n \in Nat
  OBVIOUS
<1>4. PICK p \in PullIntoSet : p = Head(w.b.pullIntos) /\ p = w.b.pullIntos[1] /\ w.b.pullIntos # <<>>
  <2>1. w.b.pullIntos \in Seq(PullIntoSet) /\ w.b.pullIntos # <<>>
    BY <1>1, <1>2, <1>3, WorldFields, FieldFields, Zenon DEF Respond
  <2>2. PICK vs \in Seq(PullIntoSet) : vs = w.b.pullIntos /\ vs # <<>>
    BY <2>1
  <2>3. Head(vs) \in PullIntoSet /\ Head(vs) = vs[1]
    BY <2>2
  <2> QED BY <2>2, <2>3, Zenon
<1>5. PICK q : q = Responded(p, w.b.request, n, provided)
  OBVIOUS
<1>6. PICK v : v = Response(w, n, p, q)
  OBVIOUS
<1>7. PICK l : l = ResponseLapses(w, n, p, q)
  OBVIOUS
<1>8. ByteBecomes(v) /\ lapses' = l \union Overtaken(ByteWorld') /\ provided' = provided + n /\ asked' = asked
      /\ w.b.pullIntos # <<>> /\ n <= w.b.request.len
  <2>1. w \in WorldSet
    BY <1>2, <1>3
  <2> QED BY <2>1, <1>1, <1>2, <1>3, <1>n, <1>4, <1>5, <1>6, <1>7, RespondIs
<1>9. Leaving(v, l, asked, provided + n)
  BY <1>2, <1>3, <1>4, <1>5, <1>6, <1>7, <1>8, <1>n, ResponseLeaves
<1>10. Leaving(v, l, asked', provided') /\ asked' \in 0..MaxByteReads /\ provided' \in Nat
  BY <1>2, <1>8, <1>9, <1>n
<1> QED BY <1>8, <1>10, RespondDone

-----------------------------------------------------------------------------
(***************************************************************************)
(* What has been answered stands: a method answers the reads that wait,    *)
(* and makes none wait that did not.                                       *)
(***************************************************************************)
Awaits(k, w) == InSeq(k, w.b.requests) \/ HasView(k, w.b.pullIntos)
Spares(w, v) == \A k \in ByteReads : ~Awaits(k, w) => v.given[k] = w.given[k] /\ ~Awaits(k, v)

LEMMA SparesThen ==
  ASSUME NEW w, NEW u, NEW v, Spares(w, u), Spares(u, v) PROVE Spares(w, v)
BY DEF Spares

\* Nothing is answered, and who waits is the same.
SameReads(w, v) == v.given = w.given /\ v.b.requests = w.b.requests /\ v.b.pullIntos = w.b.pullIntos
LEMMA SparesSame ==
  ASSUME NEW w, NEW v, SameReads(w, v) PROVE Spares(w, v)
BY DEF Spares, SameReads, Awaits

\* Some wait no more, none is answered.
LEMMA SparesLess ==
  ASSUME NEW w, NEW v, v.given = w.given,
         \A k \in ByteReads : InSeq(k, v.b.requests) => InSeq(k, w.b.requests),
         \A k \in ByteReads : HasView(k, v.b.pullIntos) => HasView(k, w.b.pullIntos)
  PROVE  Spares(w, v)
BY DEF Spares, Awaits

\* What is in the rest of a sequence is in it, and so is its head.
LEMMA TailIn ==
  ASSUME NEW T, NEW s \in Seq(T), s # <<>>
  PROVE  /\ InSeq(Head(s), s) /\ HasView(Head(s).read, s)
         /\ \A k : (InSeq(k, Tail(s)) => InSeq(k, s)) /\ (HasView(k, Tail(s)) => HasView(k, s))
<1>1. Head(s) = s[1] /\ 1 \in 1..Len(s)
  OBVIOUS
<1>2. \A j \in 1..Len(Tail(s)) : j + 1 \in 1..Len(s) /\ Tail(s)[j] = s[j + 1]
  <2>1. Len(Tail(s)) = Len(s) - 1
    OBVIOUS
  <2> QED BY <2>1
<1> QED BY <1>1, <1>2, Zenon DEF InSeq, HasView

LEMMA SparesCall ==
  ASSUME NEW w \in WorldSet, NEW v, v = CallBytePullIfNeeded(w) PROVE Spares(w, v)
<1>1. Calls(w, v)
  BY CallIs
<1>2. v.given = w.given /\ v.b.requests = w.b.requests
  BY <1>1 DEF Calls, SameRest
<1>3. CASE v.b.pullIntos = w.b.pullIntos
  BY <1>2, <1>3, SparesSame DEF SameReads
<1>4. CASE v.b.pullIntos = <<PullInto(0, w.b.auto)>>
  <2>1. ASSUME NEW k \in ByteReads PROVE ~HasView(k, v.b.pullIntos)
    <3>1. Len(v.b.pullIntos) = 1 /\ v.b.pullIntos[1] = PullInto(0, w.b.auto)
      BY <1>4
    <3>2. PullInto(0, w.b.auto).read = 0
      BY DEF PullInto
    <3>3. k # 0
      BY DEF ByteReads
    <3> QED BY <3>1, <3>2, <3>3 DEF HasView
  <2> QED BY <2>1, <1>2, SparesLess
<1> QED BY <1>1, <1>3, <1>4 DEF Calls

\* Only a read that waits is answered.
LEMMA SparesAnswer ==
  ASSUME NEW w \in WorldSet, NEW k \in ByteReads, Awaits(k, w), NEW u \in WorldSet, Spares(w, u),
         NEW st \in {"value", "done"}, NEW data \in Seq(Nat), NEW v, v = Answers(u, k, st, data)
  PROVE  Spares(w, v)
<1>1. st \in {"none", "pending", "value", "done", "rejected"}
  OBVIOUS
<1>2. OnlyAnswer(u, k, st, data, v)
  BY <1>1, AnswersIs
<1>3. v.b = u.b /\ \A j \in ByteReads : j # k => v.given[j] = u.given[j]
  BY <1>2 DEF OnlyAnswer
<1>4. \A j \in ByteReads : ~Awaits(j, w) => j # k
  OBVIOUS
<1> QED BY <1>3, <1>4 DEF Spares, Awaits

LEMMA SparesHand ==
  ASSUME NEW w \in WorldSet, NEW data \in Seq(Nat), NEW v, v = HandOrQueue(w, data) PROVE Spares(w, v)
<1>1. CASE w.b.requests = <<>>
  <2>1. v = ToQueue(w, data)
    BY <1>1 DEF HandOrQueue
  <2>2. SameReads(w, v)
    BY <2>1, ToQueueIs DEF SameReads
  <2> QED BY <2>2, SparesSame
<1>2. CASE w.b.requests # <<>>
  <2>1. PICK s \in Seq(ByteReads) : s = w.b.requests /\ s # <<>>
    BY <1>2, WorldFields, FieldFields
  <2>2. PICK k \in ByteReads : k = Head(s)
    BY <2>1
  <2>3. PICK u : u = PopRead(w)
    OBVIOUS
  <2>4. u \in WorldSet /\ u.given = w.given /\ u.b.requests = Tail(s) /\ u.b.pullIntos = w.b.pullIntos
    BY <1>2, <2>1, <2>3, PopReadIs DEF SameFlags
  <2>5. InSeq(k, s) /\ \A i : InSeq(i, Tail(s)) => InSeq(i, s)
    BY <2>1, <2>2, TailIn
  <2>6. Spares(w, u)
    BY <2>1, <2>4, <2>5, SparesLess
  <2>7. Awaits(k, w)
    BY <2>1, <2>5 DEF Awaits
  <2>8. v = Answers(u, k, "value", data)
    BY <1>2, <2>1, <2>2, <2>3, HandIs
  <2> QED BY <2>4, <2>6, <2>7, <2>8, SparesAnswer
<1> QED BY <1>1, <1>2

\* The view in front is gone, and answered or not.
LEMMA SparesPop ==
  ASSUME NEW w \in WorldSet, w.b.pullIntos # <<>>, NEW v, v = Pop(w)
  PROVE  v \in WorldSet /\ Spares(w, v) /\ HasView(w.b.pullIntos[1].read, w.b.pullIntos)
<1>1. PICK s \in Seq(PullIntoSet) : s = w.b.pullIntos /\ s # <<>>
  BY WorldFields, FieldFields
<1>2. v \in WorldSet /\ v.given = w.given /\ v.b.requests = w.b.requests /\ v.b.pullIntos = Tail(s)
  BY <1>1, PopIs DEF SameFlags
<1>3. HasView(Head(s).read, s) /\ Head(s) = s[1] /\ \A k : HasView(k, Tail(s)) => HasView(k, s)
  BY <1>1, TailIn
<1> QED BY <1>1, <1>2, <1>3, SparesLess

LEMMA SparesDeliver ==
  ASSUME NEW w, NEW a \in Nat, a <= MaxByteReads, WorldOK(w, a), NEW p, Fills(p, w), NEW v, v = Deliver(Pop(w), p)
  PROVE  Spares(w, v)
<1>1. w \in WorldSet /\ ViewsOK(w.b.pullIntos, a) /\ w.b.pullIntos \in Seq(PullIntoSet)
  BY WorldFields, FieldFields DEF WorldOK
<1>2. PICK x \in Seq(Nat) : x = Filled(p)
  BY DEF Fills
<1>3. PICK u : u = Pop(w)
  OBVIOUS
<1>4. u \in WorldSet /\ Spares(w, u) /\ HasView(p.read, w.b.pullIntos) /\ w.b.pullIntos # <<>>
  BY <1>1, <1>3, SparesPop DEF Fills
<1>5. CASE p.read = 0
  <2>1. v = HandOrQueue(u, x)
    BY <1>2, <1>3, <1>5 DEF Deliver, Filled
  <2> QED BY <2>1, <1>4, SparesHand, SparesThen
<1>6. CASE p.read # 0
  <2>1. PICK k \in ByteReads : k = p.read
    <3>1. 1 \in 1..Len(w.b.pullIntos)
      BY <1>1, <1>4
    <3>2. p.read \in 0..a
      BY <3>1, <1>1 DEF Fills, ViewsOK
    <3>3. MaxByteReads \in Nat
      BY ByteAssumption
    <3> QED BY <3>2, <3>3, <1>6 DEF ByteReads
  <2>2. v = Answers(u, k, "value", x)
    BY <1>2, <1>3, <1>6, <2>1 DEF Deliver, Filled, Answers
  <2>3. Awaits(k, w)
    BY <1>4, <2>1 DEF Awaits
  <2> QED BY <2>2, <2>3, <1>1, <1>4, SparesAnswer
<1> QED BY <1>5, <1>6

\* The view in front is replaced by one of the same read.
LEMMA SparesPut ==
  ASSUME NEW w \in WorldSet, w.b.pullIntos # <<>>, NEW q \in PullIntoSet, q.read = w.b.pullIntos[1].read,
         NEW v, v = Put(w, q)
  PROVE  Spares(w, v)
<1>1. /\ v.given = w.given /\ v.b.requests = w.b.requests
      /\ Len(v.b.pullIntos) = Len(w.b.pullIntos) /\ v.b.pullIntos[1] = q
      /\ \A j \in 1..Len(w.b.pullIntos) : j # 1 => v.b.pullIntos[j] = w.b.pullIntos[j]
  BY PutIs
<1>2. \A j \in 1..Len(w.b.pullIntos) : v.b.pullIntos[j].read = w.b.pullIntos[j].read
  BY <1>1
<1>3. \A k \in ByteReads : HasView(k, v.b.pullIntos) => HasView(k, w.b.pullIntos)
  BY <1>1, <1>2 DEF HasView
<1> QED BY <1>1, <1>3, SparesLess

\* A turn of _fillPendingFromBytes, and all of them.
LEMMA SparesTurn ==
  ASSUME NEW s, NEW a \in Nat, a <= MaxByteReads, NEW n, Turning(s, a, n), NEW t, t = FillFirst(s)
  PROVE  Spares(s.w, t.w)
<1>1. CASE s.data = <<>> \/ s.w.b.pullIntos = <<>>
  <2>1. t = s
    BY <1>1, Zenon DEF FillFirst
  <2> QED BY <2>1, SparesSame DEF SameReads
<1>2. CASE s.data # <<>> /\ s.w.b.pullIntos # <<>>
  <2>1. PICK w : w = s.w /\ WorldOK(w, a) /\ w \in WorldSet
    BY DEF Turning, WorldOK
  <2>2. PICK x \in Seq(Nat) : x = s.data /\ x # <<>>
    BY <1>2 DEF Turning
  <2>3. PICK vs \in Seq(PullIntoSet) : vs = w.b.pullIntos /\ vs # <<>> /\ ViewsOK(vs, a)
    BY <1>2, <2>1, WorldFields, FieldFields DEF WorldOK
  <2>4. PICK p \in PullIntoSet : p = Head(vs) /\ p = vs[1]
    BY <2>3
  <2>5. PICK f \in Nat, m \in Nat : f = p.filled /\ m = Len(p.data) /\ f < m
    <3>1. p.filled \in Nat /\ p.data \in Seq(Nat)
      BY DEF PullIntoSet
    <3>2. 1 \in 1..Len(vs)
      BY <2>3
    <3>3. p.filled < Len(p.data)
      BY <3>2, <2>3, <2>4 DEF ViewsOK
    <3> QED BY <3>1, <3>3
  <2>6. PICK k \in Nat : k = Least(m - f, Len(x)) /\ k <= m - f /\ k <= Len(x) /\ (k = m - f \/ k = Len(x))
    <3>1. PICK u \in Nat, z \in Nat : u = m - f /\ z = Len(x)
      BY <2>5
    <3>2. Least(u, z) \in Nat /\ Least(u, z) <= u /\ Least(u, z) <= z /\ (Least(u, z) = u \/ Least(u, z) = z)
      BY LeastIs
    <3> QED BY <3>1, <3>2
  <2>7. PICK q : q = Written(p, x, k)
    OBVIOUS
  <2>8. /\ q \in PullIntoSet /\ q.read = p.read /\ Filled(q) \in Seq(Nat) /\ Len(Filled(q)) = f + k
    <3>1. k <= Len(x) /\ p.filled + k <= Len(p.data)
      BY <2>5, <2>6, SMTT(60)
    <3> QED BY <3>1, <2>5, <2>7, WrittenIs, SMTT(60)
  <2>9. t.w = IF q.filled < Len(q.data) THEN Put(w, q) ELSE Deliver(Pop(w), q)
    <3>1. p = Head(s.w.b.pullIntos) /\ k = Least(Len(p.data) - p.filled, Len(s.data)) /\ q = Written(p, s.data, k)
      BY <2>1, <2>2, <2>3, <2>4, <2>5, <2>6, <2>7, ZenonT(60)
    <3>2. FirstTurn(s, t, k, q)
      BY <3>1, <1>2, FillFirstIs
    <3> QED BY <3>2, <2>1, <2>2, Zenon DEF FirstTurn
  <2>10. CASE q.filled < Len(q.data)
    <3>1. t.w = Put(w, q) /\ q.read = w.b.pullIntos[1].read
      BY <2>3, <2>4, <2>8, <2>9, <2>10
    <3> QED BY <3>1, <2>1, <2>3, <2>8, SparesPut
  <2>11. CASE ~(q.filled < Len(q.data))
    <3>1. f + k # 0
      <4>1. Len(x) # 0
        BY <2>2, EmptySeq
      <4> QED BY <4>1, <2>5, <2>6
    <3>2. Filled(q) # <<>>
      BY <3>1, <2>8, EmptySeq
    <3>3. Fills(q, w)
      BY <3>2, <2>3, <2>4, <2>8 DEF Fills
    <3>4. t.w = Deliver(Pop(w), q)
      BY <2>9, <2>11
    <3> QED BY <3>3, <3>4, <2>1, SparesDeliver
  <2> QED BY <2>10, <2>11
<1> QED BY <1>1, <1>2

LEMMA SparesFill ==
  ASSUME NEW w, NEW a \in Nat, a <= MaxByteReads, NEW n \in Nat, NEW x, Open(w, a, n, x),
         w.b.pullIntos # <<>>, NEW v, v = FillPending(w, x)
  PROVE  Spares(w, v)
<1>0. w \in WorldSet
  BY DEF Open, WorldOK
<1>1. w.b.pullIntos \in Seq(PullIntoSet)
  BY <1>0, WorldFields, FieldFields
<1>2. PICK m \in Nat : m = Len(w.b.pullIntos) /\ m # 0
  BY <1>1
<1>3. PICK c : TurnsTo(c, w, x, m) /\ v = Leaves(c[m])
  BY <1>2, TurnsSolved
<1> DEFINE Good(k) == k <= m => Turning(c[k], a, n) /\ Spares(w, c[k].w)
<1> DEFINE E == {k \in Nat : Good(k)}
<1>4. 0 \in E
  <2>1. c[0] = [w |-> w, data |-> x]
    BY <1>3 DEF TurnsTo
  <2>2. c[0].w = w /\ c[0].data = x
    BY <2>1
  <2>3. w.b.auto = 0 => w.b.requests = <<>>
    <3>1. SUFFICES ASSUME w.b.auto = 0 PROVE w.b.requests = <<>>
      OBVIOUS
    <3>2. 1 \in 1..Len(w.b.pullIntos)
      BY <1>2
    <3>3. w.b.pullIntos[1].read # 0
      BY <3>1, <3>2 DEF Open, WorldOK, LockOK
    <3> QED BY <3>2, <3>3 DEF Open, WorldOK, LockOK
  <2>4. Turning(c[0], a, n)
    BY <2>2, <2>3 DEF Open, Turning
  <2>5. Spares(w, c[0].w)
    BY <2>2, SparesSame DEF SameReads
  <2> QED BY <2>4, <2>5
<1>5. ASSUME NEW k \in E PROVE k + 1 \in E
  <2> HIDE DEF Good
  <2>0. k \in Nat /\ Good(k)
    BY <1>5
  <2>a. SUFFICES Good(k + 1)
    BY <2>0
  <2>1. SUFFICES ASSUME k + 1 <= m PROVE Turning(c[k + 1], a, n) /\ Spares(w, c[k + 1].w)
    BY DEF Good
  <2>2. k <= m /\ k + 1 \in 1..m /\ (k + 1) - 1 = k
    BY <2>0, <2>1
  <2>3. PICK s, t : s = c[k] /\ t = c[k + 1] /\ t = FillFirst(s)
    BY <2>2, <1>3 DEF TurnsTo
  <2>4. Turning(s, a, n) /\ Spares(w, s.w)
    BY <2>0, <2>2, <2>3 DEF Good
  <2>5. Turning(t, a, n)
    BY <2>3, <2>4, TurnKeeps, Zenon
  <2>6. Spares(w, t.w)
    BY <2>3, <2>4, SparesTurn, SparesThen
  <2> QED BY <2>3, <2>5, <2>6
<1>6. E = Nat
  <2> HIDE DEF E
  <2>1. E \in SUBSET Nat BY DEF E
  <2> QED BY <1>4, <1>5, <2>1, SetInduction
<1>7. PICK s : s = c[m] /\ Turning(s, a, n) /\ Spares(w, s.w)
  <2>1. m \in E
    BY <1>6
  <2> QED BY <2>1
<1>8. v = s.w \/ v = ToQueue(s.w, s.data)
  BY <1>3, <1>7 DEF Leaves
<1>9. CASE v = ToQueue(s.w, s.data)
  <2>1. s.w \in WorldSet /\ s.data \in Seq(Nat)
    BY <1>7 DEF Turning, WorldOK
  <2>2. SameReads(s.w, v)
    BY <2>1, <1>9, ToQueueIs DEF SameReads
  <2> QED BY <2>2, <1>7, SparesSame, SparesThen
<1> QED BY <1>7, <1>8, <1>9

LEMMA SparesTake ==
  ASSUME NEW w, NEW a \in Nat, a <= MaxByteReads, NEW n \in Nat, NEW x, Open(w, a, n, x), NEW v, v = Take(w, x)
  PROVE  Spares(w, v)
<1>1. CASE w.b.pullIntos # <<>>
  BY <1>1, SparesFill DEF Take
<1>2. CASE w.b.pullIntos = <<>>
  <2>1. v = HandOrQueue(w, x)
    BY <1>2 DEF Take
  <2>2. w \in WorldSet /\ x \in Seq(Nat)
    BY DEF Open, WorldOK
  <2> QED BY <2>1, <2>2, SparesHand
<1> QED BY <1>1, <1>2

\* The end answers the reads that wait, each once.
LEMMA SparesEnded ==
  ASSUME NEW u, NEW v, NEW st, NEW how, Ended(u, v, st, how) PROVE Spares(u, v)
<1>1. v.b.requests = <<>> /\ v.b.pullIntos = <<>> /\ Len(<<>>) = 0 /\ Answered(u, v.given, st)
  BY DEF Ended
<1>2. \A k \in ByteReads : ~Awaits(k, v)
  BY <1>1 DEF Awaits, InSeq, HasView
<1> QED BY <1>1, <1>2 DEF Spares, Awaits, Answered

LEMMA SparesEnd ==
  ASSUME NEW w, NEW a, NEW s \in {"closed", "errored"}, WorldOK(w, a), NEW u, Turned(w, u, s),
         NEW st \in {"done", "rejected"}, NEW how \in {"resolved", "rejected"},
         NEW v, v = AnswerPullIntos(SettleClosed(AnswerRequests(u, st), how), st)
  PROVE  Spares(w, v)
<1>1. u \in WorldSet /\ u.b.reader = w.b.reader /\ u.b.pullIntos = w.b.pullIntos /\ u.holders = w.holders
      /\ SameReads(w, u)
  BY DEF Turned, SameReader, SameReads
<1>2. u.b.reader \in 0..Len(u.holders)
  BY <1>1 DEF WorldOK, LockOK
<1>3. \A j \in 1..Len(u.b.pullIntos) : u.b.pullIntos[j].filled <= Len(u.b.pullIntos[j].data)
  <2>1. u.b.pullIntos \in Seq(PullIntoSet)
    BY <1>1, WorldFields, FieldFields
  <2>2. ViewsOK(u.b.pullIntos, a)
    BY <1>1 DEF WorldOK
  <2> QED BY <2>1, <2>2, ViewsWithin
<1>4. Ended(u, v, st, how)
  BY <1>1, <1>2, <1>3, EndIs
<1> QED BY <1>1, <1>4, SparesEnded, SparesSame, SparesThen

LEMMA SparesError ==
  ASSUME NEW w, NEW a, WorldOK(w, a), NEW v, v = ByteError(w) PROVE Spares(w, v)
<1>1. CASE w.b.state # "readable"
  <2>1. v = w
    BY <1>1, ByteErrorAgain
  <2> QED BY <2>1, SparesSame DEF SameReads
<1>2. CASE w.b.state = "readable"
  <2>1. w \in WorldSet
    BY DEF WorldOK
  <2>2. PICK u : u = [NoBytes(w) EXCEPT !.b.state = "errored"]
    OBVIOUS
  <2>3. Turned(w, u, "errored")
    BY <2>1, <2>2, TurnedIs
  <2>4. v = AnswerPullIntos(SettleClosed(AnswerRequests(u, "rejected"), "rejected"), "rejected")
    BY <1>2, <2>2 DEF ByteError
  <2> QED BY <2>3, <2>4, SparesEnd
<1> QED BY <1>1, <1>2

LEMMA SparesFinish ==
  ASSUME NEW w, NEW a, WorldOK(w, a), NEW v, v = ByteFinishClose(w) PROVE Spares(w, v)
<1>1. w \in WorldSet
  BY DEF WorldOK
<1>2. PICK u : u = [w EXCEPT !.b.state = "closed"]
  OBVIOUS
<1>3. Turned(w, u, "closed")
  BY <1>1, <1>2, TurnedIs
<1>4. v = AnswerPullIntos(SettleClosed(AnswerRequests(u, "done"), "resolved"), "done")
  BY <1>2 DEF ByteFinishClose
<1> QED BY <1>3, <1>4, SparesEnd

LEMMA SparesCancel ==
  ASSUME NEW w, NEW a, WorldOK(w, a),
         NEW v, v = AnswerPullIntos(SettleClosed(AnswerRequests(
                      [NoBytes(w) EXCEPT !.b.state = "closed"], "done"), "resolved"), "done")
  PROVE  Spares(w, v)
<1>1. w \in WorldSet
  BY DEF WorldOK
<1>2. PICK u : u = [NoBytes(w) EXCEPT !.b.state = "closed"]
  OBVIOUS
<1>3. Turned(w, u, "closed")
  BY <1>1, <1>2, TurnedIs
<1>4. v = AnswerPullIntos(SettleClosed(AnswerRequests(u, "done"), "resolved"), "done")
  BY <1>2
<1> QED BY <1>3, <1>4, SparesEnd

LEMMA SparesReject ==
  ASSUME NEW w, NEW v, Rejects(w, v) PROVE Spares(w, v)
<1>1. \A k \in ByteReads : ~Awaits(k, v)
  <2>1. v.b.requests = <<>> /\ \A j \in 1..Len(v.b.pullIntos) : v.b.pullIntos[j].read = 0
    BY DEF Rejects, Nobody
  <2>2. Len(<<>>) = 0
    OBVIOUS
  <2>3. \A k \in ByteReads : k # 0
    BY DEF ByteReads
  <2> QED BY <2>1, <2>2, <2>3 DEF Awaits, InSeq, HasView
<1>2. \A k \in ByteReads : ~Awaits(k, w) => v.given[k] = w.given[k]
  BY DEF Rejects, Awaits
<1> QED BY <1>1, <1>2 DEF Spares

LEMMA SparesDismiss ==
  ASSUME NEW w, NEW a, WorldOK(w, a), WaitsOK(w), w.b.reader # 0, NEW v, v = Dismiss(w) PROVE Spares(w, v)
<1>1. Kind(w) = w.holders[w.b.reader].kind
  BY DEF Kind
<1>2. CASE Kind(w) = "default"
  <2>1. v = AnswerRequests(w, "rejected")
    BY <1>2 DEF Dismiss
  <2> QED BY <2>1, <1>1, <1>2, RequestsRejected, SparesReject
<1>3. CASE Kind(w) # "default"
  <2>1. PICK u : u = AnswerPullIntos(w, "rejected")
    OBVIOUS
  <2>2. Rejects(w, u)
    BY <2>1, <1>1, <1>3, ViewsRejected
  <2>3. v = u \/ v = ByteError(u)
    BY <1>3, <2>1 DEF Dismiss, ReleasePullIntos
  <2>4. WorldOK(u, a)
    BY <2>2, RejectsKeep
  <2> QED BY <2>2, <2>3, <2>4, SparesReject, SparesError, SparesThen
<1> QED BY <1>2, <1>3

\* respond(), case by case.
LEMMA SparesRespond ==
  ASSUME NEW w, NEW a \in Nat, a <= MaxByteReads, WorldOK(w, a), WaitsOK(w), w.b.pullIntos # <<>>, NEW n \in Nat,
         NEW p, p = w.b.pullIntos[1], NEW base \in Nat, NEW q, q = Responded(p, w.b.request, n, base),
         NEW v, v = Response(w, n, p, q)
  PROVE  Spares(w, v)
<1>0. w \in WorldSet
  BY DEF WorldOK
<1>1. PICK vs \in Seq(PullIntoSet) :
        vs = w.b.pullIntos /\ vs # <<>> /\ ViewsOK(vs, a) /\ w.b.request \in RequestSet
  BY <1>0, WorldFields, FieldFields DEF WorldOK
<1>2. p \in PullIntoSet /\ p = vs[1] /\ p.filled < Len(p.data)
  <2>1. 1 \in 1..Len(vs)
    BY <1>1
  <2> QED BY <2>1, <1>1 DEF ViewsOK
<1>3. q \in PullIntoSet /\ q.read = p.read /\ Len(q.data) = Len(p.data) /\ q.filled = p.filled + n
  BY <1>1, <1>2, RespondedIs
<1>4. PICK u : u = Pop(w)
  OBVIOUS
<1>5. u \in WorldSet /\ Spares(w, u) /\ HasView(q.read, w.b.pullIntos)
  BY <1>0, <1>3, <1>4, SparesPop
<1>6. CASE n = 0 /\ w.b.closeRequested
  <2>1. PICK x : x = IF q.read = 0 THEN u ELSE Answers(u, q.read, "done", SubSeq(q.data, 1, q.filled))
    BY SMTT(60)
  <2>2. v = IF x.b.pullIntos = <<>> THEN ByteFinishClose(x) ELSE x
    BY <1>4, <1>6, <2>1 DEF Response
  <2>3. q.filled <= Len(q.data)
    <3>1. p.filled \in Nat /\ p.data \in Seq(Nat)
      BY <1>2 DEF PullIntoSet
    <3>2. Len(p.data) \in Nat
      <4>1. PICK d \in Seq(Nat) : d = p.data
        BY <3>1, Zenon
      <4>2. Len(d) \in Nat
        OBVIOUS
      <4> QED BY <4>1, <4>2, Zenon
    <3>3. PICK f \in Nat, m \in Nat : f = p.filled /\ m = Len(p.data)
      BY <3>1, <3>2, Zenon
    <3>4. f < m
      BY <3>3, <1>2, Zenon
    <3>5. q.filled = f + n /\ Len(q.data) = m
      BY <3>3, <1>3, Zenon
    <3>6. f + n <= m
      BY <3>4, <1>6
    <3> QED BY <3>5, <3>6, Zenon
  <2>4. PICK data \in Seq(Nat) : data = SubSeq(q.data, 1, q.filled)
    BY <2>3, <1>3, FilledType DEF Filled
  <2>5. WorldOK(u, a)
    BY <1>4, PopKeeps
  <2>6. Spares(w, x) /\ WorldOK(x, a)
    <3>1. CASE q.read = 0
      BY <3>1, <2>1, <2>5, <1>5
    <3>2. CASE q.read # 0
      <4>1. PICK k : k = q.read /\ k # 0
        BY <3>2
      <4>2. Longest(w, k, a)
        BY <4>1, <1>3, <1>4, LongestView
      <4>3. k \in ByteReads /\ k <= a
        BY <4>2, SMTT(60) DEF Longest
      <4>4. x = Answers(u, k, "done", data)
        BY <4>1, <2>1, <2>4
      <4>5. Awaits(k, w)
        BY <4>1, <1>5 DEF Awaits
      <4>6. Spares(w, x)
        BY <4>3, <4>4, <4>5, <1>0, <1>5, SparesAnswer
      <4>7. WorldOK(x, a)
        <5>1. "done" \in {"value", "done", "rejected"}
          OBVIOUS
        <5> QED BY <5>1, <4>3, <4>4, <2>5, AnswersKeeps
      <4> QED BY <4>6, <4>7
    <3> QED BY <3>1, <3>2
  <2>7. v = x \/ v = ByteFinishClose(x)
    BY <2>2
  <2> QED BY <2>6, <2>7, SparesFinish, SparesThen
<1>7. CASE ~(n = 0 /\ w.b.closeRequested) /\ q.filled = 0
  <2>1. PICK x : x = [w EXCEPT !.b.request = NoRequest]
    OBVIOUS
  <2>2. v = Put(x, q)
    BY <1>7, <2>1 DEF Response
  <2>3. x \in WorldSet /\ SameReads(w, x)
    <3>1. PICK b \in FieldSet, r \in RequestSet : b = w.b /\ r = NoRequest
      <4>1. NoRequest \in RequestSet
        BY DEF NoRequest, RequestSet
      <4> QED BY <4>1, <1>0, WorldFields
    <3>2. PICK c : c = [b EXCEPT !.request = r]
      OBVIOUS
    <3>3. c \in FieldSet /\ c.requests = b.requests /\ c.pullIntos = b.pullIntos
      BY <3>2 DEF FieldSet
    <3>4. x = [w EXCEPT !.b = c]
      BY <2>1, <3>1, <3>2, <1>0 DEF WorldSet
    <3>5. x \in WorldSet /\ x.b = c /\ x.given = w.given
      BY <3>3, <3>4, <1>0 DEF WorldSet
    <3> QED BY <3>1, <3>3, <3>5 DEF SameReads
  <2>4. x.b.pullIntos # <<>> /\ q.read = x.b.pullIntos[1].read
    BY <2>3, <1>3 DEF SameReads
  <2>5. Spares(x, v)
    BY <2>2, <2>3, <2>4, <1>3, SparesPut
  <2> QED BY <2>3, <2>5, SparesSame, SparesThen
<1>8. CASE ~(n = 0 /\ w.b.closeRequested) /\ q.filled # 0 /\ q.filled > Len(q.data)
  <2>1. v = u
    BY <1>4, <1>8 DEF Response
  <2> QED BY <2>1, <1>5
<1>9. CASE ~(n = 0 /\ w.b.closeRequested) /\ q.filled # 0 /\ ~(q.filled > Len(q.data))
  <2>1. v = Deliver(Pop(w), q)
    BY <1>4, <1>9 DEF Response
  <2>2. Filled(q) \in Seq(Nat) /\ Filled(q) # <<>>
    <3>1. q.filled \in Nat /\ q.data \in Seq(Nat)
      BY <1>3 DEF PullIntoSet
    <3>2. Len(q.data) \in Nat
      BY <3>1
    <3>3. q.filled <= Len(q.data)
      BY <3>1, <3>2, <1>9
    <3>4. Filled(q) \in Seq(Nat) /\ Len(Filled(q)) = q.filled
      BY <3>3, <1>3, FilledType
    <3> QED BY <3>4, <1>9, EmptySeq
  <2>3. Fills(q, w)
    BY <2>2, <1>3 DEF Fills
  <2> QED BY <2>1, <2>3, SparesDeliver, SMTT(60)
<1> QED BY <1>6, <1>7, <1>8, <1>9

\* What every step keeps: an answer, once it is given.
Stands == \A k \in ByteReads : given[k].st \in {"value", "done", "rejected"} => given'[k] = given[k]

\* A step that answers only reads that wait.
LEMMA SparesStands ==
  ASSUME ByteInv, lapses = {}, NEW v, given' = v.given, Spares(ByteWorld, v) PROVE Stands
<1>1. WaitsOK(ByteWorld) /\ ByteWorld.given = given
  BY StartsCalm
<1>2. ASSUME NEW k \in ByteReads, given[k].st \in {"value", "done", "rejected"} PROVE given'[k] = given[k]
  <2>1. given[k].st # "pending"
    BY <1>2
  <2>2. ~Awaits(k, ByteWorld)
    BY <2>1, <1>1 DEF WaitsOK, Awaits
  <2> QED BY <2>2, <1>1 DEF Spares
<1> QED BY <1>2 DEF Stands

\* A read answers itself too, or waits.
AsksOnly(w, v, a) ==
  \A k \in ByteReads : k # a + 1 /\ ~Awaits(k, w) => v.given[k] = w.given[k] /\ ~Awaits(k, v)

LEMMA AskedStands ==
  ASSUME ByteInv, lapses = {}, NEW v, NEW u, AsksOnly(ByteWorld, v, asked), Spares(v, u), given' = u.given
  PROVE  Stands
<1>1. WaitsOK(ByteWorld) /\ ByteWorld.given = given /\ WorldOK(ByteWorld, asked) /\ asked \in Nat
  BY StartsCalm
<1>2. ASSUME NEW k \in ByteReads, given[k].st \in {"value", "done", "rejected"} PROVE given'[k] = given[k]
  <2>1. given[k].st # "pending" /\ given[k].st # "none"
    BY <1>2
  <2>2. ~Awaits(k, ByteWorld)
    BY <2>1, <1>1 DEF WaitsOK, Awaits
  <2>3. ~(k > asked)
    BY <2>1, <1>1 DEF WorldOK, GivenOK
  <2>4. k # asked + 1
    BY <2>3, <1>1
  <2> QED BY <2>2, <2>4, <1>1 DEF Spares, AsksOnly
<1> QED BY <1>2 DEF Stands

\* A read that was served.
LEMMA TakesOnly ==
  ASSUME NEW w, NEW v, NEW a, NEW data, Takes(w, v, a, data) PROVE AsksOnly(w, v, a)
<1>1. v.b.requests = w.b.requests /\ v.b.pullIntos = w.b.pullIntos /\ \A k \in ByteReads : k # a + 1 => v.given[k] = w.given[k]
  BY DEF Takes, Asks
<1> QED BY <1>1 DEF AsksOnly, Awaits

\* A read that waits, with a view or without.
LEMMA JoinedOnly ==
  ASSUME NEW w, NEW a \in Nat, a < MaxByteReads, WorldOK(w, a), LaterEmpty(w.given),
         NEW requests \in Seq(ByteReads), NEW vs \in Seq(PullIntoSet),
         \A k \in ByteReads : InSeq(k, requests) => InSeq(k, w.b.requests) \/ k = a + 1,
         \A k \in ByteReads : HasView(k, vs) => HasView(k, w.b.pullIntos) \/ k = a + 1,
         NEW v, v = WithRead(w, a + 1, requests, vs)
  PROVE  v \in WorldSet /\ AsksOnly(w, v, a)
<1>1. Joined(w, v, a, requests, vs)
  BY JoinsIs
<1>2. v \in WorldSet /\ v.b.requests = requests /\ v.b.pullIntos = vs /\ \A k \in ByteReads : k # a + 1 => v.given[k] = w.given[k]
  BY <1>1 DEF Joined, Asks
<1> QED BY <1>2 DEF AsksOnly, Awaits

LEMMA ServedStands ==
  ASSUME ByteInv, lapses = {}, NEW w, w = ByteWorld, bytes.state = "readable", bytes.queue # <<>>, asked < MaxByteReads,
         NEW v, NEW data, Takes(w, v, asked, data), NEW u, u = ByteFinishClose(v) \/ u = CallBytePullIfNeeded(v),
         given' = u.given
  PROVE  Stands
<1>1. Calm(w, asked, provided) /\ asked \in Nat /\ provided \in Nat /\ w.b = bytes
  BY StartsCalm
<1>2. Sound(v, asked + 1, provided)
  BY <1>1, TakesSound
<1>3. WorldOK(v, asked + 1) /\ v \in WorldSet
  BY <1>2 DEF Sound, WorldOK
<1>4. Spares(v, u)
  BY <1>3, SparesFinish, SparesCall
<1>5. AsksOnly(ByteWorld, v, asked)
  BY TakesOnly
<1> QED BY <1>4, <1>5, AskedStands

LEMMA ReadBytesStands == ByteInv /\ lapses = {} /\ ReadBytes => Stands
<1>1. SUFFICES ASSUME ByteInv, lapses = {}, ReadBytes PROVE Stands
  OBVIOUS
<1>2. Calm(ByteWorld, asked, provided) /\ asked \in Nat /\ asked <= MaxByteReads /\ provided \in Nat
      /\ MaxByteReads \in Nat /\ WorldOK(ByteWorld, asked) /\ ByteWorld \in WorldSet /\ ByteWorld.b = bytes
      /\ LaterEmpty(ByteWorld.given)
  BY <1>1, StartsCalm
<1>3. PICK w : w = ByteWorld
  OBVIOUS
<1>4. bytes.state = "readable" /\ w.b = bytes /\ asked < MaxByteReads /\ asked' = asked + 1
  BY <1>1, <1>2, <1>3 DEF ReadBytes
<1>5. CASE bytes.queue # <<>>
  <2>1. PICK u : u = ReadChunk(w, asked + 1)
    OBVIOUS
  <2>2. given' = u.given
    BY <2>1, <1>1, <1>3, <1>4, <1>5 DEF ReadBytes, ByteStep, ByteBecomes
  <2>3. PICK v, e : Takes(w, v, asked, e) /\ (u = ByteFinishClose(v) \/ u = CallBytePullIfNeeded(v))
    <3>1. Serves(w, u, asked)
      BY <2>1, <1>2, <1>3, <1>4, <1>5, ReadChunkTakes
    <3> QED BY <3>1, Zenon DEF Serves
  <2> QED BY <2>2, <2>3, <1>1, <1>3, <1>4, <1>5, ServedStands
<1>6. CASE bytes.queue = <<>>
  <2>1. PICK k \in ByteReads : k = asked + 1
    BY <1>2, <1>4 DEF ByteReads
  <2>2. PICK rs \in Seq(ByteReads), vs \in Seq(PullIntoSet) : rs = w.b.requests /\ vs = w.b.pullIntos
    BY <1>2, <1>3, WorldFields, FieldFields
  <2>3. PICK ts : ts = Append(rs, k)
    OBVIOUS
  <2>4. ts \in Seq(ByteReads) /\ \A i : InSeq(i, ts) <=> InSeq(i, rs) \/ i = k
    <3>1. ts \in Seq(ByteReads) /\ Lasts(rs, ts, k) /\ Len(rs) \in Nat
      BY <2>3, AppendLasts
    <3> QED BY <3>1, LastIn
  <2>5. PICK v : v = WithRead(w, asked + 1, ts, vs)
    OBVIOUS
  <2>6. v \in WorldSet /\ AsksOnly(w, v, asked)
    BY <2>1, <2>2, <2>4, <2>5, <1>2, <1>3, <1>4, JoinedOnly
  <2>7. PICK u : u = CallBytePullIfNeeded(v)
    OBVIOUS
  <2>8. ByteStep(u)
    <3>1. v = WithRead(w, asked + 1, Append(w.b.requests, asked + 1), w.b.pullIntos)
      BY <2>1, <2>2, <2>3, <2>5
    <3>2. WithRead(w, asked + 1, Append(w.b.requests, asked + 1), w.b.pullIntos)
          = [w EXCEPT !.b.requests = Append(@, asked + 1), !.given[asked + 1] = Answer("pending", <<>>)]
      <4>1. w \in WorldSet
        BY <1>2, <1>3
      <4> QED BY <4>1, RequestWaits, Zenon
    <3> QED BY <3>1, <3>2, <2>7, <1>1, <1>3, <1>4, <1>6 DEF ReadBytes
  <2>9. Spares(v, u) /\ given' = u.given
    BY <2>6, <2>7, <2>8, SparesCall DEF ByteStep, ByteBecomes
  <2> QED BY <2>6, <2>9, <1>1, <1>3, AskedStands
<1> QED BY <1>5, <1>6

LEMMA ReadIntoStands == ByteInv /\ lapses = {} /\ (\E n \in ViewSizes : ReadInto(n)) => Stands
<1>1. SUFFICES ASSUME ByteInv, lapses = {}, NEW n \in ViewSizes, ReadInto(n) PROVE Stands
  OBVIOUS
<1>2. Calm(ByteWorld, asked, provided) /\ asked \in Nat /\ asked <= MaxByteReads /\ provided \in Nat
      /\ MaxByteReads \in Nat /\ WorldOK(ByteWorld, asked) /\ ByteWorld \in WorldSet /\ ByteWorld.b = bytes
      /\ LaterEmpty(ByteWorld.given)
  BY <1>1, StartsCalm
<1>3. PICK w : w = ByteWorld
  OBVIOUS
<1>n. n \in Nat
  BY ByteAssumption
<1>t. w.b.queueTotalSize > 0 <=> w.b.queue # <<>>
  <2>1. w.b.queue \in Seq(Seq(Nat)) /\ w.b.queueTotalSize \in Nat /\ QueueOK(w.b.queue, w.b.queueTotalSize)
    BY <1>2, <1>3, WorldFields, FieldFields DEF WorldOK
  <2> QED BY <2>1, TotalSays
<1>4. bytes.state = "readable" /\ w.b = bytes /\ asked < MaxByteReads /\ asked' = asked + 1
  <2>1. w.b = bytes /\ asked < MaxByteReads /\ asked' = asked + 1 /\ (w.b.state = "readable" \/ w.b.queueTotalSize > 0)
    BY <1>1, <1>2, <1>3 DEF ReadInto
  <2>2. w.b.state # "readable" => w.b.queue = <<>>
    BY <1>2, <1>3 DEF Calm
  <2> QED BY <2>1, <2>2, <1>t
<1>5. CASE w.b.queueTotalSize > 0
  <2>1. PICK u : u = FillView(w, asked + 1, n)
    OBVIOUS
  <2>2. given' = u.given
    BY <2>1, <1>1, <1>2, <1>3, <1>4, <1>5 DEF ReadInto, ByteStep, ByteBecomes
  <2>3. PICK v, e : Takes(w, v, asked, e) /\ (u = ByteFinishClose(v) \/ u = CallBytePullIfNeeded(v))
    <3>1. Serves(w, u, asked)
      BY <2>1, <1>2, <1>3, <1>4, <1>5, <1>n, <1>t, FillViewTakes
    <3> QED BY <3>1, Zenon DEF Serves
  <2> QED BY <2>2, <2>3, <1>1, <1>3, <1>4, <1>5, <1>t, ServedStands
<1>6. CASE ~(w.b.queueTotalSize > 0)
  <2>1. PICK p \in PullIntoSet : p = PullInto(asked + 1, n) /\ p.read = asked + 1
    BY <1>2, <1>n, PullIntoType
  <2>2. PICK rs \in Seq(ByteReads), vs \in Seq(PullIntoSet) : rs = w.b.requests /\ vs = w.b.pullIntos
    BY <1>2, <1>3, WorldFields, FieldFields
  <2>3. PICK ts : ts = Append(vs, p)
    OBVIOUS
  <2>4. ts \in Seq(PullIntoSet) /\ \A i : HasView(i, ts) <=> HasView(i, vs) \/ i = asked + 1
    <3>1. ts \in Seq(PullIntoSet) /\ Lasts(vs, ts, p) /\ Len(vs) \in Nat
      BY <2>3, AppendLasts
    <3> QED BY <3>1, <2>1, LastHas
  <2>5. PICK v : v = WithRead(w, asked + 1, rs, ts)
    OBVIOUS
  <2>6. v \in WorldSet /\ AsksOnly(w, v, asked)
    BY <2>1, <2>2, <2>4, <2>5, <1>2, <1>3, <1>4, JoinedOnly
  <2>7. PICK u : u = CallBytePullIfNeeded(v)
    OBVIOUS
  <2>8. ByteStep(u)
    <3>1. v = WithRead(w, asked + 1, w.b.requests, Append(w.b.pullIntos, PullInto(asked + 1, n)))
      BY <2>1, <2>2, <2>3, <2>5
    <3>2. WithRead(w, asked + 1, w.b.requests, Append(w.b.pullIntos, PullInto(asked + 1, n)))
          = [w EXCEPT !.b.pullIntos = Append(@, PullInto(asked + 1, n)), !.given[asked + 1] = Answer("pending", <<>>)]
      <4>1. w \in WorldSet
        BY <1>2, <1>3
      <4>2. ViewWaiting(w, asked + 1, PullInto(asked + 1, n))
        BY <4>1, ViewWaits, Zenon
      <4> QED BY <4>2, Zenon DEF ViewWaiting
    <3> QED BY <3>1, <3>2, <2>7, <1>1, <1>2, <1>3, <1>4, <1>6 DEF ReadInto
  <2>9. Spares(v, u) /\ given' = u.given
    BY <2>6, <2>7, <2>8, SparesCall DEF ByteStep, ByteBecomes
  <2> QED BY <2>6, <2>9, <1>1, <1>3, AskedStands
<1> QED BY <1>5, <1>6

LEMMA EndsStand ==
  ByteInv /\ lapses = {} /\ (ErrorBytes \/ CloseBytes \/ CancelBytes \/ ReleaseByteLock) => Stands
<1>1. SUFFICES ASSUME ByteInv, lapses = {}, ErrorBytes \/ CloseBytes \/ CancelBytes \/ ReleaseByteLock PROVE Stands
  OBVIOUS
<1>2. WorldOK(ByteWorld, asked) /\ WaitsOK(ByteWorld) /\ ByteWorld \in WorldSet /\ ByteWorld.b = bytes
      /\ ByteWorld.given = given /\ Calm(ByteWorld, asked, provided)
  BY <1>1, StartsCalm
<1>3. CASE ErrorBytes
  <2>1. PICK v : v = ByteError(ByteWorld)
    OBVIOUS
  <2>2. given' = v.given
    BY <2>1, <1>3 DEF ErrorBytes, ByteStep, ByteBecomes
  <2> QED BY <2>1, <2>2, <1>1, <1>2, SparesError, SparesStands
<1>4. CASE CloseBytes
  <2>1. PICK w : w = [ByteWorld EXCEPT !.b.closeRequested = TRUE]
    OBVIOUS
  <2>2. PICK v : (v = w \/ v = ByteError(w) \/ v = ByteFinishClose(w)) /\ given' = v.given
    <3>1. CloseBytes = (
            /\ CanProvide
            /\ ByteStep(IF w.b.queueTotalSize > 0 THEN w
                        ELSE IF w.b.pullIntos # <<>> /\ Head(w.b.pullIntos).filled > 0 THEN ByteError(w)
                        ELSE ByteFinishClose(w))
            /\ UNCHANGED <<provided, asked, begun>>)
      BY <2>1 DEF CloseBytes
    <3>2. PICK x : x = ByteError(w)
      OBVIOUS
    <3>3. PICK y : y = ByteFinishClose(w)
      OBVIOUS
    <3>4. ByteStep(w) \/ ByteStep(x) \/ ByteStep(y)
      BY <3>1, <3>2, <3>3, <1>4
    <3> QED BY <3>2, <3>3, <3>4 DEF ByteStep, ByteBecomes
  <2>3. WorldOK(w, asked) /\ SameReads(ByteWorld, w)
    <3>1. SameBytes(ByteWorld, w)
      BY <2>1, <1>2, ClosingSame
    <3>2. Calm(w, asked, provided)
      BY <3>1, <1>2, SameCalm
    <3> QED BY <3>1, <3>2 DEF Calm, SameBytes, SameReads
  <2>4. Spares(w, v)
    BY <2>2, <2>3, SparesError, SparesFinish, SparesSame DEF SameReads
  <2> QED BY <2>2, <2>3, <2>4, <1>1, SparesSame, SparesThen, SparesStands
<1>5. CASE CancelBytes
  <2>1. PICK v : v = AnswerPullIntos(SettleClosed(AnswerRequests(
               [NoBytes(ByteWorld) EXCEPT !.b.state = "closed"], "done"), "resolved"), "done")
    OBVIOUS
  <2>2. given' = v.given
    BY <2>1, <1>5 DEF CancelBytes, ByteBecomes
  <2> QED BY <2>1, <2>2, <1>1, <1>2, SparesCancel, SparesStands
<1>6. CASE ReleaseByteLock
  <2>1. PICK w : w = Dismiss(ByteWorld)
    OBVIOUS
  <2>2. PICK v : v = [w EXCEPT !.b.reader = 0]
    OBVIOUS
  <2>3. given' = v.given /\ ByteWorld.b.reader # 0
    <3>1. ByteBecomes([w EXCEPT !.b.reader = 0])
      BY <2>1, <1>6 DEF ReleaseByteLock, Dismiss
    <3> QED BY <3>1, <2>2, <1>2, <1>6 DEF ReleaseByteLock, ByteBecomes
  <2>4. WorldOK(w, asked) /\ asked \in Nat
    BY <2>1, <2>3, <1>1, <1>2, DismissKeeps, StartsCalm
  <2>5. v.given = w.given
    BY <2>2, <2>4 DEF WorldOK, WorldSet
  <2>6. Spares(ByteWorld, w)
    BY <2>1, <2>3, <1>2, SparesDismiss
  <2> QED BY <2>3, <2>5, <2>6, <1>1, SparesStands
<1> QED BY <1>1, <1>3, <1>4, <1>5, <1>6

LEMMA BytesStand == ByteInv /\ lapses = {} /\ (\E n \in ChunkSizes : EnqueueBytes(n)) => Stands
<1>1. SUFFICES ASSUME ByteInv, lapses = {}, NEW n \in ChunkSizes, EnqueueBytes(n) PROVE Stands
  OBVIOUS
<1>2. PICK w, x, u, v : /\ w = ByteWorld /\ x = Numbers(provided, n) /\ u = Take(w, x) /\ v = CallBytePullIfNeeded(u)
                        /\ given' = v.given
  BY <1>1 DEF EnqueueBytes, ByteStep, ByteBecomes
<1>3. asked \in Nat /\ asked <= MaxByteReads /\ provided + n \in Nat
  BY <1>1, StartsCalm, ByteAssumption
<1>4. Open(w, asked, provided + n, x)
  BY <1>1, <1>2, EnqueueOpens
<1>5. Sound(u, asked, provided + n)
  BY <1>2, <1>3, <1>4, TakeKeeps
<1>6. u \in WorldSet
  BY <1>5 DEF Sound, WorldOK
<1>7. Spares(w, v)
  BY <1>2, <1>3, <1>4, <1>6, SparesTake, SparesCall, SparesThen
<1> QED BY <1>1, <1>2, <1>7, SparesStands

LEMMA ResponsesStand ==
  ByteInv /\ lapses = {} /\ ((\E n \in 0..MaxBytes : Respond(n)) \/ (\E n \in 1..MaxBytes : RespondWithNewView(n)))
  => Stands
<1>1. SUFFICES ASSUME ByteInv, lapses = {}, NEW n \in 0..MaxBytes, Respond(n) \/ (n # 0 /\ RespondWithNewView(n))
               PROVE  Stands
  <2>1. MaxBytes \in Nat
    BY ByteAssumption
  <2>2. \A n \in 1..MaxBytes : n \in 0..MaxBytes /\ n # 0
    BY <2>1
  <2> QED BY <2>2
<1>2. asked \in Nat /\ asked <= MaxByteReads /\ provided \in Nat /\ WorldOK(ByteWorld, asked) /\ WaitsOK(ByteWorld)
      /\ ByteWorld \in WorldSet /\ ByteWorld.b = bytes
  BY <1>1, StartsCalm
<1>3. PICK w : w = ByteWorld
  OBVIOUS
<1>n. n \in Nat
  OBVIOUS
<1>4. PICK p \in PullIntoSet : p = Head(w.b.pullIntos) /\ p = w.b.pullIntos[1] /\ w.b.pullIntos # <<>>
  <2>1. w.b.pullIntos \in Seq(PullIntoSet)
    BY <1>2, <1>3, WorldFields, FieldFields
  <2>2. w.b.pullIntos # <<>>
    BY <1>1, <1>2, <1>3, Zenon DEF Respond, RespondWithNewView
  <2> QED BY <2>1, <2>2
<1>5. CASE Respond(n)
  <2>1. PICK q : q = Responded(p, w.b.request, n, provided)
    OBVIOUS
  <2>2. PICK v : v = Response(w, n, p, q)
    OBVIOUS
  <2>3. ByteBecomes(v)
    BY <2>1, <2>2, <1>1, <1>2, <1>3, <1>4, <1>5, <1>n, RespondIs
  <2>4. Spares(w, v)
    BY <2>1, <2>2, <1>2, <1>3, <1>4, <1>n, SparesRespond
  <2> QED BY <2>3, <2>4, <1>1, <1>3, SparesStands DEF ByteBecomes
<1>6. CASE n # 0 /\ RespondWithNewView(n)
  <2>1. PICK x \in Seq(Nat) : x = Numbers(provided, n) /\ Len(x) = n
    BY <1>2, <1>n, NumbersType
  <2>2. PICK q : q = [p EXCEPT !.data = x, !.filled = n]
    OBVIOUS
  <2>3. q.read = p.read /\ q.data = x /\ q.filled = n
    BY <2>2 DEF PullIntoSet
  <2>4. Filled(q) = x /\ x # <<>>
    <3>1. SubSeq(x, 1, Len(x)) = x
      BY SubSeqFull
    <3> QED BY <3>1, <2>1, <2>3, <1>6, EmptySeq DEF Filled
  <2>5. Fills(q, w)
    BY <2>3, <2>4, <1>4 DEF Fills
  <2>6. PICK v : v = Deliver(Pop(w), q)
    OBVIOUS
  <2>7. ByteBecomes(v)
    <3>1. Pop(w) = [ByteWorld EXCEPT !.b.request = NoRequest, !.b.pullIntos = Tail(@)]
      BY <1>2, <1>3, <1>4, PopEither
    <3>2. p = Head(bytes.pullIntos)
      BY <1>2, <1>3, <1>4
    <3> QED BY <3>1, <3>2, <2>1, <2>2, <2>6, <1>6 DEF RespondWithNewView
  <2>8. Spares(w, v)
    BY <2>5, <2>6, <1>2, <1>3, SparesDeliver
  <2> QED BY <2>7, <2>8, <1>1, <1>3, SparesStands DEF ByteBecomes
<1> QED BY <1>1, <1>5, <1>6

LEMMA PullsStand == ByteInv /\ lapses = {} /\ (ByteStarted \/ BytePulled) => Stands
<1>1. SUFFICES ASSUME ByteInv, lapses = {}, ByteStarted \/ BytePulled PROVE Stands
  OBVIOUS
<1>2. Calm(ByteWorld, asked, provided) /\ WorldOK(ByteWorld, asked) /\ ByteWorld \in WorldSet /\ ByteWorld.b = bytes
      /\ bytes \in FieldSet
  BY <1>1, StartsCalm, WorldFields
<1>3. CASE ByteStarted
  <2>1. PICK v : (v = CallBytePullIfNeeded(ByteWorld) \/ v = ByteError(ByteWorld)) /\ given' = v.given
    BY <1>3 DEF ByteStarted, ByteStep, ByteBecomes
  <2>2. Spares(ByteWorld, v)
    BY <2>1, <1>2, SparesCall, SparesError
  <2> QED BY <2>1, <2>2, <1>1, SparesStands
<1>4. CASE BytePulled
  <2>1. PICK w : w = [ByteWorld EXCEPT !.b.pulling = FALSE, !.pulls = "none"]
    OBVIOUS
  <2>2. PICK u : u = [w EXCEPT !.b.pullAgain = FALSE]
    OBVIOUS
  <2>3. PICK v : (v = w \/ v = CallBytePullIfNeeded(u) \/ v = ByteError(w)) /\ given' = v.given
    <3>1. BytePulled = (
            /\ \/ pulls = "resolved"
                  /\ ByteStep(IF bytes.pullAgain THEN CallBytePullIfNeeded([w EXCEPT !.b.pullAgain = FALSE]) ELSE w)
               \/ pulls \in {"rejected", "running"} /\ ByteStep(ByteError(w))
            /\ UNCHANGED <<provided, asked, begun>>)
      BY <2>1 DEF BytePulled
    <3>2. PICK x : x = CallBytePullIfNeeded(u)
      OBVIOUS
    <3>3. PICK y : y = ByteError(w)
      OBVIOUS
    <3>4. ByteStep(w) \/ ByteStep(x) \/ ByteStep(y)
      BY <3>1, <3>2, <3>3, <2>2, <1>4
    <3> QED BY <3>2, <3>3, <3>4 DEF ByteStep, ByteBecomes
  <2>4. w = [ByteWorld EXCEPT !.b.pulling = FALSE, !.pulls = "none", !.b.pullAgain = bytes.pullAgain]
        /\ u = [ByteWorld EXCEPT !.b.pulling = FALSE, !.pulls = "none", !.b.pullAgain = FALSE]
    BY <2>1, <2>2, <1>2, ZenonT(60) DEF WorldSet, FieldSet
  <2>5. WorldOK(w, asked) /\ w \in WorldSet /\ u \in WorldSet
    <3>1. bytes.pullAgain \in BOOLEAN /\ FALSE \in BOOLEAN
      BY <1>2, FieldFields
    <3>2. Calm(w, asked, provided) /\ Calm(u, asked, provided)
      BY <3>1, <2>4, <1>2, PullOver
    <3> QED BY <3>2 DEF Calm, WorldOK
  <2>6. SameReads(ByteWorld, w) /\ SameReads(ByteWorld, u)
    BY <2>4, <1>2 DEF WorldSet, FieldSet, SameReads
  <2>7. Spares(ByteWorld, w) /\ Spares(ByteWorld, u)
    BY <2>6, SparesSame
  <2>8. Spares(ByteWorld, v)
    BY <2>3, <2>5, <2>7, SparesCall, SparesError, SparesThen
  <2> QED BY <2>3, <2>8, <1>1, SparesStands
<1> QED BY <1>1, <1>3, <1>4

LEMMA ByteNextStands == ByteInv /\ ByteNext => Stands
<1>1. SUFFICES ASSUME ByteInv, ByteNext PROVE Stands
  OBVIOUS
<1>2. lapses = {}
  BY <1>1 DEF ByteNext
<1>3. (\E kind \in {"default", "byob"} : GetByteReader(kind)) \/ TakeRequest \/ BytePullReturns => Stands
  BY DEF GetByteReader, TakeRequest, BytePullReturns, Stands
<1> QED BY <1>1, <1>2, <1>3, ReadBytesStands, ReadIntoStands, EndsStand, BytesStand, ResponsesStand, PullsStand
        DEF ByteNext

-----------------------------------------------------------------------------
(***************************************************************************)
(* The theorems.                                                           *)
(***************************************************************************)
\* A new stream.
LEMMA ByteInitInv == ByteInit => ByteInv
<1>1. SUFFICES ASSUME ByteInit PROVE ByteInv
  OBVIOUS
<1>2. PICK n \in Nat :
        bytes = [state |-> "readable", reader |-> 0, requests |-> <<>>, queue |-> <<>>,
                 queueTotalSize |-> 0, closeRequested |-> FALSE, pulling |-> FALSE,
                 pullAgain |-> FALSE, pullIntos |-> <<>>, request |-> NoRequest, auto |-> n]
  BY <1>1, ByteAssumption DEF ByteInit
<1>3. provided = 0 /\ asked = 0 /\ lapses = {} /\ holders = <<>> /\ pulls = "none"
      /\ given = [k \in ByteReads |-> Answer("none", <<>>)] /\ MaxByteReads \in Nat
  BY <1>1, ByteAssumption DEF ByteInit
<1>4. ByteWorld.b = bytes /\ ByteWorld.given = given /\ ByteWorld.holders = holders /\ ByteWorld.pulls = pulls
  BY DEF ByteWorld
<1>5. ByteWorld \in WorldSet
  <2>1. NoRequest \in RequestSet
    BY DEF NoRequest, RequestSet
  <2>2. bytes \in FieldSet
    <3>1. <<>> \in Seq(ByteReads) /\ <<>> \in Seq(PullIntoSet) /\ <<>> \in Seq(Seq(Nat))
      OBVIOUS
    <3> QED BY <1>2, <2>1, <3>1 DEF FieldSet
  <2>3. Answer("none", <<>>) \in AnswerSet
    BY SomeBytes, AnswerType
  <2>4. given \in [ByteReads -> AnswerSet]
    BY <1>3, <2>3
  <2>5. holders \in Seq(HolderSet)
    BY <1>3
  <2> QED BY <1>3, <2>2, <2>4, <2>5 DEF ByteWorld, WorldSet
<1>6. bytes.queue = <<>> /\ bytes.queueTotalSize = 0 /\ bytes.pullIntos = <<>> /\ bytes.requests = <<>>
      /\ bytes.reader = 0 /\ bytes.state = "readable" /\ bytes.pulling = FALSE /\ bytes.request.live = FALSE
  BY <1>2 DEF NoRequest
<1>7. \A k \in ByteReads : given[k].st = "none" /\ given[k].data = <<>> /\ k > 0
  <2>1. Answer("none", <<>>).st = "none" /\ Answer("none", <<>>).data = <<>>
    BY DEF Answer
  <2> QED BY <1>3, <2>1 DEF ByteReads
<1>8. WorldOK(ByteWorld, asked)
  <2>1. QueueOK(<<>>, 0)
    BY QueueNothing
  <2>2. ViewsOK(bytes.pullIntos, asked)
    BY <1>6 DEF ViewsOK
  <2>3. RequestOK(bytes.request, bytes.pullIntos) /\ Rising(bytes.requests)
    BY <1>6 DEF RequestOK, Rising
  <2>4. LockOK(bytes, holders) /\ ToldOK(bytes, holders)
    BY <1>6, <1>3 DEF LockOK, ToldOK
  <2>5. GivenOK(given, asked)
    BY <1>7, <1>3 DEF GivenOK
  <2>6. bytes.pulling = TRUE <=> pulls # "none"
    BY <1>6, <1>3
  <2> QED BY <1>4, <1>5, <1>6, <2>1, <2>2, <2>3, <2>4, <2>5, <2>6 DEF WorldOK
<1>9. InTurn(ByteWorld)
  BY <1>4, <1>6 DEF InTurn, Overtaken, SomeoneWaits
<1>10. WaitsOK(ByteWorld)
  BY <1>4, <1>6, <1>7 DEF WaitsOK, InSeq, HasView
<1>11. LaterEmpty(given)
  BY <1>7 DEF LaterEmpty
<1>12. OrderOK(ByteWorld, asked, provided)
  <2>1. Concat(<<>>) = <<>>
    BY QueueNothing DEF QueueOK
  <2>2. [k \in 1..asked |-> given[k].data] = <<>>
    BY <1>3
  <2>3. [j \in 1..Len(bytes.pullIntos) |-> SubSeq(bytes.pullIntos[j].data, 1, bytes.pullIntos[j].filled)] = <<>>
    BY <1>6
  <2>4. DeliveredOf(given, asked) = <<>> /\ KeptOf(bytes) = <<>> \o <<>>
    BY <2>1, <2>2, <2>3, <1>6 DEF DeliveredOf, KeptOf, Held
  <2>5. Numbers(0, provided) = <<>>
    BY <1>3 DEF Numbers
  <2>6. <<>> \o (<<>> \o <<>>) = <<>>
    OBVIOUS
  <2>7. DeliveredOf(given, asked) \o KeptOf(bytes) = Numbers(0, provided)
    BY <2>4, <2>5, <2>6
  <2>8. asked \in Nat /\ asked <= MaxByteReads /\ provided \in Nat
    BY <1>3, ByteAssumption
  <2> QED BY <1>4, <1>8, <2>7, <2>8, OrderBegins
<1>13. asked \in 0..MaxByteReads /\ provided \in Nat
  BY <1>3
<1> QED BY <1>3, <1>6, <1>8, <1>9, <1>10, <1>11, <1>12, <1>13 DEF ByteInv

\* A step of any kind.
LEMMA ByteNextInv == ByteInv /\ [ByteNext]_byteVars => ByteInv'
<1>1. CASE UNCHANGED byteVars
  <2>1. ByteWorld' = ByteWorld
    BY <1>1 DEF ByteWorld, byteVars
  <2> QED BY <1>1, <2>1 DEF byteVars, ByteInv
<1>2. CASE ByteNext
  <2>1. lapses = {}
    BY <1>2 DEF ByteNext
  <2> QED BY <1>2, <2>1, GetByteReaderStep, ReleaseByteLockStep, ReadBytesStep, CancelBytesStep,
             CloseBytesStep, ErrorBytesStep, ReadIntoStep, EnqueueBytesStep, TakeRequestStep,
             RespondStep, RespondWithNewViewStep, ByteStartedStep, BytePullReturnsStep,
             BytePulledStep DEF ByteNext
<1> QED BY <1>1, <1>2

\* The invariant says that bytes keep their order.
LEMMA ByteInvOrder == ByteInv => BytesKeepOrder
<1>1. SUFFICES ASSUME ByteInv PROVE BytesKeepOrder
  OBVIOUS
<1>2. ByteWorld.b = bytes /\ ByteWorld.given = given /\ ByteWorld.holders = holders /\ ByteWorld.pulls = pulls
  BY DEF ByteWorld
<1>3. WorldOK(ByteWorld, asked)
  BY <1>1 DEF ByteInv
<1>4. bytes \in FieldSet /\ QueueOK(bytes.queue, bytes.queueTotalSize) /\ ViewsOK(bytes.pullIntos, asked)
      /\ LockOK(bytes, holders) /\ ToldOK(bytes, holders) /\ GivenOK(given, asked)
      /\ (bytes.pulling = TRUE <=> pulls # "none")
  BY <1>2, <1>3, WorldFields DEF WorldOK
<1>5. bytes.pullIntos \in Seq(PullIntoSet)
  BY <1>4, FieldFields
<1>6. ByteTypeOK
  <2>1. ASSUME NEW j \in 1..Len(bytes.pullIntos)
        PROVE  bytes.pullIntos[j].read \in 0..asked /\ bytes.pullIntos[j].filled \in 0..Len(bytes.pullIntos[j].data) - 1
    <3>1. bytes.pullIntos[j] \in PullIntoSet
      BY <1>5
    <3>2. PICK f \in Nat, m \in Nat : f = bytes.pullIntos[j].filled /\ m = Len(bytes.pullIntos[j].data)
      BY <3>1 DEF PullIntoSet
    <3>3. bytes.pullIntos[j].read \in 0..asked /\ f < m
      BY <1>4, <3>2 DEF ViewsOK
    <3>4. f \in 0..m - 1
      BY <3>3
    <3> QED BY <3>2, <3>3, <3>4
  <2>2. bytes.state \in {"readable", "closed", "errored"} /\ bytes.requests \in Seq(ByteReads)
        /\ {bytes.closeRequested, bytes.pulling, bytes.pullAgain} \subseteq BOOLEAN
    <3>1. bytes.closeRequested \in BOOLEAN /\ bytes.pulling \in BOOLEAN /\ bytes.pullAgain \in BOOLEAN
      BY <1>4, FieldFields
    <3> QED BY <1>4, <3>1, FieldFields
  <2>3. bytes.reader \in 0..Len(holders)
    BY <1>4 DEF LockOK
  <2>4. bytes.queueTotalSize = Len(Concat(bytes.queue)) /\ \A j \in 1..Len(bytes.queue) : bytes.queue[j] # <<>>
    BY <1>4 DEF QueueOK
  <2>5. \A k \in ByteReads : given[k].st = "none" <=> k > asked
    BY <1>4 DEF GivenOK
  <2>6. lapses \subseteq {"overtaken", "dropped", "misplaced", "cancelled"}
    BY <1>1 DEF ByteInv
  <2>7. \A p \in {bytes.pullIntos[j] : j \in 1..Len(bytes.pullIntos)} :
          p.read \in 0..asked /\ p.filled \in 0..Len(p.data) - 1
    BY <2>1
  <2> QED BY <1>4, <2>2, <2>3, <2>4, <2>5, <2>6, <2>7 DEF ByteTypeOK
<1>7. BytesInOrder
  <2>1. SUFFICES ASSUME lapses = {}
                 PROVE  /\ bytes.state # "errored" => Delivered \o Kept = Numbers(0, provided)
                        /\ Delivered = Numbers(0, Len(Delivered))
    BY DEF BytesInOrder
  <2>2. OrderOK(ByteWorld, asked, provided)
    BY <1>1, <2>1 DEF ByteInv
  <2>3. /\ bytes.state # "errored" => DeliveredOf(given, asked) \o KeptOf(bytes) = Numbers(0, provided)
        /\ Begins(DeliveredOf(given, asked))
    BY <1>2, <2>2 DEF OrderOK
  <2>4. Delivered = DeliveredOf(given, asked) /\ Kept = KeptOf(bytes)
    BY DEF Delivered, DeliveredOf, Kept, KeptOf, Held
  <2> QED BY <2>3, <2>4 DEF Begins
<1>8. ByteReadersHear
  <2>1. bytes.auto = 0 => Overtaken(ByteWorld) = {}
    BY <1>1 DEF ByteInv, InTurn
  <2>2. ASSUME lapses \intersect {"misplaced"} = {}
        PROVE  \A k \in ByteReads :
                 given[k].st = "pending" <=>
                   \/ \E j \in 1..Len(bytes.requests) : bytes.requests[j] = k
                   \/ \E j \in 1..Len(bytes.pullIntos) : bytes.pullIntos[j].read = k
    <3>1. "misplaced" \notin lapses
      BY <2>2
    <3>2. WaitsOK(ByteWorld)
      BY <1>1, <3>1 DEF ByteInv
    <3> QED BY <3>2, <1>2 DEF WaitsOK, InSeq, HasView
  <2>3. SomeoneWaits(ByteWorld) => bytes.state = "readable" /\ bytes.reader # 0
    BY <1>2, <1>4 DEF SomeoneWaits, LockOK
  <2>4. bytes.reader # 0 => holders[bytes.reader].closed = ClosedSays(bytes.state)
    BY <1>4 DEF ToldOK
  <2> QED BY <2>1, <2>2, <2>3, <2>4 DEF ByteReadersHear, ClosedSays
<1> QED BY <1>6, <1>7, <1>8 DEF BytesKeepOrder

\* ByteInv, which relates the fields of the stream, its readers and what the reads
\* were given, is an invariant.
THEOREM ByteInvariant == ByteSpec => []ByteInv
<1> QED BY ByteInitInv, ByteNextInv, PTL DEF ByteSpec

\* Bytes reach the reads in the order the source provided them, none is lost or made
\* up until one of the lapses that the steps name, and no read is forgotten.
THEOREM BytesOrder == ByteSpec => []BytesKeepOrder
<1> QED BY ByteInvariant, ByteInvOrder, PTL

\* A read that was answered is not answered again, whatever follows: by bytes, by
\* the end, by an error, by the reader's leaving or by the source's late respond().
THEOREM AnswersStand ==
  ByteSpec => [][\A k \in ByteReads : given[k].st \in {"value", "done", "rejected"} => given'[k] = given[k]]_byteVars
<1>1. ByteInv /\ [ByteNext]_byteVars => [Stands]_byteVars
  BY ByteNextStands
<1>2. [Stands]_byteVars =>
        [\A k \in ByteReads : given[k].st \in {"value", "done", "rejected"} => given'[k] = given[k]]_byteVars
  BY DEF Stands
<1> QED BY <1>1, <1>2, ByteInvariant, PTL DEF ByteSpec
=============================================================================
