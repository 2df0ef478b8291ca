------------------------------ MODULE ByteFifo ------------------------------
(***************************************************************************)
(* What a byte queue promises its user.  A byte is named by its position   *)
(* in the order in which bytes were written; the queue then holds exactly  *)
(* the bytes consumed .. written-1.  "reply" is what the last call         *)
(* returned: the call, its argument, its numeric result and the bytes it   *)
(* handed over (a function from 0..k-1 to positions).                      *)
(***************************************************************************)
EXTENDS Integers

CONSTANT MaxWritten       \* bound: bytes written in one behaviour

VARIABLES consumed, written, reply

fifoVars == <<consumed, written, reply>>

Held == written - consumed

\* k consecutive bytes of the stream, the first one at position a.
Bytes(a, k) == [j \in 0..(k - 1) |-> a + j]

Nothing == Bytes(0, 0)

Reply(op, arg, n, bytes) ==
  reply' = [op |-> op, arg |-> arg, n |-> n, bytes |-> bytes]

AtMost(n) == IF n <= Held THEN n ELSE Held

Init ==
  /\ consumed = 0
  /\ written = 0
  /\ reply = [op |-> "none", arg |-> 0, n |-> 0, bytes |-> Nothing]

\* A write is all or nothing.
Write(n) ==
  /\ \/ written' = written + n /\ Reply("write", n, n, Nothing)
     \/ written' = written     /\ Reply("write", n, -1, Nothing)
  /\ UNCHANGED consumed

\* A read hands over the oldest bytes and never fewer than it could.
Read(n) ==
  /\ consumed' = consumed + AtMost(n)
  /\ Reply("read", n, AtMost(n), Bytes(consumed, AtMost(n)))
  /\ UNCHANGED written

Skip(n) ==
  /\ consumed' = consumed + AtMost(n)
  /\ Reply("skip", n, AtMost(n), Nothing)
  /\ UNCHANGED written

Peek(n) ==
  /\ Reply("peek", n, AtMost(n), Bytes(consumed, AtMost(n)))
  /\ UNCHANGED <<consumed, written>>

\* The next chunk: some prefix of what is held, or nothing when nothing is held.
TakeChunk ==
  /\ UNCHANGED written
  /\ \/ \E k \in 0..Held : /\ consumed' = consumed + k
                           /\ Reply("next", 0, k, Bytes(consumed, k))
     \/ Held = 0 /\ UNCHANGED consumed /\ Reply("next", 0, -1, Nothing)

\* A chunk that stays queued is some window of what is held.
Window(i) ==
  /\ UNCHANGED <<consumed, written>>
  /\ \/ \E a \in consumed..written : \E k \in 0..(written - a) :
          Reply("chunk", i, k, Bytes(a, k))
     \/ Reply("chunk", i, -1, Nothing)

\* The byte at an offset from the oldest one, or from behind the newest one.
At(o) ==
  /\ UNCHANGED <<consumed, written>>
  /\ IF o \in -Held..(Held - 1)
       THEN Reply("at", o, 1, Bytes((IF o >= 0 THEN consumed ELSE written) + o, 1))
       ELSE Reply("at", o, -1, Nothing)

Clear ==
  /\ consumed' = written
  /\ Reply("clear", 0, 0, Nothing)
  /\ UNCHANGED written

Next ==
  \/ \E n \in 0..MaxWritten : Write(n) \/ Read(n) \/ Skip(n) \/ Peek(n)
  \/ \E i \in -MaxWritten..MaxWritten : At(i) \/ Window(i)
  \/ TakeChunk \/ Clear

Spec == Init /\ [][Next]_fifoVars
=============================================================================
