---------------------------- MODULE StreamUtils ----------------------------
(***************************************************************************)
(* The writers and readers of src/src/stream-utils.c that keep something:  *)
(* writer_buffered(), writer_linebuffered(), reader_buffered() and         *)
(* reader_linebuffered() between the program and a file descriptor which   *)
(* takes or gives less than it was asked for, or fails; the counting of    *)
(* characters and lines in what passes; and the URL coders.                *)
(*                                                                         *)
(* A program that was told that a part was written writes the rest again.  *)
(* "held" and "passed" are the positions in the text of the bytes in the   *)
(* buffer and of those that came to the other end.                         *)
(***************************************************************************)
EXTENDS Integers, Sequences, SequencesExt

CONSTANTS
  StreamLetters,  \* "T" and "E" begin a character of 3 and 2 bytes, "e" goes on with it
  UrlLetters,     \* "%", digits and others
  MaxStream,      \* bound: bytes of a text
  BufferSizes     \* buf_size

VARIABLES
  stream,   \* the text
  pipe,     \* Buffered, and the call that is at work
  tracker   \* Counted and Tracker

streamVars == <<stream, pipe, tracker>>

StreamTexts == UNION {[1..n -> StreamLetters] : n \in 0..MaxStream}
UrlTexts == UNION {[1..n -> UrlLetters] : n \in 0..MaxStream}
Kinds == {"buffered", "linebuffered"}
Ways == {"write", "read"}
Idle == [op |-> "none", n |-> 0, done |-> 0, end |-> FALSE]

Positions(from, n) == [k \in 1..n |-> from + k]
Full == Len(pipe.held) = pipe.size
In(op) == pipe.call.op = op /\ pipe.err = "none"
Left == pipe.call.n - pipe.call.done

-----------------------------------------------------------------------------
(***************************************************************************)
(* Counting: "buf" is the beginning of a character.                        *)
(***************************************************************************)
utf8_needed(c) == CASE c = "T" -> 3 [] c = "E" -> 2 [] c = "e" -> 0 [] OTHER -> 1
Decodes(bytes) == /\ bytes # <<>> /\ utf8_needed(bytes[1]) = Len(bytes)
                  /\ \A i \in 2..Len(bytes) : bytes[i] = "e"

\* How many bytes complete a character: 0 if more are needed, -1 if they are none.
buffer_character(buf, bytes) ==
  LET needed == utf8_needed((buf \o bytes)[1])
      take == needed - Len(buf)
  IN CASE needed = 0 -> -1
       [] take > Len(bytes) -> 0
       [] ~Decodes(buf \o SubSeq(bytes, 1, take)) -> -1
       [] OTHER -> take

\* read_counted(), write_counted().
RECURSIVE Counted(_, _)
Counted(t, bytes) ==
  IF bytes = <<>> THEN t
  ELSE LET take == buffer_character(t.buf, bytes)
           more == [t EXCEPT !.characters = @ + 1, !.buf = <<>>]
       IN CASE take = 0 -> [t EXCEPT !.buf = @ \o bytes]
            [] take = -1 -> Counted(more, IF t.buf = <<>> THEN Tail(bytes) ELSE bytes)
            [] OTHER -> Counted(more, SubSeq(bytes, take + 1, Len(bytes)))

location_nextchar(l, c, n) ==
  [l EXCEPT !.line = IF c = "nl" THEN @ + 1 ELSE @, !.column = IF c = "nl" THEN 0 ELSE @ + 1,
            !.offset = @ + 1, !.bytes = @ + n, !.buf = <<>>]
Bogus(l, n) == [l EXCEPT !.column = @ + n, !.offset = @ + n, !.bytes = @ + n, !.buf = <<>>]

\* read_location().
RECURSIVE Located(_, _)
Located(l, bytes) ==
  IF bytes = <<>> THEN l
  ELSE LET needed == utf8_needed((l.buf \o bytes)[1])
           take == needed - Len(l.buf)
           rest == SubSeq(bytes, take + 1, Len(bytes))
       IN CASE take > Len(bytes) -> [l EXCEPT !.buf = @ \o bytes]
            [] needed > 0 /\ Decodes(l.buf \o SubSeq(bytes, 1, take)) ->
                 Located(location_nextchar(l, bytes[1], needed), rest)
            [] l.buf # <<>> -> Located(Bogus(l, Len(l.buf)), bytes)
            [] OTHER -> Located(Bogus(l, 1), Tail(bytes))

\* A call that ends with a number tells what passed to the ones who count.
Tracks(from, n) ==
  LET bytes == SubSeq(stream, from + 1, from + n)
  IN tracker' = [counted |-> Counted(tracker.counted, bytes),
                 located |-> IF pipe.way = "read" THEN Located(tracker.located, bytes)
                             ELSE tracker.located]

-----------------------------------------------------------------------------
(***************************************************************************)
(* The writers.  Each step is one turn of the loop; what the descriptor    *)
(* takes is r, -1 for an error.                                            *)
(***************************************************************************)
Takes(n) == -1..n
Becomes(p) == pipe' = p /\ UNCHANGED stream
Returns(p) == /\ Becomes([p EXCEPT !.call = Idle])
              /\ Tracks(p.next - p.call.done, p.call.done)
Goes(p) == IF p.call.op = "write" /\ p.call.done = p.call.n THEN Returns(p)
           ELSE Becomes(p) /\ UNCHANGED tracker

\* Mutant of Emptied: what the descriptor left is not moved to the front.
EmptiedInPlace(p, r) == [p EXCEPT !.passed = @ \o SubSeq(p.held, 1, r),
                                  !.held = SubSeq(@, 1, Len(@) - r)]

\* empty_buffered().
Emptied(p, r) == [p EXCEPT !.passed = @ \o SubSeq(p.held, 1, r),
                           !.held = SubSeq(@, r + 1, Len(@))]

Write(n) ==
  /\ pipe.way = "write" /\ pipe.call = Idle /\ ~pipe.closed /\ pipe.err = "none"
  /\ n \in 1..Len(stream) - pipe.next
  /\ Becomes([pipe EXCEPT !.call = [Idle EXCEPT !.op = "write", !.n = n]])
  /\ UNCHANGED tracker

EmptyFull(r) ==
  /\ In("write") /\ Full /\ ~pipe.call.end /\ r \in Takes(Len(pipe.held))
  /\ IF r <= 0 THEN Returns(pipe) ELSE Goes(Emptied(pipe, r))

\* More than the buffer holds goes past it.
WriteThrough(r) ==
  /\ In("write") /\ pipe.kind = "buffered" /\ pipe.held = <<>> /\ Left >= pipe.size
  /\ r \in Takes(Left)
  /\ IF r <= 0 THEN Returns(pipe)
     ELSE Goes([pipe EXCEPT !.passed = @ \o Positions(pipe.next, r), !.next = @ + r,
                            !.call.done = @ + r])

Copy ==
  LET n == IF pipe.size - Len(pipe.held) < Left THEN pipe.size - Len(pipe.held) ELSE Left
  IN /\ In("write") /\ pipe.kind = "buffered" /\ ~Full
     /\ pipe.held # <<>> \/ Left < pipe.size
     /\ Goes([pipe EXCEPT !.held = @ \o Positions(pipe.next, n), !.next = @ + n,
                          !.call.done = @ + n])

\* write_linebuffered(): a byte is counted when the line that it ends was written.
CopyByte ==
  LET put == [pipe EXCEPT !.held = Append(@, pipe.next + 1)]
  IN /\ In("write") /\ pipe.kind = "linebuffered" /\ ~Full /\ ~pipe.call.end
     /\ IF stream[pipe.next + 1] = "nl"
        THEN Becomes([put EXCEPT !.call.end = TRUE]) /\ UNCHANGED tracker
        ELSE Goes([put EXCEPT !.next = @ + 1, !.call.done = @ + 1])

\* When it fails the newline stays in the buffer, and the program writes it again.
EmptyLine(r) ==
  /\ In("write") /\ pipe.call.end /\ r \in Takes(Len(pipe.held))
  /\ IF r <= 0 THEN Returns([pipe EXCEPT !.err = "newline"])
     ELSE Goes([Emptied(pipe, r) EXCEPT !.next = @ + 1, !.call.done = @ + 1, !.call.end = FALSE])

\* writer_flush() does not move what the descriptor left.
Flush(r) ==
  /\ pipe.way = "write" /\ pipe.call = Idle /\ ~pipe.closed /\ pipe.err = "none"
  /\ pipe.held # <<>> /\ r \in Takes(Len(pipe.held))
  /\ r > 0
  /\ Becomes([pipe EXCEPT !.passed = @ \o SubSeq(pipe.held, 1, r),
                          !.held = SubSeq(@, 1, Len(@) - r),
                          !.err = IF r < Len(pipe.held) THEN "flush" ELSE "none"])
  /\ UNCHANGED tracker

\* close_buffered() tries once; what is held then is lost.
Close(r) ==
  /\ pipe.way = "write" /\ pipe.call = Idle /\ ~pipe.closed /\ pipe.err = "none"
  /\ r \in Takes(Len(pipe.held))
  /\ Becomes([(IF r > 0 THEN Emptied(pipe, r) ELSE pipe) EXCEPT !.closed = TRUE])
  /\ UNCHANGED tracker

-----------------------------------------------------------------------------
(***************************************************************************)
(* The readers: "next" is what the descriptor gave, "given" what the call  *)
(* that ended last gave and why.                                           *)
(***************************************************************************)
Read(n) ==
  /\ pipe.way = "read" /\ pipe.call = Idle
  /\ n \in 1..MaxStream
  /\ Becomes([pipe EXCEPT !.call = [Idle EXCEPT !.op = "read", !.n = n]])
  /\ UNCHANGED tracker

\* Gives n bytes of the buffer to the program.
Give(p, n) == [p EXCEPT !.passed = @ \o SubSeq(p.held, 1, n),
                        !.held = SubSeq(@, n + 1, Len(@)), !.call.done = @ + n]
ReadReturns(p, why) ==
  /\ Becomes([p EXCEPT !.call = Idle,
                       !.given = [from |-> Len(p.passed) - p.call.done, n |-> p.call.done,
                                  why |-> why]])
  /\ Tracks(Len(p.passed) - p.call.done, p.call.done)

Gets(r) == [pipe EXCEPT !.held = @ \o Positions(pipe.next, r), !.next = @ + r]

\* What is asked for of the descriptor, and what it gives: 0 at its end.
Available(r) ==
  \/ r = -1
  \/ r = 0 /\ pipe.next = Len(stream)
  \/ r > 0 /\ r <= pipe.size - Len(pipe.held) /\ r <= Len(stream) - pipe.next

\* read_buffered().
GiveHeld ==
  LET n == IF Len(pipe.held) < Left THEN Len(pipe.held) ELSE Left
  IN /\ In("read") /\ pipe.kind = "buffered" /\ pipe.held # <<>>
     /\ IF n = Left THEN ReadReturns(Give(pipe, n), "enough")
        ELSE Becomes(Give(pipe, n)) /\ UNCHANGED tracker

Fill(r) ==
  /\ In("read") /\ pipe.kind = "buffered" /\ pipe.held = <<>> /\ Available(r)
  /\ IF r > 0 THEN Becomes(Gets(r)) /\ UNCHANGED tracker
     ELSE ReadReturns(pipe, IF r = 0 THEN "end" ELSE "error")

\* read_linebuffered().
Ends == {i \in DOMAIN pipe.held : stream[pipe.held[i]] = "nl"}
GiveLine(eol, why) ==
  ReadReturns(Give(pipe, IF eol > pipe.call.n THEN pipe.call.n ELSE eol),
              IF eol > pipe.call.n THEN "enough" ELSE why)

LineHeld ==
  /\ In("read") /\ pipe.kind = "linebuffered"
  /\ \/ Ends # {} /\ GiveLine(Min(Ends), "line")
     \/ Ends = {} /\ Full /\ GiveLine(pipe.size, "full")

FillLine(r) ==
  /\ In("read") /\ pipe.kind = "linebuffered" /\ Ends = {} /\ ~Full /\ Available(r)
  /\ CASE r > 0 -> Becomes(Gets(r)) /\ UNCHANGED tracker
       [] r = 0 -> GiveLine(Len(pipe.held), "end")
       [] r < 0 -> ReadReturns(pipe, "error")

-----------------------------------------------------------------------------
(***************************************************************************)
(* The URL coders: a byte that is no letter is the pair of its hexadecimal *)
(* digits.                                                                 *)
(***************************************************************************)
Hex == {"2", "5", "0"}
Hi(c) == CASE c = "%" -> <<"2", "5">> [] c = " " -> <<"2", "0">>
Byte(h, l) == CASE h = "2" /\ l = "5" -> "%" [] h = "2" /\ l = "0" -> " " [] OTHER -> h \o l
Three(t) == IF Len(t) < 3 THEN t ELSE SubSeq(t, 1, 3)
Unescaped == Hex \union {"a"}

\* write_urlencoded().
RECURSIVE write_urlencoded(_)
write_urlencoded(t) ==
  IF t = <<>> THEN <<>>
  ELSE (IF Head(t) \in Unescaped THEN <<Head(t)>> ELSE <<"%">> \o Hi(Head(t)))
       \o write_urlencoded(Tail(t))

\* read_urldecoded(): "pending" are the characters of an escape that was none.
RECURSIVE read_urldecoded(_, _)
read_urldecoded(t, pending) ==
  LET from(k) == SubSeq(t, k, Len(t))
      escape == Len(t) > 2 /\ t[2] \in Hex /\ t[3] \in Hex
  IN CASE pending # <<>> -> <<pending[1]>> \o read_urldecoded(t, Tail(pending))
       [] pending = <<>> /\ t = <<>> -> <<>>
       [] OTHER ->
            CASE t[1] # "%" -> <<t[1]>> \o read_urldecoded(Tail(t), <<>>)
              [] t[1] = "%" /\ Len(t) = 1 -> <<"%">>
              [] t[1] = "%" /\ Len(t) > 1 /\ t[2] = "%" -> <<"%">> \o read_urldecoded(from(3), <<>>)
              [] OTHER -> IF escape THEN <<Byte(t[2], t[3])>> \o read_urldecoded(from(4), <<>>)
                          ELSE <<"%">> \o read_urldecoded(from(4), Tail(Three(t)))

\* transform_urldecode().
RECURSIVE transform_urldecode(_)
transform_urldecode(t) ==
  LET from(k) == SubSeq(t, k, Len(t))
      escape == Len(t) > 2 /\ t[2] \in Hex /\ t[3] \in Hex
  IN CASE t = <<>> -> <<>>
       [] t # <<>> /\ t[1] # "%" -> <<t[1]>> \o transform_urldecode(Tail(t))
       [] t = <<"%">> -> <<"%">>
       [] Len(t) > 1 /\ t[1] = "%" /\ t[2] = "%" -> <<"%">> \o transform_urldecode(from(3))
       [] OTHER -> IF escape THEN <<Byte(t[2], t[3])>> \o transform_urldecode(from(4))
                   ELSE Three(t) \o transform_urldecode(from(4))

-----------------------------------------------------------------------------
StreamInit ==
  /\ tracker = [counted |-> [characters |-> 0, buf |-> <<>>],
                located |-> [line |-> 0, column |-> 0, offset |-> 0, bytes |-> 0, buf |-> <<>>]]
  /\ \E k \in Kinds, w \in Ways \union {"url"}, s \in BufferSizes :
       /\ pipe = [kind |-> k, way |-> w, size |-> s, held |-> <<>>, passed |-> <<>>, next |-> 0,
                  call |-> Idle, closed |-> FALSE, err |-> "none",
                  given |-> [from |-> 0, n |-> 0, why |-> "none"]]
       /\ stream \in IF w = "url" THEN UrlTexts ELSE StreamTexts

StreamNext ==
  \/ Copy \/ CopyByte \/ GiveHeld \/ LineHeld
  \/ \E n \in 1..MaxStream : Write(n) \/ Read(n)
  \/ \E r \in -1..MaxStream :
       \/ EmptyFull(r) \/ WriteThrough(r) \/ EmptyLine(r) \/ Flush(r) \/ Close(r)
       \/ Fill(r) \/ FillLine(r)

-----------------------------------------------------------------------------
StreamTypeOK ==
  /\ Len(pipe.held) <= pipe.size /\ pipe.next \in 0..Len(stream)
  /\ pipe.call.done \in 0..pipe.call.n

\* No byte is lost, doubled or moved on its way through the buffer, whatever the
\* descriptor takes or gives: not until a flush that was done in part, and a line
\* that could not be written at its newline.
PassInOrder ==
  LET extra == IF pipe.call.end THEN 1 ELSE 0
  IN pipe.err = "none" => pipe.passed \o pipe.held = Positions(0, pipe.next + extra)

\* A line is given whole, and nothing of the next with it: less only if the program
\* asked for less, the buffer is full or the text ends.
LinesWhole ==
  LET g == pipe.given
      nl(k) == stream[pipe.passed[g.from + k]] = "nl"
  IN pipe.kind = "linebuffered" /\ pipe.call = Idle =>
       /\ \A k \in 1..g.n - 1 : ~nl(k)
       /\ g.why = "line" => g.n > 0 /\ nl(g.n)
       /\ g.why = "error" => g.n = 0

\* In well-formed UTF-8 the characters and lines that were counted are those of what
\* passed, wherever it was cut.
CountsRight ==
  LET wellFormed == \A i \in DOMAIN stream :
        LET lead == {j \in 1..i : stream[j] # "e"}
        IN /\ lead # {} /\ i - Max(lead) < utf8_needed(stream[Max(lead)])
           /\ \A k \in 1..utf8_needed(stream[i]) - 1 : i + k <= Len(stream) /\ stream[i + k] = "e"
      told == IF pipe.way = "write" THEN pipe.next ELSE Len(pipe.passed)
      heads == {i \in 1..told : stream[i] # "e"}
      whole == {i \in heads : i + utf8_needed(stream[i]) - 1 <= told}
      lines == {i \in 1..told : stream[i] = "nl"}
      ends == IF lines = {} THEN 0 ELSE Max(lines)
  IN wellFormed /\ pipe.call = Idle =>
       /\ tracker.counted.characters = Cardinality(whole)
       /\ pipe.way = "read" =>
            /\ tracker.located.offset = Cardinality(whole)
            /\ tracker.located.line = Cardinality(lines)
            /\ tracker.located.column = Cardinality({i \in whole : i > ends})
            /\ tracker.located.bytes + Len(tracker.located.buf) = told

\* What was encoded is decoded to itself, and the two decoders agree on any text.
UrlsMean ==
  pipe.way = "url" =>
    /\ read_urldecoded(write_urlencoded(stream), <<>>) = stream
    /\ read_urldecoded(stream, <<>>) = transform_urldecode(stream)
=============================================================================
