------------------------------- MODULE Lexer -------------------------------
(***************************************************************************)
(* The scanner of src/src/lexer.c with location_count() of location.c and  *)
(* the methods of the class Lexer (quickjs-lexer.c) that move it.          *)
(*                                                                         *)
(* Lexer overlays the fields of its Location with names of its own.  In a  *)
(* 64-bit build they do not meet: what the code calls byte_offset is the   *)
(* char_offset of the Location, and its char_offset is line and column.    *)
(* "at" is that byte_offset, "bytes" the byte_offset of the Location.      *)
(*                                                                         *)
(* A text is a sequence of bytes: "E" and "e" make one character of two.   *)
(***************************************************************************)
EXTENDS Integers, Sequences, FiniteSets, SequencesExt

CONSTANTS
  LexLetters,  \* the bytes that occur
  MaxLexText,  \* bound: bytes of a text
  Rules,       \* of the program: [states, letters, many, does]
  MaxSeq,      \* bound: tokens that were passed
  MaxDepth     \* bound: states on the stack

VARIABLES
  source,   \* lex->input
  lexer,    \* the Lexer
  trail     \* history: the matches since the start or the last jump back

lexVars == <<source, lexer, trail>>

None == 0
LexStates == UNION {Rules[r].states : r \in DOMAIN Rules}
Modes == {"first", "last", "longest"}
Size == Len(source)

\* Well-formed UTF-8.
WellFormed(t) == \A i \in DOMAIN t :
  /\ t[i] = "E" => i < Len(t) /\ t[i + 1] = "e"
  /\ t[i] = "e" => i > 1 /\ t[i - 1] = "E"
LexTexts == {t \in UNION {[1..n -> LexLetters] : n \in 0..MaxLexText} : WellFormed(t)}

\* The numbers of the bytes from..from + n - 1 that begin a character, when the
\* counting begins with the first of them.
Heads(from, n) == {i \in from + 1..from + n : source[i] # "e" \/ i = from + 1}
Newlines(from, n) == {i \in from + 1..from + n : source[i] = "nl"}

\* What the regular expression of a rule matches at w.at: 0 for nothing.
Matched(w, rule) ==
  LET run == {n \in 1..Size - w.at :
               \A i \in w.at + 1..w.at + n : source[i] \in rule.letters}
  IN IF run = {} THEN 0 ELSE IF rule.many THEN Max(run) ELSE 1

-----------------------------------------------------------------------------
(***************************************************************************)
(* The scanner: functions from a Lexer to a Lexer.                         *)
(***************************************************************************)
location_count(w, n) ==
  LET lines == Newlines(w.at, n)
      column == IF lines = {} THEN w.column + Cardinality(Heads(w.at, n))
                ELSE LET last == Max(lines)
                     IN Cardinality(Heads(w.at, n) \intersect (last + 1..w.at + n))
  IN [w EXCEPT !.at = @ + Cardinality(Heads(w.at, n)), !.bytes = @ + n,
               !.line = @ + Cardinality(lines), !.column = column]

lexer_skip_n(w, n) == location_count([w EXCEPT !.bytes = w.at], n)

\* Mutant of lexer_skip: the token is not cleared.
SkipKeepsToken(w) == [lexer_skip_n(w, w.length) EXCEPT !.seq = @ + 1]

lexer_skip(w) ==
  [lexer_skip_n(w, w.length) EXCEPT !.seq = @ + 1, !.length = 0, !.token = None]

Holds(w) == w.length > 0 /\ w.token # None

\* The rule that wins among those that match.
Wins(w, fits) ==
  CASE w.mode = "first" -> Min(fits)
    [] w.mode = "last" -> Max(fits)
    [] w.mode = "longest" ->
         Min({r \in fits : \A q \in fits : Matched(w, Rules[q]) <= Matched(w, Rules[r])})

lexer_peek(w, start) ==
  LET fits == {r \in start..Len(Rules) : w.state \in Rules[r].states /\ Matched(w, Rules[r]) > 0}
  IN IF w.at >= Size \/ w.pos = Size THEN [w EXCEPT !.says = "eof"]
     ELSE IF fits = {} THEN [w EXCEPT !.says = "nomatch", !.length = 0, !.token = None]
     ELSE [w EXCEPT !.says = "token", !.token = Wins(w, fits),
                    !.length = Matched(w, Rules[Wins(w, fits)])]

lexer_state_push(w, s) == [w EXCEPT !.stack = Append(@, w.state), !.state = s]
lexer_state_pop(w) == [w EXCEPT !.stack = Front(@), !.state = Last(w.stack)]

\* The action of a rule: it enters a state, or leaves one.
lexer_handle(w, does) ==
  CASE does = "push" /\ Len(w.stack) < MaxDepth -> lexer_state_push(w, "inner")
    [] does = "pop" /\ w.stack # <<>> -> lexer_state_pop(w)
    [] OTHER -> w

\* What is remembered of a match.
Piece(w, state, start) ==
  [from |-> w.at, bytes |-> w.bytes, line |-> w.line, column |-> w.column, len |-> w.length,
   rule |-> w.token, seq |-> w.seq, state |-> state, start |-> start]

\* The loop of lexer_lex(): after a match that is skipped, the search goes on with
\* the rule that matched.  "past" are the pieces so far.
RECURSIVE Loop(_, _, _, _)
Loop(w, start, flags, past) ==
  LET p == lexer_peek(w, start)
      rule == Rules[p.token]
      done == Append(past, Piece(p, w.state, start))
      h == lexer_handle(p, rule.does)
  IN IF p.says # "token" THEN [w |-> p, past |-> past]
     ELSE IF rule.states \intersect flags # {} THEN Loop(lexer_skip(p), p.token, flags, done)
     ELSE IF rule.does = "skip" THEN Loop(lexer_skip(h), p.token, flags, done)
     ELSE [w |-> h, past |-> done]

lexer_lex(w, flags) == Loop(IF Holds(w) THEN lexer_skip(w) ELSE w, 1, flags, trail)

lexer_set_location(w, l) ==
  [w EXCEPT !.length = 0, !.at = l.from, !.bytes = l.bytes, !.line = l.line, !.column = l.column]

-----------------------------------------------------------------------------
(***************************************************************************)
(* The methods, until the program strays: it calls one that leaves a token *)
(* behind which does not lie at the position of the lexer any more.        *)
(***************************************************************************)
\* What lexer_peek() returned is not kept.
Becomes(w, past) == lexer' = [w EXCEPT !.says = "nothing"] /\ trail' = past /\ UNCHANGED source
Calls == lexer.stray = "no" /\ lexer.seq < MaxSeq

\* The matches before the position: a match that was found and not passed is found
\* again.
Before == IF Holds(lexer) THEN Front(trail) ELSE trail
Peeked(w, past) == IF w.says = "token" THEN Append(past, Piece(w, w.state, 1)) ELSE past

\* next(), nextToken() and the iterator; with a number, a mask of states.
Next(flags) ==
  /\ Calls
  /\ LET r == lexer_lex(lexer, flags) IN Becomes(r.w, r.past)

\* next(state): the name is a mask as well.
NextIn(s) ==
  /\ Calls
  /\ LET r == lexer_lex(lexer_state_push(lexer, s), {s})
     IN Becomes(lexer_state_pop(r.w), r.past)

\* peek(), peekToken().
Peek ==
  /\ Calls
  /\ LET w == lexer_peek(lexer, 1)
     IN Becomes(w, IF w.says = "eof" THEN trail ELSE Peeked(w, Before))

SkipToken == Calls /\ Holds(lexer) /\ Becomes(lexer_skip(lexer), trail)

\* back() with a Token: it is the current one again, if there is a current one.
BackToToken(i) ==
  LET tok == trail[i]
  IN /\ Calls
     /\ Becomes([lexer_set_location(lexer, tok) EXCEPT !.length = tok.len, !.seq = tok.seq],
                SubSeq(trail, 1, IF lexer.token = None THEN i - 1 ELSE i))

\* back() with a Location: the lexer looks for a token there.
BackToLocation(i) ==
  LET w == lexer_peek(lexer_set_location(lexer, trail[i]), 1)
  IN Calls /\ Becomes(w, Peeked(w, SubSeq(trail, 1, i - 1)))

PushState(s) == Calls /\ Len(lexer.stack) < MaxDepth /\ Becomes(lexer_state_push(lexer, s), trail)
PopState == Calls /\ lexer.stack # <<>> /\ Becomes(lexer_state_pop(lexer), trail)
SetState(s) == Calls /\ Becomes([lexer EXCEPT !.state = s], trail)

\* getc(), skipChars(): the input has a position of its own.
GetChar ==
  /\ Calls /\ lexer.pos < Size
  /\ Becomes([lexer EXCEPT !.pos = @ + (IF source[@ + 1] = "E" THEN 2 ELSE 1)], trail)

\* skipBytes(): the token stays as long as it was.
SkipBytes(n) ==
  /\ Calls /\ n <= lexer.length
  /\ Becomes([lexer_skip_n(lexer, n) EXCEPT !.stray = IF n > 0 THEN "token" ELSE "no"], trail)

\* charPos = a Location: line becomes what the Location has as char_offset.
SetCharPos(i) ==
  LET l == trail[i]
  IN Calls /\ Becomes([lexer EXCEPT !.at = l.bytes, !.line = l.from, !.column = 0, !.stray = "place"],
                      SubSeq(trail, 1, i - 1))

SetInput(t) ==
  /\ Calls
  /\ source' = t /\ trail' = <<>>
  /\ lexer' = [lexer EXCEPT !.at = 0, !.bytes = 0, !.line = 0, !.column = 0, !.pos = 0,
                            !.stray = IF lexer.length > 0 THEN "token" ELSE "no"]

-----------------------------------------------------------------------------
\* The mode is set once, before the first call; the longer texts are read in the
\* mode that the constructor sets.
LexInit ==
  /\ source \in LexTexts /\ trail = <<>>
  /\ \E m \in IF Size = MaxLexText THEN {"longest"} ELSE Modes :
       lexer = [at |-> 0, bytes |-> 0, line |-> 0, column |-> 0, mode |-> m, length |-> 0,
                token |-> None, state |-> "INITIAL", stack |-> <<>>, seq |-> 0, pos |-> 0,
                says |-> "nothing", stray |-> "no"]

LexNext ==
  \/ Next({}) \/ Peek \/ SkipToken \/ PopState \/ GetChar
  \/ \E s \in LexStates : Next({s}) \/ NextIn(s) \/ PushState(s) \/ SetState(s)
  \/ \E i \in DOMAIN trail : BackToToken(i) \/ BackToLocation(i) \/ SetCharPos(i)
  \/ \E n \in 0..lexer.length : SkipBytes(n)
  \/ \E c \in LexLetters \ {"E", "e"} : SetInput(<<c>>)

-----------------------------------------------------------------------------
LexTypeOK ==
  /\ lexer.at \in 0..Size /\ lexer.pos \in 0..Size /\ lexer.bytes \in 0..Size
  /\ lexer.token \in {None} \union DOMAIN Rules
  /\ lexer.state \in LexStates /\ lexer.stack \in Seq(LexStates)
  /\ lexer.stray = "no" => lexer.at + lexer.length <= Size

\* Only bytes that are characters before the n-th.
Plain(from, n) == \A i \in from + 1..from + n : source[i] # "E"

\* What the lexer is about to pass is what it told last, and every byte before is in
\* one of the matches: none is passed over unseen, none is matched twice.
PiecesAdjoin ==
  LET ends(i) == trail[i].from + trail[i].len
      next(i) == IF i < Len(trail) THEN trail[i + 1].from ELSE lexer.at
      last == IF Holds(lexer) THEN Len(trail) - 1 ELSE Len(trail)
  IN lexer.stray = "no" =>
       /\ trail # <<>> => trail[1].from = 0
       /\ \A i \in 1..last : Plain(0, ends(i)) => next(i) = ends(i)
       /\ Holds(lexer) => /\ Last(trail).from = lexer.at
                          /\ Last(trail).len = lexer.length

\* Line, column and offset of every match and of the lexer are those of its position.
LocationsRight ==
  LET right(at, l) ==
        Plain(0, at) =>
          /\ l.bytes = at
          /\ l.line = Cardinality(Newlines(0, at))
          /\ l.column = at - (IF Newlines(0, at) = {} THEN 0 ELSE Max(Newlines(0, at)))
  IN /\ \A i \in DOMAIN trail : right(trail[i].from, trail[i])
     /\ lexer.stray # "place" => right(lexer.at, lexer)

\* A match is the one that the mode asks for among the rules of its state; after a
\* match that was skipped, among those from its rule on.
MatchesWin ==
  \A i \in DOMAIN trail :
    LET t == trail[i]
        fits(r) == t.state \in Rules[r].states /\ Matched([lexer EXCEPT !.at = t.from], Rules[r]) > 0
        length(r) == Matched([lexer EXCEPT !.at = t.from], Rules[r])
    IN /\ fits(t.rule) /\ t.len = length(t.rule)
       /\ t.start \in {1} \union (IF i = 1 THEN {} ELSE {trail[i - 1].rule})
       /\ \A r \in t.start..Len(Rules) : fits(r) =>
            CASE lexer.mode = "first" -> t.rule <= r
              [] lexer.mode = "last" -> r <= t.rule
              [] lexer.mode = "longest" -> length(r) < t.len \/ (length(r) = t.len /\ t.rule <= r)

\* next() goes on behind the token that is held, also when peek() has found it and nobody
\* has taken it: a token that was peeked at is given by no call of next().
HeldIsPassed ==
  lexer.stray = "no" /\ Holds(lexer) /\ Plain(0, lexer.at + lexer.length) =>
    LET past == lexer_lex(lexer, {}).past
    IN \A i \in (Len(trail) + 1)..Len(past) : past[i].from >= lexer.at + lexer.length

\* Tokens are numbered in the order of the text, also after back().
NumbersGrow == \A i, j \in DOMAIN trail : i < j => trail[i].seq < trail[j].seq
=============================================================================
