----------------------------- MODULE XmlReader -----------------------------
(***************************************************************************)
(* The pull parser for XML (src/src/xml.c): xml_parser_run() reads bytes   *)
(* from a Reader, some of them ahead, and gives one event after the other. *)
(* When the Reader has nothing for it right now it returns XML_PARSE_AGAIN *)
(* and later goes on at the same place, with what is in its XMLParser.     *)
(*                                                                         *)
(* Characters are themselves, "quot" is the double quote, " " is white     *)
(* space and "e" the value the reader gives at the end; of the names,      *)
(* <<"s">> stands for script and <<"v">> for those of the self-closing     *)
(* tags.  Entities and the lines of a script are left out.                 *)
(***************************************************************************)
EXTENDS Integers, Sequences, SequencesExt

CONSTANTS
  XmlChars,    \* the characters that occur
  Tolerant,    \* xml_parser_set_tolerant()
  MaxInput,    \* bound: characters of an arbitrary text
  MaxDocument  \* bound: characters of a well-formed text

VARIABLES
  p,        \* the XMLParser
  input,    \* what the Reader has had so far
  eof,      \* and that it has no more
  seen      \* the events

xmlVars == <<p, input, eof, seen>>

-----------------------------------------------------------------------------
(***************************************************************************)
(* xml_chars: the classes.  "!" is classified with the hyphen.             *)
(***************************************************************************)
Ws == {" "}
Slash == {"/"}
Close == {">"}
EndOfName == {"/", ">"}
Special == {"!", "?"}
Hyphen == {"!", "-"}
Quotes == {"'", "quot"}

NameIsBang(q) == q.name # <<>> /\ q.name[1] \in Hyphen
NameIsComment(q) == q.name = <<"!", "-", "-">>
SelfClosing(name) == name = <<"v">>
InsideScript(q) == q.open # <<>> /\ Last(q.open) = <<"s">>

(***************************************************************************)
(* The code between two bytes.  "q" is the parser and "ev" the events; it  *)
(* ends in parse_getc(), which puts the current byte into the buffer in    *)
(* use and goes on at "at" with the next one, or in a look ahead at "peek" *)
(* bytes.                                                                  *)
(***************************************************************************)
Getc(q, at) ==
  LET b == q.accum
  IN [(IF b = "none" THEN q ELSE [q EXCEPT ![b] = Append(@, q.c)]) EXCEPT !.at = at, !.peek = 0]
Peek(q, n, at) == [q EXCEPT !.at = at, !.peek = n]
Stops(q, how) == [q EXCEPT !.at = how]
Yields(q, type, name, value) == [q EXCEPT !.ev = Append(@, [type |-> type, name |-> name, value |-> value])]
Into(q, b) == [q EXCEPT ![b] = <<>>, !.accum = b]

\* What comes next in the input, not yet consumed.
Ahead(q, s) == IsPrefix(s, SubSeq(input, q.pos + 1, Len(input)))

\* do { if(cond) break; parse_getc(); } while(!done)
TextUntil(q) ==
  IF q.c = "<" \/ q.done
    THEN LET t == [q EXCEPT !.accum = "none"]
             y == IF \A i \in DOMAIN t.text : t.text[i] \in Ws THEN t ELSE Yields(t, "text", <<>>, t.text)
         IN IF y.done THEN Stops(y, "ok") ELSE Getc(y, "open")
    ELSE Getc(q, "text")

RECURSIVE TrimLeft(_)
TrimLeft(s) == IF s # <<>> /\ s[1] \in Ws THEN TrimLeft(Tail(s)) ELSE s

ScriptEnds(q) ==
  LET t == [q EXCEPT !.accum = "none"]
      y == IF TrimLeft(t.text) = <<>> THEN t ELSE Yields(t, "text", <<>>, TrimLeft(t.text))
  IN IF y.done THEN Stops(y, "ok") ELSE Getc(y, "open")

Script(q) == IF q.c = "<" THEN Peek(q, Len(Last(q.open)) + 2, "script_close") ELSE Getc(q, "script")

\* The loop over the document.
Loop(q) ==
  IF q.done THEN Stops(q, "ok")
  ELSE LET t == Into(q, "text") IN IF InsideScript(q) THEN Script(t) ELSE TextUntil(t)
LoopEnd(q) == IF q.c \in Close THEN Getc(q, "loop") ELSE Loop(q)

-----------------------------------------------------------------------------
\* A closing tag.
Matching(q) == {i \in DOMAIN q.open : q.open[i] = q.name}
RECURSIVE CloseDown(_, _)
CloseDown(q, i) ==
  IF Len(q.open) < i THEN q
  ELSE CloseDown([Yields(q, "end", Last(q.open), <<>>) EXCEPT !.open = Front(@)], i)

CloseTag(q) ==
  IF Matching(q) # {} THEN LoopEnd(CloseDown(q, CHOOSE i \in Matching(q) : \A j \in Matching(q) : j <= i))
  ELSE IF Tolerant THEN LoopEnd(q) ELSE Stops(Yields(q, "error", q.name, <<>>), "error")

CloseSkip(q) ==
  IF q.done THEN Stops(q, "ok")
  ELSE IF q.c \in Ws THEN Getc(q, "close_space")
  ELSE IF q.c \in Close THEN Getc(q, "closed") ELSE CloseTag(q)

-----------------------------------------------------------------------------
\* Attributes and the end of an opening tag.
TagEnd(q) ==
  IF q.done THEN Stops(q, "ok")
  ELSE LoopEnd(IF q.self THEN Yields(q, "end", q.name, <<>>) ELSE [q EXCEPT !.open = Append(@, q.name)])

\* <? ... ?>: the class of the last byte is that of the first.
AfterSlash(q) ==
  IF q.name # <<>> /\ ((q.name[1] = "?" /\ q.c = "?") \/ (q.name[1] = "!" /\ q.c = "!") \/ (q.name[1] = "-" /\ q.c = "-"))
    THEN Getc(q, "tag_end") ELSE TagEnd(q)
AttrEnd(q) ==
  IF q.done THEN Stops(q, "ok")
  ELSE IF q.c \in Slash THEN Getc([q EXCEPT !.self = TRUE], "slash") ELSE AfterSlash(q)

RECURSIVE Attributes(_)
AttrUntil(q) ==
  IF ~q.done /\ q.c \notin {"="} \union Ws \union Special \union EndOfName THEN Getc(q, "attr")
  ELSE LET a == [q EXCEPT !.accum = "none"]
       IN CASE a.attr = <<>> -> AttrEnd(a)
            [] a.c \in Ws \union EndOfName -> Attributes(Yields(a, "attr", a.attr, <<>>))
            [] a.c = "=" -> Getc([a EXCEPT !.quote = "none"], "equal")
            [] OTHER -> Attributes(a)
Attributes(q) ==
  IF q.done \/ q.c \in EndOfName THEN AttrEnd(q)
  ELSE IF q.c \in Ws THEN Getc(q, "attr_space")
  ELSE AttrUntil(Into(q, "attr"))

ValueEnds(q) == Attributes(Yields(q, "attr", q.attr, q.text))
ValueUntil(q) ==
  IF ~q.done /\ (IF q.quote # "none" THEN q.c # q.quote ELSE q.c \notin Ws \union Close) THEN Getc(q, "value")
  ELSE LET v == [q EXCEPT !.accum = "none"]
       IN IF v.quote # "none" /\ v.c \in Quotes THEN Getc(v, "value_end") ELSE ValueEnds(v)

-----------------------------------------------------------------------------
\* An opening tag, a comment or a declaration.
Started(q) ==
  IF q.done THEN Stops(q, "ok")
  ELSE LET y == Yields([q EXCEPT !.accum = "none"], "start", q.name, <<>>)
       IN IF NameIsBang(q) THEN Getc(Yields(y, "end", q.name, <<>>), "loop") ELSE Attributes(y)

BangUntil(q) == IF q.done \/ q.c \in Close THEN Started(q) ELSE Getc(q, "bang")

NameEnds(q) ==
  LET n == [q EXCEPT !.accum = "none"]
      s == [n EXCEPT !.self = NameIsBang(n) \/ SelfClosing(n.name)]
  IN CASE n.done -> Stops(n, "ok")
       [] n.closing /\ ~n.done -> CloseSkip(n)
       [] ~n.closing /\ ~n.done /\ NameIsComment(n) -> Getc([s EXCEPT !.accum = "name"], "comment")
       [] ~n.closing /\ ~n.done /\ ~NameIsComment(n) /\ NameIsBang(n) -> BangUntil([s EXCEPT !.accum = "name"])
       [] OTHER -> Started(s)

NameUntil(q) == IF q.done \/ q.c \in Ws \union EndOfName THEN NameEnds(q) ELSE Getc(q, "name")
NameStart(q) ==
  LET n == Into(q, "name") IN IF n.c \in Hyphen THEN Peek(n, 2, "comment_start") ELSE NameUntil(n)

\* The label "at", the byte that was waited for being there.
Goes(q) ==
  CASE q.at = "loop" -> Loop(q)
    [] q.at = "text" -> TextUntil(q)
    [] q.at = "script" -> IF q.done THEN ScriptEnds(q) ELSE Script(q)
    [] q.at = "script_close" -> IF Ahead(q, <<"/">> \o Last(q.open) \o <<">">>) THEN ScriptEnds(q)
                                ELSE Getc(q, "script")
    [] q.at = "open" -> LET t == [q EXCEPT !.closing = q.c \in Slash, !.self = FALSE]
                        IN IF t.closing THEN Getc(t, "name_start") ELSE NameStart(t)
    [] q.at = "name_start" -> NameStart(q)
    [] q.at = "comment_start" -> IF Ahead(q, <<"-", "-">>) THEN Getc(q, "excl1") ELSE NameUntil(q)
    [] q.at = "excl1" -> Getc(q, "excl2")
    [] q.at = "excl2" -> Getc(q, "excl3")
    [] q.at = "excl3" -> NameEnds(q)
    [] q.at = "name" -> NameUntil(q)
    [] q.at = "comment" -> IF q.done THEN Stops(q, "ok")
                           ELSE IF q.c \in Hyphen THEN Peek(q, 2, "comment_end") ELSE Getc(q, "comment")
    [] q.at = "comment_end" -> IF Ahead(q, <<"-", ">">>)
                                 THEN Started([q EXCEPT !.name = @ \o <<q.c, "-">>, !.c = ">", !.pos = @ + 2])
                                 ELSE Getc(q, "comment")
    [] q.at = "bang" -> BangUntil(q)
    [] q.at = "attr_space" -> Attributes(q)
    [] q.at = "attr" -> AttrUntil(q)
    [] q.at = "equal" -> IF q.c \in Quotes THEN Getc([q EXCEPT !.quote = q.c], "quote")
                         ELSE ValueUntil(Into(q, "text"))
    [] q.at = "quote" -> ValueUntil(Into(q, "text"))
    [] q.at = "value" -> ValueUntil(q)
    [] q.at = "value_end" -> ValueEnds(q)
    [] q.at = "slash" -> AfterSlash(q)
    [] q.at = "tag_end" -> TagEnd(q)
    [] q.at = "close_space" -> CloseSkip(q)
    [] q.at = "closed" -> CloseTag(q)

-----------------------------------------------------------------------------
Start == [at |-> "loop", peek |-> 0, c |-> "e", pos |-> 0, done |-> FALSE, accum |-> "none",
          text |-> <<>>, name |-> <<>>, attr |-> <<>>, quote |-> "none", closing |-> FALSE,
          self |-> FALSE, open |-> <<>>, ev |-> <<>>]

XmlInit == p = Start /\ input = <<>> /\ eof = FALSE /\ seen = <<>>

Stopped == p.at \in {"ok", "error"}
Left == Len(input) - p.pos
Again == ~Stopped /\ ~eof /\ (Left = 0 \/ Left < p.peek)

\* xml_parser_run(), up to the next byte: parse_getc() takes it, at the end it is
\* "e"; a look ahead leaves what it saw where it is.
xml_parser_run ==
  /\ ~Stopped /\ ~Again
  /\ LET q == IF p.peek > 0 THEN [p EXCEPT !.peek = 0]
              ELSE IF Left = 0 THEN [p EXCEPT !.c = "e", !.done = TRUE]
              ELSE [p EXCEPT !.c = input[p.pos + 1], !.pos = @ + 1]
         r == Goes(q)
     IN p' = [r EXCEPT !.ev = <<>>] /\ seen' = seen \o r.ev
  /\ UNCHANGED <<input, eof>>

\* The Reader gets more, which it is only asked for when the parser waits.
Deliver(c, Documents) ==
  /\ Again /\ (Len(input) < MaxInput \/ Append(input, c) \in Documents)
  /\ input' = Append(input, c) /\ UNCHANGED <<p, eof, seen>>
EndOfInput == Again /\ eof' = TRUE /\ UNCHANGED <<p, input, seen>>

-----------------------------------------------------------------------------
(***************************************************************************)
(* XML by its grammar: well-formed texts with the events they stand for.   *)
(***************************************************************************)
Ev(type, name, value) == <<[type |-> type, name |-> name, value |-> value]>>
Made(t, e) == [txt |-> t, ev |-> e]
Short(A) == {a \in A : Len(a.txt) <= MaxDocument /\ \A i \in DOMAIN a.txt : a.txt[i] \in XmlChars}
Beside(A, B) == Short({Made(a.txt \o b.txt, a.ev \o b.ev) : a \in A, b \in B})

Names == {<<"a">>, <<"b">>, <<"s">>}
Texts == {Made(t, Ev("text", <<>>, t)) : t \in {<<"a">>, <<"a", " ">>, <<" ", "a">>}} \union {Made(<<" ">>, <<>>)}
Empty == {Made(<<>>, <<>>)}
Attrs == Empty \union {Made(<<" ", "a">> \o v.txt, Ev("attr", <<"a">>, v.ev)) :
                         v \in {Made(<<>>, <<>>), Made(<<"=", "quot", "quot">>, <<>>),
                                Made(<<"=", "quot", "a", "quot">>, <<"a">>), Made(<<"=", "quot", ">", "quot">>, <<">">>),
                                Made(<<"=", "a">>, <<"a">>)}}
Comments == {Made(<<"<">> \o b \o <<">">>, Ev("start", b, <<>>) \o Ev("end", b, <<>>)) :
               b \in {<<"!", "-", "-", "a", "-", "-">>, <<"!", "-", "-", "-", "a", "-", "-">>, <<"!", "a">>}}
Tag(name, attrs, inner) ==
  {Made(<<"<">> \o name \o a.txt \o <<">">> \o i.txt \o <<"<", "/">> \o name \o <<">">>,
        Ev("start", name, <<>>) \o a.ev \o i.ev \o Ev("end", name, <<>>)) : a \in attrs, i \in inner}
Single(name, ends) ==
  {Made(<<"<">> \o name \o a.txt \o end, Ev("start", name, <<>>) \o a.ev \o Ev("end", name, <<>>)) :
     a \in {b \in Attrs : b.txt = <<>> \/ Last(b.txt) # "a"}, end \in ends}

\* In a script everything is text up to its closing tag, without the white space
\* that it begins with.
ScriptText == {Made(<<"<", "b", ">">>, Ev("text", <<>>, <<"<", "b", ">">>)),
               Made(<<" ", "<">>, Ev("text", <<>>, <<"<">>))}
Leaves == Short(Comments \union Single(<<"a">>, {<<"/", ">">>}) \union Single(<<"v">>, {<<">">>, <<"/", ">">>})
                \union Tag(<<"s">>, Empty, ScriptText))
Elements == Short(Leaves \union UNION {Tag(n, Attrs, Empty \union Leaves \union Beside(Texts, Leaves)
                                                      \union Beside(Leaves, Texts))
                                       : n \in {<<"a">>, <<"b">>}})

\* What is left open inside ends with the element around it; a tolerant parser
\* skips a closing tag that has no element.
Repaired == UNION {{Made(<<"<">> \o n \o <<">">> \o l.txt \o i.txt \o <<"<", "/">> \o n \o <<">">>,
                         Ev("start", n, <<>>) \o l.ev \o i.ev \o Ev("end", l.left, <<>>) \o Ev("end", n, <<>>)) :
                      l \in {[txt |-> <<"<">> \o m \o <<">">>, ev |-> Ev("start", m, <<>>), left |-> m] :
                               m \in {<<"a">>, <<"b">>} \ {n}}, i \in Empty \union Texts} : n \in {<<"a">>, <<"b">>}}
            \union IF Tolerant THEN {Made(<<"<", "a", ">", "<", "/", "b", ">">> \o i.txt \o <<"<", "/", "a", ">">>,
                                           Ev("start", <<"a">>, <<>>) \o i.ev \o Ev("end", <<"a">>, <<>>)) : i \in Empty \union Texts}
                      ELSE {}
Documents == Elements \union Beside(Elements, Elements) \union Short(Repaired)
Beginnings(D) == UNION {{SubSeq(d.txt, 1, n) : n \in DOMAIN d.txt} : d \in D}

-----------------------------------------------------------------------------
XmlTypeOK ==
  /\ p.pos <= Len(input) /\ p.accum \in {"none", "text", "name", "attr"}
  /\ p.done => eof /\ p.pos = Len(input)

\* A well-formed text gives the events of its grammar, whichever bytes the Reader
\* had to be asked for again.  "Docs" is Documents, which is worked out once.
ReadsXml(Docs) ==
  Stopped =>
    \A d \in Docs : d.txt = input => p.at = "ok" /\ seen = d.ev

\* For any text: an end closes the innermost element that is open, elements that
\* are not closed at the end of the text are those on the parser's stack, and
\* attributes come right after their element's start.
RECURSIVE OpenAfter(_, _)
OpenAfter(open, i) ==
  IF i > Len(seen) THEN open
  ELSE LET e == seen[i]
       IN CASE e.type = "start" -> OpenAfter(Append(open, e.name), i + 1)
            [] e.type = "end" -> IF open # <<>> /\ Last(open) = e.name THEN OpenAfter(Front(open), i + 1)
                                 ELSE <<<<"none">>>>
            [] OTHER -> OpenAfter(open, i + 1)
XmlNests ==
  /\ Stopped => OpenAfter(<<>>, 1) \in {p.open, Append(p.open, p.name)}
  /\ \A i \in DOMAIN seen : seen[i].type = "attr" => i > 1 /\ seen[i - 1].type \in {"start", "attr"}
=============================================================================
