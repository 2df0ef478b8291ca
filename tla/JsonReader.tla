----------------------------- MODULE JsonReader -----------------------------
(***************************************************************************)
(* The push parser for JSON (src/src/jread.c): jr_read() takes the text in *)
(* chunks and calls back with an event for each token, jr_finish() says    *)
(* that there are no more chunks.  Between two chunks only jr_state_t      *)
(* remains; the table "go" in use is a local variable of jr_read().        *)
(*                                                                         *)
(* A character stands for its class in the tables: "d" for the digits, "q" *)
(* for the quote, "esc" for the backslash, "x" for what only a string may  *)
(* hold, "2" and "3" for the bytes that begin a UTF-8 sequence of that     *)
(* length, "8" for one that goes on with it.                               *)
(***************************************************************************)
EXTENDS Integers, Sequences, SequencesExt

CONSTANTS
  Characters,  \* the classes that occur
  MaxText,     \* bound: characters of an arbitrary text
  MaxJson      \* bound: characters of a text that is JSON

VARIABLES
  state,     \* jr_state_t
  local,     \* inside of jr_read(): go, and the dispatch the code stands at
  text,      \* the characters that were read
  events     \* the calls of cb

jrVars == <<state, local, text, events>>

\* A dispatch goes through the table go, or through the one it names.
At(table) == <<table, 0>>
Outside == [in |-> FALSE, go |-> "none", at |-> At("none")]

Words == [n |-> <<"n", "u", "l", "l">>, t |-> <<"t", "r", "u", "e">>,
          f |-> <<"f", "a", "l", "s", "e">>]
TypeOfWord == [n |-> "null", t |-> "true", f |-> "false"]

-----------------------------------------------------------------------------
(***************************************************************************)
(* The tables: the label that a character leads to.                        *)
(***************************************************************************)
go_val(c) == CASE c = " " -> "next" [] c = "q" -> "str_s" [] c \in {"d", "-"} -> "num_s"
               [] c = "[" -> "arr_s" [] c = "{" -> "obj_s" [] c \in {"n", "t", "f"} -> "word"
               [] OTHER -> "err"
go_num(c) == IF c \in {".", "d"} THEN "next" ELSE "num_e"
go_str(c) == CASE c = "q" -> "str_e" [] c = "esc" -> "esc" [] c = "2" -> "utf8_2"
               [] c = "3" -> "utf8_3" [] c = "8" -> "err" [] OTHER -> "next"
go_esc(c) == IF c \in {"q", "/", "esc", "b", "f", "n", "r", "t"} THEN "next" ELSE "err"
go_obj(c) == CASE c \in {" ", ","} -> "next" [] c = "q" -> "kvp" [] c = "}" -> "obj_e"
               [] OTHER -> "err"
go_arr(c) == CASE c = "," -> "next" [] c = "]" -> "arr_e" [] OTHER -> go_val(c)

Goes(table, c) ==
  CASE table \in {"doc", "val"} -> go_val(c)
    [] table = "num" -> go_num(c)
    [] table = "str" -> go_str(c)
    [] table = "esc" -> go_esc(c)
    [] table = "utf8" -> IF c = "8" THEN "utf8" ELSE "err"
    [] table = "arr" -> go_arr(c)
    [] table = "obj" -> go_obj(c)
    [] table = "col" -> (CASE c = " " -> "next" [] c = ":" -> "col" [] OTHER -> "err")
    [] table = "obj_val" -> IF c = " " THEN "next" ELSE "val"

-----------------------------------------------------------------------------
(***************************************************************************)
(* The labels.  "s" is the state, the local variables and the events; what *)
(* a label does ends in the next dispatch, or in a dispatch of the same    *)
(* character.                                                              *)
(***************************************************************************)
All == [state |-> state, local |-> local, events |-> events]

Push(s, table) == [s EXCEPT !.state.go_stack = Append(@, s.local.go), !.local.go = table]
Pop(s) == [s EXCEPT !.local.go = Last(s.state.go_stack), !.state.go_stack = Front(@)]
Next1(s) == [s EXCEPT !.local.at = At("go")]
NextGo(s, table, i) == [s EXCEPT !.local.at = <<table, i>>]
Says(s, type, what) == [s EXCEPT !.events = Append(@, [type |-> type, text |-> what])]

Accumulates(s) == [s EXCEPT !.state.accum = <<>>, !.state.accumulating = TRUE]
\* The token without the character that ended it.
Token(s, type) == Says([s EXCEPT !.state.accumulating = FALSE], type, Front(s.state.accum))

RECURSIVE Label(_, _, _)
Label(l, s, c) ==
  CASE l = "next" -> Next1(s)
    [] l = "err" -> [Says(s, "error", <<c>>) EXCEPT !.state.error = TRUE, !.local = Outside]
    [] l = "num_s" -> Next1(Push([Accumulates(s) EXCEPT !.state.accum = <<c>>, !.state.in_number = TRUE], "num"))
    [] l = "num_e" -> LET e == Pop([Token(s, "number") EXCEPT !.state.in_number = FALSE])
                      IN Label(Goes(e.local.go, c), e, c)
    [] l = "str_s" -> Next1(Push([Accumulates(s) EXCEPT !.state.str_type = "string"], "str"))
    [] l = "kvp" -> Next1(Push(Push(Push([Accumulates(s) EXCEPT !.state.str_type = "key"],
                                         "obj_val"), "col"), "str"))
    [] l = "str_e" -> Next1(Pop(Token(s, s.state.str_type)))
    [] l = "esc" -> NextGo(s, "esc", 0)
    [] l = "utf8_2" -> NextGo([s EXCEPT !.state.utf8_mask = 1], "utf8", 0)
    [] l = "utf8_3" -> NextGo([s EXCEPT !.state.utf8_mask = 2], "utf8", 0)
    [] l = "utf8" -> [s EXCEPT !.state.utf8_mask = @ - 1, !.local.at = At("mask")]
    [] l = "utf8_valid" -> Label(Goes(s.local.go, c), s, c)
    [] l = "word" -> [s EXCEPT !.state.go_stack = Append(@, s.local.go), !.local.at = <<c, 2>>]
    [] l = "arr_s" -> Next1(Push(Says(s, "array_start", <<>>), "arr"))
    [] l = "obj_s" -> Next1(Push(Says(s, "object_start", <<>>), "obj"))
    [] l = "arr_e" -> Next1(Pop(Says(s, "array_end", <<>>)))
    [] l = "obj_e" -> Next1(Pop(Says(s, "object_end", <<>>)))
    [] l = "val" -> LET e == Pop(s) IN Label(go_val(c), e, c)
    [] l = "col" -> Next1(Pop(s))

\* The letter number i of null, true or false.
Word(s, w, i, c) ==
  IF c # Words[w][i] THEN Label("err", s, c)
  ELSE IF i < Len(Words[w]) THEN NextGo(s, w, i + 1)
  ELSE Next1(Pop(Says(s, TypeOfWord[w], <<>>)))

\* Through the mask every character is 0 when the sequence is complete.
Dispatch(s, c) ==
  LET at == s.local.at[1]
  IN CASE at = "go" -> Label(Goes(s.local.go, c), s, c)
       [] at = "mask" -> Label(IF s.state.utf8_mask = 0 THEN "utf8_valid" ELSE Goes("utf8", c), s, c)
       [] at \in {"esc", "utf8"} -> Label(Goes(at, c), s, c)
       [] OTHER -> Word(s, at, s.local.at[2], c)

-----------------------------------------------------------------------------
JrInit ==
  /\ state = [go |-> "none", resume |-> At("none"), go_stack |-> <<>>, utf8_mask |-> 0,
              str_type |-> "string", accum |-> <<>>, accumulating |-> FALSE,
              in_number |-> FALSE, done |-> FALSE, error |-> FALSE]
  /\ local = Outside /\ text = <<>> /\ events = <<>>

\* jr_read() begins with a chunk: at the dispatch where the last one ended.
Enter ==
  /\ ~local.in /\ ~state.error /\ ~state.done
  /\ local' = [in |-> TRUE, go |-> IF state.go = "none" THEN "doc" ELSE state.go,
               at |-> IF state.resume = At("none") THEN At("go") ELSE state.resume]
  /\ UNCHANGED <<state, text, events>>

\* The chunk ends.
Leave ==
  /\ local.in /\ local' = Outside
  /\ state' = [state EXCEPT !.go = local.go, !.resume = local.at]
  /\ UNCHANGED <<text, events>>

\* A character of the chunk, which belongs to the token that is being read.  Beyond
\* MaxText only texts go on that can still be one of Known.
Read(c, Known) ==
  /\ local.in /\ (Len(text) < MaxText \/ Append(text, c) \in Known) /\ text' = Append(text, c)
  /\ LET s == Dispatch([All EXCEPT !.state.accum = IF state.accumulating THEN Append(@, c) ELSE @], c)
     IN state' = s.state /\ local' = s.local /\ events' = s.events

jr_finish ==
  /\ ~local.in /\ ~state.error /\ ~state.done
  /\ LET n == IF state.in_number
                THEN [Says(All, "number", state.accum)
                        EXCEPT !.state.in_number = FALSE, !.state.accumulating = FALSE,
                               !.state.go = Last(state.go_stack), !.state.go_stack = Front(@)]
                ELSE All
         s == IF n.state.go_stack # <<>> \/ n.state.accumulating
                THEN [Says(n, "error", <<>>) EXCEPT !.state.error = TRUE]
                ELSE [n EXCEPT !.state.done = TRUE]
     IN state' = s.state /\ events' = s.events
  /\ UNCHANGED <<local, text>>

-----------------------------------------------------------------------------
(***************************************************************************)
(* JSON by its grammar: the texts of up to MaxJson characters, each with   *)
(* the events it stands for.                                               *)
(***************************************************************************)
Event(type, what) == [type |-> type, text |-> what]
Cat(A, B) == {[txt |-> a.txt \o b.txt, ev |-> a.ev \o b.ev] : a \in A, b \in B}
Lit(c) == {[txt |-> <<c>>, ev |-> <<>>]}
Fits(A) == {a \in A : Len(a.txt) <= MaxJson /\ \A i \in DOMAIN a.txt : a.txt[i] \in Characters}

\* Up to two characters of a string, escapes and sequences being one each.
Shown == {<<"d">>, <<"x">>, <<"n">>, <<"[">>, <<":">>, <<"esc", "q">>, <<"esc", "n">>, <<"2", "8">>, <<"3", "8", "8">>}
Body == {<<>>} \union Shown \union {a \o b : a, b \in Shown}
Strings(type) == Fits({[txt |-> <<"q">> \o b \o <<"q">>, ev |-> <<Event(type, b)>>] : b \in Body})
Numbers == {<<"d">>, <<"-", "d">>, <<"d", "d">>, <<"d", ".", "d">>}
Scalars == Strings("string")
           \union Fits({[txt |-> n, ev |-> <<Event("number", n)>>] : n \in Numbers})
           \union Fits({[txt |-> Words[w], ev |-> <<Event(TypeOfWord[w], <<>>)>>] : w \in DOMAIN Words})

Between(open, close, A) == Fits({[txt |-> <<open[1]>> \o a.txt \o <<close[1]>>,
                                  ev |-> <<Event(open[2], <<>>)>> \o a.ev \o <<Event(close[2], <<>>)>>] : a \in A})
Nothing == {[txt |-> <<>>, ev |-> <<>>]}

\* Values that nest at most n deep.
Nested[n \in 0..MaxJson] ==
  IF n = 0 THEN Scalars
  ELSE LET V == Nested[n - 1]
           P == Fits(Cat(Cat(Strings("key"), Lit(":")), V))
       IN V \union Between(<<"[", "array_start">>, <<"]", "array_end">>,
                           Nothing \union V \union Fits(Cat(Cat(V, Lit(",")), V)))
            \union Between(<<"{", "object_start">>, <<"}", "object_end">>, Nothing \union P)
Json == Nested[MaxJson \div 2]
PrefixesOf(Texts) == UNION {{SubSeq(j.txt, 1, n) : n \in DOMAIN j.txt} : j \in Texts}

-----------------------------------------------------------------------------
Types == {"error", "null", "true", "false", "number", "string", "array_start", "array_end",
          "object_start", "object_end", "key"}

JrTypeOK ==
  /\ state.go_stack \in Seq({"doc", "arr", "obj", "col", "obj_val"})
  /\ state.utf8_mask \in 0..2 /\ state.str_type \in {"string", "key"}
  /\ state.in_number => state.accumulating
  /\ local.in => local.go # "none" /\ ~state.error
  /\ \A i \in DOMAIN events : events[i].type \in Types

\* However a text of JSON is cut into chunks, it is read to the end without an error
\* and gives the events of its grammar: no token is lost, split or repeated at a cut.
\* "Texts" is Json, which is worked out once.
ReadsJson(Texts) ==
  \A j \in Texts :
    /\ IsPrefix(text, j.txt) =>
         IF state.error THEN Last(events).text = <<>>     \* by jr_finish() only
         ELSE state.done \/ IsPrefix(events, j.ev)
    /\ text = j.txt /\ (state.done \/ state.error) => state.done /\ events = j.ev

\* For any input: an end closes the innermost start, a key stands in an object and
\* is followed by one value, and nothing comes after an error.
RECURSIVE Nest(_, _)
Nest(open, i) ==
  LET e == IF i > Len(events) THEN "none" ELSE events[i].type
      top == IF open = <<>> THEN "doc" ELSE Last(open)
      up == IF open = <<>> THEN <<>> ELSE IF top = "value" THEN Front(open) ELSE open
  IN CASE e = "none" -> TRUE
       [] e = "error" -> i = Len(events)
       [] e = "key" -> top = "obj" /\ Nest(Append(open, "value"), i + 1)
       [] e \in {"array_end", "object_end"} ->
            top = (IF e = "array_end" THEN "arr" ELSE "obj") /\ Nest(Front(open), i + 1)
       [] OTHER -> top # "obj" /\ Nest(up \o (CASE e = "array_start" -> <<"arr">>
                                                [] e = "object_start" -> <<"obj">>
                                                [] OTHER -> <<>>), i + 1)
EventsNest == Nest(<<>>, 1)
=============================================================================
