------------------------------ MODULE ReplText ------------------------------
(***************************************************************************)
(* What the REPL (lib/repl.js) makes of the bytes that the terminal sends, *)
(* and of the text of a line: handleByte() and handleChar() put keys       *)
(* together, and colorizeJs() finds the style of each character and which  *)
(* brackets, strings and comments are open at the end, on which handleCmd()*)
(* goes on to ask for the rest.                                            *)
(***************************************************************************)
EXTENDS Integers, Sequences, SequencesExt

CONSTANTS MaxTyped, MaxTokens   \* bounds of the keys and of the tokens of a text

VARIABLES
  typed,     \* the keys that were hit
  program    \* the tokens of a text

replTextVars == <<typed, program>>

Flat(seqs) == FoldLeft(LAMBDA t, s : t \o s, <<>>, seqs)

-----------------------------------------------------------------------------
(***************************************************************************)
(* Keys.  "L2" to "L4" begin a character of so many bytes, "t" is one of   *)
(* the others, and "x" and "ctl" are any other characters of one byte.     *)
(***************************************************************************)
LengthOf == [L2 |-> 1, L3 |-> 2, L4 |-> 3]
Chars == {<<"x">>, <<"ctl">>, <<"L2", "t">>, <<"L3", "t", "t">>, <<"L4", "t", "t", "t">>}
Escapes == {<<"esc", "[", "A">>, <<"esc", "[", "1", ";", "1", "A">>, <<"esc", "O", "A">>, <<"esc", "x">>}
Mouse == <<"esc", "[", "<", "1", ";", "1", "M">>
Broken == <<"L3", "t">>

InNumbers == {";", "1"}
NewDecoder == [utf8_state |-> 0, utf8_val |-> <<>>, readlineState |-> 0, readlineKeys |-> <<>>, keys |-> <<>>]

handleKey(d, keys) == [d EXCEPT !.keys = Append(@, keys), !.readlineState = 0, !.readlineKeys = <<>>]
Collect(d, c, next) == [d EXCEPT !.readlineKeys = @ \o c, !.readlineState = next]

handleChar0(d, c) == IF c = <<"esc">> THEN Collect(d, c, 1) ELSE handleKey(d, c)

\* A mouse's sequence ends before a character that cannot belong to it.
handleChar(d, c) ==
  CASE d.readlineState = 0 -> handleChar0(d, c)
    [] d.readlineState = 1 -> IF c = <<"[">> THEN Collect(d, c, 2)
                              ELSE IF c = <<"O">> THEN Collect(d, c, 3)
                              ELSE handleKey(d, d.readlineKeys \o c)
    [] d.readlineState = 2 -> IF c = <<"<">> THEN Collect(d, c, 4)
                              ELSE IF c[1] \in InNumbers THEN Collect(d, c, 2)
                              ELSE handleKey(d, d.readlineKeys \o c)
    [] d.readlineState = 3 -> handleKey(d, d.readlineKeys \o c)
    [] d.readlineState = 4 -> IF c[1] \in InNumbers \union {"M", "m"} THEN Collect(d, c, 4)
                              ELSE handleChar0([d EXCEPT !.readlineState = 0, !.readlineKeys = <<>>], c)

handleByte(d, c) ==
  IF d.utf8_state # 0 /\ c = "t"
  THEN LET all == [d EXCEPT !.utf8_val = Append(@, c), !.utf8_state = @ - 1]
       IN IF all.utf8_state = 0 THEN handleChar(all, all.utf8_val) ELSE all
  ELSE IF c \in DOMAIN LengthOf THEN [d EXCEPT !.utf8_state = LengthOf[c], !.utf8_val = <<c>>]
  ELSE handleChar([d EXCEPT !.utf8_state = 0], <<c>>)

\* termReadHandler(), for all bytes that were read.
Decode(bytes) == FoldLeft(handleByte, NewDecoder, bytes)

-----------------------------------------------------------------------------
(***************************************************************************)
(* colorizeJs().  The words are "a" (a name), "k" (a keyword), "t" ("this" *)
(* and others behind which no regular expression stands) and "v" (a type); *)
(* positions count from 1.                                                 *)
(***************************************************************************)
WordChars == {"a", "k", "t", "v", "1"}
Closes == [x \in {"(", "[", "{"} |-> CASE x = "(" -> ")" [] x = "[" -> "]" [] OTHER -> "}"]
Closing == {Closes[x] : x \in DOMAIN Closes}
FirstIn(S, otherwise) == IF S = {} THEN otherwise ELSE Min(S)

\* The last character before which the word, or the number, ends.
WordEnd(str, i) == FirstIn({j \in i..Len(str) : str[j] \notin WordChars}, Len(str) + 1)
NumberEnd(str, i) ==
  FirstIn({j \in i..Len(str) : ~(str[j] \in WordChars \/ (str[j] = "." /\ (j = Len(str) \/ str[j + 1] # ".")))},
          Len(str) + 1)

\* What a token does: where it ends, its style, what it leaves open, and whether a regular
\* expression may follow ("same" if it does not say).
Token(end, style, open, canRegex) == [end |-> end, style |-> style, open |-> open, canRegex |-> canRegex]

parseBlockComment(str, i) ==
  LET ends == {j \in (i + 2)..(Len(str) - 1) : str[j] = "*" /\ str[j + 1] = "/"}
  IN IF ends # {} THEN Token(Min(ends) + 2, "comment", <<>>, "same")
     ELSE Token(Max({i + 2, Len(str)}), "comment", <<"/">>, "same")

parseLineComment(str, i) ==
  Token(FirstIn({j \in (i + 2)..Len(str) : str[j] = "nl"}, Len(str) + 1), "comment", <<>>, "same")

\* Whether each character is one behind a backslash.
Escaped(str, i) ==
  LET e[j \in Nat] == j > i + 1 /\ str[j - 1] = "bs" /\ ~e[j - 1] IN e
ErrorIf(str, i, end, style) == IF \E j \in i..(end - 1) : str[j] = "nl" THEN "error" ELSE style

parseString(str, i) ==
  LET ends == {j \in (i + 1)..Len(str) : str[j] = str[i] /\ ~Escaped(str, i)[j]}
      end == FirstIn({j + 1 : j \in ends}, Len(str) + 1)
  IN Token(end, ErrorIf(str, i, end, "string"), IF ends = {} THEN <<str[i]>> ELSE <<>>, "no")

\* class: "out" of brackets before the character, right behind one that opens, or "in"
\* them; a bracket right behind the one that opens is a character of the class.
parseRegex(str, i) ==
  LET plain(j) == ~Escaped(str, i)[j]
      class[j \in Nat] ==
        IF j <= i + 1 THEN "out"
        ELSE IF class[j - 1] = "out" THEN (IF plain(j - 1) /\ str[j - 1] = "[" THEN "behind" ELSE "out")
        ELSE IF class[j - 1] = "in" /\ plain(j - 1) /\ str[j - 1] = "]" THEN "out" ELSE "in"
      ends == {j \in (i + 1)..Len(str) : str[j] = "/" /\ plain(j) /\ class[j] = "out"}
      end == IF ends = {} THEN Len(str) + 1 ELSE WordEnd(str, Min(ends) + 1)
      open == IF class[Len(str) + 1] # "out" THEN <<"/", "[">> ELSE <<"/">>
  IN Token(end, ErrorIf(str, i, end, "regex"), IF ends = {} THEN open ELSE <<>>, "no")

parseNumber(str, i) == Token(NumberEnd(str, i), "number", <<>>, "no")

parseIdentifier(str, i) ==
  LET end == WordEnd(str, i)
      w == SubSeq(str, i, end - 1)
      next == {j \in end..Len(str) : str[j] # " "}
      call == next # {} /\ str[Min(next)] = "("
  IN IF w = <<"k">> THEN Token(end, "keyword", <<>>, "yes")
     ELSE IF w = <<"t">> THEN Token(end, "keyword", <<>>, "no")
     ELSE IF call THEN Token(end, "function", <<>>, "yes")
     ELSE IF w = <<"v">> THEN Token(end, "type", <<>>, "yes")
     ELSE Token(end, "identifier", <<>>, "no")

Begins(str, i, two) == i < Len(str) /\ str[i] = two[1] /\ str[i + 1] = two[2]

\* The token that begins at i; "" is the style of what sets none.
TokenAt(str, i, canRegex) ==
  LET c == str[i] IN
  CASE c \in {" ", "nl"} -> Token(i + 1, "", <<>>, "same")
    [] c = "+" -> IF Begins(str, i, <<"+", "+">>) THEN Token(i + 2, "", <<>>, "same") ELSE Token(i + 1, "", <<>>, "yes")
    [] c = "/" -> IF Begins(str, i, <<"/", "*">>) THEN parseBlockComment(str, i)
                  ELSE IF Begins(str, i, <<"/", "/">>) THEN parseLineComment(str, i)
                  ELSE IF canRegex THEN parseRegex(str, i)
                  ELSE Token(i + 1, "", <<>>, "yes")
    [] c \in {"quot", "tick"} -> parseString(str, i)
    [] c \in DOMAIN Closes -> Token(i + 1, "", <<c>>, "yes")
    [] c \in Closing -> Token(i + 1, "error", <<>>, "no")
    [] c = "1" -> parseNumber(str, i)
    [] c \in WordChars -> parseIdentifier(str, i)
    [] OTHER -> Token(i + 1, "", <<>>, "yes")

\* A bracket that closes the last one that is open.
Balances(s, c) == s.level > 0 /\ s.state # <<>> /\ Last(s.state) \in DOMAIN Closes /\ Closes[Last(s.state)] = c

Styled(r, from, to, style) ==
  r \o [i \in 1..(from - 1 - Len(r)) |-> "default"] \o [i \in 1..(to - from) |-> style]

RECURSIVE Colorize(_, _, _)
Colorize(str, i, s) ==
  IF i > Len(str) THEN [s EXCEPT !.r = Styled(@, Len(str) + 1, Len(str) + 1, "default")]
  ELSE LET token == TokenAt(str, i, s.canRegex)
           balanced == str[i] \in Closing /\ Balances(s, str[i])
           can == IF token.canRegex = "same" THEN s.canRegex ELSE token.canRegex = "yes"
       IN Colorize(str, token.end,
            [s EXCEPT !.canRegex = can,
                      !.state = IF balanced THEN Front(@) ELSE @ \o token.open,
                      !.level = IF balanced THEN @ - 1 ELSE IF str[i] \in DOMAIN Closes THEN @ + 1 ELSE @,
                      !.r = IF token.style = "" \/ balanced THEN @ ELSE Styled(@, i, token.end, token.style)])

colorizeJs(str) == Colorize(str, 1, [state |-> <<>>, level |-> 0, canRegex |-> TRUE, r |-> <<>>])

-----------------------------------------------------------------------------
(***************************************************************************)
(* Texts by their tokens, with a blank behind each.                        *)
(***************************************************************************)
Brackets == {<<"(">>, <<")">>, <<"[">>, <<"]">>}
Strings == {<<"quot", "(", "bs", "quot", "quot">>, <<"tick", "nl", "]", "tick">>}
Comments == {<<"/", "*", ")", "quot", "*", "/">>, <<"/", "/", "[", "nl">>}
Regexes == {<<"/", "[", "/", "]", "(", "/", "a">>, <<"/", "[", "]", "[", "/", "]", "bs", "/", "/">>}
Operands == {<<"a">>, <<"t">>, <<"1", ".", "1">>}
Operators == {<<"+">>, <<"k">>, <<"v">>}
Divide == <<"/">>
Tokens == Brackets \union Strings \union Comments \union Regexes \union Operands \union Operators \union {Divide}

\* Behind which of them a regular expression stands, and behind which a division; what is
\* between them does not count.  Behind a closing bracket both may, but colorizeJs()
\* takes what follows for a division.
Before(ts, i) ==
  LET js == {j \in 1..(i - 1) : ts[j] \notin Comments} IN IF js = {} THEN <<"+">> ELSE ts[Max(js)]
Expects(t) == t \in Operators \union {Divide, <<"(">>, <<"[">>}
IsProgram(ts) ==
  \A i \in DOMAIN ts : /\ ts[i] \in Regexes => Expects(Before(ts, i))
                       /\ ts[i] = Divide => ~Expects(Before(ts, i))
Spaced(ts) == [i \in DOMAIN ts |-> ts[i] \o <<" ">>]

ReplTextInit ==
  \/ typed \in UNION {[1..n -> Chars \union Escapes \union {Mouse, Broken}] : n \in 0..MaxTyped} /\ program = <<>>
  \/ typed = <<>> /\ program \in {ts \in UNION {[1..n -> Tokens] : n \in 1..MaxTokens} : IsProgram(ts)}

-----------------------------------------------------------------------------
(***************************************************************************)
(* Properties.                                                             *)
(***************************************************************************)
\* The keys that are made of the bytes are those that were hit, in their order: the mouse
\* makes none, and a character that breaks off costs no other key.
KeysDecoded == Decode(Flat(typed)).keys = SelectSeq(typed, LAMBDA k : k # Mouse /\ k # Broken)

\* What is open at the end is what the brackets of the text leave open, whatever stands
\* in its strings, comments and regular expressions; these have one style from their
\* beginning to their end.
Opened(ts) ==
  FoldLeft(LAMBDA open, t : IF t \in {<<"(">>, <<"[">>} THEN open \o t
                            ELSE IF open # <<>> /\ t = <<Closes[Last(open)]>> THEN Front(open) ELSE open, <<>>, ts)
StyleOf(t) ==
  IF t \in Strings \union Comments \union Regexes
  THEN IF t \in Comments THEN "comment" ELSE IF t \in Regexes THEN "regex"
       ELSE IF Contains(t, "nl") THEN "error" ELSE "string"
  ELSE ""
UnfinishedNoticed ==
  program # <<>> =>
    LET text == Flat(Spaced(program))
        colors == colorizeJs(text)
        from(i) == Len(Flat(Spaced(SubSeq(program, 1, i - 1))))
    IN /\ colors.state = Opened(program) /\ colors.level = Len(colors.state)
       /\ Len(colors.r) = Len(text)
       /\ \A i \in DOMAIN program : StyleOf(program[i]) # "" =>
            \A j \in DOMAIN program[i] :
              program[i][j] # "nl" \/ program[i] \in Strings => colors.r[from(i) + j] = StyleOf(program[i])
=============================================================================
