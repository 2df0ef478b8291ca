-------------------------------- MODULE Repl --------------------------------
(***************************************************************************)
(* The line editor of the REPL (lib/repl.js), with the terminal that it    *)
(* writes to: the keys, the line and its cursor, what was killed, the      *)
(* history and the search in it, the drawing of the line, and what happens *)
(* to a line that is accepted.                                             *)
(*                                                                         *)
(* A text is a sequence of UTF-16 code units; "hi" and "lo" are the two of *)
(* one character.  A terminal wraps when a character is written behind the *)
(* last column, not before.  Prompts and what is printed are short: one    *)
(* character for each of their parts.  The showColors of the editor is     *)
(* set, as it is by default.                                               *)
(***************************************************************************)
EXTENDS Integers, Sequences, SequencesExt

CONSTANTS
  Sessions,     \* for each name of a session, the columns of the terminal, the lines with
                \* their cursors and the histories to begin with, the texts that are typed,
                \* the keys with functions that are hit, the outcomes of evaluations,
                \* "prints", "throws" (no Error) or "awaits", and how many keys are hit
  NULL

VARIABLES
  session,      \* its name
  ed,           \* the editor and its terminal
  replKeys

replVars == <<session, ed, replKeys>>

-----------------------------------------------------------------------------
(***************************************************************************)
(* Texts.                                                                  *)
(***************************************************************************)
\* substring() of JavaScript.
Sub(t, i, j) ==
  LET in(n) == IF n < 0 THEN 0 ELSE Min({n, Len(t)})
  IN SubSeq(t, Min({in(i), in(j)}) + 1, Max({in(i), in(j)}))
From(t, i) == Sub(t, i, Len(t))
CharAt(t, i) == IF i \in 0..(Len(t) - 1) THEN t[i + 1] ELSE ""

isWord(c) == c \in {"a", "b", "A"}
isTrailingSurrogate(c) == c = "lo"
Glyphs(t) == SelectSeq(t, LAMBDA c : ~isTrailingSurrogate(c))
ucsLength(t) == Len(Glyphs(t))
Trim(t) == LET last == {i \in DOMAIN t : t[i] # " "} IN IF last = {} THEN <<>> ELSE SubSeq(t, 1, Max(last))

\* The nearest positions at which words and characters begin and end.
skipWordBackward(t, pos) ==
  LET starts == {i \in 0..(pos - 1) : isWord(CharAt(t, i)) /\ ~isWord(CharAt(t, i - 1))}
  IN IF starts = {} THEN 0 ELSE Max(starts)
skipWordForward(t, pos) ==
  LET ends == {i \in (pos + 1)..Len(t) : isWord(CharAt(t, i - 1)) /\ ~isWord(CharAt(t, i))}
  IN IF ends = {} THEN Max({Len(t), pos}) ELSE Min(ends)
CharBackward(t, pos) == Max({i \in -1..(pos - 1) : ~isTrailingSurrogate(CharAt(t, i))})
CharForward(t, pos) == Min({i \in (pos + 1)..(pos + 1 + Len(t)) : ~isTrailingSurrogate(CharAt(t, i))})

-----------------------------------------------------------------------------
(***************************************************************************)
(* The terminal: its cells from the row of the prompt on, without the      *)
(* blanks at the end, and its cursor; "wrap" says that the cursor is in    *)
(* the last column, behind what was written there.                         *)
(***************************************************************************)
Row(t) == t.at \div t.columns
Cell(t, i) == IF i \in DOMAIN t.cells THEN t.cells[i] ELSE " "
Draw(t, s) ==
  LET from == IF t.wrap THEN t.at + 1 ELSE t.at
      end == from + Len(s)
  IN IF s = <<>> THEN t
     ELSE [t EXCEPT !.cells = Trim([i \in 1..Max({Len(t.cells), end}) |->
                                       IF i \in (from + 1)..end THEN s[i - from] ELSE Cell(t, i)]),
                     !.at = IF end % t.columns = 0 THEN end - 1 ELSE end,
                     !.wrap = end % t.columns = 0]
Puts(t, s) == Draw(t, Glyphs(s))
At(t, n) == [t EXCEPT !.at = n, !.wrap = FALSE]
NewLine(t) == At(t, (Row(t) + 1) * t.columns)
Backspace(t) == At(t, Max({t.at - 1, Row(t) * t.columns}))
SetColumn0(t) == At(t, Row(t) * t.columns)
Right(t, n) == At(t, Min({t.at + n, Row(t) * t.columns + t.columns - 1}))
Left(t, n) == At(t, Max({t.at - n, Row(t) * t.columns}))
Up(t) == At(t, Max({t.at - t.columns, t.at % t.columns}))
ClearLine(t) ==
  [t EXCEPT !.cells = Trim([i \in DOMAIN t.cells |-> IF (i - 1) \div t.columns = Row(t) THEN " " ELSE t.cells[i]])]
ClearBehind(t) == [t EXCEPT !.cells = Trim(SubSeq(t.cells, 1, Min({t.at, Len(t.cells)})))]
\* The row of the cursor is the first that is looked at.
FromRow(t) ==
  [t EXCEPT !.cells = SubSeq(t.cells, Row(t) * t.columns + 1, Len(t.cells)), !.at = t.at % t.columns]

-----------------------------------------------------------------------------
(***************************************************************************)
(* moveCursor(), and the drawing of the line.  "x" is termCursorX.         *)
(***************************************************************************)
\* Rows are left at their ends only.
MoveRight(s, delta) ==
  LET all == s.x + delta
      rows == all \div s.term.columns
      step[n \in Nat] == IF n = 0 THEN s.term ELSE NewLine(step[n - 1])
  IN [s EXCEPT !.term = Right(step[rows], IF rows = 0 THEN delta ELSE all % s.term.columns), !.x = all % s.term.columns]
MoveLeft(s, delta) ==
  LET all == s.x - delta
      rows == -(all \div s.term.columns)
      step[n \in Nat] == IF n = 0 THEN Left(s.term, Min({delta, s.x})) ELSE Right(Up(step[n - 1]), s.term.columns - 1)
  IN [s EXCEPT !.term = IF rows = 0 THEN step[0] ELSE Left(step[rows], s.term.columns - 1 - (all % s.term.columns)),
               !.x = all % s.term.columns]

\* "mess": the terminal is not as the editor takes it to be.
Redraw(s) ==
  LET start == MoveLeft(s, ucsLength(Sub(s.lastCmd, 0, s.lastCursorPos)))
      x == (start.x + ucsLength(s.cmd)) % s.term.columns
      put == Puts(start.term, s.cmd)
      next == IF x = 0 THEN Backspace(Puts(put, <<" ">>)) ELSE put
  IN [start EXCEPT !.term = ClearBehind(next), !.x = x, !.lastCmd = s.cmd, !.lastCursorPos = Len(s.cmd),
                   !.cleared = TRUE, !.mess = @ \/ \E i \in DOMAIN s.cmd : s.cmd[i] \in {"nl", "ctl"}]

\* The entries of the history, from historyIndex on and around, that contain the line.
Has(t, sub) == sub = <<>> \/ \E i \in 1..(Len(t) - Len(sub) + 1) : SubSeq(t, i, i + Len(sub) - 1) = sub
Rotated(s) == [i \in DOMAIN s.history |-> ((i - 1 + s.historyIndex) % Len(s.history)) + 1]
SearchMatches(s) == SelectSeq(Rotated(s), LAMBDA i : Has(s.history[i], s.cmd))
Match(s) ==
  LET ms == SearchMatches(s)
      n == IF s.searchState > 0 THEN s.searchState ELSE Len(ms) + 1 + s.searchState
  IN IF n \in DOMAIN ms THEN ms[n] ELSE 0
Entry(s, i) == IF i = 0 THEN <<>> ELSE s.history[i]

\* The line of a search is written over the row of the cursor, and the cursor left
\* before its last character.
DrawSearch(s) ==
  LET found == Entry(s, Match(s))
      line == <<"search">> \o s.cmd \o <<"'">> \o found
  IN [s EXCEPT !.searchIndex = Match(s), !.shown = found,
               !.term = Left(ClearBehind(Puts(SetColumn0(s.term), line)), 1), !.cleared = TRUE,
               !.lastCmd = line, !.lastCursorPos = s.cursorPos, !.x = 1 + s.cursorPos]

update(s) ==
  IF s.searchState # 0 THEN DrawSearch(s)
  ELSE LET r == IF s.cmd # s.lastCmd THEN Redraw(s) ELSE s
           moved == IF s.cursorPos > r.lastCursorPos
                    THEN MoveRight(r, ucsLength(Sub(s.cmd, r.lastCursorPos, s.cursorPos)))
                    ELSE MoveLeft(r, ucsLength(Sub(s.cmd, s.cursorPos, r.lastCursorPos)))
       IN [moved EXCEPT !.lastCursorPos = s.cursorPos, !.shown = s.cmd]

-----------------------------------------------------------------------------
(***************************************************************************)
(* Prompts and the beginning of a line.                                    *)
(***************************************************************************)
Prompt(s) == IF s.mexpr = <<>> THEN <<">">> ELSE <<".">>

readlineRemovePrompt(s) == [s EXCEPT !.term = SetColumn0(ClearLine(s.term)), !.x = 0]

readlinePrintPrompt(s) ==
  LET clear == IF s.x > 0 THEN readlineRemovePrompt(s) ELSE s
      row == FromRow(clear.term)
      put == Puts(row, s.prompt)
  IN [s EXCEPT !.term = put, !.x = ucsLength(s.prompt) % s.term.columns, !.lastCmd = <<>>, !.lastCursorPos = 0,
               !.mess = row.at # 0, !.cleared = put.cells = s.prompt]

readlineStart(s, defstr, cb) ==
  update(readlinePrintPrompt(
    [s EXCEPT !.cmd = defstr, !.cursorPos = Len(defstr), !.historyIndex = Len(s.history), !.callback = cb,
              !.prompt = Prompt(s), !.whole = NULL, !.crossed = @ \/ s.searchState # 0]))

cmdReadlineStart(s) == readlineStart(s, [i \in 1..s.level |-> " "], "cmd")

-----------------------------------------------------------------------------
(***************************************************************************)
(* What becomes of a line.                                                 *)
(***************************************************************************)
historyAdd(s, str) ==
  LET new == str # <<>> /\ (s.history = <<>> \/ str # Last(s.history))
      history == IF new THEN Append(s.history, str) ELSE s.history
  IN [s EXCEPT !.history = history, !.historyIndex = Len(history)]

\* colorizeJs() finds open brackets: how many, of the one kind that is typed.
Level(expr) ==
  FoldSeq(LAMBDA c, n : IF c = "(" THEN n + 1 ELSE IF c = ")" /\ n > 0 THEN n - 1 ELSE n, 0, expr)

\* printEvalResult() ends its line, printEvalError() does not if it is no Error.
Printed(s) == [s EXCEPT !.term = NewLine(Puts(s.term, <<"R">>))]
Thrown(s) == [s EXCEPT !.term = Puts(s.term, <<"T">>)]
handleCmdEnd(s) == cmdReadlineStart([s EXCEPT !.level = 0])

evalAndPrintStart(s, outcome) ==
  CASE outcome = "prints" -> [Printed(s) EXCEPT !.level = 0]
    [] outcome = "throws" -> [Thrown(s) EXCEPT !.level = 0]
    [] outcome = "awaits" -> [s EXCEPT !.level = 0, !.pending = @ + 1, !.mess = TRUE]

\* A directive is not evaluated.
handleCmd(s, expr, outcome) ==
  LET full == IF s.mexpr = <<>> THEN expr ELSE s.mexpr \o <<"nl">> \o expr
  IN IF expr = <<>> THEN s
     ELSE IF Head(expr) = "bs" THEN Printed(historyAdd(s, expr))
     ELSE IF Level(full) > 0 THEN [s EXCEPT !.mexpr = full, !.level = Level(full)]
     ELSE evalAndPrintStart(historyAdd([s EXCEPT !.mexpr = <<>>, !.accepted = Append(@, full)], full), outcome)

\* With the prompt that follows, which waits for an evaluation that awaits.
readlineHandleCmd(s, expr, outcome) ==
  LET ran == [s EXCEPT !.cmd = <<>>, !.ran = expr, !.saw = s.shown, !.shown = <<>>, !.whole = NULL]
      done == handleCmd(ran, expr, outcome)
  IN IF done.pending > s.pending THEN done ELSE cmdReadlineStart(done)

\* searchCb() runs what the search found, and updates.
searchCb(s) == [s EXCEPT !.searchState = 0, !.callback = "cmd", !.cmd = <<>>]
readlineCallback(s, outcome) ==
  LET found == s.callback = "search"
      done == readlineHandleCmd(IF found THEN searchCb(s) ELSE s,
                                IF found THEN Entry(s, s.searchIndex) ELSE s.cmd, outcome)
  IN IF found THEN update(done) ELSE done

\* handleCmd(null); the search takes no notice of it.
readlineCallbackNull(s) == IF s.callback = "search" THEN s ELSE cmdReadlineStart(s)

-----------------------------------------------------------------------------
(***************************************************************************)
(* The functions of the keys.                                              *)
(***************************************************************************)
insert(s, str) ==
  [s EXCEPT !.cmd = Sub(@, 0, s.cursorPos) \o str \o From(@, s.cursorPos), !.cursorPos = @ + Len(str)]

\* "whole" is the line before the first of the kills that follow each other; what is cut
\* before the cursor by deleteAll() is put behind what was cut after it.
killRegion(s, start, end, dir) ==
  LET cut == Sub(s.cmd, start, end)
      first == s.lastFun # "killRegion"
  IN [s EXCEPT !.clipBoard = IF first THEN cut ELSE IF dir < 0 THEN cut \o @ ELSE @ \o cut,
               !.cmd = Sub(@, 0, start) \o From(@, end),
               !.cursorPos = IF @ > end THEN @ - (end - start) ELSE IF @ > start THEN start ELSE @,
               !.thisFun = "killRegion",
               !.whole = IF first THEN s.cmd ELSE IF dir > 0 /\ start < s.cursorPos THEN NULL ELSE @]

deleteCharDir(s, dir) ==
  LET start == IF dir < 0 THEN CharBackward(s.cmd, s.cursorPos) ELSE s.cursorPos
      end == CharForward(s.cmd, start)
  IN IF start \notin 0..(Len(s.cmd) - 1) THEN s
     ELSE IF s.lastFun = "killRegion" THEN killRegion(s, start, end, dir)
     ELSE [s EXCEPT !.cmd = Sub(@, 0, start) \o From(@, end), !.cursorPos = start]

deleteAll(s) == killRegion(s, 0, Len(s.cmd), 1)

\* A character of two code units is not kept together.
transposeChars(s) ==
  LET pos == IF s.cursorPos = Len(s.cmd) THEN s.cursorPos - 1 ELSE s.cursorPos
  IN IF Len(s.cmd) > 1 /\ s.cursorPos > 0
     THEN [s EXCEPT !.cmd = Sub(@, 0, pos - 1) \o Sub(@, pos, pos + 1) \o Sub(@, pos - 1, pos) \o From(@, pos + 1),
                    !.cursorPos = pos + 1, !.torn = @ \/ Contains(Sub(s.cmd, pos - 1, pos + 1), "lo")
                                                      \/ Contains(Sub(s.cmd, pos - 1, pos + 1), "hi")]
     ELSE s

\* What follows the second word is dropped.
transposeWords(s) ==
  LET p1 == skipWordBackward(s.cmd, s.cursorPos)
      p2 == skipWordForward(s.cmd, p1)
      p4 == skipWordForward(s.cmd, s.cursorPos)
      p3 == skipWordBackward(s.cmd, p4)
  IN IF p1 < p2 /\ p2 <= s.cursorPos /\ s.cursorPos <= p3 /\ p3 < p4
     THEN [s EXCEPT !.cmd = Sub(@, 0, p1) \o Sub(@, p3, p4) \o Sub(@, p2, p3) \o Sub(@, p1, p2), !.cursorPos = p4]
     ELSE s

\* upcaseWord() and downcaseWord().
CaseWord(s, f) ==
  LET end == skipWordForward(s.cmd, s.cursorPos)
  IN [s EXCEPT !.cmd = [i \in DOMAIN @ |-> IF i \in (s.cursorPos + 1)..end /\ @[i] \in DOMAIN f THEN f[@[i]] ELSE @[i]]]

\* The line is kept in the history when it is left for an entry.
historyPrevious(s) ==
  LET kept == IF s.historyIndex = Len(s.history) /\ s.cmd # <<>> THEN Append(s.history, s.cmd) ELSE s.history
      entry == kept[s.historyIndex]
  IN IF s.historyIndex = 0 THEN s
     ELSE [s EXCEPT !.history = kept, !.historyIndex = @ - 1, !.cmd = entry, !.cursorPos = Len(entry)]
historyNext(s) ==
  LET entry == s.history[s.historyIndex + 2]
  IN IF s.historyIndex >= Len(s.history) - 1 THEN s
     ELSE [s EXCEPT !.historyIndex = @ + 1, !.cmd = entry, !.cursorPos = Len(entry)]

\* The nearest entry that begins as the line does before the cursor.
historySearch(s, dir) ==
  LET n == Len(s.history)
      index(i) == (n + i * dir + s.historyIndex) % n
      fits == {i \in 1..n : Sub(s.history[index(i) + 1], 0, s.cursorPos) = Sub(s.cmd, 0, s.cursorPos)}
  IN IF fits = {} THEN s
     ELSE [s EXCEPT !.historyIndex = index(Min(fits)), !.cmd = s.history[index(Min(fits)) + 1]]

\* The names that complete a word are those of two objects.
Names == {<<"a", "b">>, <<"a", "b", "a">>, <<"b", "b">>}
Common(S) == CHOOSE t \in UNION {{Sub(n, 0, i) : i \in 0..Len(n)} : n \in S} :
               /\ \A n \in S : IsPrefix(t, n)
               /\ \A u \in UNION {{Sub(n, 0, i) : i \in 0..Len(n)} : n \in S} :
                    (\A n \in S : IsPrefix(u, n)) => Len(u) <= Len(t)
completion(s) ==
  LET begin == Max({0} \union {i \in 1..s.cursorPos : ~isWord(CharAt(s.cmd, i - 1))})
      word == Sub(s.cmd, begin, s.cursorPos)
      tab == {n \in Names : IsPrefix(word, n)}
      completed == IF tab = {} THEN s ELSE insert(s, From(Common(tab), Len(word)))
      again == s.lastFun = "completion"
  IN IF tab = {} THEN s
     ELSE IF again /\ Cardinality(tab) = 1 THEN insert(completed, <<"(">>)
     ELSE IF again
          THEN readlinePrintPrompt([completed EXCEPT !.term = NewLine(Puts(NewLine(@), <<"L">>))])
     ELSE completed

Search(s, by) ==
  LET to == s.searchState + by
  IN update([s EXCEPT !.cmd = IF s.searchState = 0 THEN <<>> ELSE @, !.searchState = to, !.callback = "search",
                      !.whole = NULL, !.crossed = @ \/ to = 0, !.mess = @ \/ to = 0])

Mapping(from, to) == [c \in {from} |-> to]

\* Keys whose functions return nothing.
Does(s, key) ==
  CASE key = "beginningOfLine" -> [s EXCEPT !.cursorPos = 0]
    [] key = "endOfLine" -> [s EXCEPT !.cursorPos = Len(s.cmd)]
    [] key = "backwardChar" -> IF s.cursorPos > 0 THEN [s EXCEPT !.cursorPos = CharBackward(s.cmd, @)] ELSE s
    [] key = "forwardChar" -> IF s.cursorPos < Len(s.cmd) THEN [s EXCEPT !.cursorPos = CharForward(s.cmd, @)] ELSE s
    [] key = "backwardWord" -> [s EXCEPT !.cursorPos = skipWordBackward(s.cmd, @)]
    [] key = "forwardWord" -> [s EXCEPT !.cursorPos = skipWordForward(s.cmd, @)]
    [] key = "backwardDeleteChar" -> deleteCharDir(s, -1)
    [] key \in {"deleteChar", "controlD"} -> deleteCharDir(s, 1)
    [] key = "deleteAll" -> deleteAll(s)
    [] key = "controlL" -> IF s.cmd = <<>> THEN s ELSE deleteAll(s)
    [] key = "killLine" -> killRegion(s, s.cursorPos, Len(s.cmd), 1)
    [] key = "backwardKillLine" -> killRegion(s, 0, s.cursorPos, -1)
    [] key = "killWord" -> killRegion(s, s.cursorPos, skipWordForward(s.cmd, s.cursorPos), 1)
    [] key = "backwardKillWord" -> killRegion(s, skipWordBackward(s.cmd, s.cursorPos), s.cursorPos, -1)
    [] key = "yank" -> insert(s, s.clipBoard)
    [] key = "transposeChars" -> transposeChars(s)
    [] key = "transposeWords" -> transposeWords(s)
    [] key = "upcaseWord" -> CaseWord(s, Mapping("a", "A"))
    [] key = "downcaseWord" -> CaseWord(s, Mapping("A", "a"))
    [] key = "historyPrevious" -> historyPrevious(s)
    [] key = "historyNext" -> historyNext(s)
    [] key = "historySearchBackward" -> historySearch(s, -1)
    [] key = "historySearchForward" -> historySearch(s, 1)
    [] key = "completion" -> completion(s)
    [] key = "reset" -> [s EXCEPT !.cmd = <<>>, !.cursorPos = 0]
    [] key = "quotedInsert" -> [s EXCEPT !.quoteFlag = TRUE]
    [] key = "controlC" -> readlinePrintPrompt([s EXCEPT !.term = NewLine(Puts(NewLine(@), <<"C">>))])
    [] key = "escape" -> s

\* They leave a search with the line that it found, but for these.
StaysInSearch ==
  {"acceptLine", "backwardChar", "backwardDeleteChar", "backwardKillLine", "backwardKillWord", "backwardWord",
   "beginningOfLine", "deleteChar", "forwardChar", "forwardWord", "killLine", "killWord"}

\* The length of no entry is asked for, and the exception ends the REPL.
LeaveSearch(s) ==
  IF s.searchIndex = 0 THEN [s EXCEPT !.searchState = 0, !.exited = TRUE]
  ELSE LET clear == [s EXCEPT !.searchState = 0, !.term = ClearBehind(SetColumn0(@))]
       IN readlineStart(clear, s.history[s.searchIndex], "cmd")

\* Keys that are sequences of characters; the others are control characters.
Sequences == {"backwardWord", "forwardWord", "deleteChar", "historySearchBackward", "historySearchForward",
              "backwardKillWord", "killWord", "backwardKillLine", "upcaseWord", "downcaseWord", "transposeWords"}

Clamped(s) == [s EXCEPT !.cursorPos = Min({@, Len(s.cmd)})]

\* handleKey(), for text: a character or what is pasted as one.
TypeKey(s, text) ==
  update(Clamped([insert(s, text) EXCEPT !.quoteFlag = FALSE, !.lastFun = IF s.quoteFlag THEN @ ELSE "insert"]))

CommandKey(s, key, outcome) ==
  LET called == [s EXCEPT !.thisFun = key]
      quoted == [IF key \in Sequences THEN s ELSE insert(s, <<"ctl">>) EXCEPT !.quoteFlag = FALSE]
      done == Does(called, key)
  IN IF s.quoteFlag THEN update(Clamped(quoted))
     ELSE IF key = "acceptLine" THEN readlineCallback([called EXCEPT !.term = NewLine(@)], outcome)
     ELSE IF key \in {"abort", "reverseSearch", "forwardSearch"}
          THEN readlineCallbackNull(IF key = "abort" THEN [called EXCEPT !.cmd = <<>>, !.cursorPos = 0, !.whole = NULL]
                                    ELSE Search(called, IF key = "reverseSearch" THEN -1 ELSE 1))
     ELSE IF (key = "controlC" /\ s.lastFun = "controlC") \/ (key = "controlD" /\ s.cmd = <<>>)
          THEN [called EXCEPT !.term = NewLine(@), !.exited = TRUE]
     ELSE IF done.searchState # 0 /\ key \notin StaysInSearch THEN LeaveSearch(done)
     ELSE update(Clamped([done EXCEPT !.lastFun = done.thisFun]))

-----------------------------------------------------------------------------
\* The editor behind readlineStart() of the constructor, with a line that was typed.
Started(columns, line, cursor, history) ==
  LET new == [cmd |-> <<>>, cursorPos |-> 0, lastCmd |-> <<>>, lastCursorPos |-> 0, history |-> history,
              historyIndex |-> Len(history), clipBoard |-> <<>>, thisFun |-> "none", lastFun |-> "none",
              quoteFlag |-> FALSE, searchState |-> 0, searchIndex |-> 0, callback |-> "cmd", prompt |-> <<>>,
              mexpr |-> <<>>, level |-> 0, pending |-> 0, exited |-> FALSE,
              x |-> 0, term |-> [cells |-> <<>>, at |-> 0, wrap |-> FALSE, columns |-> columns],
              \* for the properties
              mess |-> FALSE, cleared |-> TRUE, whole |-> NULL, torn |-> FALSE, crossed |-> FALSE,
              shown |-> <<>>, ran |-> <<>>, saw |-> <<>>, accepted |-> <<>>]
      drawn == update([readlineStart(new, <<>>, "cmd") EXCEPT !.cmd = line, !.cursorPos = Len(line)])
  IN update([drawn EXCEPT !.cursorPos = cursor])

ReplInit ==
  /\ session \in DOMAIN Sessions
  /\ \E ses \in {Sessions[session]} :
       ed \in {Started(ses.columns, l[1], l[2], h) : l \in ses.lines, h \in ses.histories}
  /\ replKeys = 0

Hit(new) ==
  /\ ~ed.exited /\ replKeys < Sessions[session].most /\ replKeys' = replKeys + 1
  /\ ed' = new /\ UNCHANGED session

\* The promise of an evaluation is settled while the next line may be typed.
AwaitSettles ==
  /\ ed.pending > 0 /\ ~ed.exited
  /\ ed' = handleCmdEnd(Printed([ed EXCEPT !.pending = @ - 1]))
  /\ UNCHANGED <<session, replKeys>>

ReplNext ==
  \/ \E text \in Sessions[session].texts : Hit(TypeKey(ed, text))
  \/ \E key \in Sessions[session].keys :
       \E outcome \in (IF key = "acceptLine" THEN Sessions[session].outcomes ELSE {"prints"}) :
         Hit(CommandKey(ed, key, outcome))
  \/ AwaitSettles

-----------------------------------------------------------------------------
(***************************************************************************)
(* The file of the history.                                                *)
(***************************************************************************)
Folded(text) ==
  FoldLeft(LAMBDA t, c : IF c \in {" ", "nl"} THEN (IF t # <<>> /\ Last(t) = " " THEN t ELSE Append(t, " "))
                         ELSE Append(t, c), <<>>, text)
Filled(texts) == SelectSeq(texts, LAMBDA t : \E i \in DOMAIN t : t[i] \notin {" ", "nl"})
EndsInBackslash(text) == text # <<>> /\ Last(text) = "bs"

\* Its lines; the last of them is empty.
historySave(h) == LET es == Filled(h) IN Append([i \in DOMAIN es |-> Folded(es[i])], <<>>)
historyLoad(lines) ==
  Filled(FoldLeft(LAMBDA es, l : IF es # <<>> /\ EndsInBackslash(Last(es))
                                 THEN Append(Front(es), Front(Last(es)) \o <<"nl">> \o l)
                                 ELSE Append(es, l), <<>>, lines))

-----------------------------------------------------------------------------
(***************************************************************************)
(* Properties.                                                             *)
(***************************************************************************)
\* The cursor is in the line and between two characters, which stay whole unless
\* transposeChars() takes them apart.
LineSound ==
  /\ ed.searchState # 0 \/ ed.crossed \/ ed.pending > 0 \/ ed.exited \/ ed.cursorPos \in 0..Len(ed.cmd)
  /\ ~ed.torn => /\ ~isTrailingSurrogate(CharAt(ed.cmd, ed.cursorPos))
                 /\ \A i \in DOMAIN ed.cmd : ed.cmd[i] = "lo" <=> i > 1 /\ ed.cmd[i - 1] = "hi"

\* The terminal shows the prompt and the line, over as many rows as they need, and has
\* its cursor where the cursor of the line is; whenever update() drew the line, there is
\* nothing behind.  Not while an evaluation has the terminal, after a line with a line
\* feed, or when a search was left by counting it down.
ScreenShows ==
  LET line == Glyphs(ed.prompt \o ed.cmd)
      upto == ucsLength(ed.prompt \o Sub(ed.cmd, 0, ed.cursorPos))
  IN ed.mess \/ ed.exited \/ ed.searchState # 0 \/
       /\ ed.cleared => ed.term.cells = Trim(line)
       /\ \A i \in DOMAIN line : Cell(ed.term, i) = line[i]
       /\ ed.term.at = upto /\ ~ed.term.wrap /\ ed.x = upto % ed.term.columns

\* What kills that follow each other have taken, yank() would put back as it was.
KillsComeBack ==
  ed.whole # NULL /\ ed.lastFun = "killRegion" /\ ~ed.torn /\ ~ed.exited => insert(ed, ed.clipBoard).cmd = ed.whole

\* Every line that was evaluated is in the history, in this order, also when lines that
\* were not are put there; a history without backslashes at its ends of lines is there
\* again, blanks folded, after a restart.
HistoryKept ==
  LET found == FoldLeft(LAMBDA n, e : LET at == {i \in DOMAIN ed.history : i >= n /\ ed.history[i] = e}
                                      IN IF at = {} THEN Len(ed.history) + 1 ELSE Min(at), 1, ed.accepted)
      entries == Filled(ed.history)
  IN /\ found <= Len(ed.history) \/ ed.accepted = <<>>
     /\ (\A i \in DOMAIN entries : ~EndsInBackslash(entries[i])) =>
          historyLoad(historySave(ed.history)) = [i \in DOMAIN entries |-> Folded(entries[i])]

\* The line that is accepted is the one that the user saw, typed or found by a search,
\* unless a search was counted down or the end of an evaluation came into it.
RunsWhatIsShown ==
  ed.crossed \/ /\ ed.ran = ed.saw
                /\ ~ed.exited => (ed.searchState # 0 <=> ed.callback = "search")
=============================================================================
