------------------------------- MODULE MCData -------------------------------
(***************************************************************************)
(* Instances of JsonReader, XmlReader, Lexer, Path, Pointer, StreamUtils,  *)
(* List, Deep, TreeWalker, Repl and ReplText for TLC, one of them in each  *)
(* behaviour: "which" says which, and the others stay as they start.       *)
(***************************************************************************)
EXTENDS Integers, Sequences, TLC

CONSTANTS
  Characters, MaxText, MaxJson,                                     \* JsonReader
  XmlChars, Tolerant, MaxInput, MaxDocument,                        \* XmlReader
  Lists, Nodes, Values, Iters, MaxListCalls, NULL,                  \* List
  PathChars, MaxPath, MaxPair, MaxPieces,                           \* Path
  LexLetters, MaxLexText, MaxSeq, MaxDepth,                         \* Lexer
  StreamLetters, UrlLetters, MaxStream, BufferSizes,                \* StreamUtils
  MaxOdd, MaxWalkCalls,                                             \* Deep, TreeWalker
  MaxPointerCalls,                                                  \* Pointer
  MaxEditKeys, MaxRecallKeys, MaxTyped, MaxTokens                   \* Repl, ReplText

ASSUME DataAssumption ==
  /\ \A n \in {MaxText, MaxJson, MaxInput, MaxDocument, MaxListCalls,
              MaxPath, MaxPair, MaxPieces,
              MaxLexText, MaxSeq, MaxDepth, MaxStream, MaxOdd, MaxWalkCalls,
              MaxPointerCalls, MaxEditKeys, MaxRecallKeys, MaxTyped, MaxTokens} : n \in Nat
  /\ BufferSizes \subseteq Nat \ {0}
  /\ {"/", "."} \subseteq PathChars
  /\ Tolerant \in BOOLEAN
  /\ Values \subseteq Int /\ Iters \subseteq Int
  /\ Lists \intersect Nodes = {} /\ NULL \notin Lists \union Nodes

VARIABLES
  which,
  state, local, text, events,                                       \* JsonReader
  p, input, eof, seen,                                              \* XmlReader
  heap, size, wrappers, iters, listCalls,                           \* List
  path, other, pattern,                                             \* Path
  source, lexer, trail,                                             \* Lexer
  stream, pipe, tracker,                                            \* StreamUtils
  objects,                                                          \* Deep, TreeWalker
  iter, asked, strayed,                                             \* Deep
  walker, walkCalls,                                                \* TreeWalker
  keysOf, atomRefs, borrowed, freed, pointerCalls,                         \* Pointer
  ed, replKeys, typed, program                                      \* Repl, ReplText

\* The sequences of values that the methods of List are given.
Args == {<<>>, <<1>>, <<2, 1, 2>>}

\* What the patterns of fnmatch() are put together from.
Pieces == {<<"a">>, <<".">>, <<"/">>, <<"*">>, <<"?">>,
           <<"[", "a", "]">>, <<"[", "!", "a", "]">>, <<"[", ".", "-", "a", "]">>}

\* The rules of the lexer's program: words, one that enters a state and one that
\* leaves it, blanks that are skipped, and lines.
Rules ==
  LET rule(states, letters, many, does) ==
        [states |-> states, letters |-> letters, many |-> many, does |-> does]
      both == {"INITIAL", "inner"}
  IN <<rule({"INITIAL"}, {"a", "E", "e"}, TRUE, "none"), rule({"INITIAL"}, {"a"}, FALSE, "push"),
       rule(both, {" "}, TRUE, "skip"), rule({"inner"}, {"a", " "}, FALSE, "pop"),
       rule(both, {"nl"}, FALSE, "push")>>

\* Two objects and an array that hold leaves and each other: every one that the root
\* leads to; some for the walker, and one for the iterator, under which they change.
Root == "r"
JsArrays == {"y"}
Spare == <<"new1", "new2">>
ObjectsOf(r, x, y) ==
  LET entries(keys, values) == [i \in DOMAIN values |-> [key |-> keys[i], value |-> values[i]]]
  IN ("r" :> entries(<<"a", "b">>, r)) @@ ("x" :> entries(<<"a", "b">>, x)) @@ ("y" :> entries(<<"0", "1">>, y))
UpTo(S, n) == UNION {[1..m -> S] : m \in 0..n}
AllObjects ==
  LET values(os, objs) == objs \union UNION {{os[o][i].value : i \in DOMAIN os[o]} : o \in objs \intersect DOMAIN os}
  IN {os \in {ObjectsOf(r, x, y) : r, x \in UpTo({"1", "r", "x", "y"}, 2), y \in UpTo({"1", "2", "r", "x", "y"}, 1)} :
        \A o \in DOMAIN os : o \in values(os, values(os, {"r"})) \/ os[o] = <<>>}
Changing == {ObjectsOf(<<"x", "1">>, <<"x", "y">>, <<"1">>)}
Shapes ==
  Changing \union
  {ObjectsOf(<<"x", "1">>, <<"y", "1">>, <<"1">>), ObjectsOf(<<"x", "y">>, <<"x", "y">>, <<"1">>),
   ObjectsOf(<<"x", "x">>, <<"1", "y">>, <<"r", "2">>), ObjectsOf(<<"y", "x">>, <<"1", "1">>, <<"x", "1">>),
   ObjectsOf(<<>>, <<>>, <<>>)}
Masks == {{"leaf", "object"}, {"leaf"}}
Filters == {{"1", "2", "r", "x", "y"}, {"r", "x", "2"}}
DeepOptions ==
  LET all == [max |-> 99, filter |-> "key_of", atoms |-> {}, negate |-> TRUE, mask |-> {"leaf", "object"}]
  IN {all, [all EXCEPT !.max = 2], [all EXCEPT !.mask = {"leaf"}],
      [all EXCEPT !.atoms = {"a"}, !.negate = FALSE],
      [all EXCEPT !.filter = "has_key", !.atoms = {"b"}, !.negate = FALSE]}

\* The keys of the pointers: few, and every text of up to two characters.
FewKeys == {<<"a">>, <<"1">>}
TextKeys == UNION {[1..n -> {"a", ".", "1", "]"}] : n \in 1..2}

\* The lines in which keys edit, each with the cursor between any two characters, and the
\* keys; and those that recall lines from histories and accept them.
EditLines ==
  LET lines == {<<"a", " ", "a", "b">>, <<"a", "hi", "lo", " ", "b">>, <<" ", "a", " ">>,
                <<"a", "a", "a", " ", "b", "b", "a", " ", "a">>}
  IN {l \in lines \X (0..9) : l[2] <= Len(l[1]) /\ (l[2] < Len(l[1]) => l[1][l[2] + 1] # "lo")}
EditTexts == {<<"a">>, <<" ">>, <<"hi", "lo">>}
EditKeys ==
  {"beginningOfLine", "endOfLine", "backwardChar", "forwardChar", "backwardWord", "forwardWord",
   "backwardDeleteChar", "deleteChar", "deleteAll", "killLine", "backwardKillLine", "killWord",
   "backwardKillWord", "yank", "transposeChars", "transposeWords", "upcaseWord", "downcaseWord",
   "completion", "abort", "quotedInsert", "reset", "controlC", "controlL", "controlD", "escape"}
RecallLines == {<<<<>>, 0>>}
RecallTexts == {<<"a">>, <<"b">>, <<"(">>, <<")">>}
RecallKeys ==
  {"acceptLine", "abort", "historyPrevious", "historyNext", "historySearchBackward", "historySearchForward",
   "reverseSearch", "forwardSearch", "controlC", "backwardChar", "killLine", "yank"}
RecallHistories ==
  {<<>>, <<<<"a">>, <<"b", "a">>>>, <<<<"b">>, <<"bs", "a">>, <<"a", " ", "bs">>>>}
ReplSessions ==
  [editing |-> [columns |-> 4, lines |-> EditLines, histories |-> {<<>>}, texts |-> EditTexts,
                keys |-> EditKeys, outcomes |-> {}, most |-> MaxEditKeys],
   recalling |-> [columns |-> 9, lines |-> RecallLines, histories |-> RecallHistories, texts |-> RecallTexts,
                  keys |-> RecallKeys, outcomes |-> {"prints", "throws", "awaits"}, most |-> MaxRecallKeys]]

J == INSTANCE JsonReader
X == INSTANCE XmlReader
L == INSTANCE List
F == INSTANCE Path
S == INSTANCE Lexer
U == INSTANCE StreamUtils
D == INSTANCE Deep WITH heap <- objects
T == INSTANCE TreeWalker WITH heap <- objects
P == INSTANCE Pointer WITH Pointers <- {1, 2}, PointerKeys <- FewKeys
R == INSTANCE Repl WITH session <- which, Sessions <- ReplSessions
C == INSTANCE ReplText
K == INSTANCE Pointer WITH Pointers <- {1}, PointerKeys <- TextKeys, MaxPointerCalls <- 1

jrVars == <<state, local, text, events>>
xmlVars == <<p, input, eof, seen>>
listVars == <<heap, size, wrappers, iters, listCalls>>
pathVars == <<path, other, pattern>>
lexVars == <<source, lexer, trail>>
streamVars == <<stream, pipe, tracker>>
objectVars == <<objects, iter, asked, strayed, walker, walkCalls>>
pointerVars == <<keysOf, atomRefs, borrowed, freed, pointerCalls>>
vars == <<which, jrVars, xmlVars, listVars, pathVars, lexVars, streamVars, objectVars, pointerVars,
          ed, replKeys, typed, program>>

\* The texts of the grammars; only what begins one of them goes on beyond the
\* bound for arbitrary texts.
JsonTexts == J!Json
XmlTexts == X!Documents
KnownJson == J!PrefixesOf(JsonTexts)
KnownXml == X!Beginnings(XmlTexts)

-----------------------------------------------------------------------------
Init ==
  /\ which \in {"json", "xml", "list", "path", "lexer", "streams", "deep", "functions", "walker",
               "pointers", "keys", "editing", "recalling", "texts"}
  /\ J!JrInit /\ X!XmlInit /\ L!ListInit /\ F!PathInit
  /\ IF which = "lexer" THEN S!LexInit ELSE source = NULL /\ lexer = NULL /\ trail = NULL
  /\ IF which = "streams" THEN U!StreamInit ELSE stream = NULL /\ pipe = NULL /\ tracker = NULL
  /\ CASE which = "deep" -> D!DeepInit(Changing)
       [] which = "functions" -> objects \in AllObjects /\ iter = NULL /\ asked = NULL /\ strayed = NULL
       [] which = "walker" -> T!WalkerInit(Shapes) /\ iter = NULL /\ asked = NULL /\ strayed = NULL
       [] OTHER -> objects = NULL /\ iter = NULL /\ asked = NULL /\ strayed = NULL
  /\ which # "walker" => walker = NULL /\ walkCalls = NULL
  /\ IF which \in DOMAIN ReplSessions THEN R!ReplInit ELSE ed = NULL /\ replKeys = NULL
  /\ IF which = "texts" THEN C!ReplTextInit ELSE typed = NULL /\ program = NULL
  /\ IF which = "keys" THEN K!PointerInit ELSE P!PointerInit

JsonStep == J!Enter \/ J!Leave \/ J!jr_finish \/ \E c \in Characters : J!Read(c, KnownJson)
XmlStep == X!xml_parser_run \/ X!EndOfInput \/ \E c \in XmlChars : X!Deliver(c, KnownXml)

Next ==
  /\ \/ which = "json" /\ JsonStep
     \/ which = "xml" /\ XmlStep
     \/ which = "list" /\ L!ListNext
     \/ which = "path" /\ F!PathNext
     \/ which = "lexer" /\ S!LexNext
     \/ which = "streams" /\ U!StreamNext
     \/ which = "deep" /\ D!DeepNext /\ UNCHANGED <<walker, walkCalls>>
     \/ which = "walker" /\ T!WalkerNext /\ UNCHANGED <<iter, asked, strayed>>
     \/ which = "pointers" /\ P!PointerNext
     \/ which = "keys" /\ K!PointerNext
     \/ which \in DOMAIN ReplSessions /\ R!ReplNext
  /\ which # "json" => UNCHANGED jrVars
  /\ which # "xml" => UNCHANGED xmlVars
  /\ which # "list" => UNCHANGED listVars
  /\ which # "path" => UNCHANGED pathVars
  /\ which # "lexer" => UNCHANGED lexVars
  /\ which # "streams" => UNCHANGED streamVars
  /\ which \notin {"deep", "walker"} => UNCHANGED objectVars
  /\ which \notin {"pointers", "keys"} => UNCHANGED pointerVars
  /\ which \notin DOMAIN ReplSessions => UNCHANGED <<ed, replKeys>>
  /\ UNCHANGED <<which, typed, program>>

Spec == Init /\ [][Next]_vars

-----------------------------------------------------------------------------
\* The two parsers read what the grammar gives, however it arrives, and their
\* events nest for any text.  The tokens of lexer_lex() adjoin, stand where they say
\* that they stand, and are those that the mode asks for, also after peek() and back().
\* The REPL puts the keys together that were hit, and sees what a text leaves open.
ReadsTexts ==
  /\ which = "json" => J!JrTypeOK /\ J!ReadsJson(JsonTexts) /\ J!EventsNest
  /\ which = "xml" => X!XmlTypeOK /\ X!ReadsXml(XmlTexts) /\ X!XmlNests
  /\ which = "lexer" =>
       /\ S!LexTypeOK
       /\ S!PiecesAdjoin /\ S!HeldIsPassed /\ S!LocationsRight /\ S!MatchesWin /\ S!NumbersGrow
  /\ which = "texts" => C!KeysDecoded /\ C!UnfinishedNoticed

\* What the functions on paths give leads where their arguments do, and patterns
\* match what they mean.  Nested objects are gone through in document order, each
\* node once, and the paths that are given for nodes lead to them.  Pointers own their
\* keys, their methods agree with each other, and their texts lead where they do.
PathsLead ==
  /\ which = "path" => F!PathTypeOK /\ F!PathsMean
  /\ which = "deep" => D!DeepTypeOK /\ D!NeverBack /\ D!WalksAll
  /\ which = "functions" => D!FunctionsWalk /\ D!PathsFound /\ D!EqualsMeans /\ D!SetIsGot
  /\ which = "walker" => T!PathLeads /\ T!NextInOrder /\ T!PassesSiblings /\ T!StepsTakenBack
  /\ which = "pointers" => P!KeysCounted /\ P!PointersAgree /\ P!TextLeads
  /\ which = "keys" => K!KeysCounted /\ K!TextLeads

\* What is linked into a list stays so and is freed once, whatever is called meanwhile.
ListsKept == which = "list" => L!ListTypeOK /\ L!RingsClosed /\ L!HeldCells

\* The methods of List change it as those of arrays do.
MethodsMean == L!MethodsMean

\* What goes through a reader or a writer comes out once and in its order; what the line
\* editor of the REPL draws shows its line, what it killed and what it ran are not lost,
\* and what it runs is what was seen.
BuffersKeepOrder ==
  /\ which = "streams" =>
       U!StreamTypeOK /\ U!PassInOrder /\ U!LinesWhole /\ U!CountsRight /\ U!UrlsMean
  /\ which \in DOMAIN ReplSessions =>
       R!LineSound /\ R!ScreenShows /\ R!KillsComeBack /\ R!HistoryKept /\ R!RunsWhatIsShown
=============================================================================
