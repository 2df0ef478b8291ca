SPECIFICATION Spec
CONSTANTS
  Characters = {" ", "q", "d", ".", "-", "[", "]", "{", "}", ":", ",", "n", "u", "l", "esc", "2", "8"}
  MaxText = 3
  MaxJson = 8
  XmlChars = {"<", ">", "/", "=", "!", "-", "quot", " ", "a", "b", "s", "v"}
  Tolerant = TRUE
  MaxInput = 4
  MaxDocument = 14
  Lists = {l1, l2, l3}
  Nodes = {n1, n2, n3, n4}
  Values = {1, 2}
  Iters = {1, 2}
  MaxListCalls = 4
  NULL = NULL
  PathChars = {"/", ".", "a"}
  MaxPath = 8
  MaxPair = 4
  MaxPieces = 3
  LexLetters = {"a", " ", "nl", "E", "e"}
  MaxLexText = 3
  MaxSeq = 2
  MaxDepth = 1
  StreamLetters = {"a", "nl", "E", "T", "e"}
  UrlLetters = {"%", "2", "5", "0", "a", " "}
  MaxStream = 3
  BufferSizes = {1, 2}
  MaxOdd = 2
  MaxWalkCalls = 5
  MaxPointerCalls = 3
  MaxEditKeys = 3
  MaxRecallKeys = 4
  MaxTyped = 3
  MaxTokens = 3
INVARIANT
  ReadsTexts
  PathsLead
  BuffersKeepOrder
  ListsKept
PROPERTY
  MethodsMean
CHECK_DEADLOCK FALSE
