SPECIFICATION MCSpec
CONSTANTS
  HighWaterMark = 2
  Sizes = {1, 2}
  MaxEntries = 4
  MaxWriters = 2
  WritableMark = 1
  ReadableMark = 1
  TransformEntries = 3
  MaxChunks = 3
  MaxReads = 2
INVARIANT
  TypeOK
  HandedInOrder
  Truthful
  ReadyTellsRoom
  EndsAgree
PROPERTY
  EntriesAnswered
  ReadyAgain
  ErrorIsFinal
