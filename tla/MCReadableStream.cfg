SPECIFICATION MCSpec
CONSTANTS
  HighWaterMark = 2
  Sizes = {1, 2}
  MaxChunks = 3
  MaxReads = 3
  MaxReaders = 2
  Parts = {"default", "bytes"}
  ByteMark = 1
  AutoSizes = {0, 2}
  ChunkSizes = {1, 3}
  ViewSizes = {1, 2}
  MaxBytes = 4
  MaxByteReads = 2
  MaxByteReaders = 2
INVARIANT
  TypeOK
  ChunksInOrder
  ReadersHear
  BytesKeepOrder
PROPERTY
  ClosedWhenDrained
  OnePull
  ReadResolves
