SPECIFICATION MCSpec
CONSTANTS
  HighWaterMark = 0
  Sizes = {1}
  MaxChunks = 2
  MaxReads = 2
  MaxReaders = 1
  Parts = {"default"}
  ByteMark = 1
  AutoSizes = {0, 2}
  ChunkSizes = {1, 3}
  ViewSizes = {1, 2}
  MaxBytes = 4
  MaxByteReads = 2
  MaxByteReaders = 2
PROPERTY
  ReadResolves
