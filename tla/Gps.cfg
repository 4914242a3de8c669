SPECIFICATION FairSpec
CONSTANTS
  Stream <- MCStream
  Byte <- MCByte
  Cap = 4
  Already = 3
  DmaCap = 2
  ChunkSize = 2
  LineMax = 3
  MaxLate = 1
INVARIANTS NoByteAstray NoStaleFix
PROPERTIES ImplementsFifo LossMeansLag SentenceReported
