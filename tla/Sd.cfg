SPECIFICATION FairSpec
CONSTANTS
  Block <- MCBlock
  Lba = {1, 2}
  New = {9}
  Cards <- MCCards
  BlockSize = 2
  MaxWait = 1
  MaxCount = 2
  MaxFaults = 1
  MaxSwaps = 2
  MosiNoise = FALSE
  MisoNoise = TRUE
INVARIANTS ReadyMatches BusReleased
PROPERTIES ImplementsBlockStore ComesBack
