SPECIFICATION FairSpec
CONSTANTS
  Bits = 3
  Address <- MCAddress
  Words <- MCWords
  Writes <- MCWrites
  MaxRead = 2
  MaxResets = 1
  MaxStretches = 2
INVARIANT RecoverFrees
