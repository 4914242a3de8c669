SPECIFICATION FairSpec
CONSTANTS
  cfg <- MCcfg
  Inputs <- MCInputs
  Gaps = {1, 2}
  MaxGap = 2
  ClockMod = 8
  OneG = 100
INVARIANTS TypeOK TimersTrue Debounced EnteredTrue BoundedStay
PROPERTIES TimeoutsOnTime NeverStuck
