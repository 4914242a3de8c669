SPECIFICATION FlightSpec
CONSTANTS
  cfg <- MCcfg
  Inputs = {}
  Gaps = {1}
  MaxGap = 1
  EnvPeriod = 2
  EnvJitter = 1
  RETRY = 4
  ClockMod = 12
  OneG = 100
  Top = 39
  Climb = 13
  Fall = 2
  ColdStarts = {"BARO"}
  MaxGround = 1
  MaxHang = 18
  MaxLapses = 1
  MaxSpikes = 1
INVARIANTS ArmedInTime FallCaught
PROPERTIES ReleaseMeansFall
CHECK_DEADLOCK FALSE
