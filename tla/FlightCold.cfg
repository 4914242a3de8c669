SPECIFICATION FlightSpec
CONSTANTS
  cfg <- MCcfg
  Inputs = {}
  Gaps = {1}
  MaxGap = 1
  EnvPeriod = 2
  EnvJitter = 1
  RETRY = 4
  ClockMod = 12
  OneG = 100
  Top = 39
  Climb = 13
  Fall = 2
  ColdStarts = {"BMI270"}
  MaxGround = 3
  MaxHang = 16
  MaxLapses = 0
  MaxSpikes = 0
PROPERTIES ReleaseMeansFall
CHECK_DEADLOCK FALSE
