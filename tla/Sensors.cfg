SPECIFICATION Spec
CONSTANTS
  EnvDevices <- MCEnvDevices
  EnvPeriod = 2
  EnvJitter = 2
  RETRY = 4
  ClockMod = 13
  Alts = {0}
  Accels = {100}
  OneG = 100
INVARIANTS TypeOK OkIsFresh FlagsTrue ProbedAgain
PROPERTIES BackoffKept
