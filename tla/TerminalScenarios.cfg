SPECIFICATION ScenarioSpec
CONSTANTS
  N = 2
  MaxPid = 8
  MaxTrouble = 1
  Attempts = 3
  MaxNoise = 2
INVARIANT PassIsComplete
INVARIANT NoFalseAlarm
INVARIANT NoOldProcess
INVARIANT ReloadFinds
INVARIANT NoFalseLeak
CHECK_DEADLOCK FALSE
