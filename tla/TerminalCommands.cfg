SPECIFICATION CommandsSpec
CONSTANTS
  MaxOutput = 3
  Payload = 2
INVARIANT PassIsComplete
INVARIANT NoFalseAlarm
INVARIANT FailureIsRecorded
INVARIANT OutputVerdict
CHECK_DEADLOCK FALSE
