SPECIFICATION ReadersSpec
CONSTANTS
  Rows = 2
  Scrollback = 3
  Lines = 4
  Width = 3
INVARIANT CountIsExact
INVARIANT NoneOverlooked
INVARIANT FirstEvent
INVARIANT NoEventLost
PROPERTY ScanEnds
CHECK_DEADLOCK FALSE
