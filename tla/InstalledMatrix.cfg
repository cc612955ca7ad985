SPECIFICATION Spec
CONSTANTS
  first = first
  second = second
  older = older
  Last = 2
  Builds = {first, second, older}
  Declared <- MCDeclared
  Version <- MCVersion
  NoBuild = NoBuild
INVARIANT ReportIsOfItsEngines
INVARIANT NoFalseAlarm
CHECK_DEADLOCK FALSE
