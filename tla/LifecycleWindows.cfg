SPECIFICATION FairSpec
CONSTANTS
  p1 = p1
  p2 = p2
  Plugins = {p1}
  Lingering = {p1}
  Labels = {"w1", "w2"}
  MaxStarts = 2
  MaxPids = 1
  ChildrenHoldStdout = TRUE
INVARIANT NoOrphanApp
INVARIANT WindowIsReady
INVARIANT ReportIsTrue
PROPERTY OwnsOneApp
PROPERTY MethodsReturn
PROPERTY CloseReaps
