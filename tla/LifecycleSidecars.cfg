SPECIFICATION Spec
CONSTANTS
  p1 = p1
  p2 = p2
  Plugins = {p1, p2}
  Lingering = {p2}
  Labels = {"w1"}
  MaxStarts = 2
  MaxPids = 1
  ChildrenHoldStdout = FALSE
INVARIANT FinishIsClean
INVARIANT NoSidecarLeft
PROPERTY TabsCloseFirst
