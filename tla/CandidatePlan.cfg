SPECIFICATION ComposeSpec
CONSTANTS
  p1 = p1
  p2 = p2
  s1 = s1
  s2 = s2
  contract = contract
  stranger = stranger
  Plugins = {p1, p2}
  Sidecars = {s1, s2}
  Bases = {contract}
  Contract = contract
  Strangers = {stranger}
  MaxEntries = 6
SYMMETRY Alike
CHECK_DEADLOCK FALSE
INVARIANT PlanIsClosed
INVARIANT LocalPlanIsComplete
