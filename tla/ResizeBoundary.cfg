SPECIFICATION Spec
CONSTANT MaxOutput = 2
INVARIANT NamesFirstBoundary
CHECK_DEADLOCK FALSE
