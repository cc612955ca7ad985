SPECIFICATION Spec
CONSTANT MaxOutput = 2
INVARIANT TimeoutHasCoordinates
CHECK_DEADLOCK FALSE
