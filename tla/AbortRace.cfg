SPECIFICATION Spec
CONSTANT MaxGen = 3
INVARIANT AbortIsSeen
CHECK_DEADLOCK FALSE
