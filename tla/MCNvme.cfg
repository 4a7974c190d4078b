SPECIFICATION Spec
CONSTANTS
    Reads <- MCReads
    Leftovers = {0, 1, 65535}
INVARIANT ReturnsCompleted
CHECK_DEADLOCK FALSE
