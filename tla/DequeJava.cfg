SPECIFICATION JavaSpec
CONSTANTS
    Callers = {0, 1, 2}
CHECK_DEADLOCK FALSE
INVARIANT EachItemOnce
