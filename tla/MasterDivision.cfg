SPECIFICATION Spec
CONSTANTS
    NumAgents = 1
    MaxWork = 1
    MaxLeftover = 0
    MaxClock = 2
    Aggregates = TRUE
INVARIANT NoDivisionByZero
CHECK_DEADLOCK FALSE
