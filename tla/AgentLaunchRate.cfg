SPECIFICATION RateSpec
CONSTANTS
    NumPhases = 1
    NumSessions = 1
    MaxUndone = 3
    Quota <- TwoUsersPerSecond
INVARIANT LaunchRate
CHECK_DEADLOCK FALSE
