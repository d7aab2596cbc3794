SPECIFICATION FairSpec
CONSTANTS
    NumPhases = 2
    NumSessions = 2
    MaxUndone = 4
    Quota <- TwoByTwoQuota
INVARIANTS
    InFlightWithinQuota
    ReleaseNeverBlocks
    WaitGroupsCount
    PhasesDoNotOverlap
PROPERTY RunEnds
CHECK_DEADLOCK FALSE
