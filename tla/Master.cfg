SPECIFICATION FairSpec
CONSTANTS
    NumAgents = 2
    MaxWork = 1
    MaxLeftover = 1
    MaxClock = 2
    Aggregates = TRUE
INVARIANTS
    SnapshotCountsThisJob
    FinalCountIsComplete
    LastSnapshotOvertaken
    WatcherNeverDividesByZero
PROPERTIES
    CountsGoBackOnlyWhen
    RunReturnsEventually
    RefinesJobRun
CHECK_DEADLOCK FALSE
