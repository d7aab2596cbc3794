SPECIFICATION FairSpec
CONSTANTS
    NumSessions = 3
    Percent <- ThreeSessions
    MaxUsers = 101
    MaxNegative = 9
    MaxBelow = 3
    MaxAgents = 8
INVARIANTS
    SharesAddUp
    UsersWithinPhase
PROPERTY CallsReturn
CHECK_DEADLOCK FALSE
