SPECIFICATION FairSpec
CONSTANTS
    Jobs = {j1, j2}
    Sockets = {s1}
    NumDials = 2
    MaxRestarts = 1
    None = None
INVARIANTS
    OneJobWithItsController
    FlushAfterReturn
    ControllerIsOwned
PROPERTIES
    JobIsCleared
    JobsFollowJobRun
CHECK_DEADLOCK FALSE
