SPECIFICATION FairSpec
CONSTANTS
    Jobs = {j1, j2}
    Sockets = {}
    NumDials = 1
    MaxRestarts = 0
    None = None
PROPERTY RefusedOnlyWhileRunning
CHECK_DEADLOCK FALSE
