SPECIFICATION MCSpec
CONSTANTS
    Calls = {1, 2}
    Messages = 1
    ChannelMax = 3
    MaxDials = 2
    MaxSetups = 1
    MaxSize = 2
INVARIANTS
    GrowsWhenFull
    SuccessIsComplete
    CountersBalance
    SetupAsAsked
PROPERTY EveryCallReturns
CHECK_DEADLOCK FALSE
