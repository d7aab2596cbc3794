SPECIFICATION FairSpec
CONSTANTS
    Users = {u1, u2}
    Total = 1
    Foreign = Foreign
    Confirm = Confirm
    MaxForeign = 1
INVARIANTS
    SubscriberNeverBlocks
    OneLateMessage
    GaugesExact
PROPERTY ExecuteReturns
CHECK_DEADLOCK FALSE
