SPECIFICATION MCSpec
CONSTANTS
    Users = {u1, u2}
    Total = 1
    MaxOwn = 1
INVARIANTS
    ReaderNeverBlocks
    GaugesExact
    FxPanicIsProvoked
PROPERTY SessionEnds
CHECK_DEADLOCK FALSE
