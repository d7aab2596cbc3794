SPECIFICATION MCSpec
CONSTANTS
    MaxEvents = 5
    MaxMessages = 5
INVARIANTS
    WebSuccess
    WebReaderIsLeft
    CoreSuccess
    CorePanicIsProvoked
PROPERTY SessionEnds
CHECK_DEADLOCK FALSE
