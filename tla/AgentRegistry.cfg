SPECIFICATION Spec
CONSTANTS
    Agents = {a1}
    Period = 5
    CheckEvery = 5
    Expiry = 15
    MaxLatency = 4
    MaxMissed = 1
    MaxAge = 26
INVARIANT DeadAgentIsDropped
PROPERTY LiveAgentStaysListed
