CONSTANTS
    Key = {"a", "b"}
    Burst = 2
    Refill = 2
    IdleTTL = 4
    SweepInterval = 3
    Horizon = 13
SPECIFICATION Spec
INVARIANTS
    TypeOK
    WindowBound
    IdleKeysReclaimed
PROPERTY ImplementsTokenBucket
