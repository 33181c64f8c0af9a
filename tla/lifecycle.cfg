CONSTANTS
    Environment <- Environments2
    Request = {r1, r2}
SPECIFICATION FairSpec
INVARIANTS
    LifecycleTypeOK
    NobodyCutOffEarly
    StatementsEndFirst
    NothingRunsOnAGuess
    
PROPERTIES
    Stops
    KeepsSweeping
