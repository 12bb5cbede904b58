SPECIFICATION FairSpec
CONSTANTS
    Runs <- AllRuns
    Cpus = 2
    Stall = 1
    HardCap = 2
INVARIANTS
    NoCaseIsLost
    HealthyRunNeverStalls
PROPERTY PoolProgresses
