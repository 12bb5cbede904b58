SPECIFICATION FairSpec
CONSTANTS
    Commands <- AllCommands
    Stall = 2
    HardCap = 3
    Grace = 1
    Room = 2
    Workers = {"w1", "w2"}
    MaxSpans = 4
    Runs <- AllRuns
    Beat = 1
    Silence = 1
    JoinLimit = 1
INVARIANTS
    EndsClean
    GivenUpForCause
    NothingLeftBehind
    TraceIsWhole
    StallIsReported
PROPERTIES
    CappedRunEnds
    CloseEnds
