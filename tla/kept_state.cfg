SPECIFICATION Spec
CONSTANTS
    Chains = {c1, c2}
    Contents <- DocContents
    MaxWrites = 2
    Threads = {t1, t2}
    Kinds = {"chain", "external"}
    MaxVersion = 2
    MaxToken = 2
    Callers = {r1, r2}
    Requests <- TokenCases
    Lifetimes <- Lives
    DefaultLife = 1
    MaxTime = 2
    Keys = {"VAR", "module"}
    Values = {"a"}
    MaxPatches = 2
    MaxCases = 2
    MaxDepth = 2
    Steps = 3
    Codes <- ExitCodes
    Timings = {"governance", "docs"}
    MaxRuns = 2
    CaseDefs <- Defs
    MaxSelected = 3
    MaxWorkers = 2
    Files = {"a", "b"}
    Required = {"a"}
    Commits <- ThreeCommits
    MaxSteps = 4
INVARIANTS
    ChainCachesAreTrue
    ScanCachesAreFresh
    TokensAreGood
    ProcessIsOwn
    GateTellsTheTruth
    ReportsAreOfThisRun
    ParityMeansAgreement
    
    SnapshotIsTheCommit
PROPERTIES
    RestoredOnLeave
    WritesVerify
CHECK_DEADLOCK FALSE
