SPECIFICATION FairSpec
CONSTANTS
    Scenarios <- AllScenarios
    Probes = 3
INVARIANTS
    TypeOK
    LifecycleKept
PROPERTIES
    TeardownIsLast
    ScenarioEnds
