CONSTANTS
    Cases <- MCCases
    StepIds <- MCStepIds
    Names <- MCNames
    Reserved <- MCReserved
    Libraries <- AllLibraries
SPECIFICATION FairSpec
INVARIANTS
    TypeOK
    ReentryGuard
    PassMeansChainHeld
    FlatChainsKeepTheirTrace
PROPERTIES
    ImplementsCaseNesting
    Termination
