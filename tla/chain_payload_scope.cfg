CONSTANTS
    Cases <- MCCases
    StepIds <- MCStepIds
    Names <- MCNames
    Reserved <- MCReserved
    Libraries <- ExecutionLibraries
SPECIFICATION Spec
INVARIANTS
    ChainPayloadIsCaseScoped
