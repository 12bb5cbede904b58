CONSTANTS
    Cases <- MCCases
    StepIds <- MCStepIds
    Names <- MCNames
    Reserved <- MCReserved
    Libraries <- ImportLibraries
SPECIFICATION Spec
INVARIANTS
    DeclaredImportsArrive
