CONSTANT Cases <- AllCases
SPECIFICATION Spec
INVARIANTS
    TypeOK
    PassMeansRequiredHeld
    FailuresAreTold
PROPERTY BlockingFailureStops
