SPECIFICATION Spec
CONSTANTS
    Programs <- ProgramTable
    Helpers <- HelperTable
    Jobs <- JobTable
    Overrides <- OverrideTable
    MaxList = 3
    MaxPath = 3
PROPERTIES
    ExpressionLanguage
    Libraries
    GovernanceChecks
    QualityReports
    CaseTools
CHECK_DEADLOCK FALSE
