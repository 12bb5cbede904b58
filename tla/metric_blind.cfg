SPECIFICATION Spec
CONSTANTS
    Programs <- ProgramTable
    Helpers <- HelperTable
    Jobs <- JobTable
    Overrides <- OverrideTable
    MaxList = 3
    MaxPath = 3
INVARIANT SymbolsStayResolved
CHECK_DEADLOCK FALSE
