SPECIFICATION Spec
CONSTANTS
    Scenarios <- BadTeardown
    Probes = 3
INVARIANT NoServerLeaks
