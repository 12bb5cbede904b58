SPECIFICATION FairSpec
CONSTANTS
    Runs <- OneHang
    Cpus = 2
    Stall = 1
    HardCap = 2
PROPERTY GivenUpRunEnds
CHECK_DEADLOCK FALSE
