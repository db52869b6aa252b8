SPECIFICATION FairSpec
CONSTANTS
    Options <- EveryOption
    SeedHeight = 1
    FileHeight = 2
    Tip = 3
    MinHeight = 2
    MaxFaults = 2
INVARIANTS TypeOK NeverRunsTorn RunsImported
PROPERTIES ImportsOnce SeedIsKept EventuallyRuns
CHECK_DEADLOCK FALSE
