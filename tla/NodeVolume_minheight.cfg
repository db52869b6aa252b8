SPECIFICATION Spec
CONSTANTS
    Options <- ImportOnly
    SeedHeight = 1
    FileHeight = 2
    Tip = 3
    MinHeight = 2
    MaxFaults = 0
PROPERTY HighChainIsKept
CHECK_DEADLOCK FALSE
