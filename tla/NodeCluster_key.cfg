SPECIFICATION FairSpec
CONSTANTS
    MaxGen = 1
    MaxPods = 1
    MaxFaults = 0
    KeyChecks = {TRUE}
    Specs <- OneNode
PROPERTY GetsStatefulSet
CHECK_DEADLOCK FALSE
