SPECIFICATION Spec
CONSTANTS
    MaxGen = 1
    MaxPods = 2
    MaxFaults = 1
    KeyChecks = {FALSE}
    Specs <- LuxPair
INVARIANT RunningIsReady
CHECK_DEADLOCK FALSE
