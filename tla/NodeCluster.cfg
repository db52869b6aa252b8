SPECIFICATION FairSpec
CONSTANTS
    MaxGen = 2
    MaxPods = 1
    MaxFaults = 1
    KeyChecks = {TRUE, FALSE}
    Specs <- EditedSpecs
INVARIANTS TypeOK ObservedWasApplied NothingForgotten
PROPERTIES ReportsCurrentSpec EventuallyObserved ReadyReplicasFollow KeepsContract
CHECK_DEADLOCK FALSE
