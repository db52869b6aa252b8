SPECIFICATION FairSpec
CONSTANTS
    MaxGen = 2
    MaxPods = 1
    MaxLoad = 2
    MaxFaults = 1
    Sources = {c}
    None = none
    Blockchains <- Listed
    KeyChecks = {TRUE, FALSE}
    Specs <- EveryKind
INVARIANTS TypeOK NothingForgotten
PROPERTIES ReportsWhatWasApplied EventuallyObserved ResyncFollows NothingLeftBehind
CHECK_DEADLOCK FALSE
