SPECIFICATION FairSpec
CONSTANTS
    MaxEdits = 1
    Stacks <- AllStacks
    Specs <- AllSpecs
    LabelSets <- TheLabels
    Blockchains <- Listed
    Ordinals <- PodOrdinals
INVARIANTS PodsAreWhole SelectorsFindTheirPods IngressesAreServed
PROPERTY EventuallyWired
CHECK_DEADLOCK FALSE
