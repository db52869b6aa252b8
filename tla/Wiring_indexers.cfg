SPECIFICATION Spec
CONSTANTS
    MaxEdits = 1
    Stacks <- RoutedStack
    Specs <- AllSpecs
    LabelSets <- TheLabels
    Blockchains <- Listed
    Ordinals <- PodOrdinals
INVARIANT RoutesReachIndexers
CHECK_DEADLOCK FALSE
