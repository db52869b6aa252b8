SPECIFICATION Spec
CONSTANTS
    MaxEdits = 1
    Stacks <- OneStack
    Specs <- AllSpecs
    LabelSets <- TheLabels
    Blockchains <- Listed
    Ordinals <- PodOrdinals
INVARIANT PodNamesResolve
CHECK_DEADLOCK FALSE
