SPECIFICATION FairSpec
CONSTANTS
    a = a
    b = b
    chain = chain
    cloud = cloud
    Clusters <- ClusterNames
    Others <- OtherNames
    Cloud = cloud
    Versions = {1}
    Specs <- Growing
    MaxGen = 2
    Existing <- OnlyA
    MaxFaults = 1
    MaxDeletes = 1
INVARIANTS TypeOK ObservedIsComposed NothingForgotten StatusAddsUp
PROPERTIES KeepsContract EventuallyObserved ListedChildrenExist
CHECK_DEADLOCK FALSE
