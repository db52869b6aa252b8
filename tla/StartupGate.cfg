SPECIFICATION FairSpec
CONSTANTS
    Replicas = 3
    Options <- Gates
    TimeoutSeconds = 20
    IntervalSeconds = 10
    MaxFaults = 3
INVARIANTS TypeOK CountsDistinctPeers
PROPERTIES ColdStaysCold StartAnywayBringsUp HealthyPeersSuffice
CHECK_DEADLOCK FALSE
