SPECIFICATION FairSpec
CONSTANTS
    Thread <- Siblings
    Restarter <- RestarterThread
    NoTask = "none"
    Interference = {"restart", "unwedge"}
    MaxDepth = 2
INVARIANTS TypeOK ExclusiveUntilForced DepthIsLevel
PROPERTIES MutexReleased
