SPECIFICATION FairSpec
CONSTANTS
    None = None
    c1 = c1
    c2 = c2
    r1 = r1
    r2 = r2
    Clusters <- OneCluster
    Requests <- TwoRequests
    Kinds <- Operations
    Faults <- RefusalOnly
    Verdicts <- NotCanceled
    UserStates <- NoFaults
    Overlap = TRUE
INVARIANTS
    RunningIsWatched
PROPERTIES
    Settles
