SPECIFICATION Spec
CONSTANTS
    c1 = c1
    c2 = c2
    r1 = r1
    r2 = r2
    None = None
    Clusters <- OneCluster
    Requests <- TwoRequests
    Kinds <- Operations
    Faults <- AllFaults
    Verdicts <- AllVerdicts
    UserStates <- NoFaults
    Overlap = FALSE
INVARIANTS
    EventsFollowModel
PROPERTIES
    ImplementsLifecycle
