SPECIFICATION Spec
CONSTANTS
    c1 = c1
    c2 = c2
    r1 = r1
    r2 = r2
    None = None
    Clusters <- OneCluster
    Requests <- TwoRequests
    Kinds <- ProvisionOnly
    Faults <- NoFaults
    Verdicts <- AllVerdicts
    UserStates <- NoFaults
    Overlap = TRUE
INVARIANTS
    InstallsAfterSuccess
