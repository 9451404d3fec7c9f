SPECIFICATION Spec
CONSTANTS
    c1 = c1
    c2 = c2
    r1 = r1
    r2 = r2
    None = None
    Clusters <- TwoClusters
    Requests <- TwoRequests
    Kinds <- AllKinds
    Faults <- AllFaults
    Verdicts <- AllVerdicts
    UserStates <- SomeUserStates
    Overlap = TRUE
SYMMETRY Symmetric
INVARIANTS
    TypeOK
    InProgressHasOwner
    DecommissionAfterUninstall
    RemovedAfterDecommission
    InstallFollowsProvision
    StatesAreEarned
PROPERTIES
    StartedOnce
