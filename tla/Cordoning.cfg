SPECIFICATION FairSpec
CONSTANTS
    None = None
    c1 = c1
    s1 = s1
    r1 = r1
    r2 = r2
    r3 = r3
    Clusters <- OneCluster
    Services <- OneService
    Requests <- ThreeRequests
    Kinds <- MixedKinds
    Faults <- AllFaults
INVARIANTS
    TypeOK
    AcceptedIsEmpty
    EventsFollowStatus
PROPERTIES
    DrainsCordonedOnly
    DrainEmpties
