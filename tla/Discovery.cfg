SPECIFICATION Spec
CONSTANTS
    None = None
    r1 = r1
    r2 = r2
    s1 = s1
    s2 = s2
    f1 = f1
    f2 = f2
    Requests <- TwoRequests
    Servers <- TwoServers
    Home = s1
    Files <- TwoFiles
    Faults <- AllFaults
INVARIANTS
    TypeOK
    DescribesOwnCluster
    KubeConfigsDoNotStay
PROPERTIES
    ImplementsCall
