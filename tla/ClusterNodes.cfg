SPECIFICATION Spec
CONSTANTS
    None = None
    c1 = c1
    n1 = n1
    n2 = n2
    r1 = r1
    r2 = r2
    Clusters <- OneCluster
    Nodes <- TwoNodes
    Requests <- TwoRequests
    MaxNodes = 2
    Faults <- AllFaults
SYMMETRY Symmetric
INVARIANTS
    TypeOK
    OrphansAreFew
    NodesAgreeWithCluster
    StatusLostOnlyInUpdate
    NoNodeOutlivesCluster
    OnlyProvisionsInstallShort
