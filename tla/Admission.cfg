SPECIFICATION Spec
CONSTANTS
    None = None
    r1 = r1
    r2 = r2
    i1 = i1
    i2 = i2
    i3 = i3
    i4 = i4
    Requests <- TwoRequests
    Kinds <- AnyAndProvision
    Ids <- FourIds
SYMMETRY Symmetric
INVARIANTS
    TypeOK
    InstallerGetsComplete
    ProvisionerGetsComplete
    IdsTellOperationsApart
