---------------------------- MODULE MCClusterOps ----------------------------
\* Instances of ClusterOps for TLC.
EXTENDS ClusterOps, TLC

CONSTANTS c1, c2, r1, r2

OneCluster == {c1}
TwoClusters == {c1, c2}
TwoRequests == {r1, r2}

\* Users name a resting state and one that announces an operation.
SomeUserStates == {"INSTALLED", "SCALING"}

NoFaults == {}
RefusalOnly == {"refused"}
Operations == OpKinds
ScaleOnly == {"scale"}
ProvisionOnly == {"provision"}
NotCanceled == AllVerdicts \ {"canceled"}
Definite == {"success", "failed"}

\* Clusters and requests are interchangeable: no action and no invariant names one.
Symmetric ==
    Permutations(Clusters) \cup Permutations(Requests)
=============================================================================
