---------------------------- MODULE MCClusterNodes ----------------------------
\* Instance of ClusterNodes for TLC.
EXTENDS ClusterNodes, TLC

CONSTANTS c1, n1, n2, r1, r2

OneCluster  == {c1}
TwoNodes    == {n1, n2}
TwoRequests == {r1, r2}

\* Nodes and requests are interchangeable.
Symmetric == Permutations(Nodes) \cup Permutations(Requests)
=============================================================================
