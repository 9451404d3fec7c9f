----------------------------- MODULE MCDiscovery -----------------------------
\* Instance of Discovery for TLC.
EXTENDS Discovery

CONSTANTS r1, r2, s1, s2, f1, f2

TwoRequests == {r1, r2}
TwoServers  == {s1, s2}
TwoFiles    == {f1, f2}
=============================================================================
