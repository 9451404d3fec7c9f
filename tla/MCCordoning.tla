----------------------------- MODULE MCCordoning -----------------------------
\* Instance of Cordoning for TLC.
EXTENDS Cordoning

CONSTANTS c1, s1, r1, r2, r3

OneCluster    == {c1}
OneService    == {s1}
ThreeRequests == {r1, r2, r3}

\* One request is of any kind, one cordons or uncordons, and one does not cordon.
MixedKinds ==
    [r \in ThreeRequests |->
        CASE r = r1 -> AllKinds
          [] r = r2 -> {"cordon", "uncordon"}
          [] r = r3 -> AllKinds \ {"cordon"}]
=============================================================================
