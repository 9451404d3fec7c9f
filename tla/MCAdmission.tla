----------------------------- MODULE MCAdmission -----------------------------
\* Instances of Admission for TLC.
EXTENDS Admission, TLC

CONSTANTS r1, r2, i1, i2, i3, i4

TwoRequests == {r1, r2}
FourIds     == {i1, i2, i3, i4}

\* A request of any kind, and one whose identifier its caller may choose.
AnyAndProvision == [r \in TwoRequests |-> IF r = r1 THEN AllKinds ELSE {"provision"}]

\* Identifiers are interchangeable.
Symmetric == Permutations(Ids)
=============================================================================
