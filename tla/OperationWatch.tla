--------------------------- MODULE OperationWatch ---------------------------
(***************************************************************************)
(* What a monitor promises the rest of the manager: it settles on at most  *)
(* one account of the operation it watches. The account is what the remote *)
(* component answers at that moment, which is how the operation ended or   *)
(* that it is in trouble, or else the news that the component cannot be    *)
(* contacted. The latter never comes from the monitor of installs and      *)
(* uninstalls, which takes the process down.                               *)
(***************************************************************************)
EXTENDS InfraDefs

VARIABLES
    op,      \* the operation watched
    remote,  \* what the remote component would answer
    report   \* the account given: "none", "lost", "crashed" or an answer

vars == <<op, remote, report>>

Init ==
    /\ op \in OpKinds
    /\ remote = "running"
    /\ report = "none"

Advance ==
    /\ remote \in Progress
    /\ remote' \in Progress \cup VerdictsOf(op)
    /\ UNCHANGED <<op, report>>

Report ==
    /\ report = "none"
    /\ remote \in Final(op)
    /\ report' = remote
    /\ UNCHANGED <<op, remote>>

GiveUp ==
    /\ report = "none"
    /\ report' = IF op \in InstallerOps THEN "crashed" ELSE "lost"
    /\ UNCHANGED <<op, remote>>

Next == Advance \/ Report \/ GiveUp

Spec == Init /\ [][Next]_vars
==============================================================================
