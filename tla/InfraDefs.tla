------------------------------ MODULE InfraDefs ------------------------------
(***************************************************************************)
(* Vocabulary shared by the modules of the infrastructure manager: the     *)
(* long running operations it delegates, the verdicts a remote component   *)
(* may report on them, and the cluster states kept in the System Model.    *)
(*                                                                         *)
(* A progress report is a pair (status, error text), and nothing relates   *)
(* the two. It is abstracted to what the monitors and callbacks tell apart *)
(* and to whether the operation has ended. While it goes on:               *)
(*   "running"   no error text                                             *)
(*   "troubled"  an error text                                             *)
(* When it has ended, the verdict:                                         *)
(*   "success"   SUCCESS / FINISHED, no error text                         *)
(*   "failed"    FAILED / ERROR                                            *)
(*   "flagged"   an error text, but a status other than FAILED / ERROR     *)
(*   "canceled"  CANCELED without error text (only OpStatus has it)        *)
(* The code treats "troubled" and "flagged" alike, but for the state that  *)
(* installCallback gives nodes. ClusterOps, which keeps only the report on *)
(* which a monitor stops, takes "flagged" for any report with error text.  *)
(***************************************************************************)
EXTENDS Integers

\* Operations delegated to another component and watched by a monitor.
OpKinds == {"provision", "install", "scale", "uninstall", "decommission"}

\* The two kinds watched by InstallerMonitor.
InstallerOps == {"install", "uninstall"}

Progress == {"running", "troubled"}

AllVerdicts == {"success", "failed", "flagged", "canceled"}

\* How an operation may end: provision and scale report ProvisionProgress,
\* which has no CANCELED; the other three report OpStatus.
VerdictsOf(op) ==
    IF op \in {"provision", "scale"} THEN AllVerdicts \ {"canceled"}
                                     ELSE AllVerdicts

FinalIgnoresErrorText(op) == {"success", "failed"}

FinalIncludesProgress(op) == Progress \cup {"success", "failed", "flagged"}

\* The answers on which the polling loop of the monitor of op exits: an error text,
\* whatever the status that comes with it, FAILED / ERROR, and SUCCESS / FINISHED.
\* Only the decommission monitor recognises a cancellation.
Final(op) ==
    {"troubled", "success", "failed", "flagged"}
        \cup (IF op = "decommission" THEN {"canceled"} ELSE {})

\* States of ClusterState, plus those of a cluster identifier that the System
\* Model has not given out ("unknown"), has just created ("added": whatever
\* AddCluster stores before the first update), or has deleted ("removed").
Written      == {"PROVISIONING", "PROVISIONED", "INSTALL_IN_PROGRESS",
                 "INSTALLED", "SCALING", "UNINSTALLING", "FAILURE"}
Absent       == {"unknown", "removed"}
ClusterStates == Written \cup Absent \cup {"added"}

\* States that announce an operation in progress.
Transitional ==
    {"added", "PROVISIONING", "INSTALL_IN_PROGRESS", "SCALING", "UNINSTALLING"}

OutcomeStateIgnoresFailure(op, verdict) ==
    IF op \in {"install", "scale"} THEN "INSTALLED" ELSE "PROVISIONED"

\* The state a callback records when its monitor delivers a response. The
\* callbacks look at the status only: an error text alone counts as success.
OutcomeState(op, verdict) ==
    IF verdict = "failed" THEN "FAILURE"
    ELSE IF op \in {"install", "scale"} THEN "INSTALLED"
    ELSE "PROVISIONED"
==============================================================================
