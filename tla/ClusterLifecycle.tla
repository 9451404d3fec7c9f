-------------------------- MODULE ClusterLifecycle --------------------------
(***************************************************************************)
(* The life of the clusters of an organization as the System Model shows   *)
(* it to other components: which state may follow which, whatever the      *)
(* manager does in between. ClusterOps implements it as long as callers    *)
(* wait for one operation on a cluster before they ask for the next.       *)
(***************************************************************************)
EXTENDS InfraDefs

CONSTANT Clusters

VARIABLE state

Init == state \in [Clusters -> {"unknown", "INSTALLED"}]

\* The states a cluster may move to from s.
Successors(s) ==
    CASE s = "unknown"             -> {"added"}
      [] s = "added"               -> {"PROVISIONING", "PROVISIONED", "UNINSTALLING"}
      [] s = "PROVISIONING"        -> {"PROVISIONED", "FAILURE", "UNINSTALLING"}
      [] s = "PROVISIONED"         -> {"INSTALL_IN_PROGRESS", "UNINSTALLING", "removed"}
      [] s = "INSTALL_IN_PROGRESS" -> {"INSTALLED", "FAILURE", "UNINSTALLING"}
      [] s = "INSTALLED"           -> {"SCALING", "UNINSTALLING"}
      [] s = "SCALING"             -> {"INSTALLED", "FAILURE", "UNINSTALLING"}
      [] s = "UNINSTALLING"        -> {"PROVISIONED", "FAILURE", "removed"}
      [] s = "FAILURE"             -> {"UNINSTALLING", "removed"}
      [] s = "removed"             -> {}

Advance(c) ==
    \E s \in Successors(state[c]) : state' = [state EXCEPT ![c] = s]

Next == \E c \in Clusters : Advance(c)

Spec == Init /\ [][Next]_state
=============================================================================
