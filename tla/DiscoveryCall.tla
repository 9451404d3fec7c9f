---------------------------- MODULE DiscoveryCall ----------------------------
(***************************************************************************)
(* What the lifecycle operations rely on when they discover a cluster      *)
(* (step Discover of ClusterOps): a discovery answers once, with an error  *)
(* or with the only cluster of the kubeconfig it was given, whose current  *)
(* context names this cluster or none, whatever other discoveries are      *)
(* under way; or it ends with the process.                                 *)
(***************************************************************************)
CONSTANTS
    Requests,  \* discoveries
    Servers,   \* Kubernetes clusters
    None       \* no server

KubeConfigs == [clusters : SUBSET Servers, current : Servers \cup {None}]
NoConfig == [clusters |-> {}, current |-> None]

VARIABLES
    config,  \* the kubeconfig each discovery was given
    answer   \* its answer

vars == <<config, answer>>

Init ==
    /\ config = [r \in Requests |-> NoConfig]
    /\ answer = [r \in Requests |-> "idle"]

Ask(r) ==
    /\ answer[r] = "idle"
    /\ config' \in {[config EXCEPT ![r] = k] : k \in KubeConfigs}
    /\ answer' = [answer EXCEPT ![r] = "pending"]

Find(r) ==
    /\ answer[r] = "pending"
    /\ \E s \in Servers :
          config[r].clusters = {s} /\ config[r].current \in {s, None}
    /\ answer' = [answer EXCEPT ![r] = "found"]
    /\ UNCHANGED config

Fail(r) ==
    /\ answer[r] = "pending"
    /\ answer' = [answer EXCEPT ![r] = "error"]
    /\ UNCHANGED config

\* The process ends, and every discovery with it.
Die ==
    /\ answer' = [r \in Requests |-> IF answer[r] = "pending" THEN "dead" ELSE answer[r]]
    /\ UNCHANGED config

Next == (\E r \in Requests : Ask(r) \/ Find(r) \/ Fail(r)) \/ Die

Spec == Init /\ [][Next]_vars
=============================================================================
