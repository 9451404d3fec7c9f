------------------------------ MODULE Admission ------------------------------
(***************************************************************************)
(* What callers may ask and what reaches the other components: the gRPC    *)
(* handler (handler.go), the validation of requests (validator.go), and    *)
(* the requests the manager builds from them (manager.go). A request is    *)
(* the set of its fields that are given; the platform is one of them when  *)
(* it is Azure, the number of nodes when it is positive, the labels when   *)
(* one is not a valid label. The states of clusters are in ClusterOps:     *)
(* here an operation may fail at any step.                                 *)
(*                                                                         *)
(* External: uuid.NewV4 returns an identifier nobody has used, callers may *)
(* use any they have seen; the kubeconfig the provisioner returns may be   *)
(* empty.                                                                  *)
(***************************************************************************)
CONSTANTS
    Requests,  \* calls served, each once
    Kinds,     \* the calls each request may be
    Ids,       \* request identifiers
    None       \* no identifier

ByClusterId == {"getCluster", "listNodes", "drain", "cordon", "uncordon"}
Delegated == {"install", "provision", "scale", "uninstall", "decommission"}
AllKinds ==
    Delegated \cup ByClusterId
        \cup {"listClusters", "updateCluster", "updateNode", "removeCluster", "removeNodes"}

ASSUME AdmissionKindsAssumption == Kinds \in [Requests -> SUBSET AllKinds]
ASSUME AdmissionNoneAssumption == None \notin Ids

\* The fields of each request that tell its handling apart.
Fields(k) ==
    CASE k = "install"       -> {"organization", "cluster", "request", "username", "privateKey",
                                 "nodes", "kubeConfig", "baseSystem"}
      [] k = "provision"     -> {"organization", "request", "management", "numNodes", "nodeType",
                                 "azure", "credentials", "options"}
      [] k \in {"scale", "decommission"} ->
                                {"organization", "cluster", "request", "management", "azure",
                                 "credentials", "options", "resourceGroup"}
      [] k = "uninstall"     -> {"organization", "cluster", "request", "kubeConfig", "azure"}
      [] k \in ByClusterId   -> {"organization", "cluster"}
      [] k = "listClusters"  -> {"organization"}
      [] k = "updateCluster" -> {"organization", "cluster", "addLabels", "badLabels"}
      [] k = "updateNode"    -> {"organization", "node", "addLabels", "badLabels"}
      [] k = "removeCluster" -> {"organization", "cluster", "request"}
      [] k = "removeNodes"   -> {"organization", "request", "nodes"}

AllFields == UNION {Fields(k) : k \in AllKinds}

\* A resource group is part of the Azure options.
Forms(k) == {f \in SUBSET Fields(k) : "resourceGroup" \in f => "options" \in f}

VARIABLES
    kind,      \* the call of each request
    given,     \* the fields it has: as received, then as the manager completes it
    id,        \* its request identifier
    stage,     \* how far it is
    sent,      \* messages sent to the other components
    usedIds,   \* history: identifiers seen by anyone
    keyless    \* history: requests the provisioner returned no kubeconfig for

vars == <<kind, given, id, stage, sent, usedIds, keyless>>

Stages == {"idle", "arrived", "admitted", "discovered", "provisioning", "keyed", "uninstalling",
           "done", "rejected", "failed", "noKubeConfig"}
Ended == {"done", "rejected", "failed", "noKubeConfig"}
Services == {"install", "uninstall", "provision", "scale", "getKubeConfig", "decommission",
             "systemModel"}
Messages == [service : Services, fields : SUBSET AllFields, id : Ids \cup {None}, by : Requests]

TypeOK ==
    /\ kind \in [Requests -> AllKinds \cup {"none"}]
    /\ given \in [Requests -> SUBSET AllFields]
    /\ id \in [Requests -> Ids \cup {None}]
    /\ stage \in [Requests -> Stages]
    /\ sent \subseteq Messages
    /\ usedIds \subseteq Ids
    /\ keyless \subseteq Requests

Init ==
    /\ kind = [r \in Requests |-> "none"]
    /\ given = [r \in Requests |-> {}]
    /\ id = [r \in Requests |-> None]
    /\ stage = [r \in Requests |-> "idle"]
    /\ sent = {}
    /\ usedIds = {}
    /\ keyless = {}

GoTo(r, s) == stage' = [stage EXCEPT ![r] = s]

Send(r, s, f) == sent' = sent \cup {[service |-> s, fields |-> f, id |-> id[r], by |-> r]}

-----------------------------------------------------------------------------
\* validator.go

OnAzure(f, needed) == "azure" \in f => needed \subseteq f

ValidOrganizationId(f) == "organization" \in f
ValidClusterId(f) == {"organization", "cluster"} \subseteq f

ValidInstallRequest(f) ==
    /\ "organization" \in f
    /\ {"cluster", "request"} \cap f = {}
    /\ "username" \in f => {"privateKey", "nodes"} \subseteq f
    /\ "kubeConfig" \in f => {"username", "privateKey", "nodes"} \cap f = {}
    /\ {"username", "kubeConfig"} \cap f # {}

ValidProvisionClusterRequest(f) ==
    /\ {"request", "organization", "numNodes", "nodeType"} \subseteq f
    /\ "management" \notin f
    /\ OnAzure(f, {"credentials", "options"})

\* ValidScaleClusterRequest and ValidDecommissionClusterRequest.
ValidOnProvisioned(f) ==
    /\ "request" \notin f
    /\ {"organization", "cluster"} \subseteq f
    /\ "management" \notin f
    /\ OnAzure(f, {"credentials", "options", "resourceGroup"})

ValidUninstallClusterRequest(f) ==
    /\ "request" \notin f
    /\ {"organization", "cluster", "kubeConfig"} \subseteq f

ValidLabels(f) == "addLabels" \in f => "badLabels" \notin f

ValidUpdateClusterRequest(f) == ValidClusterId(f) /\ ValidLabels(f)

ValidUpdateNodeRequest(f) ==
    /\ "organization" \in f
    /\ "node" \notin f
    /\ ValidLabels(f)

ValidRemoveNodesRequest(f) == {"request", "organization", "nodes"} \subseteq f
ValidRemoveClusterRequest(f) == FALSE  \* not implemented

Valid(k, f) ==
    CASE k = "install"       -> ValidInstallRequest(f)
      [] k = "provision"     -> ValidProvisionClusterRequest(f)
      [] k \in {"scale", "decommission"} -> ValidOnProvisioned(f)
      [] k = "uninstall"     -> ValidUninstallClusterRequest(f)
      [] k \in ByClusterId   -> ValidClusterId(f)
      [] k = "listClusters"  -> ValidOrganizationId(f)
      [] k = "updateCluster" -> ValidUpdateClusterRequest(f)
      [] k = "updateNode"    -> ValidUpdateNodeRequest(f)
      [] k = "removeCluster" -> ValidRemoveClusterRequest(f)
      [] k = "removeNodes"   -> ValidRemoveNodesRequest(f)

-----------------------------------------------------------------------------
\* handler.go

Receive(r) ==
    /\ stage[r] = "idle"
    /\ \E k \in Kinds[r] : \E f \in Forms(k) :
          /\ kind' = [kind EXCEPT ![r] = k]
          /\ given' = [given EXCEPT ![r] = f]
          /\ \E i \in Ids \cup {None} :
                /\ i = None <=> "request" \notin f
                /\ id' = [id EXCEPT ![r] = i]
                /\ usedIds' = usedIds \cup ({i} \ {None})
    /\ GoTo(r, "arrived")
    /\ UNCHANGED <<sent, keyless>>

\* A delegated operation gets an identifier of its own, in place of any it came with.
StampIfMissing(r) ==
    /\ IF id[r] = None THEN \E i \in Ids \ usedIds : /\ id' = [id EXCEPT ![r] = i]
                                                     /\ usedIds' = usedIds \cup {i}
       ELSE UNCHANGED <<id, usedIds>>
    /\ given' = [given EXCEPT ![r] = @ \cup {"request"}]

Stamp(r) ==
    /\ \E i \in Ids \ usedIds : /\ id' = [id EXCEPT ![r] = i]
                                /\ usedIds' = usedIds \cup {i}
    /\ given' = [given EXCEPT ![r] = @ \cup {"request"}]

Admit(r) ==
    /\ stage[r] = "arrived"
    /\ Valid(kind[r], given[r])
    /\ IF kind[r] \in Delegated THEN Stamp(r) ELSE UNCHANGED <<given, id, usedIds>>
    /\ GoTo(r, "admitted")
    /\ UNCHANGED <<kind, sent, keyless>>

Reject(r) ==
    /\ stage[r] = "arrived"
    /\ ~Valid(kind[r], given[r])
    /\ GoTo(r, "rejected")
    /\ UNCHANGED <<kind, given, id, sent, usedIds, keyless>>

-----------------------------------------------------------------------------
\* manager.go: what each admitted request has sent to the other components

\* Queries, updates, and the cordons and drains of Cordoning are passed on as they are.
Forward(r) ==
    /\ stage[r] = "admitted"
    /\ kind[r] \in ByClusterId \cup {"listClusters", "updateCluster", "updateNode"}
    /\ Send(r, "systemModel", given[r])
    /\ GoTo(r, "done")
    /\ UNCHANGED <<kind, given, id, usedIds, keyless>>

\* An install needs a kubeconfig to discover its cluster from, which it then adds to
\* the System Model. The base system is not supported, which is said afterwards.
DiscoverCluster(r) ==
    /\ stage[r] = "admitted" /\ kind[r] = "install"
    /\ GoTo(r, IF "kubeConfig" \in given[r] THEN "discovered" ELSE "noKubeConfig")
    /\ UNCHANGED <<kind, given, id, sent, usedIds, keyless>>

InstallCluster(r) ==
    /\ stage[r] = "discovered" /\ kind[r] = "install"
    /\ "baseSystem" \notin given[r]
    /\ given' = [given EXCEPT ![r] = @ \cup {"cluster"}]
    /\ Send(r, "install", given[r] \cup {"cluster"})
    /\ GoTo(r, "done")
    /\ UNCHANGED <<kind, id, usedIds, keyless>>

ProvisionCluster(r) ==
    /\ stage[r] = "admitted" /\ kind[r] = "provision"
    /\ given' = [given EXCEPT ![r] = @ \cup {"cluster"}]
    /\ Send(r, "provision", given[r] \cup {"cluster"})
    /\ GoTo(r, "provisioning")
    /\ UNCHANGED <<kind, id, usedIds, keyless>>

ProvisionedInstallUntyped == {"request", "organization", "cluster", "rawKubeConfig", "azure"}

\* The install request of provisionCallback, for any platform as on Azure.
ProvisionedInstall == {"request", "organization", "cluster", "kubeConfig", "azure"}

\* Without a kubeconfig no cluster is discovered, and the callback ends.
ProvisionCallback(r) ==
    /\ stage[r] = "provisioning"
    /\ Send(r, "install", ProvisionedInstall)
    /\ GoTo(r, "done")
    /\ UNCHANGED <<kind, given, id, usedIds, keyless>>

ScaleCluster(r) ==
    /\ stage[r] = "admitted" /\ kind[r] = "scale"
    /\ Send(r, "scale", given[r])
    /\ GoTo(r, "done")
    /\ UNCHANGED <<kind, given, id, usedIds, keyless>>

UninstallCluster(r) ==
    /\ stage[r] = "admitted" /\ kind[r] = "uninstall"
    /\ Send(r, "uninstall", given[r])
    /\ GoTo(r, "done")
    /\ UNCHANGED <<kind, given, id, usedIds, keyless>>

\* UninstallAndDecommissionCluster: first the kubeconfig.
GetKubeConfig(r) ==
    /\ stage[r] = "admitted" /\ kind[r] = "decommission"
    /\ Send(r, "getKubeConfig", given[r])
    /\ keyless' = keyless \cup {r} \/ keyless' = keyless
    /\ GoTo(r, "keyed")
    /\ UNCHANGED <<kind, given, id, usedIds>>

UninstallRequestNoConfig(r) == given[r] \cap {"request", "organization", "cluster", "azure"}

\* The uninstall request built from a decommission and the provisioner's answer.
UninstallRequest(r) ==
    (given[r] \cap {"request", "organization", "cluster", "azure"})
        \cup (IF r \in keyless THEN {} ELSE {"kubeConfig"})

UninstallFirst(r) ==
    /\ stage[r] = "keyed"
    /\ Send(r, "uninstall", UninstallRequest(r))
    /\ GoTo(r, "uninstalling")
    /\ UNCHANGED <<kind, given, id, usedIds, keyless>>

DecommissionRequestNoOptions(r) == given[r] \ {"options", "resourceGroup"}
DecommissionRequest(r) == given[r]

\* The monitor of the uninstall makes the call, once the uninstall has ended.
Decommission(r) ==
    /\ stage[r] = "uninstalling"
    /\ Send(r, "decommission", DecommissionRequest(r))
    /\ GoTo(r, "done")
    /\ UNCHANGED <<kind, given, id, usedIds, keyless>>

\* A state does not allow the operation, or a call fails: see ClusterOps. The removal
\* of nodes and the install of a base system always do.
Fail(r) ==
    /\ stage[r] \in {"admitted", "discovered", "provisioning", "keyed", "uninstalling"}
    /\ GoTo(r, "failed")
    /\ UNCHANGED <<kind, given, id, sent, usedIds, keyless>>

Step(r) ==
    \/ Admit(r)
    \/ Reject(r)
    \/ Forward(r)
    \/ DiscoverCluster(r)
    \/ InstallCluster(r)
    \/ ProvisionCluster(r)
    \/ ProvisionCallback(r)
    \/ ScaleCluster(r)
    \/ UninstallCluster(r)
    \/ GetKubeConfig(r)
    \/ UninstallFirst(r)
    \/ Decommission(r)
    \/ Fail(r)

\* The manager waits for callers. Bound: Ids has an identifier left to stamp.
Waiting ==
    /\ \A r \in Requests : stage[r] \in Ended \cup {"idle"}
    /\ UNCHANGED vars

Next ==
    \/ \E r \in Requests : Receive(r) \/ Step(r)
    \/ Waiting

Spec == Init /\ [][Next]_vars

-----------------------------------------------------------------------------
\* Properties

\* The requests the manager builds (manager.go:417, :798) do not pass the validation of
\* those callers send. Still every install and uninstall names its organization, its
\* cluster and its request and carries a kubeconfig, and no other credentials; only
\* the uninstall of a decommission may lack it, if the provisioner returned none.
InstallerGetsComplete ==
    \A m \in sent :
        m.service \in {"install", "uninstall"} =>
            /\ {"organization", "cluster", "request"} \subseteq m.fields
            /\ {"username", "privateKey"} \cap m.fields = {}
            /\ "kubeConfig" \notin m.fields => m.service = "uninstall" /\ m.by \in keyless

\* Whatever reaches the provisioner, at once or by a callback much later (manager.go:821),
\* is about an application cluster and has all that Azure needs.
ProvisionerGetsComplete ==
    \A m \in sent :
        m.service \in {"provision", "scale", "getKubeConfig", "decommission"} =>
            /\ {"organization", "cluster", "request"} \subseteq m.fields
            /\ "management" \notin m.fields
            /\ "azure" \in m.fields => {"credentials", "options"} \subseteq m.fields

\* Who carries out an operation. Monitors ask it by the request identifier alone.
ServedBy(s) == IF s \in {"install", "uninstall"} THEN "installer" ELSE "provisioner"

\* Callers may choose the identifier of a provision (handler.go:56), and one request may
\* start two operations: provision and install, uninstall and decommission. Still the
\* installer and the provisioner are never asked for two operations under one identifier,
\* so a monitor cannot take the outcome of one for that of the other.
IdsTellOperationsApart ==
    \A m, n \in sent :
        /\ m.service \in Delegated /\ n.service \in Delegated
        /\ ServedBy(m.service) = ServedBy(n.service)
        /\ m.id = n.id
        => m = n
=============================================================================
