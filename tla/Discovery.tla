------------------------------ MODULE Discovery ------------------------------
(***************************************************************************)
(* Discovery of a Kubernetes cluster: discoverCluster and writeTempFile    *)
(* (manager.go) and DiscoveryHelper (discovery.go). The kubeconfig of a    *)
(* request goes to a temporal file, which is read twice, to name the       *)
(* cluster and to connect to it; the cluster is asked for its version and  *)
(* its nodes; the file is removed. Discoveries interleave and share the    *)
(* temporal directory. Content that does not parse names no cluster.       *)
(*                                                                         *)
(* External: TempFile returns a name that is not in use; a file that was   *)
(* written can be removed; the Kubernetes client connects to the cluster   *)
(* of the current context if the kubeconfig defines it, and with no current*)
(* context to the cluster of the pod the manager runs in; a call to        *)
(* Kubernetes may fail.                                                    *)
(***************************************************************************)
CONSTANTS
    Requests,  \* discoveries, each made once
    Servers,   \* Kubernetes clusters
    Home,      \* the one the manager itself runs in
    Files,     \* names of temporal files
    None,      \* no server, no file
    Faults     \* what may go wrong

AllFaults == {"noTemp",     \* the file cannot be created, written or closed
              "restart"}    \* the process ends and is started again

ASSUME DiscoveryNoneAssumption == None \notin Servers \cup Files
ASSUME HomeAssumption == Home \in Servers
ASSUME DiscoveryFaultsAssumption == Faults \subseteq AllFaults

KubeConfigs == [clusters : SUBSET Servers, current : Servers \cup {None}]
NoConfig == [clusters |-> {}, current |-> None]

VARIABLES
    config,   \* the kubeconfig of each discovery
    pc,       \* its control state
    path,     \* its temporal file
    server,   \* DiscoveryHelper.Server, of the cluster the kubeconfig names
    client,   \* DiscoveryHelper.Client, by the cluster it connects to
    listed,   \* the cluster whose nodes are returned
    files,    \* the files of the temporal directory
    disk,     \* the content of each file: of one that is not there, nothing
    panicked  \* history: the process ended by itself

vars == <<config, pc, path, server, client, listed, files, disk, panicked>>

Labels == {"idle", "store", "validate", "connect", "version", "nodes", "found", "error", "dead"}
Using == {"validate", "connect", "version", "nodes"}
Live == Using \cup {"store"}

TypeOK ==
    /\ config \in [Requests -> KubeConfigs]
    /\ pc \in [Requests -> Labels]
    /\ path \in [Requests -> Files \cup {None}]
    /\ server \in [Requests -> Servers \cup {None}]
    /\ client \in [Requests -> Servers \cup {None}]
    /\ listed \in [Requests -> Servers \cup {None}]
    /\ files \subseteq Files
    /\ disk \in [Files -> KubeConfigs]
    /\ panicked \in BOOLEAN

Init ==
    /\ config = [r \in Requests |-> NoConfig]
    /\ pc = [r \in Requests |-> "idle"]
    /\ path = [r \in Requests |-> None]
    /\ server = [r \in Requests |-> None]
    /\ client = [r \in Requests |-> None]
    /\ listed = [r \in Requests |-> None]
    /\ files = {}
    /\ disk = [f \in Files |-> NoConfig]
    /\ panicked = FALSE

GoTo(r, l) == pc' = [pc EXCEPT ![r] = l]

KillAllForgetsEnded == pc' = [r \in {x \in Requests : pc[x] \in Live} |-> "dead"]

\* The process ends and everything that runs in it.
KillAll == pc' = [r \in Requests |-> IF pc[r] \in Live THEN "dead" ELSE pc[r]]

RemoveForgotten(r) == UNCHANGED <<files, disk>>

\* discoverCluster returns: the deferred call removes the file.
Remove(r) ==
    /\ files' = files \ {path[r]}
    /\ disk' = [disk EXCEPT ![path[r]] = NoConfig]

StartAgain(r) ==
    /\ pc[r] \in {"idle", "error"}
    /\ \E k \in KubeConfigs : config' = [config EXCEPT ![r] = k]
    /\ GoTo(r, "store")
    /\ UNCHANGED <<path, server, client, listed, files, disk, panicked>>

Start(r) ==
    /\ pc[r] = "idle"
    /\ \E k \in KubeConfigs : config' = [config EXCEPT ![r] = k]
    /\ GoTo(r, "store")
    /\ UNCHANGED <<path, server, client, listed, files, disk, panicked>>

\* ioutil.TempFile adds a random part to the prefix, so that the name is free.
TempFile(f) == f \notin files

StoreConfig(r) ==
    /\ pc[r] = "store"
    /\ \E f \in Files :
          /\ TempFile(f)
          /\ files' = files \cup {f}
          /\ disk' = [disk EXCEPT ![f] = config[r]]
          /\ path' = [path EXCEPT ![r] = f]
    /\ GoTo(r, "validate")
    /\ UNCHANGED <<config, server, client, listed, panicked>>

\* writeTempFile fails to create the file, to write it or to close it, and then leaves
\* behind nothing, any part of the content (here all or nothing), or all of it. The name
\* it returns is nil, which the deferred removal dereferences before the error is
\* looked at: the process ends, and nobody knows the name of what it has left.
StoreFails(r) ==
    /\ pc[r] = "store"
    /\ "noTemp" \in Faults
    /\ \/ UNCHANGED <<files, disk>>
       \/ \E f \in Files :
             /\ TempFile(f)
             /\ files' = files \cup {f}
             /\ disk' \in {disk, [disk EXCEPT ![f] = config[r]]}
    /\ panicked' = TRUE
    /\ KillAll
    /\ UNCHANGED <<config, path, server, client, listed>>

Fail(r) ==
    /\ GoTo(r, "error")
    /\ Remove(r)
    /\ UNCHANGED <<config, path, server, client, listed, panicked>>

AtLeastOneCluster(k) == k.clusters # {}
SingleCluster(k) == \E s \in Servers : k.clusters = {s}

\* Validate takes the name and the server of the clusters of the file.
Validate(r) ==
    /\ pc[r] = "validate"
    /\ LET k == disk[path[r]] IN
       \/ /\ SingleCluster(k)
          /\ \E s \in k.clusters : server' = [server EXCEPT ![r] = s]
          /\ GoTo(r, "connect")
          /\ UNCHANGED <<config, path, client, listed, files, disk, panicked>>
       \/ ~SingleCluster(k) /\ Fail(r)

\* The cluster client-go connects to: without a current context its configuration
\* counts as empty, and that of the pod is taken.
Target(k) == IF k.current = None THEN Home ELSE k.current

\* The rest of Connect: the file is loaded again and a client is built from it.
Connect(r) ==
    /\ pc[r] = "connect"
    /\ LET k == disk[path[r]] IN
       \/ /\ k.current \in k.clusters \cup {None}
          /\ client' = [client EXCEPT ![r] = Target(k)]
          /\ GoTo(r, "version")
          /\ UNCHANGED <<config, path, server, listed, files, disk, panicked>>
       \/ Fail(r)

ServerVersion(r) ==
    /\ pc[r] = "version"
    /\ \/ /\ GoTo(r, "nodes")
          /\ UNCHANGED <<config, path, server, client, listed, files, disk, panicked>>
       \/ Fail(r)

\* The nodes are listed, and the host name is parsed from the server.
ListNodes(r) ==
    /\ pc[r] = "nodes"
    /\ \/ /\ listed' = [listed EXCEPT ![r] = client[r]]
          /\ GoTo(r, "found")
          /\ Remove(r)
          /\ UNCHANGED <<config, path, server, client, panicked>>
       \/ Fail(r)

Restart ==
    /\ "restart" \in Faults
    /\ \E r \in Requests : pc[r] \in Live
    /\ KillAll
    /\ UNCHANGED <<config, path, server, client, listed, files, disk, panicked>>

Step(r) ==
    \/ StoreConfig(r)
    \/ StoreFails(r)
    \/ Validate(r)
    \/ Connect(r)
    \/ ServerVersion(r)
    \/ ListNodes(r)

\* The manager waits for callers.
Waiting ==
    /\ \A r \in Requests : pc[r] \notin Live
    /\ UNCHANGED vars

Next ==
    \/ \E r \in Requests : Start(r) \/ Step(r)
    \/ Restart
    \/ Waiting

Spec == Init /\ [][Next]_vars

-----------------------------------------------------------------------------
\* Properties

\* Discover (discovery.go:119) takes the description of a cluster from one reading of
\* the kubeconfig and its nodes over a connection made from a second one. They are
\* of the same cluster, the only one of the kubeconfig of that request; but for a
\* kubeconfig with no current context, whose cluster is described with the nodes of
\* the cluster the manager runs in.
DescribesOwnCluster ==
    \A r \in Requests :
        pc[r] = "found" =>
            /\ config[r].clusters = {server[r]}
            /\ listed[r] = IF config[r].current = None THEN Home ELSE server[r]

\* discoverCluster (manager.go:228) removes the file whatever becomes of the discovery,
\* as long as the process lasts. A kubeconfig is on disk only for the discovery it was
\* given to, while it runs, or it was left there when the process ended in the middle of
\* that discovery: under the name the discovery knew, or under one it was never told,
\* which is what becomes of an error in writing or closing the file.
KubeConfigsDoNotStay ==
    \A f \in Files :
        disk[f] # NoConfig =>
            \E r \in Requests :
                /\ disk[f] = config[r]
                /\ \/ pc[r] \in Using /\ path[r] = f
                   \/ pc[r] = "dead" /\ path[r] \in {f, None}

\* As the rest of the manager sees it, a discovery is a single step.
Answer(l) ==
    CASE l = "idle" -> "idle"
      [] l \in Live -> "pending"
      [] OTHER -> l

Call == INSTANCE DiscoveryCall WITH answer <- [r \in Requests |-> Answer(pc[r])]

ImplementsCall == Call!Spec
=============================================================================
