----------------------------- MODULE ClusterNodes -----------------------------
(***************************************************************************)
(* The nodes of clusters in the System Model (manager.go): attachNodes     *)
(* adds and attaches the nodes that were discovered, for an install before *)
(* and for a provision in its callback; installCallback records on them    *)
(* how the install ended; removeClusterFromSM removes them and then their  *)
(* cluster. Requests interleave at every remote call.                      *)
(*                                                                         *)
(* External, as the manager relies on it: the System Model gives a fresh   *)
(* identifier to every node it adds, rejects updates of what it does not   *)
(* hold, and stores the status reports other components make on nodes.     *)
(***************************************************************************)
EXTENDS InfraDefs, FiniteSets

CONSTANTS
    Clusters,  \* cluster identifiers of the System Model
    Nodes,     \* node identifiers of the System Model
    Requests,  \* requests that reach the code modelled here, each once
    None,      \* no cluster, no node, no request
    MaxNodes,  \* bound: nodes discovered in one cluster
    Faults     \* what may go wrong

AllFaults == {"refused",    \* a call fails without effect
              "lostReply",  \* a call takes effect and its reply is lost
              "restart"}    \* the process ends and is started again

ASSUME NodesNoneAssumption == None \notin Clusters \cup Nodes \cup Requests
ASSUME MaxNodesAssumption == MaxNodes \in Nat
ASSUME NodesFaultsAssumption == Faults \subseteq AllFaults

VARIABLES
    state,      \* state of each cluster in the System Model
    life,       \* whether each node is in the System Model
    owner,      \* the cluster each node is attached to
    nodeState,  \* NodeState of each node
    nodeStatus, \* status of each node in the System Model: working or not
    kind, target, pc, \* what each request does, to which cluster, and its control state
    found,      \* nodes discovered in the cluster of each request
    left,       \* of these, nodes still to attach
    fresh,      \* the node added and about to be attached
    listed,     \* nodes listed and not handled yet
    readStatus, \* their status when they were listed
    outcome,    \* what the monitor brought: verdict and the node state it maps to
    slipped,    \* history: requests that met an error
    adder,      \* history: the request that added each node
    reported,   \* history: the last status reported of each node
    overtaken,  \* history: nodes last reported between being listed and updated
    crossed     \* history: clusters a removal began of during other work on them

clusterVars == <<state>>
nodeVars    == <<life, owner, nodeState, nodeStatus>>
callVars    == <<kind, target, found, outcome, crossed>>
loopVars    == <<left, fresh, listed, readStatus>>
reportVars  == <<reported, overtaken>>
vars == <<clusterVars, nodeVars, callVars, loopVars, pc, slipped, adder, reportVars>>

NodeStates == {"UNREGISTERED", "UNASSIGNED", "ASSIGNED"}
Labels == {"idle", "attach", "join", "install", "watch", "record", "listUpdate", "update",
           "listRemove", "removeNodes", "removeCluster", "done", "dead"}
Outcome == [verdict : Final("install") \cup {"none"}, nodes : NodeStates]

TypeOK ==
    /\ state \in [Clusters -> {"unknown", "PROVISIONED", "INSTALLED", "FAILURE", "removed"}]
    /\ life \in [Nodes -> {"unknown", "added", "removed"}]
    /\ owner \in [Nodes -> Clusters \cup {None}]
    /\ nodeState \in [Nodes -> NodeStates]
    /\ nodeStatus \in [Nodes -> BOOLEAN]
    /\ kind \in [Requests -> {"none", "install", "provision", "remove"}]
    /\ target \in [Requests -> Clusters \cup {None}]
    /\ pc \in [Requests -> Labels]
    /\ found \in [Requests -> 0..MaxNodes]
    /\ left \in [Requests -> 0..MaxNodes]
    /\ fresh \in [Requests -> Nodes \cup {None}]
    /\ listed \in [Requests -> SUBSET Nodes]
    /\ readStatus \in [Requests -> [Nodes -> BOOLEAN]]
    /\ outcome \in [Requests -> Outcome]
    /\ slipped \subseteq Requests
    /\ adder \in [Nodes -> Requests \cup {None}]
    /\ reported \in [Nodes -> BOOLEAN]
    /\ overtaken \subseteq Nodes
    /\ crossed \subseteq Clusters

Init ==
    /\ state = [c \in Clusters |-> "unknown"]
    /\ life = [n \in Nodes |-> "unknown"]
    /\ owner = [n \in Nodes |-> None]
    /\ nodeState = [n \in Nodes |-> "UNREGISTERED"]
    /\ nodeStatus = [n \in Nodes |-> FALSE]
    /\ kind = [r \in Requests |-> "none"]
    /\ target = [r \in Requests |-> None]
    /\ pc = [r \in Requests |-> "idle"]
    /\ found = [r \in Requests |-> 0]
    /\ left = [r \in Requests |-> 0]
    /\ fresh = [r \in Requests |-> None]
    /\ listed = [r \in Requests |-> {}]
    /\ readStatus = [r \in Requests |-> nodeStatus]
    /\ outcome = [r \in Requests |-> [verdict |-> "none", nodes |-> "UNREGISTERED"]]
    /\ slipped = {}
    /\ adder = [n \in Nodes |-> None]
    /\ reported = nodeStatus
    /\ overtaken = {}
    /\ crossed = {}

Live(r) == pc[r] \notin {"idle", "done", "dead"}
Present(c) == state[c] \notin Absent
Attached(c) == {n \in Nodes : life[n] = "added" /\ owner[n] = c}

\* A call may fail without effect, or take effect and fail for its caller.
Refused == "refused" \in Faults
Lost == "lostReply" \in Faults

\* r goes on at l; an error on its way is remembered.
GoTo(r, l) == pc' = [pc EXCEPT ![r] = l] /\ UNCHANGED slipped
Slip(r, l) == pc' = [pc EXCEPT ![r] = l] /\ slipped' = slipped \cup {r}

-----------------------------------------------------------------------------
\* Reaching this code

\* Where attachNodes goes on with k nodes left to attach.
AttachLoopOneMore(k) == IF k < 0 THEN "install" ELSE "attach"
AttachLoop(k) == IF k = 0 THEN "install" ELSE "attach"

\* A cluster was discovered, and added to the System Model if it is to be
\* installed. A provision has added it before it started.
StartAttach(r, c, k) ==
    /\ state[c] = "unknown"
    /\ state' = [state EXCEPT ![c] = "PROVISIONED"]
    /\ \E n \in 0..MaxNodes :
          /\ found' = [found EXCEPT ![r] = n]
          /\ left' = [left EXCEPT ![r] = n]
          /\ pc' = [pc EXCEPT ![r] = AttachLoop(n)]
    /\ kind' = [kind EXCEPT ![r] = k]
    /\ UNCHANGED crossed

\* The decommission of a cluster has ended (decommissionCallback).
StartRemove(r, c) ==
    /\ Present(c)
    /\ crossed' = IF \E x \in Requests : Live(x) /\ target[x] = c
                  THEN crossed \cup {c} ELSE crossed
    /\ pc' = [pc EXCEPT ![r] = "listRemove"]
    /\ kind' = [kind EXCEPT ![r] = "remove"]
    /\ UNCHANGED <<state, found, left>>

Receive(r) ==
    /\ pc[r] = "idle"
    /\ \E c \in Clusters :
          /\ target' = [target EXCEPT ![r] = c]
          /\ \/ \E k \in {"install", "provision"} : StartAttach(r, c, k)
             \/ StartRemove(r, c)
    /\ UNCHANGED <<nodeVars, fresh, listed, readStatus, outcome, slipped, adder, reportVars>>

-----------------------------------------------------------------------------
\* attachNodes, one node after the other up to the first error

\* An error ends an install; provisionCallback logs it and installs all the same.
AttachFailsKeepsOn(r) == Slip(r, AttachLoop(left[r] - 1)) /\ left' = [left EXCEPT ![r] = @ - 1]
AttachFails(r) ==
    /\ Slip(r, IF kind[r] = "install" THEN "done" ELSE "install")
    /\ left' = left

\* Bound: the System Model refuses when Nodes has no fresh identifier left.
AddNode(r) ==
    /\ pc[r] = "attach"
    /\ \/ \E n \in Nodes :
             /\ life[n] = "unknown"
             /\ life' = [life EXCEPT ![n] = "added"]
             /\ adder' = [adder EXCEPT ![n] = r]
             /\ \/ fresh' = [fresh EXCEPT ![r] = n] /\ GoTo(r, "join") /\ left' = left
                \/ Lost /\ AttachFails(r) /\ UNCHANGED fresh
       \/ /\ Refused \/ \A n \in Nodes : life[n] # "unknown"
          /\ AttachFails(r)
          /\ UNCHANGED <<life, adder, fresh>>
    /\ UNCHANGED <<clusterVars, owner, nodeState, nodeStatus, callVars, listed, readStatus,
                   reportVars>>

AttachNode(r) ==
    /\ pc[r] = "join"
    /\ \/ /\ owner' = [owner EXCEPT ![fresh[r]] = target[r]]
          /\ \/ left' = [left EXCEPT ![r] = @ - 1] /\ GoTo(r, AttachLoop(left[r] - 1))
             \/ Lost /\ AttachFails(r)
       \/ Refused /\ AttachFails(r) /\ UNCHANGED owner
    /\ UNCHANGED <<clusterVars, life, nodeState, nodeStatus, callVars, fresh, listed,
                   readStatus, adder, reportVars>>

-----------------------------------------------------------------------------
\* The install and its callback

\* The rest of InstallCluster, and the monitor: see ClusterOps.
Install(r) ==
    /\ pc[r] = "install"
    /\ GoTo(r, "watch") \/ Slip(r, "done")
    /\ UNCHANGED <<clusterVars, nodeVars, callVars, loopVars, adder, reportVars>>

\* OpStatusToNodeState, for the statuses a report stands for. An error text may come
\* while the operation goes on (INIT, SCHEDULED, INPROGRESS) or with its end (SUCCESS,
\* or CANCELED, for which the state is never set and stays the zero value).
NodeStatesOf(verdict) ==
    CASE verdict = "success"  -> {"ASSIGNED"}
      [] verdict = "failed"   -> {"UNREGISTERED"}
      [] verdict = "troubled" -> {"UNASSIGNED"}
      [] verdict = "flagged"  -> {"ASSIGNED", "UNREGISTERED"}

MonitorNotifies(r) ==
    /\ pc[r] = "watch"
    /\ \E v \in Final("install") : \E s \in NodeStatesOf(v) :
          outcome' = [outcome EXCEPT ![r] = [verdict |-> v, nodes |-> s]]
    /\ GoTo(r, "record")
    /\ UNCHANGED <<clusterVars, nodeVars, kind, target, found, crossed, loopVars, adder, reportVars>>

\* The state of the cluster is updated first; an error is only logged.
RecordState(r) ==
    /\ pc[r] = "record"
    /\ \/ /\ Present(target[r])
          /\ state' = [state EXCEPT ![target[r]] = OutcomeState("install", outcome[r].verdict)]
          /\ GoTo(r, "listUpdate") \/ (Lost /\ Slip(r, "listUpdate"))
       \/ /\ ~Present(target[r]) \/ Refused
          /\ Slip(r, "listUpdate")
          /\ UNCHANGED state
    /\ UNCHANGED <<nodeVars, callVars, loopVars, adder, reportVars>>

\* ListNodes, for the request to go on at l with nodes and at l0 without.
ListNodes(r, l, l0) ==
    /\ \/ /\ listed' = [listed EXCEPT ![r] = Attached(target[r])]
          /\ readStatus' = [readStatus EXCEPT ![r] =
                              [n \in Nodes |-> n \in Attached(target[r]) /\ nodeStatus[n]]]
          /\ GoTo(r, IF Attached(target[r]) = {} THEN l0 ELSE l)
       \/ /\ Refused \/ Lost
          /\ Slip(r, "done")
          /\ UNCHANGED <<listed, readStatus>>
    /\ UNCHANGED <<clusterVars, nodeVars, callVars, left, fresh, adder, reportVars>>

ListToUpdate(r) == pc[r] = "listUpdate" /\ ListNodes(r, "update", "done")

WriteNodeNoStatus(r, n) ==
    /\ nodeState' = [nodeState EXCEPT ![n] = outcome[r].nodes]
    /\ nodeStatus' = [nodeStatus EXCEPT ![n] = FALSE]

\* UpdateNode with the status a node had when it was listed.
WriteNode(r, n) ==
    /\ nodeState' = [nodeState EXCEPT ![n] = outcome[r].nodes]
    /\ nodeStatus' = [nodeStatus EXCEPT ![n] = readStatus[r][n]]

\* One node after the other; the first error ends the callback.
UpdateNode(r) ==
    /\ pc[r] = "update"
    /\ \E n \in listed[r] :
          /\ listed' = [listed EXCEPT ![r] = @ \ {n}]
          /\ \/ /\ life[n] = "added"
                /\ WriteNode(r, n)
                /\ \/ GoTo(r, IF listed[r] = {n} THEN "done" ELSE "update")
                   \/ Lost /\ Slip(r, "done")
             \/ /\ life[n] # "added" \/ Refused
                /\ Slip(r, "done")
                /\ UNCHANGED <<nodeState, nodeStatus>>
    /\ UNCHANGED <<clusterVars, life, owner, callVars, left, fresh, readStatus, adder, reportVars>>

-----------------------------------------------------------------------------
\* removeClusterFromSM

ListToRemove(r) == pc[r] = "listRemove" /\ ListNodes(r, "removeNodes", "removeCluster")

RemoveNodesLogsError(r) ==
    /\ pc[r] = "removeNodes"
    /\ \/ /\ life' = [n \in Nodes |-> IF n \in listed[r] THEN "removed" ELSE life[n]]
          /\ GoTo(r, "removeCluster") \/ (Lost /\ Slip(r, "removeCluster"))
       \/ Refused /\ Slip(r, "removeCluster") /\ UNCHANGED life
    /\ UNCHANGED <<clusterVars, owner, nodeState, nodeStatus, callVars, loopVars, adder, reportVars>>

RemoveNodes(r) ==
    /\ pc[r] = "removeNodes"
    /\ \/ /\ life' = [n \in Nodes |-> IF n \in listed[r] THEN "removed" ELSE life[n]]
          /\ GoTo(r, "removeCluster") \/ (Lost /\ Slip(r, "done"))
       \/ Refused /\ Slip(r, "done") /\ UNCHANGED life
    /\ UNCHANGED <<clusterVars, owner, nodeState, nodeStatus, callVars, loopVars, adder, reportVars>>

RemoveCluster(r) ==
    /\ pc[r] = "removeCluster"
    /\ \/ /\ Present(target[r])
          /\ state' = [state EXCEPT ![target[r]] = "removed"]
          /\ GoTo(r, "done") \/ (Lost /\ Slip(r, "done"))
       \/ /\ ~Present(target[r]) \/ Refused
          /\ Slip(r, "done")
          /\ UNCHANGED state
    /\ UNCHANGED <<nodeVars, callVars, loopVars, adder, reportVars>>

-----------------------------------------------------------------------------
\* The process is stopped and started again: nothing resumes.
Restart ==
    /\ "restart" \in Faults
    /\ \E r \in Requests : Live(r)
    /\ pc' = [r \in Requests |-> IF Live(r) THEN "dead" ELSE pc[r]]
    /\ slipped' = slipped \cup {r \in Requests : Live(r)}
    /\ UNCHANGED <<clusterVars, nodeVars, callVars, loopVars, adder, reportVars>>

\* Another component reports a change of the status of a node.
InUpdate(n) == \E r \in Requests : pc[r] = "update" /\ n \in listed[r]

ReportStatus(n) ==
    /\ life[n] = "added"
    /\ nodeStatus' = [nodeStatus EXCEPT ![n] = ~reported[n]]
    /\ reported' = [reported EXCEPT ![n] = ~@]
    /\ overtaken' = IF InUpdate(n) THEN overtaken \cup {n} ELSE overtaken \ {n}
    /\ UNCHANGED <<clusterVars, life, owner, nodeState, callVars, loopVars, pc, slipped, adder>>

Step(r) ==
    \/ AddNode(r)
    \/ AttachNode(r)
    \/ Install(r)
    \/ MonitorNotifies(r)
    \/ RecordState(r)
    \/ ListToUpdate(r)
    \/ UpdateNode(r)
    \/ ListToRemove(r)
    \/ RemoveNodes(r)
    \/ RemoveCluster(r)

\* The manager waits for callers.
Waiting ==
    /\ \A r \in Requests : ~Live(r)
    /\ UNCHANGED vars

Next ==
    \/ \E r \in Requests : Receive(r) \/ Step(r)
    \/ Restart
    \/ \E n \in Nodes : ReportStatus(n)
    \/ Waiting

Spec == Init /\ [][Next]_vars

-----------------------------------------------------------------------------
\* Properties

Orphan(n) == life[n] = "added" /\ owner[n] = None

\* attachNodes (manager.go:110) adds a node and attaches it in two calls. A node of
\* no cluster is about to be attached by the request that added it, or this
\* request met an error; and no request ever leaves more than one behind.
OrphansAreFew ==
    /\ \A n \in Nodes :
          Orphan(n) =>
              /\ adder[n] \in Requests
              /\ \/ pc[adder[n]] = "join" /\ fresh[adder[n]] = n
                 \/ adder[n] \in slipped
    /\ \A m, n \in Nodes : Orphan(m) /\ Orphan(n) /\ adder[m] = adder[n] => m = n

\* removeClusterFromSM (manager.go:177): unless a removal ran into other work on its
\* cluster, no node is left attached to a cluster that is gone, whichever of its
\* calls fails, loses its reply or is never made.
NoNodeOutlivesCluster ==
    \A n \in Nodes :
        life[n] = "added" /\ owner[n] # None /\ state[owner[n]] = "removed"
            => owner[n] \in crossed

\* A cluster is handed to the installer with every node that was discovered in it,
\* whichever calls fail or lose their reply on the way. Only a provision may install it
\* short of nodes, after an error of attachNodes: provisionCallback logs this error and
\* goes on (manager.go:413), InstallCluster returns it. Clusters that are being removed
\* meanwhile are left out.
OnlyProvisionsInstallShort ==
    \A r \in Requests :
        /\ pc[r] \in {"install", "watch", "record", "listUpdate", "update"}
        /\ target[r] \notin crossed
        /\ Cardinality(Attached(target[r])) # found[r]
        => kind[r] = "provision" /\ r \in slipped

\* installCallback (manager.go:483) writes the cluster and then each node. Once it has
\* ended without an error they agree: the nodes of an installed cluster are
\* ASSIGNED and those of a failed one are not. An error text that comes without
\* FAILED is left out: it marks the cluster INSTALLED, and its nodes by the status.
NodesAgreeWithCluster ==
    \A r \in Requests :
        /\ pc[r] = "done" /\ r \notin slipped
        /\ outcome[r].verdict \in {"success", "failed"}
        /\ Present(target[r])
        => \A n \in Attached(target[r]) :
              nodeState[n] = "ASSIGNED" <=> state[target[r]] = "INSTALLED"

\* The callback writes back the status it has listed (manager.go:508). The System Model
\* holds the last status reported of a node, unless that report came after a
\* callback had listed the node and before it updated it.
StatusLostOnlyInUpdate ==
    \A n \in Nodes : nodeStatus[n] # reported[n] => n \in overtaken
=============================================================================
