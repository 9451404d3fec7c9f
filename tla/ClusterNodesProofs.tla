-------------------------- MODULE ClusterNodesProofs --------------------------
(***************************************************************************)
(* What holds of the nodes of clusters for every set of clusters, nodes    *)
(* and requests, every number of discovered nodes, and every fault.        *)
(***************************************************************************)
EXTENDS ClusterNodes, FiniteSetTheorems, TLAPS

USE NodesNoneAssumption, MaxNodesAssumption, NodesFaultsAssumption

-----------------------------------------------------------------------------
\* The inductive invariant.

Attaching == {"attach", "join"}
Installing == {"install", "watch", "record", "listUpdate", "update"}
Removing == {"listRemove", "removeNodes", "removeCluster"}

\* Requests name a cluster the System Model has given out, at labels of their kind.
Named ==
    \A r \in Requests :
        /\ pc[r] # "idle" => target[r] \in Clusters /\ state[target[r]] # "unknown"
        /\ pc[r] \in Attaching \cup Installing => kind[r] \in {"install", "provision"}
        /\ pc[r] \in Removing => kind[r] = "remove"
        /\ pc[r] = "idle" => kind[r] = "none"
        /\ pc[r] \in Attaching => left[r] # 0

\* A cluster is attached to, and installed, by one request only.
OneInstaller ==
    \A r, x \in Requests :
        /\ kind[r] \in {"install", "provision"} /\ kind[x] \in {"install", "provision"}
        /\ target[r] = target[x]
        => r = x

\* The node a request is about to attach is its own and of no cluster yet.
OwnNode ==
    \A r \in Requests :
        pc[r] = "join" => /\ fresh[r] \in Nodes
                          /\ life[fresh[r]] = "added"
                          /\ owner[fresh[r]] = None
                          /\ adder[fresh[r]] = r

Unborn == \A n \in Nodes : life[n] = "unknown" => owner[n] = None

\* Nodes are listed of the cluster of the request.
ListsOwn == \A r \in Requests : \A n \in listed[r] : pc[r] # "idle" /\ owner[n] = target[r]

\* No error is met before the first one.
CleanStart == \A r \in Requests : pc[r] \in {"idle", "attach", "join"} => r \notin slipped

ReadsReported ==
    \A r \in Requests : \A n \in listed[r] :
        pc[r] = "update" => readStatus[r][n] = reported[n] \/ n \in overtaken

\* What a callback knows of the outcome, has written of it to the cluster, and
\* has written of it to the nodes it does not list any more.
KnowsOutcome ==
    \A r \in Requests :
        /\ outcome[r].verdict # "none" =>
              /\ kind[r] \in {"install", "provision"}
              /\ pc[r] \in {"record", "listUpdate", "update", "done", "dead"}
        /\ outcome[r].verdict = "success" => outcome[r].nodes = "ASSIGNED"
        /\ outcome[r].verdict = "failed" => outcome[r].nodes = "UNREGISTERED"

WroteCluster ==
    \A r \in Requests :
        /\ pc[r] \in {"listUpdate", "update", "done"} /\ r \notin slipped
        /\ outcome[r].verdict # "none" /\ Present(target[r])
        => state[target[r]] = OutcomeState("install", outcome[r].verdict)

WroteNodes ==
    \A r \in Requests :
        /\ pc[r] \in {"update", "done"} /\ r \notin slipped
        /\ outcome[r].verdict # "none"
        => \A n \in Attached(target[r]) :
              nodeState[n] = outcome[r].nodes \/ (pc[r] = "update" /\ n \in listed[r])

IInv ==
    /\ TypeOK /\ Named /\ OneInstaller /\ OwnNode /\ Unborn /\ ListsOwn /\ CleanStart
    /\ OrphansAreFew
    /\ ReadsReported /\ StatusLostOnlyInUpdate
    /\ KnowsOutcome /\ WroteCluster /\ WroteNodes

-----------------------------------------------------------------------------
LEMMA WroteNodesFrame ==
    ASSUME WroteNodes, UNCHANGED <<target, outcome, nodeState>>,
           \A x \in Requests :
              outcome[x].verdict # "none" /\ pc'[x] \in {"update", "done"} /\ x \notin slipped'
              => pc'[x] = pc[x] /\ x \notin slipped /\ listed'[x] = listed[x],
           \A x \in Requests :
              pc[x] \in {"update", "done"} /\ outcome[x].verdict # "none"
              => Attached(target[x])' \subseteq Attached(target[x])
    PROVE  WroteNodes'
BY DEF WroteNodes

LEMMA ReceiveInv ==
    ASSUME IInv, NEW r \in Requests, Receive(r)
    PROVE  IInv'
<1> USE DEF Receive, StartAttach, StartRemove, AttachLoop, Absent, Present, Live, clusterVars,
            nodeVars, callVars, loopVars, reportVars
<1>0. PICK c \in Clusters, l \in {"attach", "install", "listRemove"},
           k \in {"install", "provision", "remove"} :
         /\ pc' = [pc EXCEPT ![r] = l]
         /\ kind' = [kind EXCEPT ![r] = k]
         /\ target' = [target EXCEPT ![r] = c]
         /\ \/ UNCHANGED <<state, found, left>>
            \/ /\ state' = [state EXCEPT ![c] = "PROVISIONED"]
               /\ \E n \in 0..MaxNodes : /\ found' = [found EXCEPT ![r] = n]
                                         /\ left' = [left EXCEPT ![r] = n]
  OBVIOUS
<1>1. TypeOK'
  <2>1. pc' \in [Requests -> Labels] /\ slipped' \subseteq Requests
    BY <1>0 DEF IInv, TypeOK, Labels
  <2>2. state' \in [Clusters -> {"unknown", "PROVISIONED", "INSTALLED", "FAILURE", "removed"}]
    <3>1. CASE state' = state
      BY <3>1 DEF IInv, TypeOK
    <3>2. CASE state' = [state EXCEPT ![c] = "PROVISIONED"]
      BY <3>2 DEF IInv, TypeOK
    <3>3. QED
      BY <1>0, <3>1, <3>2
  <2>3. /\ life' \in [Nodes -> {"unknown", "added", "removed"}]
        /\ owner' \in [Nodes -> Clusters \cup {None}]
        /\ adder' \in [Nodes -> Requests \cup {None}]
    BY DEF IInv, TypeOK, Named, Attaching
  <2>4. /\ nodeState' \in [Nodes -> NodeStates]
        /\ nodeStatus' \in [Nodes -> BOOLEAN]
        /\ reported' \in [Nodes -> BOOLEAN]
        /\ overtaken' \subseteq Nodes
        /\ crossed' \subseteq Clusters
    BY DEF IInv, TypeOK, Outcome
  <2>5. /\ kind' \in [Requests -> {"none", "install", "provision", "remove"}]
        /\ target' \in [Requests -> Clusters \cup {None}]
    BY <1>0 DEF IInv, TypeOK
  <2>6. found' \in [Requests -> 0..MaxNodes] /\ left' \in [Requests -> 0..MaxNodes]
    <3>1. CASE UNCHANGED <<found, left>>
      BY <3>1 DEF IInv, TypeOK
    <3>2. ASSUME NEW n \in 0..MaxNodes, found' = [found EXCEPT ![r] = n],
                 left' = [left EXCEPT ![r] = n]
          PROVE  found' \in [Requests -> 0..MaxNodes] /\ left' \in [Requests -> 0..MaxNodes]
      BY <3>2 DEF IInv, TypeOK
    <3>3. QED
      BY <1>0, <3>1, <3>2
  <2>7. fresh' \in [Requests -> Nodes \cup {None}]
    BY DEF IInv, TypeOK
  <2>8. /\ listed' \in [Requests -> SUBSET Nodes]
        /\ readStatus' \in [Requests -> [Nodes -> BOOLEAN]]
    BY DEF IInv, TypeOK, Attached
  <2>9. outcome' \in [Requests -> Outcome]
    BY DEF IInv, TypeOK
  <2>10. QED
    BY <2>1, <2>2, <2>3, <2>4, <2>5, <2>6, <2>7, <2>8, <2>9 DEF TypeOK
<1>2. Named'
  BY DEF IInv, TypeOK, Named, Attaching, Installing, Removing
<1>3. OneInstaller'
  BY DEF IInv, TypeOK, OneInstaller, Named, Attaching, Installing, Removing
<1>4. OwnNode'
  BY DEF IInv, TypeOK, OwnNode, ListsOwn
<1>5. Unborn'
  BY DEF IInv, TypeOK, Unborn
<1>6. ListsOwn'
  BY DEF IInv, TypeOK, ListsOwn, OwnNode, Named, Attaching, Installing, Removing
<1>7. CleanStart'
  BY DEF IInv, TypeOK, CleanStart, Attaching
<1>8. OrphansAreFew'
  BY DEF IInv, TypeOK, OrphansAreFew, OwnNode, CleanStart, Named, Orphan, Attaching,
         Installing, Removing
<1>9. ReadsReported'
  BY DEF IInv, TypeOK, ReadsReported
<1>10. StatusLostOnlyInUpdate'
  BY DEF IInv, TypeOK, StatusLostOnlyInUpdate, ReadsReported
<1>11. KnowsOutcome'
  <2>1. outcome[r].verdict = "none"
    BY DEF IInv, KnowsOutcome
  <2>2. QED
    BY <1>0, <2>1 DEF IInv, TypeOK, KnowsOutcome
<1>12. WroteCluster'
  BY DEF IInv, TypeOK, WroteCluster, Named, KnowsOutcome, OneInstaller, Present, Absent,
         Attaching, Installing, Removing
<1>13. WroteNodes'
  <2> SUFFICES ASSUME NEW x \in Requests, pc'[x] \in {"update", "done"}, x \notin slipped,
                      outcome[x].verdict # "none", NEW n \in Attached(target'[x])
               PROVE  nodeState[n] = outcome[x].nodes \/ (pc'[x] = "update" /\ n \in listed[x])
    BY DEF WroteNodes, Attached
  <2>1. pc \in [Requests -> Labels] /\ target \in [Requests -> Clusters \cup {None}]
    BY DEF IInv, TypeOK
  <2>2. x # r
    BY <1>0, <2>1
  <2>3. pc'[x] = pc[x] /\ target'[x] = target[x]
    BY <1>0, <2>1, <2>2
  <2>4. QED
    BY <2>3 DEF IInv, WroteNodes, Attached
<1>14. QED
  BY <1>1, <1>2, <1>3, <1>4, <1>5, <1>6, <1>7, <1>8, <1>9, <1>10, <1>11, <1>12, <1>13 DEF IInv

LEMMA AddNodeInv ==
    ASSUME IInv, NEW r \in Requests, AddNode(r)
    PROVE  IInv'
<1> USE DEF AddNode, AttachFails, AttachLoop, GoTo, Slip, clusterVars, nodeVars, callVars,
            loopVars, reportVars
<1>0. PICK n :
         \/ /\ UNCHANGED <<life, adder, fresh>>
            /\ AttachFails(r)
         \/ /\ n \in Nodes
            /\ life[n] = "unknown"
            /\ life' = [life EXCEPT ![n] = "added"]
            /\ adder' = [adder EXCEPT ![n] = r]
            /\ \/ fresh' = fresh /\ AttachFails(r)
               \/ /\ fresh' = [fresh EXCEPT ![r] = n]
                  /\ pc' = [pc EXCEPT ![r] = "join"]
                  /\ slipped' = slipped
  OBVIOUS
<1>1. TypeOK'
  <2>1. pc' \in [Requests -> Labels] /\ slipped' \subseteq Requests
    BY DEF IInv, TypeOK, Named, Labels
  <2>2. state' \in [Clusters -> {"unknown", "PROVISIONED", "INSTALLED", "FAILURE", "removed"}]
    BY DEF IInv, TypeOK, Named
  <2>3. /\ life' \in [Nodes -> {"unknown", "added", "removed"}]
        /\ owner' \in [Nodes -> Clusters \cup {None}]
        /\ adder' \in [Nodes -> Requests \cup {None}]
    <3>1. CASE UNCHANGED <<life, adder>>
      BY <3>1 DEF IInv, TypeOK
    <3>2. CASE /\ n \in Nodes
               /\ life' = [life EXCEPT ![n] = "added"]
               /\ adder' = [adder EXCEPT ![n] = r]
      BY <3>2 DEF IInv, TypeOK
    <3>3. QED
      BY <1>0, <3>1, <3>2
  <2>4. /\ nodeState' \in [Nodes -> NodeStates]
        /\ nodeStatus' \in [Nodes -> BOOLEAN]
        /\ reported' \in [Nodes -> BOOLEAN]
        /\ overtaken' \subseteq Nodes
        /\ crossed' \subseteq Clusters
    BY DEF IInv, TypeOK, Outcome
  <2>5. /\ kind' \in [Requests -> {"none", "install", "provision", "remove"}]
        /\ target' \in [Requests -> Clusters \cup {None}]
    BY DEF IInv, TypeOK
  <2>6. found' \in [Requests -> 0..MaxNodes] /\ left' \in [Requests -> 0..MaxNodes]
    BY DEF IInv, TypeOK, Named, Attaching
  <2>7. fresh' \in [Requests -> Nodes \cup {None}]
    <3>1. CASE fresh' = fresh
      BY <3>1 DEF IInv, TypeOK
    <3>2. CASE n \in Nodes /\ fresh' = [fresh EXCEPT ![r] = n]
      BY <3>2 DEF IInv, TypeOK
    <3>3. QED
      BY <1>0, <3>1, <3>2
  <2>8. /\ listed' \in [Requests -> SUBSET Nodes]
        /\ readStatus' \in [Requests -> [Nodes -> BOOLEAN]]
    BY DEF IInv, TypeOK, Attached
  <2>9. outcome' \in [Requests -> Outcome]
    BY DEF IInv, TypeOK
  <2>10. QED
    BY <2>1, <2>2, <2>3, <2>4, <2>5, <2>6, <2>7, <2>8, <2>9 DEF TypeOK
<1>2. Named'
  BY DEF IInv, TypeOK, Named, Attaching, Installing, Removing
<1>3. OneInstaller'
  BY DEF IInv, TypeOK, OneInstaller, Named, Attaching, Installing, Removing
<1>4. OwnNode'
  <2>1. CASE UNCHANGED <<life, adder, fresh>> /\ AttachFails(r)
    BY <2>1 DEF IInv, TypeOK, OwnNode
  <2>2. ASSUME n \in Nodes, life[n] = "unknown",
               life' = [life EXCEPT ![n] = "added"],
               adder' = [adder EXCEPT ![n] = r],
               fresh' = fresh, AttachFails(r)
        PROVE  OwnNode'
    BY <2>2 DEF IInv, TypeOK, OwnNode
  <2>3. ASSUME n \in Nodes, life[n] = "unknown",
               life' = [life EXCEPT ![n] = "added"],
               adder' = [adder EXCEPT ![n] = r],
               fresh' = [fresh EXCEPT ![r] = n],
               pc' = [pc EXCEPT ![r] = "join"]
        PROVE  OwnNode'
    BY <2>3 DEF IInv, TypeOK, OwnNode, Unborn
  <2>4. QED
    BY <1>0, <2>1, <2>2, <2>3
<1>5. Unborn'
  BY DEF IInv, TypeOK, Unborn
<1>6. ListsOwn'
  BY DEF IInv, TypeOK, ListsOwn, OwnNode, Named, Attaching, Installing, Removing
<1>7. CleanStart'
  BY DEF IInv, TypeOK, CleanStart, Attaching
<1>8. OrphansAreFew'
  <2>1. CASE UNCHANGED <<life, adder, fresh>> /\ AttachFails(r)
    BY <2>1 DEF IInv, TypeOK, OrphansAreFew, Orphan
  <2>2. ASSUME n \in Nodes, life[n] = "unknown",
               life' = [life EXCEPT ![n] = "added"],
               adder' = [adder EXCEPT ![n] = r],
               fresh' = fresh, AttachFails(r)
        PROVE  OrphansAreFew'
    BY <2>2 DEF IInv, TypeOK, OrphansAreFew, Orphan, CleanStart
  <2>3. ASSUME n \in Nodes, life[n] = "unknown",
               life' = [life EXCEPT ![n] = "added"],
               adder' = [adder EXCEPT ![n] = r],
               fresh' = [fresh EXCEPT ![r] = n],
               pc' = [pc EXCEPT ![r] = "join"],
               slipped' = slipped
        PROVE  OrphansAreFew'
    BY <2>3 DEF IInv, TypeOK, OrphansAreFew, Orphan, CleanStart
  <2>4. QED
    BY <1>0, <2>1, <2>2, <2>3
<1>9. ReadsReported'
  BY DEF IInv, TypeOK, ReadsReported
<1>10. StatusLostOnlyInUpdate'
  BY DEF IInv, TypeOK, StatusLostOnlyInUpdate, ReadsReported
<1>11. KnowsOutcome'
  <2>1. outcome[r].verdict = "none"
    BY DEF IInv, KnowsOutcome
  <2>2. \A x \in Requests : x # r => pc'[x] = pc[x]
    BY DEF IInv, TypeOK
  <2>3. QED
    BY <2>1, <2>2 DEF IInv, KnowsOutcome
<1>12. WroteCluster'
  <2>1. /\ UNCHANGED <<state, target, outcome>>
        /\ \A x \in Requests :
              /\ pc'[x] \in {"listUpdate", "update", "done"} /\ x \notin slipped'
              /\ outcome[x].verdict # "none"
              => pc[x] \in {"listUpdate", "update", "done"} /\ x \notin slipped
    BY DEF IInv, TypeOK, Named, KnowsOutcome, Attaching, Removing
  <2>2. QED
    BY <2>1 DEF IInv, WroteCluster, Present
<1>13. WroteNodes'
  <2>1. \A x \in Requests :
           outcome[x].verdict # "none" /\ pc'[x] \in {"update", "done"} /\ x \notin slipped'
           => pc'[x] = pc[x] /\ x \notin slipped /\ listed'[x] = listed[x]
    BY DEF IInv, TypeOK, Named, KnowsOutcome, Attaching, Installing, Removing
  <2>2. \A x \in Requests :
           pc[x] \in {"update", "done"} /\ outcome[x].verdict # "none"
           => Attached(target[x])' \subseteq Attached(target[x])
    BY DEF IInv, TypeOK, Named, KnowsOutcome, OneInstaller, Unborn, Attached, Attaching,
           Installing
  <2>3. QED
    BY <2>1, <2>2, WroteNodesFrame DEF IInv
<1>14. QED
  BY <1>1, <1>2, <1>3, <1>4, <1>5, <1>6, <1>7, <1>8, <1>9, <1>10, <1>11, <1>12, <1>13 DEF IInv

LEMMA AttachNodeInv ==
    ASSUME IInv, NEW r \in Requests, AttachNode(r)
    PROVE  IInv'
<1> USE DEF AttachNode, AttachFails, AttachLoop, GoTo, Slip, clusterVars, nodeVars, callVars,
            loopVars, reportVars
<1>0. fresh[r] \in Nodes /\ target[r] \in Clusters /\ left[r] \in 1..MaxNodes
  BY DEF IInv, TypeOK, OwnNode, Named, Attaching
<1>1. TypeOK'
  <2>1. pc' \in [Requests -> Labels] /\ slipped' \subseteq Requests
    BY DEF IInv, TypeOK, Named, Labels
  <2>2. state' \in [Clusters -> {"unknown", "PROVISIONED", "INSTALLED", "FAILURE", "removed"}]
    BY DEF IInv, TypeOK, Named
  <2>3. /\ life' \in [Nodes -> {"unknown", "added", "removed"}]
        /\ owner' \in [Nodes -> Clusters \cup {None}]
        /\ adder' \in [Nodes -> Requests \cup {None}]
    BY DEF IInv, TypeOK, Named, Attaching
  <2>4. /\ nodeState' \in [Nodes -> NodeStates]
        /\ nodeStatus' \in [Nodes -> BOOLEAN]
        /\ reported' \in [Nodes -> BOOLEAN]
        /\ overtaken' \subseteq Nodes
        /\ crossed' \subseteq Clusters
    BY DEF IInv, TypeOK, Outcome
  <2>5. /\ kind' \in [Requests -> {"none", "install", "provision", "remove"}]
        /\ target' \in [Requests -> Clusters \cup {None}]
    BY DEF IInv, TypeOK
  <2>6. found' \in [Requests -> 0..MaxNodes] /\ left' \in [Requests -> 0..MaxNodes]
    <3>1. left[r] - 1 \in 0..MaxNodes
      BY <1>0
    <3>2. left' = left \/ left' = [left EXCEPT ![r] = left[r] - 1]
      OBVIOUS
    <3>3. found' \in [Requests -> 0..MaxNodes] /\ left \in [Requests -> 0..MaxNodes]
      BY DEF IInv, TypeOK
    <3>4. left' \in [Requests -> 0..MaxNodes]
      BY ONLY r \in Requests, <3>1, <3>2, <3>3
    <3>5. QED
      BY <3>3, <3>4
  <2>7. fresh' \in [Requests -> Nodes \cup {None}]
    BY DEF IInv, TypeOK
  <2>8. /\ listed' \in [Requests -> SUBSET Nodes]
        /\ readStatus' \in [Requests -> [Nodes -> BOOLEAN]]
    BY DEF IInv, TypeOK, Attached
  <2>9. outcome' \in [Requests -> Outcome]
    BY DEF IInv, TypeOK
  <2>10. QED
    BY <2>1, <2>2, <2>3, <2>4, <2>5, <2>6, <2>7, <2>8, <2>9 DEF TypeOK
<1>2. Named'
  BY DEF IInv, TypeOK, Named, Attaching, Installing, Removing
<1>3. OneInstaller'
  BY DEF IInv, TypeOK, OneInstaller, Named, Attaching, Installing, Removing
<1>4. OwnNode'
  BY DEF IInv, TypeOK, OwnNode, ListsOwn
<1>5. Unborn'
  BY <1>0 DEF IInv, TypeOK, Unborn, OwnNode
<1>6. ListsOwn'
  BY DEF IInv, TypeOK, ListsOwn, OwnNode, Named, Attaching, Installing, Removing
<1>7. CleanStart'
  BY DEF IInv, TypeOK, CleanStart, Attaching
<1>8. OrphansAreFew'
  BY DEF IInv, TypeOK, OrphansAreFew, OwnNode, CleanStart, Named, Orphan, Attaching,
         Installing, Removing
<1>9. ReadsReported'
  BY DEF IInv, TypeOK, ReadsReported
<1>10. StatusLostOnlyInUpdate'
  BY DEF IInv, TypeOK, StatusLostOnlyInUpdate, ReadsReported
<1>11. KnowsOutcome'
  <2>1. /\ UNCHANGED <<kind, outcome>>
        /\ \A x \in Requests :
              pc[x] \in {"record", "listUpdate", "update", "done", "dead"}
              => pc'[x] \in {"record", "listUpdate", "update", "done", "dead"}
    BY DEF IInv, TypeOK
  <2>2. QED
    BY <2>1 DEF IInv, KnowsOutcome
<1>12. WroteCluster'
  <2>1. /\ UNCHANGED <<state, target, outcome>>
        /\ \A x \in Requests :
              /\ pc'[x] \in {"listUpdate", "update", "done"} /\ x \notin slipped'
              /\ outcome[x].verdict # "none"
              => pc[x] \in {"listUpdate", "update", "done"} /\ x \notin slipped
    BY DEF IInv, TypeOK, Named, KnowsOutcome, Attaching, Removing
  <2>2. QED
    BY <2>1 DEF IInv, WroteCluster, Present
<1>13. WroteNodes'
  <2>1. \A x \in Requests :
           outcome[x].verdict # "none" /\ pc'[x] \in {"update", "done"} /\ x \notin slipped'
           => pc'[x] = pc[x] /\ x \notin slipped /\ listed'[x] = listed[x]
    BY DEF IInv, TypeOK, Named, KnowsOutcome, Attaching, Installing, Removing
  <2>2. \A x \in Requests :
           pc[x] \in {"update", "done"} /\ outcome[x].verdict # "none"
           => Attached(target[x])' \subseteq Attached(target[x])
    BY DEF IInv, TypeOK, Named, KnowsOutcome, OneInstaller, Unborn, Attached, Attaching,
           Installing
  <2>3. QED
    BY <2>1, <2>2, WroteNodesFrame DEF IInv
<1>14. QED
  BY <1>1, <1>2, <1>3, <1>4, <1>5, <1>6, <1>7, <1>8, <1>9, <1>10, <1>11, <1>12, <1>13 DEF IInv

LEMMA InstallInv ==
    ASSUME IInv, NEW r \in Requests, Install(r)
    PROVE  IInv'
<1> USE DEF Install, GoTo, Slip, clusterVars, nodeVars, callVars, loopVars, reportVars
<1>1. TypeOK'
  BY DEF IInv, TypeOK, Named, Labels, Attaching, Installing, Removing
<1>2. Named'
  BY DEF IInv, TypeOK, Named, Attaching, Installing, Removing
<1>3. OneInstaller'
  BY DEF IInv, TypeOK, OneInstaller, Named, Attaching, Installing, Removing
<1>4. OwnNode'
  BY DEF IInv, TypeOK, OwnNode, ListsOwn
<1>5. Unborn'
  BY DEF IInv, TypeOK, Unborn
<1>6. ListsOwn'
  BY DEF IInv, TypeOK, ListsOwn, OwnNode, Named, Attaching, Installing, Removing
<1>7. CleanStart'
  <2>1. pc \in [Requests -> Labels]
    BY DEF IInv, TypeOK
  <2>2. \A x \in Requests :
           pc'[x] \in {"idle", "attach", "join"} => x # r /\ pc'[x] = pc[x]
    BY <2>1
  <2>3. slipped' \subseteq slipped \cup {r}
    OBVIOUS
  <2>4. QED
    BY <2>2, <2>3 DEF IInv, CleanStart
<1>8. OrphansAreFew'
  BY DEF IInv, TypeOK, OrphansAreFew, OwnNode, CleanStart, Named, Orphan, Attaching,
         Installing, Removing
<1>9. ReadsReported'
  BY DEF IInv, TypeOK, ReadsReported
<1>10. StatusLostOnlyInUpdate'
  BY DEF IInv, TypeOK, StatusLostOnlyInUpdate, ReadsReported
<1>11. KnowsOutcome'
  <2>1. /\ UNCHANGED <<kind, outcome>>
        /\ \A x \in Requests :
              pc[x] \in {"record", "listUpdate", "update", "done", "dead"}
              => pc'[x] \in {"record", "listUpdate", "update", "done", "dead"}
    BY DEF IInv, TypeOK
  <2>2. QED
    BY <2>1 DEF IInv, KnowsOutcome
<1>12. WroteCluster'
  <2>1. /\ UNCHANGED <<state, target, outcome>>
        /\ \A x \in Requests :
              /\ pc'[x] \in {"listUpdate", "update", "done"} /\ x \notin slipped'
              /\ outcome[x].verdict # "none"
              => pc[x] \in {"listUpdate", "update", "done"} /\ x \notin slipped
    BY DEF IInv, TypeOK, Named, KnowsOutcome, Attaching, Removing
  <2>2. QED
    BY <2>1 DEF IInv, WroteCluster, Present
<1>13. WroteNodes'
  <2>1. \A x \in Requests :
           outcome[x].verdict # "none" /\ pc'[x] \in {"update", "done"} /\ x \notin slipped'
           => pc'[x] = pc[x] /\ x \notin slipped /\ listed'[x] = listed[x]
    BY DEF IInv, TypeOK, Named, KnowsOutcome, Attaching, Installing, Removing
  <2>2. \A x \in Requests :
           pc[x] \in {"update", "done"} /\ outcome[x].verdict # "none"
           => Attached(target[x])' \subseteq Attached(target[x])
    BY DEF Attached
  <2>3. QED
    BY <2>1, <2>2, WroteNodesFrame DEF IInv
<1>14. QED
  BY <1>1, <1>2, <1>3, <1>4, <1>5, <1>6, <1>7, <1>8, <1>9, <1>10, <1>11, <1>12, <1>13 DEF IInv

LEMMA MonitorNotifiesInv ==
    ASSUME IInv, NEW r \in Requests, MonitorNotifies(r)
    PROVE  IInv'
<1> USE DEF MonitorNotifies, GoTo, NodeStatesOf, Final, Outcome, NodeStates, AllVerdicts,
            clusterVars, nodeVars, callVars, loopVars, reportVars
<1>1. TypeOK'
  BY DEF IInv, TypeOK, Named, Labels, Attaching, Installing, Removing
<1>2. Named'
  BY DEF IInv, TypeOK, Named, Attaching, Installing, Removing
<1>3. OneInstaller'
  BY DEF IInv, TypeOK, OneInstaller, Named, Attaching, Installing, Removing
<1>4. OwnNode'
  BY DEF IInv, TypeOK, OwnNode, ListsOwn
<1>5. Unborn'
  BY DEF IInv, TypeOK, Unborn
<1>6. ListsOwn'
  BY DEF IInv, TypeOK, ListsOwn, OwnNode, Named, Attaching, Installing, Removing
<1>7. CleanStart'
  BY DEF IInv, TypeOK, CleanStart, Attaching
<1>8. OrphansAreFew'
  BY DEF IInv, TypeOK, OrphansAreFew, OwnNode, CleanStart, Named, Orphan, Attaching,
         Installing, Removing
<1>9. ReadsReported'
  BY DEF IInv, TypeOK, ReadsReported
<1>10. StatusLostOnlyInUpdate'
  BY DEF IInv, TypeOK, StatusLostOnlyInUpdate, ReadsReported
<1>11. KnowsOutcome'
  BY DEF IInv, TypeOK, KnowsOutcome, Named, Attaching, Installing, Removing
<1>12. WroteCluster'
  BY DEF IInv, TypeOK, WroteCluster, Named, KnowsOutcome, OneInstaller, Present, Absent,
         Attaching, Installing, Removing
<1>13. WroteNodes'
  BY DEF IInv, TypeOK, WroteNodes, Named, KnowsOutcome, ListsOwn, OneInstaller, OwnNode,
         Attached, Attaching, Installing, Removing
<1>14. QED
  BY <1>1, <1>2, <1>3, <1>4, <1>5, <1>6, <1>7, <1>8, <1>9, <1>10, <1>11, <1>12, <1>13 DEF IInv

LEMMA RecordStateInv ==
    ASSUME IInv, NEW r \in Requests, RecordState(r)
    PROVE  IInv'
<1> USE DEF RecordState, GoTo, Slip, OutcomeState, clusterVars, nodeVars, callVars, loopVars,
            reportVars
<1>1. TypeOK'
  <2>1. pc' \in [Requests -> Labels] /\ slipped' \subseteq Requests
    BY DEF IInv, TypeOK, Named, Labels
  <2>2. state' \in [Clusters -> {"unknown", "PROVISIONED", "INSTALLED", "FAILURE", "removed"}]
    BY DEF IInv, TypeOK, Named
  <2>3. /\ life' \in [Nodes -> {"unknown", "added", "removed"}]
        /\ owner' \in [Nodes -> Clusters \cup {None}]
        /\ adder' \in [Nodes -> Requests \cup {None}]
    BY DEF IInv, TypeOK, Named, Attaching
  <2>4. /\ nodeState' \in [Nodes -> NodeStates]
        /\ nodeStatus' \in [Nodes -> BOOLEAN]
        /\ reported' \in [Nodes -> BOOLEAN]
        /\ overtaken' \subseteq Nodes
        /\ crossed' \subseteq Clusters
    BY DEF IInv, TypeOK, Outcome
  <2>5. /\ kind' \in [Requests -> {"none", "install", "provision", "remove"}]
        /\ target' \in [Requests -> Clusters \cup {None}]
    BY DEF IInv, TypeOK
  <2>6. found' \in [Requests -> 0..MaxNodes] /\ left' \in [Requests -> 0..MaxNodes]
    BY DEF IInv, TypeOK, Named, Attaching
  <2>7. fresh' \in [Requests -> Nodes \cup {None}]
    BY DEF IInv, TypeOK
  <2>8. /\ listed' \in [Requests -> SUBSET Nodes]
        /\ readStatus' \in [Requests -> [Nodes -> BOOLEAN]]
    BY DEF IInv, TypeOK, Attached
  <2>9. outcome' \in [Requests -> Outcome]
    BY DEF IInv, TypeOK
  <2>10. QED
    BY <2>1, <2>2, <2>3, <2>4, <2>5, <2>6, <2>7, <2>8, <2>9 DEF TypeOK
<1>2. Named'
  BY DEF IInv, TypeOK, Named, Attaching, Installing, Removing
<1>3. OneInstaller'
  BY DEF IInv, TypeOK, OneInstaller, Named, Attaching, Installing, Removing
<1>4. OwnNode'
  BY DEF IInv, TypeOK, OwnNode, ListsOwn
<1>5. Unborn'
  BY DEF IInv, TypeOK, Unborn
<1>6. ListsOwn'
  BY DEF IInv, TypeOK, ListsOwn, OwnNode, Named, Attaching, Installing, Removing
<1>7. CleanStart'
  <2>1. pc'[r] \notin {"idle", "attach", "join"}
    BY DEF IInv, TypeOK
  <2>2. \A x \in Requests : x # r => pc'[x] = pc[x] /\ (x \in slipped' => x \in slipped)
    BY DEF IInv, TypeOK
  <2>3. QED
    BY <2>1, <2>2 DEF IInv, CleanStart
<1>8. OrphansAreFew'
  BY DEF IInv, TypeOK, OrphansAreFew, OwnNode, CleanStart, Named, Orphan, Attaching,
         Installing, Removing
<1>9. ReadsReported'
  BY DEF IInv, TypeOK, ReadsReported
<1>10. StatusLostOnlyInUpdate'
  BY DEF IInv, TypeOK, StatusLostOnlyInUpdate, ReadsReported
<1>11. KnowsOutcome'
  <2>1. /\ UNCHANGED <<kind, outcome>>
        /\ \A x \in Requests :
              pc[x] \in {"record", "listUpdate", "update", "done", "dead"}
              => pc'[x] \in {"record", "listUpdate", "update", "done", "dead"}
    BY DEF IInv, TypeOK
  <2>2. QED
    BY <2>1 DEF IInv, KnowsOutcome
<1>12. WroteCluster'
  BY DEF IInv, TypeOK, WroteCluster, Named, KnowsOutcome, OneInstaller, Present, Absent,
         Attaching, Installing, Removing
<1>13. WroteNodes'
  <2>1. \A x \in Requests :
           outcome[x].verdict # "none" /\ pc'[x] \in {"update", "done"} /\ x \notin slipped'
           => pc'[x] = pc[x] /\ x \notin slipped /\ listed'[x] = listed[x]
    BY DEF IInv, TypeOK, Named, KnowsOutcome, Attaching, Installing, Removing
  <2>2. \A x \in Requests :
           pc[x] \in {"update", "done"} /\ outcome[x].verdict # "none"
           => Attached(target[x])' \subseteq Attached(target[x])
    BY DEF Attached
  <2>3. QED
    BY <2>1, <2>2, WroteNodesFrame DEF IInv
<1>14. QED
  BY <1>1, <1>2, <1>3, <1>4, <1>5, <1>6, <1>7, <1>8, <1>9, <1>10, <1>11, <1>12, <1>13 DEF IInv

LEMMA ListToUpdateInv ==
    ASSUME IInv, NEW r \in Requests, ListToUpdate(r)
    PROVE  IInv'
<1> USE DEF ListToUpdate, ListNodes, GoTo, Slip, clusterVars, nodeVars, callVars, loopVars,
            reportVars
<1>0. /\ target[r] \in Clusters /\ pc[r] # "idle"
      /\ \A n \in Attached(target[r]) : n \in Nodes /\ owner[n] = target[r]
      /\ \/ /\ listed' = [listed EXCEPT ![r] = Attached(target[r])]
            /\ readStatus' = [readStatus EXCEPT ![r] =
                                [n \in Nodes |-> n \in Attached(target[r]) /\ nodeStatus[n]]]
         \/ UNCHANGED <<listed, readStatus>> /\ pc'[r] = "done"
  BY DEF IInv, TypeOK, Named, Attached
<1>1. TypeOK'
  <2>1. pc' \in [Requests -> Labels] /\ slipped' \subseteq Requests
    BY DEF IInv, TypeOK, Named, Labels
  <2>2. state' \in [Clusters -> {"unknown", "PROVISIONED", "INSTALLED", "FAILURE", "removed"}]
    BY DEF IInv, TypeOK, Named
  <2>3. /\ life' \in [Nodes -> {"unknown", "added", "removed"}]
        /\ owner' \in [Nodes -> Clusters \cup {None}]
        /\ adder' \in [Nodes -> Requests \cup {None}]
    BY DEF IInv, TypeOK, Named, Attaching
  <2>4. /\ nodeState' \in [Nodes -> NodeStates]
        /\ nodeStatus' \in [Nodes -> BOOLEAN]
        /\ reported' \in [Nodes -> BOOLEAN]
        /\ overtaken' \subseteq Nodes
        /\ crossed' \subseteq Clusters
    BY DEF IInv, TypeOK, Outcome
  <2>5. /\ kind' \in [Requests -> {"none", "install", "provision", "remove"}]
        /\ target' \in [Requests -> Clusters \cup {None}]
    BY DEF IInv, TypeOK
  <2>6. found' \in [Requests -> 0..MaxNodes] /\ left' \in [Requests -> 0..MaxNodes]
    BY DEF IInv, TypeOK, Named, Attaching
  <2>7. fresh' \in [Requests -> Nodes \cup {None}]
    BY DEF IInv, TypeOK
  <2>8. /\ listed' \in [Requests -> SUBSET Nodes]
        /\ readStatus' \in [Requests -> [Nodes -> BOOLEAN]]
    <3>1. [n \in Nodes |-> n \in Attached(target[r]) /\ nodeStatus[n]] \in [Nodes -> BOOLEAN]
      OBVIOUS
    <3>2. Attached(target[r]) \subseteq Nodes
      BY DEF Attached
    <3>3. listed' \in [Requests -> SUBSET Nodes]
      <4>1. listed' = listed \/ listed' = [listed EXCEPT ![r] = Attached(target[r])]
        BY <1>0
      <4>2. listed \in [Requests -> SUBSET Nodes]
        BY DEF IInv, TypeOK
      <4>3. QED
        BY ONLY <3>2, <4>1, <4>2
    <3>4. readStatus' \in [Requests -> [Nodes -> BOOLEAN]]
      <4>1. \/ readStatus' = readStatus
            \/ readStatus' = [readStatus EXCEPT ![r] =
                                [n \in Nodes |-> n \in Attached(target[r]) /\ nodeStatus[n]]]
        BY <1>0
      <4>2. readStatus \in [Requests -> [Nodes -> BOOLEAN]]
        BY DEF IInv, TypeOK
      <4>3. QED
        BY ONLY <3>1, <4>1, <4>2
    <3>5. QED
      BY <3>3, <3>4
  <2>9. outcome' \in [Requests -> Outcome]
    BY DEF IInv, TypeOK
  <2>10. QED
    BY <2>1, <2>2, <2>3, <2>4, <2>5, <2>6, <2>7, <2>8, <2>9 DEF TypeOK
<1>2. Named'
  BY DEF IInv, TypeOK, Named, Attaching, Installing, Removing
<1>3. OneInstaller'
  BY DEF IInv, TypeOK, OneInstaller, Named, Attaching, Installing, Removing
<1>4. OwnNode'
  BY DEF IInv, TypeOK, OwnNode, ListsOwn
<1>5. Unborn'
  BY DEF IInv, TypeOK, Unborn
<1>6. ListsOwn'
  <2>1. \A x \in Requests : pc'[x] = "idle" => pc[x] = "idle" /\ x # r
    BY <1>0 DEF IInv, TypeOK
  <2>2. ASSUME NEW x \in Requests, NEW n \in listed'[x]
        PROVE  pc'[x] # "idle" /\ owner'[n] = target'[x]
    <3>1. n \in listed[x] \/ (x = r /\ n \in Attached(target[r]))
      BY <1>0, <2>2 DEF IInv, TypeOK
    <3>2. QED
      BY <1>0, <2>1, <3>1 DEF IInv, ListsOwn
  <2>3. QED
    BY <2>2 DEF ListsOwn
<1>7. CleanStart'
  <2>1. pc'[r] \notin {"idle", "attach", "join"}
    BY DEF IInv, TypeOK
  <2>2. \A x \in Requests : x # r => pc'[x] = pc[x] /\ (x \in slipped' => x \in slipped)
    BY DEF IInv, TypeOK
  <2>3. QED
    BY <2>1, <2>2 DEF IInv, CleanStart
<1>8. OrphansAreFew'
  BY DEF IInv, TypeOK, OrphansAreFew, OwnNode, CleanStart, Named, Orphan, Attaching,
         Installing, Removing
<1>9. ReadsReported'
  <2>1. \A x \in Requests : x # r => pc'[x] = pc[x]
    BY DEF IInv, TypeOK
  <2>2. \A n \in Nodes : nodeStatus[n] = reported[n] \/ n \in overtaken
    BY DEF IInv, StatusLostOnlyInUpdate
  <2>3. CASE /\ listed' = [listed EXCEPT ![r] = Attached(target[r])]
             /\ readStatus' = [readStatus EXCEPT ![r] =
                                [n \in Nodes |-> n \in Attached(target[r]) /\ nodeStatus[n]]]
    <3>1. \A n \in listed'[r] : n \in Nodes /\ readStatus'[r][n] = nodeStatus[n]
      BY <1>0, <2>3 DEF IInv, TypeOK
    <3>2. \A x \in Requests : x # r => listed'[x] = listed[x] /\ readStatus'[x] = readStatus[x]
      BY <2>3 DEF IInv, TypeOK
    <3>3. QED
      BY <2>1, <2>2, <3>1, <3>2 DEF IInv, ReadsReported
  <2>4. CASE UNCHANGED <<listed, readStatus>> /\ pc'[r] = "done"
    BY <2>1, <2>4 DEF IInv, TypeOK, ReadsReported
  <2>5. QED
    BY <1>0, <2>3, <2>4
<1>10. StatusLostOnlyInUpdate'
  BY DEF IInv, TypeOK, StatusLostOnlyInUpdate, ReadsReported
<1>11. KnowsOutcome'
  <2>1. /\ UNCHANGED <<kind, outcome>>
        /\ \A x \in Requests :
              pc[x] \in {"record", "listUpdate", "update", "done", "dead"}
              => pc'[x] \in {"record", "listUpdate", "update", "done", "dead"}
    BY DEF IInv, TypeOK
  <2>2. QED
    BY <2>1 DEF IInv, KnowsOutcome
<1>12. WroteCluster'
  <2>1. /\ UNCHANGED <<state, target, outcome>>
        /\ \A x \in Requests :
              /\ pc'[x] \in {"listUpdate", "update", "done"} /\ x \notin slipped'
              /\ outcome[x].verdict # "none"
              => pc[x] \in {"listUpdate", "update", "done"} /\ x \notin slipped
    BY DEF IInv, TypeOK, Named, KnowsOutcome, Attaching, Removing
  <2>2. QED
    BY <2>1 DEF IInv, WroteCluster, Present
<1>13. WroteNodes'
  <2>1. \A x \in Requests : x # r =>
           pc'[x] = pc[x] /\ listed'[x] = listed[x] /\ (x \in slipped' <=> x \in slipped)
    BY <1>0 DEF IInv, TypeOK
  <2>2. /\ UNCHANGED <<life, owner, nodeState, target, outcome>>
        /\ \A c \in Clusters : Attached(c)' = Attached(c)
    BY DEF Attached
  <2>3. \/ pc'[r] = "update" /\ listed'[r] = Attached(target[r])
        \/ pc'[r] = "done" /\ Attached(target[r]) = {}
        \/ r \in slipped'
    BY DEF IInv, TypeOK
  <2>4. ASSUME NEW x \in Requests, pc'[x] \in {"update", "done"}, x \notin slipped',
               outcome'[x].verdict # "none", NEW m \in Attached(target[x])'
        PROVE  nodeState'[m] = outcome'[x].nodes \/ (pc'[x] = "update" /\ m \in listed'[x])
    <3>1. m \in Attached(target[x])
      BY <2>2, <2>4 DEF Attached
    <3>2. CASE x # r
      BY <2>1, <2>2, <2>4, <3>1, <3>2 DEF IInv, WroteNodes
    <3>3. CASE x = r
      BY <2>3, <2>4, <3>1, <3>3
    <3>4. QED
      BY <3>2, <3>3
  <2>5. QED
    BY <2>4 DEF WroteNodes
<1>14. QED
  BY <1>1, <1>2, <1>3, <1>4, <1>5, <1>6, <1>7, <1>8, <1>9, <1>10, <1>11, <1>12, <1>13 DEF IInv

LEMMA UpdateNodeInv ==
    ASSUME IInv, NEW r \in Requests, UpdateNode(r)
    PROVE  IInv'
<1> USE DEF UpdateNode, WriteNode, GoTo, Slip, clusterVars, nodeVars, callVars, loopVars,
            reportVars
<1>1. TypeOK'
  <2>1. pc' \in [Requests -> Labels] /\ slipped' \subseteq Requests
    BY DEF IInv, TypeOK, Named, Labels
  <2>2. state' \in [Clusters -> {"unknown", "PROVISIONED", "INSTALLED", "FAILURE", "removed"}]
    BY DEF IInv, TypeOK, Named
  <2>3. /\ life' \in [Nodes -> {"unknown", "added", "removed"}]
        /\ owner' \in [Nodes -> Clusters \cup {None}]
        /\ adder' \in [Nodes -> Requests \cup {None}]
    BY DEF IInv, TypeOK, Named, Attaching
  <2>4. /\ nodeState' \in [Nodes -> NodeStates]
        /\ nodeStatus' \in [Nodes -> BOOLEAN]
        /\ reported' \in [Nodes -> BOOLEAN]
        /\ overtaken' \subseteq Nodes
        /\ crossed' \subseteq Clusters
    <3>1. outcome[r].nodes \in NodeStates /\ \A n \in Nodes : readStatus[r][n] \in BOOLEAN
      BY DEF IInv, TypeOK, Outcome
    <3>2. QED
      BY <3>1 DEF IInv, TypeOK
  <2>5. /\ kind' \in [Requests -> {"none", "install", "provision", "remove"}]
        /\ target' \in [Requests -> Clusters \cup {None}]
    BY DEF IInv, TypeOK
  <2>6. found' \in [Requests -> 0..MaxNodes] /\ left' \in [Requests -> 0..MaxNodes]
    BY DEF IInv, TypeOK, Named, Attaching
  <2>7. fresh' \in [Requests -> Nodes \cup {None}]
    BY DEF IInv, TypeOK
  <2>8. /\ listed' \in [Requests -> SUBSET Nodes]
        /\ readStatus' \in [Requests -> [Nodes -> BOOLEAN]]
    BY DEF IInv, TypeOK, Attached
  <2>9. outcome' \in [Requests -> Outcome]
    BY DEF IInv, TypeOK
  <2>10. QED
    BY <2>1, <2>2, <2>3, <2>4, <2>5, <2>6, <2>7, <2>8, <2>9 DEF TypeOK
<1>2. Named'
  BY DEF IInv, TypeOK, Named, Attaching, Installing, Removing
<1>3. OneInstaller'
  BY DEF IInv, TypeOK, OneInstaller, Named, Attaching, Installing, Removing
<1>4. OwnNode'
  BY DEF IInv, TypeOK, OwnNode, ListsOwn
<1>5. Unborn'
  BY DEF IInv, TypeOK, Unborn
<1>6. ListsOwn'
  BY DEF IInv, TypeOK, ListsOwn, OwnNode, Named, Attaching, Installing, Removing
<1>7. CleanStart'
  <2>1. pc'[r] \notin {"idle", "attach", "join"}
    BY DEF IInv, TypeOK
  <2>2. \A x \in Requests : x # r => pc'[x] = pc[x] /\ (x \in slipped' => x \in slipped)
    BY DEF IInv, TypeOK
  <2>3. QED
    BY <2>1, <2>2 DEF IInv, CleanStart
<1>8. OrphansAreFew'
  BY DEF IInv, TypeOK, OrphansAreFew, OwnNode, CleanStart, Named, Orphan, Attaching,
         Installing, Removing
<1>9. ReadsReported'
  BY DEF IInv, TypeOK, ReadsReported
<1>10. StatusLostOnlyInUpdate'
  BY DEF IInv, TypeOK, StatusLostOnlyInUpdate, ReadsReported
<1>11. KnowsOutcome'
  <2>1. /\ UNCHANGED <<kind, outcome>>
        /\ \A x \in Requests :
              pc[x] \in {"record", "listUpdate", "update", "done", "dead"}
              => pc'[x] \in {"record", "listUpdate", "update", "done", "dead"}
    BY DEF IInv, TypeOK
  <2>2. QED
    BY <2>1 DEF IInv, KnowsOutcome
<1>12. WroteCluster'
  <2>1. /\ UNCHANGED <<state, target, outcome>>
        /\ \A x \in Requests :
              /\ pc'[x] \in {"listUpdate", "update", "done"} /\ x \notin slipped'
              /\ outcome[x].verdict # "none"
              => pc[x] \in {"listUpdate", "update", "done"} /\ x \notin slipped
    BY DEF IInv, TypeOK, Named, KnowsOutcome, Attaching, Removing
  <2>2. QED
    BY <2>1 DEF IInv, WroteCluster, Present
<1>13. WroteNodes'
  <2>1. PICK n \in listed[r] :
           /\ listed' = [listed EXCEPT ![r] = @ \ {n}]
           /\ \/ /\ nodeState' = [nodeState EXCEPT ![n] = outcome[r].nodes]
                 /\ pc'[r] = IF listed[r] = {n} THEN "done" ELSE "update"
              \/ r \in slipped' /\ \A m \in Nodes : m # n => nodeState'[m] = nodeState[m]
    <3>1. pc \in [Requests -> Labels] /\ nodeState \in [Nodes -> NodeStates]
      BY DEF IInv, TypeOK
    <3>2. QED
      BY ONLY <3>1, UpdateNode(r) DEF UpdateNode, WriteNode, GoTo, Slip
  <2>2. n \in Nodes /\ owner[n] = target[r] /\ kind[r] \in {"install", "provision"}
    BY DEF IInv, TypeOK, ListsOwn, Named, Installing
  <2>3. /\ \A x \in Requests : x # r =>
              pc'[x] = pc[x] /\ listed'[x] = listed[x] /\ (x \in slipped' <=> x \in slipped)
        /\ \A m \in Nodes : m # n => nodeState'[m] = nodeState[m]
        /\ \A c \in Clusters : Attached(c)' = Attached(c)
        /\ UNCHANGED <<target, outcome>>
    BY <2>1, <2>2 DEF IInv, TypeOK, Attached
  <2>4. ASSUME NEW x \in Requests, x # r, pc[x] \in {"update", "done"},
               outcome[x].verdict # "none"
        PROVE  n \notin Attached(target[x])
    BY <2>2, <2>4 DEF IInv, OneInstaller, KnowsOutcome, Attached
  <2>5. ASSUME NEW x \in Requests, pc'[x] \in {"update", "done"}, x \notin slipped',
               outcome'[x].verdict # "none", NEW m \in Attached(target[x])'
        PROVE  nodeState'[m] = outcome'[x].nodes \/ (pc'[x] = "update" /\ m \in listed'[x])
    <3>1. m \in Attached(target[x]) /\ m \in Nodes
      BY <2>3, <2>5 DEF Attached
    <3>2. CASE x # r
      <4>1. pc[x] \in {"update", "done"} /\ x \notin slipped /\ outcome[x].verdict # "none"
        BY <2>3, <2>5, <3>2
      <4>2. m # n
        BY <2>4, <3>1, <3>2, <4>1
      <4>3. nodeState[m] = outcome[x].nodes \/ (pc[x] = "update" /\ m \in listed[x])
        BY <3>1, <4>1 DEF IInv, WroteNodes
      <4>4. QED
        BY <2>3, <3>1, <3>2, <4>2, <4>3
    <3>3. CASE x = r /\ m = n
      BY <2>1, <2>2, <2>3, <2>5, <3>1, <3>3 DEF IInv, TypeOK
    <3>4. CASE x = r /\ m # n
      <4>1. pc[r] = "update" /\ listed[r] \ {n} = listed'[r] /\ r \notin slipped
        BY <2>1, <2>5, <3>4 DEF IInv, TypeOK
      <4>2. nodeState[m] = outcome[r].nodes \/ m \in listed[r]
        BY <2>3, <2>5, <3>1, <3>4, <4>1 DEF IInv, WroteNodes
      <4>3. QED
        BY <2>1, <2>3, <2>5, <3>1, <3>4, <4>1, <4>2
    <3>5. QED
      BY <3>2, <3>3, <3>4
  <2>6. QED
    BY <2>5 DEF WroteNodes
<1>14. QED
  BY <1>1, <1>2, <1>3, <1>4, <1>5, <1>6, <1>7, <1>8, <1>9, <1>10, <1>11, <1>12, <1>13 DEF IInv

LEMMA ListToRemoveInv ==
    ASSUME IInv, NEW r \in Requests, ListToRemove(r)
    PROVE  IInv'
<1> USE DEF ListToRemove, ListNodes, GoTo, Slip, clusterVars, nodeVars, callVars, loopVars,
            reportVars
<1>0. /\ target[r] \in Clusters /\ pc[r] # "idle"
      /\ \A n \in Attached(target[r]) : n \in Nodes /\ owner[n] = target[r]
      /\ \/ /\ listed' = [listed EXCEPT ![r] = Attached(target[r])]
            /\ readStatus' = [readStatus EXCEPT ![r] =
                                [n \in Nodes |-> n \in Attached(target[r]) /\ nodeStatus[n]]]
         \/ UNCHANGED <<listed, readStatus>> /\ pc'[r] = "done"
  BY DEF IInv, TypeOK, Named, Attached
<1>1. TypeOK'
  <2>1. pc' \in [Requests -> Labels] /\ slipped' \subseteq Requests
    BY DEF IInv, TypeOK, Named, Labels
  <2>2. state' \in [Clusters -> {"unknown", "PROVISIONED", "INSTALLED", "FAILURE", "removed"}]
    BY DEF IInv, TypeOK, Named
  <2>3. /\ life' \in [Nodes -> {"unknown", "added", "removed"}]
        /\ owner' \in [Nodes -> Clusters \cup {None}]
        /\ adder' \in [Nodes -> Requests \cup {None}]
    BY DEF IInv, TypeOK, Named, Attaching
  <2>4. /\ nodeState' \in [Nodes -> NodeStates]
        /\ nodeStatus' \in [Nodes -> BOOLEAN]
        /\ reported' \in [Nodes -> BOOLEAN]
        /\ overtaken' \subseteq Nodes
        /\ crossed' \subseteq Clusters
    BY DEF IInv, TypeOK, Outcome
  <2>5. /\ kind' \in [Requests -> {"none", "install", "provision", "remove"}]
        /\ target' \in [Requests -> Clusters \cup {None}]
    BY DEF IInv, TypeOK
  <2>6. found' \in [Requests -> 0..MaxNodes] /\ left' \in [Requests -> 0..MaxNodes]
    BY DEF IInv, TypeOK, Named, Attaching
  <2>7. fresh' \in [Requests -> Nodes \cup {None}]
    BY DEF IInv, TypeOK
  <2>8. /\ listed' \in [Requests -> SUBSET Nodes]
        /\ readStatus' \in [Requests -> [Nodes -> BOOLEAN]]
    <3>1. [n \in Nodes |-> n \in Attached(target[r]) /\ nodeStatus[n]] \in [Nodes -> BOOLEAN]
      OBVIOUS
    <3>2. Attached(target[r]) \subseteq Nodes
      BY DEF Attached
    <3>3. listed' \in [Requests -> SUBSET Nodes]
      <4>1. listed' = listed \/ listed' = [listed EXCEPT ![r] = Attached(target[r])]
        OBVIOUS
      <4>2. listed \in [Requests -> SUBSET Nodes]
        BY DEF IInv, TypeOK
      <4>3. QED
        BY ONLY <3>2, <4>1, <4>2
    <3>4. readStatus' \in [Requests -> [Nodes -> BOOLEAN]]
      <4>1. \/ readStatus' = readStatus
            \/ readStatus' = [readStatus EXCEPT ![r] =
                                [n \in Nodes |-> n \in Attached(target[r]) /\ nodeStatus[n]]]
        BY <1>0
      <4>2. readStatus \in [Requests -> [Nodes -> BOOLEAN]]
        BY DEF IInv, TypeOK
      <4>3. QED
        BY ONLY <3>1, <4>1, <4>2
    <3>5. QED
      BY <3>3, <3>4
  <2>9. outcome' \in [Requests -> Outcome]
    BY DEF IInv, TypeOK
  <2>10. QED
    BY <2>1, <2>2, <2>3, <2>4, <2>5, <2>6, <2>7, <2>8, <2>9 DEF TypeOK
<1>2. Named'
  BY DEF IInv, TypeOK, Named, Attaching, Installing, Removing
<1>3. OneInstaller'
  BY DEF IInv, TypeOK, OneInstaller, Named, Attaching, Installing, Removing
<1>4. OwnNode'
  BY DEF IInv, TypeOK, OwnNode, ListsOwn
<1>5. Unborn'
  BY DEF IInv, TypeOK, Unborn
<1>6. ListsOwn'
  <2>1. \A x \in Requests : pc'[x] = "idle" => pc[x] = "idle" /\ x # r
    BY <1>0 DEF IInv, TypeOK
  <2>2. ASSUME NEW x \in Requests, NEW n \in listed'[x]
        PROVE  pc'[x] # "idle" /\ owner'[n] = target'[x]
    <3>1. n \in listed[x] \/ (x = r /\ n \in Attached(target[r]))
      BY <1>0, <2>2 DEF IInv, TypeOK
    <3>2. QED
      BY <1>0, <2>1, <3>1 DEF IInv, ListsOwn
  <2>3. QED
    BY <2>2 DEF ListsOwn
<1>7. CleanStart'
  <2>1. pc'[r] \notin {"idle", "attach", "join"}
    BY DEF IInv, TypeOK
  <2>2. \A x \in Requests : x # r => pc'[x] = pc[x] /\ (x \in slipped' => x \in slipped)
    BY DEF IInv, TypeOK
  <2>3. QED
    BY <2>1, <2>2 DEF IInv, CleanStart
<1>8. OrphansAreFew'
  BY DEF IInv, TypeOK, OrphansAreFew, OwnNode, CleanStart, Named, Orphan, Attaching,
         Installing, Removing
<1>9. ReadsReported'
  <2>1. pc \in [Requests -> Labels] /\ listed \in [Requests -> SUBSET Nodes]
    BY DEF IInv, TypeOK
  <2>2. \A x \in Requests : pc'[x] = "update" =>
           pc[x] = "update" /\ listed'[x] = listed[x] /\ readStatus'[x] = readStatus[x]
    BY <2>1 DEF IInv, TypeOK
  <2>3. QED
    BY <2>2 DEF IInv, ReadsReported
<1>10. StatusLostOnlyInUpdate'
  BY DEF IInv, TypeOK, StatusLostOnlyInUpdate, ReadsReported
<1>11. KnowsOutcome'
  <2>1. /\ UNCHANGED <<kind, outcome>>
        /\ \A x \in Requests :
              pc[x] \in {"record", "listUpdate", "update", "done", "dead"}
              => pc'[x] \in {"record", "listUpdate", "update", "done", "dead"}
    BY DEF IInv, TypeOK
  <2>2. QED
    BY <2>1 DEF IInv, KnowsOutcome
<1>12. WroteCluster'
  <2>1. /\ UNCHANGED <<state, target, outcome>>
        /\ \A x \in Requests :
              /\ pc'[x] \in {"listUpdate", "update", "done"} /\ x \notin slipped'
              /\ outcome[x].verdict # "none"
              => pc[x] \in {"listUpdate", "update", "done"} /\ x \notin slipped
    BY DEF IInv, TypeOK, Named, KnowsOutcome, Attaching, Removing
  <2>2. QED
    BY <2>1 DEF IInv, WroteCluster, Present
<1>13. WroteNodes'
  <2>1. \A x \in Requests :
           outcome[x].verdict # "none" /\ pc'[x] \in {"update", "done"} /\ x \notin slipped'
           => pc'[x] = pc[x] /\ x \notin slipped /\ listed'[x] = listed[x]
    BY DEF IInv, TypeOK, Named, KnowsOutcome, Attaching, Installing, Removing
  <2>2. \A x \in Requests :
           pc[x] \in {"update", "done"} /\ outcome[x].verdict # "none"
           => Attached(target[x])' \subseteq Attached(target[x])
    BY DEF Attached
  <2>3. QED
    BY <2>1, <2>2, WroteNodesFrame DEF IInv
<1>14. QED
  BY <1>1, <1>2, <1>3, <1>4, <1>5, <1>6, <1>7, <1>8, <1>9, <1>10, <1>11, <1>12, <1>13 DEF IInv

LEMMA RemoveNodesInv ==
    ASSUME IInv, NEW r \in Requests, RemoveNodes(r)
    PROVE  IInv'
<1> USE DEF RemoveNodes, GoTo, Slip, clusterVars, nodeVars, callVars, loopVars, reportVars
<1>1. TypeOK'
  <2>1. pc' \in [Requests -> Labels] /\ slipped' \subseteq Requests
    BY DEF IInv, TypeOK, Named, Labels
  <2>2. state' \in [Clusters -> {"unknown", "PROVISIONED", "INSTALLED", "FAILURE", "removed"}]
    BY DEF IInv, TypeOK, Named
  <2>3. /\ life' \in [Nodes -> {"unknown", "added", "removed"}]
        /\ owner' \in [Nodes -> Clusters \cup {None}]
        /\ adder' \in [Nodes -> Requests \cup {None}]
    BY DEF IInv, TypeOK, Named, Attaching
  <2>4. /\ nodeState' \in [Nodes -> NodeStates]
        /\ nodeStatus' \in [Nodes -> BOOLEAN]
        /\ reported' \in [Nodes -> BOOLEAN]
        /\ overtaken' \subseteq Nodes
        /\ crossed' \subseteq Clusters
    BY DEF IInv, TypeOK, Outcome
  <2>5. /\ kind' \in [Requests -> {"none", "install", "provision", "remove"}]
        /\ target' \in [Requests -> Clusters \cup {None}]
    BY DEF IInv, TypeOK
  <2>6. found' \in [Requests -> 0..MaxNodes] /\ left' \in [Requests -> 0..MaxNodes]
    BY DEF IInv, TypeOK, Named, Attaching
  <2>7. fresh' \in [Requests -> Nodes \cup {None}]
    BY DEF IInv, TypeOK
  <2>8. /\ listed' \in [Requests -> SUBSET Nodes]
        /\ readStatus' \in [Requests -> [Nodes -> BOOLEAN]]
    BY DEF IInv, TypeOK, Attached
  <2>9. outcome' \in [Requests -> Outcome]
    BY DEF IInv, TypeOK
  <2>10. QED
    BY <2>1, <2>2, <2>3, <2>4, <2>5, <2>6, <2>7, <2>8, <2>9 DEF TypeOK
<1>2. Named'
  BY DEF IInv, TypeOK, Named, Attaching, Installing, Removing
<1>3. OneInstaller'
  BY DEF IInv, TypeOK, OneInstaller, Named, Attaching, Installing, Removing
<1>4. OwnNode'
  <2>1. \A x \in Requests : pc'[x] = "join" => pc[x] = "join" /\ fresh[x] \notin listed[r]
    BY DEF IInv, TypeOK, OwnNode, ListsOwn, Named
  <2>2. QED
    BY <2>1 DEF IInv, TypeOK, OwnNode
<1>5. Unborn'
  BY DEF IInv, TypeOK, Unborn
<1>6. ListsOwn'
  BY DEF IInv, TypeOK, ListsOwn, OwnNode, Named, Attaching, Installing, Removing
<1>7. CleanStart'
  <2>1. pc'[r] \notin {"idle", "attach", "join"}
    BY DEF IInv, TypeOK
  <2>2. \A x \in Requests : x # r => pc'[x] = pc[x] /\ (x \in slipped' => x \in slipped)
    BY DEF IInv, TypeOK
  <2>3. QED
    BY <2>1, <2>2 DEF IInv, CleanStart
<1>8. OrphansAreFew'
  BY DEF IInv, TypeOK, OrphansAreFew, OwnNode, CleanStart, Named, Orphan, Attaching,
         Installing, Removing
<1>9. ReadsReported'
  BY DEF IInv, TypeOK, ReadsReported
<1>10. StatusLostOnlyInUpdate'
  BY DEF IInv, TypeOK, StatusLostOnlyInUpdate, ReadsReported
<1>11. KnowsOutcome'
  <2>1. /\ UNCHANGED <<kind, outcome>>
        /\ \A x \in Requests :
              pc[x] \in {"record", "listUpdate", "update", "done", "dead"}
              => pc'[x] \in {"record", "listUpdate", "update", "done", "dead"}
    BY DEF IInv, TypeOK
  <2>2. QED
    BY <2>1 DEF IInv, KnowsOutcome
<1>12. WroteCluster'
  <2>1. /\ UNCHANGED <<state, target, outcome>>
        /\ \A x \in Requests :
              /\ pc'[x] \in {"listUpdate", "update", "done"} /\ x \notin slipped'
              /\ outcome[x].verdict # "none"
              => pc[x] \in {"listUpdate", "update", "done"} /\ x \notin slipped
    BY DEF IInv, TypeOK, Named, KnowsOutcome, Attaching, Removing
  <2>2. QED
    BY <2>1 DEF IInv, WroteCluster, Present
<1>13. WroteNodes'
  <2>1. \A x \in Requests :
           outcome[x].verdict # "none" /\ pc'[x] \in {"update", "done"} /\ x \notin slipped'
           => pc'[x] = pc[x] /\ x \notin slipped /\ listed'[x] = listed[x]
    BY DEF IInv, TypeOK, Named, KnowsOutcome, Attaching, Installing, Removing
  <2>2. \A x \in Requests :
           pc[x] \in {"update", "done"} /\ outcome[x].verdict # "none"
           => Attached(target[x])' \subseteq Attached(target[x])
    BY DEF IInv, TypeOK, Named, KnowsOutcome, OneInstaller, Unborn, Attached, Attaching,
           Installing
  <2>3. QED
    BY <2>1, <2>2, WroteNodesFrame DEF IInv
<1>14. QED
  BY <1>1, <1>2, <1>3, <1>4, <1>5, <1>6, <1>7, <1>8, <1>9, <1>10, <1>11, <1>12, <1>13 DEF IInv

LEMMA RemoveClusterInv ==
    ASSUME IInv, NEW r \in Requests, RemoveCluster(r)
    PROVE  IInv'
<1> USE DEF RemoveCluster, GoTo, Slip, Present, Absent, clusterVars, nodeVars, callVars,
            loopVars, reportVars
<1>1. TypeOK'
  <2>1. pc' \in [Requests -> Labels] /\ slipped' \subseteq Requests
    BY DEF IInv, TypeOK, Named, Labels
  <2>2. state' \in [Clusters -> {"unknown", "PROVISIONED", "INSTALLED", "FAILURE", "removed"}]
    BY DEF IInv, TypeOK, Named
  <2>3. /\ life' \in [Nodes -> {"unknown", "added", "removed"}]
        /\ owner' \in [Nodes -> Clusters \cup {None}]
        /\ adder' \in [Nodes -> Requests \cup {None}]
    BY DEF IInv, TypeOK, Named, Attaching
  <2>4. /\ nodeState' \in [Nodes -> NodeStates]
        /\ nodeStatus' \in [Nodes -> BOOLEAN]
        /\ reported' \in [Nodes -> BOOLEAN]
        /\ overtaken' \subseteq Nodes
        /\ crossed' \subseteq Clusters
    BY DEF IInv, TypeOK, Outcome
  <2>5. /\ kind' \in [Requests -> {"none", "install", "provision", "remove"}]
        /\ target' \in [Requests -> Clusters \cup {None}]
    BY DEF IInv, TypeOK
  <2>6. found' \in [Requests -> 0..MaxNodes] /\ left' \in [Requests -> 0..MaxNodes]
    BY DEF IInv, TypeOK, Named, Attaching
  <2>7. fresh' \in [Requests -> Nodes \cup {None}]
    BY DEF IInv, TypeOK
  <2>8. /\ listed' \in [Requests -> SUBSET Nodes]
        /\ readStatus' \in [Requests -> [Nodes -> BOOLEAN]]
    BY DEF IInv, TypeOK, Attached
  <2>9. outcome' \in [Requests -> Outcome]
    BY DEF IInv, TypeOK
  <2>10. QED
    BY <2>1, <2>2, <2>3, <2>4, <2>5, <2>6, <2>7, <2>8, <2>9 DEF TypeOK
<1>2. Named'
  BY DEF IInv, TypeOK, Named, Attaching, Installing, Removing
<1>3. OneInstaller'
  BY DEF IInv, TypeOK, OneInstaller, Named, Attaching, Installing, Removing
<1>4. OwnNode'
  BY DEF IInv, TypeOK, OwnNode, ListsOwn
<1>5. Unborn'
  BY DEF IInv, TypeOK, Unborn
<1>6. ListsOwn'
  BY DEF IInv, TypeOK, ListsOwn, OwnNode, Named, Attaching, Installing, Removing
<1>7. CleanStart'
  <2>1. pc \in [Requests -> Labels]
    BY DEF IInv, TypeOK
  <2>2. \A x \in Requests :
           pc'[x] \in {"idle", "attach", "join"} => x # r /\ pc'[x] = pc[x]
    BY <2>1
  <2>3. slipped' \subseteq slipped \cup {r}
    OBVIOUS
  <2>4. QED
    BY <2>2, <2>3 DEF IInv, CleanStart
<1>8. OrphansAreFew'
  BY DEF IInv, TypeOK, OrphansAreFew, OwnNode, CleanStart, Named, Orphan, Attaching,
         Installing, Removing
<1>9. ReadsReported'
  BY DEF IInv, TypeOK, ReadsReported
<1>10. StatusLostOnlyInUpdate'
  BY DEF IInv, TypeOK, StatusLostOnlyInUpdate, ReadsReported
<1>11. KnowsOutcome'
  <2>1. /\ UNCHANGED <<kind, outcome>>
        /\ \A x \in Requests :
              pc[x] \in {"record", "listUpdate", "update", "done", "dead"}
              => pc'[x] \in {"record", "listUpdate", "update", "done", "dead"}
    BY DEF IInv, TypeOK
  <2>2. QED
    BY <2>1 DEF IInv, KnowsOutcome
<1>12. WroteCluster'
  <2> SUFFICES ASSUME NEW x \in Requests, pc'[x] \in {"listUpdate", "update", "done"},
                      x \notin slipped', outcome[x].verdict # "none",
                      state'[target[x]] \notin Absent
               PROVE  state'[target[x]] = OutcomeState("install", outcome[x].verdict)
    BY DEF WroteCluster, Present
  <2>1. /\ pc \in [Requests -> Labels] /\ target[x] \in Clusters
        /\ state \in [Clusters -> {"unknown", "PROVISIONED", "INSTALLED", "FAILURE", "removed"}]
    BY DEF IInv, TypeOK, Named, KnowsOutcome
  <2>2. x # r
    BY DEF IInv, Named, KnowsOutcome, Removing
  <2>3. pc'[x] = pc[x] /\ x \notin slipped
    BY <2>1, <2>2
  <2>4. state'[target[x]] = state[target[x]]
    BY <2>1 DEF Absent
  <2>5. QED
    BY <2>3, <2>4 DEF IInv, WroteCluster, Present
<1>13. WroteNodes'
  <2>1. \A x \in Requests :
           outcome[x].verdict # "none" /\ pc'[x] \in {"update", "done"} /\ x \notin slipped'
           => pc'[x] = pc[x] /\ x \notin slipped /\ listed'[x] = listed[x]
    <3>1. \A x \in Requests : x # r => pc'[x] = pc[x] /\ (x \in slipped' <=> x \in slipped)
      BY DEF IInv, TypeOK
    <3>2. outcome[r].verdict = "none" /\ UNCHANGED listed
      BY DEF IInv, Named, KnowsOutcome, Removing
    <3>3. QED
      BY <3>1, <3>2
  <2>2. \A x \in Requests :
           pc[x] \in {"update", "done"} /\ outcome[x].verdict # "none"
           => Attached(target[x])' \subseteq Attached(target[x])
    BY DEF Attached
  <2>3. QED
    BY <2>1, <2>2, WroteNodesFrame DEF IInv
<1>14. QED
  BY <1>1, <1>2, <1>3, <1>4, <1>5, <1>6, <1>7, <1>8, <1>9, <1>10, <1>11, <1>12, <1>13 DEF IInv

LEMMA RestartInv ==
    ASSUME IInv, Restart
    PROVE  IInv'
<1> USE DEF Restart, Live, clusterVars, nodeVars, callVars, loopVars, reportVars
<1>1. TypeOK'
  BY DEF IInv, TypeOK, Named, Labels, Attaching, Installing, Removing
<1>2. Named'
  BY DEF IInv, TypeOK, Named, Attaching, Installing, Removing
<1>3. OneInstaller'
  BY DEF IInv, TypeOK, OneInstaller, Named, Attaching, Installing, Removing
<1>4. OwnNode'
  BY DEF IInv, TypeOK, OwnNode, ListsOwn
<1>5. Unborn'
  BY DEF IInv, TypeOK, Unborn
<1>6. ListsOwn'
  BY DEF IInv, TypeOK, ListsOwn, OwnNode, Named, Attaching, Installing, Removing
<1>7. CleanStart'
  BY DEF IInv, TypeOK, CleanStart, Attaching
<1>8. OrphansAreFew'
  BY DEF IInv, TypeOK, OrphansAreFew, OwnNode, CleanStart, Named, Orphan, Attaching,
         Installing, Removing
<1>9. ReadsReported'
  BY DEF IInv, TypeOK, ReadsReported
<1>10. StatusLostOnlyInUpdate'
  BY DEF IInv, TypeOK, StatusLostOnlyInUpdate, ReadsReported
<1>11. KnowsOutcome'
  <2>1. /\ UNCHANGED <<kind, outcome>>
        /\ \A x \in Requests :
              pc[x] \in {"record", "listUpdate", "update", "done", "dead"}
              => pc'[x] \in {"record", "listUpdate", "update", "done", "dead"}
    BY DEF IInv, TypeOK
  <2>2. QED
    BY <2>1 DEF IInv, KnowsOutcome
<1>12. WroteCluster'
  <2>1. /\ UNCHANGED <<state, target, outcome>>
        /\ \A x \in Requests :
              /\ pc'[x] \in {"listUpdate", "update", "done"} /\ x \notin slipped'
              /\ outcome[x].verdict # "none"
              => pc[x] \in {"listUpdate", "update", "done"} /\ x \notin slipped
    BY DEF IInv, TypeOK, Named, KnowsOutcome, Attaching, Removing
  <2>2. QED
    BY <2>1 DEF IInv, WroteCluster, Present
<1>13. WroteNodes'
  <2>1. \A x \in Requests :
           outcome[x].verdict # "none" /\ pc'[x] \in {"update", "done"} /\ x \notin slipped'
           => pc'[x] = pc[x] /\ x \notin slipped /\ listed'[x] = listed[x]
    BY DEF IInv, TypeOK, Named, KnowsOutcome, Attaching, Installing, Removing
  <2>2. \A x \in Requests :
           pc[x] \in {"update", "done"} /\ outcome[x].verdict # "none"
           => Attached(target[x])' \subseteq Attached(target[x])
    BY DEF Attached
  <2>3. QED
    BY <2>1, <2>2, WroteNodesFrame DEF IInv
<1>14. QED
  BY <1>1, <1>2, <1>3, <1>4, <1>5, <1>6, <1>7, <1>8, <1>9, <1>10, <1>11, <1>12, <1>13 DEF IInv

LEMMA ReportStatusInv ==
    ASSUME IInv, NEW n \in Nodes, ReportStatus(n)
    PROVE  IInv'
<1> USE DEF ReportStatus, InUpdate, clusterVars, nodeVars, callVars, loopVars, reportVars
<1>1. TypeOK'
  BY DEF IInv, TypeOK, Named, Labels, Attaching, Installing, Removing
<1>2. Named'
  BY DEF IInv, TypeOK, Named, Attaching, Installing, Removing
<1>3. OneInstaller'
  BY DEF IInv, TypeOK, OneInstaller, Named, Attaching, Installing, Removing
<1>4. OwnNode'
  BY DEF IInv, TypeOK, OwnNode, ListsOwn
<1>5. Unborn'
  BY DEF IInv, TypeOK, Unborn
<1>6. ListsOwn'
  BY DEF IInv, TypeOK, ListsOwn, OwnNode, Named, Attaching, Installing, Removing
<1>7. CleanStart'
  BY DEF IInv, TypeOK, CleanStart, Attaching
<1>8. OrphansAreFew'
  BY DEF IInv, TypeOK, OrphansAreFew, OwnNode, CleanStart, Named, Orphan, Attaching,
         Installing, Removing
<1>9. ReadsReported'
  BY DEF IInv, TypeOK, ReadsReported
<1>10. StatusLostOnlyInUpdate'
  BY DEF IInv, TypeOK, StatusLostOnlyInUpdate, ReadsReported
<1>11. KnowsOutcome'
  <2>1. /\ UNCHANGED <<kind, outcome>>
        /\ \A x \in Requests :
              pc[x] \in {"record", "listUpdate", "update", "done", "dead"}
              => pc'[x] \in {"record", "listUpdate", "update", "done", "dead"}
    BY DEF IInv, TypeOK
  <2>2. QED
    BY <2>1 DEF IInv, KnowsOutcome
<1>12. WroteCluster'
  <2>1. /\ UNCHANGED <<state, target, outcome>>
        /\ \A x \in Requests :
              /\ pc'[x] \in {"listUpdate", "update", "done"} /\ x \notin slipped'
              /\ outcome[x].verdict # "none"
              => pc[x] \in {"listUpdate", "update", "done"} /\ x \notin slipped
    BY DEF IInv, TypeOK, Named, KnowsOutcome, Attaching, Removing
  <2>2. QED
    BY <2>1 DEF IInv, WroteCluster, Present
<1>13. WroteNodes'
  <2>1. \A x \in Requests :
           outcome[x].verdict # "none" /\ pc'[x] \in {"update", "done"} /\ x \notin slipped'
           => pc'[x] = pc[x] /\ x \notin slipped /\ listed'[x] = listed[x]
    BY DEF IInv, TypeOK, Named, KnowsOutcome, Attaching, Installing, Removing
  <2>2. \A x \in Requests :
           pc[x] \in {"update", "done"} /\ outcome[x].verdict # "none"
           => Attached(target[x])' \subseteq Attached(target[x])
    BY DEF Attached
  <2>3. QED
    BY <2>1, <2>2, WroteNodesFrame DEF IInv
<1>14. QED
  BY <1>1, <1>2, <1>3, <1>4, <1>5, <1>6, <1>7, <1>8, <1>9, <1>10, <1>11, <1>12, <1>13 DEF IInv

-----------------------------------------------------------------------------
\* The invariant holds.

LEMMA InitInv == Init => IInv
<1> USE DEF Init
<1>1. ASSUME Init
      PROVE  TypeOK
  <2>1. [verdict |-> "none", nodes |-> "UNREGISTERED"] \in Outcome
    BY DEF Outcome, NodeStates
  <2>2. nodeStatus \in [Nodes -> BOOLEAN]
    BY <1>1
  <2>3. readStatus \in [Requests -> [Nodes -> BOOLEAN]] /\ reported \in [Nodes -> BOOLEAN]
    BY <1>1, <2>2
  <2>4. QED
    BY <1>1, <2>1, <2>2, <2>3 DEF TypeOK, NodeStates, Labels
<1>2. ASSUME Init
      PROVE  /\ Named /\ OneInstaller /\ OwnNode /\ Unborn /\ ListsOwn /\ CleanStart
             /\ OrphansAreFew /\ ReadsReported /\ StatusLostOnlyInUpdate
             /\ KnowsOutcome /\ WroteCluster /\ WroteNodes
  BY <1>2 DEF Named, OneInstaller, OwnNode, Unborn, ListsOwn, CleanStart, OrphansAreFew, Orphan,
              ReadsReported, StatusLostOnlyInUpdate, KnowsOutcome, WroteCluster, WroteNodes,
              Attaching, Installing, Removing
<1>3. QED
  BY <1>1, <1>2 DEF IInv

LEMMA StutterInv == IInv /\ UNCHANGED vars => IInv'
BY DEF vars, clusterVars, nodeVars, callVars, loopVars, reportVars,
       IInv, TypeOK, Named, OneInstaller, OwnNode, Unborn, ListsOwn, CleanStart, OrphansAreFew,
       Orphan, ReadsReported, StatusLostOnlyInUpdate, KnowsOutcome, WroteCluster, WroteNodes,
       Attached, Present

LEMMA StepInv ==
    ASSUME IInv, [Next]_vars
    PROVE  IInv'
<1>1. ASSUME NEW r \in Requests, Receive(r) \/ Step(r)
      PROVE  IInv'
  BY <1>1, ReceiveInv, AddNodeInv, AttachNodeInv, InstallInv, MonitorNotifiesInv,
     RecordStateInv, ListToUpdateInv, UpdateNodeInv, ListToRemoveInv, RemoveNodesInv,
     RemoveClusterInv DEF Step
<1>2. CASE Restart
  BY <1>2, RestartInv
<1>3. ASSUME NEW n \in Nodes, ReportStatus(n)
      PROVE  IInv'
  BY <1>3, ReportStatusInv
<1>4. CASE UNCHANGED vars
  BY <1>4, StutterInv
<1>5. QED
  BY <1>1, <1>2, <1>3, <1>4 DEF Next, Waiting

LEMMA IInvHolds == Spec => []IInv
<1>1. Init => IInv
  BY InitInv
<1>2. IInv /\ [Next]_vars => IInv'
  BY StepInv
<1>3. QED
  BY <1>1, <1>2, PTL DEF Spec

\* Every variable keeps its type: no request attaches more nodes than were discovered.
THEOREM NodesTypeCorrect == Spec => []TypeOK
<1>1. IInv => TypeOK
  BY DEF IInv
<1>2. QED
  BY <1>1, IInvHolds, PTL

\* Whatever fails, a node without a cluster is one its request is about to attach or
\* has met an error with, and there is never a second one of that request.
THEOREM FewOrphans == Spec => []OrphansAreFew
<1>1. IInv => OrphansAreFew
  BY DEF IInv
<1>2. QED
  BY <1>1, IInvHolds, PTL

\* The status of a node is lost only to a report that comes while it is updated.
THEOREM StatusLostInUpdateOnly == Spec => []StatusLostOnlyInUpdate
<1>1. IInv => StatusLostOnlyInUpdate
  BY DEF IInv
<1>2. QED
  BY <1>1, IInvHolds, PTL

\* A callback that met no error leaves a cluster and nodes that agree, also when
\* the cluster is removed while the callback runs.
THEOREM OutcomeIsOnNodes == Spec => []NodesAgreeWithCluster
<1>1. ASSUME IInv
      PROVE  NodesAgreeWithCluster
  <2>1. SUFFICES ASSUME NEW r \in Requests, pc[r] = "done", r \notin slipped,
                        outcome[r].verdict \in {"success", "failed"}, Present(target[r]),
                        NEW n \in Attached(target[r])
                 PROVE  nodeState[n] = "ASSIGNED" <=> state[target[r]] = "INSTALLED"
    BY DEF NodesAgreeWithCluster
  <2>2. nodeState[n] = outcome[r].nodes
    BY <1>1, <2>1 DEF IInv, WroteNodes
  <2>3. state[target[r]] = OutcomeState("install", outcome[r].verdict)
    BY <1>1, <2>1 DEF IInv, WroteCluster
  <2>4. QED
    BY <1>1, <2>1, <2>2, <2>3 DEF IInv, KnowsOutcome, OutcomeState
<1>2. QED
  BY <1>1, IInvHolds, PTL

-----------------------------------------------------------------------------
\* Clusters whose removal does not run into other work on them.

OneAtWork ==
    \A r, x \in Requests :
        Live(r) /\ Live(x) /\ target[r] = target[x] => r = x \/ target[r] \in crossed

\* Nodes join clusters that are there, and a cluster goes after its nodes.
JoinsPresent ==
    \A r \in Requests :
        pc[r] \in Attaching /\ state[target[r]] = "removed" => target[r] \in crossed

NodesGoFirst ==
    \A r \in Requests :
        target[r] \notin crossed =>
            /\ pc[r] = "removeNodes" => Attached(target[r]) \subseteq listed[r]
            /\ pc[r] = "removeCluster" => Attached(target[r]) = {}

SInv == OneAtWork /\ JoinsPresent /\ NodesGoFirst /\ NoNodeOutlivesCluster

LEMMA ReceiveSerial ==
    ASSUME IInv, SInv, NEW r \in Requests, Receive(r)
    PROVE  SInv'
<1> USE DEF Receive, StartAttach, StartRemove, AttachLoop, Absent, Present, clusterVars,
            nodeVars, callVars, loopVars, reportVars
<1>1. OneAtWork'
  BY DEF IInv, TypeOK, SInv, OneAtWork, Live, Named
<1>2. JoinsPresent'
  BY DEF IInv, TypeOK, SInv, JoinsPresent, OneAtWork, Live, Attaching, Named, Removing
<1>3. NodesGoFirst'
  BY DEF IInv, TypeOK, SInv, NodesGoFirst, OneAtWork, Live, Attached, Named, OwnNode, Unborn,
         Attaching, Removing
<1>4. NoNodeOutlivesCluster'
  BY DEF IInv, TypeOK, SInv, NoNodeOutlivesCluster, NodesGoFirst, JoinsPresent, OwnNode,
         Unborn, Named, Attached, Attaching
<1>5. QED
  BY <1>1, <1>2, <1>3, <1>4 DEF SInv

LEMMA AddNodeSerial ==
    ASSUME IInv, SInv, NEW r \in Requests, AddNode(r)
    PROVE  SInv'
<1> USE DEF AddNode, AttachFails, AttachLoop, GoTo, Slip, clusterVars, nodeVars, callVars,
            loopVars, reportVars
<1>1. OneAtWork'
  <2>1. \A x \in Requests : Live(x)' => Live(x)
    BY DEF IInv, TypeOK, Live
  <2>2. QED
    BY <2>1 DEF SInv, OneAtWork
<1>2. JoinsPresent'
  <2>1. /\ UNCHANGED <<state, target, crossed>>
        /\ \A x \in Requests : pc'[x] \in Attaching => pc[x] \in Attaching
    BY DEF IInv, TypeOK, Attaching
  <2>2. QED
    BY <2>1 DEF SInv, JoinsPresent
<1>3. NodesGoFirst'
  BY DEF IInv, TypeOK, SInv, NodesGoFirst, OneAtWork, Live, Attached, Named, OwnNode, Unborn,
         Attaching, Removing
<1>4. NoNodeOutlivesCluster'
  BY DEF IInv, TypeOK, SInv, NoNodeOutlivesCluster, NodesGoFirst, JoinsPresent, OwnNode,
         Unborn, Named, Attached, Attaching
<1>5. QED
  BY <1>1, <1>2, <1>3, <1>4 DEF SInv

LEMMA AttachNodeSerial ==
    ASSUME IInv, SInv, NEW r \in Requests, AttachNode(r)
    PROVE  SInv'
<1> USE DEF AttachNode, AttachFails, AttachLoop, GoTo, Slip, clusterVars, nodeVars, callVars,
            loopVars, reportVars
<1>1. OneAtWork'
  <2>1. \A x \in Requests : Live(x)' => Live(x)
    BY DEF IInv, TypeOK, Live
  <2>2. QED
    BY <2>1 DEF SInv, OneAtWork
<1>2. JoinsPresent'
  <2>1. /\ UNCHANGED <<state, target, crossed>>
        /\ \A x \in Requests : pc'[x] \in Attaching => pc[x] \in Attaching
    BY DEF IInv, TypeOK, Attaching
  <2>2. QED
    BY <2>1 DEF SInv, JoinsPresent
<1>3. NodesGoFirst'
  <2>1. \A x \in Requests : pc'[x] \in {"removeNodes", "removeCluster"} =>
           /\ pc[x] = pc'[x] /\ x # r /\ listed'[x] = listed[x]
    BY DEF IInv, TypeOK, Named, Attaching
  <2>2. \A x \in Requests : pc[x] \in {"removeNodes", "removeCluster"} =>
           target[x] # target[r] \/ target[x] \in crossed
    BY DEF SInv, OneAtWork, Live
  <2>3. \A x \in Requests : target[x] # target[r] =>
           Attached(target[x])' \subseteq Attached(target[x])
    BY DEF IInv, TypeOK, Attached, OwnNode
  <2>4. QED
    BY <2>1, <2>2, <2>3 DEF SInv, NodesGoFirst
<1>4. NoNodeOutlivesCluster'
  <2>1. owner \in [Nodes -> Clusters \cup {None}]
    BY DEF IInv, TypeOK
  <2>2. state[target[r]] = "removed" => target[r] \in crossed
    BY DEF SInv, JoinsPresent, Attaching
  <2>3. \A n \in Nodes : owner'[n] = owner[n] \/ owner'[n] = target[r]
    BY <2>1
  <2>4. QED
    BY <2>2, <2>3 DEF SInv, NoNodeOutlivesCluster
<1>5. QED
  BY <1>1, <1>2, <1>3, <1>4 DEF SInv

LEMMA InstallSerial ==
    ASSUME IInv, SInv, NEW r \in Requests, Install(r)
    PROVE  SInv'
<1> USE DEF Install, GoTo, Slip, clusterVars, nodeVars, callVars, loopVars, reportVars
<1>1. OneAtWork'
  <2>1. \A x \in Requests : Live(x)' => Live(x)
    BY DEF IInv, TypeOK, Live
  <2>2. QED
    BY <2>1 DEF SInv, OneAtWork
<1>2. JoinsPresent'
  <2>1. /\ UNCHANGED <<state, target, crossed>>
        /\ \A x \in Requests : pc'[x] \in Attaching => pc[x] \in Attaching
    BY DEF IInv, TypeOK, Attaching
  <2>2. QED
    BY <2>1 DEF SInv, JoinsPresent
<1>3. NodesGoFirst'
  <2>1. \A x \in Requests : pc'[x] \in {"removeNodes", "removeCluster"} =>
           /\ pc[x] = pc'[x] /\ listed'[x] = listed[x]
           /\ Attached(target[x])' = Attached(target[x])
    BY DEF IInv, TypeOK, Attached, Named
  <2>2. QED
    BY <2>1 DEF SInv, NodesGoFirst
<1>4. NoNodeOutlivesCluster'
  BY DEF IInv, TypeOK, SInv, NoNodeOutlivesCluster, NodesGoFirst, JoinsPresent, OwnNode,
         Unborn, Named, Attached, Attaching
<1>5. QED
  BY <1>1, <1>2, <1>3, <1>4 DEF SInv

LEMMA MonitorNotifiesSerial ==
    ASSUME IInv, SInv, NEW r \in Requests, MonitorNotifies(r)
    PROVE  SInv'
<1> USE DEF MonitorNotifies, GoTo, NodeStatesOf, Final, Outcome, NodeStates, AllVerdicts,
            clusterVars, nodeVars, callVars, loopVars, reportVars
<1>1. OneAtWork'
  <2>1. \A x \in Requests : Live(x)' => Live(x)
    BY DEF IInv, TypeOK, Live
  <2>2. QED
    BY <2>1 DEF SInv, OneAtWork
<1>2. JoinsPresent'
  <2>1. /\ UNCHANGED <<state, target, crossed>>
        /\ \A x \in Requests : pc'[x] \in Attaching => pc[x] \in Attaching
    BY DEF IInv, TypeOK, Attaching
  <2>2. QED
    BY <2>1 DEF SInv, JoinsPresent
<1>3. NodesGoFirst'
  <2>1. /\ UNCHANGED <<life, owner, target, listed, crossed>>
        /\ \A x \in Requests : pc'[x] \in {"removeNodes", "removeCluster"} => pc[x] = pc'[x]
    BY DEF IInv, TypeOK
  <2>2. QED
    BY <2>1 DEF SInv, NodesGoFirst, Attached
<1>4. NoNodeOutlivesCluster'
  BY DEF IInv, TypeOK, SInv, NoNodeOutlivesCluster, NodesGoFirst, JoinsPresent, OwnNode,
         Unborn, Named, Attached, Attaching
<1>5. QED
  BY <1>1, <1>2, <1>3, <1>4 DEF SInv

LEMMA RecordStateSerial ==
    ASSUME IInv, SInv, NEW r \in Requests, RecordState(r)
    PROVE  SInv'
<1> USE DEF RecordState, GoTo, Slip, OutcomeState, Present, Absent, clusterVars, nodeVars,
            callVars, loopVars, reportVars
<1>1. OneAtWork'
  <2>1. \A x \in Requests : Live(x)' => Live(x)
    BY DEF IInv, TypeOK, Live
  <2>2. QED
    BY <2>1 DEF SInv, OneAtWork
<1>2. JoinsPresent'
  BY DEF IInv, TypeOK, SInv, JoinsPresent, OneAtWork, Live, Attaching, Named, Removing
<1>3. NodesGoFirst'
  <2>1. /\ UNCHANGED <<life, owner, target, listed, crossed>>
        /\ \A x \in Requests : pc'[x] \in {"removeNodes", "removeCluster"} => pc[x] = pc'[x]
    BY DEF IInv, TypeOK
  <2>2. QED
    BY <2>1 DEF SInv, NodesGoFirst, Attached
<1>4. NoNodeOutlivesCluster'
  BY DEF IInv, TypeOK, SInv, NoNodeOutlivesCluster, NodesGoFirst, JoinsPresent, OwnNode,
         Unborn, Named, Attached, Attaching
<1>5. QED
  BY <1>1, <1>2, <1>3, <1>4 DEF SInv

LEMMA ListToUpdateSerial ==
    ASSUME IInv, SInv, NEW r \in Requests, ListToUpdate(r)
    PROVE  SInv'
<1> USE DEF ListToUpdate, ListNodes, GoTo, Slip, clusterVars, nodeVars, callVars, loopVars,
            reportVars
<1>1. OneAtWork'
  <2>1. \A x \in Requests : Live(x)' => Live(x)
    BY DEF IInv, TypeOK, Live
  <2>2. QED
    BY <2>1 DEF SInv, OneAtWork
<1>2. JoinsPresent'
  <2>1. /\ UNCHANGED <<state, target, crossed>>
        /\ \A x \in Requests : pc'[x] \in Attaching => pc[x] \in Attaching
    BY DEF IInv, TypeOK, Attaching
  <2>2. QED
    BY <2>1 DEF SInv, JoinsPresent
<1>3. NodesGoFirst'
  <2>1. \A x \in Requests : pc'[x] \in {"removeNodes", "removeCluster"} =>
           pc[x] = pc'[x] /\ x # r /\ listed'[x] = listed[x]
    BY DEF IInv, TypeOK
  <2>2. \A x \in Requests : Attached(target[x])' = Attached(target[x])
    BY DEF Attached
  <2>3. QED
    BY <2>1, <2>2 DEF SInv, NodesGoFirst
<1>4. NoNodeOutlivesCluster'
  BY DEF IInv, TypeOK, SInv, NoNodeOutlivesCluster, NodesGoFirst, JoinsPresent, OwnNode,
         Unborn, Named, Attached, Attaching
<1>5. QED
  BY <1>1, <1>2, <1>3, <1>4 DEF SInv

LEMMA UpdateNodeSerial ==
    ASSUME IInv, SInv, NEW r \in Requests, UpdateNode(r)
    PROVE  SInv'
<1> USE DEF UpdateNode, WriteNode, GoTo, Slip, clusterVars, nodeVars, callVars, loopVars,
            reportVars
<1>1. OneAtWork'
  <2>1. \A x \in Requests : Live(x)' => Live(x)
    BY DEF IInv, TypeOK, Live
  <2>2. QED
    BY <2>1 DEF SInv, OneAtWork
<1>2. JoinsPresent'
  <2>1. /\ UNCHANGED <<state, target, crossed>>
        /\ \A x \in Requests : pc'[x] \in Attaching => pc[x] \in Attaching
    BY DEF IInv, TypeOK, Attaching
  <2>2. QED
    BY <2>1 DEF SInv, JoinsPresent
<1>3. NodesGoFirst'
  BY DEF IInv, TypeOK, SInv, NodesGoFirst, OneAtWork, Live, Attached, Named, OwnNode, Unborn,
         Attaching, Removing
<1>4. NoNodeOutlivesCluster'
  BY DEF IInv, TypeOK, SInv, NoNodeOutlivesCluster, NodesGoFirst, JoinsPresent, OwnNode,
         Unborn, Named, Attached, Attaching
<1>5. QED
  BY <1>1, <1>2, <1>3, <1>4 DEF SInv

LEMMA ListToRemoveSerial ==
    ASSUME IInv, SInv, NEW r \in Requests, ListToRemove(r)
    PROVE  SInv'
<1> USE DEF ListToRemove, ListNodes, GoTo, Slip, clusterVars, nodeVars, callVars, loopVars,
            reportVars
<1>1. OneAtWork'
  <2>1. \A x \in Requests : Live(x)' => Live(x)
    BY DEF IInv, TypeOK, Live
  <2>2. QED
    BY <2>1 DEF SInv, OneAtWork
<1>2. JoinsPresent'
  <2>1. /\ UNCHANGED <<state, target, crossed>>
        /\ \A x \in Requests : pc'[x] \in Attaching => pc[x] \in Attaching
    BY DEF IInv, TypeOK, Attaching
  <2>2. QED
    BY <2>1 DEF SInv, JoinsPresent
<1>3. NodesGoFirst'
  <2>1. \A x \in Requests : x # r => pc'[x] = pc[x] /\ listed'[x] = listed[x]
    BY DEF IInv, TypeOK
  <2>2. \A x \in Requests : Attached(target[x])' = Attached(target[x])
    BY DEF Attached
  <2>3. /\ pc'[r] = "removeNodes" => listed'[r] = Attached(target[r])
        /\ pc'[r] = "removeCluster" => Attached(target[r]) = {}
    BY DEF IInv, TypeOK
  <2>4. QED
    BY <2>1, <2>2, <2>3 DEF SInv, NodesGoFirst
<1>4. NoNodeOutlivesCluster'
  BY DEF IInv, TypeOK, SInv, NoNodeOutlivesCluster, NodesGoFirst, JoinsPresent, OwnNode,
         Unborn, Named, Attached, Attaching
<1>5. QED
  BY <1>1, <1>2, <1>3, <1>4 DEF SInv

LEMMA RemoveNodesSerial ==
    ASSUME IInv, SInv, NEW r \in Requests, RemoveNodes(r)
    PROVE  SInv'
<1> USE DEF RemoveNodes, GoTo, Slip, clusterVars, nodeVars, callVars, loopVars, reportVars
<1>1. OneAtWork'
  <2>1. \A x \in Requests : Live(x)' => Live(x)
    BY DEF IInv, TypeOK, Live
  <2>2. QED
    BY <2>1 DEF SInv, OneAtWork
<1>2. JoinsPresent'
  <2>1. /\ UNCHANGED <<state, target, crossed>>
        /\ \A x \in Requests : pc'[x] \in Attaching => pc[x] \in Attaching
    BY DEF IInv, TypeOK, Attaching
  <2>2. QED
    BY <2>1 DEF SInv, JoinsPresent
<1>3. NodesGoFirst'
  <2> SUFFICES ASSUME NEW x \in Requests, target[x] \notin crossed,
                      pc'[x] \in {"removeNodes", "removeCluster"}
               PROVE  /\ pc'[x] = "removeNodes" => Attached(target[x])' \subseteq listed[x]
                      /\ pc'[x] = "removeCluster" => Attached(target[x])' = {}
    BY DEF NodesGoFirst, Attached
  <2>1. pc \in [Requests -> Labels] /\ life \in [Nodes -> {"unknown", "added", "removed"}]
    BY DEF IInv, TypeOK
  <2>2. Attached(target[x])' \subseteq Attached(target[x])
    BY <2>1 DEF Attached
  <2>3. CASE x # r
    BY <2>1, <2>2, <2>3 DEF SInv, NodesGoFirst
  <2>4. CASE x = r
    <3>1. pc'[r] = "removeCluster"
      BY <2>1, <2>4
    <3>2. life' = [n \in Nodes |-> IF n \in listed[r] THEN "removed" ELSE life[n]]
      BY <2>1, <2>4
    <3>3. Attached(target[r]) \subseteq listed[r]
      BY <2>4 DEF SInv, NodesGoFirst
    <3>4. QED
      BY <2>4, <3>1, <3>2, <3>3 DEF Attached
  <2>5. QED
    BY <2>3, <2>4
<1>4. NoNodeOutlivesCluster'
  BY DEF IInv, TypeOK, SInv, NoNodeOutlivesCluster, NodesGoFirst, JoinsPresent, OwnNode,
         Unborn, Named, Attached, Attaching
<1>5. QED
  BY <1>1, <1>2, <1>3, <1>4 DEF SInv

LEMMA RemoveClusterSerial ==
    ASSUME IInv, SInv, NEW r \in Requests, RemoveCluster(r)
    PROVE  SInv'
<1> USE DEF RemoveCluster, GoTo, Slip, Present, Absent, clusterVars, nodeVars, callVars,
            loopVars, reportVars
<1>1. OneAtWork'
  <2>1. \A x \in Requests : Live(x)' => Live(x)
    BY DEF IInv, TypeOK, Live
  <2>2. QED
    BY <2>1 DEF SInv, OneAtWork
<1>2. JoinsPresent'
  <2>1. \A x \in Requests : pc'[x] \in Attaching => pc[x] \in Attaching /\ x # r
    BY DEF IInv, TypeOK, Attaching
  <2>2. \A x \in Requests : pc[x] \in Attaching /\ x # r =>
           target[x] # target[r] \/ target[x] \in crossed
    BY DEF SInv, OneAtWork, Live, Attaching
  <2>3. \A x \in Requests : pc[x] \in Attaching => target[x] \in Clusters
    BY DEF IInv, Named, Attaching
  <2>4. QED
    BY <2>1, <2>2, <2>3 DEF IInv, TypeOK, SInv, JoinsPresent
<1>3. NodesGoFirst'
  <2>1. \A x \in Requests : pc'[x] \in {"removeNodes", "removeCluster"} =>
           pc[x] = pc'[x] /\ x # r /\ listed'[x] = listed[x]
    BY DEF IInv, TypeOK
  <2>2. \A x \in Requests : Attached(target[x])' = Attached(target[x])
    BY DEF Attached
  <2>3. QED
    BY <2>1, <2>2 DEF SInv, NodesGoFirst
<1>4. NoNodeOutlivesCluster'
  BY DEF IInv, TypeOK, SInv, NoNodeOutlivesCluster, NodesGoFirst, JoinsPresent, OwnNode,
         Unborn, Named, Attached, Attaching
<1>5. QED
  BY <1>1, <1>2, <1>3, <1>4 DEF SInv

LEMMA RestartSerial ==
    ASSUME IInv, SInv, Restart
    PROVE  SInv'
<1> USE DEF Restart, Live, clusterVars, nodeVars, callVars, loopVars, reportVars
<1>1. OneAtWork'
  <2>1. \A x \in Requests : Live(x)' => Live(x)
    BY DEF IInv, TypeOK, Live
  <2>2. QED
    BY <2>1 DEF SInv, OneAtWork
<1>2. JoinsPresent'
  <2>1. /\ UNCHANGED <<state, target, crossed>>
        /\ \A x \in Requests : pc'[x] \in Attaching => pc[x] \in Attaching
    BY DEF IInv, TypeOK, Attaching
  <2>2. QED
    BY <2>1 DEF SInv, JoinsPresent
<1>3. NodesGoFirst'
  BY DEF IInv, TypeOK, SInv, NodesGoFirst, OneAtWork, Live, Attached, Named, OwnNode, Unborn,
         Attaching, Removing
<1>4. NoNodeOutlivesCluster'
  BY DEF IInv, TypeOK, SInv, NoNodeOutlivesCluster, NodesGoFirst, JoinsPresent, OwnNode,
         Unborn, Named, Attached, Attaching
<1>5. QED
  BY <1>1, <1>2, <1>3, <1>4 DEF SInv

LEMMA ReportStatusSerial ==
    ASSUME IInv, SInv, NEW n \in Nodes, ReportStatus(n)
    PROVE  SInv'
<1> USE DEF ReportStatus, InUpdate, clusterVars, nodeVars, callVars, loopVars, reportVars
<1>1. OneAtWork'
  <2>1. \A x \in Requests : Live(x)' => Live(x)
    BY DEF IInv, TypeOK, Live
  <2>2. QED
    BY <2>1 DEF SInv, OneAtWork
<1>2. JoinsPresent'
  <2>1. /\ UNCHANGED <<state, target, crossed>>
        /\ \A x \in Requests : pc'[x] \in Attaching => pc[x] \in Attaching
    BY DEF IInv, TypeOK, Attaching
  <2>2. QED
    BY <2>1 DEF SInv, JoinsPresent
<1>3. NodesGoFirst'
  BY DEF IInv, TypeOK, SInv, NodesGoFirst, OneAtWork, Live, Attached, Named, OwnNode, Unborn,
         Attaching, Removing
<1>4. NoNodeOutlivesCluster'
  BY DEF IInv, TypeOK, SInv, NoNodeOutlivesCluster, NodesGoFirst, JoinsPresent, OwnNode,
         Unborn, Named, Attached, Attaching
<1>5. QED
  BY <1>1, <1>2, <1>3, <1>4 DEF SInv

LEMMA InitSerial == Init => SInv
BY DEF Init, SInv, OneAtWork, JoinsPresent, NodesGoFirst, NoNodeOutlivesCluster, Live,
       Attaching,
       Attached

LEMMA StutterSerial == SInv /\ UNCHANGED vars => SInv'
BY DEF vars, clusterVars, nodeVars, callVars, loopVars, reportVars, SInv, OneAtWork,
       JoinsPresent,
       NodesGoFirst, NoNodeOutlivesCluster, Live, Attached

LEMMA StepSerial ==
    ASSUME SInv, IInv, [Next]_vars
    PROVE  SInv'
<1>1. ASSUME NEW r \in Requests, Receive(r) \/ Step(r)
      PROVE  SInv'
  BY <1>1, ReceiveSerial, AddNodeSerial, AttachNodeSerial, InstallSerial,
     MonitorNotifiesSerial, RecordStateSerial, ListToUpdateSerial, UpdateNodeSerial,
     ListToRemoveSerial, RemoveNodesSerial, RemoveClusterSerial DEF Step
<1>2. CASE Restart
  BY <1>2, RestartSerial
<1>3. ASSUME NEW n \in Nodes, ReportStatus(n)
      PROVE  SInv'
  BY <1>3, ReportStatusSerial
<1>4. CASE UNCHANGED vars
  BY <1>4, StutterSerial
<1>5. QED
  BY <1>1, <1>2, <1>3, <1>4 DEF Next, Waiting

\* Unless a removal runs into other work, no node outlives its cluster, whichever
\* calls of the removal fail.
THEOREM ClusterGoesLast == Spec => []NoNodeOutlivesCluster
<1>1. Init => SInv
  BY InitSerial
<1>2. IInv /\ SInv /\ [Next]_vars => SInv'
  BY StepSerial
<1>3. SInv => NoNodeOutlivesCluster
  BY DEF SInv
<1>4. QED
  BY <1>1, <1>2, <1>3, IInvHolds, PTL DEF Spec

-----------------------------------------------------------------------------
\* The nodes of a cluster are counted: those discovered are attached or still to
\* attach, as long as the request that attaches them meets no error; and an install
\* that has met one while attaching is past all labels at which they count.

FiniteAttached == \A c \in Clusters : IsFiniteSet(Attached(c))

GivenOut == \A n \in Nodes : owner[n] \in Clusters => state[owner[n]] # "unknown"

Complete(r) == kind[r] = "install" \/ r \notin slipped

Counted(r) ==
    Complete(r) /\ target[r] \notin crossed =>
        /\ pc[r] \in Attaching =>
              /\ left[r] \in 1..found[r]
              /\ Cardinality(Attached(target[r])) = found[r] - left[r]
        /\ pc[r] \in Installing => Cardinality(Attached(target[r])) = found[r]

CInv == FiniteAttached /\ GivenOut /\ \A r \in Requests : Counted(r)

\* Whether r works on the nodes of its cluster, and the cluster is left alone.
AtNodes(r) ==
    pc[r] \in Attaching \cup Installing /\ Complete(r) /\ target[r] \notin crossed

LEMMA SameCount ==
    ASSUME NEW x \in Requests, Counted(x),
           AtNodes(x)' => /\ AtNodes(x)
                          /\ pc'[x] \in Attaching <=> pc[x] \in Attaching
                          /\ kind'[x] = kind[x]
                          /\ target'[x] = target[x]
                          /\ found'[x] = found[x]
                          /\ left'[x] = left[x]
                          /\ Attached(target[x])' = Attached(target[x])
    PROVE  Counted(x)'
<1> SUFFICES ASSUME Complete(x)', target'[x] \notin crossed',
                    pc'[x] \in Attaching \cup Installing
             PROVE  /\ pc'[x] \in Attaching =>
                          /\ left'[x] \in 1..found'[x]
                          /\ Cardinality(Attached(target[x])') = found'[x] - left'[x]
                    /\ pc'[x] \in Installing => Cardinality(Attached(target[x])') = found'[x]
                    /\ target'[x] = target[x]
  BY DEF Counted, Attached, AtNodes
<1>1. AtNodes(x)'
  BY DEF AtNodes
<1> QED  BY <1>1 DEF Counted, AtNodes, Attaching, Installing

\* A step that keeps the nodes and the clusters they are attached to.
LEMMA NodesKept ==
    ASSUME IInv, CInv, UNCHANGED <<kind, target, found, left, life, owner>>,
           slipped \subseteq slipped', crossed \subseteq crossed',
           \A c \in Clusters : state'[c] = "unknown" => state[c] = "unknown",
           \A x \in Requests :
              AtNodes(x)' => AtNodes(x) /\ (pc'[x] \in Attaching <=> pc[x] \in Attaching)
    PROVE  CInv'
<1>1. \A c : Attached(c)' = Attached(c)
  BY DEF Attached
<1>2. FiniteAttached'
  BY <1>1 DEF CInv, FiniteAttached
<1>3. GivenOut'
  BY DEF CInv, GivenOut, IInv, TypeOK
<1>4. ASSUME NEW x \in Requests PROVE Counted(x)'
  BY <1>1, SameCount DEF CInv
<1> QED  BY <1>2, <1>3, <1>4 DEF CInv

LEMMA LateStepCounted ==
    ASSUME IInv, CInv, NEW r \in Requests,
           \/ Install(r) \/ MonitorNotifies(r) \/ RecordState(r) \/ ListToUpdate(r)
           \/ UpdateNode(r) \/ ListToRemove(r) \/ RemoveCluster(r)
    PROVE  CInv'
<1> USE DEF Install, MonitorNotifies, RecordState, ListToUpdate, UpdateNode, ListToRemove,
            ListNodes, RemoveCluster, clusterVars, nodeVars, callVars, loopVars, reportVars
<1>1. /\ UNCHANGED <<kind, target, found, left, life, owner, crossed>>
      /\ slipped \subseteq slipped'
  BY DEF GoTo, Slip, WriteNode
<1>2. \A c \in Clusters : state'[c] = "unknown" => state[c] = "unknown"
  BY DEF IInv, TypeOK, OutcomeState
<1>3. ASSUME NEW x \in Requests, AtNodes(x)'
      PROVE  AtNodes(x) /\ (pc'[x] \in Attaching <=> pc[x] \in Attaching)
  <2>1. Complete(x) /\ target[x] \notin crossed /\ pc'[x] \in Attaching \cup Installing
    BY <1>1, <1>3 DEF AtNodes, Complete
  <2>2. \/ pc' = [pc EXCEPT ![r] = "done"]
        \/ pc[r] \in Installing /\ \E l \in Installing : pc' = [pc EXCEPT ![r] = l]
        \/ \E l \in Removing : pc' = [pc EXCEPT ![r] = l]
    BY DEF GoTo, Slip, Installing, Removing
  <2>3. pc'[x] = pc[x] \/ (pc[x] \in Installing /\ pc'[x] \in Installing)
    BY <2>1, <2>2 DEF IInv, TypeOK, Attaching, Installing, Removing
  <2> QED  BY <2>1, <2>3 DEF AtNodes, Attaching, Installing
<1> QED  BY <1>1, <1>2, <1>3, NodesKept

\* A cluster the System Model has just given out has no nodes.
LEMMA ReceiveCounted ==
    ASSUME IInv, CInv, NEW r \in Requests, Receive(r) PROVE CInv'
<1> USE DEF clusterVars, nodeVars, callVars, loopVars, reportVars
<1>1. UNCHANGED <<life, owner, slipped>>
  BY DEF Receive
<1>2. PICK c \in Clusters :
          /\ target' = [target EXCEPT ![r] = c]
          /\ \/ \E k \in {"install", "provision"} : StartAttach(r, c, k)
             \/ StartRemove(r, c)
  BY DEF Receive
<1>3. \A d : Attached(d)' = Attached(d)
  BY <1>1 DEF Attached
<1>4. FiniteAttached'
  BY <1>3 DEF CInv, FiniteAttached
<1>5. GivenOut'
  BY <1>1, <1>2 DEF CInv, GivenOut, IInv, TypeOK, StartAttach, StartRemove
<1>6. ASSUME NEW x \in Requests, x # r PROVE Counted(x)'
  <2>1. /\ pc'[x] = pc[x] /\ target'[x] = target[x] /\ found'[x] = found[x]
        /\ left'[x] = left[x] /\ kind'[x] = kind[x] /\ crossed \subseteq crossed'
    BY <1>2, <1>6 DEF IInv, TypeOK, StartAttach, StartRemove
  <2> QED  BY <1>1, <1>3, <1>6, <2>1, SameCount DEF CInv, AtNodes, Complete
<1>7. Counted(r)'
  <2>1. CASE StartRemove(r, c)
    BY <2>1 DEF StartRemove, Counted, Attaching, Installing, IInv, TypeOK
  <2>2. ASSUME NEW k, StartAttach(r, c, k) PROVE Counted(r)'
    <3>1. PICK n \in 0..MaxNodes :
              /\ found' = [found EXCEPT ![r] = n]
              /\ left' = [left EXCEPT ![r] = n]
              /\ pc' = [pc EXCEPT ![r] = AttachLoop(n)]
      BY <2>2 DEF StartAttach
    <3>2. /\ found'[r] = n /\ left'[r] = n /\ pc'[r] = AttachLoop(n)
          /\ target'[r] = c
      BY <1>2, <3>1 DEF IInv, TypeOK
    <3>3. Attached(c) = {}
      BY <2>2 DEF StartAttach, CInv, GivenOut, Attached
    <3>4. Cardinality(Attached(target[r])') = 0
      BY <1>3, <3>2, <3>3, FS_EmptySet DEF Attached
    <3>5. Counted(r)' <=>
            (Complete(r)' /\ target'[r] \notin crossed' =>
                /\ pc'[r] \in Attaching =>
                      /\ left'[r] \in 1..found'[r]
                      /\ Cardinality(Attached(target[r])') = found'[r] - left'[r]
                /\ pc'[r] \in Installing => Cardinality(Attached(target[r])') = found'[r])
      BY DEF Counted, Attached
    <3> QED  BY <3>2, <3>4, <3>5 DEF AttachLoop, Attaching, Installing
  <2> QED  BY <1>2, <2>1, <2>2
<1> QED  BY <1>4, <1>5, <1>6, <1>7 DEF CInv

LEMMA AddNodeCounted ==
    ASSUME IInv, CInv, NEW r \in Requests, AddNode(r) PROVE CInv'
<1> USE DEF clusterVars, nodeVars, callVars, loopVars, reportVars
<1>1. /\ UNCHANGED <<state, owner, kind, target, found, left, crossed>>
      /\ slipped \subseteq slipped'
      /\ \/ pc' = [pc EXCEPT ![r] = "join"]
         \/ pc' = [pc EXCEPT ![r] = "done"]
         \/ r \in slipped' /\ kind[r] # "install" /\ pc' = [pc EXCEPT ![r] = "install"]
      /\ pc[r] = "attach"
  BY DEF AddNode, AttachFails, GoTo, Slip
<1>2. UNCHANGED life
      \/ \E n \in Nodes : life[n] = "unknown" /\ life' = [life EXCEPT ![n] = "added"]
  BY DEF AddNode
<1>3. \A c \in Clusters : Attached(c)' = Attached(c)
  BY <1>1, <1>2 DEF Attached, IInv, TypeOK, Unborn
<1>4. FiniteAttached'
  BY <1>3 DEF CInv, FiniteAttached
<1>5. GivenOut'
  BY <1>1 DEF CInv, GivenOut
<1>6. ASSUME NEW x \in Requests PROVE Counted(x)'
  <2>1. ASSUME AtNodes(x)'
        PROVE  /\ AtNodes(x) /\ (pc'[x] \in Attaching <=> pc[x] \in Attaching)
               /\ target[x] \in Clusters
    BY <1>1, <2>1 DEF AtNodes, Complete, Attaching, Installing, IInv, TypeOK, Named
  <2> QED  BY <1>1, <1>3, <2>1, SameCount DEF CInv
<1> QED  BY <1>4, <1>5, <1>6 DEF CInv

\* The node joins its cluster, and no other cluster notices.
LEMMA AttachNodeCounted ==
    ASSUME IInv, CInv, NEW r \in Requests, AttachNode(r) PROVE CInv'
<1> USE DEF clusterVars, nodeVars, callVars, loopVars, reportVars
<1> DEFINE n == fresh[r]
           c == target[r]
<1>1. /\ UNCHANGED <<state, life, kind, target, found, crossed>>
      /\ slipped \subseteq slipped'
      /\ pc[r] = "join" /\ c \in Clusters /\ state[c] # "unknown"
      /\ n \in Nodes /\ life[n] = "added" /\ owner[n] = None
      /\ left[r] # 0
      /\ \A x \in Requests \ {r} : pc'[x] = pc[x] /\ left'[x] = left[x]
  BY DEF AttachNode, AttachFails, GoTo, Slip, IInv, TypeOK, Named, OwnNode, Attaching
<1>2. \/ UNCHANGED owner /\ AttachFails(r)
      \/ owner' = [owner EXCEPT ![n] = c]
  BY DEF AttachNode
<1>3. \A d \in Clusters \ {c} : Attached(d)' = Attached(d)
  BY <1>1, <1>2 DEF Attached, IInv, TypeOK
<1>4. /\ Attached(c)' = Attached(c) \/ Attached(c)' = Attached(c) \cup {n}
      /\ ~AttachFails(r) => Attached(c)' = Attached(c) \cup {n}
      /\ n \notin Attached(c)
  BY <1>1, <1>2 DEF Attached, IInv, TypeOK
<1>5. IsFiniteSet(Attached(c)) /\ IsFiniteSet(Attached(c)')
  BY <1>1, <1>4, FS_AddElement DEF CInv, FiniteAttached
<1>6. FiniteAttached'
  <2> SUFFICES ASSUME NEW d \in Clusters PROVE IsFiniteSet(Attached(d)')
    BY DEF FiniteAttached, Attached
  <2>1. CASE d = c
    BY <1>1, <1>5, <2>1 DEF Attached
  <2>2. CASE d # c
    BY <1>3, <2>2 DEF CInv, FiniteAttached
  <2> QED  BY <2>1, <2>2
<1>7. GivenOut'
  <2>1. owner \in [Nodes -> Clusters \cup {None}]
    BY DEF IInv, TypeOK
  <2>2. \A j \in Nodes : owner'[j] = owner[j] \/ owner'[j] = c
    BY <1>2, <2>1
  <2> QED  BY <1>1, <2>2 DEF CInv, GivenOut
<1>8. ASSUME NEW x \in Requests, x # r PROVE Counted(x)'
  <2>1. ASSUME AtNodes(x)'
        PROVE  AtNodes(x) /\ target[x] \in Clusters \ {c}
    <3>1. AtNodes(x)
      BY <1>1, <1>8, <2>1 DEF AtNodes, Complete
    <3>2. /\ target[x] \in Clusters
          /\ kind[x] \in {"install", "provision"} /\ kind[r] \in {"install", "provision"}
      BY <1>1, <3>1 DEF AtNodes, Attaching, Installing, IInv, Named
    <3> QED  BY <1>8, <3>1, <3>2 DEF IInv, OneInstaller
  <2> QED  BY <1>1, <1>3, <1>8, <2>1, SameCount DEF CInv
<1>9. Counted(r)'
  <2>1. CASE AttachFails(r)
    <3>1. r \in slipped' /\ pc'[r] = IF kind[r] = "install" THEN "done" ELSE "install"
      BY <2>1 DEF AttachFails, Slip, IInv, TypeOK
    <3> QED  BY <1>1, <3>1 DEF Counted, Complete, Attaching, Installing
  <2>2. CASE ~AttachFails(r)
    <3> SUFFICES ASSUME c \notin crossed
                 PROVE  /\ pc'[r] \in Attaching =>
                              /\ left'[r] \in 1..found[r]
                              /\ Cardinality(Attached(c)') = found[r] - left'[r]
                        /\ pc'[r] \in Installing => Cardinality(Attached(c)') = found[r]
      BY <1>1 DEF Counted, Attached
    <3>1. left'[r] = left[r] - 1 /\ pc'[r] = AttachLoop(left[r] - 1)
      BY <2>2 DEF AttachNode, GoTo, IInv, TypeOK
    <3>2. /\ left[r] \in 1..found[r] /\ found[r] \in Nat
          /\ Cardinality(Attached(c)) = found[r] - left[r]
      <4>1. r \notin slipped /\ pc[r] \in Attaching /\ found[r] \in 0..MaxNodes
        BY <1>1 DEF Attaching, IInv, TypeOK, CleanStart
      <4> QED  BY <4>1 DEF CInv, Counted, Complete
    <3>3. Cardinality(Attached(c)') = found[r] - left[r] + 1
      BY <1>4, <1>5, <2>2, <3>2, FS_AddElement
    <3> QED  BY <3>1, <3>2, <3>3 DEF AttachLoop, Attaching, Installing
  <2> QED  BY <2>1, <2>2
<1> QED  BY <1>6, <1>7, <1>8, <1>9 DEF CInv

\* A removal takes nodes of its own cluster, which no other request is at work on.
LEMMA RemoveNodesCounted ==
    ASSUME IInv, SInv, CInv, NEW r \in Requests, RemoveNodes(r) PROVE CInv'
<1> USE DEF clusterVars, nodeVars, callVars, loopVars, reportVars
<1>1. /\ UNCHANGED <<state, owner, kind, target, found, left, crossed>>
      /\ slipped \subseteq slipped'
      /\ pc[r] = "removeNodes"
      /\ \E l \in {"removeCluster", "done"} : pc' = [pc EXCEPT ![r] = l]
      /\ UNCHANGED life \/ life' = [n \in Nodes |-> IF n \in listed[r] THEN "removed" ELSE life[n]]
  BY DEF RemoveNodes, GoTo, Slip
<1>2. \A c \in Clusters :
          /\ Attached(c)' \subseteq Attached(c)
          /\ c # target[r] => Attached(c)' = Attached(c)
  BY <1>1 DEF Attached, IInv, TypeOK, ListsOwn
<1>3. FiniteAttached'
  <2> SUFFICES ASSUME NEW c \in Clusters PROVE IsFiniteSet(Attached(c)')
    BY DEF FiniteAttached, Attached
  <2> QED  BY <1>2, FS_Subset DEF CInv, FiniteAttached
<1>4. GivenOut'
  BY <1>1 DEF CInv, GivenOut
<1>5. ASSUME NEW x \in Requests PROVE Counted(x)'
  <2>1. ASSUME AtNodes(x)'
        PROVE  /\ AtNodes(x) /\ pc'[x] = pc[x]
               /\ target[x] \in Clusters /\ target[x] # target[r]
    <3>1. x # r /\ AtNodes(x) /\ pc'[x] = pc[x]
      BY <1>1, <2>1 DEF AtNodes, Complete, Attaching, Installing, IInv, TypeOK
    <3>2. Live(x) /\ Live(r) /\ target[x] \in Clusters /\ target[x] \notin crossed
      BY <1>1, <3>1 DEF AtNodes, Attaching, Installing, Live, IInv, Named
    <3> QED  BY <3>1, <3>2 DEF SInv, OneAtWork
  <2> QED  BY <1>1, <1>2, <2>1, SameCount DEF CInv
<1> QED  BY <1>3, <1>4, <1>5 DEF CInv

LEMMA RestCounted ==
    ASSUME IInv, CInv, Restart \/ (\E n \in Nodes : ReportStatus(n)) \/ UNCHANGED vars
    PROVE  CInv'
<1> USE DEF Restart, ReportStatus, vars, clusterVars, nodeVars, callVars, loopVars, reportVars
<1>1. /\ UNCHANGED <<kind, target, found, left, life, owner, state, crossed>>
      /\ slipped \subseteq slipped'
  OBVIOUS
<1>2. \A x \in Requests : pc'[x] = pc[x] \/ pc'[x] = "dead"
  BY DEF Live
<1>3. \A x \in Requests :
          AtNodes(x)' => AtNodes(x) /\ (pc'[x] \in Attaching <=> pc[x] \in Attaching)
  BY <1>1, <1>2 DEF AtNodes, Complete, Attaching, Installing
<1> QED  BY <1>1, <1>3, NodesKept

LEMMA InitCounted == Init => CInv
<1> SUFFICES ASSUME Init PROVE CInv
  OBVIOUS
<1>1. \A c : Attached(c) = {}
  BY DEF Init, Attached
<1>2. FiniteAttached
  BY <1>1, FS_EmptySet DEF FiniteAttached
<1>3. GivenOut /\ \A r \in Requests : Counted(r)
  BY DEF Init, GivenOut, Counted, Attaching, Installing
<1> QED  BY <1>2, <1>3 DEF CInv

LEMMA NextCounted == IInv /\ SInv /\ CInv /\ [Next]_vars => CInv'
<1> SUFFICES ASSUME IInv, SInv, CInv, [Next]_vars PROVE CInv'
  OBVIOUS
<1>1. ASSUME NEW r \in Requests, Receive(r) \/ Step(r) PROVE CInv'
  BY <1>1, ReceiveCounted, AddNodeCounted, AttachNodeCounted, LateStepCounted,
     RemoveNodesCounted DEF Step
<1>2. CASE Restart \/ (\E n \in Nodes : ReportStatus(n)) \/ UNCHANGED vars
  BY <1>2, RestCounted
<1> QED  BY <1>1, <1>2 DEF Next, Waiting

\* No install request hands a cluster over short of nodes, for any number of nodes and
\* of other requests, and whichever calls fail or lose their reply; a provision does so
\* only after an error of attachNodes. Clusters being removed meanwhile are left out.
THEOREM OnlyProvisionsShort == Spec => []OnlyProvisionsInstallShort
<1>1. Init => SInv /\ CInv
  BY InitSerial, InitCounted
<1>2. IInv /\ SInv /\ CInv /\ [Next]_vars => (SInv /\ CInv)'
  BY StepSerial, NextCounted
<1>3. IInv /\ CInv => OnlyProvisionsInstallShort
  BY DEF IInv, Named, CInv, Counted, Complete, OnlyProvisionsInstallShort, Installing
<1> QED  BY <1>1, <1>2, <1>3, IInvHolds, PTL DEF Spec
=============================================================================
