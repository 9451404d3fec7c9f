------------------------- MODULE ClusterOrderProofs -------------------------
(***************************************************************************)
(* The order in which a request calls other components, whatever the other *)
(* requests do: no decommission before the answer to the uninstall, no     *)
(* removal before the answer to the decommission, no install that is       *)
(* neither asked for nor preceded by the answer to the provision.          *)
(***************************************************************************)
EXTENDS ClusterOpsProofs

-----------------------------------------------------------------------------
\* The inductive invariant: for each place of a request, what it has watched
\* last and what became of it.

Updating(q, S) == q.pc \in {"updateSM", "updateBus"} /\ q.newState \in S

\* The operation watched last, at the places where it matters.
Places(q) ==
    /\ \/ q.pc \in {"idle", "add", "check", "scale", "uninstall"}
       \/ Updating(q, {"SCALING", "UNINSTALLING"})
       => q.op = "none"
    /\ q.pc \in {"discover", "ready", "install"} \/ Updating(q, {"INSTALL_IN_PROGRESS"})
       => q.op \in {"none", "provision"}
    /\ q.pc = "decommission" => q.op = "uninstall"
    /\ q.op = "install" =>
          q.pc \in {"watch", "done", "dead"} \/ Updating(q, {"INSTALLED", "FAILURE"})
    /\ q.op = "decommission" => q.pc \in {"watch", "forget", "done", "dead"}

\* From the uninstall to the end of the decommission; m is remote[r].
Freeing(q, m) ==
    /\ q.op = "uninstall" /\ q.pc \in {"updateSM", "updateBus", "decommission"}
       => m["uninstall"] \in Final("uninstall")
    /\ m["decommission"] # "none" =>
          /\ m["uninstall"] \in Final("uninstall")
          /\ q.pc \in {"done", "dead"} \/ q.op = "decommission"
    /\ q.heard => m["decommission"] \in Final("decommission")

\* From the provision to the install.
Growing(q, m) ==
    /\ q.op = "none" /\ q.pc \notin {"done", "dead"} => m["provision"] = "none"
    /\ /\ q.op = "provision"
       /\ \/ q.pc \in {"discover", "ready", "install"}
          \/ Updating(q, Written \ {"FAILURE"})
       => m["provision"] \in {"success", "flagged"}
    /\ m["install"] # "none" =>
          /\ m["provision"] \in {"none", "success", "flagged"}
          /\ q.pc \in {"done", "dead"} \/ q.op = "install"

Ordered(q, m) == Places(q) /\ Freeing(q, m) /\ Growing(q, m)

OInv == \A r \in Requests : Ordered(req[r], remote[r])
-----------------------------------------------------------------------------
\* What the parts of a step keep.

LEMMA GoToKeeps ==
    ASSUME NEW q \in ReqType, NEW l
    PROVE  /\ GoTo(q, l).pc = l
           /\ GoTo(q, l).op = q.op
           /\ GoTo(q, l).newState = q.newState
           /\ GoTo(q, l).heard = q.heard
           /\ GoTo(q, l).cluster = q.cluster
BY DEF GoTo, ReqType

LEMMA AbandonKeeps ==
    ASSUME NEW q \in ReqType, NEW l
    PROVE  /\ Abandon(q, l).pc = l
           /\ Abandon(q, l).op = q.op
           /\ Abandon(q, l).newState = q.newState
           /\ Abandon(q, l).heard = q.heard
           /\ Abandon(q, l).cluster = q.cluster
BY DEF Abandon, ReqType

LEMMA WriteKeeps ==
    ASSUME NEW q \in ReqType, NEW s
    PROVE  /\ Write(q, s).pc = "updateSM"
           /\ Write(q, s).newState = s
           /\ Write(q, s).op = q.op
           /\ Write(q, s).heard = q.heard
           /\ Write(q, s).cluster = q.cluster
BY DEF Write, ReqType

LEMMA PartsKept ==
    ASSUME NEW q \in ReqType, NEW l
    PROVE  /\ GoTo(q, l).dropped = q.dropped /\ GoTo(q, l).kind = q.kind
           /\ Abandon(q, l).dropped          /\ Abandon(q, l).kind = q.kind
           /\ Write(q, l).dropped = q.dropped /\ Write(q, l).kind = q.kind
BY DEF GoTo, Abandon, Write, ReqType

LEMMA OneMovesRemotely ==
    ASSUME IInv, OInv, NEW r \in Requests, NEW q, NEW m,
           req' = [req EXCEPT ![r] = q], remote' = [remote EXCEPT ![r] = m], Ordered(q, m)
    PROVE  OInv'
<1> SUFFICES ASSUME NEW x \in Requests PROVE Ordered(req'[x], remote'[x])
  BY DEF OInv, Ordered, Places, Freeing, Growing, Updating
<1>1. CASE x = r
  BY <1>1 DEF IInv, TypeInv, TypeOK
<1>2. CASE x # r
  BY <1>2 DEF OInv, IInv, TypeInv, TypeOK
<1> QED  BY <1>1, <1>2

LEMMA OneMoves ==
    ASSUME IInv, OInv, NEW r \in Requests, NEW q,
           req' = [req EXCEPT ![r] = q], UNCHANGED remote, Ordered(q, remote[r])
    PROVE  OInv'
<1>1. remote' = [remote EXCEPT ![r] = remote[r]]
  BY DEF IInv, TypeInv, TypeOK
<1> QED  BY <1>1, OneMovesRemotely

\* A request that returns, or ends with the process, owes no order any more.
LEMMA Returned ==
    ASSUME NEW q, NEW p, NEW m, Ordered(p, m), q.pc \in {"done", "dead"},
           q.op = p.op, q.heard = p.heard
    PROVE  Ordered(q, m)
BY DEF Ordered, Places, Freeing, Growing, Updating

LEMMA KilledOrdered ==
    ASSUME IInv, OInv, req' = Killed, UNCHANGED remote
    PROVE  OInv'
<1> SUFFICES ASSUME NEW x \in Requests PROVE Ordered(req'[x], remote[x])
  BY DEF OInv, Ordered, Places, Freeing, Growing, Updating
<1>1. req[x] \in ReqType /\ Ordered(req[x], remote[x])
  BY DEF IInv, TypeInv, TypeOK, OInv
<1>2. req'[x] \in {req[x], Abandon(req[x], "dead")}
  BY DEF Killed
<1> QED  BY <1>1, <1>2, AbandonKeeps, Returned

-----------------------------------------------------------------------------
\* Every action keeps the order.

LEMMA ReceiveOrdered == ASSUME IInv, OInv, NEW r \in Requests, Receive(r) PROVE OInv'
<1> DEFINE p == req[r]
           m == remote[r]
<1>1. p \in ReqType /\ p.pc = "idle" /\ Ordered(p, m)
  BY DEF Receive, IInv, TypeInv, TypeOK, OInv
<1>2. PICK q \in Arrivals(p) : req' = [req EXCEPT ![r] = q]
  BY DEF Receive
<1>3. /\ q.op = p.op /\ q.heard = p.heard
      /\ q.pc \in {"add", "discover", "check", "updateSM"}
  <2>1. ASSUME NEW w \in ReqType, NEW k, NEW c, q = As(w, k, c)
        PROVE  q.op = w.op /\ q.heard = w.heard /\ q.pc = w.pc
    BY <2>1 DEF As, ReqType
  <2>2. /\ \A l \in {"add", "discover", "check"} : GoTo(p, l) \in ReqType
        /\ \A s \in Written : Write(p, s) \in ReqType
    BY <1>1, GoToType, WriteType, LabelsUsed
  <2>3. \/ \E l \in {"add", "discover", "check"} : \E k, c : q = As(GoTo(p, l), k, c)
        \/ \E s \in Written : \E k, c : q = As(Write(p, s), k, c)
    <3>1. \/ \E k \in Kinds \cap {"provision"} : q = As(GoTo(p, "add"), k, None)
          \/ \E k \in Kinds \cap {"install"} : q = As(GoTo(p, "discover"), k, None)
          \/ \E k \in Kinds \cap {"scale", "uninstall", "decommission"}, c \in Clusters :
                q = As(GoTo(p, "check"), k, c)
          \/ \E k \in Kinds \cap {"update"}, c \in Clusters, s \in UserStates :
                q = As(Write(p, s), k, c)
      <4> HIDE DEF p
      <4> QED  BY <1>2 DEF Arrivals
    <3> HIDE DEF p
    <3> QED  BY <3>1, UserStatesAssumption
  <2>4. CASE \E l \in {"add", "discover", "check"} : \E k, c : q = As(GoTo(p, l), k, c)
    BY <1>1, <2>1, <2>2, <2>4, GoToKeeps
  <2>5. CASE \E s \in Written : \E k, c : q = As(Write(p, s), k, c)
    BY <1>1, <2>1, <2>2, <2>5, WriteKeeps
  <2> QED  BY <2>3, <2>4, <2>5
<1>4. Ordered(q, m)
  BY <1>1, <1>3 DEF Ordered, Places, Freeing, Growing, Updating
<1> QED  BY <1>2, <1>4, OneMoves DEF Receive

LEMMA UpdateSMOrdered == ASSUME IInv, OInv, NEW r \in Requests, UpdateSM(r) PROVE OInv'
<1> DEFINE p == req[r]
           m == remote[r]
           ko == Abandon(p, OnUpdateError(p))
<1>1. p \in ReqType /\ p.pc = "updateSM" /\ Ordered(p, m)
  BY DEF UpdateSM, IInv, TypeInv, TypeOK, OInv
<1>2. PICK q \in {GoTo(p, "updateBus"), ko} : req' = [req EXCEPT ![r] = q]
  BY DEF UpdateSM
<1>3. CASE q = GoTo(p, "updateBus")
  <2>1. q.pc = "updateBus" /\ q.op = p.op /\ q.newState = p.newState /\ q.heard = p.heard
    BY <1>1, <1>3, GoToKeeps
  <2>2. Ordered(q, m)
    BY <1>1, <2>1 DEF Ordered, Places, Freeing, Growing, Updating
  <2> QED  BY <1>2, <2>2, OneMoves DEF UpdateSM
<1>4. CASE q = ko
  <2>1. /\ q.op = p.op /\ q.heard = p.heard /\ q.newState = p.newState
        /\ q.pc = "done" \/ (q.pc = "decommission" /\ p.op = "uninstall")
    BY <1>1, <1>4, AbandonKeeps DEF OnUpdateError
  <2>2. Ordered(q, m)
    BY <1>1, <2>1 DEF Ordered, Places, Freeing, Growing, Updating
  <2> QED  BY <1>2, <2>2, OneMoves DEF UpdateSM
<1> QED  BY <1>2, <1>3, <1>4
LEMMA UpdateBusOrdered == ASSUME IInv, OInv, NEW r \in Requests, UpdateBus(r) PROVE OInv'
<1> DEFINE p == req[r]
           m == remote[r]
<1>1. /\ p \in ReqType /\ p.pc = "updateBus" /\ p.newState \in Written /\ Ordered(p, m)
  BY DEF UpdateBus, IInv, TypeInv, TypeOK, Requested, HasState, OInv
<1>2. PICK q \in {GoTo(p, OnUpdated(p)), Abandon(p, OnUpdateError(p))} :
          req' = [req EXCEPT ![r] = q]
  BY DEF UpdateBus
<1>3. CASE q = GoTo(p, OnUpdated(p))
  <2>1. q.pc = OnUpdated(p) /\ q.op = p.op /\ q.newState = p.newState /\ q.heard = p.heard
    BY <1>1, <1>3, GoToKeeps
  <2>2. \/ q.pc = "done"
        \/ q.pc = "describe" /\ p.newState = "PROVISIONING"
        \/ q.pc = "install" /\ p.newState = "INSTALL_IN_PROGRESS"
        \/ q.pc = "scale" /\ p.newState = "SCALING"
        \/ q.pc = "uninstall" /\ p.newState = "UNINSTALLING"
        \/ q.pc = "ready" /\ p.newState = "PROVISIONED" /\ p.op = "none"
        \/ q.pc = "discover" /\ p.newState = "PROVISIONED" /\ p.op = "provision"
        \/ q.pc = "decommission" /\ p.op = "uninstall"
    BY <2>1 DEF OnUpdated
  <2>3. Places(q)
    BY <1>1, <2>1, <2>2 DEF Ordered, Places, Updating
  <2>4. Freeing(q, m) /\ Growing(q, m)
    BY <1>1, <2>1, <2>2 DEF Ordered, Places, Freeing, Growing, Updating
  <2> QED  BY <1>2, <2>3, <2>4, OneMoves DEF UpdateBus, Ordered
<1>4. CASE q = Abandon(p, OnUpdateError(p))
  <2>1. /\ q.op = p.op /\ q.heard = p.heard /\ q.newState = p.newState
        /\ q.pc = "done" \/ (q.pc = "decommission" /\ p.op = "uninstall")
    BY <1>1, <1>4, AbandonKeeps DEF OnUpdateError
  <2>2. Ordered(q, m)
    BY <1>1, <2>1 DEF Ordered, Places, Freeing, Growing, Updating
  <2> QED  BY <1>2, <2>2, OneMoves DEF UpdateBus
<1> QED  BY <1>2, <1>3, <1>4

LEMMA DiscoverOrdered == ASSUME IInv, OInv, NEW r \in Requests, Discover(r) PROVE OInv'
<1> DEFINE p == req[r]
           m == remote[r]
<1>1. p \in ReqType /\ p.pc = "discover" /\ Ordered(p, m)
  BY DEF Discover, IInv, TypeInv, TypeOK, OInv
<1>2. CASE req' = Killed
  BY <1>2, KilledOrdered DEF Discover
<1>3. ASSUME NEW l \in {"done", "add", "ready"}, req' = [req EXCEPT ![r] = GoTo(p, l)],
             l = "add" => p.op # "provision"
      PROVE  OInv'
  <2> DEFINE q == GoTo(p, l)
  <2>1. q.pc = l /\ q.op = p.op /\ q.newState = p.newState /\ q.heard = p.heard
    BY <1>1, GoToKeeps
  <2> HIDE DEF q
  <2>2. Ordered(q, m)
    BY <1>1, <1>3, <2>1 DEF Ordered, Places, Freeing, Growing, Updating
  <2> QED  BY <1>3, <2>2, OneMoves DEF Discover, q
<1>4. \/ req' = Killed
      \/ \E l \in {"done", "add", "ready"} :
            req' = [req EXCEPT ![r] = GoTo(p, l)] /\ (l = "add" => p.op # "provision")
  BY DEF Discover
<1> QED  BY <1>2, <1>3, <1>4

LEMMA AddClusterOrdered == ASSUME IInv, OInv, NEW r \in Requests, AddCluster(r) PROVE OInv'
<1> DEFINE p == req[r]
           m == remote[r]
<1>1. p \in ReqType /\ p.pc = "add" /\ Ordered(p, m)
  BY DEF AddCluster, IInv, TypeInv, TypeOK, OInv
<1>2. ASSUME NEW c \in Clusters,
             req' = [req EXCEPT ![r] = [Write(p, AddedAs(p.kind)) EXCEPT !.cluster = c]]
      PROVE  OInv'
  <2> DEFINE w == Write(p, AddedAs(p.kind))
             q == [w EXCEPT !.cluster = c]
  <2>1. /\ w \in ReqType /\ w.pc = "updateSM" /\ w.op = p.op /\ w.heard = p.heard
        /\ w.newState = AddedAs(p.kind)
    BY <1>1, AddedAsWritten, WriteKeeps, WriteType
  <2> HIDE DEF w
  <2>2. /\ q.pc = "updateSM" /\ q.op = p.op /\ q.heard = p.heard
        /\ q.newState \in {"PROVISIONING", "PROVISIONED"}
    BY <2>1 DEF ReqType, AddedAs
  <2> HIDE DEF q
  <2>3. Ordered(q, m)
    BY <1>1, <2>2 DEF Ordered, Places, Freeing, Growing, Updating
  <2> QED  BY <1>2, <2>3, OneMoves DEF AddCluster, q, w
<1>3. ASSUME NEW q \in {GoTo(p, "done"), Abandon(p, "done")}, req' = [req EXCEPT ![r] = q]
      PROVE  OInv'
  <2>1. q.pc = "done" /\ q.op = p.op /\ q.heard = p.heard
    BY <1>1, GoToKeeps, AbandonKeeps
  <2> QED  BY <1>1, <1>3, <2>1, Returned, OneMoves DEF AddCluster
<1> QED  BY <1>2, <1>3 DEF AddCluster

LEMMA DescribeOrdered == ASSUME IInv, OInv, NEW r \in Requests, Describe(r) PROVE OInv'
<1> DEFINE p == req[r]
           m == remote[r]
<1>1. p \in ReqType /\ p.pc = "describe" /\ Ordered(p, m)
  BY DEF Describe, IInv, TypeInv, TypeOK, OInv
<1>2. PICK q \in {GoTo(p, "provision"), Abandon(p, "done")} : req' = [req EXCEPT ![r] = q]
  BY DEF Describe
<1>3. /\ q.op = p.op /\ q.heard = p.heard /\ q.newState = p.newState
      /\ q.pc \in {"provision", "done"}
  BY <1>1, <1>2, GoToKeeps, AbandonKeeps
<1>4. Ordered(q, m)
  BY <1>1, <1>3 DEF Ordered, Places, Freeing, Growing, Updating
<1> QED  BY <1>2, <1>4, OneMoves DEF Describe

\* The checks before a state is announced: what is written may be announced here.
LEMMA CheckedOrdered ==
    ASSUME IInv, OInv, NEW r \in Requests, UNCHANGED remote,
           \/ /\ req[r].pc = "ready"
              /\ req' = [req EXCEPT ![r] = Write(req[r], "INSTALL_IN_PROGRESS")]
           \/ /\ req[r].pc = "check"
              /\ \E s \in {"SCALING", "UNINSTALLING"} :
                    req' = [req EXCEPT ![r] = Write(req[r], s)]
           \/ req' = [req EXCEPT ![r] = GoTo(req[r], "done")]
    PROVE  OInv'
<1> DEFINE p == req[r]
           m == remote[r]
<1>1. p \in ReqType /\ Ordered(p, m)
  BY DEF IInv, TypeInv, TypeOK, OInv
<1>2. CASE req' = [req EXCEPT ![r] = GoTo(p, "done")]
  <2>1. /\ GoTo(p, "done").pc = "done" /\ GoTo(p, "done").op = p.op
        /\ GoTo(p, "done").heard = p.heard
    BY <1>1, GoToKeeps
  <2>2. Ordered(GoTo(p, "done"), m)
    BY <1>1, <2>1, Returned
  <2> QED  BY <1>2, <2>2, OneMoves
<1>3. ASSUME NEW s \in {"INSTALL_IN_PROGRESS", "SCALING", "UNINSTALLING"},
             req' = [req EXCEPT ![r] = Write(p, s)],
             p.pc = IF s = "INSTALL_IN_PROGRESS" THEN "ready" ELSE "check"
      PROVE  OInv'
  <2> DEFINE q == Write(p, s)
  <2>1. q.pc = "updateSM" /\ q.newState = s /\ q.op = p.op /\ q.heard = p.heard
    BY <1>1, WriteKeeps
  <2> HIDE DEF q
  <2>2. Ordered(q, m)
    BY <1>1, <1>3, <2>1 DEF Ordered, Places, Freeing, Growing, Updating
  <2> QED  BY <1>3, <2>2, OneMoves DEF q
<1> QED  BY <1>2, <1>3
LEMMA ReadyOrdered == ASSUME IInv, OInv, NEW r \in Requests, Ready(r) PROVE OInv'
BY CheckedOrdered DEF Ready

LEMMA CheckOrdered == ASSUME IInv, OInv, NEW r \in Requests, Check(r) PROVE OInv'
BY CheckedOrdered DEF Check

\* Nothing is called twice, nor out of turn.
LEMMA CallOrdered == ASSUME IInv, OInv, NEW r \in Requests, Call(r) PROVE OInv'
<1> DEFINE p == req[r]
           m == remote[r]
           run == [m EXCEPT ![p.pc] = "running"]
           watching == [GoTo(p, "watch") EXCEPT !.op = p.pc]
<1>1. /\ p \in ReqType /\ p.pc \in OpKinds /\ Ordered(p, m)
      /\ m \in [OpKinds -> {"none", "running"} \cup AllVerdicts]
  BY DEF Call, IInv, TypeInv, TypeOK, OInv
<1>2. m["decommission"] = "none" /\ m["install"] = "none" /\ ~p.heard
  BY <1>1 DEF Ordered, Places, Freeing, Growing, Updating, OpKinds, Final, ReqType
<1>3. /\ run["uninstall"] = IF p.pc = "uninstall" THEN "running" ELSE m["uninstall"]
      /\ run["decommission"] = IF p.pc = "decommission" THEN "running" ELSE m["decommission"]
      /\ run["provision"] = IF p.pc = "provision" THEN "running" ELSE m["provision"]
      /\ run["install"] = IF p.pc = "install" THEN "running" ELSE m["install"]
  BY <1>1 DEF OpKinds
<1>4. CASE req' = [req EXCEPT ![r] = watching] /\ remote' = [remote EXCEPT ![r] = run]
  <2> DEFINE w == GoTo(p, "watch")
  <2>1. w \in ReqType /\ w.pc = "watch" /\ w.heard = p.heard
    <3>1. w \in ReqType
      BY <1>1, GoToType, LabelsUsed
    <3> QED  BY <1>1, <3>1, GoToKeeps
  <2> HIDE DEF w
  <2>2. /\ [w EXCEPT !.op = p.pc].pc = "watch" /\ [w EXCEPT !.op = p.pc].op = p.pc
        /\ [w EXCEPT !.op = p.pc].heard = p.heard
    BY <2>1 DEF ReqType
  <2>3. watching.pc = "watch" /\ watching.op = p.pc /\ watching.heard = p.heard
    BY <2>2 DEF w
  <2> HIDE DEF watching, run
  <2>4. Ordered(watching, run)
    BY <1>1, <1>2, <1>3, <2>3 DEF Ordered, Places, Freeing, Growing, Updating, OpKinds
  <2> QED  BY <1>4, <2>4, OneMovesRemotely
<1>5. ASSUME req' = [req EXCEPT ![r] = OnCallError(p)],
             NEW n \in {m, run}, remote' = [remote EXCEPT ![r] = n]
      PROVE  OInv'
  <2> DEFINE q == OnCallError(p)
  <2>1. /\ q.op = p.op /\ q.heard = p.heard
        /\ \/ q.pc = "updateSM" /\ q.newState = "FAILURE" /\ p.pc \in {"scale", "uninstall"}
           \/ q.pc = "done" /\ p.pc \notin {"scale", "uninstall"}
    BY <1>1, WriteKeeps, GoToKeeps DEF OnCallError
  <2> HIDE DEF q, run
  <2>2. Ordered(q, n)
    BY <1>1, <1>2, <1>3, <1>5, <2>1 DEF Ordered, Places, Freeing, Growing, Updating
  <2> QED  BY <1>5, <2>2, OneMovesRemotely DEF q
<1>6. \/ req' = [req EXCEPT ![r] = watching] /\ remote' = [remote EXCEPT ![r] = run]
      \/ /\ req' = [req EXCEPT ![r] = OnCallError(p)]
         /\ remote' = [remote EXCEPT ![r] = m] \/ remote' = [remote EXCEPT ![r] = run]
  <2>1. remote = [remote EXCEPT ![r] = m]
    BY DEF IInv, TypeInv, TypeOK
  <2> QED  BY <2>1 DEF Call
<1> QED  BY <1>4, <1>5, <1>6

\* A running operation is no verdict yet, so ending it takes nothing back.
LEMMA RemoteFinishesOrdered ==
    ASSUME IInv, OInv, NEW r \in Requests, RemoteFinishes(r) PROVE OInv'
<1> DEFINE p == req[r]
           m == remote[r]
<1>1. /\ p \in ReqType /\ Ordered(p, m)
      /\ m \in [OpKinds -> {"none", "running"} \cup AllVerdicts]
  BY DEF IInv, TypeInv, TypeOK, OInv
<1>2. PICK k \in OpKinds, v \in Verdicts :
          m[k] = "running" /\ remote' = [remote EXCEPT ![r] = [m EXCEPT ![k] = v]]
  BY DEF RemoteFinishes
<1> DEFINE n == [m EXCEPT ![k] = v]
<1>3. \A x \in OpKinds : n[x] = m[x] \/ m[x] = "running"
  BY <1>1, <1>2
<1>4. \A x \in OpKinds : m[x] = "none" <=> n[x] = "none"
  BY <1>1, <1>2, VerdictsAssumption DEF AllVerdicts
<1>5. \A x : "running" \notin Final(x)
  BY DEF Final
<1> HIDE DEF n
<1>6. Ordered(p, n)
  BY <1>1, <1>3, <1>4, <1>5 DEF Ordered, Places, Freeing, Growing, Updating, OpKinds
<1>7. req' = [req EXCEPT ![r] = p]
  BY DEF RemoteFinishes, IInv, TypeInv, TypeOK
<1> QED  BY <1>2, <1>6, <1>7, OneMovesRemotely DEF n

LEMMA MonitorNotifiesOrdered ==
    ASSUME IInv, OInv, NEW r \in Requests, MonitorNotifies(r) PROVE OInv'
<1> DEFINE p == req[r]
           m == remote[r]
           v == remote[r][p.op]
           q == OnResponse(p, v)
<1>1. /\ p \in ReqType /\ p.pc = "watch" /\ Ordered(p, m) /\ v \in Final(p.op)
      /\ m \in [OpKinds -> {"none", "running"} \cup AllVerdicts]
  BY DEF MonitorNotifies, IInv, TypeInv, TypeOK, OInv
<1>2. req' = [req EXCEPT ![r] = q] /\ UNCHANGED remote
  BY DEF MonitorNotifies
<1>3. CASE p.op = "decommission"
  <2> DEFINE w == GoTo(p, "forget")
  <2>1. w \in ReqType /\ w.pc = "forget" /\ w.op = p.op
    <3>1. w \in ReqType
      BY <1>1, GoToType, LabelsUsed
    <3> QED  BY <1>1, <3>1, GoToKeeps
  <2>2. q = [w EXCEPT !.heard = TRUE]
    BY <1>3 DEF OnResponse
  <2> HIDE DEF w, q, v
  <2>3. q.pc = "forget" /\ q.op = "decommission"
    BY <1>3, <2>1, <2>2 DEF ReqType
  <2>4. m["decommission"] \in Final("decommission")
    BY <1>1, <1>3 DEF v
  <2>5. Ordered(q, m)
    BY <1>1, <1>3, <2>3, <2>4 DEF Ordered, Places, Freeing, Growing, Updating
  <2> QED  BY <1>2, <2>5, OneMoves
<1>4. CASE p.op # "decommission"
  <2>1. q = Write(p, OutcomeState(p.op, v))
    BY <1>4 DEF OnResponse
  <2>2. /\ q.pc = "updateSM" /\ q.op = p.op /\ q.heard = p.heard
        /\ q.newState = OutcomeState(p.op, v)
    BY <1>1, <2>1, WriteKeeps
  <2>3. /\ q.newState \in {"INSTALLED", "PROVISIONED", "FAILURE"}
        /\ p.op = "install" => q.newState \in {"INSTALLED", "FAILURE"}
        /\ v = "failed" => q.newState = "FAILURE"
    BY <2>2 DEF OutcomeState
  <2>4. /\ p.op = "provision" => m["provision"] \in {"success", "failed", "flagged"}
        /\ p.op = "uninstall" => m["uninstall"] \in Final("uninstall")
        /\ p.op = "provision" => v = m["provision"]
    BY <1>1 DEF Final, OpKinds, AllVerdicts
  <2> HIDE DEF q, v
  <2>5. Ordered(q, m)
    BY <1>1, <1>4, <2>2, <2>3, <2>4 DEF Ordered, Places, Freeing, Growing, Updating
  <2> QED  BY <1>2, <2>5, OneMoves
<1> QED  BY <1>3, <1>4
LEMMA MonitorLosesContactOrdered ==
    ASSUME IInv, OInv, NEW r \in Requests, MonitorLosesContact(r) PROVE OInv'
<1> DEFINE p == req[r]
           m == remote[r]
<1>1. p \in ReqType /\ p.pc = "watch" /\ Ordered(p, m)
  BY DEF MonitorLosesContact, IInv, TypeInv, TypeOK, OInv
<1>2. CASE req' = Killed
  BY <1>2, KilledOrdered DEF MonitorLosesContact
<1>3. ASSUME NEW q, req' = [req EXCEPT ![r] = q],
             \/ p.op = "decommission" /\ q = GoTo(p, "forget")
             \/ q = Abandon(p, "done")
      PROVE  OInv'
  <2>1. /\ q.op = p.op /\ q.heard = p.heard
        /\ q.pc = "done" \/ (q.pc = "forget" /\ p.op = "decommission")
    BY <1>1, <1>3, GoToKeeps, AbandonKeeps
  <2>2. Ordered(q, m)
    BY <1>1, <2>1 DEF Ordered, Places, Freeing, Growing, Updating
  <2> QED  BY <1>3, <2>2, OneMoves DEF MonitorLosesContact
<1> QED  BY <1>2, <1>3 DEF MonitorLosesContact

LEMMA ForgetOrdered == ASSUME IInv, OInv, NEW r \in Requests, Forget(r) PROVE OInv'
<1> DEFINE p == req[r]
           m == remote[r]
           q == GoTo(p, "done")
<1>1. p \in ReqType /\ Ordered(p, m)
  BY DEF IInv, TypeInv, TypeOK, OInv
<1>2. q.pc = "done" /\ q.op = p.op /\ q.heard = p.heard
  BY <1>1, GoToKeeps
<1>3. req' = [req EXCEPT ![r] = q] /\ UNCHANGED remote
  BY DEF Forget
<1> HIDE DEF q
<1>4. Ordered(q, m)
  BY <1>1, <1>2, Returned
<1> QED  BY <1>3, <1>4, OneMoves

-----------------------------------------------------------------------------
\* A cluster is removed by a request that names it and heard of its decommission.
RemovedInv ==
    \A c \in Clusters :
        state[c] = "removed" => \E r \in Requests : req[r].cluster = c /\ req[r].heard

\* What a step does to the clusters: nothing, a state that is no removal, or a
\* removal by a request that has heard of it.
Stored(r) ==
    \/ UNCHANGED state
    \/ \E c, s : s # "removed" /\ state' = [state EXCEPT ![c] = s]
    \/ /\ req[r].heard
       /\ state' = [state EXCEPT ![req[r].cluster] = "removed"]

\* A request does not forget what it has heard, nor of which cluster.
Remembered ==
    \A x \in Requests : req[x].heard => req'[x].heard /\ req'[x].cluster = req[x].cluster

LEMMA RemovedStep ==
    ASSUME IInv, RemovedInv, NEW r \in Requests, Stored(r), Remembered
    PROVE  RemovedInv'
<1> SUFFICES ASSUME NEW c \in Clusters, state'[c] = "removed"
             PROVE  \E x \in Requests : req'[x].cluster = c /\ req'[x].heard
  BY DEF RemovedInv
<1>1. state[c] = "removed" \/ (req[r].heard /\ req[r].cluster = c)
  BY DEF Stored, IInv, TypeInv, TypeOK
<1> QED  BY <1>1 DEF RemovedInv, Remembered

LEMMA HeardWhere ==
    ASSUME OInv, NEW r \in Requests, req[r].heard
    PROVE  req[r].pc \in {"watch", "forget", "done", "dead"}
<1>1. Places(req[r]) /\ Freeing(req[r], remote[r])
  BY DEF OInv, Ordered
<1> QED  BY <1>1 DEF Places, Freeing, Final

\* Most steps are of a request that has heard nothing yet.
LEMMA OthersRemember ==
    ASSUME OInv, NEW r \in Requests, req[r].pc \notin {"watch", "forget", "done", "dead"},
           \A x \in Requests \ {r} : req'[x] = req[x]
    PROVE  Remembered
BY HeardWhere DEF Remembered

LEMMA KilledRemember == ASSUME IInv, req' = Killed PROVE Remembered
<1> SUFFICES ASSUME NEW x \in Requests, req[x].heard
             PROVE  req'[x].heard /\ req'[x].cluster = req[x].cluster
  BY DEF Remembered
<1>1. req[x] \in ReqType
  BY DEF IInv, TypeInv, TypeOK
<1>2. req'[x] \in {req[x], Abandon(req[x], "dead")}
  BY DEF Killed
<1> QED  BY <1>1, <1>2, AbandonKeeps

LEMMA EarlyStepRemoved ==
    ASSUME IInv, OInv, RemovedInv, NEW r \in Requests,
           \/ Receive(r) \/ UpdateSM(r) \/ UpdateBus(r) \/ AddCluster(r)
           \/ Describe(r) \/ Ready(r) \/ Check(r) \/ Call(r)
    PROVE  RemovedInv'
<1>1. req[r].pc \notin {"watch", "forget", "done", "dead"}
  BY DEF Receive, UpdateSM, UpdateBus, AddCluster, Describe, Ready, Check, Call, OpKinds
<1>2. \A x \in Requests \ {r} : req'[x] = req[x]
  <2>1. req \in [Requests -> ReqType]
    BY DEF IInv, TypeInv, TypeOK
  <2>2. CASE Receive(r) \/ Check(r) \/ Call(r) \/ Ready(r)
    BY <2>1, <2>2 DEF Receive, Check, Call, Ready
  <2>3. CASE UpdateSM(r) \/ UpdateBus(r) \/ AddCluster(r) \/ Describe(r)
    BY <2>1, <2>3 DEF UpdateSM, UpdateBus, AddCluster, Describe
  <2> QED  BY <2>2, <2>3
<1>3. Stored(r)
  <2>1. CASE UpdateSM(r)
    <3>1. req[r].newState # "removed"
      BY <2>1 DEF UpdateSM, IInv, TypeInv, Requested, HasState, Written
    <3>2. UNCHANGED state \/ state' = [state EXCEPT ![req[r].cluster] = req[r].newState]
      BY <2>1 DEF UpdateSM
    <3> QED  BY <3>1, <3>2 DEF Stored
  <2>2. CASE AddCluster(r)
    <3>1. UNCHANGED state \/ \E c \in Clusters : state' = [state EXCEPT ![c] = "added"]
      BY <2>2 DEF AddCluster
    <3> QED  BY <3>1 DEF Stored
  <2>3. CASE UNCHANGED state
    BY <2>3 DEF Stored
  <2> QED  BY <2>1, <2>2, <2>3 DEF Receive, UpdateBus, Describe, Ready, Check, Call
<1> QED  BY <1>1, <1>2, <1>3, OthersRemember, RemovedStep

LEMMA DiscoverRemoved ==
    ASSUME IInv, OInv, RemovedInv, NEW r \in Requests, Discover(r) PROVE RemovedInv'
<1>1. Stored(r)
  BY DEF Discover, Stored
<1>2. CASE req' = Killed
  BY <1>1, <1>2, KilledRemember, RemovedStep
<1>3. CASE req' # Killed
  <2>1. req[r].pc = "discover" /\ \A x \in Requests \ {r} : req'[x] = req[x]
    BY <1>3 DEF Discover, IInv, TypeInv, TypeOK
  <2> QED  BY <1>1, <2>1, OthersRemember, RemovedStep
<1> QED  BY <1>2, <1>3

LEMMA MonitorRemoved ==
    ASSUME IInv, OInv, RemovedInv, NEW r \in Requests,
           MonitorNotifies(r) \/ MonitorLosesContact(r)
    PROVE  RemovedInv'
<1> DEFINE p == req[r]
<1>1. p \in ReqType
  BY DEF IInv, TypeInv, TypeOK
<1>2. Stored(r)
  BY DEF MonitorNotifies, MonitorLosesContact, Stored
<1>3. CASE req' = Killed
  BY <1>2, <1>3, KilledRemember, RemovedStep
<1>4. ASSUME NEW q, req' = [req EXCEPT ![r] = q],
             p.heard => q.heard /\ q.cluster = p.cluster
      PROVE  RemovedInv'
  <2>1. Remembered
    BY <1>4 DEF Remembered, IInv, TypeInv, TypeOK
  <2> QED  BY <1>2, <2>1, RemovedStep
<1>5. ASSUME NEW q \in {GoTo(p, "forget"), Abandon(p, "done")} PROVE
          p.heard => q.heard /\ q.cluster = p.cluster
  BY <1>1, GoToKeeps, AbandonKeeps
<1>6. ASSUME NEW v PROVE LET q == OnResponse(p, v) IN p.heard => q.heard /\ q.cluster = p.cluster
  <2>1. CASE p.op = "decommission"
    <3> DEFINE w == GoTo(p, "forget")
    <3>1. w \in ReqType /\ w.cluster = p.cluster
      BY <1>1, GoToType, LabelsUsed
    <3> HIDE DEF w
    <3>2. [w EXCEPT !.heard = TRUE].heard /\ [w EXCEPT !.heard = TRUE].cluster = p.cluster
      BY <3>1 DEF ReqType
    <3> QED  BY <2>1, <3>2 DEF OnResponse, w
  <2>2. CASE p.op # "decommission"
    BY <1>1, <2>2, WriteKeeps DEF OnResponse
  <2> QED  BY <2>1, <2>2
<1> QED  BY <1>3, <1>4, <1>5, <1>6 DEF MonitorNotifies, MonitorLosesContact

LEMMA ForgetRemoved ==
    ASSUME IInv, OInv, RemovedInv, NEW r \in Requests, Forget(r) PROVE RemovedInv'
<1> DEFINE p == req[r]
<1>1. p \in ReqType
  BY DEF IInv, TypeInv, TypeOK
<1>2. GoTo(p, "done").heard = p.heard /\ GoTo(p, "done").cluster = p.cluster
  BY <1>1, GoToKeeps
<1>3. Remembered
  BY <1>2 DEF Remembered, Forget, IInv, TypeInv, TypeOK
<1>4. Stored(r)
  BY DEF Forget, Stored
<1> QED  BY <1>3, <1>4, RemovedStep
-----------------------------------------------------------------------------
LEMMA InitOrdered == Init => OInv /\ RemovedInv
<1> SUFFICES ASSUME Init PROVE OInv /\ RemovedInv
  OBVIOUS
<1>1. ASSUME NEW r \in Requests PROVE Ordered(req[r], remote[r])
  BY DEF Init, Ordered, Places, Freeing, Growing, Updating, OpKinds
<1>2. RemovedInv
  BY DEF Init, RemovedInv
<1> QED  BY <1>1, <1>2 DEF OInv

LEMMA NextOrdered == IInv /\ OInv /\ [Next]_vars => OInv'
<1> SUFFICES ASSUME IInv, OInv, [Next]_vars PROVE OInv'
  OBVIOUS
<1>1. ASSUME NEW r \in Requests, Receive(r) PROVE OInv'
  BY <1>1, ReceiveOrdered
<1>2. ASSUME NEW r \in Requests, Step(r) PROVE OInv'
  BY <1>2, UpdateSMOrdered, UpdateBusOrdered, DiscoverOrdered, AddClusterOrdered,
     DescribeOrdered, ReadyOrdered, CheckOrdered, CallOrdered, MonitorNotifiesOrdered,
     ForgetOrdered DEF Step
<1>3. ASSUME NEW r \in Requests, MonitorLosesContact(r) \/ RemoteFinishes(r) PROVE OInv'
  BY <1>3, MonitorLosesContactOrdered, RemoteFinishesOrdered
<1>4. CASE Restart
  BY <1>4, KilledOrdered DEF Restart
<1>5. CASE Waiting \/ UNCHANGED vars
  BY <1>5 DEF Waiting, vars, OInv, Ordered, Places, Freeing, Growing, Updating
<1> QED  BY <1>1, <1>2, <1>3, <1>4, <1>5 DEF Next

LEMMA NextRemoved == IInv /\ OInv /\ RemovedInv /\ [Next]_vars => RemovedInv'
<1> SUFFICES ASSUME IInv, OInv, RemovedInv, [Next]_vars PROVE RemovedInv'
  OBVIOUS
<1>1. ASSUME NEW r \in Requests, Receive(r) \/ Step(r) PROVE RemovedInv'
  BY <1>1, EarlyStepRemoved, DiscoverRemoved, MonitorRemoved, ForgetRemoved DEF Step
<1>2. ASSUME NEW r \in Requests, MonitorLosesContact(r) PROVE RemovedInv'
  BY <1>2, MonitorRemoved
<1>3. CASE Restart
  <2>1. PICK r \in Requests : Live(req[r])
    BY <1>3 DEF Restart
  <2> QED  BY <1>3, <2>1, KilledRemember, RemovedStep DEF Restart, Stored
<1>4. CASE UNCHANGED <<state, req>>
  BY <1>4 DEF RemovedInv
<1>5. ASSUME NEW r \in Requests, RemoteFinishes(r) PROVE RemovedInv'
  BY <1>4, <1>5 DEF RemoteFinishes
<1> QED  BY <1>1, <1>2, <1>3, <1>4, <1>5 DEF Next, Waiting, vars

LEMMA OrderInductive == Spec => [](IInv /\ OInv /\ RemovedInv)
<1>1. Init => IInv /\ OInv /\ RemovedInv
  BY InitIInv, InitOrdered
<1>2. IInv /\ OInv /\ RemovedInv /\ [Next]_vars => (IInv /\ OInv /\ RemovedInv)'
  BY NextIInv, NextOrdered, NextRemoved
<1> QED  BY <1>1, <1>2, PTL DEF Spec

\* No cluster is handed to the decommission before the installer has answered for
\* its uninstall, whatever faults and other requests come in between.
THEOREM DecommissionFollowsUninstall == Spec => []DecommissionAfterUninstall
<1>1. OInv => DecommissionAfterUninstall
  BY DEF OInv, Ordered, Freeing, DecommissionAfterUninstall
<1> QED  BY OrderInductive, <1>1, PTL

\* The manager makes the System Model forget a cluster only on an answer to the
\* decommission of this cluster, never because contact was lost.
THEOREM RemovalFollowsDecommission == Spec => []RemovedAfterDecommission
<1>1. OInv /\ RemovedInv => RemovedAfterDecommission
  BY DEF OInv, Ordered, Freeing, RemovedInv, RemovedAfterDecommission
<1> QED  BY OrderInductive, <1>1, PTL

\* Who may install without a provision: at the places from which a request goes on to
\* an install with nothing watched before, its caller has asked for one.
Asks(q, m) ==
    /\ q.pc \in {"discover", "ready", "install"} /\ q.op = "none" => q.kind = "install"
    /\ q.pc = "add" => q.kind \in {"provision", "install"}
    /\ Updating(q, {"PROVISIONED", "INSTALL_IN_PROGRESS"}) /\ q.op = "none"
       => q.kind \in {"install", "update"}
    /\ q.pc = "watch" => q.op # "none"
    /\ m["install"] # "none" /\ m["provision"] = "none" => q.kind = "install"

AskedInv == \A r \in Requests : Asks(req[r], remote[r])

LEMMA OneAsksRemotely ==
    ASSUME IInv, AskedInv, NEW r \in Requests, NEW q, NEW m,
           req' = [req EXCEPT ![r] = q], remote' = [remote EXCEPT ![r] = m], Asks(q, m)
    PROVE  AskedInv'
<1> SUFFICES ASSUME NEW x \in Requests PROVE Asks(req'[x], remote'[x])
  BY DEF AskedInv, Asks, Updating
<1>1. CASE x = r
  BY <1>1 DEF IInv, TypeInv, TypeOK
<1>2. CASE x # r
  BY <1>2 DEF AskedInv, IInv, TypeInv, TypeOK
<1> QED  BY <1>1, <1>2

LEMMA OneAsks ==
    ASSUME IInv, AskedInv, NEW r \in Requests, NEW q,
           req' = [req EXCEPT ![r] = q], UNCHANGED remote, Asks(q, remote[r])
    PROVE  AskedInv'
<1>1. remote' = [remote EXCEPT ![r] = remote[r]]
  BY DEF IInv, TypeInv, TypeOK
<1> QED  BY <1>1, OneAsksRemotely

LEMMA KilledAsks == ASSUME IInv, AskedInv, req' = Killed, UNCHANGED remote PROVE AskedInv'
<1> SUFFICES ASSUME NEW x \in Requests PROVE Asks(req'[x], remote[x])
  BY DEF AskedInv, Asks, Updating
<1>1. req[x] \in ReqType /\ Asks(req[x], remote[x])
  BY DEF IInv, TypeInv, TypeOK, AskedInv
<1>2. req'[x] \in {req[x], Abandon(req[x], "dead")}
  BY DEF Killed
<1>3. Abandon(req[x], "dead").pc = "dead" /\ Abandon(req[x], "dead").kind = req[x].kind
  BY <1>1, AbandonKeeps, PartsKept
<1>4. Asks(Abandon(req[x], "dead"), remote[x])
  BY <1>1, <1>3 DEF Asks, Updating
<1> QED  BY <1>1, <1>2, <1>4

LEMMA ReceiveAsks ==
    ASSUME IInv, OInv, AskedInv, NEW r \in Requests, Receive(r) PROVE AskedInv'
<1> DEFINE p == req[r]
           m == remote[r]
<1>1. p \in ReqType /\ p.pc = "idle" /\ Ordered(p, m) /\ Asks(p, m)
  BY DEF Receive, IInv, TypeInv, TypeOK, OInv, AskedInv
<1>2. m["install"] = "none"
  BY <1>1 DEF Ordered, Places, Growing, Updating
<1>3. PICK q \in Arrivals(p) : req' = [req EXCEPT ![r] = q]
  BY DEF Receive
<1>4. \/ q.pc = "add" /\ q.kind = "provision"
      \/ q.pc = "discover" /\ q.kind = "install"
      \/ q.pc = "check"
      \/ q.pc = "updateSM" /\ q.kind = "update"
  <2>1. ASSUME NEW w \in ReqType, NEW k, NEW c
        PROVE  As(w, k, c).pc = w.pc /\ As(w, k, c).kind = k
    BY DEF As, ReqType
  <2>2. /\ \A l \in {"add", "discover", "check"} : GoTo(p, l) \in ReqType /\ GoTo(p, l).pc = l
        /\ \A s \in Written : Write(p, s) \in ReqType /\ Write(p, s).pc = "updateSM"
    BY <1>1, GoToType, WriteType, LabelsUsed
  <2>3. \/ q = As(GoTo(p, "add"), "provision", None)
        \/ q = As(GoTo(p, "discover"), "install", None)
        \/ \E k, c : q = As(GoTo(p, "check"), k, c)
        \/ \E c, s : s \in Written /\ q = As(Write(p, s), "update", c)
    <3> HIDE DEF p
    <3> QED  BY <1>3, UserStatesAssumption DEF Arrivals
  <2> HIDE DEF p
  <2> QED  BY <2>1, <2>2, <2>3
<1>5. Asks(q, m)
  BY <1>2, <1>4 DEF Asks, Updating
<1> QED  BY <1>3, <1>5, OneAsks DEF Receive

\* What the other steps of a request make of it, as far as the install goes.
LEMMA StepAsks ==
    ASSUME IInv, OInv, AskedInv, NEW r \in Requests,
           Step(r) \/ MonitorLosesContact(r), ~Call(r)
    PROVE  AskedInv'
<1> DEFINE p == req[r]
           m == remote[r]
<1>1. p \in ReqType /\ Ordered(p, m) /\ Asks(p, m)
  BY DEF IInv, TypeInv, TypeOK, OInv, AskedInv
<1>2. UNCHANGED remote
  BY DEF Step, UpdateSM, UpdateBus, Discover, AddCluster, Describe, Ready, Check,
         MonitorNotifies, MonitorLosesContact, Forget
<1>3. CASE req' = Killed
  BY <1>2, <1>3, KilledAsks
<1>4. ASSUME NEW q, q.kind = p.kind, req' = [req EXCEPT ![r] = q],
             \/ q.pc \in {"describe", "provision", "scale", "uninstall", "decommission",
                          "forget", "done"}
             \/ /\ p.pc = "updateSM" /\ q.pc = "updateBus"
                /\ q.newState = p.newState /\ q.op = p.op
             \/ q.pc = "updateSM" /\ q.newState \notin {"PROVISIONED", "INSTALL_IN_PROGRESS"}
             \/ q.pc = "updateSM" /\ p.kind = "install"
             \/ q.pc \in {"discover", "ready", "install", "updateSM"} /\ q.op # "none"
             \/ q.pc \in {"ready", "install", "add"} /\ p.kind = "install"
      PROVE  AskedInv'
  <2>1. Asks(q, m)
    BY <1>1, <1>4 DEF Asks, Updating
  <2> QED  BY <1>2, <1>4, <2>1, OneAsks
<1>5. CASE UpdateSM(r)
  <2>1. PICK q \in {GoTo(p, "updateBus"), Abandon(p, OnUpdateError(p))} :
            req' = [req EXCEPT ![r] = q] /\ p.pc = "updateSM"
    BY <1>5 DEF UpdateSM
  <2>2. /\ q.kind = p.kind
        /\ \/ q.pc = "updateBus" /\ q.newState = p.newState /\ q.op = p.op
           \/ q.pc \in {"decommission", "done"}
    BY <1>1, <2>1, GoToKeeps, AbandonKeeps, PartsKept DEF OnUpdateError
  <2> QED  BY <1>4, <2>1, <2>2
<1>6. CASE UpdateBus(r)
  <2>1. PICK q \in {GoTo(p, OnUpdated(p)), Abandon(p, OnUpdateError(p))} :
            req' = [req EXCEPT ![r] = q] /\ p.pc = "updateBus"
    BY <1>6 DEF UpdateBus
  <2>2. /\ q.kind = p.kind /\ q.op = p.op
        /\ \/ q.pc \in {"describe", "scale", "uninstall", "decommission", "done"}
           \/ q.pc = "install" /\ p.newState = "INSTALL_IN_PROGRESS" /\ p.kind # "update"
           \/ /\ q.pc = "ready" /\ p.newState = "PROVISIONED" /\ p.op = "none"
              /\ p.kind # "update"
           \/ q.pc = "discover" /\ p.op = "provision"
    BY <1>1, <2>1, GoToKeeps, AbandonKeeps, PartsKept DEF OnUpdated, OnUpdateError
  <2>3. /\ q.pc = "install" => p.kind = "install" \/ q.op # "none"
        /\ q.pc = "ready" => p.kind = "install"
    BY <1>1, <2>1, <2>2 DEF Asks, Updating
  <2> QED  BY <1>4, <2>1, <2>2, <2>3
<1>7. CASE Discover(r)
  <2>1. ASSUME NEW l \in {"done", "add", "ready"}, req' = [req EXCEPT ![r] = GoTo(p, l)],
               p.pc = "discover", l = "ready" => p.op = "provision",
               l = "add" => p.op # "provision"
        PROVE  AskedInv'
    <3> DEFINE q == GoTo(p, l)
    <3>1. q.pc = l /\ q.kind = p.kind /\ q.op = p.op
      BY <1>1, GoToKeeps, PartsKept
    <3>2. l = "add" => p.kind = "install"
      BY <1>1, <2>1 DEF Ordered, Places, Asks
    <3> HIDE DEF q
    <3> QED  BY <1>4, <2>1, <3>1, <3>2 DEF q
  <2> QED  BY <1>3, <1>7, <2>1 DEF Discover
<1>8. CASE AddCluster(r)
  <2>1. ASSUME NEW c \in Clusters,
               req' = [req EXCEPT ![r] = [Write(p, AddedAs(p.kind)) EXCEPT !.cluster = c]]
        PROVE  AskedInv'
    <3> DEFINE w == Write(p, AddedAs(p.kind))
               q == [w EXCEPT !.cluster = c]
    <3>1. /\ w \in ReqType /\ w.pc = "updateSM" /\ w.kind = p.kind
          /\ w.newState = AddedAs(p.kind)
      BY <1>1, AddedAsWritten, WriteType
    <3> HIDE DEF w
    <3>2. q.pc = "updateSM" /\ q.kind = p.kind /\ q.newState = AddedAs(p.kind)
      BY <3>1 DEF ReqType
    <3>3. p.kind = "provision" \/ p.kind = "install"
      BY <1>1, <1>8 DEF AddCluster, Asks
    <3>4. p.kind = "provision" => q.newState = "PROVISIONING"
      BY <3>2 DEF AddedAs
    <3>5. req' = [req EXCEPT ![r] = q]
      BY <2>1 DEF w
    <3> HIDE DEF q
    <3> QED  BY <1>4, <3>2, <3>3, <3>4, <3>5
  <2>2. ASSUME NEW q \in {GoTo(p, "done"), Abandon(p, "done")}, req' = [req EXCEPT ![r] = q]
        PROVE  AskedInv'
    <3>1. q.pc = "done" /\ q.kind = p.kind
      BY <1>1, <2>2, GoToKeeps, AbandonKeeps, PartsKept
    <3> QED  BY <1>4, <2>2, <3>1
  <2> QED  BY <1>8, <2>1, <2>2 DEF AddCluster
<1>9. CASE Ready(r) \/ Check(r)
  <2>1. ASSUME NEW s \in {"INSTALL_IN_PROGRESS", "SCALING", "UNINSTALLING"},
               req' = [req EXCEPT ![r] = Write(p, s)],
               s = "INSTALL_IN_PROGRESS" => p.pc = "ready"
        PROVE  AskedInv'
    <3> DEFINE q == Write(p, s)
    <3>1. q.pc = "updateSM" /\ q.newState = s /\ q.kind = p.kind /\ q.op = p.op
      BY <1>1, WriteKeeps, PartsKept
    <3>2. s = "INSTALL_IN_PROGRESS" => p.kind = "install" \/ q.op # "none"
      BY <1>1, <2>1, <3>1 DEF Asks
    <3> HIDE DEF q
    <3> QED  BY <1>4, <2>1, <3>1, <3>2 DEF q
  <2>2. CASE req' = [req EXCEPT ![r] = GoTo(p, "done")]
    BY <1>1, <1>4, <2>2, GoToKeeps, PartsKept
  <2> QED  BY <1>9, <2>1, <2>2 DEF Ready, Check
<1>10. CASE MonitorNotifies(r)
  <2>1. CASE req' = [req EXCEPT ![r] = [GoTo(p, "forget") EXCEPT !.heard = TRUE]]
    <3> DEFINE w == GoTo(p, "forget")
               q == [w EXCEPT !.heard = TRUE]
    <3>1. "forget" \in Labels
      BY LabelsUsed
    <3>2. w \in ReqType /\ w.pc = "forget" /\ w.kind = p.kind
      BY <1>1, <3>1, GoToType
    <3> HIDE DEF w
    <3>3. q.pc = "forget" /\ q.kind = p.kind
      BY <3>2 DEF ReqType
    <3>4. req' = [req EXCEPT ![r] = q]
      BY <2>1 DEF w
    <3> HIDE DEF q
    <3> QED  BY <1>4, <3>3, <3>4
  <2>2. ASSUME NEW s, req' = [req EXCEPT ![r] = Write(p, s)], p.op \in OpKinds
        PROVE  AskedInv'
    <3> DEFINE q == Write(p, s)
    <3>1. q.pc = "updateSM" /\ q.kind = p.kind /\ q.op # "none"
      BY <1>1, <2>2, WriteKeeps, PartsKept DEF OpKinds
    <3> HIDE DEF q
    <3> QED  BY <1>4, <2>2, <3>1 DEF q
  <2>3. p.op \in OpKinds
    BY <1>1, <1>10 DEF MonitorNotifies, Asks, ReqType
  <2> QED  BY <1>10, <2>1, <2>2, <2>3 DEF MonitorNotifies, OnResponse
<1>11. CASE Describe(r) \/ MonitorLosesContact(r) \/ Forget(r)
  <2>1. ASSUME NEW q, req' = [req EXCEPT ![r] = q],
               \E l \in {"provision", "forget", "done"} : q \in {GoTo(p, l), Abandon(p, l)}
        PROVE  AskedInv'
    <3>1. q.pc \in {"provision", "forget", "done"} /\ q.kind = p.kind
      BY <1>1, <2>1, GoToKeeps, AbandonKeeps, PartsKept
    <3> QED  BY <1>4, <2>1, <3>1
  <2> QED  BY <1>3, <1>11, <2>1 DEF Describe, MonitorLosesContact, Forget
<1> QED  BY <1>5, <1>6, <1>7, <1>8, <1>9, <1>10, <1>11 DEF Step

LEMMA CallAsks == ASSUME IInv, OInv, AskedInv, NEW r \in Requests, Call(r) PROVE AskedInv'
<1> DEFINE p == req[r]
           m == remote[r]
           run == [m EXCEPT ![p.pc] = "running"]
<1>1. /\ p \in ReqType /\ p.pc \in OpKinds /\ Ordered(p, m) /\ Asks(p, m)
      /\ m \in [OpKinds -> {"none", "running"} \cup AllVerdicts]
  BY DEF Call, IInv, TypeInv, TypeOK, OInv, AskedInv
<1>2. p.pc = "install" => p.kind = "install" \/ m["provision"] # "none"
  BY <1>1 DEF Ordered, Places, Growing, Asks
<1>3. ASSUME NEW n \in {m, run}
      PROVE  n["install"] # "none" /\ n["provision"] = "none" => p.kind = "install"
  BY <1>1, <1>2, <1>3 DEF Asks, OpKinds
<1>4. ASSUME NEW q, q.kind = p.kind,
             \/ q.pc = "watch" /\ q.op # "none"
             \/ q.pc = "done" \/ Updating(q, {"FAILURE"}),
             NEW n \in {m, run},
             req' = [req EXCEPT ![r] = q], remote' = [remote EXCEPT ![r] = n]
      PROVE  AskedInv'
  <2>1. Asks(q, n)
    BY <1>3, <1>4 DEF Asks, Updating
  <2> QED  BY <1>4, <2>1, OneAsksRemotely
<1>5. PICK q \in {[GoTo(p, "watch") EXCEPT !.op = p.pc], OnCallError(p)} :
          req' = [req EXCEPT ![r] = q]
  BY DEF Call
<1>6. /\ q.kind = p.kind
      /\ \/ q.pc = "watch" /\ q.op # "none"
         \/ q.pc = "done" \/ Updating(q, {"FAILURE"})
  <2>1. CASE q = [GoTo(p, "watch") EXCEPT !.op = p.pc]
    <3> DEFINE w == GoTo(p, "watch")
    <3>1. "watch" \in Labels
      BY LabelsUsed
    <3>2. w \in ReqType /\ w.pc = "watch" /\ w.kind = p.kind
      BY <1>1, <3>1, GoToType
    <3> HIDE DEF w
    <3>3. /\ [w EXCEPT !.op = p.pc].pc = "watch" /\ [w EXCEPT !.op = p.pc].kind = p.kind
          /\ [w EXCEPT !.op = p.pc].op = p.pc
      BY <3>2 DEF ReqType
    <3> QED  BY <1>1, <2>1, <3>3 DEF w, OpKinds
  <2>2. CASE q = OnCallError(p)
    BY <1>1, <2>2, GoToKeeps, WriteKeeps, PartsKept DEF OnCallError, Updating
  <2> QED  BY <1>5, <2>1, <2>2
<1>7. PICK n \in {m, run} : remote' = [remote EXCEPT ![r] = n]
  <2>1. remote = [remote EXCEPT ![r] = m]
    BY DEF IInv, TypeInv, TypeOK
  <2> QED  BY <2>1 DEF Call
<1> HIDE DEF run
<1> QED  BY <1>4, <1>5, <1>6, <1>7

LEMMA RemoteFinishesAsks ==
    ASSUME IInv, AskedInv, NEW r \in Requests, RemoteFinishes(r) PROVE AskedInv'
<1> DEFINE p == req[r]
           m == remote[r]
<1>1. Asks(p, m) /\ m \in [OpKinds -> {"none", "running"} \cup AllVerdicts]
  BY DEF IInv, TypeInv, TypeOK, AskedInv
<1>2. PICK k \in OpKinds, v \in Verdicts :
          m[k] = "running" /\ remote' = [remote EXCEPT ![r] = [m EXCEPT ![k] = v]]
  BY DEF RemoteFinishes
<1> DEFINE n == [m EXCEPT ![k] = v]
<1>3. \A x \in OpKinds : m[x] = "none" <=> n[x] = "none"
  BY <1>1, <1>2, VerdictsAssumption DEF AllVerdicts
<1> HIDE DEF n
<1>4. Asks(p, n)
  BY <1>1, <1>3 DEF Asks, OpKinds
<1>5. req' = [req EXCEPT ![r] = p]
  BY DEF RemoteFinishes, IInv, TypeInv, TypeOK
<1> QED  BY <1>2, <1>4, <1>5, OneAsksRemotely DEF n

LEMMA NextAsks == IInv /\ OInv /\ AskedInv /\ [Next]_vars => AskedInv'
<1> SUFFICES ASSUME IInv, OInv, AskedInv, [Next]_vars PROVE AskedInv'
  OBVIOUS
<1>1. ASSUME NEW r \in Requests, Receive(r) PROVE AskedInv'
  BY <1>1, ReceiveAsks
<1>2. ASSUME NEW r \in Requests, Step(r) \/ MonitorLosesContact(r) PROVE AskedInv'
  BY <1>2, StepAsks, CallAsks
<1>3. ASSUME NEW r \in Requests, RemoteFinishes(r) PROVE AskedInv'
  BY <1>3, RemoteFinishesAsks
<1>4. CASE Restart
  BY <1>4, KilledAsks DEF Restart
<1>5. CASE Waiting \/ UNCHANGED vars
  BY <1>5 DEF Waiting, vars, AskedInv, Asks, Updating
<1> QED  BY <1>1, <1>2, <1>3, <1>4, <1>5 DEF Next

\* No install is started that its caller did not ask for, unless the provisioner has
\* answered for the provision before it, and not with state ERROR. Restarts, failed
\* updates and a kubeconfig found meanwhile do not put the install before the answer.
THEOREM InstallsFollowProvisions == Spec => []InstallFollowsProvision
<1>1. Init => AskedInv
  BY DEF Init, AskedInv, Asks, Updating, OpKinds
<1>2. IInv /\ OInv /\ AskedInv /\ [Next]_vars => AskedInv'
  BY NextAsks
<1>3. OInv /\ AskedInv => InstallFollowsProvision
  BY DEF OInv, Ordered, Growing, AskedInv, Asks, InstallFollowsProvision
<1> QED  BY OrderInductive, <1>1, <1>2, <1>3, PTL DEF Spec

-----------------------------------------------------------------------------
\* Nothing runs unwatched. The invariant is inductive for each request alone.

Watched(q, m) == \A k \in OpKinds : m[k] = "running" => q.pc = "watch" /\ q.op = k

LEMMA OneWatched ==
    ASSUME IInv, RunningIsWatched, NEW r \in Requests, NEW q, NEW m,
           req' = [req EXCEPT ![r] = q], remote' = [remote EXCEPT ![r] = m], Watched(q, m)
    PROVE  RunningIsWatched'
<1> SUFFICES ASSUME NEW x \in Requests PROVE Watched(req'[x], remote'[x])
  BY DEF RunningIsWatched, Watched
<1>1. CASE x = r
  BY <1>1 DEF IInv, TypeInv, TypeOK
<1>2. CASE x # r
  BY <1>2 DEF RunningIsWatched, Watched, IInv, TypeInv, TypeOK
<1> QED  BY <1>1, <1>2

\* A request that watches nothing, or only what has ended, runs nothing.
LEMMA NothingRuns ==
    ASSUME IInv, RunningIsWatched, NEW r \in Requests, NEW q,
           req' = [req EXCEPT ![r] = q], UNCHANGED remote,
           req[r].pc = "watch" => remote[r][req[r].op] # "running"
    PROVE  RunningIsWatched'
<1>1. remote' = [remote EXCEPT ![r] = remote[r]]
  BY DEF IInv, TypeInv, TypeOK
<1>2. Watched(q, remote[r])
  BY DEF RunningIsWatched, Watched
<1> QED  BY <1>1, <1>2, OneWatched

LEMMA StepWatched ==
    ASSUME Faults \subseteq {"refused"}, IInv, RunningIsWatched, NEW r \in Requests, Step(r)
    PROVE  RunningIsWatched'
<1> DEFINE p == req[r]
           m == remote[r]
<1>1. /\ p \in ReqType /\ remote = [remote EXCEPT ![r] = m]
      /\ m \in [OpKinds -> {"none", "running"} \cup AllVerdicts]
  BY DEF IInv, TypeInv, TypeOK
<1>2. CASE Call(r)
  <2>1. \A k \in OpKinds : m[k] # "running"
    BY <1>2 DEF Call, RunningIsWatched, OpKinds
  <2>2. CASE req' = [req EXCEPT ![r] = OnCallError(p)] /\ UNCHANGED remote
    BY <1>2, <2>2, NothingRuns DEF Call, OpKinds
  <2>3. CASE /\ req' = [req EXCEPT ![r] = [GoTo(p, "watch") EXCEPT !.op = p.pc]]
             /\ remote' = [remote EXCEPT ![r] = [m EXCEPT ![p.pc] = "running"]]
    <3> DEFINE w == GoTo(p, "watch")
               q == [w EXCEPT !.op = p.pc]
               n == [m EXCEPT ![p.pc] = "running"]
    <3>1. w \in ReqType /\ w.pc = "watch" /\ p.pc \in OpKinds
      <4>1. p.pc \in OpKinds
        BY <1>2 DEF Call
      <4>2. "watch" \in Labels
        BY LabelsUsed
      <4> HIDE DEF p
      <4> QED  BY <1>1, <4>1, <4>2, GoToType
    <3>2. req' = [req EXCEPT ![r] = q] /\ remote' = [remote EXCEPT ![r] = n]
      BY <2>3
    <3> HIDE DEF w
    <3>3. q.pc = "watch" /\ q.op = p.pc
      BY <3>1 DEF ReqType
    <3>4. \A k \in OpKinds : n[k] = "running" => k = p.pc
      BY <1>1, <2>1
    <3> HIDE DEF q, n
    <3>5. Watched(q, n)
      BY <3>3, <3>4 DEF Watched
    <3> QED  BY <3>2, <3>5, OneWatched
  <2>4. Outcomes \subseteq {"ok", "refused"}
    BY DEF Outcomes
  <2> QED  BY <1>2, <2>2, <2>3, <2>4 DEF Call
<1>3. CASE MonitorNotifies(r)
  <2>1. /\ m[p.op] # "running" /\ UNCHANGED remote
        /\ req' = [req EXCEPT ![r] = OnResponse(p, m[p.op])]
    BY <1>3 DEF MonitorNotifies, Final
  <2> QED  BY <2>1, NothingRuns
<1>4. CASE ~Call(r) /\ ~MonitorNotifies(r)
  <2>1. UNCHANGED remote /\ p.pc # "watch"
    BY <1>4 DEF Step, UpdateSM, UpdateBus, Discover, AddCluster, Describe, Ready, Check, Forget
  <2>2. \E q : req' = [req EXCEPT ![r] = q]
    <3>1. CASE UpdateSM(r) \/ UpdateBus(r) \/ Describe(r) \/ Ready(r) \/ Check(r) \/ Forget(r)
      BY <3>1 DEF UpdateSM, UpdateBus, Describe, Ready, Check, Forget
    <3>2. CASE Discover(r) \/ AddCluster(r)
      BY <3>2 DEF Discover, AddCluster
    <3> QED  BY <1>4, <3>1, <3>2 DEF Step
  <2> QED  BY <2>1, <2>2, NothingRuns
<1> QED  BY <1>2, <1>3, <1>4

LEMMA NextWatched ==
    ASSUME Faults \subseteq {"refused"}
    PROVE  IInv /\ RunningIsWatched /\ [Next]_vars => RunningIsWatched'
<1> SUFFICES ASSUME IInv, RunningIsWatched, [Next]_vars PROVE RunningIsWatched'
  OBVIOUS
<1>1. ASSUME NEW r \in Requests, Receive(r) PROVE RunningIsWatched'
  BY <1>1, NothingRuns DEF Receive
<1>2. ASSUME NEW r \in Requests, Step(r) PROVE RunningIsWatched'
  BY <1>2, StepWatched
<1>3. ASSUME NEW r \in Requests, RemoteFinishes(r) PROVE RunningIsWatched'
  <2>1. PICK k \in OpKinds, v \in Verdicts :
            remote' = [remote EXCEPT ![r] = [remote[r] EXCEPT ![k] = v]]
    BY <1>3 DEF RemoteFinishes
  <2>2. v # "running" /\ UNCHANGED req
    BY <1>3, VerdictsAssumption DEF RemoteFinishes, AllVerdicts
  <2>3. \A x \in Requests, j \in OpKinds :
            remote'[x][j] = "running" => remote[x][j] = "running"
    BY <2>1, <2>2 DEF IInv, TypeInv, TypeOK
  <2> QED  BY <2>2, <2>3 DEF RunningIsWatched
<1>4. CASE UNCHANGED <<remote, req>>
  BY <1>4 DEF RunningIsWatched
<1> QED  BY <1>1, <1>2, <1>3, <1>4 DEF Next, Restart, MonitorLosesContact, Waiting, vars

\* Unless replies or contact are lost or the process ends, no operation runs that
\* its request does not watch, whatever the others do: each call that starts one is
\* followed by the launch of its monitor, and no monitor returns before an answer.
THEOREM OperationsWatched ==
    ASSUME Faults \subseteq {"refused"} PROVE Spec => []RunningIsWatched
<1>1. Init => RunningIsWatched
  BY DEF Init, RunningIsWatched
<1>2. IInv /\ RunningIsWatched /\ [Next]_vars => RunningIsWatched'
  BY NextWatched
<1> QED  BY <1>1, <1>2, Inductive, PTL DEF Spec

-----------------------------------------------------------------------------
\* What a request has recorded, or is about to, of the operations it started.

Over(q) == q.pc \in {"done", "dead"}

Records(q, m) ==
    /\ q.pc = "idle" => q.kind = "none"
    /\ q.pc = "watch" => q.op \in OpKinds
    /\ q.pc \in {"describe", "provision"} \/ Updating(q, {"PROVISIONING"}) => q.op = "none"
    /\ m["scale"] # "none" =>
          Over(q) \/ q.op = "scale" \/ (q.op = "none" /\ Updating(q, {"FAILURE"}))
    /\ m["uninstall"] # "none" =>
          \/ Over(q) \/ q.op \in {"uninstall", "decommission"}
          \/ q.op = "none" /\ Updating(q, {"FAILURE"})
    /\ q.dropped => Over(q) \/ q.op \in {"uninstall", "decommission"}
    /\ q.pc = "add" => q.kind \in {"provision", "install"}
    /\ q.pc = "discover" /\ q.op = "none" => q.kind = "install"
    /\ q.pc \in {"updateSM", "updateBus"} /\ q.kind # "update" => Earned(q, m, q.newState)

RInv == \A r \in Requests : Records(req[r], remote[r])

LEMMA OneRecordsRemotely ==
    ASSUME IInv, RInv, NEW r \in Requests, NEW q, NEW m,
           req' = [req EXCEPT ![r] = q], remote' = [remote EXCEPT ![r] = m], Records(q, m)
    PROVE  RInv'
<1> SUFFICES ASSUME NEW x \in Requests PROVE Records(req'[x], remote'[x])
  BY DEF RInv, Records, Updating, Over, Earned
<1>1. CASE x = r
  BY <1>1 DEF IInv, TypeInv, TypeOK
<1>2. CASE x # r
  BY <1>2 DEF RInv, IInv, TypeInv, TypeOK
<1> QED  BY <1>1, <1>2

LEMMA OneRecords ==
    ASSUME IInv, RInv, NEW r \in Requests, NEW q,
           req' = [req EXCEPT ![r] = q], UNCHANGED remote, Records(q, remote[r])
    PROVE  RInv'
<1>1. remote' = [remote EXCEPT ![r] = remote[r]]
  BY DEF IInv, TypeInv, TypeOK
<1> QED  BY <1>1, OneRecordsRemotely

LEMMA OverRecords ==
    ASSUME NEW q, NEW m, Over(q) PROVE Records(q, m)
BY DEF Records, Updating, Over

LEMMA KilledRecords ==
    ASSUME IInv, RInv, req' = Killed, UNCHANGED remote PROVE RInv'
<1> SUFFICES ASSUME NEW x \in Requests PROVE Records(req'[x], remote[x])
  BY DEF RInv, Records, Updating, Over, Earned
<1>1. req[x] \in ReqType /\ Records(req[x], remote[x])
  BY DEF IInv, TypeInv, TypeOK, RInv
<1>2. req'[x] = req[x] \/ req'[x] = Abandon(req[x], "dead")
  BY DEF Killed
<1> QED  BY <1>1, <1>2, AbandonKeeps, OverRecords DEF Over

\* Before its first operation a request has started nothing, and was not cut short.
LEMMA NothingStarted ==
    ASSUME NEW q, NEW m, Records(q, m), q.op \in {"none", "provision"}, ~Over(q),
           ~Updating(q, {"FAILURE"})
    PROVE  m["scale"] = "none" /\ m["uninstall"] = "none" /\ ~q.dropped
BY DEF Records, Over

LEMMA ReceiveRecords == ASSUME IInv, OInv, RInv, NEW r \in Requests, Receive(r) PROVE RInv'
<1> DEFINE p == req[r]
           m == remote[r]
<1>1. /\ p \in ReqType /\ p.pc = "idle" /\ p.op = "none"
      /\ m["scale"] = "none" /\ m["uninstall"] = "none" /\ ~p.dropped
  <2>1. p \in ReqType /\ p.pc = "idle" /\ Records(p, m) /\ Places(p)
    BY DEF Receive, IInv, TypeInv, TypeOK, OInv, Ordered, RInv
  <2>2. p.op = "none" /\ ~Over(p) /\ ~Updating(p, {"FAILURE"})
    BY <2>1 DEF Places, Over, Updating
  <2> QED  BY <2>1, <2>2, NothingStarted
<1>2. PICK q \in Arrivals(p) : req' = [req EXCEPT ![r] = q]
  BY DEF Receive
<1>3. \/ \E c : q = As(GoTo(p, "add"), "provision", c)
      \/ \E c : q = As(GoTo(p, "discover"), "install", c)
      \/ \E k, c : q = As(GoTo(p, "check"), k, c)
      \/ \E s, c : q = As(Write(p, s), "update", c)
  <2> HIDE DEF p
  <2> QED  BY <1>2 DEF Arrivals
<1>4. /\ q.op = "none" /\ ~q.dropped
      /\ \/ q.pc = "add" /\ q.kind = "provision"
         \/ q.pc = "discover" /\ q.kind = "install"
         \/ q.pc = "check"
         \/ q.pc = "updateSM" /\ q.kind = "update"
  BY <1>1, <1>3 DEF As, GoTo, Write, ReqType
<1>5. Records(q, m)
  BY <1>1, <1>4 DEF Records, Updating, Over
<1> QED  BY <1>2, <1>5, OneRecords DEF Receive

LEMMA UpdateSMRecords == ASSUME IInv, RInv, NEW r \in Requests, UpdateSM(r) PROVE RInv'
<1> DEFINE p == req[r]
           m == remote[r]
<1>1. p \in ReqType /\ p.pc = "updateSM" /\ Records(p, m)
  BY DEF UpdateSM, IInv, TypeInv, TypeOK, RInv
<1>2. PICK q \in {GoTo(p, "updateBus"), Abandon(p, OnUpdateError(p))} :
          req' = [req EXCEPT ![r] = q]
  BY DEF UpdateSM
<1>3. CASE q = GoTo(p, "updateBus")
  <2>1. /\ q.pc = "updateBus" /\ q.op = p.op /\ q.newState = p.newState
        /\ q.kind = p.kind /\ q.dropped = p.dropped
    BY <1>1, <1>3, GoToKeeps, PartsKept
  <2>2. Earned(p, m, p.newState) => Earned(q, m, q.newState)
    BY <2>1 DEF Earned
  <2>3. Records(q, m)
    BY <1>1, <2>1, <2>2 DEF Records, Updating, Over
  <2> QED  BY <1>2, <2>3, OneRecords DEF UpdateSM
<1>4. CASE q = Abandon(p, OnUpdateError(p))
  <2>1. /\ q.op = p.op /\ q.kind = p.kind
        /\ q.pc = "done" \/ (q.pc = "decommission" /\ p.op = "uninstall")
    BY <1>1, <1>4, AbandonKeeps, PartsKept DEF OnUpdateError
  <2>2. Records(q, m)
    BY <1>1, <2>1 DEF Records, Updating, Over
  <2> QED  BY <1>2, <2>2, OneRecords DEF UpdateSM
<1> QED  BY <1>2, <1>3, <1>4

LEMMA UpdateBusRecords == ASSUME IInv, RInv, NEW r \in Requests, UpdateBus(r) PROVE RInv'
<1> DEFINE p == req[r]
           m == remote[r]
<1>1. p \in ReqType /\ p.pc = "updateBus" /\ Records(p, m)
  BY DEF UpdateBus, IInv, TypeInv, TypeOK, RInv
<1>2. PICK q \in {GoTo(p, OnUpdated(p)), Abandon(p, OnUpdateError(p))} :
          req' = [req EXCEPT ![r] = q]
  BY DEF UpdateBus
<1>3. CASE q = GoTo(p, OnUpdated(p))
  <2>1. /\ q.pc = OnUpdated(p) /\ q.op = p.op /\ q.kind = p.kind /\ q.dropped = p.dropped
    BY <1>1, <1>3, GoToKeeps, PartsKept
  <2>2. /\ q.pc \notin {"idle", "watch", "add", "updateSM", "updateBus", "provision"}
        /\ q.pc = "describe" => p.newState = "PROVISIONING"
        /\ q.pc = "discover" => p.op = "provision"
        /\ p.newState = "FAILURE" /\ p.op = "none" => q.pc = "done"
    BY <2>1 DEF OnUpdated
  <2>3. Records(q, m)
    BY <1>1, <2>1, <2>2 DEF Records, Updating, Over
  <2> QED  BY <1>2, <2>3, OneRecords DEF UpdateBus
<1>4. CASE q = Abandon(p, OnUpdateError(p))
  <2>1. /\ q.op = p.op /\ q.kind = p.kind
        /\ q.pc = "done" \/ (q.pc = "decommission" /\ p.op = "uninstall")
    BY <1>1, <1>4, AbandonKeeps, PartsKept DEF OnUpdateError
  <2>2. Records(q, m)
    BY <1>1, <2>1 DEF Records, Updating, Over
  <2> QED  BY <1>2, <2>2, OneRecords DEF UpdateBus
<1> QED  BY <1>2, <1>3, <1>4

LEMMA DiscoverRecords == ASSUME IInv, OInv, RInv, NEW r \in Requests, Discover(r) PROVE RInv'
<1> DEFINE p == req[r]
           m == remote[r]
<1>1. /\ p \in ReqType /\ p.pc = "discover" /\ Records(p, m)
      /\ p.op \in {"none", "provision"}
  BY DEF Discover, IInv, TypeInv, TypeOK, RInv, OInv, Ordered, Places
<1>2. CASE req' = Killed
  BY <1>2, KilledRecords DEF Discover
<1>3. ASSUME NEW l \in {"done", "add", "ready"}, req' = [req EXCEPT ![r] = GoTo(p, l)],
             l = "add" => p.op # "provision"
      PROVE  RInv'
  <2> DEFINE q == GoTo(p, l)
  <2>1. q.pc = l /\ q.op = p.op /\ q.kind = p.kind /\ q.dropped = p.dropped
    BY <1>1, GoToKeeps, PartsKept
  <2> HIDE DEF q
  <2>2. Records(q, m)
    BY <1>1, <1>3, <2>1 DEF Records, Updating, Over
  <2> QED  BY <1>3, <2>2, OneRecords DEF Discover, q
<1>4. \/ req' = Killed
      \/ \E l \in {"done", "add", "ready"} :
            req' = [req EXCEPT ![r] = GoTo(p, l)] /\ (l = "add" => p.op # "provision")
  BY DEF Discover
<1> QED  BY <1>2, <1>3, <1>4

LEMMA AddClusterRecords == ASSUME IInv, OInv, RInv, NEW r \in Requests, AddCluster(r) PROVE RInv'
<1> DEFINE p == req[r]
           m == remote[r]
<1>1. /\ p \in ReqType /\ p.pc = "add" /\ p.op = "none"
      /\ p.kind \in {"provision", "install"}
      /\ m["scale"] = "none" /\ m["uninstall"] = "none" /\ ~p.dropped
  <2>1. p \in ReqType /\ p.pc = "add" /\ Records(p, m) /\ p.op = "none"
    BY DEF AddCluster, IInv, TypeInv, TypeOK, OInv, Ordered, Places, RInv
  <2>2. ~Over(p) /\ ~Updating(p, {"FAILURE"}) /\ p.kind \in {"provision", "install"}
    BY <2>1 DEF Over, Updating, Records
  <2> QED  BY <2>1, <2>2, NothingStarted
<1>2. ASSUME NEW c \in Clusters,
             req' = [req EXCEPT ![r] = [Write(p, AddedAs(p.kind)) EXCEPT !.cluster = c]]
      PROVE  RInv'
  <2> DEFINE w == Write(p, AddedAs(p.kind))
             q == [w EXCEPT !.cluster = c]
  <2>1. /\ w \in ReqType /\ w.pc = "updateSM" /\ w.op = "none" /\ w.newState = AddedAs(p.kind)
        /\ w.kind = p.kind /\ ~w.dropped
    BY <1>1, AddedAsWritten, WriteKeeps, WriteType, PartsKept
  <2> HIDE DEF w
  <2>2. /\ q.pc = "updateSM" /\ q.op = "none" /\ q.newState = AddedAs(p.kind)
        /\ q.kind = p.kind /\ ~q.dropped
    BY <2>1 DEF ReqType
  <2> HIDE DEF q
  <2>3. \/ q.newState = "PROVISIONING"
        \/ q.newState = "PROVISIONED" /\ q.kind = "install"
    BY <1>1, <2>2 DEF AddedAs
  <2>4. Earned(q, m, q.newState)
    BY <2>3 DEF Earned
  <2>5. Records(q, m)
    BY <1>1, <2>2, <2>4 DEF Records, Updating, Over
  <2> QED  BY <1>2, <2>5, OneRecords DEF AddCluster, q, w
<1>3. ASSUME NEW q \in {GoTo(p, "done"), Abandon(p, "done")}, req' = [req EXCEPT ![r] = q]
      PROVE  RInv'
  <2>1. Over(q)
    BY <1>1, GoToKeeps, AbandonKeeps DEF Over
  <2> QED  BY <1>3, <2>1, OverRecords, OneRecords DEF AddCluster
<1> QED  BY <1>2, <1>3 DEF AddCluster

LEMMA DescribeRecords == ASSUME IInv, RInv, NEW r \in Requests, Describe(r) PROVE RInv'
<1> DEFINE p == req[r]
           m == remote[r]
<1>1. p \in ReqType /\ p.pc = "describe" /\ Records(p, m)
  BY DEF Describe, IInv, TypeInv, TypeOK, RInv
<1>2. PICK q \in {GoTo(p, "provision"), Abandon(p, "done")} : req' = [req EXCEPT ![r] = q]
  BY DEF Describe
<1>3. \/ q.pc = "done"
      \/ /\ q.pc = "provision" /\ q.op = p.op /\ q.kind = p.kind /\ q.dropped = p.dropped
  BY <1>1, <1>2, GoToKeeps, AbandonKeeps, PartsKept
<1>4. Records(q, m)
  BY <1>1, <1>3 DEF Records, Updating, Over
<1> QED  BY <1>2, <1>4, OneRecords DEF Describe

LEMMA CheckedRecords ==
    ASSUME IInv, OInv, RInv, NEW r \in Requests, Ready(r) \/ Check(r) PROVE RInv'
<1> DEFINE p == req[r]
           m == remote[r]
<1>1. /\ p \in ReqType /\ p.op \in {"none", "provision"}
      /\ m["scale"] = "none" /\ m["uninstall"] = "none" /\ ~p.dropped
  <2>1. /\ p \in ReqType /\ p.pc \in {"ready", "check"} /\ Records(p, m)
        /\ p.op \in {"none", "provision"}
    BY DEF Ready, Check, IInv, TypeInv, TypeOK, OInv, Ordered, Places, RInv
  <2>2. ~Over(p) /\ ~Updating(p, {"FAILURE"})
    BY <2>1 DEF Over, Updating
  <2> QED  BY <2>1, <2>2, NothingStarted
<1>2. UNCHANGED remote
  BY DEF Ready, Check
<1>3. CASE req' = [req EXCEPT ![r] = GoTo(p, "done")]
  <2>1. Over(GoTo(p, "done"))
    BY <1>1, GoToKeeps DEF Over
  <2>2. Records(GoTo(p, "done"), m)
    BY <2>1, OverRecords
  <2> QED  BY <1>2, <1>3, <2>2, OneRecords
<1>4. ASSUME NEW s \in {"INSTALL_IN_PROGRESS", "SCALING", "UNINSTALLING"},
             req' = [req EXCEPT ![r] = Write(p, s)]
      PROVE  RInv'
  <2> DEFINE q == Write(p, s)
  <2>1. /\ q.pc = "updateSM" /\ q.newState = s /\ q.op = p.op /\ q.dropped = p.dropped
    BY <1>1, WriteKeeps, PartsKept
  <2> HIDE DEF q
  <2>2. Records(q, m)
    BY <1>1, <1>4, <2>1 DEF Records, Updating, Over, Earned
  <2> QED  BY <1>2, <1>4, <2>2, OneRecords DEF q
<1> QED  BY <1>3, <1>4 DEF Ready, Check

\* What is about to be called has not been called before.
LEMMA CallsFirst ==
    ASSUME OInv, RInv, NEW r \in Requests, req[r].pc \in OpKinds
    PROVE  /\ remote[r][req[r].pc] = "none"
           /\ req[r].op \notin {"scale", "install", "decommission"}
           /\ req[r].pc \in {"scale", "uninstall"} => req[r].op = "none"
           /\ req[r].op = "uninstall" => req[r].pc = "decommission"
<1> DEFINE p == req[r]
           m == remote[r]
<1>1. Places(p) /\ Freeing(p, m) /\ Growing(p, m) /\ Records(p, m)
  BY DEF OInv, Ordered, RInv
<1>2. ~Over(p) /\ p.pc \notin {"updateSM", "updateBus"}
  BY DEF Over, OpKinds
<1>3. \A S : ~Updating(p, S)
  BY <1>2 DEF Updating
<1>4. CASE p.pc \in {"scale", "uninstall"}
  BY <1>1, <1>2, <1>3, <1>4 DEF Places, Records
<1>5. CASE p.pc = "provision"
  BY <1>1, <1>2, <1>5 DEF Records, Growing
<1>6. CASE p.pc = "install"
  BY <1>1, <1>2, <1>6 DEF Places, Growing
<1>7. CASE p.pc = "decommission"
  BY <1>1, <1>2, <1>7 DEF Places, Freeing
<1> QED  BY <1>4, <1>5, <1>6, <1>7 DEF OpKinds

LEMMA CallRecords == ASSUME IInv, OInv, RInv, NEW r \in Requests, Call(r) PROVE RInv'
<1> DEFINE p == req[r]
           m == remote[r]
           run == [m EXCEPT ![p.pc] = "running"]
<1>1. /\ p \in ReqType /\ p.pc \in OpKinds /\ Records(p, m)
      /\ p.op \notin {"scale", "install", "decommission"}
      /\ p.pc \in {"scale", "uninstall"} => p.op = "none"
      /\ p.op = "uninstall" => p.pc = "decommission"
      /\ m \in [OpKinds -> {"none", "running"} \cup AllVerdicts]
  BY CallsFirst DEF Call, IInv, TypeInv, TypeOK, RInv
<1>2. m["scale"] = "none" /\ (m["uninstall"] # "none" => p.op = "uninstall")
      /\ (p.dropped => p.op = "uninstall")
  BY <1>1 DEF Records, Over, Updating, OpKinds
<1>3. /\ run["scale"] = IF p.pc = "scale" THEN "running" ELSE m["scale"]
      /\ run["uninstall"] = IF p.pc = "uninstall" THEN "running" ELSE m["uninstall"]
  BY <1>1 DEF OpKinds
<1> HIDE DEF run
<1>4. CASE /\ req' = [req EXCEPT ![r] = [GoTo(p, "watch") EXCEPT !.op = p.pc]]
           /\ remote' = [remote EXCEPT ![r] = run]
  <2> DEFINE w == GoTo(p, "watch")
             q == [w EXCEPT !.op = p.pc]
  <2>1. w \in ReqType /\ w.pc = "watch" /\ w.dropped = p.dropped
    <3>1. "watch" \in Labels
      BY LabelsUsed
    <3> QED  BY <1>1, <3>1, GoToType
  <2> HIDE DEF w
  <2>2. q.pc = "watch" /\ q.op = p.pc /\ q.dropped = p.dropped
    BY <2>1 DEF ReqType
  <2>3. req' = [req EXCEPT ![r] = q]
    BY <1>4 DEF w
  <2> HIDE DEF q
  <2>4. Records(q, run)
    BY <1>1, <1>2, <1>3, <2>2 DEF Records, Updating, Over
  <2> QED  BY <1>4, <2>3, <2>4, OneRecordsRemotely
<1>5. ASSUME req' = [req EXCEPT ![r] = OnCallError(p)],
             NEW n \in {m, run}, remote' = [remote EXCEPT ![r] = n]
      PROVE  RInv'
  <2> DEFINE q == OnCallError(p)
  <2>1. \/ q.pc = "done"
        \/ /\ q.pc = "updateSM" /\ q.newState = "FAILURE" /\ q.op = p.op
           /\ q.dropped = p.dropped /\ p.pc \in {"scale", "uninstall"}
    BY <1>1, WriteKeeps, GoToKeeps, PartsKept DEF OnCallError
  <2> HIDE DEF q
  <2>2. CASE q.pc = "done"
    <3>1. Records(q, n)
      BY <2>2, OverRecords DEF Over
    <3> QED  BY <1>5, <3>1, OneRecordsRemotely DEF q
  <2>3. CASE q.pc = "updateSM"
    <3>1. q.op = "none" /\ Updating(q, {"FAILURE"}) /\ ~q.dropped
      BY <1>1, <1>2, <2>1, <2>3 DEF Updating
    <3>2. Earned(q, n, q.newState)
      BY <2>1, <2>3, <3>1 DEF Earned
    <3>3. Records(q, n)
      BY <2>1, <2>3, <3>1, <3>2 DEF Records, Updating
    <3> QED  BY <1>5, <3>3, OneRecordsRemotely DEF q
  <2> QED  BY <2>1, <2>2, <2>3
<1>6. \/ /\ req' = [req EXCEPT ![r] = [GoTo(p, "watch") EXCEPT !.op = p.pc]]
         /\ remote' = [remote EXCEPT ![r] = run]
      \/ /\ req' = [req EXCEPT ![r] = OnCallError(p)]
         /\ remote' = [remote EXCEPT ![r] = m] \/ remote' = [remote EXCEPT ![r] = run]
  <2>1. remote = [remote EXCEPT ![r] = m]
    BY DEF IInv, TypeInv, TypeOK
  <2> QED  BY <2>1 DEF Call, run
<1> QED  BY <1>4, <1>5, <1>6

\* An operation that ends adds to what can be shown.
LEMMA RemoteFinishesRecords ==
    ASSUME IInv, RInv, NEW r \in Requests, RemoteFinishes(r) PROVE RInv'
<1> DEFINE p == req[r]
           m == remote[r]
<1>1. Records(p, m) /\ m \in [OpKinds -> {"none", "running"} \cup AllVerdicts]
  BY DEF IInv, TypeInv, TypeOK, RInv
<1>2. PICK k \in OpKinds, v \in Verdicts :
          m[k] = "running" /\ remote' = [remote EXCEPT ![r] = [m EXCEPT ![k] = v]]
  BY DEF RemoteFinishes
<1> DEFINE n == [m EXCEPT ![k] = v]
<1>3. \A x \in OpKinds : n[x] = m[x] \/ m[x] = "running"
  BY <1>1, <1>2
<1>4. \A x \in OpKinds : n[x] # "none" => m[x] # "none"
  BY <1>1, <1>2
<1> HIDE DEF n
<1>5. Earned(p, m, p.newState) => Earned(p, n, p.newState)
  BY <1>3 DEF Earned, OpKinds
<1>6. "scale" \in OpKinds /\ "uninstall" \in OpKinds
  BY DEF OpKinds
<1>7. Records(p, n)
  BY <1>1, <1>4, <1>5, <1>6 DEF Records
<1>8. req' = [req EXCEPT ![r] = p]
  BY DEF RemoteFinishes, IInv, TypeInv, TypeOK
<1> QED  BY <1>2, <1>7, <1>8, OneRecordsRemotely DEF n

\* What a callback records is what it was told.
LEMMA MonitorNotifiesRecords ==
    ASSUME IInv, RInv, NEW r \in Requests, MonitorNotifies(r) PROVE RInv'
<1> DEFINE p == req[r]
           m == remote[r]
           v == m[p.op]
           q == OnResponse(p, v)
<1>1. /\ p \in ReqType /\ p.pc = "watch" /\ p.op \in OpKinds /\ Records(p, m)
      /\ v \in Final(p.op) /\ v \in {"none", "running"} \cup AllVerdicts
  BY DEF MonitorNotifies, IInv, TypeInv, TypeOK, RInv, Records
<1>2. req' = [req EXCEPT ![r] = q] /\ UNCHANGED remote
  BY DEF MonitorNotifies
<1>3. CASE p.op = "decommission"
  <2> DEFINE w == GoTo(p, "forget")
  <2>1. w \in ReqType /\ w.pc = "forget" /\ w.op = p.op /\ w.dropped = p.dropped
    <3>1. w \in ReqType
      BY <1>1, GoToType, LabelsUsed
    <3> QED  BY <1>1, <3>1, GoToKeeps, PartsKept
  <2>2. q = [w EXCEPT !.heard = TRUE]
    BY <1>3 DEF OnResponse
  <2> HIDE DEF w, q, v
  <2>3. q.pc = "forget" /\ q.op = "decommission"
    BY <1>3, <2>1, <2>2 DEF ReqType
  <2>4. m["scale"] = "none"
    BY <1>1, <1>3 DEF Records, Over
  <2>5. Records(q, m)
    BY <2>3, <2>4 DEF Records, Updating
  <2> QED  BY <1>2, <2>5, OneRecords
<1>4. CASE p.op # "decommission"
  <2>1. q = Write(p, OutcomeState(p.op, v))
    BY <1>4 DEF OnResponse
  <2>2. /\ q.pc = "updateSM" /\ q.op = p.op /\ q.dropped = p.dropped
        /\ q.newState = OutcomeState(p.op, v)
    BY <1>1, <2>1, WriteKeeps, PartsKept
  <2> HIDE DEF q
  <2>3. v \in {"success", "failed", "flagged"}
    BY <1>1, <1>4 DEF Final, AllVerdicts
  <2>4. Earned(q, m, q.newState)
    BY <1>1, <1>4, <2>2, <2>3 DEF Earned, OutcomeState, OpKinds
  <2>5. q.newState # "PROVISIONING"
    BY <2>2 DEF OutcomeState
  <2> HIDE DEF v
  <2>6. Records(q, m)
    BY <1>1, <2>2, <2>4, <2>5 DEF Records, Updating, Over, OpKinds
  <2> QED  BY <1>2, <2>6, OneRecords
<1> QED  BY <1>3, <1>4

LEMMA MonitorLosesContactRecords ==
    ASSUME IInv, RInv, NEW r \in Requests, MonitorLosesContact(r) PROVE RInv'
<1> DEFINE p == req[r]
           m == remote[r]
<1>1. p \in ReqType /\ p.pc = "watch" /\ Records(p, m)
  BY DEF MonitorLosesContact, IInv, TypeInv, TypeOK, RInv
<1>2. CASE req' = Killed
  BY <1>2, KilledRecords DEF MonitorLosesContact
<1>3. ASSUME NEW q, req' = [req EXCEPT ![r] = q],
             \/ p.op = "decommission" /\ q = GoTo(p, "forget")
             \/ q = Abandon(p, "done")
      PROVE  RInv'
  <2>1. \/ q.pc = "done"
        \/ /\ q.pc = "forget" /\ q.op = "decommission" /\ p.op = "decommission"
           /\ q.dropped = p.dropped
    BY <1>1, <1>3, GoToKeeps, AbandonKeeps, PartsKept
  <2>2. Records(q, m)
    BY <1>1, <2>1 DEF Records, Updating, Over
  <2> QED  BY <1>3, <2>2, OneRecords DEF MonitorLosesContact
<1> QED  BY <1>2, <1>3 DEF MonitorLosesContact

LEMMA ForgetRecords == ASSUME IInv, RInv, NEW r \in Requests, Forget(r) PROVE RInv'
<1> DEFINE q == GoTo(req[r], "done")
<1>1. Over(q) /\ req' = [req EXCEPT ![r] = q] /\ UNCHANGED remote
  BY GoToKeeps DEF Forget, Over, IInv, TypeInv, TypeOK
<1> QED  BY <1>1, OverRecords, OneRecords

LEMMA InitRecords == Init => RInv
BY DEF Init, RInv, Records, Updating, Over, OpKinds

LEMMA NextRecords == IInv /\ OInv /\ RInv /\ [Next]_vars => RInv'
<1> SUFFICES ASSUME IInv, OInv, RInv, [Next]_vars PROVE RInv'
  OBVIOUS
<1>1. ASSUME NEW r \in Requests, Receive(r) PROVE RInv'
  BY <1>1, ReceiveRecords
<1>2. ASSUME NEW r \in Requests, Step(r) PROVE RInv'
  BY <1>2, UpdateSMRecords, UpdateBusRecords, DiscoverRecords, AddClusterRecords,
     DescribeRecords, CheckedRecords, CallRecords, MonitorNotifiesRecords,
     ForgetRecords DEF Step
<1>3. ASSUME NEW r \in Requests, MonitorLosesContact(r) \/ RemoteFinishes(r) PROVE RInv'
  BY <1>3, MonitorLosesContactRecords, RemoteFinishesRecords
<1>4. CASE Restart
  BY <1>4, KilledRecords DEF Restart
<1>5. CASE UNCHANGED <<req, remote>>
  BY <1>5 DEF RInv, Records, Updating, Over, Earned
<1> QED  BY <1>1, <1>2, <1>3, <1>4, <1>5 DEF Next, Waiting, vars

LEMMA RecordsInductive == Spec => [](IInv /\ OInv /\ RInv)
<1>1. Init => IInv /\ OInv /\ RInv
  BY InitIInv, InitOrdered, InitRecords
<1>2. IInv /\ OInv /\ RInv /\ [Next]_vars => (IInv /\ OInv /\ RInv)'
  BY NextIInv, NextOrdered, NextRecords
<1> QED  BY <1>1, <1>2, PTL DEF Spec

-----------------------------------------------------------------------------
\* The states of the System Model are earned, and stay so.

CutShort == {"updateSM", "updateBus", "done", "dead"}

\* Of the clusters this step does not write, none loses what it was earned by.
StillEarned ==
    \A c \in Clusters :
        LET x == writer[c] IN
            x \in Requests /\ req'[x].kind # "update" =>
                /\ req[x].kind # "update"
                /\ Earned(req[x], remote[x], state[c]) => Earned(req'[x], remote'[x], state[c])

LEMMA EarnedStill ==
    ASSUME StatesAreEarned, StillEarned, UNCHANGED <<state, writer>> PROVE StatesAreEarned'
BY DEF StatesAreEarned, StillEarned, Earned

LEMMA EarnedWritten ==
    ASSUME IInv, StatesAreEarned, StillEarned, NEW r \in Requests, NEW c \in Clusters, NEW s,
           state' = [state EXCEPT ![c] = s], writer' = [writer EXCEPT ![c] = r],
           req'[r].kind # "update" => Earned(req'[r], remote'[r], s)
    PROVE  StatesAreEarned'
<1> SUFFICES ASSUME NEW d \in Clusters, writer'[d] \in Requests,
                    req'[writer'[d]].kind # "update"
             PROVE  Earned(req'[writer'[d]], remote'[writer'[d]], state'[d])
  BY DEF StatesAreEarned, Earned
<1>1. CASE d = c
  <2>1. writer'[d] = r /\ state'[d] = s
    BY <1>1 DEF IInv, TypeInv, TypeOK
  <2> QED  BY <2>1
<1>2. CASE d # c
  <2>1. writer'[d] = writer[d] /\ state'[d] = state[d]
    BY <1>2 DEF IInv, TypeInv, TypeOK
  <2> QED  BY <2>1 DEF StatesAreEarned, StillEarned
<1> QED  BY <1>1, <1>2

LEMMA EarnedKeeps ==
    ASSUME NEW p, NEW q, NEW m, NEW n, NEW s, Earned(p, m, s),
           p.kind = "install" => q.kind = "install",
           \A k \in OpKinds : /\ m[k] \in {"success", "flagged"} => n[k] \in {"success", "flagged"}
                              /\ m[k] = "failed" => n[k] = "failed",
           /\ s = "FAILURE" /\ p.op = "none" /\ p.pc \in CutShort
           => q.op = "none" /\ q.pc \in CutShort
    PROVE  Earned(q, n, s)
<1>1. \A kinds \in SUBSET OpKinds :
          (\E k \in kinds : m[k] \in {"success", "flagged"})
          => \E k \in kinds : n[k] \in {"success", "flagged"}
  <2> SUFFICES ASSUME NEW kinds \in SUBSET OpKinds,
                      NEW k \in kinds, m[k] \in {"success", "flagged"}
               PROVE  n[k] \in {"success", "flagged"}
    OBVIOUS
  <2>1. k \in OpKinds
    OBVIOUS
  <2> QED  BY <2>1
<1>2. {"install", "scale"} \in SUBSET OpKinds /\ {"provision", "uninstall"} \in SUBSET OpKinds
  BY DEF OpKinds
<1>3. CASE s = "INSTALLED"
  BY <1>1, <1>2, <1>3 DEF Earned
<1>4. CASE s = "PROVISIONED"
  BY <1>1, <1>2, <1>4 DEF Earned
<1>5. CASE s = "FAILURE"
  BY <1>5 DEF Earned, CutShort
<1>6. CASE s \notin {"INSTALLED", "PROVISIONED", "FAILURE"}
  BY <1>6 DEF Earned
<1> QED  BY <1>3, <1>4, <1>5, <1>6

\* One request moves from p to q, and its operations from m to n.
LEMMA OneStill ==
    ASSUME IInv, NEW r \in Requests, NEW q, NEW n,
           req' = [req EXCEPT ![r] = q], remote' = [remote EXCEPT ![r] = n],
           q.kind = req[r].kind \/ req[r].kind = "none",
           \A k \in OpKinds : n[k] = remote[r][k] \/ remote[r][k] \in {"none", "running"},
           \/ req[r].op # "none" \/ req[r].pc \notin CutShort
           \/ q.op = "none" /\ q.pc \in CutShort
           \/ \A c \in Clusters : writer[c] = r => state[c] # "FAILURE"
    PROVE  StillEarned
<1> DEFINE p == req[r]
           m == remote[r]
<1> SUFFICES ASSUME NEW c \in Clusters, NEW x \in Requests, writer[c] = x,
                    req'[x].kind # "update"
             PROVE  /\ req[x].kind # "update"
                    /\ Earned(req[x], remote[x], state[c]) => Earned(req'[x], remote'[x], state[c])
  BY DEF StillEarned
<1>1. CASE x # r
  <2>1. req'[x] = req[x] /\ remote'[x] = remote[x]
    BY <1>1 DEF IInv, TypeInv, TypeOK
  <2> QED  BY <2>1
<1>2. CASE x = r
  <2>1. req'[x] = q /\ remote'[x] = n
    BY <1>2 DEF IInv, TypeInv, TypeOK
  <2>2. p.kind # "update"
    BY <1>2, <2>1
  <2>3. p.kind = "install" => q.kind = "install"
    OBVIOUS
  <2>4. \A k \in OpKinds : /\ m[k] \in {"success", "flagged"} => n[k] \in {"success", "flagged"}
                           /\ m[k] = "failed" => n[k] = "failed"
    OBVIOUS
  <2>5. /\ state[c] = "FAILURE" /\ p.op = "none" /\ p.pc \in CutShort
        => q.op = "none" /\ q.pc \in CutShort
    BY <1>2
  <2> HIDE DEF p, m
  <2>6. Earned(p, m, state[c]) => Earned(q, n, state[c])
    BY <2>3, <2>4, <2>5, EarnedKeeps
  <2> QED  BY <1>2, <2>1, <2>2, <2>6 DEF p, m
<1> QED  BY <1>1, <1>2

LEMMA OneQuiet ==
    ASSUME IInv, StatesAreEarned, NEW r \in Requests, NEW q,
           req' = [req EXCEPT ![r] = q], UNCHANGED <<state, remote, writer>>,
           q.kind = req[r].kind \/ req[r].kind = "none", req[r].pc \notin CutShort
    PROVE  StatesAreEarned'
<1>1. remote' = [remote EXCEPT ![r] = remote[r]]
  BY DEF IInv, TypeInv, TypeOK
<1>2. StillEarned
  BY <1>1, OneStill
<1> QED  BY <1>2, EarnedStill

LEMMA KilledEarned ==
    ASSUME IInv, StatesAreEarned, req' = Killed, UNCHANGED <<state, remote, writer>>
    PROVE  StatesAreEarned'
<1>1. ASSUME NEW x \in Requests, NEW s, Earned(req[x], remote[x], s), req'[x] # req[x]
      PROVE  req'[x].kind = req[x].kind /\ Earned(req'[x], remote'[x], s)
  <2> DEFINE p == req[x]
             q == Abandon(p, "dead")
             m == remote[x]
  <2>1. /\ q.pc = "dead" /\ q.op = p.op /\ q.kind = p.kind
    BY AbandonKeeps, PartsKept DEF IInv, TypeInv, TypeOK
  <2>2. req'[x] = q /\ remote'[x] = m
    BY <1>1 DEF Killed
  <2> HIDE DEF q
  <2>3. Earned(q, m, s)
    BY <1>1, <2>1 DEF Earned
  <2> QED  BY <2>1, <2>2, <2>3
<1>2. \A x \in Requests : req'[x].kind = req[x].kind
  BY AbandonKeeps, PartsKept DEF Killed, IInv, TypeInv, TypeOK
<1>3. StillEarned
  BY <1>1, <1>2 DEF StillEarned
<1> QED  BY <1>3, EarnedStill

LEMMA UpdateSMEarned ==
    ASSUME IInv, RInv, StatesAreEarned, NEW r \in Requests, UpdateSM(r) PROVE StatesAreEarned'
<1> DEFINE p == req[r]
           m == remote[r]
<1>1. p \in ReqType /\ p.pc = "updateSM" /\ Records(p, m)
  BY DEF UpdateSM, IInv, TypeInv, TypeOK, RInv
<1>2. PICK q \in {GoTo(p, "updateBus"), Abandon(p, OnUpdateError(p))} :
          /\ req' = [req EXCEPT ![r] = q]
          /\ \/ /\ Present(p.cluster)
                /\ state' = [state EXCEPT ![p.cluster] = p.newState]
                /\ writer' = [writer EXCEPT ![p.cluster] = r]
             \/ UNCHANGED <<state, writer>>
  BY DEF UpdateSM
<1>3. /\ q.op = p.op /\ q.kind = p.kind
      /\ q.pc \in CutShort \/ p.op = "uninstall"
  BY <1>1, <1>2, GoToKeeps, AbandonKeeps, PartsKept DEF OnUpdateError, CutShort
<1>4. remote' = [remote EXCEPT ![r] = m] /\ UNCHANGED remote
  BY DEF UpdateSM, IInv, TypeInv, TypeOK
<1>5. StillEarned
  BY <1>2, <1>3, <1>4, OneStill
<1>6. q.kind # "update" => Earned(q, m, p.newState)
  <2>1. q.kind # "update" => Earned(p, m, p.newState)
    BY <1>1, <1>3 DEF Records
  <2> HIDE DEF p, m
  <2> QED  BY <1>3, <2>1 DEF Earned, CutShort
<1>7. req'[r] = q /\ remote'[r] = m
  BY <1>2, <1>4 DEF IInv, TypeInv, TypeOK
<1>8. CASE Present(p.cluster) /\ state' = [state EXCEPT ![p.cluster] = p.newState]
           /\ writer' = [writer EXCEPT ![p.cluster] = r]
  BY <1>5, <1>6, <1>7, <1>8, EarnedWritten DEF Present
<1>9. CASE UNCHANGED <<state, writer>>
  BY <1>5, <1>9, EarnedStill
<1> QED  BY <1>2, <1>8, <1>9

LEMMA UpdateBusEarned ==
    ASSUME IInv, RInv, StatesAreEarned, NEW r \in Requests, UpdateBus(r) PROVE StatesAreEarned'
<1> DEFINE p == req[r]
           m == remote[r]
<1>1. p \in ReqType /\ p.pc = "updateBus" /\ Records(p, m)
  BY DEF UpdateBus, IInv, TypeInv, TypeOK, RInv
<1>2. PICK q \in {GoTo(p, OnUpdated(p)), Abandon(p, OnUpdateError(p))} :
          req' = [req EXCEPT ![r] = q]
  BY DEF UpdateBus
<1>3. q.op = p.op /\ q.kind = p.kind
  BY <1>1, <1>2, GoToKeeps, AbandonKeeps, PartsKept
<1>4. p.op = "none" /\ p.newState = "FAILURE" => q.pc = "done"
  BY <1>1, <1>2, GoToKeeps, AbandonKeeps DEF OnUpdated, OnUpdateError
<1>5. ASSUME p.op = "none", NEW c \in Clusters, writer[c] = r
      PROVE  state[c] = p.newState
  <2>1. ~p.dropped
    BY <1>1, <1>5 DEF Records, Over
  <2>2. p.cluster = c
    BY <1>5, <2>1 DEF IInv, WriterNamesCluster
  <2> QED  BY <1>1, <1>5, <2>2 DEF IInv, BusAnnouncesState
<1>6. \/ p.op # "none"
      \/ q.op = "none" /\ q.pc \in CutShort
      \/ \A c \in Clusters : writer[c] = r => state[c] # "FAILURE"
  <2>1. CASE p.newState = "FAILURE"
    BY <1>3, <1>4, <2>1 DEF CutShort
  <2>2. CASE p.newState # "FAILURE"
    BY <1>5, <2>2
  <2> QED  BY <2>1, <2>2
<1>7. remote' = [remote EXCEPT ![r] = m]
  BY DEF UpdateBus, IInv, TypeInv, TypeOK
<1>8. StillEarned
  BY <1>2, <1>3, <1>6, <1>7, OneStill
<1> QED  BY <1>8, EarnedStill DEF UpdateBus

LEMMA AddClusterEarned ==
    ASSUME IInv, StatesAreEarned, NEW r \in Requests, AddCluster(r) PROVE StatesAreEarned'
<1> DEFINE p == req[r]
           m == remote[r]
<1>1. p \in ReqType /\ p.pc \notin CutShort
  BY DEF AddCluster, IInv, TypeInv, TypeOK, CutShort
<1>2. remote' = [remote EXCEPT ![r] = m] /\ UNCHANGED remote
  BY DEF AddCluster, IInv, TypeInv, TypeOK
<1>3. \A q, n : Earned(q, n, "added")
  BY DEF Earned
<1>4. PICK q : /\ q.kind = p.kind
               /\ req' = [req EXCEPT ![r] = q]
               /\ \/ UNCHANGED <<state, writer>>
                  \/ \E c \in Clusters : /\ state' = [state EXCEPT ![c] = "added"]
                                         /\ writer' = [writer EXCEPT ![c] = r]
  <2>1. /\ GoTo(p, "done").kind = p.kind /\ Abandon(p, "done").kind = p.kind
        /\ \A c : [Write(p, AddedAs(p.kind)) EXCEPT !.cluster = c].kind = p.kind
    BY <1>1 DEF GoTo, Abandon, Write, ReqType
  <2> HIDE DEF p
  <2>2. \E q : /\ \/ q = GoTo(p, "done") \/ q = Abandon(p, "done")
                  \/ \E c : q = [Write(p, AddedAs(p.kind)) EXCEPT !.cluster = c]
               /\ req' = [req EXCEPT ![r] = q]
               /\ \/ UNCHANGED <<state, writer>>
                  \/ \E c \in Clusters : /\ state' = [state EXCEPT ![c] = "added"]
                                         /\ writer' = [writer EXCEPT ![c] = r]
    BY DEF AddCluster, p
  <2> QED  BY <2>1, <2>2
<1>5. StillEarned
  BY <1>1, <1>2, <1>4, OneStill
<1> QED  BY <1>2, <1>3, <1>4, <1>5, EarnedStill, EarnedWritten

LEMMA ForgetEarned ==
    ASSUME IInv, StatesAreEarned, NEW r \in Requests, Forget(r) PROVE StatesAreEarned'
<1> DEFINE p == req[r]
           q == GoTo(p, "done")
<1>1. p \in ReqType /\ p.pc \notin CutShort /\ q.kind = p.kind
  BY PartsKept DEF Forget, IInv, TypeInv, TypeOK, CutShort
<1>2. req' = [req EXCEPT ![r] = q] /\ remote' = [remote EXCEPT ![r] = remote[r]]
  BY DEF Forget, IInv, TypeInv, TypeOK
<1>3. StillEarned
  BY <1>1, <1>2, OneStill
<1>4. \A x, n : Earned(x, n, "removed")
  BY DEF Earned
<1>5. \/ UNCHANGED <<state, writer>>
      \/ \E c \in Clusters : /\ state' = [state EXCEPT ![c] = "removed"]
                             /\ writer' = [writer EXCEPT ![c] = r]
  BY DEF Forget, Present
<1> QED  BY <1>3, <1>4, <1>5, EarnedStill, EarnedWritten

LEMMA CallEarned ==
    ASSUME IInv, OInv, RInv, StatesAreEarned, NEW r \in Requests, Call(r)
    PROVE  StatesAreEarned'
<1> DEFINE p == req[r]
           m == remote[r]
           run == [m EXCEPT ![p.pc] = "running"]
<1>1. p \in ReqType /\ p.pc \in OpKinds /\ p.pc \notin CutShort /\ m[p.pc] = "none"
  BY CallsFirst DEF Call, IInv, TypeInv, TypeOK, CutShort, OpKinds
<1>2. \A k \in OpKinds : run[k] = m[k] \/ m[k] = "none"
  BY <1>1 DEF IInv, TypeInv, TypeOK
<1>3. \/ remote' = [remote EXCEPT ![r] = m]
      \/ remote' = [remote EXCEPT ![r] = run]
  BY DEF Call, IInv, TypeInv, TypeOK
<1>4. PICK q : q.kind = p.kind /\ req' = [req EXCEPT ![r] = q]
  <2>1. /\ [GoTo(p, "watch") EXCEPT !.op = p.pc].kind = p.kind
        /\ OnCallError(p).kind = p.kind
    BY <1>1, PartsKept DEF OnCallError, GoTo, ReqType
  <2> QED  BY <2>1 DEF Call
<1> HIDE DEF run
<1>5. ASSUME NEW n \in {m, run}, remote' = [remote EXCEPT ![r] = n] PROVE StillEarned
  BY <1>1, <1>2, <1>4, <1>5, OneStill
<1>6. StillEarned
  BY <1>3, <1>5
<1> QED  BY <1>6, EarnedStill DEF Call

\* The steps that write nothing and do not follow a failed call.
LEMMA QuietEarned ==
    ASSUME IInv, RInv, StatesAreEarned, NEW r \in Requests,
           \/ Receive(r) \/ Discover(r) \/ Describe(r) \/ Ready(r) \/ Check(r)
           \/ MonitorNotifies(r) \/ MonitorLosesContact(r)
    PROVE  StatesAreEarned'
<1> DEFINE p == req[r]
<1>1. p \in ReqType /\ p.pc \notin CutShort
  BY DEF Receive, Discover, Describe, Ready, Check, MonitorNotifies, MonitorLosesContact,
         IInv, TypeInv, TypeOK, CutShort
<1>2. UNCHANGED <<state, remote, writer>>
  BY DEF Receive, Discover, Describe, Ready, Check, MonitorNotifies, MonitorLosesContact
<1>3. CASE req' = Killed
  BY <1>2, <1>3, KilledEarned
<1>4. ASSUME NEW q, req' = [req EXCEPT ![r] = q],
             \E l : q \in {GoTo(p, l), Abandon(p, l), Write(p, l)}
      PROVE  StatesAreEarned'
  BY <1>1, <1>2, <1>4, PartsKept, OneQuiet
<1>5. CASE Receive(r)
  <2>1. p.kind = "none" /\ \E q : req' = [req EXCEPT ![r] = q]
    BY <1>5 DEF Receive, RInv, Records
  <2> QED  BY <1>1, <1>2, <2>1, OneQuiet
<1>6. CASE Discover(r) \/ Describe(r) \/ MonitorLosesContact(r)
  <2>1. \/ req' = Killed
        \/ \E l : req' = [req EXCEPT ![r] = GoTo(p, l)] \/ req' = [req EXCEPT ![r] = Abandon(p, l)]
    BY <1>6 DEF Discover, Describe, MonitorLosesContact
  <2> QED  BY <1>3, <1>4, <2>1
<1>7. CASE Ready(r) \/ Check(r)
  <2>1. \E l : req' = [req EXCEPT ![r] = GoTo(p, l)] \/ req' = [req EXCEPT ![r] = Write(p, l)]
    BY <1>7 DEF Ready, Check
  <2> QED  BY <1>4, <2>1
<1>8. CASE MonitorNotifies(r)
  <2>1. CASE req' = [req EXCEPT ![r] = [GoTo(p, "forget") EXCEPT !.heard = TRUE]]
    <3> DEFINE q == [GoTo(p, "forget") EXCEPT !.heard = TRUE]
    <3>1. q.kind = p.kind
      BY <1>1 DEF GoTo, ReqType
    <3> QED  BY <1>1, <1>2, <2>1, <3>1, OneQuiet
  <2>2. \/ req' = [req EXCEPT ![r] = [GoTo(p, "forget") EXCEPT !.heard = TRUE]]
        \/ \E l : req' = [req EXCEPT ![r] = Write(p, l)]
    BY <1>8 DEF MonitorNotifies, OnResponse
  <2> QED  BY <1>4, <2>1, <2>2
<1> QED  BY <1>5, <1>6, <1>7, <1>8

LEMMA RemoteFinishesEarned ==
    ASSUME IInv, StatesAreEarned, NEW r \in Requests, RemoteFinishes(r) PROVE StatesAreEarned'
<1> DEFINE p == req[r]
           m == remote[r]
<1>1. PICK k \in OpKinds, v \in Verdicts :
          m[k] = "running" /\ remote' = [remote EXCEPT ![r] = [m EXCEPT ![k] = v]]
  BY DEF RemoteFinishes
<1> DEFINE n == [m EXCEPT ![k] = v]
<1>2. req' = [req EXCEPT ![r] = p]
  BY DEF RemoteFinishes, IInv, TypeInv, TypeOK
<1>3. \A x \in OpKinds : n[x] = m[x] \/ m[x] = "running"
  BY <1>1 DEF IInv, TypeInv, TypeOK
<1>4. p.op # "none" \/ p.pc \notin CutShort \/ (p.op = "none" /\ p.pc \in CutShort)
  OBVIOUS
<1> HIDE DEF n
<1>5. StillEarned
  BY <1>1, <1>2, <1>3, <1>4, OneStill DEF n
<1> QED  BY <1>5, EarnedStill DEF RemoteFinishes

LEMMA NextEarned == IInv /\ OInv /\ RInv /\ StatesAreEarned /\ [Next]_vars => StatesAreEarned'
<1> SUFFICES ASSUME IInv, OInv, RInv, StatesAreEarned, [Next]_vars PROVE StatesAreEarned'
  OBVIOUS
<1>1. ASSUME NEW r \in Requests, Receive(r) \/ Step(r) \/ MonitorLosesContact(r)
      PROVE  StatesAreEarned'
  BY <1>1, UpdateSMEarned, UpdateBusEarned, AddClusterEarned, CallEarned, ForgetEarned,
     QuietEarned DEF Step
<1>2. ASSUME NEW r \in Requests, RemoteFinishes(r) PROVE StatesAreEarned'
  BY <1>2, RemoteFinishesEarned
<1>3. CASE Restart
  BY <1>3, KilledEarned DEF Restart
<1>4. CASE UNCHANGED vars
  BY <1>4 DEF vars, StatesAreEarned, Earned
<1> QED  BY <1>1, <1>2, <1>3, <1>4 DEF Next, Waiting

\* Whatever a request has written last of a cluster at rest, it was told by the
\* component that did the work: INSTALLED by an install or a scale that succeeded,
\* FAILURE by one that failed, or by a call that started nothing.
THEOREM RestIsEarned == Spec => []StatesAreEarned
<1>1. Init => StatesAreEarned
  <2>1. Init => \A c \in Clusters : writer[c] = None
    BY DEF Init
  <2> QED  BY <2>1, NoneAssumption DEF StatesAreEarned
<1>2. IInv /\ OInv /\ RInv /\ StatesAreEarned /\ [Next]_vars => StatesAreEarned'
  BY NextEarned
<1> QED  BY <1>1, <1>2, RecordsInductive, PTL DEF Spec

\* No request calls twice for an operation, not even after a reply was lost.
THEOREM NeverStartedAgain == Spec => StartedOnce
<1> DEFINE Once == \A r \in Requests : \A p \in OpKinds :
               remote[r][p] \notin {"none", "running"} => remote'[r][p] = remote[r][p]
<1>1. ASSUME IInv, OInv, RInv, [Next]_vars PROVE Once
  <2>1. ASSUME NEW r \in Requests, Call(r) PROVE Once
    <3>1. remote[r][req[r].pc] = "none"
      BY <2>1, <1>1, CallsFirst DEF Call
    <3>2. \/ UNCHANGED remote
          \/ remote' = [remote EXCEPT ![r] = [@ EXCEPT ![req[r].pc] = "running"]]
      BY <2>1 DEF Call
    <3> QED  BY <1>1, <3>1, <3>2 DEF IInv, TypeInv, TypeOK
  <2>2. ASSUME NEW r \in Requests, RemoteFinishes(r) PROVE Once
    BY <1>1, <2>2 DEF RemoteFinishes, IInv, TypeInv, TypeOK
  <2>3. CASE UNCHANGED remote
    BY <2>3
  <2> QED  BY <1>1, <2>1, <2>2, <2>3 DEF Next, Step, Receive, UpdateSM, UpdateBus, Discover,
              AddCluster, Describe, Ready, Check, MonitorNotifies, MonitorLosesContact, Forget,
              Restart, Waiting, vars
<1> QED  BY <1>1, RecordsInductive, PTL DEF Spec, StartedOnce
=============================================================================
