------------------------ MODULE ClusterSerialProofs ------------------------
(***************************************************************************)
(* What holds when callers wait for one operation on a cluster before they *)
(* ask for the next, for every set of clusters and requests and every      *)
(* fault: the bus follows the System Model, and the clusters live the life *)
(* of ClusterLifecycle.                                                    *)
(***************************************************************************)
EXTENDS ClusterOrderProofs

USE NoneAssumption, KindsAssumption, UserStatesAssumption

-----------------------------------------------------------------------------
\* The inductive invariant. Callers that wait make every cluster the business of
\* one request at a time, which is why the state it finds is the state it expects.

OneAtWork ==
    \A r, x \in Requests :
        /\ Live(req[r]) /\ Live(req[x])
        /\ req[r].cluster \in Clusters /\ req[r].cluster = req[x].cluster
        => r = x

NamesKnown ==
    \A r \in Requests : req[r].cluster \in Clusters => state[req[r].cluster] # "unknown"

\* The operation a request starts or watches.
Operation(q) == IF q.pc = "watch" THEN q.op ELSE q.pc

\* A request at work on a cluster in state s.
Shows(q, s) ==
    /\ q.pc = "watch" => q.op \in OpKinds
    /\ q.pc = "describe" \/ Operation(q) = "provision" => s = "PROVISIONING"
    /\ Operation(q) = "install" => s = "INSTALL_IN_PROGRESS"
    /\ Operation(q) = "scale" => s = "SCALING"
    /\ Operation(q) = "uninstall" => s = "UNINSTALLING"
    /\ Operation(q) = "decommission" \/ q.pc = "forget"
       => s \in {"UNINSTALLING", "PROVISIONED", "FAILURE"}
    /\ q.pc = "updateSM" /\ q.kind # "update"
       => q.newState = s \/ q.newState \in Lifecycle!Successors(s)
    /\ q.pc = "updateBus" => q.newState = s
    /\ q.op = "uninstall" /\ q.pc \in {"updateSM", "updateBus"}
       => q.newState \in {"PROVISIONED", "FAILURE"}
    /\ q.op = "uninstall" /\ q.pc = "updateSM" => s = "UNINSTALLING"

StateShows ==
    \A r \in Requests :
        Live(req[r]) /\ req[r].cluster \in Clusters => Shows(req[r], state[req[r].cluster])

SInv == OneAtWork /\ NamesKnown /\ StateShows

-----------------------------------------------------------------------------
\* The parts of a step.

\* Request r becomes q, still at work on its cluster or done with it, and touches
\* no other cluster.
WorksAlone(r, q) ==
    /\ req' = [req EXCEPT ![r] = q]
    /\ Live(req[r])
    /\ q.cluster = req[r].cluster
    /\ \A c \in Clusters : c # q.cluster => state'[c] = state[c]
    /\ q.cluster \in Clusters => state'[q.cluster] # "unknown"
    /\ Live(q) /\ q.cluster \in Clusters => Shows(q, state'[q.cluster])

LEMMA AloneSerial ==
    ASSUME IInv, SInv, NEW r \in Requests, NEW q, WorksAlone(r, q) PROVE SInv'
<1>1. /\ req'[r] = q
      /\ \A x \in Requests : x # r => req'[x] = req[x]
  BY DEF WorksAlone, IInv, TypeInv, TypeOK
<1>2. ASSUME NEW x \in Requests, x # r, Live(req[x]), req[x].cluster \in Clusters
      PROVE  state'[req[x].cluster] = state[req[x].cluster]
  BY <1>2 DEF SInv, OneAtWork, WorksAlone
<1>3. OneAtWork'
  BY <1>1 DEF SInv, OneAtWork, WorksAlone, Live
<1>4. NamesKnown'
  BY <1>1 DEF SInv, NamesKnown, WorksAlone
<1>5. StateShows'
  <2> SUFFICES ASSUME NEW x \in Requests, Live(req'[x]), req'[x].cluster \in Clusters
               PROVE  Shows(req'[x], state'[req'[x].cluster])
    BY DEF StateShows, Live, Shows, Operation
  <2>1. CASE x = r
    BY <1>1, <2>1 DEF WorksAlone
  <2>2. CASE x # r
    BY <1>1, <1>2, <2>2 DEF SInv, StateShows
  <2> QED  BY <2>1, <2>2
<1> QED  BY <1>3, <1>4, <1>5 DEF SInv

LEMMA KilledSerial == ASSUME IInv, SInv, req' = Killed, UNCHANGED state PROVE SInv'
<1>1. ASSUME NEW x \in Requests
      PROVE  ~Live(req'[x]) /\ req'[x].cluster = req[x].cluster
  BY AbandonKeeps DEF Killed, Live, IInv, TypeInv, TypeOK
<1>2. OneAtWork' /\ StateShows'
  BY <1>1 DEF OneAtWork, StateShows, Live
<1>3. NamesKnown'
  BY <1>1 DEF SInv, NamesKnown
<1> QED  BY <1>2, <1>3 DEF SInv

\* A label at which a request expects nothing of its cluster.
LEMMA ShowsNothing ==
    ASSUME NEW q, NEW s, q.pc \in {"idle", "discover", "add", "check", "ready", "done", "dead"}
    PROVE  Shows(q, s)
BY DEF Shows, Operation, OpKinds

LEMMA Follows ==
    /\ \A s \in {"PROVISIONING", "PROVISIONED"} : s \in Lifecycle!Successors("added")
    /\ \A s \in {"PROVISIONED", "FAILURE"} :
          /\ s \in Lifecycle!Successors("PROVISIONING")
          /\ s \in Lifecycle!Successors("UNINSTALLING")
    /\ \A s \in {"INSTALLED", "FAILURE"} :
          /\ s \in Lifecycle!Successors("INSTALL_IN_PROGRESS")
          /\ s \in Lifecycle!Successors("SCALING")
    /\ "INSTALL_IN_PROGRESS" \in Lifecycle!Successors("PROVISIONED")
    /\ "SCALING" \in Lifecycle!Successors("INSTALLED")
    /\ \A s \in {"UNINSTALLING", "PROVISIONED", "FAILURE"} :
          "removed" \in Lifecycle!Successors(s)
    /\ \A s \in ClusterStates \ Absent :
          s = "UNINSTALLING" \/ "UNINSTALLING" \in Lifecycle!Successors(s)
BY DEF Lifecycle!Successors, ClusterStates, Absent, Written

LEMMA QuietSerial ==
    ASSUME IInv, SInv, NEW r \in Requests, NEW q, req' = [req EXCEPT ![r] = q],
           UNCHANGED state, Live(req[r]), q.cluster = req[r].cluster,
           q.cluster \in Clusters => Shows(q, state[q.cluster])
    PROVE  SInv'
<1>1. WorksAlone(r, q)
  BY DEF WorksAlone, SInv, NamesKnown
<1> QED  BY <1>1, AloneSerial

\* What a request at work knows of its cluster.
LEMMA Known ==
    ASSUME IInv, SInv, NEW r \in Requests, Live(req[r]), req[r].cluster \in Clusters
    PROVE  /\ Shows(req[r], state[req[r].cluster])
           /\ state[req[r].cluster] \in ClusterStates \ {"unknown"}
BY DEF SInv, StateShows, NamesKnown, IInv, TypeInv, TypeOK

-----------------------------------------------------------------------------
\* Every action preserves the invariant.

LEMMA ReceiveSerial ==
    ASSUME IInv, SInv, OInv, Overlap = FALSE, NEW r \in Requests, Receive(r)
    PROVE  SInv'
<1> DEFINE p == req[r]
<1>1. p \in ReqType /\ p.pc = "idle" /\ p.op = "none" /\ ~Live(p)
  BY DEF Receive, Live, IInv, TypeInv, TypeOK, OInv, Ordered, Places
<1>2. PICK q \in Arrivals(p) : req' = [req EXCEPT ![r] = q]
  BY DEF Receive
<1>3. \/ q.cluster = None
      \/ /\ q.cluster \in Clusters /\ CanName(q.cluster)
         /\ q.pc = "check" \/ (q.pc = "updateSM" /\ q.kind = "update" /\ q.op = "none")
  <2>1. ASSUME NEW w \in ReqType, NEW k, NEW c, q = As(w, k, c)
        PROVE  q.op = w.op /\ q.pc = w.pc /\ q.cluster = c /\ q.kind = k
    BY <2>1 DEF As, ReqType
  <2>2. /\ \A l \in {"add", "discover", "check"} :
              GoTo(p, l) \in ReqType /\ GoTo(p, l).pc = l
        /\ \A s \in Written :
              /\ Write(p, s) \in ReqType /\ Write(p, s).pc = "updateSM"
              /\ Write(p, s).op = "none"
    <3> HIDE DEF p
    <3>1. \A l \in {"add", "discover", "check"} : l \in Labels
      BY LabelsUsed
    <3>2. \A l \in {"add", "discover", "check"} :
              GoTo(p, l) \in ReqType /\ GoTo(p, l).pc = l
      BY <1>1, <3>1, GoToType
    <3>3. \A s \in Written : Write(p, s) \in ReqType /\ Write(p, s).pc = "updateSM"
      BY <1>1, WriteType
    <3>4. \A s \in Written : Write(p, s).op = "none"
      BY <1>1, WriteKeeps
    <3> QED  BY <3>2, <3>3, <3>4
  <2>3. \/ \E k : q = As(GoTo(p, "add"), k, None)
        \/ \E k : q = As(GoTo(p, "discover"), k, None)
        \/ \E k : \E c \in Clusters : CanName(c) /\ q = As(GoTo(p, "check"), k, c)
        \/ \E s \in Written : \E c \in Clusters : CanName(c) /\ q = As(Write(p, s), "update", c)
    <3>1. \/ \E k \in Kinds \cap {"provision"} : q = As(GoTo(p, "add"), k, None)
          \/ \E k \in Kinds \cap {"install"} : q = As(GoTo(p, "discover"), k, None)
          \/ \E k \in Kinds \cap {"scale", "uninstall", "decommission"},
                c \in {d \in Clusters : CanName(d)} : q = As(GoTo(p, "check"), k, c)
          \/ \E k \in Kinds \cap {"update"},
                c \in {d \in Clusters : CanName(d)}, s \in UserStates :
                q = As(Write(p, s), k, c)
      <4> HIDE DEF p
      <4> QED  BY <1>2 DEF Arrivals
    <3> HIDE DEF p
    <3> QED  BY <3>1
  <2>4. ASSUME NEW k, NEW l \in {"add", "discover"}, q = As(GoTo(p, l), k, None)
        PROVE  q.cluster = None
    BY <2>1, <2>2, <2>4
  <2>5. ASSUME NEW k, NEW c \in Clusters, CanName(c), q = As(GoTo(p, "check"), k, c)
        PROVE  q.cluster \in Clusters /\ CanName(q.cluster) /\ q.pc = "check"
    BY <2>1, <2>2, <2>5
  <2>6. ASSUME NEW s \in Written, NEW c \in Clusters, CanName(c),
               q = As(Write(p, s), "update", c)
        PROVE  /\ q.cluster \in Clusters /\ CanName(q.cluster)
               /\ q.pc = "updateSM" /\ q.kind = "update" /\ q.op = "none"
    BY <2>1, <2>2, <2>6
  <2> QED  BY <2>3, <2>4, <2>5, <2>6
<1>4. /\ req'[r] = q /\ UNCHANGED state
      /\ \A x \in Requests : x # r => req'[x] = req[x]
  BY <1>2 DEF Receive, IInv, TypeInv, TypeOK
<1>5. OneAtWork'
  BY <1>3, <1>4 DEF SInv, OneAtWork, Live, CanName
<1>6. NamesKnown'
  BY <1>3, <1>4 DEF SInv, NamesKnown, CanName
<1>7. StateShows'
  <2> SUFFICES ASSUME NEW x \in Requests, Live(req'[x]), req'[x].cluster \in Clusters
               PROVE  Shows(req'[x], state'[req'[x].cluster])
    BY DEF StateShows, Live, Shows, Operation
  <2>1. CASE x = r
    <3>1. Shows(q, state[q.cluster])
      BY <1>3, <1>4, <2>1 DEF Shows, Operation, OpKinds
    <3> QED  BY <1>4, <2>1, <3>1
  <2>2. CASE x # r
    BY <1>4, <2>2 DEF SInv, StateShows
  <2> QED  BY <2>1, <2>2
<1> QED  BY <1>5, <1>6, <1>7 DEF SInv

LEMMA UpdateSMSerial ==
    ASSUME IInv, SInv, OInv, NEW r \in Requests, UpdateSM(r) PROVE SInv'
<1> DEFINE p == req[r]
           e == Abandon(p, OnUpdateError(p))
           g == GoTo(p, "updateBus")
<1>1. p \in ReqType /\ p.pc = "updateSM" /\ Live(p) /\ p.newState \in Written
  BY DEF UpdateSM, Live, IInv, TypeInv, TypeOK, Requested, HasState
<1>2. /\ e.pc \in {"decommission", "done"}
      /\ e.pc = "decommission" => p.op = "uninstall"
      /\ e.cluster = p.cluster
  BY <1>1, AbandonKeeps DEF OnUpdateError
<1>3. /\ g.pc = "updateBus" /\ g.cluster = p.cluster
      /\ g.newState = p.newState /\ g.op = p.op
  BY <1>1, GoToKeeps
<1> HIDE DEF e, g
<1>4. CASE req' = [req EXCEPT ![r] = e] /\ UNCHANGED state
  <2>1. ASSUME e.cluster \in Clusters PROVE Shows(e, state[e.cluster])
    BY <1>1, <1>2, <2>1, Known DEF Shows, Operation, OpKinds
  <2> QED  BY <1>1, <1>2, <1>4, <2>1, QuietSerial
<1>5. ASSUME NEW q \in {e, g}, req' = [req EXCEPT ![r] = q], p.cluster \in Clusters,
             state' = [state EXCEPT ![p.cluster] = p.newState]
      PROVE  SInv'
  <2>1. /\ state'[p.cluster] = p.newState
        /\ \A c \in Clusters : c # p.cluster => state'[c] = state[c]
    BY <1>5 DEF IInv, TypeInv, TypeOK
  <2>2. p.op = "uninstall" => p.newState \in {"PROVISIONED", "FAILURE"}
    BY <1>1, <1>5, Known DEF Shows
  <2>3. Shows(e, p.newState) /\ Shows(g, p.newState)
    BY <1>2, <1>3, <2>2 DEF Shows, Operation, OpKinds
  <2>4. WorksAlone(r, q)
    BY <1>1, <1>2, <1>3, <1>5, <2>1, <2>3 DEF WorksAlone, Written
  <2> QED  BY <2>4, AloneSerial
<1> QED  BY <1>4, <1>5 DEF UpdateSM, Present, e, g

LEMMA UpdateBusSerial ==
    ASSUME IInv, SInv, OInv, NEW r \in Requests, UpdateBus(r) PROVE SInv'
<1> DEFINE p == req[r]
<1>1. p \in ReqType /\ p.pc = "updateBus" /\ Live(p)
  BY DEF UpdateBus, Live, IInv, TypeInv, TypeOK
<1>2. PICK q \in {GoTo(p, OnUpdated(p)), Abandon(p, OnUpdateError(p))} :
          req' = [req EXCEPT ![r] = q]
  BY DEF UpdateBus
<1>3. q.cluster = p.cluster /\ q.pc \in {OnUpdated(p), OnUpdateError(p)}
  BY <1>1, <1>2, GoToKeeps, AbandonKeeps
<1>4. ASSUME q.cluster \in Clusters
      PROVE  Shows(q, state[q.cluster])
  <2>1. /\ p.newState = state[q.cluster]
        /\ p.op = "uninstall" => p.newState \in {"PROVISIONED", "FAILURE"}
    BY <1>1, <1>3, <1>4, Known DEF Shows
  <2>2. q.pc \notin {"watch", "forget", "updateSM", "updateBus"}
    BY <1>3 DEF OnUpdated, OnUpdateError
  <2>3. /\ q.pc = "describe" => p.newState = "PROVISIONING"
        /\ q.pc = "install" => p.newState = "INSTALL_IN_PROGRESS"
        /\ q.pc = "scale" => p.newState = "SCALING"
        /\ q.pc = "uninstall" => p.newState = "UNINSTALLING"
        /\ q.pc = "decommission" => p.op = "uninstall"
        /\ q.pc # "provision"
    BY <1>3 DEF OnUpdated, OnUpdateError
  <2> QED  BY <2>1, <2>2, <2>3 DEF Shows, Operation
<1>5. UNCHANGED state
  BY DEF UpdateBus
<1> QED  BY <1>1, <1>2, <1>3, <1>4, <1>5, QuietSerial

LEMMA DiscoverSerial ==
    ASSUME IInv, SInv, OInv, NEW r \in Requests, Discover(r) PROVE SInv'
<1> DEFINE p == req[r]
<1>1. p \in ReqType /\ p.pc = "discover" /\ Live(p) /\ UNCHANGED state
  BY DEF Discover, Live, IInv, TypeInv, TypeOK
<1>2. CASE req' = Killed
  BY <1>1, <1>2, KilledSerial
<1>3. ASSUME NEW l \in {"done", "add", "ready"}, req' = [req EXCEPT ![r] = GoTo(p, l)]
      PROVE  SInv'
  <2> DEFINE q == GoTo(p, l)
  <2>1. q.pc = l /\ q.cluster = p.cluster
    BY <1>1, GoToKeeps
  <2>2. req' = [req EXCEPT ![r] = q]
    BY <1>3
  <2> HIDE DEF q
  <2>3. Shows(q, state[q.cluster])
    BY <2>1, ShowsNothing
  <2> QED  BY <1>1, <2>1, <2>2, <2>3, QuietSerial
<1>4. req' = Killed \/ \E l \in {"done", "add", "ready"} : req' = [req EXCEPT ![r] = GoTo(p, l)]
  BY DEF Discover
<1> QED  BY <1>2, <1>3, <1>4

\* A cluster is created: nobody else names it.
LEMMA AddClusterSerial ==
    ASSUME IInv, SInv, OInv, NEW r \in Requests, AddCluster(r) PROVE SInv'
<1> DEFINE p == req[r]
<1>1. p \in ReqType /\ p.pc = "add" /\ Live(p) /\ p.op = "none" /\ p.cluster = None
  BY DEF AddCluster, Live, IInv, TypeInv, TypeOK, Requested, NamesNoCluster,
         OInv, Ordered, Places
<1>2. ASSUME NEW c \in Clusters, state[c] = "unknown", state' = [state EXCEPT ![c] = "added"],
             NEW q, req' = [req EXCEPT ![r] = q],
             \/ q.cluster = None
             \/ q.cluster = c /\ Shows(q, "added")
      PROVE  SInv'
  <2>1. /\ state'[c] = "added" /\ req'[r] = q
        /\ \A d \in Clusters \ {c} : state'[d] = state[d]
        /\ \A x \in Requests \ {r} : req'[x] = req[x]
    BY <1>2 DEF IInv, TypeInv, TypeOK
  <2>2. \A x \in Requests : req[x].cluster \in Clusters => req[x].cluster # c
    BY <1>2 DEF SInv, NamesKnown
  <2>3. q.cluster \in Clusters => q.cluster = c /\ Shows(q, "added")
    BY <1>2, NoneAssumption
  <2>4. OneAtWork'
    BY <2>1, <2>2, <2>3 DEF SInv, OneAtWork
  <2>5. NamesKnown'
    BY <2>1, <2>2, <2>3 DEF SInv, NamesKnown
  <2>6. StateShows'
    <3> SUFFICES ASSUME NEW x \in Requests, Live(req'[x]), req'[x].cluster \in Clusters
                 PROVE  Shows(req'[x], state'[req'[x].cluster])
      BY DEF StateShows, Live, Shows, Operation
    <3>1. CASE x = r
      BY <2>1, <2>3, <3>1
    <3>2. CASE x # r
      BY <2>1, <2>2, <3>2 DEF SInv, StateShows
    <3> QED  BY <3>1, <3>2
  <2> QED  BY <2>4, <2>5, <2>6 DEF SInv
<1>3. ASSUME NEW c \in Clusters, state[c] = "unknown", state' = [state EXCEPT ![c] = "added"],
             req' = [req EXCEPT ![r] = [Write(p, AddedAs(p.kind)) EXCEPT !.cluster = c]]
      PROVE  SInv'
  <2> DEFINE w == Write(p, AddedAs(p.kind))
             q == [w EXCEPT !.cluster = c]
  <2>1. /\ w \in ReqType /\ w.pc = "updateSM" /\ w.op = "none"
        /\ w.newState \in {"PROVISIONING", "PROVISIONED"}
    <3>1. AddedAs(p.kind) \in Written /\ AddedAs(p.kind) \in {"PROVISIONING", "PROVISIONED"}
      BY DEF AddedAs, Written
    <3> QED  BY <1>1, <3>1, WriteKeeps, WriteType
  <2> HIDE DEF w
  <2>2. /\ q.pc = "updateSM" /\ q.op = "none" /\ q.cluster = c
        /\ q.newState \in {"PROVISIONING", "PROVISIONED"}
    BY <2>1 DEF ReqType
  <2> HIDE DEF q
  <2>3. Shows(q, "added")
    BY <2>2, Follows DEF Shows, Operation, OpKinds
  <2>4. req' = [req EXCEPT ![r] = q]
    BY <1>3 DEF q, w
  <2> QED  BY <1>2, <1>3, <2>2, <2>3, <2>4
<1>4. ASSUME NEW c \in Clusters, state[c] = "unknown", state' = [state EXCEPT ![c] = "added"],
             req' = [req EXCEPT ![r] = Abandon(p, "done")]
      PROVE  SInv'
  <2> DEFINE q == Abandon(p, "done")
  <2>1. q.cluster = None
    BY <1>1, AbandonKeeps
  <2>2. req' = [req EXCEPT ![r] = q]
    BY <1>4
  <2> HIDE DEF q
  <2> QED  BY <1>2, <1>4, <2>1, <2>2
<1>5. CASE req' = [req EXCEPT ![r] = GoTo(p, "done")] /\ UNCHANGED state
  <2>1. GoTo(p, "done").cluster = None
    BY <1>1, GoToKeeps
  <2> QED  BY <1>1, <1>5, <2>1, QuietSerial, NoneAssumption
<1>6. \/ \E c \in Clusters :
            /\ state[c] = "unknown" /\ state' = [state EXCEPT ![c] = "added"]
            /\ \/ req' = [req EXCEPT ![r] = [Write(p, AddedAs(p.kind)) EXCEPT !.cluster = c]]
               \/ req' = [req EXCEPT ![r] = Abandon(p, "done")]
      \/ req' = [req EXCEPT ![r] = GoTo(p, "done")] /\ UNCHANGED state
  BY DEF AddCluster
<1> QED  BY <1>3, <1>4, <1>5, <1>6

LEMMA DescribeSerial ==
    ASSUME IInv, SInv, OInv, NEW r \in Requests, Describe(r) PROVE SInv'
<1> DEFINE p == req[r]
<1>1. p \in ReqType /\ p.pc = "describe" /\ Live(p) /\ UNCHANGED state
  BY DEF Describe, Live, IInv, TypeInv, TypeOK
<1>2. PICK q \in {GoTo(p, "provision"), Abandon(p, "done")} : req' = [req EXCEPT ![r] = q]
  BY DEF Describe
<1>3. q.cluster = p.cluster /\ q.pc \in {"provision", "done"}
  BY <1>1, <1>2, GoToKeeps, AbandonKeeps
<1>4. q.cluster \in Clusters => Shows(q, state[q.cluster])
  BY <1>1, <1>3, Known DEF Shows, Operation, OpKinds
<1> QED  BY <1>1, <1>2, <1>3, <1>4, QuietSerial

\* The checks before a state is announced: the state found leads to the one announced.
LEMMA CheckedSerial ==
    ASSUME IInv, SInv, NEW r \in Requests, Live(req[r]), UNCHANGED state,
           \/ \E s \in Written :
                 /\ req' = [req EXCEPT ![r] = Write(req[r], s)]
                 /\ req[r].op # "uninstall"
                 /\ Present(req[r].cluster)
                 /\ \/ s = state[req[r].cluster]
                    \/ s \in Lifecycle!Successors(state[req[r].cluster])
           \/ req' = [req EXCEPT ![r] = GoTo(req[r], "done")]
    PROVE  SInv'
<1> DEFINE p == req[r]
<1>1. p \in ReqType
  BY DEF IInv, TypeInv, TypeOK
<1>2. CASE req' = [req EXCEPT ![r] = GoTo(p, "done")]
  <2>1. GoTo(p, "done").pc = "done" /\ GoTo(p, "done").cluster = p.cluster
    BY <1>1, GoToKeeps
  <2>2. Shows(GoTo(p, "done"), state[p.cluster])
    BY <2>1, ShowsNothing
  <2> QED  BY <1>2, <2>1, <2>2, QuietSerial
<1>3. ASSUME NEW s \in Written, req' = [req EXCEPT ![r] = Write(p, s)],
             p.op # "uninstall",
             s = state[p.cluster] \/ s \in Lifecycle!Successors(state[p.cluster])
      PROVE  SInv'
  <2> DEFINE q == Write(p, s)
  <2>1. q.pc = "updateSM" /\ q.newState = s /\ q.op = p.op /\ q.cluster = p.cluster
    BY <1>1, WriteKeeps
  <2>2. req' = [req EXCEPT ![r] = q]
    BY <1>3
  <2> HIDE DEF q
  <2>3. Shows(q, state[q.cluster])
    BY <1>3, <2>1 DEF Shows, Operation, OpKinds
  <2> QED  BY <2>1, <2>2, <2>3, QuietSerial
<1> QED  BY <1>2, <1>3

LEMMA ReadySerial ==
    ASSUME IInv, SInv, OInv, NEW r \in Requests, Ready(r) PROVE SInv'
<1> DEFINE p == req[r]
<1>1. Live(p) /\ p.op # "uninstall" /\ UNCHANGED state
  BY DEF Ready, Live, OInv, Ordered, Places
<1>2. "INSTALL_IN_PROGRESS" \in Written
  BY DEF Written
<1>3. \/ /\ req' = [req EXCEPT ![r] = Write(p, "INSTALL_IN_PROGRESS")]
         /\ Present(p.cluster) /\ state[p.cluster] = "PROVISIONED"
      \/ req' = [req EXCEPT ![r] = GoTo(p, "done")]
  BY DEF Ready
<1> QED  BY <1>1, <1>2, <1>3, CheckedSerial, Follows

LEMMA CheckSerial ==
    ASSUME IInv, SInv, OInv, NEW r \in Requests, Check(r) PROVE SInv'
<1> DEFINE p == req[r]
<1>1. Live(p) /\ p.op # "uninstall" /\ UNCHANGED state
  BY DEF Check, Live, OInv, Ordered, Places
<1>2. "SCALING" \in Written /\ "UNINSTALLING" \in Written
  BY DEF Written
<1>3. \/ /\ req' = [req EXCEPT ![r] = Write(p, "SCALING")]
         /\ Present(p.cluster) /\ state[p.cluster] = "INSTALLED"
      \/ /\ req' = [req EXCEPT ![r] = Write(p, "UNINSTALLING")]
         /\ Present(p.cluster)
      \/ req' = [req EXCEPT ![r] = GoTo(p, "done")]
  BY DEF Check
<1>4. Present(p.cluster) => state[p.cluster] \in ClusterStates \ Absent
  BY DEF Present, IInv, TypeInv, TypeOK
<1> QED  BY <1>1, <1>2, <1>3, <1>4, CheckedSerial, Follows

\* The call that starts an operation: its state has been written, and one that is
\* not accepted is followed by a failure where the code records it.
LEMMA CallSerial ==
    ASSUME IInv, SInv, OInv, NEW r \in Requests, Call(r) PROVE SInv'
<1> DEFINE p == req[r]
<1>1. p \in ReqType /\ p.pc \in OpKinds /\ Live(p) /\ UNCHANGED state
  BY DEF Call, Live, OpKinds, IInv, TypeInv, TypeOK
<1>2. p.pc \in {"scale", "uninstall"} => p.op = "none"
  BY DEF OInv, Ordered, Places
<1>3. ASSUME p.cluster \in Clusters PROVE Shows(p, state[p.cluster])
  BY <1>1, <1>3, Known
<1>4. CASE req' = [req EXCEPT ![r] = [GoTo(p, "watch") EXCEPT !.op = p.pc]]
  <2> DEFINE w == GoTo(p, "watch")
             q == [w EXCEPT !.op = p.pc]
  <2>1. w \in ReqType /\ w.pc = "watch" /\ w.cluster = p.cluster
    BY <1>1, GoToType, LabelsUsed
  <2> HIDE DEF w
  <2>2. q.pc = "watch" /\ q.op = p.pc /\ q.cluster = p.cluster
    BY <2>1 DEF ReqType
  <2>3. req' = [req EXCEPT ![r] = q]
    BY <1>4 DEF w
  <2> HIDE DEF q
  <2>4. q.cluster \in Clusters => Shows(q, state[q.cluster])
    BY <1>1, <1>3, <2>2 DEF Shows, Operation, OpKinds
  <2> QED  BY <1>1, <2>2, <2>3, <2>4, QuietSerial
<1>5. CASE req' = [req EXCEPT ![r] = OnCallError(p)]
  <2> DEFINE q == OnCallError(p)
  <2>1. /\ q.cluster = p.cluster /\ q.op = p.op
        /\ \/ q.pc = "done"
           \/ q.pc = "updateSM" /\ q.newState = "FAILURE" /\ p.pc \in {"scale", "uninstall"}
    BY <1>1, WriteKeeps, GoToKeeps DEF OnCallError
  <2>2. req' = [req EXCEPT ![r] = q]
    BY <1>5
  <2> HIDE DEF q
  <2>3. ASSUME q.cluster \in Clusters PROVE Shows(q, state[q.cluster])
    <3>1. CASE q.pc = "done"
      BY <3>1, ShowsNothing
    <3>2. CASE q.pc = "updateSM"
      <4>1. state[p.cluster] \in {"SCALING", "UNINSTALLING"}
        BY <1>3, <2>1, <2>3, <3>2 DEF Shows, Operation
      <4>2. "FAILURE" \in Lifecycle!Successors(state[p.cluster])
        BY <4>1, Follows
      <4> QED  BY <1>2, <2>1, <3>2, <4>2 DEF Shows, Operation, OpKinds
    <3> QED  BY <2>1, <3>1, <3>2
  <2> QED  BY <1>1, <2>1, <2>2, <2>3, QuietSerial
<1> QED  BY <1>4, <1>5 DEF Call

\* A callback finds the state its operation was started in, so the outcome follows it.
LEMMA MonitorNotifiesSerial ==
    ASSUME IInv, SInv, OInv, NEW r \in Requests, MonitorNotifies(r) PROVE SInv'
<1> DEFINE p == req[r]
           v == remote[r][p.op]
           q == OnResponse(p, v)
<1>1. p \in ReqType /\ p.pc = "watch" /\ Live(p) /\ UNCHANGED state
  BY DEF MonitorNotifies, Live, IInv, TypeInv, TypeOK
<1>2. req' = [req EXCEPT ![r] = q]
  BY DEF MonitorNotifies
<1>3. ASSUME p.cluster \in Clusters PROVE Shows(p, state[p.cluster])
  BY <1>1, <1>3, Known
<1>4. CASE p.op = "decommission"
  <2> DEFINE w == GoTo(p, "forget")
  <2>1. w \in ReqType /\ w.pc = "forget" /\ w.cluster = p.cluster /\ w.op = p.op
    BY <1>1, GoToType, LabelsUsed
  <2>2. q = [w EXCEPT !.heard = TRUE]
    BY <1>4 DEF OnResponse
  <2> HIDE DEF w, q
  <2>3. q.pc = "forget" /\ q.cluster = p.cluster /\ q.op = "decommission"
    BY <1>4, <2>1, <2>2 DEF ReqType
  <2>4. q.cluster \in Clusters => Shows(q, state[q.cluster])
    BY <1>1, <1>3, <1>4, <2>3 DEF Shows, Operation, OpKinds
  <2> QED  BY <1>1, <1>2, <2>3, <2>4, QuietSerial
<1>5. CASE p.op # "decommission"
  <2>1. /\ q.pc = "updateSM" /\ q.op = p.op /\ q.cluster = p.cluster
        /\ q.newState = OutcomeState(p.op, v)
    BY <1>1, <1>5, WriteKeeps DEF OnResponse
  <2> HIDE DEF q, v
  <2>2. ASSUME q.cluster \in Clusters PROVE Shows(q, state[q.cluster])
    <3> DEFINE s == state[p.cluster]
    <3>1. /\ p.op \in {"provision", "install", "scale", "uninstall"}
          /\ p.op = "provision" => s = "PROVISIONING"
          /\ p.op = "install" => s = "INSTALL_IN_PROGRESS"
          /\ p.op = "scale" => s = "SCALING"
          /\ p.op = "uninstall" => s = "UNINSTALLING"
      BY <1>1, <1>3, <1>5, <2>1, <2>2 DEF Shows, Operation, OpKinds
    <3>2. /\ p.op \in {"install", "scale"} => q.newState \in {"INSTALLED", "FAILURE"}
          /\ p.op \in {"provision", "uninstall"} => q.newState \in {"PROVISIONED", "FAILURE"}
      BY <2>1 DEF OutcomeState
    <3>3. q.newState \in Lifecycle!Successors(s)
      BY <3>1, <3>2, Follows
    <3> HIDE DEF s
    <3>4. Shows(q, s)
      BY <2>1, <3>1, <3>2, <3>3 DEF Shows, Operation, OpKinds
    <3> QED  BY <2>1, <3>4 DEF s
  <2> QED  BY <1>1, <1>2, <2>1, <2>2, QuietSerial
<1> QED  BY <1>4, <1>5

LEMMA MonitorLosesContactSerial ==
    ASSUME IInv, SInv, OInv, NEW r \in Requests, MonitorLosesContact(r) PROVE SInv'
<1> DEFINE p == req[r]
<1>1. p \in ReqType /\ p.pc = "watch" /\ Live(p) /\ UNCHANGED state
  BY DEF MonitorLosesContact, Live, IInv, TypeInv, TypeOK
<1>2. CASE req' = Killed
  BY <1>1, <1>2, KilledSerial
<1>3. ASSUME NEW q, req' = [req EXCEPT ![r] = q],
             \/ p.op = "decommission" /\ q = GoTo(p, "forget")
             \/ q = Abandon(p, "done")
      PROVE  SInv'
  <2>1. /\ q.cluster = p.cluster /\ q.op = p.op
        /\ q.pc = "done" \/ (q.pc = "forget" /\ p.op = "decommission")
    BY <1>1, <1>3, GoToKeeps, AbandonKeeps
  <2>2. q.cluster \in Clusters => Shows(q, state[q.cluster])
    BY <1>1, <2>1, Known DEF Shows, Operation, OpKinds
  <2> QED  BY <1>1, <1>3, <2>1, <2>2, QuietSerial
<1> QED  BY <1>2, <1>3 DEF MonitorLosesContact

LEMMA ForgetSerial ==
    ASSUME IInv, SInv, OInv, NEW r \in Requests, Forget(r) PROVE SInv'
<1> DEFINE p == req[r]
           q == GoTo(p, "done")
<1>1. p \in ReqType /\ p.pc = "forget" /\ Live(p)
  BY DEF Forget, Live, IInv, TypeInv, TypeOK
<1>2. q.pc = "done" /\ q.cluster = p.cluster
  BY <1>1, GoToKeeps
<1>3. req' = [req EXCEPT ![r] = q]
  BY DEF Forget
<1> HIDE DEF q
<1>4. ~Live(q)
  BY <1>2 DEF Live
<1>5. CASE UNCHANGED state
  <2>1. Shows(q, state[q.cluster])
    BY <1>2, ShowsNothing
  <2> QED  BY <1>1, <1>2, <1>3, <1>5, <2>1, QuietSerial
<1>6. CASE p.cluster \in Clusters /\ state' = [state EXCEPT ![p.cluster] = "removed"]
  <2>1. /\ state'[p.cluster] = "removed"
        /\ \A c \in Clusters : c # p.cluster => state'[c] = state[c]
    BY <1>6 DEF IInv, TypeInv, TypeOK
  <2>2. WorksAlone(r, q)
    BY <1>1, <1>2, <1>3, <1>4, <2>1 DEF WorksAlone
  <2> QED  BY <2>2, AloneSerial
<1> QED  BY <1>5, <1>6 DEF Forget, Present

LEMMA InitSerial == Init => SInv
<1> SUFFICES ASSUME Init PROVE SInv
  OBVIOUS
<1>1. \A r \in Requests : req[r].pc = "idle" /\ req[r].cluster = None
  BY DEF Init
<1> QED  BY <1>1, NoneAssumption DEF SInv, OneAtWork, NamesKnown, StateShows, Live

LEMMA NextSerial ==
    ASSUME Overlap = FALSE PROVE IInv /\ OInv /\ SInv /\ [Next]_vars => SInv'
<1> SUFFICES ASSUME IInv, OInv, SInv, [Next]_vars PROVE SInv'
  OBVIOUS
<1>1. ASSUME NEW r \in Requests, Receive(r) PROVE SInv'
  BY <1>1, ReceiveSerial
<1>2. ASSUME NEW r \in Requests, Step(r) PROVE SInv'
  BY <1>2, UpdateSMSerial, UpdateBusSerial, DiscoverSerial, AddClusterSerial,
     DescribeSerial, ReadySerial, CheckSerial, CallSerial, MonitorNotifiesSerial,
     ForgetSerial DEF Step
<1>3. ASSUME NEW r \in Requests, MonitorLosesContact(r) PROVE SInv'
  BY <1>3, MonitorLosesContactSerial
<1>4. CASE Restart
  BY <1>4, KilledSerial DEF Restart
<1>5. CASE UNCHANGED <<state, req>>
  BY <1>5 DEF SInv, OneAtWork, NamesKnown, StateShows, Live, Shows, Operation
<1>6. ASSUME NEW r \in Requests, RemoteFinishes(r) PROVE SInv'
  BY <1>5, <1>6 DEF RemoteFinishes
<1> QED  BY <1>1, <1>2, <1>3, <1>4, <1>5, <1>6 DEF Next, Waiting, vars

LEMMA SerialInductive == ASSUME Overlap = FALSE PROVE Spec => [](IInv /\ OInv /\ SInv)
<1>1. Init => IInv /\ OInv /\ SInv
  BY InitIInv, InitOrdered, InitSerial
<1>2. IInv /\ OInv /\ SInv /\ [Next]_vars => (IInv /\ OInv /\ SInv)'
  BY NextIInv, NextOrdered, NextSerial
<1> QED  BY <1>1, <1>2, PTL DEF Spec

-----------------------------------------------------------------------------
\* What every step keeps of every request: it stays cut short once it is, and it
\* is of a kind callers ask for.

Kept ==
    \A x \in Requests : /\ req[x].dropped => req'[x].dropped
                        /\ req'[x].kind \in {req[x].kind} \cup Kinds

LEMMA OneKept ==
    ASSUME IInv, NEW r \in Requests, NEW q, req' = [req EXCEPT ![r] = q],
           req[r].dropped => q.dropped, q.kind \in {req[r].kind} \cup Kinds
    PROVE  Kept
BY DEF Kept, IInv, TypeInv, TypeOK

LEMMA KilledKept == ASSUME IInv, req' = Killed PROVE Kept
<1> SUFFICES ASSUME NEW x \in Requests
             PROVE  /\ req[x].dropped => req'[x].dropped
                    /\ req'[x].kind = req[x].kind
  BY DEF Kept
<1>1. req[x] \in ReqType /\ req'[x] \in {req[x], Abandon(req[x], "dead")}
  BY DEF Killed, IInv, TypeInv, TypeOK
<1> QED  BY <1>1, PartsKept

LEMMA ReceiveKept == ASSUME IInv, NEW r \in Requests, Receive(r) PROVE Kept
<1> DEFINE p == req[r]
<1>1. p \in ReqType
  BY DEF IInv, TypeInv, TypeOK
<1>2. PICK q \in Arrivals(p) : req' = [req EXCEPT ![r] = q]
  BY DEF Receive
<1>3. \E k \in Kinds : \E c, l :
          q = As(GoTo(p, l), k, c) \/ q = As(Write(p, l), k, c)
  <2> HIDE DEF p
  <2> QED  BY <1>2 DEF Arrivals
<1>4. ASSUME NEW k \in Kinds, NEW c, NEW l,
             q = As(GoTo(p, l), k, c) \/ q = As(Write(p, l), k, c)
      PROVE  q.dropped = p.dropped /\ q.kind = k
  BY <1>1, <1>4 DEF As, GoTo, Write, ReqType
<1> QED  BY <1>2, <1>3, <1>4, OneKept

LEMMA StepKept ==
    ASSUME IInv, NEW r \in Requests, Step(r) \/ MonitorLosesContact(r) PROVE Kept
<1> DEFINE p == req[r]
<1>1. p \in ReqType
  BY DEF IInv, TypeInv, TypeOK
<1>2. ASSUME NEW q, req' = [req EXCEPT ![r] = q],
             \E l : q \in {GoTo(p, l), Abandon(p, l), Write(p, l)}
      PROVE  Kept
  BY <1>1, <1>2, PartsKept, OneKept
<1>3. CASE req' = Killed
  BY <1>3, KilledKept
<1>4. CASE UpdateSM(r) \/ UpdateBus(r)
  <2>1. \E l : req' = [req EXCEPT ![r] = GoTo(p, l)] \/ req' = [req EXCEPT ![r] = Abandon(p, l)]
    BY <1>4 DEF UpdateSM, UpdateBus
  <2> QED  BY <1>2, <2>1
<1>5. CASE Discover(r) \/ Describe(r) \/ Forget(r) \/ MonitorLosesContact(r)
  <2>1. \/ req' = Killed
        \/ \E l : req' = [req EXCEPT ![r] = GoTo(p, l)] \/ req' = [req EXCEPT ![r] = Abandon(p, l)]
    BY <1>5 DEF Discover, Describe, Forget, MonitorLosesContact
  <2> QED  BY <1>2, <1>3, <2>1
<1>6. CASE Ready(r) \/ Check(r)
  <2>1. \E l : req' = [req EXCEPT ![r] = GoTo(p, l)] \/ req' = [req EXCEPT ![r] = Write(p, l)]
    BY <1>6 DEF Ready, Check
  <2> QED  BY <1>2, <2>1
<1>7. CASE AddCluster(r)
  <2>1. ASSUME NEW c, req' = [req EXCEPT ![r] = [Write(p, AddedAs(p.kind)) EXCEPT !.cluster = c]]
        PROVE  Kept
    <3> DEFINE q == [Write(p, AddedAs(p.kind)) EXCEPT !.cluster = c]
    <3>1. q.dropped = p.dropped /\ q.kind = p.kind
      BY <1>1 DEF Write, ReqType
    <3> QED  BY <2>1, <3>1, OneKept
  <2>2. \/ \E c : req' = [req EXCEPT ![r] = [Write(p, AddedAs(p.kind)) EXCEPT !.cluster = c]]
        \/ req' = [req EXCEPT ![r] = GoTo(p, "done")]
        \/ req' = [req EXCEPT ![r] = Abandon(p, "done")]
    BY <1>7 DEF AddCluster
  <2> QED  BY <1>2, <2>1, <2>2
<1>8. CASE Call(r)
  <2>1. CASE req' = [req EXCEPT ![r] = [GoTo(p, "watch") EXCEPT !.op = p.pc]]
    <3> DEFINE q == [GoTo(p, "watch") EXCEPT !.op = p.pc]
    <3>1. q.dropped = p.dropped /\ q.kind = p.kind
      BY <1>1 DEF GoTo, ReqType
    <3> QED  BY <2>1, <3>1, OneKept
  <2>2. \/ req' = [req EXCEPT ![r] = [GoTo(p, "watch") EXCEPT !.op = p.pc]]
        \/ req' = [req EXCEPT ![r] = Write(p, "FAILURE")]
        \/ req' = [req EXCEPT ![r] = GoTo(p, "done")]
    BY <1>8 DEF Call, OnCallError
  <2> QED  BY <1>2, <2>1, <2>2
<1>9. CASE MonitorNotifies(r)
  <2>1. CASE req' = [req EXCEPT ![r] = [GoTo(p, "forget") EXCEPT !.heard = TRUE]]
    <3> DEFINE q == [GoTo(p, "forget") EXCEPT !.heard = TRUE]
    <3>1. q.dropped = p.dropped /\ q.kind = p.kind
      BY <1>1 DEF GoTo, ReqType
    <3> QED  BY <2>1, <3>1, OneKept
  <2>2. \/ req' = [req EXCEPT ![r] = [GoTo(p, "forget") EXCEPT !.heard = TRUE]]
        \/ \E l : req' = [req EXCEPT ![r] = Write(p, l)]
    BY <1>9 DEF MonitorNotifies, OnResponse
  <2> QED  BY <1>2, <2>1, <2>2
<1> QED  BY <1>4, <1>5, <1>6, <1>7, <1>8, <1>9 DEF Step

LEMMA NextKept == IInv /\ [Next]_vars => Kept
<1> SUFFICES ASSUME IInv, [Next]_vars PROVE Kept
  OBVIOUS
<1>1. CASE UNCHANGED req
  BY <1>1 DEF Kept
<1>2. CASE Restart
  BY <1>2, KilledKept DEF Restart
<1>3. ASSUME NEW r \in Requests, RemoteFinishes(r) PROVE Kept
  BY <1>1, <1>3 DEF RemoteFinishes
<1>4. ASSUME NEW r \in Requests, Receive(r) \/ Step(r) \/ MonitorLosesContact(r) PROVE Kept
  BY <1>4, ReceiveKept, StepKept
<1> QED  BY <1>1, <1>2, <1>3, <1>4 DEF Next, Waiting, vars

-----------------------------------------------------------------------------
\* The bus follows the System Model.

Behind(q) == q.pc = "updateBus" \/ q.dropped

LEMMA StillBehind ==
    ASSUME EventsFollowModel, UNCHANGED <<state, event, writer>>,
           \A x \in Requests : Behind(req[x]) => Behind(req'[x])
    PROVE  EventsFollowModel'
BY DEF EventsFollowModel, Behind

\* A step of a request that does not write to the System Model nor to the bus.
LEMMA QuietEvents ==
    ASSUME IInv, EventsFollowModel, NEW r \in Requests, Kept,
           \/ Receive(r) \/ Discover(r) \/ Describe(r) \/ Ready(r) \/ Check(r)
           \/ Call(r) \/ MonitorNotifies(r) \/ MonitorLosesContact(r)
    PROVE  EventsFollowModel'
<1>1. req[r].pc # "updateBus" /\ UNCHANGED <<state, event, writer>>
  BY DEF Receive, Discover, Describe, Ready, Check, Call, MonitorNotifies,
         MonitorLosesContact, OpKinds
<1>2. ASSUME NEW x \in Requests, x # r PROVE req'[x] = req[x] \/ req' = Killed
  <2>1. req \in [Requests -> ReqType]
    BY DEF IInv, TypeInv, TypeOK
  <2>2. CASE Receive(r) \/ Ready(r) \/ Check(r) \/ Call(r)
    BY <1>2, <2>1, <2>2 DEF Receive, Ready, Check, Call
  <2>3. CASE Discover(r) \/ Describe(r) \/ MonitorNotifies(r) \/ MonitorLosesContact(r)
    BY <1>2, <2>1, <2>3 DEF Discover, Describe, MonitorNotifies, MonitorLosesContact
  <2> QED  BY <2>2, <2>3
<1>3. ASSUME NEW x \in Requests, req' = Killed, req[x].pc = "updateBus" PROVE req'[x].dropped
  <2>1. req[x] \in ReqType /\ req'[x] = Abandon(req[x], "dead")
    BY <1>3 DEF Killed, Live, IInv, TypeInv, TypeOK
  <2> QED  BY <2>1, PartsKept
<1>4. \A x \in Requests : Behind(req[x]) => Behind(req'[x])
  BY <1>1, <1>2, <1>3 DEF Behind, Kept
<1> QED  BY <1>1, <1>4, StillBehind

LEMMA KilledEvents ==
    ASSUME IInv, EventsFollowModel, req' = Killed, UNCHANGED <<state, event, writer>>
    PROVE  EventsFollowModel'
<1>1. ASSUME NEW x \in Requests, Behind(req[x]) PROVE Behind(req'[x])
  <2>1. /\ req[x] \in ReqType
        /\ req'[x] = Abandon(req[x], "dead") \/ (req'[x] = req[x] /\ ~Live(req[x]))
    BY DEF Killed, IInv, TypeInv, TypeOK
  <2> QED  BY <1>1, <2>1, PartsKept DEF Behind, Live
<1> QED  BY <1>1, StillBehind

\* Whoever writes a cluster goes on to announce it, or was cut short, or has
\* written something that is not announced.
LEMMA WritingEvents ==
    ASSUME IInv, EventsFollowModel, NEW r \in Requests, NEW c \in Clusters, NEW s,
           state' = [state EXCEPT ![c] = s], writer' = [writer EXCEPT ![c] = r],
           UNCHANGED event, req[r].pc # "updateBus", Kept,
           \A x \in Requests \ {r} : req'[x] = req[x],
           s \notin Written \/ Behind(req'[r])
    PROVE  EventsFollowModel'
<1>1. /\ state'[c] = s /\ writer'[c] = r
      /\ \A d \in Clusters \ {c} : state'[d] = state[d] /\ writer'[d] = writer[d]
  BY DEF IInv, TypeInv, TypeOK
<1>2. \A x \in Requests : Behind(req[x]) => Behind(req'[x])
  BY DEF Behind, Kept
<1> QED  BY <1>1, <1>2 DEF EventsFollowModel, Behind

LEMMA UpdateSMEvents ==
    ASSUME IInv, EventsFollowModel, NEW r \in Requests, Kept, UpdateSM(r)
    PROVE  EventsFollowModel'
<1> DEFINE p == req[r]
<1>1. p \in ReqType /\ p.pc = "updateSM" /\ UNCHANGED event
  BY DEF UpdateSM, IInv, TypeInv, TypeOK
<1>2. req' = [req EXCEPT ![r] = GoTo(p, "updateBus")]
      \/ req' = [req EXCEPT ![r] = Abandon(p, OnUpdateError(p))]
  BY DEF UpdateSM
<1>3. Behind(req'[r]) /\ \A x \in Requests \ {r} : req'[x] = req[x]
  <2>1. req'[r] \in {GoTo(p, "updateBus"), Abandon(p, OnUpdateError(p))}
        /\ \A x \in Requests \ {r} : req'[x] = req[x]
    BY <1>2 DEF IInv, TypeInv, TypeOK
  <2> QED  BY <1>1, <2>1, GoToKeeps, PartsKept DEF Behind
<1>4. CASE UNCHANGED <<state, writer>>
  BY <1>1, <1>3, <1>4, StillBehind
<1>5. CASE /\ p.cluster \in Clusters
           /\ state' = [state EXCEPT ![p.cluster] = p.newState]
           /\ writer' = [writer EXCEPT ![p.cluster] = r]
  BY <1>1, <1>3, <1>5, WritingEvents
<1> QED  BY <1>4, <1>5 DEF UpdateSM, Present

LEMMA AddClusterEvents ==
    ASSUME IInv, EventsFollowModel, NEW r \in Requests, Kept, AddCluster(r)
    PROVE  EventsFollowModel'
<1>1. /\ req[r].pc = "add" /\ UNCHANGED event
      /\ \A x \in Requests \ {r} : req'[x] = req[x]
  BY DEF AddCluster, IInv, TypeInv, TypeOK
<1>2. CASE UNCHANGED <<state, writer>>
  BY <1>1, <1>2, StillBehind DEF Behind, Kept
<1>3. ASSUME NEW c \in Clusters, state' = [state EXCEPT ![c] = "added"],
             writer' = [writer EXCEPT ![c] = r]
      PROVE  EventsFollowModel'
  BY <1>1, <1>3, WritingEvents DEF Written
<1> QED  BY <1>2, <1>3 DEF AddCluster

LEMMA ForgetEvents ==
    ASSUME IInv, EventsFollowModel, NEW r \in Requests, Kept, Forget(r)
    PROVE  EventsFollowModel'
<1>1. /\ req[r].pc = "forget" /\ UNCHANGED event
      /\ \A x \in Requests \ {r} : req'[x] = req[x]
  BY DEF Forget, IInv, TypeInv, TypeOK
<1>2. CASE UNCHANGED <<state, writer>>
  BY <1>1, <1>2, StillBehind DEF Behind, Kept
<1>3. CASE /\ req[r].cluster \in Clusters
           /\ state' = [state EXCEPT ![req[r].cluster] = "removed"]
           /\ writer' = [writer EXCEPT ![req[r].cluster] = r]
  BY <1>1, <1>3, WritingEvents DEF Written
<1> QED  BY <1>2, <1>3 DEF Forget, Present

\* The state announced is the one the System Model holds: callers that wait leave
\* nobody to write another one between the two updates.
LEMMA UpdateBusEvents ==
    ASSUME IInv, SInv, EventsFollowModel, NEW r \in Requests, Kept, UpdateBus(r)
    PROVE  EventsFollowModel'
<1> DEFINE p == req[r]
<1>1. /\ p \in ReqType /\ p.pc = "updateBus" /\ Live(p) /\ p.cluster \in Clusters
      /\ UNCHANGED <<state, writer>>
      /\ \A x \in Requests \ {r} : req'[x] = req[x]
  BY DEF UpdateBus, Live, IInv, TypeInv, TypeOK, BusAnnouncesState
<1>2. \A d \in Clusters \ {p.cluster} : event'[d] = event[d]
  BY DEF UpdateBus, IInv, TypeInv, TypeOK
<1>3. event'[p.cluster] = state[p.cluster] \/ (UNCHANGED event /\ req'[r].dropped)
  <2>1. p.newState = state[p.cluster]
    BY <1>1, Known DEF Shows
  <2>2. CASE event' = [event EXCEPT ![p.cluster] = p.newState]
    BY <1>1, <2>1, <2>2 DEF IInv, TypeInv, TypeOK
  <2>3. CASE UNCHANGED event /\ req' = [req EXCEPT ![r] = Abandon(p, OnUpdateError(p))]
    BY <1>1, <2>3, PartsKept DEF IInv, TypeInv, TypeOK
  <2> QED  BY <2>2, <2>3 DEF UpdateBus
<1> SUFFICES ASSUME NEW c \in Clusters, state[c] \in Written, event'[c] # state[c]
             PROVE  writer[c] \in Requests /\ Behind(req'[writer[c]])
  BY <1>1 DEF EventsFollowModel, Behind
<1>4. CASE c # p.cluster
  <2>1. writer[c] \in Requests /\ Behind(req[writer[c]])
    BY <1>2, <1>4 DEF EventsFollowModel, Behind
  <2>2. writer[c] = r => p.dropped
    BY <1>4, <2>1 DEF IInv, WriterNamesCluster
  <2> QED  BY <1>1, <2>1, <2>2 DEF Behind, Kept
<1>5. CASE c = p.cluster
  <2>1. UNCHANGED event /\ req'[r].dropped
    BY <1>3, <1>5
  <2>2. writer[c] \in Requests /\ Behind(req[writer[c]])
    BY <2>1 DEF EventsFollowModel, Behind
  <2> QED  BY <1>1, <2>1, <2>2 DEF Behind
<1> QED  BY <1>4, <1>5

LEMMA NextEvents ==
    IInv /\ SInv /\ EventsFollowModel /\ [Next]_vars => EventsFollowModel'
<1> SUFFICES ASSUME IInv, SInv, EventsFollowModel, [Next]_vars PROVE EventsFollowModel'
  OBVIOUS
<1>1. Kept
  BY NextKept
<1>2. ASSUME NEW r \in Requests, Receive(r) \/ Step(r) \/ MonitorLosesContact(r)
      PROVE  EventsFollowModel'
  BY <1>1, <1>2, QuietEvents, UpdateSMEvents, UpdateBusEvents, AddClusterEvents,
     ForgetEvents DEF Step
<1>3. CASE Restart
  BY <1>3, KilledEvents DEF Restart
<1>4. CASE UNCHANGED <<state, event, req, writer>>
  BY <1>4 DEF EventsFollowModel
<1>5. ASSUME NEW r \in Requests, RemoteFinishes(r) PROVE EventsFollowModel'
  BY <1>4, <1>5 DEF RemoteFinishes
<1> QED  BY <1>2, <1>3, <1>4, <1>5 DEF Next, Waiting, vars

\* When callers wait for each other on a cluster, what the bus last said of it is
\* what the System Model holds, whatever fails (updates by users included): the
\* only exception is the request about to send it, or one an error cut short.
THEOREM BusFollows == ASSUME Overlap = FALSE PROVE Spec => []EventsFollowModel
<1>1. Init => EventsFollowModel
  BY DEF Init, EventsFollowModel
<1>2. IInv /\ OInv /\ SInv /\ EventsFollowModel /\ [Next]_vars => EventsFollowModel'
  BY NextEvents
<1> QED  BY <1>1, <1>2, SerialInductive, PTL DEF Spec

-----------------------------------------------------------------------------
\* The clusters live the life of ClusterLifecycle.

NoUpdates == \A r \in Requests : req[r].kind # "update"

LEMMA NextNoUpdates ==
    ASSUME "update" \notin Kinds PROVE IInv /\ NoUpdates /\ [Next]_vars => NoUpdates'
BY NextKept DEF NoUpdates, Kept

LEMMA StepAdvances ==
    ASSUME IInv, OInv, SInv, NoUpdates, NEW r \in Requests, Step(r)
    PROVE  Lifecycle!Next \/ UNCHANGED state
<1> DEFINE p == req[r]
<1>1. ASSUME NEW c \in Clusters, NEW s, state' = [state EXCEPT ![c] = s],
             s = state[c] \/ s \in Lifecycle!Successors(state[c])
      PROVE  Lifecycle!Next \/ UNCHANGED state
  <2>1. CASE s = state[c]
    BY <1>1, <2>1 DEF IInv, TypeInv, TypeOK
  <2>2. CASE s \in Lifecycle!Successors(state[c])
    BY <1>1, <2>2 DEF Lifecycle!Next, Lifecycle!Advance
  <2> QED  BY <1>1, <2>1, <2>2
<1>2. CASE UpdateSM(r)
  <2>1. p.pc = "updateSM" /\ p.kind # "update" /\ Live(p)
    BY <1>2 DEF UpdateSM, NoUpdates, Live
  <2>2. CASE p.cluster \in Clusters /\ state' = [state EXCEPT ![p.cluster] = p.newState]
    <3>1. \/ p.newState = state[p.cluster]
          \/ p.newState \in Lifecycle!Successors(state[p.cluster])
      BY <2>1, <2>2, Known DEF Shows
    <3> QED  BY <1>1, <2>2, <3>1
  <2> QED  BY <1>2, <2>2 DEF UpdateSM, Present
<1>3. CASE AddCluster(r)
  <2>1. "added" \in Lifecycle!Successors("unknown")
    BY DEF Lifecycle!Successors
  <2>2. \/ UNCHANGED state
        \/ \E c \in Clusters : state[c] = "unknown" /\ state' = [state EXCEPT ![c] = "added"]
    BY <1>3 DEF AddCluster
  <2> QED  BY <1>1, <2>1, <2>2
<1>4. CASE Forget(r)
  <2>1. p.pc = "forget" /\ Live(p)
    BY <1>4 DEF Forget, Live
  <2>2. CASE p.cluster \in Clusters /\ state' = [state EXCEPT ![p.cluster] = "removed"]
    <3>1. state[p.cluster] \in {"UNINSTALLING", "PROVISIONED", "FAILURE"}
      BY <2>1, <2>2, Known DEF Shows
    <3>2. "removed" \in Lifecycle!Successors(state[p.cluster])
      BY <3>1, Follows
    <3> QED  BY <1>1, <2>2, <3>2
  <2> QED  BY <1>4, <2>2 DEF Forget, Present
<1>5. CASE UNCHANGED state
  BY <1>5
<1> QED  BY <1>2, <1>3, <1>4, <1>5
         DEF Step, UpdateBus, Discover, Describe, Ready, Check, Call, MonitorNotifies

LEMMA NextAdvances ==
    IInv /\ OInv /\ SInv /\ NoUpdates /\ [Next]_vars => [Lifecycle!Next]_state
<1> SUFFICES ASSUME IInv, OInv, SInv, NoUpdates, [Next]_vars
             PROVE  Lifecycle!Next \/ UNCHANGED state
  OBVIOUS
<1>1. ASSUME NEW r \in Requests,
             Receive(r) \/ Step(r) \/ MonitorLosesContact(r) \/ RemoteFinishes(r)
      PROVE  Lifecycle!Next \/ UNCHANGED state
  BY <1>1, StepAdvances DEF Receive, MonitorLosesContact, RemoteFinishes
<1> QED  BY <1>1 DEF Next, Restart, Waiting, vars

LEMMA LifeInductive ==
    ASSUME Overlap = FALSE, "update" \notin Kinds
    PROVE  Spec => [](IInv /\ OInv /\ SInv /\ NoUpdates)
<1>1. Init => NoUpdates
  BY DEF Init, NoUpdates
<1>2. IInv /\ OInv /\ SInv /\ NoUpdates /\ [Next]_vars => NoUpdates'
  BY NextNoUpdates
<1> QED  BY <1>1, <1>2, SerialInductive, PTL DEF Spec

\* When callers wait, and none of them writes a state of its own, every cluster
\* takes only the steps of ClusterLifecycle, whatever calls fail, lose their reply or
\* lose contact and whenever the process restarts: the manager implements it.
THEOREM LifecycleImplemented ==
    ASSUME Overlap = FALSE, "update" \notin Kinds PROVE Spec => ImplementsLifecycle
<1>1. Init => Lifecycle!Init
  BY DEF Init, Lifecycle!Init
<1>2. IInv /\ OInv /\ SInv /\ NoUpdates /\ [Next]_vars => [Lifecycle!Next]_state
  BY NextAdvances
<1> QED  BY <1>1, <1>2, LifeInductive, PTL DEF Spec, ImplementsLifecycle, Lifecycle!Spec
=============================================================================
