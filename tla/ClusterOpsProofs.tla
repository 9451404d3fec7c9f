-------------------------- MODULE ClusterOpsProofs --------------------------
(***************************************************************************)
(* What holds of the lifecycle operations for every set of clusters and    *)
(* requests, every fault, and whether or not callers overlap.              *)
(***************************************************************************)
EXTENDS ClusterOps, TLAPS

USE NoneAssumption, KindsAssumption, FaultsAssumption, VerdictsAssumption,
    UserStatesAssumption

-----------------------------------------------------------------------------
\* The inductive invariant. TypeOK alone is not inductive: a state is written
\* only when the request has set one. Ownership further needs that a request
\* writes the cluster it names, that what it announces is what it wrote, and that a
\* call starts the operation announced last.

HasState(q) ==
    /\ q.pc \in {"updateSM", "updateBus"} => q.newState \in Written
    /\ q.pc \in {"describe", "provision"} => q.newState = "PROVISIONING"
    /\ q.pc = "install" => q.newState = "INSTALL_IN_PROGRESS"

NamesNoCluster(q) ==
    q.pc \in {"idle", "add"} \/ (q.pc = "discover" /\ q.op # "provision")
        => q.cluster = None

Requested == \A r \in Requests : HasState(req[r]) /\ NamesNoCluster(req[r])

TypeInv == TypeOK /\ Requested

WriterNamesCluster ==
    \A c \in Clusters :
        writer[c] \in Requests =>
            req[writer[c]].dropped \/ req[writer[c]].cluster = c

BusAnnouncesState ==
    \A r \in Requests :
        req[r].pc = "updateBus" =>
            /\ req[r].cluster \in Clusters
            /\ writer[req[r].cluster] = r => state[req[r].cluster] = req[r].newState

IInv == TypeInv /\ WriterNamesCluster /\ BusAnnouncesState /\ InProgressHasOwner

-----------------------------------------------------------------------------
\* The parts a request's steps are built from.

LEMMA LabelsUsed ==
    /\ {"idle", "discover", "add", "describe", "check", "ready", "updateSM",
        "updateBus", "watch", "forget", "done", "dead"} \subseteq Labels
    /\ OpKinds \subseteq Labels
    /\ "provision" \in Labels
BY DEF Labels, OpKinds

LEMMA GoToType ==
    ASSUME NEW q \in ReqType, NEW l \in Labels
    PROVE  /\ GoTo(q, l) \in ReqType
           /\ GoTo(q, l).pc = l
           /\ GoTo(q, l).kind = q.kind
           /\ GoTo(q, l).cluster = q.cluster
           /\ GoTo(q, l).op = q.op
           /\ GoTo(q, l).newState = q.newState
           /\ GoTo(q, l).dropped = q.dropped
BY DEF GoTo, ReqType

LEMMA AbandonType ==
    ASSUME NEW q \in ReqType, NEW l \in Labels
    PROVE  /\ Abandon(q, l) \in ReqType
           /\ Abandon(q, l).pc = l
           /\ Abandon(q, l).kind = q.kind
           /\ Abandon(q, l).cluster = q.cluster
           /\ Abandon(q, l).dropped
BY DEF Abandon, ReqType

LEMMA WriteType ==
    ASSUME NEW q \in ReqType, NEW s \in Written
    PROVE  /\ Write(q, s) \in ReqType
           /\ Write(q, s).pc = "updateSM"
           /\ Write(q, s).newState = s
           /\ Write(q, s).kind = q.kind
           /\ Write(q, s).cluster = q.cluster
           /\ Write(q, s).dropped = q.dropped
BY LabelsUsed DEF Write, ReqType

LEMMA AsType ==
    ASSUME NEW q \in ReqType, NEW k \in AllKinds, NEW c \in Clusters \cup {None}
    PROVE  /\ As(q, k, c) \in ReqType
           /\ As(q, k, c).pc = q.pc
           /\ As(q, k, c).cluster = c
           /\ As(q, k, c).newState = q.newState
           /\ As(q, k, c).dropped = q.dropped
BY DEF As, ReqType

LEMMA NextLabelType ==
    ASSUME NEW q
    PROVE  /\ OnUpdated(q) \in Labels \ {"idle", "add", "updateSM", "updateBus"}
           /\ OnUpdateError(q) \in {"decommission", "done"}
           /\ OnUpdateError(q) \in Labels
BY DEF OnUpdated, OnUpdateError, Labels, OpKinds

LEMMA KilledType == TypeOK => Killed \in [Requests -> ReqType]
<1> SUFFICES ASSUME TypeOK PROVE \A r \in Requests :
                (IF Live(req[r]) THEN Abandon(req[r], "dead") ELSE req[r]) \in ReqType
  BY DEF Killed
<1> QED  BY AbandonType, LabelsUsed DEF TypeOK

LEMMA InitType == Init => TypeInv
<1> SUFFICES ASSUME Init PROVE TypeInv
  OBVIOUS
<1>1. TypeOK
  <2>1. req \in [Requests -> ReqType]
    BY LabelsUsed DEF Init, ReqType
  <2> QED  BY <2>1 DEF Init, TypeOK, ClusterStates, Absent, Written
<1>2. Requested
  BY DEF Init, Requested, HasState, NamesNoCluster
<1> QED  BY <1>1, <1>2 DEF TypeInv

\* What a step does to request r: it becomes q, and keeps its cluster and its
\* history.
Moves(r, q) ==
    /\ req' = [req EXCEPT ![r] = q]
    /\ q \in ReqType
    /\ HasState(q)
    /\ NamesNoCluster(q)
    /\ req[r].dropped => q.dropped
    /\ q.cluster = req[r].cluster \/ req[r].cluster = None

\* Either the System Model stays as it is, and a request that stops owing
\* anything is not the writer of a cluster shown in progress, ...
Quietly(r, q) ==
    /\ UNCHANGED <<state, writer>>
    /\ q.pc # "updateBus"
    /\ \A c \in Clusters :
          state[c] \in Transitional /\ writer[c] = r /\ Excused(req[r]) => Excused(q)

\* ... or the request writes state s of cluster c and answers for it.
Writing(r, q, c, s) ==
    /\ state' = [state EXCEPT ![c] = s]
    /\ writer' = [writer EXCEPT ![c] = r]
    /\ q.cluster = c \/ q.dropped
    /\ s \in Transitional => Excused(q)
    /\ q.pc = "updateBus" => q.cluster = c /\ q.newState = s

LEMMA MoveType ==
    ASSUME TypeInv, NEW r \in Requests, NEW q, Moves(r, q)
    PROVE  req' \in [Requests -> ReqType] /\ Requested'
BY DEF TypeInv, TypeOK, Requested, Moves, HasState, NamesNoCluster

LEMMA QuietStep ==
    ASSUME IInv, NEW r \in Requests, NEW q, Moves(r, q), Quietly(r, q)
    PROVE  WriterNamesCluster' /\ BusAnnouncesState' /\ InProgressHasOwner'
<1>1. /\ req'[r] = q
      /\ \A x \in Requests \ {r} : req'[x] = req[x]
      /\ state' = state /\ writer' = writer
  BY DEF Moves, Quietly, IInv, TypeInv, TypeOK
<1>2. WriterNamesCluster'
  BY <1>1 DEF IInv, WriterNamesCluster, Moves
<1>3. BusAnnouncesState'
  BY <1>1 DEF IInv, BusAnnouncesState, Quietly
<1>4. InProgressHasOwner'
  <2> SUFFICES ASSUME NEW c \in Clusters, state'[c] \in Transitional
               PROVE  writer'[c] \in Requests /\ Excused(req'[writer'[c]])
    BY DEF InProgressHasOwner, Excused, Owes, CallFailed
  <2>1. writer[c] \in Requests /\ Excused(req[writer[c]])
    BY <1>1 DEF IInv, InProgressHasOwner
  <2> QED  BY <1>1, <2>1 DEF Quietly
<1> QED  BY <1>2, <1>3, <1>4

LEMMA WritingStep ==
    ASSUME IInv, NEW r \in Requests, NEW q, NEW c \in Clusters, NEW s,
           Moves(r, q), Writing(r, q, c, s)
    PROVE  WriterNamesCluster' /\ BusAnnouncesState' /\ InProgressHasOwner'
<1>1. /\ req'[r] = q
      /\ \A x \in Requests \ {r} : req'[x] = req[x]
      /\ state'[c] = s /\ writer'[c] = r
      /\ \A d \in Clusters \ {c} : state'[d] = state[d] /\ writer'[d] = writer[d]
  BY DEF Moves, Writing, IInv, TypeInv, TypeOK
<1>2. WriterNamesCluster'
  BY <1>1 DEF IInv, WriterNamesCluster, Moves, Writing
<1>3. BusAnnouncesState'
  <2> SUFFICES ASSUME NEW x \in Requests, req'[x].pc = "updateBus"
               PROVE  /\ req'[x].cluster \in Clusters
                      /\ writer'[req'[x].cluster] = x
                            => state'[req'[x].cluster] = req'[x].newState
    BY DEF BusAnnouncesState
  <2>1. CASE x = r
    BY <1>1, <2>1 DEF Writing
  <2>2. CASE x # r
    BY <1>1, <2>2 DEF IInv, BusAnnouncesState
  <2> QED  BY <2>1, <2>2
<1>4. InProgressHasOwner'
  <2> SUFFICES ASSUME NEW d \in Clusters, state'[d] \in Transitional
               PROVE  writer'[d] \in Requests /\ Excused(req'[writer'[d]])
    BY DEF InProgressHasOwner, Excused, Owes, CallFailed
  <2>1. CASE d = c
    BY <1>1, <2>1 DEF Writing
  <2>2. CASE d # c
    <3>1. writer'[d] = writer[d] /\ writer[d] \in Requests /\ Excused(req[writer[d]])
      BY <1>1, <2>2 DEF IInv, InProgressHasOwner
    <3>2. CASE writer[d] = r
      <4>1. q.dropped
        BY <2>2, <3>1, <3>2 DEF IInv, WriterNamesCluster, Moves, Writing
      <4> QED  BY <1>1, <3>1, <3>2, <4>1 DEF Excused
    <3> QED  BY <1>1, <3>1, <3>2
  <2> QED  BY <2>1, <2>2
<1> QED  BY <1>2, <1>3, <1>4

\* When the process ends, whoever was at work is cut short.
LEMMA KilledStep ==
    ASSUME IInv, req' = Killed, UNCHANGED <<state, writer>>
    PROVE  /\ req' \in [Requests -> ReqType]
           /\ Requested'
           /\ WriterNamesCluster' /\ BusAnnouncesState' /\ InProgressHasOwner'
<1>1. ASSUME NEW r \in Requests
      PROVE  \/ req'[r] = req[r] /\ ~Live(req[r])
             \/ /\ Live(req[r])
                /\ req'[r].pc = "dead" /\ req'[r].dropped
                /\ req'[r].cluster = req[r].cluster
  BY AbandonType, LabelsUsed DEF Killed, IInv, TypeInv, TypeOK
<1>2. req' \in [Requests -> ReqType]
  BY KilledType DEF IInv, TypeInv
<1>3. Requested'
  BY <1>1 DEF IInv, TypeInv, Requested, HasState, NamesNoCluster
<1>4. WriterNamesCluster'
  BY <1>1 DEF IInv, WriterNamesCluster
<1>5. BusAnnouncesState'
  BY <1>1 DEF IInv, BusAnnouncesState
<1>6. InProgressHasOwner'
  <2> SUFFICES ASSUME NEW c \in Clusters, state'[c] \in Transitional
               PROVE  writer'[c] \in Requests /\ Excused(req'[writer'[c]])
    BY DEF InProgressHasOwner, Excused, Owes, CallFailed
  <2>1. writer'[c] = writer[c] /\ writer[c] \in Requests /\ Excused(req[writer[c]])
    BY DEF IInv, InProgressHasOwner
  <2> QED  BY <1>1, <2>1 DEF Excused
<1> QED  BY <1>2, <1>3, <1>4, <1>5, <1>6

RestTyped ==
    /\ event \in [Clusters -> ClusterStates]
    /\ remote \in [Requests -> [OpKinds -> {"none", "running"} \cup AllVerdicts]]

LEMMA QuietInv ==
    ASSUME IInv, NEW r \in Requests, NEW q, Moves(r, q), Quietly(r, q), RestTyped'
    PROVE  IInv'
BY MoveType, QuietStep DEF IInv, TypeInv, TypeOK, RestTyped, Quietly

LEMMA WritingInv ==
    ASSUME IInv, NEW r \in Requests, NEW q, NEW c \in Clusters, NEW s \in ClusterStates,
           Moves(r, q), Writing(r, q, c, s), RestTyped'
    PROVE  IInv'
<1>1. state' \in [Clusters -> ClusterStates] /\ writer' \in [Clusters -> Requests \cup {None}]
  BY DEF IInv, TypeInv, TypeOK, Writing
<1>2. req' \in [Requests -> ReqType] /\ Requested'
  BY MoveType DEF IInv
<1> QED  BY <1>1, <1>2, WritingStep DEF IInv, TypeInv, TypeOK, RestTyped

LEMMA KilledInv ==
    ASSUME IInv, req' = Killed, UNCHANGED <<state, event, remote, writer>>
    PROVE  IInv'
BY KilledStep DEF IInv, TypeInv, TypeOK

-----------------------------------------------------------------------------
\* Every action keeps the inductive invariant.

LEMMA ReceiveInv == ASSUME IInv, NEW r \in Requests, Receive(r) PROVE IInv'
<1> DEFINE p == req[r]
<1>1. p \in ReqType /\ p.pc = "idle" /\ p.cluster = None
  BY DEF Receive, IInv, TypeInv, TypeOK, Requested, NamesNoCluster
<1>2. PICK q \in Arrivals(p) : req' = [req EXCEPT ![r] = q]
  BY DEF Receive
<1>3. /\ q \in ReqType /\ q.dropped = p.dropped
      /\ HasState(q) /\ NamesNoCluster(q) /\ q.pc # "updateBus"
  <2>1. CASE \E k \in Kinds \cap {"provision"} : q = As(GoTo(p, "add"), k, None)
    <3>1. PICK k \in AllKinds : q = As(GoTo(p, "add"), k, None)
      BY <2>1
    <3>2. GoTo(p, "add") \in ReqType /\ GoTo(p, "add").pc = "add"
          /\ GoTo(p, "add").dropped = p.dropped
      BY <1>1, GoToType, LabelsUsed
    <3> QED  BY <3>1, <3>2, AsType DEF HasState, NamesNoCluster
  <2>2. CASE \E k \in Kinds \cap {"install"} : q = As(GoTo(p, "discover"), k, None)
    <3>1. PICK k \in AllKinds : q = As(GoTo(p, "discover"), k, None)
      BY <2>2
    <3>2. GoTo(p, "discover") \in ReqType /\ GoTo(p, "discover").pc = "discover"
          /\ GoTo(p, "discover").dropped = p.dropped
      BY <1>1, GoToType, LabelsUsed
    <3> QED  BY <3>1, <3>2, AsType DEF HasState, NamesNoCluster
  <2>3. CASE \E k \in Kinds \cap {"scale", "uninstall", "decommission"}, c \in Clusters :
                q = As(GoTo(p, "check"), k, c)
    <3>1. PICK k \in AllKinds, c \in Clusters : q = As(GoTo(p, "check"), k, c)
      BY <2>3
    <3>2. GoTo(p, "check") \in ReqType /\ GoTo(p, "check").pc = "check"
          /\ GoTo(p, "check").dropped = p.dropped
      BY <1>1, GoToType, LabelsUsed
    <3> QED  BY <3>1, <3>2, AsType DEF HasState, NamesNoCluster
  <2>4. CASE \E k \in Kinds \cap {"update"}, c \in Clusters, s \in UserStates :
                q = As(Write(p, s), k, c)
    <3>1. PICK k \in AllKinds, c \in Clusters, s \in Written : q = As(Write(p, s), k, c)
      BY <2>4
    <3>2. Write(p, s) \in ReqType /\ Write(p, s).pc = "updateSM"
          /\ Write(p, s).newState = s /\ Write(p, s).dropped = p.dropped
      BY <1>1, WriteType
    <3> QED  BY <3>1, <3>2, AsType DEF HasState, NamesNoCluster
  <2>5. \/ \E k \in Kinds \cap {"provision"} : q = As(GoTo(p, "add"), k, None)
        \/ \E k \in Kinds \cap {"install"} : q = As(GoTo(p, "discover"), k, None)
        \/ \E k \in Kinds \cap {"scale", "uninstall", "decommission"}, c \in Clusters :
              q = As(GoTo(p, "check"), k, c)
        \/ \E k \in Kinds \cap {"update"}, c \in Clusters, s \in UserStates :
              q = As(Write(p, s), k, c)
    <3> HIDE DEF p
    <3> QED  BY <1>2 DEF Arrivals
  <2> QED  BY <2>1, <2>2, <2>3, <2>4, <2>5
<1>4. Moves(r, q) /\ q.pc # "updateBus"
  BY <1>1, <1>2, <1>3 DEF Moves
<1>5. Quietly(r, q)
  BY <1>1, <1>4 DEF Receive, Moves, Quietly, Excused, Owes, CallFailed, IInv, WriterNamesCluster
<1>6. RestTyped'
  BY DEF Receive, RestTyped, IInv, TypeInv, TypeOK
<1> QED  BY <1>4, <1>5, <1>6, QuietInv

LEMMA UpdateSMInv == ASSUME IInv, NEW r \in Requests, UpdateSM(r) PROVE IInv'
<1> DEFINE p == req[r]
<1>1. p \in ReqType /\ p.pc = "updateSM" /\ p.newState \in Written
  BY DEF UpdateSM, IInv, TypeInv, TypeOK, Requested, HasState
<1>2. RestTyped'
  BY DEF UpdateSM, RestTyped, IInv, TypeInv, TypeOK
<1> DEFINE ko == Abandon(p, OnUpdateError(p))
<1>3. /\ ko \in ReqType /\ ko.dropped /\ ko.cluster = p.cluster
      /\ HasState(ko) /\ NamesNoCluster(ko) /\ ko.pc # "updateBus"
  BY <1>1, NextLabelType, AbandonType DEF HasState, NamesNoCluster
<1>4. CASE /\ req' = [req EXCEPT ![r] = ko] /\ UNCHANGED <<state, writer>>
  <2>1. Moves(r, ko) /\ Quietly(r, ko)
    BY <1>1, <1>3, <1>4 DEF Moves, Quietly, Excused
  <2> QED  BY <1>2, <2>1, QuietInv
<1>5. ASSUME Present(p.cluster),
             NEW q \in {GoTo(p, "updateBus"), ko}, req' = [req EXCEPT ![r] = q],
             state' = [state EXCEPT ![p.cluster] = p.newState],
             writer' = [writer EXCEPT ![p.cluster] = r]
      PROVE  IInv'
  <2>1. /\ q \in ReqType /\ HasState(q) /\ NamesNoCluster(q)
        /\ p.dropped => q.dropped
        /\ q.cluster = p.cluster
        /\ q.pc = "updateBus" => q.newState = p.newState
        /\ q.pc = "updateBus" \/ q.dropped
    <3>1. CASE q = GoTo(p, "updateBus")
      <4>1. /\ q \in ReqType /\ q.pc = "updateBus" /\ q.dropped = p.dropped
            /\ q.cluster = p.cluster /\ q.newState = p.newState
        BY <1>1, <3>1, GoToType, LabelsUsed
      <4> QED  BY <1>1, <4>1 DEF HasState, NamesNoCluster
    <3>2. CASE q = ko
      BY <1>3, <3>2
    <3> QED  BY <3>1, <3>2
  <2>2. Moves(r, q)
    BY <1>5, <2>1 DEF Moves
  <2>3. Writing(r, q, p.cluster, p.newState)
    BY <1>5, <2>1 DEF Writing, Excused, Owes, CallFailed
  <2>4. p.cluster \in Clusters /\ p.newState \in ClusterStates
    BY <1>1, <1>5 DEF Present, ClusterStates
  <2> QED  BY <1>2, <2>2, <2>3, <2>4, WritingInv
<1> QED  BY <1>4, <1>5 DEF UpdateSM

LEMMA UpdateBusInv == ASSUME IInv, NEW r \in Requests, UpdateBus(r) PROVE IInv'
<1> DEFINE p == req[r]
<1>1. /\ p \in ReqType /\ p.pc = "updateBus" /\ p.newState \in Written
      /\ p.cluster \in Clusters
      /\ writer[p.cluster] = r => state[p.cluster] = p.newState
  BY DEF UpdateBus, IInv, TypeInv, TypeOK, Requested, HasState, BusAnnouncesState
<1>2. RestTyped'
  BY <1>1 DEF UpdateBus, RestTyped, IInv, TypeInv, TypeOK, ClusterStates
<1>3. PICK q \in {GoTo(p, OnUpdated(p)), Abandon(p, OnUpdateError(p))} :
          req' = [req EXCEPT ![r] = q]
  BY DEF UpdateBus
<1>4. /\ q \in ReqType
      /\ p.dropped => q.dropped
      /\ q.cluster = p.cluster /\ q.kind = p.kind
      /\ q.pc \notin {"idle", "add", "updateSM", "updateBus"}
      /\ q.dropped \/ q.pc = OnUpdated(p)
      /\ q.pc = "discover" => q.op = "provision"
  <2>1. CASE q = GoTo(p, OnUpdated(p))
    <3>1. OnUpdated(p) = "discover" => p.op = "provision"
      BY DEF OnUpdated
    <3> QED  BY <1>1, <2>1, <3>1, NextLabelType, GoToType
  <2>2. CASE q = Abandon(p, OnUpdateError(p))
    BY <1>1, <2>2, NextLabelType, AbandonType
  <2> QED  BY <2>1, <2>2
<1>5. p.newState \in Transitional => p.kind = "update" \/ OnUpdated(p) \in
         {"describe", "install", "scale", "uninstall"}
  BY <1>1 DEF OnUpdated, Transitional, Written
<1>6. Moves(r, q)
  <2>1. HasState(q)
    <3>1. CASE q = GoTo(p, OnUpdated(p))
      <4>1. q.pc = OnUpdated(p) /\ q.newState = p.newState
        BY <1>1, <3>1, NextLabelType, GoToType
      <4> QED  BY <4>1, NextLabelType DEF HasState, OnUpdated
    <3>2. CASE q = Abandon(p, OnUpdateError(p))
      <4>1. q.pc \in {"decommission", "done"}
        BY <1>1, <3>2, NextLabelType, AbandonType
      <4> QED  BY <4>1 DEF HasState
    <3> QED  BY <3>1, <3>2
  <2> QED  BY <1>3, <1>4, <2>1 DEF Moves, NamesNoCluster
<1>7. ASSUME NEW c \in Clusters, state[c] \in Transitional, writer[c] = r
      PROVE  Excused(q)
  <2>1. p.dropped \/ p.cluster = c
    BY <1>7 DEF IInv, WriterNamesCluster
  <2>2. CASE p.dropped
    BY <1>4, <2>2 DEF Excused
  <2>3. CASE p.cluster = c
    BY <1>1, <1>4, <1>5, <1>7, <2>3 DEF Excused, Owes, CallFailed, OpKinds
  <2> QED  BY <2>1, <2>2, <2>3
<1>8. Quietly(r, q)
  BY <1>4, <1>7 DEF Quietly, UpdateBus
<1> QED  BY <1>2, <1>6, <1>8, QuietInv

LEMMA DiscoverInv == ASSUME IInv, NEW r \in Requests, Discover(r) PROVE IInv'
<1> DEFINE p == req[r]
<1>1. p \in ReqType /\ p.pc = "discover" /\ (p.op # "provision" => p.cluster = None)
  BY DEF Discover, IInv, TypeInv, TypeOK, Requested, NamesNoCluster
<1>2. CASE req' = Killed
  BY <1>2, KilledInv DEF Discover
<1>3. ASSUME NEW l \in {"done", "add", "ready"}, req' = [req EXCEPT ![r] = GoTo(p, l)],
             l = "add" => p.op # "provision"
      PROVE  IInv'
  <2> DEFINE q == GoTo(p, l)
  <2>1. l \in Labels
    BY LabelsUsed
  <2>2. /\ q \in ReqType /\ q.pc = l /\ q.kind = p.kind /\ q.op = p.op
        /\ q.cluster = p.cluster /\ q.dropped = p.dropped
    BY <1>1, <2>1, GoToType
  <2> HIDE DEF q
  <2>3. Moves(r, q)
    BY <1>1, <1>3, <2>2 DEF Moves, HasState, NamesNoCluster, q
  <2>4. Quietly(r, q)
    BY <1>1, <2>2 DEF Quietly, Discover, Excused, Owes, CallFailed, OpKinds
  <2>5. RestTyped'
    BY DEF Discover, RestTyped, IInv, TypeInv, TypeOK
  <2> QED  BY <2>3, <2>4, <2>5, QuietInv
<1>4. \/ req' = Killed
      \/ \E l \in {"done", "add", "ready"} :
            req' = [req EXCEPT ![r] = GoTo(p, l)] /\ (l = "add" => p.op # "provision")
  BY DEF Discover
<1> QED  BY <1>2, <1>3, <1>4

LEMMA AddedAsWritten == \A k : AddedAs(k) \in Written
BY DEF AddedAs, Written

LEMMA AddClusterInv == ASSUME IInv, NEW r \in Requests, AddCluster(r) PROVE IInv'
<1> DEFINE p == req[r]
<1>1. p \in ReqType /\ p.pc = "add" /\ p.cluster = None
  BY DEF AddCluster, IInv, TypeInv, TypeOK, Requested, NamesNoCluster
<1>2. RestTyped'
  BY DEF AddCluster, RestTyped, IInv, TypeInv, TypeOK
<1>3. CASE req' = [req EXCEPT ![r] = GoTo(p, "done")] /\ UNCHANGED <<state, writer>>
  <2> DEFINE q == GoTo(p, "done")
  <2>1. /\ q \in ReqType /\ q.pc = "done" /\ q.kind = p.kind
        /\ q.cluster = p.cluster /\ q.dropped = p.dropped
        /\ req' = [req EXCEPT ![r] = q]
    BY <1>1, <1>3, GoToType, LabelsUsed
  <2> HIDE DEF q
  <2>2. Moves(r, q)
    BY <1>1, <2>1 DEF Moves, HasState, NamesNoCluster
  <2>3. Quietly(r, q)
    BY <1>1, <1>3, <2>1 DEF Quietly, Excused, Owes, CallFailed, OpKinds
  <2> QED  BY <1>2, <2>2, <2>3, QuietInv
<1> DEFINE ok(c) == [Write(p, AddedAs(p.kind)) EXCEPT !.cluster = c]
<1>4. ASSUME NEW c \in Clusters, NEW q \in {ok(c), Abandon(p, "done")},
             req' = [req EXCEPT ![r] = q],
             state' = [state EXCEPT ![c] = "added"], writer' = [writer EXCEPT ![c] = r]
      PROVE  IInv'
  <2>1. CASE q = ok(c)
    <3>1. /\ q \in ReqType /\ q.pc = "updateSM" /\ q.newState = AddedAs(p.kind)
          /\ q.cluster = c /\ q.dropped = p.dropped
      <4>1. PICK w \in ReqType : /\ w = Write(p, AddedAs(p.kind))
                                /\ w.pc = "updateSM" /\ w.newState = AddedAs(p.kind)
                                /\ w.dropped = p.dropped
        BY <1>1, AddedAsWritten, WriteType
      <4>2. q = [w EXCEPT !.cluster = c]
        BY <2>1, <4>1
      <4> QED  BY <4>1, <4>2 DEF ReqType
    <3>2. Moves(r, q)
      BY <1>1, <1>4, <3>1, AddedAsWritten DEF Moves, HasState, NamesNoCluster
    <3>3. q.newState \notin {"INSTALL_IN_PROGRESS", "SCALING", "UNINSTALLING"}
      BY <3>1 DEF AddedAs
    <3>4. Writing(r, q, c, "added")
      BY <1>4, <3>1, <3>3 DEF Writing, Excused, Owes, CallFailed
    <3> QED  BY <1>2, <3>2, <3>4, WritingInv DEF ClusterStates
  <2>2. CASE q = Abandon(p, "done")
    <3>1. q \in ReqType /\ q.pc = "done" /\ q.cluster = p.cluster /\ q.dropped
      BY <1>1, <2>2, AbandonType, LabelsUsed
    <3>2. Moves(r, q)
      BY <1>1, <1>4, <3>1 DEF Moves, HasState, NamesNoCluster
    <3>3. Writing(r, q, c, "added")
      BY <1>4, <3>1 DEF Writing, Excused
    <3> QED  BY <1>2, <3>2, <3>3, WritingInv DEF ClusterStates
  <2> QED  BY <1>4, <2>1, <2>2
<1> QED  BY <1>3, <1>4 DEF AddCluster

LEMMA DescribeInv == ASSUME IInv, NEW r \in Requests, Describe(r) PROVE IInv'
<1> DEFINE p == req[r]
<1>1. p \in ReqType
  BY DEF IInv, TypeInv, TypeOK
<1>2. PICK q \in {GoTo(p, "provision"), Abandon(p, "done")} : req' = [req EXCEPT ![r] = q]
  BY DEF Describe
<1>3. /\ q \in ReqType /\ q.cluster = p.cluster
      /\ p.dropped => q.dropped
      /\ \/ q.pc = "provision" /\ q.newState = "PROVISIONING"
         \/ q.pc = "done" /\ q.dropped
  <2>1. CASE q = GoTo(p, "provision")
    <3>1. p.newState = "PROVISIONING"
      BY DEF Describe, IInv, TypeInv, Requested, HasState
    <3> QED  BY <1>1, <2>1, <3>1, GoToType, LabelsUsed
  <2>2. CASE q = Abandon(p, "done")
    BY <1>1, <2>2, AbandonType, LabelsUsed
  <2> QED  BY <2>1, <2>2
<1>4. Moves(r, q)
  BY <1>2, <1>3 DEF Moves, HasState, NamesNoCluster
<1>5. Quietly(r, q)
  BY <1>3 DEF Describe, Quietly, Excused, Owes, CallFailed, OpKinds
<1>6. RestTyped'
  BY DEF Describe, RestTyped, IInv, TypeInv, TypeOK
<1> QED  BY <1>4, <1>5, <1>6, QuietInv

\* A check of the cluster: the request enters updateClusterState or is rejected.
\* It owes nothing before, so it wrote no cluster shown in progress.
LEMMA CheckedInv ==
    ASSUME IInv, NEW r \in Requests, NEW s \in Written, req[r].pc \in {"ready", "check"},
           \/ req' = [req EXCEPT ![r] = Write(req[r], s)]
           \/ req' = [req EXCEPT ![r] = GoTo(req[r], "done")],
           UNCHANGED <<state, event, remote, writer>>
    PROVE  IInv'
<1> DEFINE p == req[r]
<1>1. p \in ReqType
  BY DEF IInv, TypeInv, TypeOK
<1>2. PICK q \in {Write(p, s), GoTo(p, "done")} : req' = [req EXCEPT ![r] = q]
  OBVIOUS
<1>3. /\ q \in ReqType /\ q.cluster = p.cluster /\ q.dropped = p.dropped /\ q.kind = p.kind
      /\ (q.pc = "updateSM" /\ q.newState \in Written) \/ q.pc = "done"
  <2>1. CASE q = Write(p, s)
    BY <1>1, <2>1, WriteType
  <2>2. CASE q = GoTo(p, "done")
    <3> DEFINE g == GoTo(p, "done")
    <3>1. /\ g \in ReqType /\ g.cluster = p.cluster /\ g.dropped = p.dropped
          /\ g.kind = p.kind /\ g.pc = "done"
      BY <1>1, GoToType, LabelsUsed
    <3>2. q = g
      BY <2>2
    <3> HIDE DEF g
    <3> QED  BY <3>1, <3>2
  <2> QED  BY <2>1, <2>2
<1>4. Moves(r, q)
  BY <1>2, <1>3 DEF Moves, HasState, NamesNoCluster
<1>5. Quietly(r, q)
  BY <1>3 DEF Quietly, Excused, Owes, CallFailed, OpKinds
<1>6. RestTyped'
  BY DEF RestTyped, IInv, TypeInv, TypeOK
<1> QED  BY <1>4, <1>5, <1>6, QuietInv

LEMMA ReadyInv == ASSUME IInv, NEW r \in Requests, Ready(r) PROVE IInv'
<1>1. "INSTALL_IN_PROGRESS" \in Written
  BY DEF Written
<1> QED  BY <1>1, CheckedInv DEF Ready

LEMMA CheckInv == ASSUME IInv, NEW r \in Requests, Check(r) PROVE IInv'
<1>1. {"SCALING", "UNINSTALLING"} \subseteq Written
  BY DEF Written
<1> QED  BY <1>1, CheckedInv DEF Check

LEMMA CallInv == ASSUME IInv, NEW r \in Requests, Call(r) PROVE IInv'
<1> DEFINE p == req[r]
<1>1. p \in ReqType /\ p.pc \in OpKinds
  BY DEF Call, IInv, TypeInv, TypeOK
<1>2. PICK q \in {[GoTo(p, "watch") EXCEPT !.op = p.pc], OnCallError(p)} :
          req' = [req EXCEPT ![r] = q]
  BY DEF Call
<1>3. /\ q \in ReqType /\ q.cluster = p.cluster /\ q.kind = p.kind
      /\ p.dropped => q.dropped
      /\ \/ q.pc = "watch" /\ q.op = p.pc
         \/ q.pc = "updateSM" /\ q.newState = "FAILURE"
         \/ /\ q.pc = "done" /\ q.dropped = p.dropped
            /\ p.pc = "decommission" \/ CallFailed(q)
  <2>1. CASE q = [GoTo(p, "watch") EXCEPT !.op = p.pc]
    <3> DEFINE w == GoTo(p, "watch")
    <3>1. /\ w \in ReqType /\ w.pc = "watch" /\ w.kind = p.kind
          /\ w.cluster = p.cluster /\ w.dropped = p.dropped
      BY <1>1, GoToType, LabelsUsed
    <3>2. q = [w EXCEPT !.op = p.pc]
      BY <2>1
    <3> HIDE DEF w
    <3> QED  BY <1>1, <3>1, <3>2 DEF ReqType
  <2>2. CASE q = OnCallError(p) /\ p.pc \in {"scale", "uninstall"}
    BY <1>1, <2>2, WriteType DEF OnCallError, Written
  <2>3. CASE q = OnCallError(p) /\ p.pc \notin {"scale", "uninstall"}
    <3>1. /\ q \in ReqType /\ q.pc = "done" /\ q.kind = p.kind /\ q.newState = p.newState
          /\ q.cluster = p.cluster /\ q.dropped = p.dropped
      BY <1>1, <2>3, GoToType, LabelsUsed DEF OnCallError
    <3>2. p.pc \in {"provision", "install", "decommission"} /\ HasState(p)
      BY <1>1, <2>3 DEF OpKinds, IInv, TypeInv, Requested
    <3> QED  BY <3>1, <3>2 DEF HasState, CallFailed
  <2> QED  BY <2>1, <2>2, <2>3
<1>4. Moves(r, q)
  BY <1>2, <1>3 DEF Moves, HasState, NamesNoCluster, Written
<1>5. Quietly(r, q)
  BY <1>1, <1>3 DEF Call, Quietly, Excused, Owes, CallFailed, OpKinds
<1>6. RestTyped'
  BY <1>1 DEF Call, RestTyped, IInv, TypeInv, TypeOK
<1> QED  BY <1>4, <1>5, <1>6, QuietInv

LEMMA RemoteFinishesInv ==
    ASSUME IInv, NEW r \in Requests, RemoteFinishes(r) PROVE IInv'
<1>1. remote' \in [Requests -> [OpKinds -> {"none", "running"} \cup AllVerdicts]]
  BY DEF RemoteFinishes, IInv, TypeInv, TypeOK
<1>2. UNCHANGED <<state, event, req, writer>>
  BY DEF RemoteFinishes
<1> QED  BY <1>1, <1>2 DEF IInv, TypeInv, TypeOK, Requested, WriterNamesCluster,
            BusAnnouncesState, InProgressHasOwner, Excused, Owes, CallFailed

LEMMA OutcomeStateWritten == \A p, v : OutcomeState(p, v) \in Written
BY DEF OutcomeState, Written

LEMMA OutcomeStateSettled ==
    \A p, v : OutcomeState(p, v) \notin {"INSTALL_IN_PROGRESS", "SCALING", "UNINSTALLING"}
BY DEF OutcomeState

LEMMA MonitorNotifiesInv ==
    ASSUME IInv, NEW r \in Requests, MonitorNotifies(r) PROVE IInv'
<1> DEFINE p == req[r]
           v == remote[r][p.op]
           q == OnResponse(p, v)
<1>1. p \in ReqType /\ p.pc = "watch"
  BY DEF MonitorNotifies, IInv, TypeInv, TypeOK
<1>2. /\ q \in ReqType /\ q.cluster = p.cluster /\ q.kind = p.kind
      /\ q.dropped = p.dropped
      /\ \/ q.pc = "forget" /\ p.op = "decommission"
         \/ q.pc = "updateSM" /\ q.newState = OutcomeState(p.op, v)
  <2>1. CASE p.op = "decommission"
    <3> DEFINE w == GoTo(p, "forget")
    <3>1. /\ w \in ReqType /\ w.pc = "forget" /\ w.kind = p.kind
          /\ w.cluster = p.cluster /\ w.dropped = p.dropped
      BY <1>1, GoToType, LabelsUsed
    <3>2. q = [w EXCEPT !.heard = TRUE]
      BY <2>1 DEF OnResponse
    <3> HIDE DEF w, q
    <3> QED  BY <2>1, <3>1, <3>2 DEF ReqType
  <2>2. CASE p.op # "decommission"
    <3>1. q = Write(p, OutcomeState(p.op, v))
      BY <2>2 DEF OnResponse
    <3> QED  BY <1>1, <3>1, OutcomeStateWritten, WriteType
  <2> QED  BY <2>1, <2>2
<1>3. req' = [req EXCEPT ![r] = q] /\ UNCHANGED <<state, event, remote, writer>>
  BY DEF MonitorNotifies
<1> HIDE DEF q, v
<1>4. Moves(r, q)
  BY <1>2, <1>3, OutcomeStateWritten DEF Moves, HasState, NamesNoCluster
<1>5. Quietly(r, q)
  BY <1>1, <1>2, <1>3, OutcomeStateSettled DEF Quietly, Excused, Owes, CallFailed, OpKinds
<1>6. RestTyped'
  BY <1>3 DEF RestTyped, IInv, TypeInv, TypeOK
<1> QED  BY <1>4, <1>5, <1>6, QuietInv

LEMMA MonitorLosesContactInv ==
    ASSUME IInv, NEW r \in Requests, MonitorLosesContact(r) PROVE IInv'
<1> DEFINE p == req[r]
<1>1. p \in ReqType /\ p.pc = "watch"
  BY DEF MonitorLosesContact, IInv, TypeInv, TypeOK
<1>2. UNCHANGED <<state, event, remote, writer>>
  BY DEF MonitorLosesContact
<1>3. CASE req' = Killed
  BY <1>2, <1>3, KilledInv
<1>4. ASSUME NEW q, req' = [req EXCEPT ![r] = q],
             \/ p.op = "decommission" /\ q = GoTo(p, "forget")
             \/ q = Abandon(p, "done")
      PROVE  IInv'
  <2>1. /\ q \in ReqType /\ q.cluster = p.cluster /\ q.kind = p.kind
        /\ p.dropped => q.dropped
        /\ (q.pc = "forget" /\ p.op = "decommission") \/ (q.pc = "done" /\ q.dropped)
    <3>1. CASE p.op = "decommission" /\ q = GoTo(p, "forget")
      BY <1>1, <3>1, GoToType, LabelsUsed
    <3>2. CASE q = Abandon(p, "done")
      BY <1>1, <3>2, AbandonType, LabelsUsed
    <3> QED  BY <1>4, <3>1, <3>2
  <2>2. Moves(r, q)
    BY <1>4, <2>1 DEF Moves, HasState, NamesNoCluster
  <2>3. Quietly(r, q)
    BY <1>1, <1>2, <2>1 DEF Quietly, Excused, Owes, CallFailed, OpKinds
  <2>4. RestTyped'
    BY <1>2 DEF RestTyped, IInv, TypeInv, TypeOK
  <2> QED  BY <2>2, <2>3, <2>4, QuietInv
<1> QED  BY <1>3, <1>4 DEF MonitorLosesContact

LEMMA ForgetInv == ASSUME IInv, NEW r \in Requests, Forget(r) PROVE IInv'
<1> DEFINE p == req[r]
           q == GoTo(p, "done")
<1>1. /\ q \in ReqType /\ q.pc = "done" /\ q.kind = p.kind
      /\ q.cluster = p.cluster /\ q.dropped = p.dropped
  BY GoToType, LabelsUsed DEF IInv, TypeInv, TypeOK
<1>2. req' = [req EXCEPT ![r] = q] /\ p.pc = "forget"
  BY DEF Forget
<1>3. RestTyped'
  BY DEF Forget, RestTyped, IInv, TypeInv, TypeOK
<1> HIDE DEF q
<1>4. Moves(r, q)
  BY <1>1, <1>2 DEF Moves, HasState, NamesNoCluster
<1>5. CASE UNCHANGED <<state, writer>>
  <2>1. Quietly(r, q)
    BY <1>1, <1>2, <1>5 DEF Quietly, Excused, Owes, CallFailed, OpKinds
  <2> QED  BY <1>3, <1>4, <2>1, QuietInv
<1>6. CASE /\ p.cluster \in Clusters
           /\ state' = [state EXCEPT ![p.cluster] = "removed"]
           /\ writer' = [writer EXCEPT ![p.cluster] = r]
  <2>1. Writing(r, q, p.cluster, "removed")
    BY <1>1, <1>6 DEF Writing, Transitional
  <2> QED  BY <1>3, <1>4, <1>6, <2>1, WritingInv DEF ClusterStates, Absent
<1> QED  BY <1>5, <1>6 DEF Forget, Present

-----------------------------------------------------------------------------
LEMMA InitIInv == Init => IInv
<1> SUFFICES ASSUME Init PROVE IInv
  OBVIOUS
<1>1. WriterNamesCluster /\ BusAnnouncesState /\ InProgressHasOwner
  BY DEF Init, WriterNamesCluster, BusAnnouncesState, InProgressHasOwner, Transitional
<1> QED  BY <1>1, InitType DEF IInv

LEMMA NextIInv == IInv /\ [Next]_vars => IInv'
<1> SUFFICES ASSUME IInv, [Next]_vars PROVE IInv'
  OBVIOUS
<1>1. ASSUME NEW r \in Requests, Receive(r) PROVE IInv'
  BY <1>1, ReceiveInv
<1>2. ASSUME NEW r \in Requests, Step(r) PROVE IInv'
  BY <1>2, UpdateSMInv, UpdateBusInv, DiscoverInv, AddClusterInv, DescribeInv,
     ReadyInv, CheckInv, CallInv, MonitorNotifiesInv, ForgetInv DEF Step
<1>3. ASSUME NEW r \in Requests, MonitorLosesContact(r) \/ RemoteFinishes(r) PROVE IInv'
  BY <1>3, MonitorLosesContactInv, RemoteFinishesInv
<1>4. CASE Restart
  BY <1>4, KilledInv DEF Restart
<1>5. CASE Waiting \/ UNCHANGED vars
  BY <1>5 DEF Waiting, vars, IInv, TypeInv, TypeOK, Requested, WriterNamesCluster,
     BusAnnouncesState, InProgressHasOwner, Excused, Owes, CallFailed
<1> QED  BY <1>1, <1>2, <1>3, <1>4, <1>5 DEF Next

LEMMA Inductive == Spec => []IInv
<1> QED  BY InitIInv, NextIInv, PTL DEF Spec

\* The variables keep their types under every interleaving and every fault.
THEOREM TypeCorrect == Spec => []TypeOK
<1>1. IInv => TypeOK
  BY DEF IInv, TypeInv
<1> QED  BY Inductive, <1>1, PTL

\* Whatever the callers, the interleavings and the faults, a cluster shown in
\* progress has an owner: the request that last wrote its state still works on it,
\* an error cut that request short, or the call that was to start the operation failed.
THEOREM OwnershipKept == Spec => []InProgressHasOwner
<1>1. IInv => InProgressHasOwner
  BY DEF IInv
<1> QED  BY Inductive, <1>1, PTL
=============================================================================
