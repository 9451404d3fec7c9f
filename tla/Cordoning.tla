------------------------------ MODULE Cordoning ------------------------------
(***************************************************************************)
(* Cordon, uncordon and drain of a cluster, and the checks that admit an   *)
(* uninstall (manager.go: CordonCluster, UncordonCluster, DrainCluster,    *)
(* canUninstallCluster). Each request is one gRPC handler; handlers        *)
(* interleave at every remote call. A ClusterStatus is a pair: ONLINE or   *)
(* OFFLINE, with or without _CORDON.                                       *)
(*                                                                         *)
(* External, as the manager relies on them: the System Model keeps the     *)
(* status and lists the services, the connectivity of a cluster comes and  *)
(* goes, users start and stop services, a service is placed only on a      *)
(* cluster that is not cordoned, and the conductor serves drain messages.  *)
(***************************************************************************)
CONSTANTS
    Clusters,  \* clusters of the System Model
    Services,  \* service instances of the organization
    Requests,  \* calls served, each once
    None,      \* no cluster
    Kinds,     \* the operations each request may ask for
    Faults     \* what may go wrong

AllKinds == {"cordon", "uncordon", "drain", "uninstall"}

AllFaults == {"refused",    \* a call fails without effect
              "lostReply",  \* a call takes effect and its reply is lost
              "restart"}    \* the process ends and is started again

ASSUME CordonNoneAssumption == None \notin Clusters \cup Requests
ASSUME CordonKindsAssumption == Kinds \in [Requests -> SUBSET AllKinds]
ASSUME CordonFaultsAssumption == Faults \subseteq AllFaults

VARIABLES
    online, cordoned,  \* the status of each cluster in the System Model
    announced,   \* whether the events bus last called each cluster cordoned
    deployedOn,  \* where each service runs
    drains,      \* requests whose drain message is on the operations queue
    kind, target, pc,  \* what each request asks for, of what, and its control state
    seen,        \* whether the status read for it was ONLINE_CORDON
    answer,      \* what its caller is told
    slipped,     \* history: (un)cordons that met an error, noticed or only logged
    toggler,     \* history: the last request to (un)cordon each cluster
    reopened,    \* history: uninstalls and drains whose cluster was uncordoned after the read
    crossed      \* history: (un)cordons served while another one was about their cluster

model == <<online, cordoned, deployedOn>>
calls == <<kind, target, pc, seen, answer>>
history == <<slipped, toggler, reopened, crossed>>
vars == <<model, announced, drains, calls, history>>

Labels == {"idle", "toggle", "announce", "check", "send", "read", "list",
           "begin", "done", "dead"}

TypeOK ==
    /\ online \in [Clusters -> BOOLEAN]
    /\ cordoned \in [Clusters -> BOOLEAN]
    /\ announced \in [Clusters -> BOOLEAN]
    /\ deployedOn \in [Services -> Clusters \cup {None}]
    /\ drains \subseteq Requests
    /\ kind \in [Requests -> AllKinds \cup {"none"}]
    /\ target \in [Requests -> Clusters \cup {None}]
    /\ pc \in [Requests -> Labels]
    /\ seen \in [Requests -> BOOLEAN]
    /\ answer \in [Requests -> {"none", "success", "error"}]
    /\ slipped \subseteq Requests
    /\ toggler \in [Clusters -> Requests \cup {None}]
    /\ reopened \subseteq Requests
    /\ crossed \subseteq Requests

Init ==
    /\ online \in [Clusters -> BOOLEAN]
    /\ cordoned \in [Clusters -> BOOLEAN]
    /\ announced = cordoned
    /\ deployedOn \in [Services -> Clusters \cup {None}]
    /\ drains = {}
    /\ kind = [r \in Requests |-> "none"]
    /\ target = [r \in Requests |-> None]
    /\ pc = [r \in Requests |-> "idle"]
    /\ seen = [r \in Requests |-> FALSE]
    /\ answer = [r \in Requests |-> "none"]
    /\ slipped = {}
    /\ toggler = [c \in Clusters |-> None]
    /\ reopened = {}
    /\ crossed = {}

Live(r) == pc[r] \notin {"idle", "done", "dead"}

Empty(c) == \A s \in Services : deployedOn[s] # c

Outcomes == {"ok"} \cup (Faults \cap {"refused", "lostReply"})

FirstStep(k) ==
    CASE k \in {"cordon", "uncordon"} -> "toggle"
      [] k = "drain"                  -> "check"
      [] k = "uninstall"              -> "read"

\* The cordons and uncordons of cluster c that are not yet done, and what history
\* records when r, of kind k, comes to them.
Toggling(r) == pc[r] \in {"toggle", "announce"}
About(c) == {x \in Requests : Toggling(x) /\ target[x] = c}
Crosses(r, k, c) ==
    crossed' = IF k \notin {"cordon", "uncordon"} \/ About(c) = {} THEN crossed
               ELSE crossed \cup About(c) \cup {r}

\* The handler has validated the request and calls the manager.
Receive(r) ==
    /\ pc[r] = "idle"
    /\ \E k \in Kinds[r], c \in Clusters :
          /\ Crosses(r, k, c)
          /\ kind' = [kind EXCEPT ![r] = k]
          /\ target' = [target EXCEPT ![r] = c]
          /\ pc' = [pc EXCEPT ![r] = FirstStep(k)]
    /\ UNCHANGED <<model, announced, drains, seen, answer, slipped, toggler, reopened>>

GoTo(r, l) == pc' = [pc EXCEPT ![r] = l] /\ UNCHANGED answer

Return(r, a) ==
    /\ pc' = [pc EXCEPT ![r] = "done"]
    /\ answer' = [answer EXCEPT ![r] = a]

ToldRaw(o) == o

\* What a caller is told, and what history records, of a call that ended with o.
Told(o) == IF o = "ok" THEN "success" ELSE "error"
Slips(r, o) == slipped' = IF o = "ok" THEN slipped ELSE slipped \cup {r}

-----------------------------------------------------------------------------
\* CordonCluster and UncordonCluster: the System Model is told, and then the
\* events bus, whatever the System Model answered. Its answer is the caller's.

Toggle(r) ==
    /\ pc[r] = "toggle"
    /\ \E o \in Outcomes :
          /\ IF o = "refused" THEN UNCHANGED <<cordoned, reopened>>
             ELSE /\ cordoned' = [cordoned EXCEPT ![target[r]] = (kind[r] = "cordon")]
                  /\ reopened' = reopened \cup
                        {x \in Requests : /\ kind[r] = "uncordon"
                                          /\ kind[x] = "uninstall" \/ pc[x] = "send"
                                          /\ target[x] = target[r]}
          /\ Slips(r, o)
          /\ answer' = [answer EXCEPT ![r] = Told(o)]
    /\ pc' = [pc EXCEPT ![r] = "announce"]
    /\ toggler' = [toggler EXCEPT ![target[r]] = r]
    /\ UNCHANGED <<online, deployedOn, announced, drains, kind, target, seen, crossed>>

AnnounceCordonAlways(r) ==
    /\ pc[r] = "announce"
    /\ \E o \in Outcomes :
          /\ announced' = IF o = "refused" THEN announced
                          ELSE [announced EXCEPT ![target[r]] = TRUE]
          /\ Slips(r, o)
    /\ GoTo(r, "done")
    /\ UNCHANGED <<model, drains, kind, target, seen, toggler, reopened, crossed>>

\* SetClusterStatusRequest on the events bus. An error is logged and not told.
Announce(r) ==
    /\ pc[r] = "announce"
    /\ \E o \in Outcomes :
          /\ announced' = IF o = "refused" THEN announced
                          ELSE [announced EXCEPT ![target[r]] = (kind[r] = "cordon")]
          /\ Slips(r, o)
    /\ GoTo(r, "done")
    /\ UNCHANGED <<model, drains, kind, target, seen, toggler, reopened, crossed>>

-----------------------------------------------------------------------------
\* DrainCluster

CheckNothing(r) ==
    /\ pc[r] = "check"
    /\ GoTo(r, "send")
    /\ UNCHANGED <<model, announced, drains, kind, target, seen, history>>

\* The cluster is read and must be cordoned.
CheckCordoned(r) ==
    /\ pc[r] = "check"
    /\ \/ cordoned[target[r]] /\ GoTo(r, "send")
       \/ ~cordoned[target[r]] /\ Return(r, "error")
       \/ Outcomes # {"ok"} /\ Return(r, "error")
    /\ UNCHANGED <<model, announced, drains, kind, target, seen, history>>

SendDrainSwallowsError(r) ==
    /\ pc[r] = "send"
    /\ \E o \in Outcomes :
          /\ drains' = IF o = "refused" THEN drains ELSE drains \cup {r}
    /\ Return(r, "success")
    /\ UNCHANGED <<model, announced, kind, target, seen, history>>

\* The drain message is sent; unlike an event, an error is told to the caller.
SendDrain(r) ==
    /\ pc[r] = "send"
    /\ \E o \in Outcomes :
          /\ drains' = IF o = "refused" THEN drains ELSE drains \cup {r}
          /\ Return(r, Told(o))
    /\ UNCHANGED <<model, announced, kind, target, seen, history>>

-----------------------------------------------------------------------------
\* canUninstallCluster, and the update of the state to UNINSTALLING with which
\* Uninstall begins. From there it goes on as in ClusterOps.

\* The cluster is read first.
ReadStatus(r) ==
    /\ pc[r] = "read"
    /\ \/ /\ seen' = [seen EXCEPT ![r] = online[target[r]] /\ cordoned[target[r]]]
          /\ reopened' = reopened \ {r}
          /\ GoTo(r, "list")
       \/ /\ Outcomes # {"ok"}
          /\ Return(r, "error")
          /\ UNCHANGED <<seen, reopened>>
    /\ UNCHANGED <<model, announced, drains, kind, target, slipped, toggler, crossed>>

ListAppsForgetsStatus(r) ==
    /\ pc[r] = "list"
    /\ \/ Empty(target[r]) /\ GoTo(r, "begin")
       \/ ~Empty(target[r]) /\ Return(r, "error")
    /\ UNCHANGED <<model, announced, drains, kind, target, seen, history>>

\* clusterHasApps lists the services second; then the status read before is judged.
ListApps(r) ==
    /\ pc[r] = "list"
    /\ \/ Empty(target[r]) /\ seen[r] /\ GoTo(r, "begin")
       \/ ~(Empty(target[r]) /\ seen[r]) /\ Return(r, "error")
       \/ Outcomes # {"ok"} /\ Return(r, "error")
    /\ UNCHANGED <<model, announced, drains, kind, target, seen, history>>

\* updateClusterState; without an error the uninstall is on its way.
BeginUninstall(r) ==
    /\ pc[r] = "begin"
    /\ \E o \in Outcomes : Return(r, Told(o))
    /\ UNCHANGED <<model, announced, drains, kind, target, seen, history>>

-----------------------------------------------------------------------------
\* The process is stopped and started again: no handler survives.
Restart ==
    /\ "restart" \in Faults
    /\ \E r \in Requests : Live(r)
    /\ pc' = [r \in Requests |-> IF Live(r) THEN "dead" ELSE pc[r]]
    /\ slipped' = slipped \cup {r \in Requests : Toggling(r)}
    /\ UNCHANGED <<model, announced, drains, kind, target, seen, answer, toggler, reopened,
                   crossed>>

-----------------------------------------------------------------------------
\* The other components

others == <<announced, calls, history>>

ConnectivityChanges(c) ==
    /\ online' = [online EXCEPT ![c] = ~@]
    /\ UNCHANGED <<cordoned, deployedOn, drains, others>>

Deploy(s, c) ==
    /\ deployedOn[s] = None
    /\ ~cordoned[c]
    /\ deployedOn' = [deployedOn EXCEPT ![s] = c]
    /\ UNCHANGED <<online, cordoned, drains, others>>

Undeploy(s) ==
    /\ deployedOn[s] # None
    /\ deployedOn' = [deployedOn EXCEPT ![s] = None]
    /\ UNCHANGED <<online, cordoned, drains, others>>

\* The conductor takes a drain message and frees the services of its cluster,
\* to be placed again by Deploy.
ServeDrain(r) ==
    /\ r \in drains
    /\ drains' = drains \ {r}
    /\ deployedOn' = [s \in Services |->
                        IF deployedOn[s] = target[r] THEN None ELSE deployedOn[s]]
    /\ UNCHANGED <<online, cordoned, others>>

-----------------------------------------------------------------------------
Step(r) ==
    \/ Toggle(r)
    \/ Announce(r)
    \/ CheckCordoned(r)
    \/ SendDrain(r)
    \/ ReadStatus(r)
    \/ ListApps(r)
    \/ BeginUninstall(r)

Environment ==
    \/ \E c \in Clusters : ConnectivityChanges(c)
    \/ \E s \in Services, c \in Clusters : Deploy(s, c)
    \/ \E s \in Services : Undeploy(s)
    \/ \E r \in Requests : ServeDrain(r)

Next ==
    \/ \E r \in Requests : Receive(r) \/ Step(r)
    \/ Restart
    \/ Environment

Spec == Init /\ [][Next]_vars

\* Handlers run on, their calls have deadlines, and the conductor serves its
\* queue. Users, callers and faults owe nothing.
FairSpec ==
    /\ Spec
    /\ \A r \in Requests : WF_vars(Step(r)) /\ WF_vars(ServeDrain(r))

-----------------------------------------------------------------------------
\* Properties

Accepted(r) == kind[r] = "uninstall" /\ answer[r] = "success"

\* canUninstallCluster (manager.go:859) reads two stores one after the other, and
\* that is enough because the status comes first: an uninstall that was admitted
\* finds no service on its cluster, then or later, as long as nobody uncordoned
\* the cluster since the status was read. Connectivity, drains and placements
\* between the two reads do not matter.
AcceptedIsEmpty ==
    \A r \in Requests : Accepted(r) /\ r \notin reopened => Empty(target[r])

\* Cordon and uncordon announce what the System Model holds (manager.go:649): the last
\* event on a cluster and its status differ only while the last toggle is about to
\* announce itself, or after one of its two calls went wrong, or when another toggle
\* of the cluster was served at the same time. A toggle that meets neither an error nor
\* another one repairs any earlier difference.
EventsFollowStatus ==
    \A c \in Clusters :
        announced[c] # cordoned[c] =>
            /\ toggler[c] \in Requests
            /\ pc[toggler[c]] = "announce" \/ toggler[c] \in slipped \cup crossed

\* manager.go:633, "must be cordoned before draining": a drain message is put on the
\* queue only while its cluster is cordoned, whatever other calls, restarts and errors
\* there are, unless an uncordon took effect between the check and the message: DrainCluster
\* does not look again.
DrainsCordonedOnly ==
    [][\A r \in Requests \ reopened :
          r \notin drains /\ r \in drains' => cordoned[target[r]]]_vars

\* "DrainCluster reschedules the services deployed in a given cluster" (manager.go:622):
\* once the check is passed, either the caller learns of an error, or the process
\* ends, or the cluster gets empty, unless it is uncordoned before that.
DrainEmpties ==
    \A r \in Requests, c \in Clusters :
        pc[r] = "send" /\ target[r] = c
            ~> answer[r] = "error" \/ pc[r] = "dead" \/ Empty(c) \/ ~cordoned[c]

=============================================================================
