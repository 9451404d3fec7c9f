----------------------------- MODULE ClusterOps -----------------------------
(***************************************************************************)
(* The lifecycle operations of the infrastructure manager (manager.go):    *)
(* provision and install, install, scale, uninstall, uninstall and         *)
(* decommission, and the update of a cluster by its user. Each request is  *)
(* one gRPC handler and the monitor goroutine it leaves behind; requests   *)
(* interleave at every remote call. Nothing of a request is persisted.     *)
(*                                                                         *)
(* Every remote call may be refused (no effect, an error) or lose its      *)
(* reply (the effect, and an error). The monitors are the ones of          *)
(* OperationMonitor, seen through what OperationWatch promises of them: of *)
(* a delegated operation only the report on which its monitor stops is     *)
(* kept, because nobody asks for its progress again.                       *)
(***************************************************************************)
EXTENDS InfraDefs

CONSTANTS
    Clusters,    \* cluster identifiers of the System Model
    Requests,    \* calls served, each once
    None,        \* no cluster, no request
    Kinds,       \* the operations callers ask for
    Faults,      \* what may go wrong
    Verdicts,    \* how remote operations end
    UserStates,  \* the states users write with UpdateCluster
    Overlap      \* callers may name a cluster that is being operated on

AllKinds == OpKinds \cup {"update"} \* "decommission" starts with an uninstall

AllFaults == {"refused",      \* a call fails without effect
              "lostReply",    \* a call takes effect and its reply is lost
              "lostContact",  \* a monitor spends its connection failures
              "noTemp",       \* the temporal kubeconfig file cannot be written
              "restart"}      \* the process ends and is started again

ASSUME NoneAssumption == None \notin Clusters \cup Requests
ASSUME KindsAssumption == Kinds \subseteq AllKinds
ASSUME FaultsAssumption == Faults \subseteq AllFaults
ASSUME VerdictsAssumption == Verdicts \subseteq AllVerdicts
ASSUME UserStatesAssumption == UserStates \subseteq Written
ASSUME OverlapAssumption == Overlap \in BOOLEAN

VARIABLES
    state,   \* state of each cluster in the System Model
    event,   \* state of each cluster last announced on the bus
    remote,  \* what ended the watch of the operation of each kind each request
             \* delegated, "running" until there is such a report
    req,     \* the local variables and control state of each request
    writer   \* history: the request that wrote the state of each cluster

vars == <<state, event, remote, req, writer>>

Labels ==
    {"idle", "discover", "add", "describe", "check", "ready", "updateSM",
     "updateBus", "watch", "forget", "done", "dead"} \cup OpKinds

ReqType ==
    [kind     : AllKinds \cup {"none"},
     cluster  : Clusters \cup {None},
     pc       : Labels,
     op       : OpKinds \cup {"none"},          \* operation being watched
     newState : Written \cup {"none"},          \* state to write
     heard    : BOOLEAN,  \* the decommission monitor got a response
     dropped  : BOOLEAN]  \* history: an error made it skip a write it owed

TypeOK ==
    /\ state \in [Clusters -> ClusterStates]
    /\ event \in [Clusters -> ClusterStates]
    /\ remote \in [Requests -> [OpKinds -> {"none", "running"} \cup AllVerdicts]]
    /\ req \in [Requests -> ReqType]
    /\ writer \in [Clusters -> Requests \cup {None}]

Init ==
    /\ state \in [Clusters -> {"unknown", "INSTALLED"}]
    /\ event = state
    /\ remote = [r \in Requests |-> [p \in OpKinds |-> "none"]]
    /\ req = [r \in Requests |->
                [kind |-> "none", cluster |-> None, pc |-> "idle", op |-> "none",
                 newState |-> "none", heard |-> FALSE, dropped |-> FALSE]]
    /\ writer = [c \in Clusters |-> None]

Live(q) == q.pc \notin {"idle", "done", "dead"}

Present(c) == c \in Clusters /\ state[c] \notin Absent

\* How a remote call may end.
Outcomes == {"ok"} \cup (Faults \cap {"refused", "lostReply"})

\* A request goes on at label l; it does so after an error, leaving out what it
\* owed; it enters updateClusterState to write s.
GoTo(q, l)    == [q EXCEPT !.pc = l]
Abandon(q, l) == [q EXCEPT !.pc = l, !.dropped = TRUE]
Write(q, s)   == [q EXCEPT !.pc = "updateSM", !.newState = s]

\* The process ends: no handler and no monitor of it survives.
Killed == [r \in Requests |-> IF Live(req[r]) THEN Abandon(req[r], "dead") ELSE req[r]]

-----------------------------------------------------------------------------
\* Receiving a request

CanName(c) ==
    /\ state[c] # "unknown"
    /\ Overlap \/ \A r \in Requests : req[r].cluster = c => ~Live(req[r])

As(q, kind, c) == [q EXCEPT !.kind = kind, !.cluster = c]

\* The request as the manager gets it. A provision and an install name no
\* cluster: the handler rejects an install request that carries an identifier.
Arrivals(q) ==
    LET named == {c \in Clusters : CanName(c)} IN
       {As(GoTo(q, "add"), k, None) : k \in Kinds \cap {"provision"}}
    \cup {As(GoTo(q, "discover"), k, None) : k \in Kinds \cap {"install"}}
    \cup {As(GoTo(q, "check"), k, c) :
             k \in Kinds \cap {"scale", "uninstall", "decommission"}, c \in named}
    \cup {As(Write(q, s), k, c) :
             k \in Kinds \cap {"update"}, c \in named, s \in UserStates}

Receive(r) ==
    /\ req[r].pc = "idle"
    /\ \E q \in Arrivals(req[r]) : req' = [req EXCEPT ![r] = q]
    /\ UNCHANGED <<state, event, remote, writer>>

-----------------------------------------------------------------------------
\* updateClusterState: the System Model first, the bus second

OnUpdatedSkipsUninstall(q) ==
    IF q.newState = "PROVISIONING" THEN "describe"
    ELSE IF q.newState = "UNINSTALLING" /\ q.kind = "decommission" THEN "decommission"
    ELSE "done"

\* Where a request goes on after its state has been written and announced. A
\* new state that announces an operation is followed by the call that starts
\* it; the others are written by callbacks, except the first of an install.
OnUpdated(q) ==
    IF q.kind = "update" THEN "done"
    ELSE IF q.newState = "PROVISIONING" THEN "describe"
    ELSE IF q.newState = "INSTALL_IN_PROGRESS" THEN "install"
    ELSE IF q.newState = "SCALING" THEN "scale"
    ELSE IF q.newState = "UNINSTALLING" THEN "uninstall"
    ELSE IF q.newState = "PROVISIONED" /\ q.op = "none" THEN "ready"
    ELSE IF q.newState = "PROVISIONED" /\ q.op = "provision" THEN "discover"
    ELSE IF q.kind = "decommission" /\ q.op = "uninstall" THEN "decommission"
    ELSE "done"

\* Where it goes on after an error. An update error ends everything but the
\* decommission, which follows the uninstall callback whatever came of it.
OnUpdateError(q) ==
    IF q.kind = "decommission" /\ q.op = "uninstall" THEN "decommission" ELSE "done"

UpdateSM(r) ==
    LET q == req[r] IN
    /\ q.pc = "updateSM"
    /\ \/ /\ Present(q.cluster)
          /\ \E o \in Outcomes \ {"refused"} :
                req' = [req EXCEPT ![r] = IF o = "ok" THEN GoTo(q, "updateBus")
                                          ELSE Abandon(q, OnUpdateError(q))]
          /\ state' = [state EXCEPT ![q.cluster] = q.newState]
          /\ writer' = [writer EXCEPT ![q.cluster] = r]
       \/ /\ ~Present(q.cluster) \/ "refused" \in Faults
          /\ req' = [req EXCEPT ![r] = Abandon(q, OnUpdateError(q))]
          /\ UNCHANGED <<state, writer>>
    /\ UNCHANGED <<event, remote>>

UpdateBusIgnoresErrors(r) ==
    /\ req[r].pc = "updateBus"
    /\ \E o \in Outcomes :
          event' = IF o = "refused" THEN event
                   ELSE [event EXCEPT ![req[r].cluster] = req[r].newState]
    /\ req' = [req EXCEPT ![r] = GoTo(@, OnUpdated(@))]
    /\ UNCHANGED <<state, remote, writer>>

UpdateBus(r) ==
    LET q == req[r] IN
    /\ q.pc = "updateBus"
    /\ \E o \in Outcomes :
          /\ event' = IF o = "refused" THEN event
                      ELSE [event EXCEPT ![q.cluster] = q.newState]
          /\ req' = [req EXCEPT ![r] = IF o = "ok" THEN GoTo(q, OnUpdated(q))
                                       ELSE Abandon(q, OnUpdateError(q))]
    /\ UNCHANGED <<state, remote, writer>>

-----------------------------------------------------------------------------
\* Reaching the delegated operation

\* discoverCluster, and after a provision the update of the host names and the
\* attachment of the nodes, whose errors are only logged. Without a temporal
\* file the deferred removal dereferences a nil name before the error is seen.
Discover(r) ==
    LET q == req[r] IN
    /\ q.pc = "discover"
    /\ \/ \E o \in Outcomes :
             req' = [req EXCEPT ![r] =
                       GoTo(q, IF o # "ok" THEN "done"
                               ELSE IF q.op = "provision" THEN "ready" ELSE "add")]
       \/ /\ "noTemp" \in Faults
          /\ req' = Killed
    /\ UNCHANGED <<state, event, remote, writer>>

AddedAsUnset(kind) == "none"

\* The state addClusterToSM is asked to record.
AddedAs(kind) == IF kind = "provision" THEN "PROVISIONING" ELSE "PROVISIONED"

\* addClusterToSM creates the cluster; updateClusterState records its state.
\* Bound: the System Model refuses when Clusters has no fresh identifier left.
AddCluster(r) ==
    LET q == req[r]
        fresh == {c \in Clusters : state[c] = "unknown"}
    IN
    /\ q.pc = "add"
    /\ \/ \E c \in fresh, o \in Outcomes \ {"refused"} :
             /\ state' = [state EXCEPT ![c] = "added"]
             /\ writer' = [writer EXCEPT ![c] = r]
             /\ req' = [req EXCEPT ![r] =
                          IF o = "ok" THEN [Write(q, AddedAs(q.kind)) EXCEPT !.cluster = c]
                                      ELSE Abandon(q, "done")]
       \/ /\ fresh = {} \/ "refused" \in Faults
          /\ req' = [req EXCEPT ![r] = GoTo(q, "done")]
          /\ UNCHANGED <<state, writer>>
    /\ UNCHANGED <<event, remote>>

\* The end of addClusterToSM for a provision, which attaches no nodes: the
\* cluster is read back and its identifier handed to the provisioner.
Describe(r) ==
    LET q == req[r] IN
    /\ q.pc = "describe"
    /\ \E o \in Outcomes :
          req' = [req EXCEPT ![r] = IF o = "ok" /\ Present(q.cluster)
                                    THEN GoTo(q, "provision")
                                    ELSE Abandon(q, "done")]
    /\ UNCHANGED <<state, event, remote, writer>>

\* InstallCluster with the cluster at hand: read back by addClusterToSM after
\* its nodes were attached, or by getCluster after a provision. It rejects a
\* cluster that is not PROVISIONED, and any request for the base system.
Ready(r) ==
    LET q == req[r]
        provisioned == Present(q.cluster) /\ state[q.cluster] = "PROVISIONED"
    IN
    /\ q.pc = "ready"
    /\ \/ /\ provisioned
          /\ req' = [req EXCEPT ![r] = Write(q, "INSTALL_IN_PROGRESS")]
       \/ /\ ~provisioned \/ q.kind = "install" \/ Outcomes # {"ok"}
          /\ req' = [req EXCEPT ![r] = GoTo(q, "done")]
    /\ UNCHANGED <<state, event, remote, writer>>

CheckWithoutState(r) ==
    /\ req[r].pc = "check"
    /\ Present(req[r].cluster)
    /\ req' = [req EXCEPT ![r] =
                 Write(@, IF @.kind = "scale" THEN "SCALING" ELSE "UNINSTALLING")]
    /\ UNCHANGED <<state, event, remote, writer>>

\* The checks of Scale and of Uninstall, the second after GetKubeConfig when a
\* decommission follows. canUninstallCluster asks for no applications and for an
\* online and cordoned cluster, both kept by other components: either answer.
\* It never looks at the state of the cluster.
Check(r) ==
    LET q == req[r]
        scalable == Present(q.cluster) /\ state[q.cluster] = "INSTALLED"
    IN
    /\ q.pc = "check"
    /\ \/ /\ q.kind = "scale" /\ scalable
          /\ req' = [req EXCEPT ![r] = Write(q, "SCALING")]
       \/ /\ q.kind # "scale" /\ Present(q.cluster)
          /\ req' = [req EXCEPT ![r] = Write(q, "UNINSTALLING")]
       \/ /\ ~scalable \/ q.kind # "scale" \/ Outcomes # {"ok"}
          /\ req' = [req EXCEPT ![r] = GoTo(q, "done")]
    /\ UNCHANGED <<state, event, remote, writer>>

-----------------------------------------------------------------------------
\* The delegated operation

OnCallErrorGivesUp(q) == GoTo(q, "done")

\* The call is made again.
OnCallErrorRetries(q) == q

\* Scale and Uninstall record a failure; ProvisionAndInstallCluster,
\* InstallCluster and Decommission return and leave the state as it is.
OnCallError(q) ==
    IF q.pc \in {"scale", "uninstall"} THEN Write(q, "FAILURE") ELSE GoTo(q, "done")

\* The call that starts the operation, and the launch of its monitor.
Call(r) ==
    LET q == req[r] IN
    /\ q.pc \in OpKinds
    /\ \E o \in Outcomes :
          /\ remote' = IF o = "refused" THEN remote
                       ELSE [remote EXCEPT ![r] = [@ EXCEPT ![q.pc] = "running"]]
          /\ req' = [req EXCEPT ![r] =
                       IF o = "ok" THEN [GoTo(q, "watch") EXCEPT !.op = q.pc]
                                   ELSE OnCallError(q)]
    /\ UNCHANGED <<state, event, writer>>

\* The provisioner or the installer ends an operation, or reports an error on it:
\* "flagged" is a report with an error text, also of an operation that goes on.
\* The monitor stops on either, so what it would report next changes nothing.
RemoteFinishes(r) ==
    /\ \E p \in OpKinds :
          /\ remote[r][p] = "running"
          /\ \E v \in Verdicts \cap VerdictsOf(p) :
                remote' = [remote EXCEPT ![r] = [@ EXCEPT ![p] = v]]
    /\ UNCHANGED <<state, event, req, writer>>

OnResponseDone(q, v) ==
    IF q.op = "scale" THEN GoTo(q, "done")
    ELSE IF q.op = "decommission" THEN [GoTo(q, "forget") EXCEPT !.heard = TRUE]
    ELSE Write(q, OutcomeState(q.op, v))

OnResponseForgets(q, v) == [GoTo(q, "forget") EXCEPT !.heard = TRUE]

\* What a callback does with a response: decommissionCallback removes the
\* cluster whatever the response says, the others record the outcome.
OnResponse(q, v) ==
    IF q.op = "decommission" THEN [GoTo(q, "forget") EXCEPT !.heard = TRUE]
                             ELSE Write(q, OutcomeState(q.op, v))

\* A poll brings a final answer and notify runs the callback with it.
MonitorNotifies(r) ==
    LET q == req[r] IN
    /\ q.pc = "watch"
    /\ remote[r][q.op] \in Final(q.op)
    /\ req' = [req EXCEPT ![r] = OnResponse(q, remote[r][q.op])]
    /\ UNCHANGED <<state, event, remote, writer>>

\* The connection failures are spent: the installer's monitor panics, the
\* callbacks of provision and scale return on a nil response, and the one of
\* decommission goes on without request and organization.
MonitorLosesContact(r) ==
    LET q == req[r] IN
    /\ q.pc = "watch"
    /\ "lostContact" \in Faults
    /\ req' = IF q.op \in InstallerOps THEN Killed
              ELSE [req EXCEPT ![r] = IF q.op = "decommission" THEN GoTo(q, "forget")
                                                               ELSE Abandon(q, "done")]
    /\ UNCHANGED <<state, event, remote, writer>>

\* removeClusterFromSM, as decommissionCallback calls it: the identifiers come
\* from the response, and without them the System Model rejects the call. No
\* event tells of the removal.
Forget(r) ==
    LET q == req[r] IN
    /\ q.pc = "forget"
    /\ \/ /\ Present(q.cluster) /\ q.heard
          /\ state' = [state EXCEPT ![q.cluster] = "removed"]
          /\ writer' = [writer EXCEPT ![q.cluster] = r]
       \/ /\ ~Present(q.cluster) \/ ~q.heard \/ "refused" \in Faults
          /\ UNCHANGED <<state, writer>>
    /\ req' = [req EXCEPT ![r] = GoTo(q, "done")]
    /\ UNCHANGED <<event, remote>>

-----------------------------------------------------------------------------
\* The process is stopped and started again: monitoring is not resumed.
Restart ==
    /\ "restart" \in Faults
    /\ \E r \in Requests : Live(req[r])
    /\ req' = Killed
    /\ UNCHANGED <<state, event, remote, writer>>

Step(r) ==
    \/ UpdateSM(r)
    \/ UpdateBus(r)
    \/ Discover(r)
    \/ AddCluster(r)
    \/ Describe(r)
    \/ Ready(r)
    \/ Check(r)
    \/ Call(r)
    \/ MonitorNotifies(r)
    \/ Forget(r)

\* No handler runs: the manager waits for callers and for remote components.
Waiting ==
    /\ \A r \in Requests : req[r].pc \in {"idle", "watch", "done", "dead"}
    /\ UNCHANGED vars

Next ==
    \/ \E r \in Requests :
           Receive(r) \/ Step(r) \/ MonitorLosesContact(r) \/ RemoteFinishes(r)
    \/ Restart
    \/ Waiting

Spec == Init /\ [][Next]_vars

\* Goroutines are scheduled, calls return within their deadlines and remote
\* components end what they accepted. Callers owe nothing and faults need not
\* happen.
FairSpec ==
    /\ Spec
    /\ \A r \in Requests : WF_vars(Step(r)) /\ WF_vars(RemoteFinishes(r))
-----------------------------------------------------------------------------
\* Properties

\* A request that has announced an operation and still goes on to start it, to
\* watch it or to record how it ended.
Owes(q) ==
    \/ q.pc \in {"updateBus", "describe"} \cup (OpKinds \ {"decommission"})
    \/ q.pc = "updateSM" /\ q.newState \notin {"INSTALL_IN_PROGRESS", "SCALING", "UNINSTALLING"}
    \/ q.pc = "watch" /\ q.op # "decommission"

\* The two returns that leave a cluster as the call found it: the provisioner or the
\* installer fails the call that was to start the operation, and
\* ProvisionAndInstallCluster (manager.go:345) or InstallCluster (manager.go:457)
\* returns this error and records no FAILURE.
CallFailed(q) == q.pc = "done" /\ q.newState \in {"PROVISIONING", "INSTALL_IN_PROGRESS"}

Excused(q) == Owes(q) \/ q.dropped \/ CallFailed(q) \/ q.kind = "update"

\* A cluster shows an operation in progress only while the request that wrote
\* this state still owes the next one, or failed to start the operation and did not
\* say so (CallFailed), or was cut short by another error (a restart included), or
\* is a user's update. No interleaving of requests on one cluster, and no other
\* early return, leaves a cluster in progress.
InProgressHasOwner ==
    \A c \in Clusters :
        state[c] \in Transitional =>
            /\ writer[c] \in Requests
            /\ Excused(req[writer[c]])

\* "The update is also sent to the bus" (manager.go:296): as long as callers do not
\* overlap on a cluster, what the bus last said of it is what the System Model
\* holds, but for the request that is about to send it or was cut short.
EventsFollowModel ==
    \A c \in Clusters :
        state[c] \in Written /\ event[c] # state[c] =>
            /\ writer[c] \in Requests
            /\ LET q == req[writer[c]] IN q.pc = "updateBus" \/ q.dropped

\* A cluster is decommissioned only after the installer answered for the uninstall,
\* be it with a failure or an error text; it does not start next to an uninstall of
\* which nothing is known yet.
DecommissionAfterUninstall ==
    \A r \in Requests :
        remote[r]["decommission"] # "none" => remote[r]["uninstall"] \in Final("uninstall")

\* A cluster leaves the System Model only after the provisioner answered for a
\* decommission of it, a failure included (manager.go:851 does not look): a
\* provisioner that cannot be reached never makes the manager forget a cluster.
RemovedAfterDecommission ==
    \A c \in Clusters :
        state[c] = "removed" =>
            \E r \in Requests : /\ req[r].cluster = c
                                /\ remote[r]["decommission"] \in Final("decommission")

\* An install is started only for a caller who asked for one, or after the
\* provisioner has answered for the provision, and not with state ERROR. An error
\* text counts as an answer that is good enough: provisionCallback does not read it.
InstallFollowsProvision ==
    \A r \in Requests :
        remote[r]["install"] # "none" =>
            req[r].kind = "install" \/ remote[r]["provision"] \in {"success", "flagged"}

\* What request q has to show for state s of a cluster it wrote; m is how far its
\* operations have come. A call that was to start an operation and failed has left
\* no operation behind to watch.
Earned(q, m, s) ==
    LET Ended(kinds) == \E p \in kinds : m[p] \in {"success", "flagged"} IN
    /\ s = "INSTALLED" => Ended({"install", "scale"})
    /\ s = "PROVISIONED" => q.kind = "install" \/ Ended({"provision", "uninstall"})
    /\ s = "FAILURE" => \/ \E p \in OpKinds : m[p] = "failed"
                        \/ q.op = "none" /\ q.pc \in {"updateSM", "updateBus", "done", "dead"}

\* However requests overlap, and whatever goes wrong, the state in which the System
\* Model shows a cluster at rest is what the component that did the work answered to
\* the request that wrote this state: none is shown INSTALLED after a failure,
\* none FAILURE after a success. An error text without FAILED / ERROR counts as a
\* success, as it does for the callbacks. Users write what they like, and a cluster that is
\* to be installed is added as PROVISIONED.
StatesAreEarned ==
    \A c \in Clusters :
        writer[c] \in Requests =>
            LET q == req[writer[c]] IN
                q.kind # "update" => Earned(q, remote[writer[c]], state[c])

\* A request that lost the reply of the call that started an operation never starts
\* it again: what has been started once, and has perhaps ended, stays started once.
StartedOnce ==
    [][\A r \in Requests : \A p \in OpKinds :
          remote[r][p] \notin {"none", "running"} => remote'[r][p] = remote[r][p]]_vars

\* Unless a reply is lost, contact is lost or the process ends, an operation that has
\* reported neither its end nor an error is watched by the request that started it:
\* no handler returns between the acceptance of an operation and the launch of its
\* monitor.
RunningIsWatched ==
    \A r \in Requests : \A p \in OpKinds :
        remote[r][p] = "running" => req[r].pc = "watch" /\ req[r].op = p

\* Clusters live the life ClusterLifecycle gives them when callers wait.
Lifecycle == INSTANCE ClusterLifecycle

ImplementsLifecycle == Lifecycle!Spec

\* A cluster does not stay in progress, however requests overlap, as long as
\* monitors keep contact and calls that take effect say so. There are two
\* exceptions: the request that has shown it in progress was cut short by an error
\* of the System Model or of the bus (dropped), or the provisioner or the installer
\* failed the call that was to start the operation, which the code tells its caller
\* and does not record (CallFailed).
Settles ==
    \A c \in Clusters :
        state[c] \in Transitional
            ~> \/ state[c] \notin Transitional
               \/ /\ writer[c] \in Requests
                  /\ req[writer[c]].dropped \/ CallFailed(req[writer[c]])

-----------------------------------------------------------------------------
\* Statements of the repository that the code does not keep

\* manager.go:362, "If successful, it will trigger the installation", and 387, "The
\* provisioning operation failed, so we should not continue with the install": a
\* provision is followed by its install only if it succeeded.
InstallsAfterSuccess ==
    \A r \in Requests :
        req[r].kind = "provision" /\ remote[r]["install"] # "none"
            => remote[r]["provision"] = "success"

\* manager.go:534, "cluster should be on installed state": a cluster begins to
\* scale only from INSTALLED.
ScalesInstalledOnly ==
    [][\A c \in Clusters :
          state[c] # "SCALING" /\ state'[c] = "SCALING" => state[c] = "INSTALLED"]_vars
=============================================================================
