# Verification of the infrastructure manager

The infrastructure manager is the component of the Nalej platform that creates,
installs, scales, uninstalls and decommissions application clusters. It keeps no
database: the state of a cluster lives in the System Model, the work is done by
the provisioner and the installer, and the manager's part is the order in which
it calls them, what it records in between, and the goroutines that wait for them.
This directory holds TLA+ modules that model that part, TLC configurations that
check them, and TLAPS proofs of what holds for any number of clusters and requests.

File names without a directory are under `src/internal/pkg/`; `manager.go` is
`server/infrastructure/manager.go`.

## Inventory

| Component | State it keeps | Operations | Talks to |
|---|---|---|---|
| Handler (`server/infrastructure/handler.go`) | none | one method per RPC: validate, draw a request id, call the manager | callers, Manager |
| Manager (`manager.go`) | connections only; per request, the local variables of a handler and of its callbacks | provision-and-install, install, scale, uninstall, uninstall-and-decommission, update, drain, cordon, uncordon, node update, reads | System Model, provisioner, installer, bus, monitors |
| Monitors (`monitor/*.go`) | remaining connection failures, last response | poll, notify (remove the record, run the callback, launch the decommission) | provisioner, installer, Manager callbacks |
| Bus manager (`bus/manager.go`) | two producers | SendEvents, SendOps | Pulsar topics |
| Discovery (`discoverCluster`, `server/discovery/k8s/discovery.go`) | a kubeconfig in a temporal file, while it runs | read the version, the nodes and the control plane host of a cluster | Kubernetes API |
| Entities (`entities/*.go`) | none | validation predicates, conversions | Handler, Manager |
| Service start (`server/service.go`, `cmd/`) | configuration | connect, listen | all of them |

External, modelled from how the manager uses them: the System Model (state of
each cluster, its nodes, its cordon status), the provisioner and the installer
(progress of each delegated operation), the bus, the Kubernetes deployment that
restarts the process.

How a request runs. A gRPC goroutine checks what it has to, writes a state that
announces the operation (`updateClusterState`: System Model first, bus second),
calls the component that does the work, and starts a monitor goroutine. The
monitor polls `CheckProgress`; on a final answer, or after the fifth failed poll,
`notify` removes the record and runs a callback, which writes the outcome and may
start the next operation: the install after a provision, the decommission after an
uninstall. Nothing orders two requests on one cluster, nothing is locked, and
nothing of a request outlives the process.

What is hard, and what makes each component correct:

* **Lifecycle operations.** Two requests interleave at every remote call; the
  check of a state and its replacement are separate calls; a call may fail with or
  without effect; each early return leaves the cluster as the previous call did.
  Correct means: a cluster shown in progress has somebody who will say how it ended,
  a destructive operation starts only after the one that must precede it, the bus and
  the System Model tell one story, states follow each other in a sensible order.
* **Monitors.** A poll may fail while the operation goes on, the loop and the callback
  both interpret the answer, and one of the answers is `nil`. Correct means: the
  callback is told the truth, once, and the loop ends.
* **Cordon, uncordon, drain.** The event is sent whatever the System Model answered;
  drain and uninstall check a status that may change before they act. Correct means: the
  last event is the status, what is drained is cordoned and gets empty, what is
  uninstalled is empty.
* **Nodes of a cluster.** Adding and attaching are two calls, in a loop that stops at
  the first error; the outcome of an install goes to the cluster and then to each node,
  with a status that was read before. Correct means: no node without a cluster and none
  that outlives it, states that agree, no report that gets lost.
* **Discovery.** One file is read twice, in a directory that all requests share, and holds
  credentials. Correct means: the answer is about one cluster, the right one, and the
  file goes away.
* **Handler and validation.** A request that passes is completed by the manager, which
  builds further requests from it that nobody validates. Correct means: what reaches the
  other components is complete, no component meets one identifier on two operations, and what is accepted
  can be served.

`PROJECT.json` lists every hazard at its line.

## Modules

| Module | Models |
|---|---|
| `InfraDefs` | the operations, their verdicts, the answers on which a monitor stops, the cluster states, and the state a callback records |
| `OperationWatch` | abstract: what a monitor promises |
| `OperationMonitor` | the four polling loops and `notify` |
| `OperationMonitorProofs` | its invariants and the refinement of `OperationWatch` |
| `ClusterLifecycle` | abstract: which cluster state may follow which |
| `ClusterOps` | the lifecycle operations of `manager.go` with their callbacks, the bus event, and what goes wrong |
| `MCClusterOps` | sets and symmetry for TLC |
| `ClusterOpsProofs` | type correctness and ownership of clusters in progress |
| `ClusterOrderProofs` | the order in which a request calls other components, what it records of their answers, that it calls once and watches what it called |
| `ClusterSerialProofs` | what holds if callers wait for each other: the bus, and the refinement of `ClusterLifecycle` |
| `Cordoning`, `CordoningProofs` | cordon, uncordon, drain, and the reads that admit an uninstall |
| `ClusterNodes`, `ClusterNodesProofs` | the nodes of a cluster: attached, updated after an install, removed |
| `DiscoveryCall` | abstract: what the rest of the manager takes a discovery for |
| `Discovery`, `DiscoveryProofs` | a discovery with its temporal file; it implements `DiscoveryCall` |
| `Admission`, `AdmissionProofs` | the handler, the validation, and the content of what the manager sends |
| `MCCordoning`, `MCClusterNodes`, `MCDiscovery`, `MCAdmission` | sets and symmetry for TLC |

The modules look at one program from several sides. `ClusterOps` has the order of the
calls and the states of clusters. It takes the monitor as `OperationWatch` describes it, a
discovery for the one step `DiscoveryCall` allows, and an uninstall check, a node or the
content of a request for whatever it may be: `Cordoning`, `ClusterNodes` and
`Admission` are about those. A request of `Cordoning` that was admitted goes on at label
`updateSM` of `ClusterOps`; one of `ClusterNodes` starts where `ClusterOps` has `add`,
`discover` or `forget`.

### OperationMonitor

One monitor, whose operation `op` is chosen at the start. `pc` is the place in
`LaunchMonitor` and `notify`; `remainingFailures` and `response` are its local
variables; `remote` is what `CheckProgress` would answer and `record` says whether the
remote component still keeps the operation; `delivered` is the callback's argument and
`failures` counts failed polls, for the properties only.

| Action | Code |
|---|---|
| `PollFails` | the error branch of the loop: the budget shrinks, the response is nil, the loop ends at zero |
| `PollAnswers` | the other branch: the loop ends on an answer of `Final(op)` |
| `NotifyPanics` | `installer.go:113`: `notify` reads the identifier of a nil response |
| `RemoveRecord` | the removal call, whose error is logged only; the decommission monitor uses the nil-safe `GetRequestId` and so may name no record |
| `Callback` | the callback |
| `RemoteGoesOn` | the remote component reports an error of an operation that goes on, or no longer does |
| `RemoteFinishes` | the remote component ends the operation |

A progress report is a status and an error text, and nothing in the code relates the two. It is
abstracted to six values. While the operation goes on: `running`, and `troubled`, which has
an error text. Once it has ended: `success`, `failed`, `canceled` (which only `OpStatus` has, and
only the decommission monitor stops on) and `flagged`, an error text with a status that is
not a failure. The loops stop on an error text whatever comes with it, so on `troubled` and
`flagged` alike (`Final`), and the callbacks do not look at it. A `troubled` operation goes
on behind the back of its monitor and may end in any way. The delays between polls are
left out.

### ClusterOps

`state[c]` is the cluster state in the System Model and `event[c]` the one last sent to
the bus. `remote[r][p]` is the progress of the operation of kind `p` that request `r`
delegated. `req[r]` holds the local variables and the place of request `r`, from its
handler through its monitors and callbacks. `writer` and the field `dropped` are history
variables that no action reads. Nobody asks for the progress of an operation after its monitor
has stopped, so `remote` keeps the report on which it stopped: `flagged` stands here for any
report with an error text, also for one of an operation that goes on.

A label of `req[r].pc` is the next remote call, or the next group of calls that
change nothing; two requests interleave at every label.

| Label | Action | Code |
|---|---|---|
| `idle` | `Receive` | a handler method, after validation |
| `discover` | `Discover` | `discoverCluster`; after a provision, the host name update and `attachNodes` too, whose errors the callback only logs |
| `add` | `AddCluster` | `AddCluster` in `addClusterToSM` |
| `describe` | `Describe` | the end of `addClusterToSM` for a provision |
| `ready` | `Ready` | `InstallCluster` up to the state check, with the cluster that `addClusterToSM` or `getCluster` read back |
| `check` | `Check` | the checks of `Scale`, and of `Uninstall`, after `GetKubeConfig` for a decommission |
| `updateSM`, `updateBus` | `UpdateSM`, `UpdateBus` | the two halves of `updateClusterState`, and of `UpdateCluster` for a user's update |
| an operation | `Call` | the call that delegates it, and `go mon.LaunchMonitor()` |
| `watch` | `MonitorNotifies`, `MonitorLosesContact` | the monitor, as `OperationWatch` describes it, and the callback up to its first remote call |
| `forget` | `Forget` | `removeClusterFromSM` |
| `done`, `dead` | | the request has returned; the process ended under it |

`OnUpdated`, `OnUpdateError` and `OnCallError` say where a request goes on: they
hold the early returns of all the operations side by side. `CallFailed` names two of them: when
the call that starts a provision or an install fails, the code returns
(`manager.go:345`, `manager.go:457`) and leaves the state in progress, where a scale and an
uninstall record FAILURE.

`MonitorNotifies` and `MonitorLosesContact` are the composition with the monitor:
instead of a copy of the polling loop, `ClusterOps` uses the two accounts
`OperationWatch` allows, `Report` and `GiveUp`, and `OperationMonitor` is proved to give
no other.

What may go wrong is a constant, `Faults`:

| Fault | Meaning |
|---|---|
| `refused` | a remote call fails and has no effect |
| `lostReply` | a remote call has its effect and the caller gets an error |
| `lostContact` | a monitor spends its connection failures |
| `noTemp` | the temporary kubeconfig file cannot be written (`manager.go:228` dereferences the name before it looks at the error, so the process ends) |
| `restart` | the process ends, with all its goroutines, and is started again |

Cordon status and deployed applications, which `canUninstallCluster` asks for, belong
to other components: `Check` takes either answer, and `Cordoning` says which.

### Cordoning

The System Model keeps the status of a cluster, a pair: `online[c]` and `cordoned[c]`
(ONLINE or OFFLINE, with or without `_CORDON`), and where each service runs
(`deployedOn`). `announced[c]` is what the bus was last told and `drains` the operations
queue. `pc[r]` is the next remote call of request `r`; `seen[r]` is the local variable
`cluster` of `canUninstallCluster`, reduced to the comparison it ends in.

| Label | Action | Code |
|---|---|---|
| `idle` | `Receive` | the handler, after validation |
| `toggle`, `announce` | `Toggle`, `Announce` | the two calls of `CordonCluster` and `UncordonCluster` |
| `check`, `send` | `CheckCordoned`, `SendDrain` | `DrainCluster` |
| `read`, `list`, `begin` | `ReadStatus`, `ListApps`, `BeginUninstall` | `canUninstallCluster` and the first update of `Uninstall` |

`ConnectivityChanges`, `Deploy`, `Undeploy` and `ServeDrain` are other components. That a
service is placed only on a cluster that is not cordoned is what cordoning is for
(`manager.go:650`); the conductor does it, and it is assumed here, in the strong form that
placement obeys the status in the System Model at once. A conductor that follows the events of
the bus instead would lag behind, and `AcceptedIsEmpty` would hold of it only once the
event has arrived.

### ClusterNodes

A node has a place in the System Model (`life`), a cluster (`owner`), a state and a
status. `left[r]` is what remains of the loop of `attachNodes`, `fresh[r]` its local
`addedNode`, `listed[r]` and `readStatus[r]` the answer of the last `ListNodes`.

| Label | Action | Code |
|---|---|---|
| `attach`, `join` | `AddNode`, `AttachNode` | one turn of `attachNodes`; `AttachFails` is what its two callers do with an error |
| `install` | `Install` | `InstallCluster` up to the monitor, in one step |
| `watch`, `record` | `MonitorNotifies`, `RecordState` | `installCallback` up to its update of the cluster |
| `listUpdate`, `update` | `ListToUpdate`, `UpdateNode` | its loop over the nodes |
| `listRemove`, `removeNodes`, `removeCluster` | `ListToRemove`, `RemoveNodes`, `RemoveCluster` | `removeClusterFromSM` |

The states of a cluster in between (`INSTALL_IN_PROGRESS` and the like) are left to
`ClusterOps`. `OpStatusToNodeState` is translated as it is (`NodeStatesOf`): an error text
that comes without FAILED marks the cluster INSTALLED and leaves its nodes in any state, and
`NodesAgreeWithCluster` leaves it out for that.

### Discovery

A kubeconfig is the set of clusters it defines and the cluster of its current context.
Without a current context client-go falls back to the cluster of the pod it runs in, `Home`
(`Target`). `files` and `disk` are the temporal directory. Each request stores its file, and every exit of
`discoverCluster` removes it, in the same step as its last call: the removal is deferred and
nothing remote happens in between.

| Label | Action | Code |
|---|---|---|
| `store` | `StoreConfig`, `StoreFails` | `writeTempFile`; when it fails, nothing, an empty file or a file with content is left under a name that is lost, and the deferred removal dereferences nil |
| `validate` | `Validate` | `DiscoveryHelper.Validate`, the first reading of the file |
| `connect` | `Connect` | the rest of `Connect`, the second reading |
| `version`, `nodes` | `ServerVersion`, `ListNodes` | the two calls of `Discover` |

`Call == INSTANCE DiscoveryCall` maps the labels to `idle`, `pending` and the answers.

### Admission

A request is the set of its fields that are given. `Receive` takes every such set, so that
TLC tries every combination of fields of every call. `Valid` is the predicate the handler
asks, `Stamp` the identifier it draws, and the other actions are the messages the
manager sends on behalf of the request, in the order of the code and with the fields the
code puts in them. `sent` collects them. States of clusters are not here: `Fail` may end a
request at any step instead.

## Runs

| Run | Instance | What it shows |
|---|---|---|
| `monitor` | each kind of monitor, `MaxConnFailures = 5` as in the code | a callback is told what the loop is made to stop on, and unless that is an error of an operation that goes on, it is how the operation ended (`NoFalseVerdict`); the loop gives up exactly when the budget is spent (`FailureBudget`); it implements `OperationWatch`; it ends unless the installer cancels (`EndsUnlessCanceled`) |
| `ops_overlap` | 2 clusters, 2 requests of any kind, every fault and verdict, overlapping callers | what needs no assumption on callers: `InProgressHasOwner`, `DecommissionAfterUninstall`, `RemovedAfterDecommission`; an install starts only after its provision was answered, and not with ERROR (`InstallFollowsProvision`); the state in which a cluster is shown at rest is what its writer was answered (`StatesAreEarned`); no request starts an operation again (`StartedOnce`) |
| `ops_serial` | 1 cluster, 2 requests, every fault; a caller names a cluster only when no request on it is running | the states follow `ClusterLifecycle`; the bus follows the System Model but for the request that is about to send or was cut short (`EventsFollowModel`) |
| `ops_watched` | 1 cluster, 2 overlapping requests, refused calls only, no cancellation, with fairness | every running remote operation has its monitor (`RunningIsWatched`); a cluster in progress settles, unless an error of the System Model or the bus cut its request short or the call that was to start its operation failed (`Settles`) |
| `cordoning` | 1 cluster, 3 overlapping calls, 1 service, every fault, with fairness | an admitted uninstall has an empty cluster, for as long as nobody has uncordoned it since its status was read (`AcceptedIsEmpty`); status and last event differ only around the last toggle, or after an error of it or a toggle that crossed it (`EventsFollowStatus`); only cordoned clusters are drained, but for an uncordon between the check of a drain and its message (`DrainsCordonedOnly`); a drain that passed its check ends in an empty cluster, an error that is told, an uncordon, or the end of the process (`DrainEmpties`) |
| `nodes` | 1 cluster, 2 nodes, 2 overlapping requests, every fault | a request leaves at most one node without a cluster and only after an error (`OrphansAreFew`); after a callback without errors nodes agree with their cluster (`NodesAgreeWithCluster`); a reported status is lost only between its listing and its update (`StatusLostOnlyInUpdate`); unless a removal runs into other work, no node stays with a removed cluster (`NoNodeOutlivesCluster`), and only a provision that met an error hands its cluster to the installer short of nodes (`OnlyProvisionsInstallShort`) |
| `discovery` | 2 discoveries, 2 Kubernetes clusters, 2 file names, every fault | the answer is about the one cluster of the request's own kubeconfig, but for a kubeconfig without current context (`DescribesOwnCluster`); a kubeconfig stays on disk only if the process ended over it (`KubeConfigsDoNotStay`); the whole is one step for its callers (`ImplementsCall`) |
| `admission` | 2 requests, 4 identifiers: every call with every set of fields, next to any provision | what the installer and the provisioner get is complete (`InstallerGetsComplete`, `ProvisionerGetsComplete`); neither of them gets two operations under one identifier (`IdsTellOperationsApart`) |

Four runs are expected to be violated. Each checks what a comment or an error text of the
repository says.

| Run | Statement | What happens |
|---|---|---|
| `monitor_canceled` | `installer.go:72`, the monitor is "waiting for it to complete" | the installer loop does not know CANCELED and polls for ever; the decommission loop does know it (`decomissioner.go:81`) |
| `monitor_lost_contact` | `monitor.go:23`, the failures allowed "until the monitor exists" (exits) | `notify` dereferences the nil response and the whole process ends |
| `ops_flagged` | `manager.go:362`, `manager.go:387`: installed "if successful", and after a failure "we should not continue with the install" | the callback reads the state only: a provision that stopped its monitor by an error text is PROVISIONED and gets installed |
| `ops_scale_race` | `manager.go:534`, "cluster should be on installed state" | two requests read INSTALLED before either writes SCALING |

Further places where the code and the repository's words differ, met while modelling. The
models contain the behaviour; no run is kept for them.

* `installer.go:110` (and the other three `notify`), the callback is told "that the installation
  has finished": a report with an error text ends the loop in progress too, so the record is
  removed and the callback runs while the operation goes on (`troubled`, `NoFalseVerdict`).
* `validator.go:239`, "node_id cannot be empty": the check is inverted, and an update of a node
  passes only when it names none (`ValidUpdateNodeRequest` of `Admission`).
* `manager.go:773`, the decommission "frees the resources": one that FAILED is followed by the
  removal of the cluster all the same (`OnResponse`, `Forget`).
* `manager.go:633`, "must be cordoned before draining": a cluster that is uncordoned between the
  check and the message is drained (`DrainsCordonedOnly` without its exception for `reopened`).
* `manager.go:877`, no uninstall of a target that "has deployed applications": a cluster that is
  uncordoned and used between the reads and the update of the state is uninstalled
  (`AcceptedIsEmpty` without its exception for `reopened`).
* `manager.go:95` returns "cannot create temporal file": the deferred removal panics first
  (`StoreFails` of `Discovery`).
* `validator.go:53`, a valid install has "all the required credentials": user name, private key
  and nodes are accepted, and discovery then wants a kubeconfig (`noKubeConfig` of `Admission`).
* `handler_it_test.go:177` installs a cluster under an identifier of its own and expects success:
  `ValidInstallRequest` rejects the identifier.

Three weaknesses contradict no sentence of the repository. The properties name them as exceptions
and say that there is no other of the kind.

* A provision or an install that the other side refuses stays in progress for ever
  (`manager.go:345`, `manager.go:457`; `CallFailed`).
* A kubeconfig without current context describes one cluster with the nodes of another (`Home`).
* After a failed write or close the kubeconfig stays on disk, and the process ends before anybody
  knows the name of the file (`manager.go:97`, `manager.go:101`; `StoreFails`).

Every property of a passing run has a mutant in `PROJECT.json`: a plausible bug in one
definition under which the property fails.

### Bounds

* `Clusters`: identifiers the System Model can give out. When none is fresh,
  `AddCluster` is refused, which the System Model may do anyway. Two are enough for
  requests that share a cluster and for requests that do not; no action relates two
  clusters. Initially a cluster is not known yet or INSTALLED.
* `Requests`: each is served once. Two give every pairwise interleaving, among them a
  decommission against each other operation. A third would add a third writer between a
  check and its write; what the proofs cover is free of this bound.
* `ops_flagged` needs one cluster, provisions and no fault: what it shows is the reading of one
  report.
* The runs with a serial caller and temporal properties use one cluster, for the same
  reason and because symmetry is not sound for them. The same holds of `ops_watched` and
  `cordoning`.
* `SomeUserStates`: a user writes a resting state and one that announces an operation.
* `failures` is bounded by the budget itself. There is no other counter.
* `Cordoning`: an uninstall or a drain, a toggle that races it and a third call are enough for
  every property: each relates one request to those that cross it, and a third is needed to
  repair what two left. `MixedKinds` bounds what the three may be: one is of any kind, one
  cordons or uncordons, one does anything but cordon; so every pair of kinds occurs but two
  drains or uninstalls with a third that is one too. One service makes a cluster not empty.
* `ClusterNodes`: `MaxNodes = 2` makes the loops turn twice, so that the second turn may fail
  after the first; with two requests that attach, the third node is refused for want of an
  identifier, which is one more failure. Overlapping removals and updates of one cluster
  need two requests.
* `Discovery`: two files and two requests, so that files may meet, and one that was left behind
  takes a name; two Kubernetes clusters, so that a kubeconfig may define none, one or both, and one
  of them is the manager's own.
* `Admission`: requests meet only in identifiers. One request is every call; the other is the
  call whose identifier its caller chooses. Four identifiers are what two callers and their
  two stamps use up.
* Symmetry is used for invariants, and for `StartedOnce`, which speaks of single steps. The sets it permutes are sets of model values.

### Fairness

* `OperationMonitor!FairSpec`: `WF(PollAnswers)`, `WF` on the steps of `notify`, and
  `WF(RemoteFinishes)`. A goroutine in the loop polls again after at most a delay, and
  every poll returns. A poll that fails is never forced: the budget allows it five times,
  after which the loop has ended. The remote component is assumed to end what it accepted, but
  not to report errors on the way: `RemoteGoesOn` has no fairness.
* `ClusterOps!FairSpec`: weak fairness for the steps of each request and for the end of
  each remote operation. Callers, faults and restarts owe nothing.
* `Cordoning!FairSpec`: weak fairness for the steps of each call and for the conductor on its
  queue, nothing for users, connectivity, callers and faults: `DrainEmpties` names what
  they may do to a drain.
* All assume that remote calls return. The code gives most of them a deadline; several
  have none (`context.Background()` at `manager.go:344` and in every `CheckProgress`),
  and for those it is an assumption about the other side.

## Proofs

`OperationMonitorProofs`, for every `MaxConnFailures > 0`: `TypeCorrect`, `BudgetKept`,
`NoFalseVerdictDelivered`, and `MonitorImplementsWatch`, the refinement of
`OperationWatch`. The inductive invariant adds to the checked properties that a
response kept after the loop is one of `Final`, and the current answer of the remote component
unless it is `troubled`: an operation that has ended cannot answer otherwise any more, one that
goes on can. The refinement takes each action to `Finish`,
`Report`, `GiveUp` or a stutter.

`ClusterOpsProofs`, for all sets of clusters and requests, every choice of faults,
verdicts and kinds, overlapping callers or not: `TypeCorrect` and `OwnershipKept`
(`InProgressHasOwner`). The invariant is not inductive as it stands, and `IInv` adds

* `Requested`: a request that is writing has a state to write, and one that has no
  cluster yet is where the code has none (without it `TypeOK` is not inductive either);
* `WriterNamesCluster`: whoever wrote a cluster last names that cluster, unless its reply
  was lost, so that the end of a request concerns its own cluster only;
* `BusAnnouncesState`: between the two halves of `updateClusterState`, if nobody else has
  written since, the cluster holds the state that is about to be announced.

Every action but `AddCluster`, `UpdateSM` and `Forget` changes one request and no
cluster. `QuietInv` proves the invariant for those from two facts: the request keeps its
cluster and its type, and, if it was excused for its cluster, still is. `WritingInv` does
it for the three that write, and `KilledInv` for the ones that end the process. Each
action then has one lemma that establishes these premises.

`ClusterOrderProofs`, under the same generality: `DecommissionFollowsUninstall`,
`RemovalFollowsDecommission` and `InstallsFollowProvisions`. The three properties speak of
what has been called; the code keeps them by where a request is. `OInv` therefore says, for
each request, which operation it has watched last at each place (`Places`), what has become
of the uninstall and the decommission by then (`Freeing`), and of the provision and the
install (`Growing`). It is a statement about one request at a time, so other requests cannot
disturb it; each action has one lemma. `RemovedInv` adds the cluster: one that is removed is
named by a request that heard of its decommission, and such a request has only its removal
left to do.

The same module has three more theorems.

* `RestIsEarned` (`StatesAreEarned`) and `NeverStartedAgain` (`StartedOnce`), without assumptions.
  The invariant under both is `Records`, again about one request: the state it is about to
  write is earned by an answer it has got, what it has started is behind it (`CallsFirst`:
  where a request calls, `remote` still has "none"), and an error that cut a write short
  leaves it nothing but to return, or to go on with a decommission. The step that writes
  carries `Earned` from the request to the cluster. Afterwards only two things could take it
  back: the request moves on, which loses nothing once an answer is there (`OneStill`), or
  somebody else writes, who then has to have earned it. A FAILURE after a refused call has no
  answer to show; the request that wrote it returns, and there `WriterNamesCluster` and
  `BusAnnouncesState` are needed again.
* `OperationsWatched` (`RunningIsWatched`), under `Faults \subseteq {"refused"}`. The
  hypothesis is what the property is about: after a lost reply, a lost contact or a restart an
  operation runs that nobody watches, and the code does nothing against it. Under it
  the property is inductive for each request alone.

`ClusterSerialProofs`, under `Overlap = FALSE` and for any number of clusters and requests and
every fault: `BusFollows` (`EventsFollowModel`), and, if users do not write states
(`"update" \notin Kinds`), `LifecycleImplemented` (`ImplementsLifecycle`). The manager does not
make callers wait: both hypotheses are on its callers. A user may write any state at all, after which no order of states can be promised; the bus
follows those too. The invariant `SInv` is

* `OneAtWork`: no two live requests are about one cluster, a cluster that was just added included;
* `NamesKnown`: a cluster that a request names is known, so that `AddCluster` never takes it;
* `StateShows`: the state a request finds is the one it left, so that the state it writes next is
  a successor of it (`Shows`), whatever has failed on the way there.

`StateShows` needs the others because a second request could write in between, and `OInv` because
the place of a request alone does not say whether a write of PROVISIONED follows a
discovery, a provision or an uninstall. Each step then is a step of `ClusterLifecycle` or
leaves every state alone (`StepAdvances`). For the bus, whoever wrote a cluster last is `Behind`
until it has sent the event, and stays so for ever after an error (`Kept`).

`CordoningProofs`: `CordonTypeCorrect`, `AdmittedClusterIsEmpty`, `LastToggleIsAnnounced` and
`OnlyCordonedAreDrained`, for every set of clusters, services and requests. `AcceptedIsEmpty`
speaks of requests that have been admitted; the invariant goes back to the read of the
status: from `list` on, a cluster that was seen cordoned, and that nobody uncordoned since, is
still cordoned, and from `begin` on it is empty too. A cordoned cluster gets no
service, so it stays empty. The same argument, one label long, is that of a drain between its
check and its message (`SendsCordoned`). For the events, a history variable `crossed` collects
the toggles of one cluster that were served at the same time, and the invariant says that a
toggle outside it is the only one of its cluster.

`ClusterNodesProofs`: `NodesTypeCorrect`, `FewOrphans`, `StatusLostInUpdateOnly`,
`OutcomeIsOnNodes`, `ClusterGoesLast` and `OnlyProvisionsShort`, without assumptions on callers. Each has an
invariant of its own on top of the types. A node without a cluster is traced to the
request that added it, which adds no other once it has met an error. A status that was
listed is still the reported one until a later report puts the node into `overtaken`. Nodes
are divided into those a callback has updated and those it has listed and not reached. Of
a removal that ran into no other work, the nodes of its cluster are those it has listed.
The last one counts: between two turns of `attachNodes` the nodes of the cluster and the
turns that remain add up to the nodes that were discovered (`Counted`), for any number of
them and after any error, unless the request is a provision that goes on after one. A turn adds one to the one and takes one from the other by the library's facts on
cardinality, which need the set of attached nodes to be finite (`FiniteAttached`), and a
cluster that was given out is not given out again (`GivenOut`).

`DiscoveryProofs`: `DiscoveryTypeCorrect`, `OwnClusterDescribed`, `NoKubeConfigStays` and
`DiscoveryImplementsCall`, for any number of discoveries. The invariant: a running discovery
owns its file, which is in the directory with its own kubeconfig and is nobody else's; a file
with content that no running discovery owns holds the kubeconfig of one the process ended
under. It follows that both readings agree. Every step maps to one of `DiscoveryCall` or a stutter.

`AdmissionProofs`: `AdmissionTypeCorrect`, `InstallerRequestsComplete`,
`ProvisionerRequestsComplete`, `OperationsToldApart`, for every set of calls and identifiers.
The invariant says which fields a request keeps from its validation on (`HasFields`), which
callbacks rely on; that a stamped identifier is in use and nobody else's (`OwnIds`); and that
a message carries the one of its request (`SentIds`). Two operations of one request share it, so
`OperationsToldApart` also needs that they go to different components: a second invariant,
`SentOnce`, says which operation a request has asked for at each place from which it may ask for
another.

Assumptions: the named `ASSUME`s of the modules, which give the constants their types, and the
hypotheses named above, which stand in the theorems themselves.

Only model-checked: liveness (`EndsUnlessCanceled`, `Settles`, `DrainEmpties`), which is out of
the prover's reach. Every other property of a passing run is a theorem. The statements of the
runs that are violated are not.

## Not modelled

* Service start, configuration and connections: straight-line code that ends the process
  on the first error, before any request is served.
* What is read from a node of Kubernetes (`entities/cluster.go`), names, host names, versions,
  labels but for their validity: data that no decision depends on.
* `removeClusterNodes`, `StateToStatus` and `InstallStateToNodeState`, which have no caller.
* Calls that never return (see Fairness) and the delays between polls.
* Other components, but for what the modules assume of them: the System Model gives fresh
  identifiers and rejects updates of what it does not hold; `ioutil.TempFile` returns a
  free name and a file that was written can be removed; the Kubernetes client connects to
  the cluster of the current context or, without one, to the pod's own; nothing is placed on a
  cluster that the System Model holds cordoned.

## Plan

1. (done) `OperationMonitor` with `OperationWatch`, and `ClusterOps` with
   `ClusterLifecycle`: the heart of the manager, first because every hazard with lasting
   consequences is there. First theorems: types, failure budget, truth of verdicts,
   refinement of the monitor, ownership, order of the delegated calls.
2. (done) `Cordoning`: cordon status and services in the System Model, drains and the checks of
   an uninstall against each other and against users.
3. (done) `ClusterNodes`: nodes added, updated and removed one by one, with errors in between.
4. (done) `Discovery` with `DiscoveryCall`: the temporal file, its failure, its removal.
5. (done) `Admission`: the predicates of `entities/validator.go` against what the manager makes
   of the requests they accept.
6. (done) The invariants and the refinement of 2 to 5 as theorems.
7. (done) Theorems on `ClusterOps` under serial callers: `EventsFollowModel`, the refinement of
   `ClusterLifecycle`, and `RunningIsWatched` when calls are only refused.
8. (done) The nodes of an install by counting; `StatesAreEarned` and `StartedOnce`, checked and
   proved.
9. (done) Reports with an error text as what they are: of an operation that may go on, and not a
   success (`NoFalseVerdict`, `ops_flagged`). The exceptions of the properties named one by one
   instead of as "any error": `CallFailed`, `reopened`, `OnlyProvisionsInstallShort`, the files
   that a failed write leaves behind.
