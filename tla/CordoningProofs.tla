--------------------------- MODULE CordoningProofs ---------------------------
(***************************************************************************)
(* What holds of cordoning, draining and the checks of an uninstall for    *)
(* every set of clusters, services and requests, and every fault.          *)
(***************************************************************************)
EXTENDS Cordoning, TLAPS

USE CordonNoneAssumption, CordonKindsAssumption, CordonFaultsAssumption

-----------------------------------------------------------------------------
\* The inductive invariant. Requests name a cluster once they are received and
\* sit at labels of their own operation; an uninstall is not answered before it
\* begins. From the moment it has read ONLINE_CORDON its cluster is closed, and
\* from the moment it has listed the services its cluster is also empty.

Named == \A r \in Requests : pc[r] # "idle" => target[r] \in Clusters

AtOwnLabels ==
    \A r \in Requests :
        /\ pc[r] \in {"toggle", "announce"} => kind[r] \in {"cordon", "uncordon"}
        /\ pc[r] \in {"check", "send"} => kind[r] = "drain"
        /\ pc[r] \in {"read", "list", "begin"} => kind[r] = "uninstall"
        /\ pc[r] \in {"idle", "read", "list", "begin"} => answer[r] = "none"

\* The request relies on its cluster being closed; and being empty too.
ReliesOnCordon(r) == (pc[r] = "list" /\ seen[r]) \/ pc[r] = "begin" \/ Accepted(r)
ReliesOnEmpty(r)  == pc[r] = "begin" \/ Accepted(r)

ClosedSince ==
    \A r \in Requests :
        r \notin reopened =>
            /\ ReliesOnCordon(r) => cordoned[target[r]]
            /\ ReliesOnEmpty(r) => Empty(target[r])

IInv == TypeOK /\ Named /\ AtOwnLabels /\ ClosedSince

LEMMA InitInv == Init => IInv
BY DEF Init, IInv, TypeOK, Named, AtOwnLabels, ClosedSince, ReliesOnCordon,
       ReliesOnEmpty, Accepted, Labels

LEMMA StutterInv == IInv /\ UNCHANGED vars => IInv'
BY DEF IInv, TypeOK, Named, AtOwnLabels, ClosedSince, ReliesOnCordon,
       ReliesOnEmpty, Accepted, Empty, vars, model, calls, history

-----------------------------------------------------------------------------
\* The steps of a request

LEMMA ReceiveInv ==
    ASSUME IInv, NEW r \in Requests, Receive(r)
    PROVE  IInv'
<1> USE DEF Receive, model
<1>a. Kinds[r] \subseteq AllKinds
  OBVIOUS
<1>1. TypeOK'
  <2>1. \A k \in Kinds[r] : FirstStep(k) \in Labels
    BY <1>a DEF FirstStep, Labels, AllKinds
  <2>2. QED
    BY <1>a, <2>1 DEF IInv, TypeOK, Crosses, About
<1>2. Named'
  BY DEF IInv, TypeOK, Named
<1>3. AtOwnLabels'
  <2>1. PICK k \in Kinds[r] : kind' = [kind EXCEPT ![r] = k] /\ pc' = [pc EXCEPT ![r] = FirstStep(k)]
    OBVIOUS
  <2>2. k \in AllKinds
    BY <1>a
  <2>3. QED
    BY <2>1, <2>2 DEF IInv, TypeOK, AtOwnLabels, FirstStep, AllKinds
<1>4. ClosedSince'
  <2>1. PICK k \in Kinds[r] : kind' = [kind EXCEPT ![r] = k] /\ pc' = [pc EXCEPT ![r] = FirstStep(k)]
    OBVIOUS
  <2>2. FirstStep(k) \notin {"list", "begin"} /\ k \in AllKinds
    BY <1>a DEF FirstStep, AllKinds
  <2>3. QED
    BY <2>1, <2>2 DEF IInv, TypeOK, AtOwnLabels, ClosedSince, ReliesOnCordon,
                      ReliesOnEmpty, Accepted, Empty
<1>5. QED
  BY <1>1, <1>2, <1>3, <1>4 DEF IInv

LEMMA ToggleInv ==
    ASSUME IInv, NEW r \in Requests, Toggle(r)
    PROVE  IInv'
<1>1. TypeOK'
  BY DEF Toggle, IInv, TypeOK, Slips, Told, Labels
<1>2. Named' /\ AtOwnLabels'
  BY DEF Toggle, IInv, TypeOK, Named, AtOwnLabels, Told
<1>3. ClosedSince'
  <2> SUFFICES ASSUME NEW x \in Requests, x \notin reopened'
               PROVE  /\ ReliesOnCordon(x)' => cordoned'[target'[x]]
                      /\ ReliesOnEmpty(x)' => Empty(target[x])'
    BY DEF ClosedSince
  <2>1. kind[r] \in {"cordon", "uncordon"} /\ target[r] \in Clusters
    BY DEF Toggle, IInv, AtOwnLabels, Named
  <2>2. CASE x = r
    BY <2>1, <2>2 DEF Toggle, IInv, TypeOK, ReliesOnCordon, ReliesOnEmpty, Accepted
  <2>3. CASE x # r
    <3>1. /\ ReliesOnCordon(x)' = ReliesOnCordon(x)
          /\ ReliesOnEmpty(x)' = ReliesOnEmpty(x)
          /\ target'[x] = target[x]
          /\ Empty(target[x])' = Empty(target[x])
      BY <2>3 DEF Toggle, IInv, TypeOK, ReliesOnCordon, ReliesOnEmpty, Accepted, Empty
    <3>2. x \notin reopened
      BY DEF Toggle
    <3>3. ReliesOnCordon(x) /\ cordoned[target[x]] => cordoned'[target[x]]
      <4>1. CASE UNCHANGED cordoned
        BY <4>1
      <4>2. CASE /\ cordoned' = [cordoned EXCEPT ![target[r]] = (kind[r] = "cordon")]
                 /\ reopened' = reopened \cup
                       {y \in Requests : /\ kind[r] = "uncordon"
                                         /\ kind[y] = "uninstall" \/ pc[y] = "send"
                                         /\ target[y] = target[r]}
        <5>1. kind[r] = "cordon" \/ target[x] # target[r] \/ kind[x] # "uninstall"
          BY <4>2, <2>1
        <5>2. cordoned \in [Clusters -> BOOLEAN]
          BY DEF IInv, TypeOK
        <5>3. CASE target[x] # target[r]
          BY <4>2, <5>2, <5>3, <2>1
        <5>4. CASE target[x] = target[r] /\ kind[r] = "cordon"
          BY <4>2, <5>2, <5>4, <2>1
        <5>5. ReliesOnCordon(x) => kind[x] = "uninstall"
          BY DEF ReliesOnCordon, Accepted, IInv, AtOwnLabels
        <5>6. QED
          BY <5>1, <5>3, <5>4, <5>5
      <4>3. QED
        BY <4>1, <4>2 DEF Toggle
    <3>4. QED
      BY <3>1, <3>2, <3>3 DEF IInv, ClosedSince
  <2>4. QED
    BY <2>2, <2>3
<1>4. QED
  BY <1>1, <1>2, <1>3 DEF IInv

LEMMA AnnounceInv ==
    ASSUME IInv, NEW r \in Requests, Announce(r)
    PROVE  IInv'
<1> USE DEF Announce, GoTo, Slips, model
<1>1. TypeOK'
  BY DEF IInv, TypeOK, Labels
<1>2. Named' /\ AtOwnLabels'
  BY DEF IInv, TypeOK, Named, AtOwnLabels
<1>3. ClosedSince'
  BY DEF IInv, TypeOK, AtOwnLabels, ClosedSince, ReliesOnCordon, ReliesOnEmpty,
         Accepted, Empty
<1>4. QED
  BY <1>1, <1>2, <1>3 DEF IInv

LEMMA CheckCordonedInv ==
    ASSUME IInv, NEW r \in Requests, CheckCordoned(r)
    PROVE  IInv'
<1> USE DEF CheckCordoned, GoTo, Return, model, history
<1>1. TypeOK'
  BY DEF IInv, TypeOK, Labels
<1>2. Named' /\ AtOwnLabels'
  BY DEF IInv, TypeOK, Named, AtOwnLabels
<1>3. ClosedSince'
  BY DEF IInv, TypeOK, AtOwnLabels, ClosedSince, ReliesOnCordon, ReliesOnEmpty,
         Accepted, Empty
<1>4. QED
  BY <1>1, <1>2, <1>3 DEF IInv

LEMMA SendDrainInv ==
    ASSUME IInv, NEW r \in Requests, SendDrain(r)
    PROVE  IInv'
<1> USE DEF SendDrain, Return, Told, model, history
<1>1. TypeOK'
  BY DEF IInv, TypeOK, Labels
<1>2. Named' /\ AtOwnLabels'
  BY DEF IInv, TypeOK, Named, AtOwnLabels
<1>3. ClosedSince'
  BY DEF IInv, TypeOK, AtOwnLabels, ClosedSince, ReliesOnCordon, ReliesOnEmpty,
         Accepted, Empty
<1>4. QED
  BY <1>1, <1>2, <1>3 DEF IInv

LEMMA ReadStatusInv ==
    ASSUME IInv, NEW r \in Requests, ReadStatus(r)
    PROVE  IInv'
<1> USE DEF ReadStatus, GoTo, Return, model
<1>1. TypeOK'
  BY DEF IInv, TypeOK, Named, Labels
<1>2. Named' /\ AtOwnLabels'
  BY DEF IInv, TypeOK, Named, AtOwnLabels
<1>3. ClosedSince'
  BY DEF IInv, TypeOK, Named, AtOwnLabels, ClosedSince, ReliesOnCordon,
         ReliesOnEmpty, Accepted, Empty
<1>4. QED
  BY <1>1, <1>2, <1>3 DEF IInv

LEMMA ListAppsInv ==
    ASSUME IInv, NEW r \in Requests, ListApps(r)
    PROVE  IInv'
<1> USE DEF ListApps, GoTo, Return, model, history
<1>1. TypeOK'
  BY DEF IInv, TypeOK, Labels
<1>2. Named' /\ AtOwnLabels'
  BY DEF IInv, TypeOK, Named, AtOwnLabels
<1>3. ClosedSince'
  BY DEF IInv, TypeOK, AtOwnLabels, ClosedSince, ReliesOnCordon, ReliesOnEmpty,
         Accepted, Empty
<1>4. QED
  BY <1>1, <1>2, <1>3 DEF IInv

LEMMA BeginUninstallInv ==
    ASSUME IInv, NEW r \in Requests, BeginUninstall(r)
    PROVE  IInv'
<1> USE DEF BeginUninstall, Return, Told, model, history
<1>1. TypeOK'
  BY DEF IInv, TypeOK, Labels
<1>2. Named' /\ AtOwnLabels'
  BY DEF IInv, TypeOK, Named, AtOwnLabels
<1>3. ClosedSince'
  BY DEF IInv, TypeOK, AtOwnLabels, ClosedSince, ReliesOnCordon, ReliesOnEmpty,
         Accepted, Empty
<1>4. QED
  BY <1>1, <1>2, <1>3 DEF IInv

LEMMA RestartInv == IInv /\ Restart => IInv'
<1> SUFFICES ASSUME IInv, Restart
             PROVE  IInv'
  OBVIOUS
<1> USE DEF Restart, model
<1>1. TypeOK'
  BY DEF IInv, TypeOK, Labels
<1>2. Named' /\ AtOwnLabels'
  BY DEF IInv, TypeOK, Named, AtOwnLabels, Live
<1>3. ClosedSince'
  BY DEF IInv, TypeOK, ClosedSince, ReliesOnCordon, ReliesOnEmpty, Accepted,
         Empty, Live
<1>4. QED
  BY <1>1, <1>2, <1>3 DEF IInv

-----------------------------------------------------------------------------
\* The steps of the other components

LEMMA EnvironmentInv == IInv /\ Environment => IInv'
<1> SUFFICES ASSUME IInv, Environment
             PROVE  IInv'
  OBVIOUS
<1> USE DEF others, calls, history
<1>1. ASSUME NEW c \in Clusters, ConnectivityChanges(c)
      PROVE  IInv'
  BY <1>1 DEF ConnectivityChanges, IInv, TypeOK, Named, AtOwnLabels, ClosedSince,
              ReliesOnCordon, ReliesOnEmpty, Accepted, Empty
<1>2. ASSUME NEW s \in Services, NEW c \in Clusters, Deploy(s, c)
      PROVE  IInv'
  <2>1. TypeOK' /\ Named' /\ AtOwnLabels'
    BY <1>2 DEF Deploy, IInv, TypeOK, Named, AtOwnLabels
  <2>2. ClosedSince'
    <3> SUFFICES ASSUME NEW x \in Requests, x \notin reopened
                 PROVE  /\ ReliesOnCordon(x) => cordoned[target[x]]
                        /\ ReliesOnEmpty(x) => Empty(target[x])'
      BY <1>2 DEF Deploy, ClosedSince, ReliesOnCordon, ReliesOnEmpty, Accepted
    <3>1. ReliesOnEmpty(x) => cordoned[target[x]] /\ Empty(target[x])
      BY DEF IInv, ClosedSince, ReliesOnCordon, ReliesOnEmpty
    <3>2. cordoned[target[x]] => target[x] # c
      BY <1>2 DEF Deploy
    <3>3. QED
      BY <1>2, <3>1, <3>2 DEF Deploy, IInv, TypeOK, ClosedSince, Empty
  <2>3. QED
    BY <2>1, <2>2 DEF IInv
<1>3. ASSUME NEW s \in Services, Undeploy(s)
      PROVE  IInv'
  <2>1. TypeOK' /\ Named' /\ AtOwnLabels'
    BY <1>3 DEF Undeploy, IInv, TypeOK, Named, AtOwnLabels
  <2>2. \A x \in Requests : ReliesOnEmpty(x) => target[x] \in Clusters
    BY DEF IInv, Named, AtOwnLabels, ReliesOnEmpty, Accepted
  <2>3. ClosedSince'
    BY <1>3, <2>2 DEF Undeploy, IInv, TypeOK, ClosedSince, ReliesOnCordon,
                      ReliesOnEmpty, Accepted, Empty
  <2>4. QED
    BY <2>1, <2>3 DEF IInv
<1>4. ASSUME NEW r \in Requests, ServeDrain(r)
      PROVE  IInv'
  <2>1. TypeOK' /\ Named' /\ AtOwnLabels'
    BY <1>4 DEF ServeDrain, IInv, TypeOK, Named, AtOwnLabels
  <2>2. \A x \in Requests : ReliesOnEmpty(x) => target[x] \in Clusters
    BY DEF IInv, Named, AtOwnLabels, ReliesOnEmpty, Accepted
  <2>3. ClosedSince'
    BY <1>4, <2>2 DEF ServeDrain, IInv, TypeOK, ClosedSince, ReliesOnCordon,
                      ReliesOnEmpty, Accepted, Empty
  <2>4. QED
    BY <2>1, <2>3 DEF IInv
<1>5. QED
  BY <1>1, <1>2, <1>3, <1>4 DEF Environment

LEMMA StepInv == IInv /\ [Next]_vars => IInv'
<1> SUFFICES ASSUME IInv, [Next]_vars
             PROVE  IInv'
  OBVIOUS
<1>1. ASSUME NEW r \in Requests, Receive(r)
      PROVE  IInv'
  BY <1>1, ReceiveInv
<1>2. ASSUME NEW r \in Requests, Step(r)
      PROVE  IInv'
  BY <1>2, ToggleInv, AnnounceInv, CheckCordonedInv, SendDrainInv, ReadStatusInv,
     ListAppsInv, BeginUninstallInv DEF Step
<1>3. CASE Restart
  BY <1>3, RestartInv
<1>4. CASE Environment
  BY <1>4, EnvironmentInv
<1>5. CASE UNCHANGED vars
  BY <1>5, StutterInv
<1>6. QED
  BY <1>1, <1>2, <1>3, <1>4, <1>5 DEF Next

-----------------------------------------------------------------------------
LEMMA IInvHolds == Spec => []IInv
BY InitInv, StepInv, PTL DEF Spec

\* Type correctness, for every instance.
THEOREM CordonTypeCorrect == Spec => []TypeOK
<1>1. IInv => TypeOK
  BY DEF IInv
<1>2. QED
  BY <1>1, IInvHolds, PTL

\* For every number of callers, clusters and services, and under every fault: an
\* uninstall whose checks passed (manager.go:859) has an empty cluster until
\* somebody uncordons it.
THEOREM AdmittedClusterIsEmpty == Spec => []AcceptedIsEmpty
<1>1. IInv => AcceptedIsEmpty
  BY DEF IInv, ClosedSince, ReliesOnEmpty, AcceptedIsEmpty
<1>2. QED
  BY <1>1, IInvHolds, PTL

-----------------------------------------------------------------------------
\* What further holds of the toggles that no other one crossed: each is the only
\* one of its cluster, so no status changes between its two calls. And from the check
\* of a drain on its cluster is cordoned, unless somebody has uncordoned it since.

OneCall ==
    \A r, x \in Requests :
        Toggling(r) /\ Toggling(x) /\ target[r] = target[x] => r = x \/ r \in crossed

TogglersAreLast ==
    \A c \in Clusters :
        toggler[c] \in Requests =>
            /\ target[toggler[c]] = c
            /\ pc[toggler[c]] \in {"announce", "done", "dead"}

AnnouncesStatus ==
    \A r \in Requests :
        pc[r] = "announce" /\ toggler[target[r]] \notin crossed =>
            /\ toggler[target[r]] = r
            /\ r \in slipped \/ cordoned[target[r]] = (kind[r] = "cordon")

SendsCordoned ==
    \A r \in Requests : pc[r] = "send" => r \in reopened \/ cordoned[target[r]]

SInv ==
    /\ IInv
    /\ OneCall
    /\ TogglersAreLast
    /\ AnnouncesStatus
    /\ SendsCordoned
    /\ EventsFollowStatus

LEMMA InitSerial == Init => SInv
<1> SUFFICES ASSUME Init
             PROVE  SInv
  OBVIOUS
<1>1. IInv
  BY InitInv
<1>2. QED
  BY <1>1 DEF SInv, Init, OneCall, Toggling, TogglersAreLast, AnnouncesStatus,
              SendsCordoned, EventsFollowStatus

LEMMA ReceiveSerial ==
    ASSUME SInv, NEW r \in Requests, Receive(r)
    PROVE  SInv'
<1>1. PICK k \in Kinds[r], c \in Clusters :
          /\ Crosses(r, k, c)
          /\ kind' = [kind EXCEPT ![r] = k]
          /\ target' = [target EXCEPT ![r] = c]
          /\ pc' = [pc EXCEPT ![r] = FirstStep(k)]
  BY DEF Receive
<1>2. /\ FirstStep(k) \in {"toggle", "check", "read"}
      /\ FirstStep(k) = "toggle" <=> k \in {"cordon", "uncordon"}
  BY DEF FirstStep, AllKinds
<1>3. IInv'
  BY ReceiveInv DEF SInv
<1> USE <1>1 DEF SInv, IInv, TypeOK
<1>4. \A x \in Requests : x # r => /\ Toggling(x)' = Toggling(x)
                                   /\ target'[x] = target[x] /\ pc'[x] = pc[x]
  BY DEF Toggling
<1>t. Toggling(r)' => k \in {"cordon", "uncordon"}
  BY <1>2 DEF Toggling
<1>c. crossed \subseteq crossed'
  BY DEF Crosses
<1>d. \A x \in Requests : Toggling(r)' /\ Toggling(x) /\ target[x] = c
                             => x \in crossed' /\ r \in crossed'
  BY <1>t DEF Crosses, About
<1>5. OneCall'
  <2> SUFFICES ASSUME NEW x \in Requests, NEW y \in Requests, x # y,
                      Toggling(x)', Toggling(y)', target'[x] = target'[y]
               PROVE  x \in crossed'
    BY DEF OneCall
  <2>1. CASE x = r
    BY <2>1, <1>4, <1>d
  <2>2. CASE y = r
    BY <2>2, <1>4, <1>d
  <2>3. CASE x # r /\ y # r
    BY <2>3, <1>4, <1>c DEF OneCall
  <2>4. QED
    BY <2>1, <2>2, <2>3
<1>6. \A d \in Clusters : toggler[d] # r
  BY DEF Receive, TogglersAreLast
<1>7. TogglersAreLast'
  BY <1>4, <1>6 DEF Receive, TogglersAreLast
<1>8. AnnouncesStatus' /\ SendsCordoned'
  BY <1>2, <1>c DEF Receive, model, AnnouncesStatus, SendsCordoned
<1>9. EventsFollowStatus'
  BY <1>4, <1>6, <1>c DEF Receive, model, EventsFollowStatus
<1>10. QED
  BY <1>3, <1>5, <1>7, <1>8, <1>9 DEF SInv

\* A step of a request that changes neither status nor events nor togglers and
\* does not become live.
LEMMA QuietSerial ==
    ASSUME SInv, IInv', NEW r \in Requests, NEW l \in {"send", "list", "begin", "done"},
           Live(r), pc[r] # "announce", pc' = [pc EXCEPT ![r] = l],
           l = "send" => cordoned[target[r]],
           UNCHANGED <<cordoned, announced, toggler, target, kind, slipped, crossed>>,
           reopened \subseteq reopened' \cup {r}
    PROVE  SInv'
<1> USE DEF SInv, IInv, TypeOK
<1>1. OneCall'
  BY DEF OneCall, Toggling
<1>2. \A d \in Clusters : toggler[d] = r => l = "done"
  BY DEF TogglersAreLast, Live
<1>3. TogglersAreLast'
  BY <1>2 DEF TogglersAreLast
<1>4. AnnouncesStatus' /\ SendsCordoned'
  BY DEF AnnouncesStatus, SendsCordoned
<1>5. EventsFollowStatus'
  BY DEF EventsFollowStatus
<1>6. QED
  BY <1>1, <1>3, <1>4, <1>5

LEMMA ToggleSerial ==
    ASSUME SInv, NEW r \in Requests, Toggle(r)
    PROVE  SInv'
<1>1. IInv'
  BY ToggleInv DEF SInv
<1>2. target[r] \in Clusters /\ Toggling(r)
  BY DEF Toggle, SInv, IInv, Named, Toggling
<1>3. \A x \in Requests : Toggling(x) /\ target[x] = target[r] => x = r \/ {x, r} \subseteq crossed
  BY <1>2 DEF SInv, OneCall
<1>4. \A d \in Clusters : d # target[r] => cordoned'[d] = cordoned[d]
  BY <1>2 DEF Toggle, SInv, IInv, TypeOK
<1> USE DEF SInv, IInv, TypeOK
<1>5. OneCall'
  BY DEF Toggle, OneCall, Toggling
<1>6. TogglersAreLast'
  BY <1>2 DEF Toggle, TogglersAreLast
<1>7. AnnouncesStatus'
  <2> SUFFICES ASSUME NEW x \in Requests, pc'[x] = "announce",
                      toggler'[target[x]] \notin crossed
               PROVE  /\ toggler'[target[x]] = x
                      /\ x \in slipped' \/ cordoned'[target[x]] = (kind[x] = "cordon")
    BY DEF AnnouncesStatus, Toggle
  <2>1. CASE x = r
    BY <2>1, <1>2 DEF Toggle, Slips, Outcomes
  <2>2. CASE x # r
    <3>1. Toggling(x) /\ pc[x] = "announce" /\ target[x] \in Clusters
      BY <2>2 DEF Toggle, Toggling, Named
    <3>2. target[x] # target[r]
      BY <3>1, <2>2, <1>2, <1>3 DEF Toggle
    <3>3. QED
      BY <3>1, <3>2, <1>4 DEF Toggle, AnnouncesStatus, Slips
  <2>3. QED
    BY <2>1, <2>2
<1>8. SendsCordoned'
  <2> SUFFICES ASSUME NEW x \in Requests, pc'[x] = "send", x \notin reopened'
               PROVE  cordoned'[target[x]]
    BY DEF SendsCordoned, Toggle
  <2>1. x # r /\ pc[x] = "send" /\ target[x] \in Clusters /\ x \notin reopened
    BY DEF Toggle, Named
  <2>2. cordoned[target[x]]
    BY <2>1 DEF SendsCordoned
  <2>3. CASE UNCHANGED cordoned \/ target[x] # target[r]
    BY <2>1, <2>2, <2>3, <1>4
  <2>4. CASE cordoned' # cordoned /\ target[x] = target[r]
    <3>1. kind[r] = "cordon" /\ cordoned' = [cordoned EXCEPT ![target[r]] = (kind[r] = "cordon")]
      BY <2>1, <2>4 DEF Toggle, AtOwnLabels
    <3>2. QED
      BY <3>1, <2>4, <1>2
  <2>5. QED
    BY <2>3, <2>4
<1>9. EventsFollowStatus'
  <2> SUFFICES ASSUME NEW d \in Clusters, announced'[d] # cordoned'[d]
               PROVE  /\ toggler'[d] \in Requests
                      /\ pc'[toggler'[d]] = "announce" \/ toggler'[d] \in slipped' \cup crossed'
    BY DEF EventsFollowStatus
  <2>1. CASE d = target[r]
    BY <2>1, <1>2 DEF Toggle
  <2>2. CASE d # target[r]
    BY <2>2, <1>2, <1>4 DEF Toggle, EventsFollowStatus, Slips
  <2>3. QED
    BY <2>1, <2>2
<1>10. QED
  BY <1>1, <1>5, <1>6, <1>7, <1>8, <1>9

LEMMA AnnounceSerial ==
    ASSUME SInv, NEW r \in Requests, Announce(r)
    PROVE  SInv'
<1>1. IInv'
  BY AnnounceInv DEF SInv
<1>2. target[r] \in Clusters
  BY DEF Announce, SInv, IInv, Named
<1> USE DEF SInv, IInv, TypeOK, Announce, GoTo, model
<1>3. OneCall'
  BY DEF OneCall, Toggling
<1>4. TogglersAreLast'
  BY DEF TogglersAreLast
<1>5. AnnouncesStatus' /\ SendsCordoned'
  BY DEF AnnouncesStatus, SendsCordoned, Slips
<1>6. EventsFollowStatus'
  <2> SUFFICES ASSUME NEW d \in Clusters, announced'[d] # cordoned[d],
                      toggler[d] \notin crossed
               PROVE  /\ toggler[d] \in Requests
                      /\ pc'[toggler[d]] = "announce" \/ toggler[d] \in slipped'
    BY DEF EventsFollowStatus
  <2>1. CASE d = target[r]
    <3>1. toggler[d] = r
      BY <2>1 DEF AnnouncesStatus
    <3>2. CASE r \in slipped
      BY <3>1, <3>2 DEF Slips
    <3>3. CASE r \notin slipped
      <4>1. cordoned[d] = (kind[r] = "cordon")
        BY <2>1, <3>3 DEF AnnouncesStatus
      <4>2. PICK o \in Outcomes :
               /\ announced' = IF o = "refused" THEN announced
                               ELSE [announced EXCEPT ![target[r]] = (kind[r] = "cordon")]
               /\ Slips(r, o)
        OBVIOUS
      <4>3. o # "ok"
        BY <4>1, <4>2, <2>1, <1>2
      <4>4. QED
        BY <3>1, <4>2, <4>3 DEF Slips
    <3>4. QED
      BY <3>2, <3>3
  <2>2. CASE d # target[r]
    <3>1. announced'[d] = announced[d]
      BY <2>2, <1>2
    <3>2. toggler[d] # r
      BY <2>2 DEF TogglersAreLast
    <3>3. QED
      BY <3>1, <3>2 DEF EventsFollowStatus, Slips
  <2>3. QED
    BY <2>1, <2>2
<1>7. QED
  BY <1>1, <1>3, <1>4, <1>5, <1>6

LEMMA RestartSerial == SInv /\ Restart => SInv'
<1> SUFFICES ASSUME SInv, Restart
             PROVE  SInv'
  OBVIOUS
<1>1. IInv'
  BY RestartInv DEF SInv
<1>2. OneCall' /\ TogglersAreLast' /\ AnnouncesStatus' /\ SendsCordoned'
  BY DEF Restart, model, SInv, IInv, TypeOK, OneCall, TogglersAreLast,
         AnnouncesStatus, SendsCordoned, Live, Toggling
<1>3. EventsFollowStatus'
  BY DEF Restart, model, SInv, IInv, TypeOK, EventsFollowStatus, Live, Toggling
<1>4. QED
  BY <1>1, <1>2, <1>3 DEF SInv

LEMMA StepSerial == SInv /\ [Next]_vars => SInv'
<1> SUFFICES ASSUME SInv, [Next]_vars
             PROVE  SInv'
  OBVIOUS
<1>1. IInv'
  BY StepInv DEF SInv
<1>2. ASSUME NEW r \in Requests, Receive(r)
      PROVE  SInv'
  BY <1>2, ReceiveSerial
<1>3. ASSUME NEW r \in Requests, Step(r)
      PROVE  SInv'
  <2>1. CASE Toggle(r)
    BY <2>1, ToggleSerial
  <2>2. CASE Announce(r)
    BY <2>2, AnnounceSerial
  <2>3. CASE CheckCordoned(r)
    BY <2>3, <1>1, QuietSerial DEF CheckCordoned, GoTo, Return, model, history, Live
  <2>4. CASE SendDrain(r)
    BY <2>4, <1>1, QuietSerial DEF SendDrain, Return, model, history, Live
  <2>5. CASE ReadStatus(r)
    BY <2>5, <1>1, QuietSerial DEF ReadStatus, GoTo, Return, model, Live
  <2>6. CASE ListApps(r)
    BY <2>6, <1>1, QuietSerial DEF ListApps, GoTo, Return, model, history, Live
  <2>7. CASE BeginUninstall(r)
    BY <2>7, <1>1, QuietSerial DEF BeginUninstall, Return, model, history, Live
  <2>8. QED
    BY <1>3, <2>1, <2>2, <2>3, <2>4, <2>5, <2>6, <2>7 DEF Step
<1>4. CASE Restart
  BY <1>4, RestartSerial
<1>5. CASE Environment \/ UNCHANGED vars
  <2>1. UNCHANGED <<cordoned, announced, calls, history>>
    BY <1>5 DEF Environment, ConnectivityChanges, Deploy, Undeploy, ServeDrain,
                others, calls, history, vars, model
  <2>2. QED
    BY <2>1, <1>1 DEF SInv, calls, history, OneCall, Toggling, TogglersAreLast,
                      AnnouncesStatus, SendsCordoned, EventsFollowStatus
<1>6. QED
  BY <1>2, <1>3, <1>4, <1>5 DEF Next

LEMMA SInvHolds == Spec => []SInv
BY InitSerial, StepSerial, PTL DEF Spec

\* The bus and the System Model differ on a cluster only because of an error in the
\* last toggle of it, or of a toggle that crossed it (manager.go:649).
THEOREM LastToggleIsAnnounced == Spec => []EventsFollowStatus
<1>1. SInv => EventsFollowStatus
  BY DEF SInv
<1>2. QED
  BY <1>1, SInvHolds, PTL

\* Unless an uncordon slips in between the check and the message, a drain is sent while
\* its cluster is cordoned (manager.go:633), however many callers there are.
THEOREM OnlyCordonedAreDrained == Spec => DrainsCordonedOnly
<1>1. SInv /\ [Next]_vars =>
        [\A r \in Requests \ reopened :
            r \notin drains /\ r \in drains' => cordoned[target[r]]]_vars
  <2> SUFFICES ASSUME SInv, [Next]_vars, NEW r \in Requests \ reopened,
                      r \notin drains, r \in drains'
               PROVE  cordoned[target[r]]
    OBVIOUS
  <2>1. SendDrain(r)
    BY DEF Next, Receive, Step, Toggle, Announce, CheckCordoned, SendDrain, ReadStatus,
           ListApps, BeginUninstall, Restart, Environment, ConnectivityChanges, Deploy,
           Undeploy, ServeDrain, vars
  <2>2. QED
    BY <2>1 DEF SendDrain, SInv, SendsCordoned
<1>2. QED
  BY <1>1, SInvHolds, PTL DEF Spec, DrainsCordonedOnly
=============================================================================
