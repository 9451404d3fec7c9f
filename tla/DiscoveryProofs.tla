--------------------------- MODULE DiscoveryProofs ---------------------------
(***************************************************************************)
(* What holds of discoveries for every set of requests, clusters and       *)
(* files, and that they implement the single step of DiscoveryCall.        *)
(***************************************************************************)
EXTENDS Discovery, TLAPS

USE DiscoveryNoneAssumption, DiscoveryFaultsAssumption, HomeAssumption

-----------------------------------------------------------------------------
\* The inductive invariant.

\* A discovery under way owns its file, which holds its kubeconfig.
OwnFile ==
    \A r \in Requests :
        pc[r] \in Using => /\ path[r] \in files
                           /\ disk[path[r]] = config[r]

OneUser ==
    \A r, x \in Requests :
        pc[r] \in Using /\ pc[x] \in Using /\ path[r] = path[x] => r = x

\* A file that is not there has no content.
Gone == \A f \in Files : f \notin files => disk[f] = NoConfig

\* What each step of a discovery has established.
Checked ==
    \A r \in Requests :
        /\ pc[r] \in {"connect", "version", "nodes", "found"} =>
              config[r].clusters = {server[r]}
        /\ pc[r] \in {"version", "nodes", "found"} =>
              config[r].current \in {server[r], None} /\ client[r] = Target(config[r])
        /\ pc[r] = "found" => listed[r] = client[r]
        /\ pc[r] = "idle" => config[r] = NoConfig
        /\ pc[r] \in {"idle", "store"} => path[r] = None

IInv == TypeOK /\ OwnFile /\ OneUser /\ Gone /\ Checked /\ KubeConfigsDoNotStay

-----------------------------------------------------------------------------
\* Every step preserves it.

LEMMA StartInv ==
    ASSUME IInv, NEW r \in Requests, Start(r)
    PROVE  IInv'
<1> USE DEF Start, GoTo
<1>1. TypeOK'
  BY DEF IInv, TypeOK, Labels, KubeConfigs, NoConfig, OwnFile, Using
<1>2. OwnFile'
  BY DEF IInv, TypeOK, OwnFile, OneUser, Using, Gone
<1>3. OneUser'
  BY DEF IInv, TypeOK, OneUser, OwnFile, Using
<1>4. Gone'
  BY DEF IInv, TypeOK, Gone, OwnFile, Using
<1>5. Checked'
  BY DEF IInv, TypeOK, Checked, OwnFile, Using, NoConfig
<1>6. KubeConfigsDoNotStay'
  BY DEF IInv, TypeOK, KubeConfigsDoNotStay, OwnFile, OneUser, Gone, Using
<1>7. QED
  BY <1>1, <1>2, <1>3, <1>4, <1>5, <1>6 DEF IInv

LEMMA StoreConfigInv ==
    ASSUME IInv, NEW r \in Requests, StoreConfig(r)
    PROVE  IInv'
<1> USE DEF StoreConfig, TempFile, GoTo
<1>1. TypeOK'
  BY DEF IInv, TypeOK, Labels, KubeConfigs, NoConfig, OwnFile, Using
<1>2. OwnFile'
  BY DEF IInv, TypeOK, OwnFile, OneUser, Using, Gone
<1>3. OneUser'
  BY DEF IInv, TypeOK, OneUser, OwnFile, Using
<1>4. Gone'
  BY DEF IInv, TypeOK, Gone, OwnFile, Using
<1>5. Checked'
  BY DEF IInv, TypeOK, Checked, OwnFile, Using, NoConfig
<1>6. KubeConfigsDoNotStay'
  BY DEF IInv, TypeOK, KubeConfigsDoNotStay, OwnFile, OneUser, Gone, Using
<1>7. QED
  BY <1>1, <1>2, <1>3, <1>4, <1>5, <1>6 DEF IInv

LEMMA StoreFailsInv ==
    ASSUME IInv, NEW r \in Requests, StoreFails(r)
    PROVE  IInv'
<1> USE DEF StoreFails, TempFile, KillAll, Live
<1>1. TypeOK'
  BY DEF IInv, TypeOK, Labels, KubeConfigs, NoConfig, OwnFile, Using
<1>2. OwnFile'
  BY DEF IInv, TypeOK, OwnFile, OneUser, Using, Gone
<1>3. OneUser'
  BY DEF IInv, TypeOK, OneUser, OwnFile, Using
<1>4. Gone'
  BY DEF IInv, TypeOK, Gone, OwnFile, Using
<1>5. Checked'
  BY DEF IInv, TypeOK, Checked, OwnFile, Using, NoConfig
<1>6. KubeConfigsDoNotStay'
  <2> SUFFICES ASSUME NEW f \in Files, disk'[f] # NoConfig
               PROVE  \E x \in Requests :
                         /\ disk'[f] = config[x]
                         /\ \/ pc'[x] \in Using /\ path[x] = f
                            \/ pc'[x] = "dead" /\ path[x] \in {f, None}
    BY DEF KubeConfigsDoNotStay
  <2>1. CASE disk'[f] = disk[f]
    <3>1. PICK x \in Requests :
             /\ disk[f] = config[x]
             /\ \/ pc[x] \in Using /\ path[x] = f
                \/ pc[x] = "dead" /\ path[x] \in {f, None}
      BY <2>1 DEF IInv, KubeConfigsDoNotStay
    <3>2. pc'[x] = "dead"
      BY <3>1 DEF Using
    <3>3. QED
      BY <2>1, <3>1, <3>2
  <2>2. CASE disk'[f] # disk[f]
    <3>1. disk'[f] = config[r]
      BY <2>2 DEF IInv, TypeOK
    <3>2. pc'[r] = "dead" /\ path[r] = None
      BY DEF IInv, Checked
    <3>3. QED
      BY <3>1, <3>2
  <2>3. QED
    BY <2>1, <2>2
<1>7. QED
  BY <1>1, <1>2, <1>3, <1>4, <1>5, <1>6 DEF IInv

LEMMA ValidateInv ==
    ASSUME IInv, NEW r \in Requests, Validate(r)
    PROVE  IInv'
<1> USE DEF Validate, SingleCluster, Fail, Remove, GoTo
<1>1. TypeOK'
  <2>1. path[r] \in Files /\ NoConfig \in KubeConfigs
    BY DEF IInv, TypeOK, OwnFile, Using, NoConfig, KubeConfigs
  <2>2. disk' \in [Files -> KubeConfigs] /\ files' \subseteq Files
    BY <2>1 DEF IInv, TypeOK
  <2>3. pc' \in [Requests -> Labels]
    BY DEF IInv, TypeOK, Labels
  <2>4. /\ server' \in [Requests -> Servers \cup {None}]
        /\ client' \in [Requests -> Servers \cup {None}]
        /\ listed' \in [Requests -> Servers \cup {None}]
    BY <2>1 DEF IInv, TypeOK
  <2>5. UNCHANGED <<config, path, panicked>>
    OBVIOUS
  <2>6. QED
    BY <2>2, <2>3, <2>4, <2>5 DEF IInv, TypeOK
<1>2. OwnFile'
  BY DEF IInv, TypeOK, OwnFile, OneUser, Using, Gone
<1>3. OneUser'
  BY DEF IInv, TypeOK, OneUser, OwnFile, Using
<1>4. Gone'
  BY DEF IInv, TypeOK, Gone, OwnFile, Using
<1>5. Checked'
  <2>1. \A x \in Requests : x # r =>
           /\ pc'[x] = pc[x] /\ server'[x] = server[x]
           /\ client'[x] = client[x] /\ listed'[x] = listed[x]
    BY DEF IInv, TypeOK
  <2>2. \/ pc'[r] = "error"
        \/ pc'[r] = "connect" /\ config[r].clusters = {server'[r]}
    <3>1. disk[path[r]] = config[r]
      BY DEF IInv, OwnFile, Using
    <3>2. QED
      BY <3>1 DEF IInv, TypeOK
  <2>3. QED
    BY <2>1, <2>2 DEF IInv, Checked
<1>6. KubeConfigsDoNotStay'
  BY DEF IInv, TypeOK, KubeConfigsDoNotStay, OwnFile, OneUser, Gone, Using
<1>7. QED
  BY <1>1, <1>2, <1>3, <1>4, <1>5, <1>6 DEF IInv

LEMMA ConnectInv ==
    ASSUME IInv, NEW r \in Requests, Connect(r)
    PROVE  IInv'
<1> USE DEF Connect, Fail, Remove, GoTo
<1>1. TypeOK'
  <2>1. path[r] \in Files /\ NoConfig \in KubeConfigs
    BY DEF IInv, TypeOK, OwnFile, Using, NoConfig, KubeConfigs
  <2>2. disk' \in [Files -> KubeConfigs] /\ files' \subseteq Files
    BY <2>1 DEF IInv, TypeOK
  <2>3. pc' \in [Requests -> Labels]
    BY DEF IInv, TypeOK, Labels
  <2>4. /\ server' \in [Requests -> Servers \cup {None}]
        /\ client' \in [Requests -> Servers \cup {None}]
        /\ listed' \in [Requests -> Servers \cup {None}]
    <3>1. disk[path[r]].clusters \subseteq Servers
      BY <2>1 DEF IInv, TypeOK, KubeConfigs
    <3>2. disk[path[r]].current \in disk[path[r]].clusters \cup {None}
          => Target(disk[path[r]]) \in Servers
      BY <3>1 DEF Target
    <3>3. QED
      BY <3>1, <3>2 DEF IInv, TypeOK
  <2>5. UNCHANGED <<config, path, panicked>>
    OBVIOUS
  <2>6. QED
    BY <2>2, <2>3, <2>4, <2>5 DEF IInv, TypeOK
<1>2. OwnFile'
  BY DEF IInv, TypeOK, OwnFile, OneUser, Using, Gone
<1>3. OneUser'
  BY DEF IInv, TypeOK, OneUser, OwnFile, Using
<1>4. Gone'
  BY DEF IInv, TypeOK, Gone, OwnFile, Using
<1>5. Checked'
  <2>1. /\ disk[path[r]] = config[r]
        /\ config[r].clusters = {server[r]}
    BY DEF IInv, OwnFile, Checked, Using
  <2>2. \A x \in Requests : x # r => pc'[x] = pc[x] /\ client'[x] = client[x]
    BY DEF IInv, TypeOK
  <2>3. \/ pc'[r] = "error"
        \/ /\ pc'[r] = "version"
           /\ client'[r] = Target(config[r])
           /\ config[r].current \in {server[r], None}
    BY <2>1 DEF IInv, TypeOK
  <2>4. QED
    BY <2>1, <2>2, <2>3 DEF IInv, Checked
<1>6. KubeConfigsDoNotStay'
  BY DEF IInv, TypeOK, KubeConfigsDoNotStay, OwnFile, OneUser, Gone, Using
<1>7. QED
  BY <1>1, <1>2, <1>3, <1>4, <1>5, <1>6 DEF IInv

LEMMA ServerVersionInv ==
    ASSUME IInv, NEW r \in Requests, ServerVersion(r)
    PROVE  IInv'
<1> USE DEF ServerVersion, Fail, Remove, GoTo
<1>1. TypeOK'
  <2>1. path[r] \in Files /\ NoConfig \in KubeConfigs
    BY DEF IInv, TypeOK, OwnFile, Using, NoConfig, KubeConfigs
  <2>2. disk' \in [Files -> KubeConfigs] /\ files' \subseteq Files
    BY <2>1 DEF IInv, TypeOK
  <2>3. pc' \in [Requests -> Labels]
    BY DEF IInv, TypeOK, Labels
  <2>4. /\ server' \in [Requests -> Servers \cup {None}]
        /\ client' \in [Requests -> Servers \cup {None}]
        /\ listed' \in [Requests -> Servers \cup {None}]
    BY DEF IInv, TypeOK
  <2>5. UNCHANGED <<config, path, panicked>>
    OBVIOUS
  <2>6. QED
    BY <2>2, <2>3, <2>4, <2>5 DEF IInv, TypeOK
<1>2. OwnFile'
  BY DEF IInv, TypeOK, OwnFile, OneUser, Using, Gone
<1>3. OneUser'
  BY DEF IInv, TypeOK, OneUser, OwnFile, Using
<1>4. Gone'
  BY DEF IInv, TypeOK, Gone, OwnFile, Using
<1>5. Checked'
  <2>1. \A x \in Requests : x # r =>
           /\ pc'[x] = pc[x] /\ server'[x] = server[x]
           /\ client'[x] = client[x] /\ listed'[x] = listed[x]
    BY DEF IInv, TypeOK
  <2>2. /\ pc'[r] \in {"error", "nodes"}
        /\ UNCHANGED <<server, client, listed>>
    BY DEF IInv, TypeOK
  <2>3. QED
    BY <2>1, <2>2 DEF IInv, Checked
<1>6. KubeConfigsDoNotStay'
  BY DEF IInv, TypeOK, KubeConfigsDoNotStay, OwnFile, OneUser, Gone, Using
<1>7. QED
  BY <1>1, <1>2, <1>3, <1>4, <1>5, <1>6 DEF IInv

LEMMA ListNodesInv ==
    ASSUME IInv, NEW r \in Requests, ListNodes(r)
    PROVE  IInv'
<1> USE DEF ListNodes, Fail, Remove, GoTo
<1>1. TypeOK'
  <2>1. path[r] \in Files /\ NoConfig \in KubeConfigs
    BY DEF IInv, TypeOK, OwnFile, Using, NoConfig, KubeConfigs
  <2>2. disk' \in [Files -> KubeConfigs] /\ files' \subseteq Files
    BY <2>1 DEF IInv, TypeOK
  <2>3. pc' \in [Requests -> Labels]
    BY DEF IInv, TypeOK, Labels
  <2>4. /\ server' \in [Requests -> Servers \cup {None}]
        /\ client' \in [Requests -> Servers \cup {None}]
        /\ listed' \in [Requests -> Servers \cup {None}]
    BY DEF IInv, TypeOK
  <2>5. UNCHANGED <<config, path, panicked>>
    OBVIOUS
  <2>6. QED
    BY <2>2, <2>3, <2>4, <2>5 DEF IInv, TypeOK
<1>2. OwnFile'
  BY DEF IInv, TypeOK, OwnFile, OneUser, Using, Gone
<1>3. OneUser'
  BY DEF IInv, TypeOK, OneUser, OwnFile, Using
<1>4. Gone'
  BY DEF IInv, TypeOK, Gone, OwnFile, Using
<1>5. Checked'
  <2>1. \A x \in Requests : x # r =>
           /\ pc'[x] = pc[x] /\ server'[x] = server[x]
           /\ client'[x] = client[x] /\ listed'[x] = listed[x]
    BY DEF IInv, TypeOK
  <2>2. /\ pc'[r] = "error" \/ (pc'[r] = "found" /\ listed'[r] = client[r])
        /\ UNCHANGED <<server, client>>
    BY DEF IInv, TypeOK
  <2>3. QED
    BY <2>1, <2>2 DEF IInv, Checked
<1>6. KubeConfigsDoNotStay'
  BY DEF IInv, TypeOK, KubeConfigsDoNotStay, OwnFile, OneUser, Gone, Using
<1>7. QED
  BY <1>1, <1>2, <1>3, <1>4, <1>5, <1>6 DEF IInv

LEMMA RestartInv ==
    ASSUME IInv, Restart
    PROVE  IInv'
<1> USE DEF Restart, KillAll, Live
<1>1. TypeOK'
  BY DEF IInv, TypeOK, Labels, KubeConfigs, NoConfig, OwnFile, Using
<1>2. OwnFile'
  BY DEF IInv, TypeOK, OwnFile, OneUser, Using, Gone
<1>3. OneUser'
  BY DEF IInv, TypeOK, OneUser, OwnFile, Using
<1>4. Gone'
  BY DEF IInv, TypeOK, Gone, OwnFile, Using
<1>5. Checked'
  BY DEF IInv, TypeOK, Checked, OwnFile, Using, NoConfig
<1>6. KubeConfigsDoNotStay'
  BY DEF IInv, TypeOK, KubeConfigsDoNotStay, OwnFile, OneUser, Gone, Using
<1>7. QED
  BY <1>1, <1>2, <1>3, <1>4, <1>5, <1>6 DEF IInv

LEMMA InitInv == Init => IInv
<1>1. NoConfig \in KubeConfigs
  BY DEF NoConfig, KubeConfigs
<1>2. Init => TypeOK
  BY <1>1 DEF Init, TypeOK, Labels
<1>3. Init => OwnFile /\ OneUser /\ Gone /\ Checked /\ KubeConfigsDoNotStay
  BY DEF Init, OwnFile, OneUser, Gone, Checked, KubeConfigsDoNotStay, Using
<1>4. QED
  BY <1>2, <1>3 DEF IInv

LEMMA StutterInv == IInv /\ UNCHANGED vars => IInv'
BY DEF vars, IInv, TypeOK, OwnFile, OneUser, Gone, Checked, KubeConfigsDoNotStay

LEMMA IInvHolds == Spec => []IInv
<1>1. Init => IInv
  BY InitInv
<1>2. IInv /\ [Next]_vars => IInv'
  <2>1. SUFFICES ASSUME IInv, Next \/ UNCHANGED vars
                 PROVE  IInv'
    OBVIOUS
  <2>2. ASSUME NEW r \in Requests, Start(r) \/ Step(r)
        PROVE  IInv'
    BY <2>1, <2>2, StartInv, StoreConfigInv, StoreFailsInv, ValidateInv, ConnectInv,
       ServerVersionInv, ListNodesInv DEF Step
  <2>3. CASE Restart
    BY <2>1, <2>3, RestartInv
  <2>4. CASE UNCHANGED vars
    BY <2>1, <2>4, StutterInv
  <2>5. QED
    BY <2>1, <2>2, <2>3, <2>4 DEF Next, Waiting
<1>3. QED
  BY <1>1, <1>2, PTL DEF Spec

\* Every variable keeps its type.
THEOREM DiscoveryTypeCorrect == Spec => []TypeOK
<1>1. IInv => TypeOK
  BY DEF IInv
<1>2. QED
  BY <1>1, IInvHolds, PTL

\* A discovery describes the cluster it connected to, the one of its own kubeconfig,
\* however many others share the temporal directory; with no current context it
\* describes that one and lists the nodes of the manager's own.
THEOREM OwnClusterDescribed == Spec => []DescribesOwnCluster
<1>1. IInv => DescribesOwnCluster
  BY DEF IInv, TypeOK, Checked, DescribesOwnCluster, Target
<1>2. QED
  BY <1>1, IInvHolds, PTL

\* No kubeconfig stays on disk but by the end of the process, which an error in writing
\* or closing the file brings about; what a discovery answers takes it away.
THEOREM NoKubeConfigStays == Spec => []KubeConfigsDoNotStay
<1>1. IInv => KubeConfigsDoNotStay
  BY DEF IInv
<1>2. QED
  BY <1>1, IInvHolds, PTL

-----------------------------------------------------------------------------
\* Discoveries implement DiscoveryCall.

LEMMA InitRefines == Init => Call!Init
<1>1. Answer("idle") = "idle"
  BY DEF Answer, Live, Using
<1>2. QED
  BY <1>1 DEF Init, Call!Init, Call!NoConfig, NoConfig

LEMMA AnswerOf ==
    ASSUME IInv, NEW r \in Requests, NEW l, pc' = [pc EXCEPT ![r] = l]
    PROVE  [x \in Requests |-> Answer(pc[x])]' =
              [[x \in Requests |-> Answer(pc[x])] EXCEPT ![r] = Answer(l)]
BY DEF IInv, TypeOK

LEMMA StepRefines ==
    ASSUME IInv, [Next]_vars
    PROVE  [Call!Next]_(Call!vars)
<1> DEFINE ans == [x \in Requests |-> Answer(pc[x])]
<1>1. ASSUME NEW r \in Requests, Start(r)
      PROVE  Call!Ask(r)
  <2>1. Answer("idle") = "idle" /\ Answer("store") = "pending"
    BY DEF Answer, Live, Using
  <2>2. ans[r] = "idle" /\ ans' = [ans EXCEPT ![r] = "pending"]
    BY <1>1, <2>1, AnswerOf DEF Start, GoTo
  <2>3. QED
    BY <1>1, <2>2 DEF Start, Call!Ask, Call!KubeConfigs, KubeConfigs
<1>2. ASSUME NEW r \in Requests, Fail(r), pc[r] \in Live
      PROVE  Call!Fail(r)
  <2>1. ans[r] = "pending" /\ ans' = [ans EXCEPT ![r] = "error"]
    BY <1>2, AnswerOf DEF Fail, GoTo, Answer, Live, Using
  <2>2. QED
    BY <1>2, <2>1 DEF Fail, Call!Fail
<1>3. ASSUME NEW r \in Requests, NEW l \in Live, pc[r] \in Live, GoTo(r, l), UNCHANGED config
      PROVE  UNCHANGED Call!vars
  <2>1. ans' = [ans EXCEPT ![r] = "pending"] /\ ans[r] = "pending"
    BY <1>3, AnswerOf DEF GoTo, Answer, Live, Using
  <2>2. ans' = ans
    BY <2>1
  <2>3. QED
    BY <1>3, <2>2 DEF Call!vars
<1>4. ASSUME NEW r \in Requests, ListNodes(r), pc' = [pc EXCEPT ![r] = "found"]
      PROVE  Call!Find(r)
  <2>1. ans[r] = "pending" /\ ans' = [ans EXCEPT ![r] = "found"]
    BY <1>4, AnswerOf DEF ListNodes, Answer, Live, Using
  <2>2. \E s \in Servers : config[r].clusters = {s} /\ config[r].current \in {s, None}
    <3>1. config[r].clusters = {server[r]} /\ config[r].current \in {server[r], None}
      BY <1>4 DEF IInv, Checked, ListNodes
    <3>2. config[r].clusters \subseteq Servers
      BY DEF IInv, TypeOK, KubeConfigs
    <3>3. QED
      BY <3>1, <3>2
  <2>3. UNCHANGED config
    BY <1>4 DEF ListNodes, Fail
  <2>4. QED
    BY <2>1, <2>2, <2>3 DEF Call!Find
<1>5. ASSUME KillAll, UNCHANGED config
      PROVE  Call!Die
  <2>1. ans' = [x \in Requests |-> IF ans[x] = "pending" THEN "dead" ELSE ans[x]]
    BY <1>5 DEF IInv, TypeOK, KillAll, Answer, Live, Using, Labels
  <2>2. QED
    BY <1>5, <2>1 DEF Call!Die
<1>6. ASSUME NEW r \in Requests, Step(r)
      PROVE  [Call!Next]_(Call!vars)
  <2>1. CASE StoreConfig(r)
    BY <1>3, <2>1 DEF StoreConfig, Live, Using
  <2>2. CASE StoreFails(r)
    BY <1>5, <2>2 DEF StoreFails, Call!Next
  <2>3. CASE Validate(r)
    BY <1>2, <1>3, <2>3 DEF Validate, Live, Using, Call!Next
  <2>4. CASE Connect(r)
    BY <1>2, <1>3, <2>4 DEF Connect, Live, Using, Call!Next
  <2>5. CASE ServerVersion(r)
    BY <1>2, <1>3, <2>5 DEF ServerVersion, Live, Using, Call!Next
  <2>6. CASE ListNodes(r)
    BY <1>2, <1>4, <2>6 DEF ListNodes, GoTo, Live, Using, Call!Next
  <2>7. QED
    BY <1>6, <2>1, <2>2, <2>3, <2>4, <2>5, <2>6 DEF Step
<1>7. CASE Restart
  BY <1>5, <1>7 DEF Restart, Call!Next
<1>8. CASE UNCHANGED vars
  BY <1>8 DEF vars, Call!vars
<1>9. QED
  BY <1>1, <1>6, <1>7, <1>8 DEF Next, Waiting, Call!Next

\* The steps of discoveries, seen through their answers, are those of DiscoveryCall:
\* what the lifecycle operations assume of a discovery is what it does.
THEOREM DiscoveryImplementsCall == Spec => ImplementsCall
<1>1. Init => Call!Init
  BY InitRefines
<1>2. IInv /\ [Next]_vars => [Call!Next]_(Call!vars)
  BY StepRefines
<1>3. QED
  BY <1>1, <1>2, IInvHolds, PTL DEF Spec, ImplementsCall, Call!Spec
=============================================================================
