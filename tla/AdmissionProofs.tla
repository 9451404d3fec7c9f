--------------------------- MODULE AdmissionProofs ---------------------------
(***************************************************************************)
(* What reaches the other components, for every set of requests, calls and *)
(* identifiers.                                                            *)
(***************************************************************************)
EXTENDS Admission, TLAPS

USE AdmissionKindsAssumption, AdmissionNoneAssumption

-----------------------------------------------------------------------------
\* The inductive invariant.

\* What an admitted request has, and keeps as long as it is served.
HasFields(k, f) ==
    /\ k \in Delegated => {"organization", "request"} \subseteq f
    /\ k \in {"scale", "decommission", "uninstall"} => "cluster" \in f
    /\ k = "install" /\ "kubeConfig" \in f => {"username", "privateKey"} \cap f = {}
    /\ k = "uninstall" => "kubeConfig" \in f /\ {"username", "privateKey"} \cap f = {}
    /\ k \in {"provision", "scale", "decommission"} =>
          /\ "management" \notin f
          /\ OnAzure(f, {"credentials", "options"})

Admitted == Stages \ {"idle", "arrived", "rejected"}

Complete ==
    \A r \in Requests :
        /\ stage[r] \in Admitted => HasFields(kind[r], given[r])
        /\ stage[r] = "discovered" => kind[r] = "install" /\ "kubeConfig" \in given[r]
        /\ stage[r] = "provisioning" => kind[r] = "provision"
        /\ stage[r] \in {"keyed", "uninstalling"} => kind[r] = "decommission"
        /\ kind[r] = "uninstall" => given[r] \subseteq Fields("uninstall")
        /\ stage[r] # "idle" => kind[r] \in AllKinds

\* Delegated requests have an identifier nobody else was given.
Stamped(r) == kind[r] \in Delegated /\ stage[r] \in Admitted

OwnIds ==
    /\ \A r \in Requests : Stamped(r) => id[r] \in usedIds
    /\ \A r, x \in Requests : Stamped(r) /\ Stamped(x) /\ id[r] = id[x] => r = x

SentIds ==
    \A m \in sent : m.service # "systemModel" => Stamped(m.by) /\ m.id = id[m.by]

IInv ==
    /\ TypeOK /\ Complete /\ OwnIds /\ SentIds
    /\ InstallerGetsComplete /\ ProvisionerGetsComplete

-----------------------------------------------------------------------------
\* Lemmas on fields.

LEMMA KnownFields ==
    /\ \A k \in AllKinds : Fields(k) \subseteq AllFields
    /\ {"organization", "request", "cluster", "kubeConfig", "azure"} \subseteq AllFields
<1>1. \A k \in AllKinds : Fields(k) \subseteq AllFields
  BY DEF AllFields
<1>2. Fields("install") \subseteq AllFields /\ Fields("uninstall") \subseteq AllFields
  BY <1>1 DEF AllKinds, Delegated
<1>3. /\ {"organization", "request", "cluster", "kubeConfig"} \subseteq Fields("install")
      /\ "azure" \in Fields("uninstall")
  BY DEF Fields, ByClusterId
<1>4. QED
  BY <1>1, <1>2, <1>3

LEMMA ValidHasFields ==
    ASSUME NEW k \in AllKinds, NEW f, Valid(k, f), k = "uninstall" => f \subseteq Fields(k)
    PROVE  HasFields(k, IF k \in Delegated THEN f \cup {"request"} ELSE f)
<1>1. CASE k = "install"
  <2>1. ValidInstallRequest(f)
    BY <1>1 DEF Valid, ByClusterId
  <2>2. QED
    BY <1>1, <2>1 DEF ValidInstallRequest, HasFields, Delegated
<1>2. CASE k = "provision"
  <2>1. ValidProvisionClusterRequest(f)
    BY <1>2 DEF Valid, ByClusterId
  <2>2. QED
    BY <1>2, <2>1 DEF ValidProvisionClusterRequest, OnAzure, HasFields, Delegated
<1>3. CASE k \in {"scale", "decommission"}
  <2>1. ValidOnProvisioned(f)
    BY <1>3 DEF Valid, ByClusterId
  <2>2. QED
    BY <1>3, <2>1 DEF ValidOnProvisioned, OnAzure, HasFields, Delegated
<1>4. CASE k = "uninstall"
  <2>1. ValidUninstallClusterRequest(f) /\ f \subseteq Fields("uninstall")
    BY <1>4 DEF Valid, ByClusterId
  <2>2. "username" \notin Fields("uninstall") /\ "privateKey" \notin Fields("uninstall")
    BY DEF Fields, ByClusterId
  <2>3. QED
    BY <1>4, <2>1, <2>2 DEF ValidUninstallClusterRequest, HasFields, Delegated
<1>5. CASE k \notin Delegated
  BY <1>5 DEF HasFields, Delegated
<1>6. QED
  BY <1>1, <1>2, <1>3, <1>4, <1>5 DEF Delegated

\* What the two properties on messages ask of one.
MessageOk(r, s, f) ==
    /\ s \in {"install", "uninstall"} =>
          /\ {"organization", "cluster", "request"} \subseteq f
          /\ {"username", "privateKey"} \cap f = {}
          /\ "kubeConfig" \notin f => s = "uninstall" /\ r \in keyless
    /\ s \in {"provision", "scale", "getKubeConfig", "decommission"} =>
          /\ {"organization", "cluster", "request"} \subseteq f
          /\ "management" \notin f
          /\ "azure" \in f => {"credentials", "options"} \subseteq f

\* A message that is sent leaves the invariants of messages true if they hold of it.
LEMMA SendKeeps ==
    ASSUME IInv, NEW r \in Requests, NEW s \in Services, NEW f \in SUBSET AllFields,
           Send(r, s, f), UNCHANGED <<kind, id, usedIds>>, keyless \subseteq keyless',
           \A x \in Requests : stage[x] \in Admitted => stage'[x] \in Admitted,
           s # "systemModel" => Stamped(r),
           MessageOk(r, s, f)
    PROVE  /\ SentIds'
           /\ InstallerGetsComplete'
           /\ ProvisionerGetsComplete'
           /\ sent' \subseteq Messages
<1> DEFINE m == [service |-> s, fields |-> f, id |-> id[r], by |-> r]
<1>1. m \in Messages /\ sent' = sent \cup {m}
  BY DEF Send, IInv, TypeOK, Messages
<1>2. /\ m.service = s /\ m.fields = f /\ m.id = id[r] /\ m.by = r
  OBVIOUS
<1>. HIDE DEF m
<1>3. SentIds'
  BY <1>1, <1>2 DEF IInv, TypeOK, SentIds, Stamped, Messages
<1>4. InstallerGetsComplete'
  BY <1>1, <1>2 DEF IInv, InstallerGetsComplete, MessageOk
<1>5. ProvisionerGetsComplete'
  BY <1>1, <1>2 DEF IInv, ProvisionerGetsComplete, MessageOk
<1>6. sent' \subseteq Messages
  BY <1>1 DEF IInv, TypeOK
<1>7. QED
  BY <1>3, <1>4, <1>5, <1>6

\* So do steps that send nothing.
LEMMA QuietKeeps ==
    ASSUME IInv, UNCHANGED <<sent, keyless>>,
           \A x \in Requests : Stamped(x) => Stamped(x)' /\ id'[x] = id[x]
    PROVE  /\ SentIds'
           /\ InstallerGetsComplete'
           /\ ProvisionerGetsComplete'
<1>1. SentIds'
  BY DEF IInv, TypeOK, SentIds, Messages
<1>2. InstallerGetsComplete' /\ ProvisionerGetsComplete'
  BY DEF IInv, InstallerGetsComplete, ProvisionerGetsComplete
<1>3. QED
  BY <1>1, <1>2

-----------------------------------------------------------------------------
\* Every step preserves the invariant.

LEMMA ReceiveInv ==
    ASSUME IInv, NEW r \in Requests, Receive(r)
    PROVE  IInv'
<1>1. PICK k \in Kinds[r], f \in SUBSET AllFields, i \in Ids \cup {None} :
         /\ f \in Forms(k)
         /\ kind' = [kind EXCEPT ![r] = k]
         /\ given' = [given EXCEPT ![r] = f]
         /\ id' = [id EXCEPT ![r] = i]
         /\ usedIds' = usedIds \cup ({i} \ {None})
  <2>1. PICK k \in Kinds[r] : \E f \in Forms(k) :
           /\ kind' = [kind EXCEPT ![r] = k]
           /\ given' = [given EXCEPT ![r] = f]
           /\ \E i \in Ids \cup {None} :
                 /\ id' = [id EXCEPT ![r] = i]
                 /\ usedIds' = usedIds \cup ({i} \ {None})
    BY DEF Receive
  <2>2. Forms(k) \subseteq SUBSET AllFields
    BY KnownFields DEF Forms
  <2>3. QED
    BY <2>1, <2>2
<1>2. /\ stage[r] = "idle" /\ stage' = [stage EXCEPT ![r] = "arrived"]
      /\ UNCHANGED <<sent, keyless>>
  BY DEF Receive, GoTo
<1>3. k \in AllKinds /\ f \subseteq Fields(k) /\ f \subseteq AllFields
  BY <1>1, KnownFields, AdmissionKindsAssumption DEF Forms
<1>4. TypeOK'
  BY <1>1, <1>2, <1>3 DEF IInv, TypeOK, Stages
<1>5. Complete'
  BY <1>1, <1>2, <1>3 DEF IInv, TypeOK, Complete, Admitted
<1>6. \A x \in Requests : (Stamped(x)' <=> Stamped(x)) /\ (Stamped(x) => id'[x] = id[x])
  BY <1>1, <1>2 DEF IInv, TypeOK, Stamped, Admitted
<1>7. OwnIds'
  BY <1>1, <1>6 DEF IInv, TypeOK, OwnIds
<1>8. QED
  BY <1>2, <1>4, <1>5, <1>6, <1>7, QuietKeeps DEF IInv

LEMMA AdmitInv ==
    ASSUME IInv, NEW r \in Requests, Admit(r)
    PROVE  IInv'
<1>1. /\ stage[r] = "arrived" /\ stage' = [stage EXCEPT ![r] = "admitted"]
      /\ Valid(kind[r], given[r])
      /\ UNCHANGED <<kind, sent, keyless>>
      /\ kind[r] \in AllKinds
  BY DEF Admit, GoTo, IInv, Complete
<1>2. given' = [given EXCEPT ![r] =
                  IF kind[r] \in Delegated THEN given[r] \cup {"request"} ELSE given[r]]
  BY DEF Admit, Stamp, IInv, TypeOK
<1>3. PICK i : \/ kind[r] \notin Delegated /\ UNCHANGED <<id, usedIds>>
               \/ /\ kind[r] \in Delegated /\ i \in Ids \ usedIds
                  /\ id' = [id EXCEPT ![r] = i]
                  /\ usedIds' = usedIds \cup {i}
  BY DEF Admit, Stamp
<1>4. TypeOK'
  <2>1. given' \in [Requests -> SUBSET AllFields]
    BY <1>2, KnownFields DEF IInv, TypeOK
  <2>2. id' \in [Requests -> Ids \cup {None}] /\ usedIds' \subseteq Ids
    BY <1>3 DEF IInv, TypeOK
  <2>3. QED
    BY <1>1, <2>1, <2>2 DEF IInv, TypeOK, Stages
<1>5. Complete'
  <2>1. HasFields(kind[r], given'[r])
    BY <1>1, <1>2, ValidHasFields DEF IInv, TypeOK, Complete
  <2>2. kind[r] = "uninstall" => given'[r] \subseteq Fields("uninstall")
    BY <1>2 DEF IInv, TypeOK, Complete, Fields, ByClusterId
  <2>3. \A x \in Requests : x # r => stage'[x] = stage[x] /\ given'[x] = given[x]
    BY <1>1, <1>2 DEF IInv, TypeOK
  <2>4. QED
    BY <1>1, <2>1, <2>2, <2>3 DEF IInv, TypeOK, Complete, AllKinds, Delegated, ByClusterId
<1>6. \A x \in Requests : Stamped(x) => x # r /\ Stamped(x)' /\ id'[x] = id[x]
  BY <1>1, <1>3 DEF IInv, TypeOK, Stamped, Admitted
<1>7. \A x \in Requests : x # r /\ Stamped(x)' => Stamped(x)
  BY <1>1 DEF IInv, TypeOK, Stamped
<1>8. Stamped(r)' => i \in Ids \ usedIds /\ id'[r] = i /\ usedIds' = usedIds \cup {i}
  BY <1>1, <1>3 DEF IInv, TypeOK, Stamped
<1>9. OwnIds'
  <2>1. usedIds \subseteq usedIds'
    BY <1>3
  <2>2. \A x \in Requests : x # r /\ Stamped(x)' => id'[x] \in usedIds
    BY <1>6, <1>7 DEF IInv, OwnIds
  <2>3. QED
    BY <1>6, <1>7, <1>8, <2>1, <2>2 DEF IInv, OwnIds
<1>10. QED
  BY <1>1, <1>4, <1>5, <1>6, <1>9, QuietKeeps DEF IInv

\* Steps that only move on, and send nothing.
LEMMA MoveInv ==
    ASSUME IInv, NEW r \in Requests, NEW l \in Stages \ {"idle", "arrived"}, GoTo(r, l),
           UNCHANGED <<kind, given, id, sent, usedIds, keyless>>,
           \/ stage[r] \in Admitted /\ l # "rejected"
           \/ stage[r] = "arrived" /\ l = "rejected",
           l \in Ended \/ (l = "discovered" /\ kind[r] = "install" /\ "kubeConfig" \in given[r])
    PROVE  IInv'
<1>1. stage' = [stage EXCEPT ![r] = l]
  BY DEF GoTo
<1>2. TypeOK'
  BY <1>1 DEF IInv, TypeOK
<1>3. Complete'
  BY <1>1 DEF IInv, TypeOK, Complete, Admitted, Ended
<1>4. \A x \in Requests : Stamped(x)' => Stamped(x)
  BY <1>1 DEF IInv, TypeOK, Stamped, Admitted
<1>5. OwnIds'
  BY <1>4 DEF IInv, OwnIds
<1>6. CASE l # "rejected"
  <2>1. \A x \in Requests : Stamped(x) => Stamped(x)'
    BY <1>1, <1>6 DEF IInv, TypeOK, Stamped, Admitted
  <2>2. QED
    BY <1>2, <1>3, <1>5, <2>1, QuietKeeps DEF IInv
<1>7. CASE l = "rejected" /\ stage[r] = "arrived"
  <2>1. \A x \in Requests : Stamped(x) => Stamped(x)'
    BY <1>1, <1>7 DEF IInv, TypeOK, Stamped, Admitted
  <2>2. QED
    BY <1>2, <1>3, <1>5, <2>1, QuietKeeps DEF IInv
<1>8. QED
  BY <1>6, <1>7

\* Steps that send a message and complete the request with fields of its own.
LEMMA SendInv ==
    ASSUME IInv, NEW r \in Requests, NEW s \in Services, NEW f \in SUBSET AllFields,
           NEW g \in SUBSET {"cluster"}, NEW l \in Admitted,
           Send(r, s, f), GoTo(r, l), UNCHANGED <<kind, id, usedIds>>,
           given' = [given EXCEPT ![r] = @ \cup g],
           keyless' \subseteq Requests, keyless \subseteq keyless',
           stage[r] \in Admitted,
           l = "provisioning" => kind[r] = "provision",
           l \in {"keyed", "uninstalling"} => kind[r] = "decommission",
           l # "discovered",
           s # "systemModel" => kind[r] \in Delegated,
           MessageOk(r, s, f)
    PROVE  IInv'
<1>1. stage' = [stage EXCEPT ![r] = l]
  BY DEF GoTo
<1>2. \A x \in Requests : stage[x] \in Admitted <=> stage'[x] \in Admitted
  BY <1>1 DEF IInv, TypeOK
<1>3. s # "systemModel" => Stamped(r)
  BY DEF Stamped
<1>4. SentIds' /\ InstallerGetsComplete' /\ ProvisionerGetsComplete' /\ sent' \subseteq Messages
  BY <1>2, <1>3, SendKeeps
<1>5. TypeOK'
  <2>1. given' \in [Requests -> SUBSET AllFields]
    BY KnownFields DEF IInv, TypeOK
  <2>2. QED
    BY <1>1, <1>4, <2>1 DEF IInv, TypeOK, Admitted
<1>6. Complete'
  <2>1. HasFields(kind[r], given[r] \cup g)
    BY DEF IInv, Complete, HasFields, OnAzure
  <2>2. kind[r] = "uninstall" => given[r] \cup g \subseteq Fields("uninstall")
    BY DEF IInv, Complete, Fields, ByClusterId
  <2>3. given'[r] = given[r] \cup g /\ stage'[r] = l
    BY <1>1 DEF IInv, TypeOK
  <2>4. \A x \in Requests : x # r => stage'[x] = stage[x] /\ given'[x] = given[x]
    BY <1>1 DEF IInv, TypeOK
  <2>5. QED
    <3>1. kind' = kind /\ l # "idle" /\ stage[r] # "idle"
      BY DEF Admitted
    <3>2. QED
      BY <2>1, <2>2, <2>3, <2>4, <3>1 DEF IInv, Complete
<1>7. OwnIds'
  BY <1>2 DEF IInv, OwnIds, Stamped
<1>8. QED
  BY <1>4, <1>5, <1>6, <1>7 DEF IInv

LEMMA ForwardInv ==
    ASSUME IInv, NEW r \in Requests, Forward(r)
    PROVE  IInv'
<1>1. HasFields(kind[r], given[r]) /\ stage[r] \in Admitted
  BY DEF IInv, Complete, Forward, Admitted, Stages
<1>2. given[r] \in SUBSET AllFields
  BY KnownFields DEF IInv, TypeOK
<1>3. /\ Send(r, "systemModel", given[r]) /\ GoTo(r, "done")
      /\ UNCHANGED <<kind, id, usedIds>>
      /\ given' = [given EXCEPT ![r] = @ \cup {}]
      /\ keyless' \subseteq Requests /\ keyless \subseteq keyless'
  BY DEF Forward, IInv, TypeOK
<1>4. MessageOk(r, "systemModel", given[r])
  BY <1>1 DEF MessageOk, Forward, HasFields, OnAzure, Delegated, IInv, Complete
<1>5. "done" \in Admitted /\ "done" # "discovered" /\ "systemModel" \in Services
  BY DEF Admitted, Stages, Services
<1>6. /\ "done" = "provisioning" => kind[r] = "provision"
      /\ "done" \in {"keyed", "uninstalling"} => kind[r] = "decommission"
      /\ "systemModel" # "systemModel" => kind[r] \in Delegated
  BY DEF Forward, IInv, Complete, Delegated
<1>7. {} \in SUBSET {"cluster"}
  OBVIOUS
<1>8. QED
  BY <1>1, <1>2, <1>3, <1>4, <1>5, <1>6, <1>7, SendInv

LEMMA InstallClusterInv ==
    ASSUME IInv, NEW r \in Requests, InstallCluster(r)
    PROVE  IInv'
<1>1. HasFields(kind[r], given[r]) /\ stage[r] \in Admitted
  BY DEF IInv, Complete, InstallCluster, Admitted, Stages
<1>2. given[r] \cup {"cluster"} \in SUBSET AllFields
  BY KnownFields DEF IInv, TypeOK
<1>3. /\ Send(r, "install", given[r] \cup {"cluster"}) /\ GoTo(r, "done")
      /\ UNCHANGED <<kind, id, usedIds>>
      /\ given' = [given EXCEPT ![r] = @ \cup {"cluster"}]
      /\ keyless' \subseteq Requests /\ keyless \subseteq keyless'
  BY DEF InstallCluster, IInv, TypeOK
<1>4. MessageOk(r, "install", given[r] \cup {"cluster"})
  BY <1>1 DEF MessageOk, InstallCluster, HasFields, OnAzure, Delegated, IInv, Complete
<1>5. "done" \in Admitted /\ "done" # "discovered" /\ "install" \in Services
  BY DEF Admitted, Stages, Services
<1>6. /\ "done" = "provisioning" => kind[r] = "provision"
      /\ "done" \in {"keyed", "uninstalling"} => kind[r] = "decommission"
      /\ "install" # "systemModel" => kind[r] \in Delegated
  BY DEF InstallCluster, IInv, Complete, Delegated
<1>7. {"cluster"} \in SUBSET {"cluster"}
  OBVIOUS
<1>8. QED
  BY <1>1, <1>2, <1>3, <1>4, <1>5, <1>6, <1>7, SendInv

LEMMA ProvisionClusterInv ==
    ASSUME IInv, NEW r \in Requests, ProvisionCluster(r)
    PROVE  IInv'
<1>1. HasFields(kind[r], given[r]) /\ stage[r] \in Admitted
  BY DEF IInv, Complete, ProvisionCluster, Admitted, Stages
<1>2. given[r] \cup {"cluster"} \in SUBSET AllFields
  BY KnownFields DEF IInv, TypeOK
<1>3. /\ Send(r, "provision", given[r] \cup {"cluster"}) /\ GoTo(r, "provisioning")
      /\ UNCHANGED <<kind, id, usedIds>>
      /\ given' = [given EXCEPT ![r] = @ \cup {"cluster"}]
      /\ keyless' \subseteq Requests /\ keyless \subseteq keyless'
  BY DEF ProvisionCluster, IInv, TypeOK
<1>4. MessageOk(r, "provision", given[r] \cup {"cluster"})
  BY <1>1 DEF MessageOk, ProvisionCluster, HasFields, OnAzure, Delegated, IInv, Complete
<1>5. "provisioning" \in Admitted /\ "provisioning" # "discovered" /\ "provision" \in Services
  BY DEF Admitted, Stages, Services
<1>6. /\ "provisioning" = "provisioning" => kind[r] = "provision"
      /\ "provisioning" \in {"keyed", "uninstalling"} => kind[r] = "decommission"
      /\ "provision" # "systemModel" => kind[r] \in Delegated
  BY DEF ProvisionCluster, IInv, Complete, Delegated
<1>7. {"cluster"} \in SUBSET {"cluster"}
  OBVIOUS
<1>8. QED
  BY <1>1, <1>2, <1>3, <1>4, <1>5, <1>6, <1>7, SendInv

LEMMA ProvisionCallbackInv ==
    ASSUME IInv, NEW r \in Requests, ProvisionCallback(r)
    PROVE  IInv'
<1>1. HasFields(kind[r], given[r]) /\ stage[r] \in Admitted
  BY DEF IInv, Complete, ProvisionCallback, Admitted, Stages
<1>2. ProvisionedInstall \in SUBSET AllFields
  BY KnownFields DEF IInv, TypeOK, ProvisionedInstall
<1>3. /\ Send(r, "install", ProvisionedInstall) /\ GoTo(r, "done")
      /\ UNCHANGED <<kind, id, usedIds>>
      /\ given' = [given EXCEPT ![r] = @ \cup {}]
      /\ keyless' \subseteq Requests /\ keyless \subseteq keyless'
  BY DEF ProvisionCallback, IInv, TypeOK
<1>4. MessageOk(r, "install", ProvisionedInstall)
  BY <1>1 DEF MessageOk, ProvisionCallback, HasFields, OnAzure, Delegated, IInv, Complete,
              ProvisionedInstall
<1>5. "done" \in Admitted /\ "done" # "discovered" /\ "install" \in Services
  BY DEF Admitted, Stages, Services
<1>6. /\ "done" = "provisioning" => kind[r] = "provision"
      /\ "done" \in {"keyed", "uninstalling"} => kind[r] = "decommission"
      /\ "install" # "systemModel" => kind[r] \in Delegated
  BY DEF ProvisionCallback, IInv, Complete, Delegated
<1>7. {} \in SUBSET {"cluster"}
  OBVIOUS
<1>8. QED
  BY <1>1, <1>2, <1>3, <1>4, <1>5, <1>6, <1>7, SendInv

LEMMA ScaleClusterInv ==
    ASSUME IInv, NEW r \in Requests, ScaleCluster(r)
    PROVE  IInv'
<1>1. HasFields(kind[r], given[r]) /\ stage[r] \in Admitted
  BY DEF IInv, Complete, ScaleCluster, Admitted, Stages
<1>2. given[r] \in SUBSET AllFields
  BY KnownFields DEF IInv, TypeOK
<1>3. /\ Send(r, "scale", given[r]) /\ GoTo(r, "done")
      /\ UNCHANGED <<kind, id, usedIds>>
      /\ given' = [given EXCEPT ![r] = @ \cup {}]
      /\ keyless' \subseteq Requests /\ keyless \subseteq keyless'
  BY DEF ScaleCluster, IInv, TypeOK
<1>4. MessageOk(r, "scale", given[r])
  BY <1>1 DEF MessageOk, ScaleCluster, HasFields, OnAzure, Delegated, IInv, Complete
<1>5. "done" \in Admitted /\ "done" # "discovered" /\ "scale" \in Services
  BY DEF Admitted, Stages, Services
<1>6. /\ "done" = "provisioning" => kind[r] = "provision"
      /\ "done" \in {"keyed", "uninstalling"} => kind[r] = "decommission"
      /\ "scale" # "systemModel" => kind[r] \in Delegated
  BY DEF ScaleCluster, IInv, Complete, Delegated
<1>7. {} \in SUBSET {"cluster"}
  OBVIOUS
<1>8. QED
  BY <1>1, <1>2, <1>3, <1>4, <1>5, <1>6, <1>7, SendInv

LEMMA UninstallClusterInv ==
    ASSUME IInv, NEW r \in Requests, UninstallCluster(r)
    PROVE  IInv'
<1>1. HasFields(kind[r], given[r]) /\ stage[r] \in Admitted
  BY DEF IInv, Complete, UninstallCluster, Admitted, Stages
<1>2. given[r] \in SUBSET AllFields
  BY KnownFields DEF IInv, TypeOK
<1>3. /\ Send(r, "uninstall", given[r]) /\ GoTo(r, "done")
      /\ UNCHANGED <<kind, id, usedIds>>
      /\ given' = [given EXCEPT ![r] = @ \cup {}]
      /\ keyless' \subseteq Requests /\ keyless \subseteq keyless'
  BY DEF UninstallCluster, IInv, TypeOK
<1>4. MessageOk(r, "uninstall", given[r])
  BY <1>1 DEF MessageOk, UninstallCluster, HasFields, OnAzure, Delegated, IInv, Complete
<1>5. "done" \in Admitted /\ "done" # "discovered" /\ "uninstall" \in Services
  BY DEF Admitted, Stages, Services
<1>6. /\ "done" = "provisioning" => kind[r] = "provision"
      /\ "done" \in {"keyed", "uninstalling"} => kind[r] = "decommission"
      /\ "uninstall" # "systemModel" => kind[r] \in Delegated
  BY DEF UninstallCluster, IInv, Complete, Delegated
<1>7. {} \in SUBSET {"cluster"}
  OBVIOUS
<1>8. QED
  BY <1>1, <1>2, <1>3, <1>4, <1>5, <1>6, <1>7, SendInv

LEMMA GetKubeConfigInv ==
    ASSUME IInv, NEW r \in Requests, GetKubeConfig(r)
    PROVE  IInv'
<1>1. HasFields(kind[r], given[r]) /\ stage[r] \in Admitted
  BY DEF IInv, Complete, GetKubeConfig, Admitted, Stages
<1>2. given[r] \in SUBSET AllFields
  BY KnownFields DEF IInv, TypeOK
<1>3. /\ Send(r, "getKubeConfig", given[r]) /\ GoTo(r, "keyed")
      /\ UNCHANGED <<kind, id, usedIds>>
      /\ given' = [given EXCEPT ![r] = @ \cup {}]
      /\ keyless' \subseteq Requests /\ keyless \subseteq keyless'
  BY DEF GetKubeConfig, IInv, TypeOK
<1>4. MessageOk(r, "getKubeConfig", given[r])
  BY <1>1 DEF MessageOk, GetKubeConfig, HasFields, OnAzure, Delegated, IInv, Complete
<1>5. "keyed" \in Admitted /\ "keyed" # "discovered" /\ "getKubeConfig" \in Services
  BY DEF Admitted, Stages, Services
<1>6. /\ "keyed" = "provisioning" => kind[r] = "provision"
      /\ "keyed" \in {"keyed", "uninstalling"} => kind[r] = "decommission"
      /\ "getKubeConfig" # "systemModel" => kind[r] \in Delegated
  BY DEF GetKubeConfig, IInv, Complete, Delegated
<1>7. {} \in SUBSET {"cluster"}
  OBVIOUS
<1>8. QED
  BY <1>1, <1>2, <1>3, <1>4, <1>5, <1>6, <1>7, SendInv

LEMMA UninstallFirstInv ==
    ASSUME IInv, NEW r \in Requests, UninstallFirst(r)
    PROVE  IInv'
<1>1. HasFields(kind[r], given[r]) /\ stage[r] \in Admitted
  BY DEF IInv, Complete, UninstallFirst, Admitted, Stages
<1>2. UninstallRequest(r) \in SUBSET AllFields
  BY KnownFields DEF IInv, TypeOK, UninstallRequest
<1>3. /\ Send(r, "uninstall", UninstallRequest(r)) /\ GoTo(r, "uninstalling")
      /\ UNCHANGED <<kind, id, usedIds>>
      /\ given' = [given EXCEPT ![r] = @ \cup {}]
      /\ keyless' \subseteq Requests /\ keyless \subseteq keyless'
  BY DEF UninstallFirst, IInv, TypeOK
<1>4. MessageOk(r, "uninstall", UninstallRequest(r))
  BY <1>1 DEF MessageOk, UninstallFirst, HasFields, OnAzure, Delegated, IInv, Complete,
              UninstallRequest
<1>5. "uninstalling" \in Admitted /\ "uninstalling" # "discovered" /\ "uninstall" \in Services
  BY DEF Admitted, Stages, Services
<1>6. /\ "uninstalling" = "provisioning" => kind[r] = "provision"
      /\ "uninstalling" \in {"keyed", "uninstalling"} => kind[r] = "decommission"
      /\ "uninstall" # "systemModel" => kind[r] \in Delegated
  BY DEF UninstallFirst, IInv, Complete, Delegated
<1>7. {} \in SUBSET {"cluster"}
  OBVIOUS
<1>8. QED
  BY <1>1, <1>2, <1>3, <1>4, <1>5, <1>6, <1>7, SendInv

LEMMA DecommissionInv ==
    ASSUME IInv, NEW r \in Requests, Decommission(r)
    PROVE  IInv'
<1>1. HasFields(kind[r], given[r]) /\ stage[r] \in Admitted
  BY DEF IInv, Complete, Decommission, Admitted, Stages
<1>2. DecommissionRequest(r) \in SUBSET AllFields
  BY KnownFields DEF IInv, TypeOK, DecommissionRequest
<1>3. /\ Send(r, "decommission", DecommissionRequest(r)) /\ GoTo(r, "done")
      /\ UNCHANGED <<kind, id, usedIds>>
      /\ given' = [given EXCEPT ![r] = @ \cup {}]
      /\ keyless' \subseteq Requests /\ keyless \subseteq keyless'
  BY DEF Decommission, IInv, TypeOK
<1>4. MessageOk(r, "decommission", DecommissionRequest(r))
  BY <1>1 DEF MessageOk, Decommission, HasFields, OnAzure, Delegated, IInv, Complete,
              DecommissionRequest
<1>5. "done" \in Admitted /\ "done" # "discovered" /\ "decommission" \in Services
  BY DEF Admitted, Stages, Services
<1>6. /\ "done" = "provisioning" => kind[r] = "provision"
      /\ "done" \in {"keyed", "uninstalling"} => kind[r] = "decommission"
      /\ "decommission" # "systemModel" => kind[r] \in Delegated
  BY DEF Decommission, IInv, Complete, Delegated
<1>7. {} \in SUBSET {"cluster"}
  OBVIOUS
<1>8. QED
  BY <1>1, <1>2, <1>3, <1>4, <1>5, <1>6, <1>7, SendInv

LEMMA StutterInv == IInv /\ UNCHANGED vars => IInv'
BY DEF vars, IInv, TypeOK, Complete, OwnIds, SentIds, Stamped, InstallerGetsComplete,
       ProvisionerGetsComplete

LEMMA InitInv == Init => IInv
BY DEF Init, IInv, TypeOK, Stages, Complete, Admitted, OwnIds, SentIds, Stamped,
       InstallerGetsComplete, ProvisionerGetsComplete

LEMMA IInvHolds == Spec => []IInv
<1>1. Init => IInv
  BY InitInv
<1>2. IInv /\ [Next]_vars => IInv'
  <2>1. SUFFICES ASSUME IInv, Next \/ UNCHANGED vars
                 PROVE  IInv'
    OBVIOUS
  <2>2. ASSUME NEW r \in Requests, Reject(r) \/ DiscoverCluster(r) \/ Fail(r)
        PROVE  IInv'
    <3>1. CASE Reject(r)
      BY <2>1, <3>1, MoveInv DEF Reject, Stages, Ended
    <3>2. CASE DiscoverCluster(r)
      BY <2>1, <3>2, MoveInv DEF DiscoverCluster, Stages, Ended, Admitted
    <3>3. CASE Fail(r)
      BY <2>1, <3>3, MoveInv DEF Fail, Stages, Ended, Admitted
    <3>4. QED
      BY <2>2, <3>1, <3>2, <3>3
  <2>3. ASSUME NEW r \in Requests, Receive(r) \/ Step(r)
        PROVE  IInv'
    BY <2>1, <2>2, <2>3, ReceiveInv, AdmitInv, ForwardInv, InstallClusterInv,
       ProvisionClusterInv, ProvisionCallbackInv, ScaleClusterInv, UninstallClusterInv,
       GetKubeConfigInv, UninstallFirstInv, DecommissionInv DEF Step
  <2>4. CASE UNCHANGED vars
    BY <2>1, <2>4, StutterInv
  <2>5. QED
    BY <2>1, <2>3, <2>4 DEF Next, Waiting
<1>3. QED
  BY <1>1, <1>2, PTL DEF Spec

\* Every variable keeps its type.
THEOREM AdmissionTypeCorrect == Spec => []TypeOK
<1>1. IInv => TypeOK
  BY DEF IInv
<1>2. QED
  BY <1>1, IInvHolds, PTL

\* Whatever callers give, the installer gets complete requests.
THEOREM InstallerRequestsComplete == Spec => []InstallerGetsComplete
<1>1. IInv => InstallerGetsComplete
  BY DEF IInv
<1>2. QED
  BY <1>1, IInvHolds, PTL

\* And so does the provisioner, also from callbacks.
THEOREM ProvisionerRequestsComplete == Spec => []ProvisionerGetsComplete
<1>1. IInv => ProvisionerGetsComplete
  BY DEF IInv
<1>2. QED
  BY <1>1, IInvHolds, PTL

-----------------------------------------------------------------------------
\* A request asks each component for one operation at most.

OneEach(m, n) ==
    /\ m.service \in Delegated /\ n.service \in Delegated
    /\ ServedBy(m.service) = ServedBy(n.service)
    /\ m.by = n.by
    => m = n

\* Which operation, at the stages from which another one may follow.
SentOnce ==
    /\ \A m \in sent :
          m.service \in Delegated =>
              \/ stage[m.by] \in Ended
              \/ stage[m.by] = "provisioning" /\ m.service = "provision"
              \/ stage[m.by] = "uninstalling" /\ m.service = "uninstall"
    /\ \A m, n \in sent : OneEach(m, n)

\* The stages at which a message is sent, and those it leads to.
LEMMA SendOnce ==
    ASSUME TypeOK, SentOnce, NEW r \in Requests, NEW s \in Services, NEW f, NEW l \in Stages,
           Send(r, s, f), GoTo(r, l),
           \/ stage[r] = "admitted" /\ s \notin Delegated
           \/ /\ stage[r] \in {"admitted", "discovered", "keyed"}
              /\ \/ l = "done"
                 \/ l = "provisioning" /\ s = "provision"
                 \/ l = "uninstalling" /\ s = "uninstall"
           \/ stage[r] = "provisioning" /\ s = "install" /\ l = "done"
           \/ stage[r] = "uninstalling" /\ s = "decommission" /\ l = "done"
    PROVE  SentOnce'
<1> DEFINE q == [service |-> s, fields |-> f, id |-> id[r], by |-> r]
<1>1. sent' = sent \cup {q} /\ q.service = s /\ q.by = r
  BY DEF Send
<1>. HIDE DEF q
<1>2. stage'[r] = l /\ \A x \in Requests : x # r => stage'[x] = stage[x]
  BY DEF GoTo, TypeOK
<1>3. \A m \in sent : m.by \in Requests
  BY DEF TypeOK, Messages
<1>4. ASSUME NEW m \in sent, m.service \in Delegated, m.by = r
      PROVE  /\ l = "done" /\ s \in Delegated
             /\ ServedBy(m.service) # ServedBy(s)
  <2>1. \/ stage[r] = "provisioning" /\ m.service = "provision"
        \/ stage[r] = "uninstalling" /\ m.service = "uninstall"
    BY <1>4 DEF SentOnce, Ended
  <2>2. QED
    BY <2>1 DEF ServedBy, Delegated
<1>5. s \in Delegated => \/ l \in Ended
                         \/ l = "provisioning" /\ s = "provision"
                         \/ l = "uninstalling" /\ s = "uninstall"
  BY DEF Ended
<1>6. ASSUME NEW m \in sent', m.service \in Delegated
      PROVE  \/ stage'[m.by] \in Ended
             \/ stage'[m.by] = "provisioning" /\ m.service = "provision"
             \/ stage'[m.by] = "uninstalling" /\ m.service = "uninstall"
  <2>1. CASE m = q
    BY <1>1, <1>2, <1>5, <1>6, <2>1
  <2>2. CASE m \in sent /\ m.by = r
    BY <1>2, <1>4, <1>6, <2>2 DEF Ended
  <2>3. CASE m \in sent /\ m.by # r
    BY <1>2, <1>3, <1>6, <2>3 DEF SentOnce
  <2>4. QED
    BY <1>1, <2>1, <2>2, <2>3
<1>7. ASSUME NEW m \in sent', NEW n \in sent'
      PROVE  OneEach(m, n)
  <2>1. CASE m \in sent /\ n \in sent
    BY <2>1 DEF SentOnce
  <2>2. CASE m = q \/ n = q
    BY <1>1, <1>4, <2>2 DEF OneEach
  <2>3. QED
    BY <1>1, <2>1, <2>2
<1>8. QED
  BY <1>6, <1>7 DEF SentOnce, OneEach

\* Nothing is sent, by a request that has asked for nothing yet or ends.
LEMMA QuietOnce ==
    ASSUME TypeOK, SentOnce, NEW r \in Requests, NEW l \in Stages,
           UNCHANGED sent, GoTo(r, l),
           stage[r] \in {"idle", "arrived", "admitted"} \/ l \in Ended
    PROVE  SentOnce'
<1>1. stage'[r] = l /\ \A x \in Requests : x # r => stage'[x] = stage[x]
  BY DEF GoTo, TypeOK
<1>2. ASSUME NEW m \in sent, m.service \in Delegated
      PROVE  \/ stage'[m.by] \in Ended
             \/ stage'[m.by] = "provisioning" /\ m.service = "provision"
             \/ stage'[m.by] = "uninstalling" /\ m.service = "uninstall"
  <2>1. m.by \in Requests
    BY DEF TypeOK, Messages
  <2>2. m.by = r => l \in Ended
    BY <1>2 DEF SentOnce, Ended
  <2>3. QED
    BY <1>1, <1>2, <2>1, <2>2 DEF SentOnce
<1>3. QED
  BY <1>2 DEF SentOnce, OneEach

LEMMA StepOnce ==
    ASSUME TypeOK, SentOnce, NEW r \in Requests, Receive(r) \/ Step(r)
    PROVE  SentOnce'
<1>1. CASE Receive(r)
  BY <1>1, QuietOnce DEF Receive, Stages
<1>2. CASE Admit(r)
  BY <1>2, QuietOnce DEF Admit, Stages
<1>3. CASE Reject(r)
  BY <1>3, QuietOnce DEF Reject, Stages
<1>4. CASE Forward(r)
  BY <1>4, SendOnce DEF Forward, Stages, Services, Delegated
<1>5. CASE DiscoverCluster(r)
  BY <1>5, QuietOnce DEF DiscoverCluster, Stages
<1>6. CASE InstallCluster(r)
  BY <1>6, SendOnce DEF InstallCluster, Stages, Services
<1>7. CASE ProvisionCluster(r)
  BY <1>7, SendOnce DEF ProvisionCluster, Stages, Services
<1>8. CASE ProvisionCallback(r)
  BY <1>8, SendOnce DEF ProvisionCallback, Stages, Services
<1>9. CASE ScaleCluster(r)
  BY <1>9, SendOnce DEF ScaleCluster, Stages, Services
<1>10. CASE UninstallCluster(r)
  BY <1>10, SendOnce DEF UninstallCluster, Stages, Services
<1>11. CASE GetKubeConfig(r)
  BY <1>11, SendOnce DEF GetKubeConfig, Stages, Services, Delegated
<1>12. CASE UninstallFirst(r)
  BY <1>12, SendOnce DEF UninstallFirst, Stages, Services
<1>13. CASE Decommission(r)
  BY <1>13, SendOnce DEF Decommission, Stages, Services
<1>14. CASE Fail(r)
  BY <1>14, QuietOnce DEF Fail, Stages, Ended
<1>15. QED
  BY <1>1, <1>2, <1>3, <1>4, <1>5, <1>6, <1>7, <1>8, <1>9, <1>10, <1>11, <1>12, <1>13, <1>14
     DEF Step

LEMMA SentOnceHolds == Spec => []SentOnce
<1>1. Init => SentOnce
  BY DEF Init, SentOnce
<1>2. TypeOK /\ SentOnce /\ [Next]_vars => SentOnce'
  <2>1. SUFFICES ASSUME TypeOK, SentOnce, Next \/ UNCHANGED vars
                 PROVE  SentOnce'
    OBVIOUS
  <2>2. CASE UNCHANGED vars
    BY <2>1, <2>2 DEF SentOnce, OneEach, vars
  <2>3. QED
    BY <2>1, <2>2, StepOnce DEF Next, Waiting
<1>3. QED
  BY <1>1, <1>2, AdmissionTypeCorrect, PTL DEF Spec

\* However callers choose identifiers, neither the installer nor the provisioner is asked
\* for two operations under one: requests have identifiers of their own, and each asks
\* a component for one operation at most.
THEOREM OperationsToldApart == Spec => []IdsTellOperationsApart
<1>1. IInv /\ SentOnce => IdsTellOperationsApart
  <2>1. SUFFICES ASSUME IInv, SentOnce, NEW m \in sent, NEW n \in sent,
                        m.service \in Delegated, n.service \in Delegated,
                        ServedBy(m.service) = ServedBy(n.service), m.id = n.id
                 PROVE  m = n
    BY DEF IdsTellOperationsApart
  <2>2. m.by \in Requests /\ n.by \in Requests
    BY <2>1 DEF IInv, TypeOK, Messages
  <2>3. m.by = n.by
    BY <2>1, <2>2 DEF IInv, SentIds, OwnIds, Delegated
  <2>4. QED
    BY <2>1, <2>3 DEF SentOnce, OneEach
<1>2. QED
  BY <1>1, IInvHolds, SentOnceHolds, PTL
=============================================================================
