------------------------- MODULE LocalVolumeProofs -------------------------
(***************************************************************************)
(* Proofs about LocalVolume, for every set of nodes, pods and claims, all  *)
(* sizes and any number of faults.                                         *)
(***************************************************************************)
EXTENDS LocalVolume, TLAPS

USE DEF Keys

(* The conversions of sizes yield sizes. *)

LEMMA DivNat ==
    ASSUME NEW x \in Nat, NEW d \in Nat \ {0}
    PROVE  x \div d \in Nat
  OBVIOUS

LEMMA LeftNat ==
    ASSUME NEW x \in Nat, NEW new \in Nat, NEW old \in Nat, new - old <= x
    PROVE  x - (new - old) \in Nat
  OBVIOUS

LEMMA ToStatusNat ==
    ASSUME NEW x \in Nat
    PROVE  ToStatus(x) \in Nat
  BY DivNat, SizesAssumption DEF ToStatus

LEMMA GetPvSizeNat ==
    ASSUME NEW x \in Nat
    PROVE  GetPvSize(x) \in Nat
<1>1. x \div GiB \in Nat
  BY DivNat, SizesAssumption
<1>2. \A y \in Nat, z \in Nat : y * z \in Nat
  OBVIOUS
<1> QED
  BY <1>1, <1>2, SizesAssumption DEF GetPvSize, SizeNumber

LEMMA StoredType ==
    ASSUME lv \in [Nodes -> LocalVolumeObject], NEW n \in Nodes,
           NEW obj \in LocalVolumeObject
    PROVE  Stored(n, obj) \in [Nodes -> LocalVolumeObject]
  BY DEF Stored, LocalVolumeObject

LEMMA NoObjectsType ==
    /\ NoLocalVolume \in LocalVolumeObject
    /\ NoPersistentVolume \in PersistentVolumeObject
  BY DEF NoLocalVolume, NoPersistentVolume, LocalVolumeObject, PersistentVolumeObject

LEMMA InitType == Init => TypeOK
<1> SUFFICES ASSUME Init PROVE TypeOK
  OBVIOUS
<1>1. ApiTypeOK
  BY NoObjectsType DEF Init, ApiTypeOK, NoPersistentVolume
<1>2. SchedTypeOK
  BY NoObjectsType DEF Init, SchedTypeOK
<1>3. pending \in [Nodes -> BOOLEAN] /\ lost \in [Nodes -> BOOLEAN]
  BY Zenon DEF Init
<1>4. AgentTypeOK
  BY <1>3, NoObjectsType DEF Init, AgentTypeOK
<1> QED
  BY <1>1, <1>2, <1>4, SizesAssumption, BoundsAssumption DEF Init, TypeOK
----------------------------------------------------------------------------
(* The steps of the extender preserve the types. *)

LEMMA FaultType == TypeOK /\ Fault => faults' \in 0 .. MaxFaults
  BY BoundsAssumption DEF TypeOK, Fault

LEMMA UnbindType ==
    ASSUME TypeOK, NEW p \in Pods, Unbind(p)
    PROVE  SchedTypeOK'
  BY NoObjectsType DEF TypeOK, SchedTypeOK, Unbind

LEMMA SchedNextType == TypeOK /\ SchedNext => TypeOK'
<1> SUFFICES ASSUME TypeOK, SchedNext PROVE TypeOK'
  OBVIOUS
<1>0. UNCHANGED <<pv, agentVars, nodeVars>>
  BY DEF SchedNext, PredicateHandler, BindCopy, BindLookupError, BindUpdateStatus,
     BindUpdateStatusError, BindPod, BindPodError, SchedSyncLocalVolume, SchedSyncClaim,
     SchedRestart, apiVars
<1>a. AgentTypeOK' /\ vgFree' \in [Nodes -> Nat] /\ lvSize' \in [Claims -> Nat]
  BY <1>0 DEF TypeOK, AgentTypeOK, agentVars, nodeVars
<1>1. ASSUME NEW p \in Pods, NEW n \in Nodes, PredicateHandler(p, n) PROVE TypeOK'
  BY <1>1, <1>a DEF TypeOK, ApiTypeOK, SchedTypeOK, PredicateHandler, apiVars
<1>2. ASSUME NEW p \in Pods, BindCopy(p) PROVE TypeOK'
  <2>1. BindKeys(p) \subseteq Keys
    BY DEF BindKeys
  <2>2. target[p] \in Nodes
    BY <1>2 DEF TypeOK, SchedTypeOK, BindCopy
  <2>3. [schedLv[target[p]] EXCEPT !.pre = @ \cup BindKeys(p)] \in LocalVolumeObject
    BY <2>1, <2>2 DEF TypeOK, SchedTypeOK, LocalVolumeObject
  <2> QED
    BY <1>2, <1>a, <2>2, <2>3 DEF TypeOK, ApiTypeOK, SchedTypeOK, BindCopy, apiVars
<1>3. ASSUME NEW p \in Pods, BindLookupError(p) PROVE TypeOK'
  BY <1>3, <1>a, UnbindType, FaultType DEF TypeOK, ApiTypeOK, BindLookupError, apiVars
<1>4. ASSUME NEW p \in Pods, BindUpdateStatus(p) PROVE TypeOK'
  <2>1. lv' \in [Nodes -> LocalVolumeObject]
    BY Zenon, <1>4, StoredType DEF TypeOK, ApiTypeOK, SchedTypeOK, BindUpdateStatus
  <2> QED
    BY <1>4, <1>a, <2>1 DEF TypeOK, ApiTypeOK, SchedTypeOK, BindUpdateStatus
<1>5. ASSUME NEW p \in Pods, BindUpdateStatusError(p) PROVE TypeOK'
  <2>1. Stored(target[p], copylv[p]) \in [Nodes -> LocalVolumeObject]
    BY Zenon, <1>5, StoredType DEF TypeOK, ApiTypeOK, SchedTypeOK, BindUpdateStatusError
  <2>2. lv' \in [Nodes -> LocalVolumeObject] /\ faults' \in 0 .. MaxFaults
    BY <1>5, <2>1, FaultType DEF TypeOK, ApiTypeOK, BindUpdateStatusError
  <2> QED
    BY <1>5, <1>a, <2>2, UnbindType DEF TypeOK, ApiTypeOK, BindUpdateStatusError
<1>6. ASSUME NEW p \in Pods, BindPod(p) PROVE TypeOK'
  BY <1>6, <1>a DEF TypeOK, ApiTypeOK, SchedTypeOK, BindPod
<1>7. ASSUME NEW p \in Pods, BindPodError(p) PROVE TypeOK'
  <2>1. podNode' \in [Pods -> Nodes \cup {None}] /\ faults' \in 0 .. MaxFaults
    BY <1>7, FaultType DEF TypeOK, ApiTypeOK, SchedTypeOK, BindPodError
  <2> QED
    BY <1>7, <1>a, <2>1, UnbindType DEF TypeOK, ApiTypeOK, BindPodError
<1>8. ASSUME NEW n \in Nodes, SchedSyncLocalVolume(n) PROVE TypeOK'
  BY Zenon, <1>8, <1>a DEF TypeOK, ApiTypeOK, SchedTypeOK, SchedSyncLocalVolume, apiVars
<1>9. ASSUME NEW c \in Claims, SchedSyncClaim(c) PROVE TypeOK'
  BY <1>9, <1>a DEF TypeOK, ApiTypeOK, SchedTypeOK, SchedSyncClaim, apiVars
<1>10. CASE SchedRestart
  BY <1>10, <1>a, FaultType, NoObjectsType
  DEF TypeOK, ApiTypeOK, SchedTypeOK, SchedRestart, apiVars
<1> QED
  BY <1>1, <1>2, <1>3, <1>4, <1>5, <1>6, <1>7, <1>8, <1>9, <1>10 DEF SchedNext
----------------------------------------------------------------------------
(* The steps of the agent preserve the types. *)

LEMMA AgentDoneType ==
    ASSUME TypeOK, NEW n \in Nodes, AgentDone(n)
    PROVE  /\ agentPc' \in [Nodes -> {"down", "idle", "copied", "changed"}]
           /\ work' \in [Nodes -> LocalVolumeObject]
  BY NoObjectsType DEF TypeOK, AgentTypeOK, AgentDone

LEMMA NewStatusType ==
    ASSUME TypeOK, NEW n \in Nodes
    PROVE  NewStatus(n) \in LocalVolumeObject
<1>1. ToStatus(VGSize[n]) \in Nat /\ ToStatus(vgFree[n]) \in Nat
  BY ToStatusNat, SizesAssumption DEF TypeOK
<1>2. work[n] \in LocalVolumeObject
  BY DEF TypeOK, AgentTypeOK
<1>3. work[n].pre \ GetMyNodeBoundedPVCList(n) \in SUBSET Keys
  BY <1>2 DEF LocalVolumeObject
<1> QED
  BY Zenon, <1>1, <1>2, <1>3 DEF NewStatus, LocalVolumeObject

\* What a step that sets pending or lost for one node does to their types.
LEMMA FlagType ==
    ASSUME NEW f \in [Nodes -> BOOLEAN], NEW n \in Nodes, NEW b \in BOOLEAN
    PROVE  [f EXCEPT ![n] = b] \in [Nodes -> BOOLEAN]
  BY Zenon

LEMMA AgentNextType == TypeOK /\ AgentNext => TypeOK'
<1> SUFFICES ASSUME TypeOK, NEW n \in Nodes,
                    NewAgent(n) \/ AgentCrash(n) \/ AgentSync(n) \/ Resync(n) \/ AgentWorker(n)
             PROVE  TypeOK'
  BY DEF AgentNext
<1>0. UNCHANGED <<pv, podNode, nodeVars, schedVars>>
  BY Zenon DEF NewAgent, AgentCrash, AgentSync, AgentWorker, AgentSyncLocalVolume,
     AgentSyncPersistentVolume, Resync, Reconcile, Reconciler, ReconcilerNoVGInfo,
     AgentUpdateStatus, AgentUpdateStatusError, apiVars
<1>a. SchedTypeOK' /\ vgFree' \in [Nodes -> Nat] /\ lvSize' \in [Claims -> Nat]
  BY <1>0 DEF TypeOK, SchedTypeOK, schedVars, nodeVars
<1>b. lv' \in [Nodes -> LocalVolumeObject] => ApiTypeOK'
  BY <1>0 DEF TypeOK, ApiTypeOK
<1>1. CASE NewAgent(n)
  <2>1. lv' \in [Nodes -> LocalVolumeObject] /\ faults' \in 0 .. MaxFaults
    <3>1. lv' \in {lv, [lv EXCEPT ![n] = [NoLocalVolume EXCEPT !.rv = 1]]}
      BY <1>1 DEF NewAgent, Registered
    <3>2. [NoLocalVolume EXCEPT !.rv = 1] \in LocalVolumeObject
      BY NoObjectsType DEF LocalVolumeObject
    <3>3. faults' \in 0 .. MaxFaults
      BY Zenon, <1>1, FaultType DEF NewAgent, TypeOK
    <3> QED
      BY <3>1, <3>2, <3>3 DEF TypeOK, ApiTypeOK
  <2>2. pending' \in [Nodes -> BOOLEAN]
    BY <1>1, FlagType DEF NewAgent, TypeOK, AgentTypeOK
  <2> QED
    BY <1>1, <1>a, <1>b, <2>1, <2>2 DEF NewAgent, TypeOK, ApiTypeOK, AgentTypeOK
<1>2. CASE AgentCrash(n)
  <2>1. pending' \in [Nodes -> BOOLEAN]
    BY <1>2, FlagType DEF AgentCrash, TypeOK, AgentTypeOK
  <2> QED
    BY <1>2, <1>a, <1>b, <2>1, NoObjectsType, FaultType
    DEF AgentCrash, TypeOK, ApiTypeOK, AgentTypeOK, apiVars
<1>3. CASE AgentSyncLocalVolume(n)
  <2>1. pending' \in [Nodes -> BOOLEAN]
    BY <1>3, FlagType DEF AgentSyncLocalVolume, TypeOK, AgentTypeOK
  <2> QED
    BY <1>3, <1>a, <1>b, <2>1 DEF AgentSyncLocalVolume, TypeOK, ApiTypeOK, AgentTypeOK, apiVars
<1>4. ASSUME NEW c \in Claims, AgentSyncPersistentVolume(n, c) PROVE TypeOK'
  <2>1. pending' \in [Nodes -> BOOLEAN] /\ lost' \in [Nodes -> BOOLEAN]
    BY Zenon, <1>4, FlagType DEF AgentSyncPersistentVolume, TypeOK, AgentTypeOK
  <2>2. agentPv' \in [Nodes -> [Claims -> PersistentVolumeObject]]
    BY <1>4 DEF AgentSyncPersistentVolume, TypeOK, ApiTypeOK, AgentTypeOK
  <2>3. faults' \in 0 .. MaxFaults
    BY <1>4, FaultType DEF AgentSyncPersistentVolume, TypeOK
  <2> QED
    BY <1>4, <1>a, <1>b, <2>1, <2>2, <2>3
    DEF AgentSyncPersistentVolume, TypeOK, ApiTypeOK, AgentTypeOK, apiVars
<1>5. CASE Resync(n)
  <2>1. pending' \in [Nodes -> BOOLEAN]
    BY <1>5, FlagType DEF Resync, TypeOK, AgentTypeOK
  <2> QED
    BY <1>5, <1>a, <1>b, <2>1 DEF Resync, TypeOK, ApiTypeOK, AgentTypeOK, apiVars
<1>6. CASE Reconcile(n)
  <2>1. pending' \in [Nodes -> BOOLEAN]
    BY <1>6, FlagType DEF Reconcile, TypeOK, AgentTypeOK
  <2>2. /\ agentPc' \in [Nodes -> {"down", "idle", "copied", "changed"}]
        /\ work' \in [Nodes -> LocalVolumeObject]
    BY Zenon, <1>6 DEF Reconcile, TypeOK, AgentTypeOK
  <2> QED
    BY <1>6, <1>a, <1>b, <2>1, <2>2 DEF Reconcile, TypeOK, ApiTypeOK, AgentTypeOK, apiVars
<1>7. CASE Reconciler(n)
  <2>1. lost' \in [Nodes -> BOOLEAN]
    BY <1>7, FlagType DEF Reconciler, TypeOK, AgentTypeOK
  <2>2. /\ agentPc' \in [Nodes -> {"down", "idle", "copied", "changed"}]
        /\ work' \in [Nodes -> LocalVolumeObject]
    <3>1. NewStatus(n) \in LocalVolumeObject
      BY NewStatusType
    <3>2. CASE AgentDone(n)
      BY <3>2, AgentDoneType
    <3>3. CASE /\ agentPc' = [agentPc EXCEPT ![n] = "changed"]
               /\ work' = [work EXCEPT ![n] = NewStatus(n)]
      BY <3>1, <3>3 DEF TypeOK, AgentTypeOK
    <3> QED
      BY <1>7, <3>2, <3>3 DEF Reconciler
  <2> QED
    BY <1>7, <1>a, <1>b, <2>1, <2>2 DEF Reconciler, TypeOK, ApiTypeOK, AgentTypeOK, apiVars
<1>8. CASE ReconcilerNoVGInfo(n)
  <2>1. lost' \in [Nodes -> BOOLEAN]
    BY <1>8, FlagType DEF ReconcilerNoVGInfo, TypeOK, AgentTypeOK
  <2> QED
    BY Zenon, <1>8, <1>a, <1>b, <2>1, AgentDoneType, FaultType
    DEF ReconcilerNoVGInfo, TypeOK, ApiTypeOK, AgentTypeOK, apiVars
<1>9. CASE AgentUpdateStatus(n)
  <2>1. lv' \in [Nodes -> LocalVolumeObject]
    BY <1>9, StoredType DEF AgentUpdateStatus, TypeOK, ApiTypeOK, AgentTypeOK
  <2> QED
    BY <1>9, <1>a, <1>b, <2>1, AgentDoneType DEF AgentUpdateStatus, TypeOK, AgentTypeOK
<1>10. CASE AgentUpdateStatusError(n)
  <2>1. Stored(n, work[n]) \in [Nodes -> LocalVolumeObject]
    BY StoredType DEF TypeOK, ApiTypeOK, AgentTypeOK
  <2>2. lv' \in [Nodes -> LocalVolumeObject] /\ faults' \in 0 .. MaxFaults
    BY Zenon, <1>10, <2>1, FaultType DEF AgentUpdateStatusError, TypeOK, ApiTypeOK
  <2>3. pending' \in [Nodes -> BOOLEAN]
    BY <1>10, FlagType DEF AgentUpdateStatusError, TypeOK, AgentTypeOK
  <2> QED
    BY <1>10, <1>a, <1>b, <2>2, <2>3, AgentDoneType
    DEF AgentUpdateStatusError, TypeOK, AgentTypeOK
<1> QED
  BY <1>1, <1>2, <1>3, <1>4, <1>5, <1>6, <1>7, <1>8, <1>9, <1>10 DEF AgentSync, AgentWorker
----------------------------------------------------------------------------
(* The steps of the provisioner, the driver and the collector preserve the *)
(* types.                                                                  *)

LEMMA VolumeNextType == TypeOK /\ VolumeNext => TypeOK'
<1> SUFFICES ASSUME TypeOK, VolumeNext PROVE TypeOK'
  OBVIOUS
<1>0. UNCHANGED <<lv, podNode, schedVars, agentPc, pending, agentLv, agentPv, work, faults>>
  BY Zenon DEF VolumeNext, CreateVolume, ControllerExpandVolume, NodePublishCreate,
     NodePublishResize, UpdatePVPublishSuccessTag, ReleaseVolume, GcDeleteVolume,
     GcRemoveFinalizer, DeleteVolume, apiVars, agentVars
<1>a. SchedTypeOK' /\ faults' \in 0 .. MaxFaults
  BY <1>0 DEF TypeOK, SchedTypeOK, schedVars
<1>b. lost' \in [Nodes -> BOOLEAN] => AgentTypeOK'
  BY <1>0 DEF TypeOK, AgentTypeOK
<1>c. ASSUME NEW c \in Claims, NEW v \in PersistentVolumeObject,
             v.phase # "None" => v.node \in Nodes,
             pv' = [pv EXCEPT ![c] = v], UNCHANGED <<vgFree, lvSize, lost>>
      PROVE  TypeOK'
  BY <1>0, <1>a, <1>b, <1>c DEF TypeOK, ApiTypeOK, AgentTypeOK
<1>d. ASSUME NEW c \in Claims, NEW s \in Nat, NEW n \in Nodes, NEW f \in Nat,
             lvSize' = [lvSize EXCEPT ![c] = s], vgFree' = [vgFree EXCEPT ![n] = f],
             lost' \in [Nodes -> BOOLEAN], UNCHANGED pv
      PROVE  TypeOK'
  BY <1>0, <1>a, <1>b, <1>d DEF TypeOK, ApiTypeOK
<1> SUFFICES ASSUME NEW c \in Claims,
                    \/ \E n \in Nodes : CreateVolume(c, n)
                    \/ ControllerExpandVolume(c) \/ ReleaseVolume(c) \/ DeleteVolume(c)
                    \/ NodePublishCreate(c) \/ NodePublishResize(c)
                    \/ UpdatePVPublishSuccessTag(c)
                    \/ GcDeleteVolume(c) \/ GcRemoveFinalizer(c)
             PROVE  TypeOK'
  BY DEF VolumeNext
<1> USE DEF agentVars, nodeVars, PersistentVolumeObject
<1>1. ASSUME NEW n \in Nodes, CreateVolume(c, n) PROVE TypeOK'
  BY Zenon, <1>1, <1>c, SizesAssumption DEF CreateVolume, NoPersistentVolume
<1>2. CASE ControllerExpandVolume(c)
  <2> DEFINE v == [pv[c] EXCEPT !.size = @ + GiB]
  <2>1. v \in PersistentVolumeObject /\ (v.phase # "None" => v.node \in Nodes)
    BY SizesAssumption DEF TypeOK, ApiTypeOK
  <2>2. pv' = [pv EXCEPT ![c] = v] /\ UNCHANGED <<vgFree, lvSize, lost>>
    BY <1>2 DEF ControllerExpandVolume, TypeOK, ApiTypeOK
  <2> HIDE DEF v
  <2> QED
    BY Zenon, <1>c, <2>1, <2>2
<1>3. CASE ReleaseVolume(c)
  BY Zenon, <1>3, <1>c DEF ReleaseVolume, TypeOK, ApiTypeOK
<1>4. CASE DeleteVolume(c)
  BY Zenon, <1>4, <1>c DEF DeleteVolume, TypeOK, ApiTypeOK
<1>5. CASE UpdatePVPublishSuccessTag(c)
  <2> DEFINE v == [pv[c] EXCEPT !.tag = TRUE, !.fin = TRUE]
  <2>1. v \in PersistentVolumeObject /\ (v.phase # "None" => v.node \in Nodes)
    BY Zenon DEF TypeOK, ApiTypeOK
  <2>2. pv' = [pv EXCEPT ![c] = v] /\ UNCHANGED <<vgFree, lvSize, lost>>
    BY Zenon, <1>5 DEF UpdatePVPublishSuccessTag, TypeOK, ApiTypeOK
  <2> HIDE DEF v
  <2> QED
    BY Zenon, <1>c, <2>1, <2>2
<1>6. CASE GcRemoveFinalizer(c)
  BY ZenonT(30), <1>6, <1>c DEF GcRemoveFinalizer, TypeOK, ApiTypeOK
<1>7. CASE NodePublishCreate(c)
  <2>1. GetPvSize(pv[c].size) \in Nat /\ pv[c].node \in Nodes
    BY <1>7, GetPvSizeNat DEF NodePublishCreate, TypeOK, ApiTypeOK
  <2> DEFINE f == vgFree[pv[c].node] - GetPvSize(pv[c].size)
  <2>2. f \in Nat
    <3>1. vgFree[pv[c].node] \in Nat
      BY <2>1 DEF TypeOK
    <3>2. GetPvSize(pv[c].size) <= vgFree[pv[c].node]
      BY Zenon, <1>7 DEF NodePublishCreate
    <3> QED
      BY ONLY <2>1, <3>1, <3>2
  <2>3. vgFree' = [vgFree EXCEPT ![pv[c].node] = f]
    BY Zenon, <1>7 DEF NodePublishCreate
  <2> HIDE DEF f
  <2> QED
    BY Zenon, <1>7, <1>d, <2>1, <2>2, <2>3 DEF NodePublishCreate, TypeOK, AgentTypeOK, apiVars
<1>8. CASE NodePublishResize(c)
  <2>1. GetPvSize(pv[c].size) \in Nat /\ pv[c].node \in Nodes
    BY Zenon, <1>8, GetPvSizeNat DEF NodePublishResize, TypeOK, ApiTypeOK
  <2>2. lost' \in [Nodes -> BOOLEAN]
    BY Zenon, <1>8, <2>1, FlagType DEF NodePublishResize, TypeOK, AgentTypeOK
  <2> DEFINE f == vgFree[pv[c].node] - (GetPvSize(pv[c].size) - lvSize[c])
  <2>3. f \in Nat
    <3>1. vgFree[pv[c].node] \in Nat /\ lvSize[c] \in Nat
      BY <2>1 DEF TypeOK
    <3>2. GetPvSize(pv[c].size) - lvSize[c] <= vgFree[pv[c].node]
      BY Zenon, <1>8 DEF NodePublishResize
    <3> QED
      BY Zenon, <2>1, <3>1, <3>2, LeftNat
  <2>4. vgFree' = [vgFree EXCEPT ![pv[c].node] = f]
    BY Zenon, <1>8 DEF NodePublishResize
  <2> HIDE DEF f
  <2> QED
    BY Zenon, <1>8, <1>d, <2>1, <2>2, <2>3, <2>4 DEF NodePublishResize, apiVars
<1>9. CASE GcDeleteVolume(c)
  <2> DEFINE f == vgFree[pv[c].node] + lvSize[c]
  <2>1. pv[c].node \in Nodes /\ f \in Nat
    BY <1>9 DEF GcDeleteVolume, TypeOK, ApiTypeOK
  <2>2. vgFree' = [vgFree EXCEPT ![pv[c].node] = f]
    BY Zenon, <1>9 DEF GcDeleteVolume
  <2> HIDE DEF f
  <2> QED
    BY ZenonT(30), <1>9, <1>d, <2>1, <2>2 DEF GcDeleteVolume, TypeOK, AgentTypeOK, apiVars
<1> QED
  BY <1>1, <1>2, <1>3, <1>4, <1>5, <1>6, <1>7, <1>8, <1>9

LEMMA StutterType == TypeOK /\ UNCHANGED vars => TypeOK'
  BY DEF vars, apiVars, nodeVars, schedVars, agentVars,
     TypeOK, ApiTypeOK, SchedTypeOK, AgentTypeOK

\* The variables keep their types; in particular the free space of a volume
\* group and the sizes written into a LocalVolume are never negative.
THEOREM TypeCorrect == Spec => []TypeOK
  BY InitType, SchedNextType, AgentNextType, VolumeNextType, StutterType, PTL DEF Spec, Next
----------------------------------------------------------------------------
(* What copies of a LocalVolume have to do with the stored one *)

\* A cached object is a version of n's LocalVolume.
CacheInv(copy, n) ==
    copy.rv <= lv[n].rv /\ (copy.rv = lv[n].rv => copy = lv[n])

\* The copy bind is about to write: it takes nothing out and leaves the sizes.
BindCopyInv(p, n) ==
    /\ copylv[p].rv \in 1 .. lv[n].rv
    /\ copylv[p].rv = lv[n].rv =>
           /\ lv[n].pre \subseteq copylv[p].pre
           /\ lv[n].total = copylv[p].total /\ lv[n].free = copylv[p].free

\* The copy the agent is about to write: it adds nothing, and takes out only
\* claims bound on the node.
WorkInv(n) ==
    /\ work[n].rv \in 1 .. lv[n].rv
    /\ work[n].rv = lv[n].rv =>
           /\ work[n].pre \subseteq lv[n].pre
           /\ lv[n].pre \ work[n].pre \subseteq BoundOn(n)

\* The part of a pod that bind is at work on or has bound.
PodInv(p) ==
    /\ stage[p] = "copied" => BindCopyInv(p, target[p])
    /\ stage[p] \in {"updated", "bound"} =>
          /\ lv[target[p]].rv > 0
          /\ copylv[p].pre \subseteq lv[target[p]].pre \cup BoundOn(target[p])

\* The part of an agent.
AgentInv(n) ==
    /\ CacheInv(agentLv[n], n)
    /\ agentPc[n] = "copied" => work[n].rv > 0 /\ CacheInv(work[n], n)
    /\ agentPc[n] = "changed" => WorkInv(n)

VersionInv ==
    /\ \A n \in Nodes :
          /\ lv[n].rv = 0 => lv[n].pre = {}
          /\ CacheInv(schedLv[n], n)
          /\ AgentInv(n)
    /\ \A p \in Pods : PodInv(p)

\* The agent's copy of a PersistentVolume names its node or none.
NodeInv ==
    /\ \A n \in Nodes, c \in Claims : agentPv[n][c].node \in {None, pv[c].node}
    /\ \A c \in Claims : pv[c].phase = "None" => pv[c].node = None

\* The inductive invariant behind BoundPodsReserved and NoLostUpdate.
ReservedInv == TypeOK /\ VersionInv /\ NodeInv
----------------------------------------------------------------------------
(* Frame: what a step leaves alone keeps its part of the invariant, however *)
(* the step changes the LocalVolumes.                                       *)

\* No version is replaced but by a newer one, no entry disappears but of a
\* claim bound on the node, and claims bound on a node remain so.
Forward ==
    \A n \in Nodes :
        /\ lv'[n] = lv[n] \/ lv'[n].rv > lv[n].rv
        /\ lv[n].pre \subseteq lv'[n].pre \cup BoundOn(n)'
        /\ BoundOn(n) \subseteq BoundOn(n)'

LEMMA CacheFrame ==
    ASSUME TypeOK, TypeOK', Forward, NEW n \in Nodes, NEW copy \in LocalVolumeObject,
           CacheInv(copy, n)
    PROVE  copy.rv <= lv'[n].rv /\ (copy.rv = lv'[n].rv => copy = lv'[n])
  BY DEF TypeOK, ApiTypeOK, LocalVolumeObject, Forward, CacheInv

LEMMA LvFrame ==
    ASSUME TypeOK, TypeOK', VersionInv, Forward
    PROVE  \A n \in Nodes : lv'[n].rv = 0 => lv'[n].pre = {}
<1>1. \A n \in Nodes : lv[n] \in LocalVolumeObject /\ lv'[n] \in LocalVolumeObject
  BY DEF TypeOK, ApiTypeOK
<1>2. \A n \in Nodes : lv[n].rv = 0 => lv[n].pre = {}
  BY DEF VersionInv
<1> QED
  BY ONLY <1>1, <1>2, Forward DEF LocalVolumeObject, Forward

LEMMA SchedFrame ==
    ASSUME TypeOK, TypeOK', VersionInv, Forward, NEW n \in Nodes, schedLv'[n] = schedLv[n]
    PROVE  CacheInv(schedLv[n], n)'
<1>1. schedLv[n] \in LocalVolumeObject /\ CacheInv(schedLv[n], n)
  BY Zenon DEF TypeOK, SchedTypeOK, VersionInv
<1> QED
  BY <1>1, CacheFrame DEF CacheInv

LEMMA AgentFrame ==
    ASSUME TypeOK, TypeOK', VersionInv, Forward, NEW n \in Nodes,
           agentLv'[n] = agentLv[n], agentPc'[n] = agentPc[n], work'[n] = work[n]
    PROVE  AgentInv(n)'
<1>1. CacheInv(agentLv[n], n)'
  BY Zenon, CacheFrame DEF TypeOK, AgentTypeOK, VersionInv, AgentInv, CacheInv
<1>2. ASSUME agentPc[n] = "copied" PROVE (work[n].rv > 0 /\ CacheInv(work[n], n))'
  <2>1. work[n] \in LocalVolumeObject /\ work[n].rv > 0 /\ CacheInv(work[n], n)
    BY Zenon, <1>2 DEF TypeOK, AgentTypeOK, VersionInv, AgentInv
  <2> QED
    BY Zenon, <2>1, CacheFrame DEF CacheInv
<1>3. ASSUME agentPc[n] = "changed" PROVE WorkInv(n)'
  <2>1. WorkInv(n)
    BY <1>3 DEF VersionInv, AgentInv
  <2>2. work[n].rv \in Nat /\ lv[n].rv \in Nat /\ lv'[n].rv \in Nat
    BY DEF TypeOK, ApiTypeOK, AgentTypeOK, LocalVolumeObject
  <2>3. CASE lv'[n] = lv[n]
    BY <2>1, <2>3 DEF WorkInv, Forward
  <2>4. CASE lv'[n].rv > lv[n].rv
    BY <2>1, <2>2, <2>4 DEF WorkInv
  <2> QED
    BY Zenon, <2>3, <2>4 DEF Forward
<1> QED
  BY <1>1, <1>2, <1>3 DEF AgentInv

LEMMA PodFrame ==
    ASSUME TypeOK, TypeOK', VersionInv, Forward, NEW p \in Pods,
           stage'[p] = stage[p], target'[p] = target[p], copylv'[p] = copylv[p]
    PROVE  PodInv(p)'
<1> DEFINE n == target[p]
<1>1. ASSUME stage[p] = "copied" PROVE BindCopyInv(p, target[p])'
  <2>1. n \in Nodes /\ BindCopyInv(p, n)
    BY Zenon, <1>1 DEF TypeOK, SchedTypeOK, VersionInv, PodInv
  <2>2. copylv[p].rv \in Nat /\ lv[n].rv \in Nat /\ lv'[n].rv \in Nat
    BY <2>1 DEF TypeOK, ApiTypeOK, SchedTypeOK, LocalVolumeObject
  <2>3. CASE lv'[n] = lv[n]
    BY Zenon, <2>1, <2>3 DEF BindCopyInv
  <2>4. CASE lv'[n].rv > lv[n].rv
    <3>1. copylv[p].rv \in 1 .. lv[n].rv /\ copylv'[p].rv = copylv[p].rv
      BY Zenon, <2>1 DEF BindCopyInv
    <3>2. copylv'[p].rv \in 1 .. lv'[n].rv /\ copylv'[p].rv # lv'[n].rv
      BY ONLY <2>2, <2>4, <3>1
    <3> QED
      BY Zenon, <3>2 DEF BindCopyInv
  <2> QED
    BY <2>1, <2>3, <2>4 DEF Forward
<1>2. ASSUME stage[p] \in {"updated", "bound"}
      PROVE  /\ lv'[n].rv > 0
             /\ copylv[p].pre \subseteq lv'[n].pre \cup BoundOn(n)'
  <2>1. /\ n \in Nodes
        /\ lv[n].rv > 0
        /\ copylv[p].pre \subseteq lv[n].pre \cup BoundOn(n)
    BY Zenon, <1>2 DEF TypeOK, SchedTypeOK, VersionInv, PodInv
  <2>2. lv[n].rv \in Nat /\ lv'[n].rv \in Nat
    BY Zenon, <2>1 DEF TypeOK, ApiTypeOK, LocalVolumeObject
  <2>3. /\ lv'[n] = lv[n] \/ lv'[n].rv > lv[n].rv
        /\ lv[n].pre \subseteq lv'[n].pre \cup BoundOn(n)'
        /\ BoundOn(n) \subseteq BoundOn(n)'
    BY <2>1 DEF Forward
  <2>4. lv'[n].rv > 0
    BY <2>1, <2>2, <2>3
  <2> QED
    BY Zenon, <2>1, <2>3, <2>4
<1> QED
  BY <1>1, <1>2 DEF PodInv

\* What a write that is not refused does to the LocalVolumes.
LEMMA Written ==
    ASSUME TypeOK, NEW n \in Nodes, NEW obj \in LocalVolumeObject,
           ~Conflict(n, obj), lv' = Stored(n, obj)
    PROVE  /\ lv'[n] = lv[n] \/ lv'[n].rv = lv[n].rv + 1
           /\ lv'[n].total = obj.total /\ lv'[n].free = obj.free /\ lv'[n].pre = obj.pre
           /\ \A m \in Nodes \ {n} : lv'[m] = lv[m]
  BY DEF TypeOK, ApiTypeOK, Stored, Conflict, LocalVolumeObject
----------------------------------------------------------------------------
(* Every step preserves ReservedInv. *)

LEMMA BindWrites ==
    ASSUME ReservedInv, UNCHANGED pv, NEW p \in Pods, stage[p] = "copied",
           ~Conflict(target[p], copylv[p]), lv' = Stored(target[p], copylv[p])
    PROVE  /\ Forward
           /\ lv'[target[p]].rv > 0
           /\ lv'[target[p]].pre = copylv[p].pre
           /\ NoLostStep
<1> DEFINE n == target[p]
<1>1. n \in Nodes /\ copylv[p] \in LocalVolumeObject
  BY DEF ReservedInv, TypeOK, SchedTypeOK
<1>2. BindCopyInv(p, n) /\ copylv[p].rv = lv[n].rv
  BY DEF ReservedInv, VersionInv, PodInv, Conflict
<1>3. /\ lv'[n] = lv[n] \/ lv'[n].rv = lv[n].rv + 1
      /\ lv'[n].total = copylv[p].total /\ lv'[n].free = copylv[p].free
      /\ lv'[n].pre = copylv[p].pre
      /\ \A m \in Nodes \ {n} : lv'[m] = lv[m]
  BY Zenon, <1>1, Written DEF ReservedInv
<1>4. lv[n].rv \in Nat /\ lv[n].rv > 0
  <2>1. lv[n] \in LocalVolumeObject
    BY <1>1 DEF ReservedInv, TypeOK, ApiTypeOK
  <2> QED
    BY ONLY <1>2, <2>1 DEF LocalVolumeObject, BindCopyInv
<1>5. lv[n].pre \subseteq lv'[n].pre
  BY Zenon, <1>2, <1>3 DEF BindCopyInv
<1>6. \A m \in Nodes : BoundOn(m)' = BoundOn(m)
  BY DEF BoundOn
<1> HIDE DEF n
<1>7. Forward
  <2>1. lv'[n] = lv[n] \/ lv'[n].rv > lv[n].rv
    BY ONLY <1>3, <1>4
  <2> QED
    BY ONLY <1>3, <1>5, <1>6, <2>1 DEF Forward
<1>8. lv'[n].total = lv[n].total /\ lv'[n].free = lv[n].free
  BY Zenon, <1>2, <1>3 DEF BindCopyInv
<1>9. NoLostStep
  BY Zenon, <1>3, <1>5, <1>8 DEF NoLostStep
<1> QED
  <2>1. lv'[n].rv > 0
    BY ONLY <1>3, <1>4
  <2> QED
    BY Zenon, <1>3, <1>7, <1>9, <2>1 DEF n

LEMMA SchedNextReserved == ReservedInv /\ SchedNext => ReservedInv'
<1> SUFFICES ASSUME ReservedInv, SchedNext PROVE ReservedInv'
  OBVIOUS
<1>t. TypeOK /\ VersionInv /\ TypeOK'
  BY SchedNextType DEF ReservedInv
<1>u. UNCHANGED <<pv, agentPc, agentLv, agentPv, work>>
  BY DEF SchedNext, PredicateHandler, BindCopy, BindLookupError, BindUpdateStatus,
     BindUpdateStatusError, BindPod, BindPodError, SchedSyncLocalVolume, SchedSyncClaim,
     SchedRestart, apiVars, agentVars
<1>n. NodeInv' /\ \A n \in Nodes : BoundOn(n)' = BoundOn(n)
  BY <1>u DEF ReservedInv, NodeInv, BoundOn
<1>g. UNCHANGED lv => Forward
  BY <1>n DEF Forward
<1>f. ASSUME Forward,
             \A n \in Nodes : schedLv'[n] = schedLv[n] \/ CacheInv(schedLv[n], n)',
             \A p \in Pods : \/ UNCHANGED <<stage[p], target[p], copylv[p]>>
                             \/ PodInv(p)'
      PROVE  ReservedInv'
  <2>1. \A n \in Nodes : AgentInv(n)'
    BY Zenon, <1>f, <1>t, <1>u, AgentFrame
  <2>2. \A n \in Nodes : CacheInv(schedLv[n], n)'
    BY Zenon, <1>f, <1>t, SchedFrame
  <2>3. \A p \in Pods : PodInv(p)'
    BY <1>f, <1>t, PodFrame
  <2> QED
    BY Zenon, <1>f, <1>t, <1>n, <2>1, <2>2, <2>3, LvFrame DEF ReservedInv, VersionInv
<1>h. ASSUME NEW p \in Pods, Unbind(p), Forward PROVE ReservedInv'
  <2>1. PodInv(p)' /\ \A q \in Pods \ {p} : UNCHANGED <<stage[q], target[q], copylv[q]>>
    BY Zenon, <1>h, <1>t DEF Unbind, PodInv, TypeOK, SchedTypeOK
  <2> QED
    BY <1>h, <1>f, <2>1 DEF Unbind
<1>1. ASSUME NEW p \in Pods, NEW n \in Nodes, PredicateHandler(p, n) PROVE ReservedInv'
  <2>1. PodInv(p)' /\ \A q \in Pods \ {p} : UNCHANGED <<stage[q], target[q], copylv[q]>>
    BY Zenon, <1>1, <1>t DEF PredicateHandler, PodInv, TypeOK, SchedTypeOK
  <2> QED
    BY Zenon, <1>1, <1>f, <1>g, <2>1 DEF PredicateHandler, apiVars
<1>2. ASSUME NEW p \in Pods, BindCopy(p) PROVE ReservedInv'
  <2>1. \A q \in Pods \ {p} : UNCHANGED <<stage[q], target[q], copylv[q]>>
    BY <1>2, <1>t DEF BindCopy, TypeOK, SchedTypeOK
  <2>2. target[p] \in Nodes /\ CacheInv(schedLv[target[p]], target[p])
    BY <1>2, <1>t DEF BindCopy, TypeOK, SchedTypeOK, VersionInv
  <2>3. stage'[p] = "copied" /\ BindCopyInv(p, target[p])'
    BY <1>2, <1>t, <2>2
    DEF BindCopy, TypeOK, ApiTypeOK, SchedTypeOK, LocalVolumeObject, BindCopyInv, CacheInv, apiVars
  <2> QED
    BY <1>2, <1>f, <1>g, <2>1, <2>3 DEF BindCopy, apiVars, PodInv
<1>3. ASSUME NEW p \in Pods, BindLookupError(p) PROVE ReservedInv'
  BY Zenon, <1>3, <1>g, <1>h DEF BindLookupError, apiVars
<1>4. ASSUME NEW p \in Pods, BindUpdateStatus(p) PROVE ReservedInv'
  <2>1. \A q \in Pods \ {p} : UNCHANGED <<stage[q], target[q], copylv[q]>>
    BY <1>4, <1>t DEF BindUpdateStatus, TypeOK, SchedTypeOK
  <2>2. Forward /\ lv'[target[p]].rv > 0 /\ lv'[target[p]].pre = copylv[p].pre
    BY Zenon, <1>4, BindWrites DEF BindUpdateStatus
  <2>3. PodInv(p)'
    BY Zenon, <1>4, <1>t, <2>2 DEF BindUpdateStatus, PodInv, TypeOK, SchedTypeOK
  <2> QED
    BY Zenon, <1>4, <1>f, <2>1, <2>2, <2>3 DEF BindUpdateStatus
<1>5. ASSUME NEW p \in Pods, BindUpdateStatusError(p) PROVE ReservedInv'
  BY Zenon, <1>5, <1>g, <1>h, BindWrites DEF BindUpdateStatusError
<1>6. ASSUME NEW p \in Pods, BindPod(p) PROVE ReservedInv'
  <2>1. \A q \in Pods \ {p} : UNCHANGED <<stage[q], target[q], copylv[q]>>
    BY Zenon, <1>6, <1>t DEF BindPod, TypeOK, SchedTypeOK
  <2>2. PodInv(p)'
    BY Zenon, <1>6, <1>t, <1>n DEF BindPod, VersionInv, PodInv, TypeOK, SchedTypeOK
  <2> QED
    BY <1>6, <1>f, <1>g, <2>1, <2>2 DEF BindPod
<1>7. ASSUME NEW p \in Pods, BindPodError(p) PROVE ReservedInv'
  BY Zenon, <1>7, <1>g, <1>h DEF BindPodError
<1>8. ASSUME NEW n \in Nodes, SchedSyncLocalVolume(n) PROVE ReservedInv'
  <2>1. CacheInv(schedLv[n], n)' /\ \A m \in Nodes \ {n} : schedLv'[m] = schedLv[m]
    <3>1. UNCHANGED lv /\ schedLv' = [schedLv EXCEPT ![n] = lv[n]]
      BY <1>8 DEF SchedSyncLocalVolume, apiVars
    <3>2. DOMAIN schedLv = Nodes
      BY <1>t DEF TypeOK, SchedTypeOK
    <3>3. lv[n].rv \in Nat
      BY <1>t DEF TypeOK, ApiTypeOK, LocalVolumeObject
    <3> QED
      BY <3>1, <3>2, <3>3 DEF CacheInv
  <2> QED
    BY Zenon, <1>8, <1>f, <1>g, <2>1 DEF SchedSyncLocalVolume, apiVars
<1>9. ASSUME NEW c \in Claims, SchedSyncClaim(c) PROVE ReservedInv'
  BY Zenon, <1>9, <1>f, <1>g DEF SchedSyncClaim, apiVars
<1>10. CASE SchedRestart
  <2>1. \A n \in Nodes : CacheInv(schedLv[n], n)'
    <3>1. UNCHANGED lv /\ schedLv' = lv
      BY <1>10 DEF SchedRestart, apiVars
    <3>2. \A n \in Nodes : lv[n].rv \in Nat
      BY <1>t DEF TypeOK, ApiTypeOK, LocalVolumeObject
    <3> QED
      BY <3>1, <3>2 DEF CacheInv
  <2>2. \A p \in Pods : UNCHANGED <<stage[p], target[p], copylv[p]>> \/ PodInv(p)'
    BY Zenon, <1>10, <1>t DEF SchedRestart, PodInv, TypeOK, SchedTypeOK
  <2> QED
    BY Zenon, <1>10, <1>f, <1>g, <2>1, <2>2 DEF SchedRestart, apiVars
<1> QED
  BY <1>1, <1>2, <1>3, <1>4, <1>5, <1>6, <1>7, <1>8, <1>9, <1>10 DEF SchedNext

LEMMA AgentWrites ==
    ASSUME ReservedInv, UNCHANGED pv, NEW n \in Nodes, agentPc[n] = "changed",
           ~Conflict(n, work[n]), lv' = Stored(n, work[n])
    PROVE  Forward /\ NoLostStep
<1>1. work[n] \in LocalVolumeObject /\ lv[n].rv \in Nat
  BY Zenon DEF ReservedInv, TypeOK, ApiTypeOK, AgentTypeOK, LocalVolumeObject
<1>2. WorkInv(n) /\ work[n].rv = lv[n].rv
  BY Zenon DEF ReservedInv, VersionInv, AgentInv, Conflict
<1>3. /\ lv'[n] = lv[n] \/ lv'[n].rv = lv[n].rv + 1
      /\ lv'[n].pre = work[n].pre
      /\ \A m \in Nodes \ {n} : lv'[m] = lv[m]
  BY Zenon, <1>1, Written DEF ReservedInv
<1>4. \A m \in Nodes : BoundOn(m)' = BoundOn(m)
  BY DEF BoundOn
<1>5. lv[n].pre \subseteq lv'[n].pre \cup BoundOn(n)'
  BY Zenon, <1>2, <1>3, <1>4 DEF WorkInv
<1>6. lv'[n].pre \subseteq lv[n].pre
  BY Zenon, <1>2, <1>3 DEF WorkInv
<1>7. lv'[n] = lv[n] \/ lv'[n].rv > lv[n].rv
  BY <1>1, <1>3
<1>8. Forward
  BY Zenon, <1>3, <1>4, <1>5, <1>7 DEF Forward
<1>9. lv[n].pre \ lv'[n].pre \subseteq BoundOn(n)
  BY Zenon, <1>4, <1>5
<1>10. NoLostStep
  BY Zenon, <1>3, <1>6, <1>9 DEF NoLostStep
<1> QED
  BY <1>8, <1>10

LEMMA AgentNextReserved == ReservedInv /\ AgentNext => ReservedInv'
<1> SUFFICES ASSUME ReservedInv, AgentNext, NEW n \in Nodes,
                    NewAgent(n) \/ AgentCrash(n) \/ AgentSync(n) \/ Resync(n) \/ AgentWorker(n)
             PROVE  ReservedInv'
  BY DEF AgentNext
<1>t. TypeOK /\ VersionInv /\ TypeOK'
  BY AgentNextType DEF ReservedInv
<1>d. DOMAIN agentLv = Nodes /\ DOMAIN agentPc = Nodes /\ DOMAIN work = Nodes
  BY <1>t DEF TypeOK, AgentTypeOK
<1>u. UNCHANGED <<pv, schedLv, stage, target, copylv>>
  BY Zenon DEF NewAgent, AgentCrash, AgentSync, AgentWorker, AgentSyncLocalVolume,
     AgentSyncPersistentVolume, Resync, Reconcile, Reconciler, ReconcilerNoVGInfo,
     AgentUpdateStatus, AgentUpdateStatusError, apiVars, schedVars
<1>n. \A m \in Nodes : BoundOn(m)' = BoundOn(m)
  BY <1>u DEF BoundOn
<1>g. UNCHANGED lv => Forward
  BY Zenon, <1>n DEF Forward
<1>k. UNCHANGED agentPv => NodeInv'
  BY Zenon, <1>u DEF ReservedInv, NodeInv
<1>f. ASSUME Forward, NodeInv', AgentInv(n)',
             \A m \in Nodes \ {n} : UNCHANGED <<agentLv[m], agentPc[m], work[m]>>
      PROVE  ReservedInv'
  <2>1. \A m \in Nodes : AgentInv(m)'
    BY Zenon, <1>f, <1>t, AgentFrame
  <2>2. \A m \in Nodes : CacheInv(schedLv[m], m)'
    BY Zenon, <1>f, <1>t, <1>u, SchedFrame
  <2>3. \A p \in Pods : PodInv(p)'
    BY Zenon, <1>f, <1>t, <1>u, PodFrame
  <2> QED
    BY Zenon, <1>f, <1>t, <2>1, <2>2, <2>3, LvFrame DEF ReservedInv, VersionInv
\* The steps that leave the worker idle and the cached LocalVolume alone.
<1>h. ASSUME Forward, AgentDone(n), UNCHANGED <<agentLv, agentPv>> PROVE ReservedInv'
  <2>1. CacheInv(agentLv[n], n)'
    BY Zenon, <1>h, <1>t, CacheFrame DEF VersionInv, AgentInv, CacheInv, TypeOK, AgentTypeOK
  <2>2. AgentInv(n)'
    BY Zenon, <1>h, <1>t, <2>1 DEF AgentDone, AgentInv, TypeOK, AgentTypeOK
  <2>3. \A m \in Nodes \ {n} : UNCHANGED <<agentLv[m], agentPc[m], work[m]>>
    BY <1>h, <1>d DEF AgentDone
  <2> QED
    BY Zenon, <1>h, <1>f, <1>k, <2>2, <2>3
<1>1. CASE NewAgent(n)
  <2>1. Forward
    <3>1. \A m \in Nodes : lv'[m] = lv[m] \/ (lv[m].rv = 0 /\ lv'[m].rv = 1)
      BY <1>1, <1>t DEF NewAgent, Registered, NoLocalVolume, TypeOK, ApiTypeOK, LocalVolumeObject
    <3>2. \A m \in Nodes : lv[m].rv = 0 => lv[m].pre = {}
      BY Zenon, <1>t DEF VersionInv
    <3> QED
      BY ONLY SMTT(30), <1>n, <3>1, <3>2 DEF Forward
  <2>2. NodeInv'
    <3>1. UNCHANGED pv /\ agentPv' = [agentPv EXCEPT ![n] = pv]
      BY Zenon, <1>1 DEF NewAgent
    <3>2. DOMAIN agentPv = Nodes
      BY <1>t DEF TypeOK, AgentTypeOK
    <3>3. \A m \in Nodes : agentPv'[m] \in {agentPv[m], pv}
      BY ONLY <3>1, <3>2
    <3> QED
      BY Zenon, <3>1, <3>3 DEF ReservedInv, NodeInv
  <2>3. agentLv'[n] = lv'[n] /\ agentPc'[n] = "idle" /\ lv'[n].rv \in Nat
    BY Zenon, <1>1, <1>t DEF NewAgent, TypeOK, ApiTypeOK, AgentTypeOK, LocalVolumeObject
  <2>4. AgentInv(n)'
    <3>1. CacheInv(agentLv[n], n)'
      BY <2>3 DEF CacheInv
    <3> QED
      BY Zenon, <2>3, <3>1 DEF AgentInv
  <2>5. \A m \in Nodes \ {n} : UNCHANGED <<agentLv[m], agentPc[m], work[m]>>
    BY Zenon, <1>1, <1>d DEF NewAgent
  <2> QED
    BY Zenon, <1>f, <2>1, <2>2, <2>4, <2>5
<1>2. CASE AgentCrash(n)
  <2>1. Forward /\ NodeInv'
    BY <1>2, <1>g, <1>k DEF AgentCrash, apiVars
  <2>2. CacheInv(agentLv[n], n)' /\ agentPc'[n] = "down"
    BY Zenon, <1>2, <1>t, <2>1, CacheFrame DEF AgentCrash, VersionInv, AgentInv, CacheInv, TypeOK, AgentTypeOK
  <2>3. \A m \in Nodes \ {n} : UNCHANGED <<agentLv[m], agentPc[m], work[m]>>
    BY <1>2, <1>d DEF AgentCrash
  <2> QED
    BY Zenon, <1>f, <2>1, <2>2, <2>3 DEF AgentInv
<1>3. CASE AgentSyncLocalVolume(n)
  <2>1. Forward /\ NodeInv'
    BY Zenon, <1>3, <1>g, <1>k DEF AgentSyncLocalVolume, apiVars
  <2>2. AgentInv(n)'
    <3>1. UNCHANGED <<lv, agentPc, work>> /\ agentLv'[n] = lv[n] /\ lv[n].rv \in Nat
      BY Zenon, <1>3, <1>d, <1>t DEF AgentSyncLocalVolume, apiVars, TypeOK, ApiTypeOK, LocalVolumeObject
    <3>2. CacheInv(agentLv[n], n)'
      BY <3>1 DEF CacheInv
    <3>3. CacheInv(work[n], n)' <=> CacheInv(work[n], n)
      BY Zenon, <3>1 DEF CacheInv
    <3>4. WorkInv(n)' <=> WorkInv(n)
      BY Zenon, <1>n, <3>1 DEF WorkInv
    <3>5. AgentInv(n)
      BY Zenon, <1>t DEF VersionInv
    <3> QED
      BY Zenon, <3>1, <3>2, <3>3, <3>4, <3>5 DEF AgentInv
  <2>3. \A m \in Nodes \ {n} : UNCHANGED <<agentLv[m], agentPc[m], work[m]>>
    BY Zenon, <1>3, <1>d DEF AgentSyncLocalVolume
  <2> QED
    BY Zenon, <1>f, <2>1, <2>2, <2>3
<1>4. ASSUME NEW c \in Claims, AgentSyncPersistentVolume(n, c) PROVE ReservedInv'
  <2>1. Forward
    BY Zenon, <1>4, <1>g DEF AgentSyncPersistentVolume, apiVars
  <2>2. NodeInv'
    <3>1. agentPv' = [agentPv EXCEPT ![n][c] = pv[c]]
      BY <1>4 DEF AgentSyncPersistentVolume
    <3>2. agentPv \in [Nodes -> [Claims -> PersistentVolumeObject]]
      BY Zenon, <1>t DEF TypeOK, AgentTypeOK
    <3>3. \A m \in Nodes, d \in Claims : agentPv'[m][d] \in {agentPv[m][d], pv[d]}
      BY ONLY <3>1, <3>2, n \in Nodes, c \in Claims
    <3> QED
      BY Zenon, <1>u, <3>3 DEF ReservedInv, NodeInv
  <2>3. UNCHANGED <<agentLv, agentPc, work>>
    BY <1>4 DEF AgentSyncPersistentVolume
  <2> QED
    BY Zenon, <1>f, <1>t, <2>1, <2>2, <2>3, AgentFrame
<1>5. CASE Resync(n)
  BY Zenon, <1>5, <1>f, <1>g, <1>k, <1>t, AgentFrame DEF Resync, apiVars
<1>6. CASE Reconcile(n)
  <2>1. Forward /\ NodeInv'
    BY Zenon, <1>6, <1>g, <1>k DEF Reconcile, apiVars
  <2>2. AgentInv(n)'
    <3>1. CASE agentLv[n].rv = 0
      BY Zenon, <1>6, <1>t, <2>1, <3>1, AgentFrame DEF Reconcile
    <3>2. CASE agentLv[n].rv # 0
      <4>1. agentPc'[n] = "copied" /\ work'[n] = agentLv[n] /\ agentLv'[n] = agentLv[n]
        BY Zenon, <1>6, <1>d, <3>2 DEF Reconcile
      <4>2. agentLv[n].rv \in Nat /\ CacheInv(agentLv[n], n)
        BY Zenon, <1>t DEF VersionInv, AgentInv, TypeOK, AgentTypeOK, LocalVolumeObject
      <4>3. UNCHANGED lv
        BY Zenon, <1>6 DEF Reconcile, apiVars
      <4>4. CacheInv(agentLv[n], n)' /\ CacheInv(work[n], n)'
        BY Zenon, <4>1, <4>2, <4>3 DEF CacheInv
      <4>5. work'[n].rv > 0
        BY SMTT(30), <3>2, <4>1, <4>2
      <4> QED
        BY Zenon, <4>1, <4>4, <4>5 DEF AgentInv
    <3> QED
      BY Zenon, <3>1, <3>2
  <2>3. \A m \in Nodes \ {n} : UNCHANGED <<agentLv[m], agentPc[m], work[m]>>
    BY Zenon, <1>6, <1>d DEF Reconcile
  <2> QED
    BY Zenon, <1>f, <2>1, <2>2, <2>3
<1>7. CASE Reconciler(n)
  <2>0. UNCHANGED <<lv, agentLv, agentPv>>
    BY Zenon, <1>7 DEF Reconciler, apiVars
  <2>1. CASE AgentDone(n)
    BY <1>g, <1>h, <2>0, <2>1
  <2>2. CASE NewStatus(n) # work[n]
    <3>1. agentPc'[n] = "changed" /\ work'[n] = NewStatus(n)
      BY Zenon, <1>7, <1>d, <2>2 DEF Reconciler
    <3>2. GetMyNodeBoundedPVCList(n) \subseteq BoundOn(n)
      BY Zenon, SetsAssumption DEF GetMyNodeBoundedPVCList, BoundOn, ReservedInv, NodeInv
    <3>3. work[n].rv > 0 /\ CacheInv(work[n], n) /\ work[n] \in LocalVolumeObject
      BY Zenon, <1>7, <1>t DEF Reconciler, VersionInv, AgentInv, TypeOK, AgentTypeOK
    <3>4. NewStatus(n).rv = work[n].rv /\ NewStatus(n).pre = work[n].pre \ GetMyNodeBoundedPVCList(n)
      BY <3>3 DEF NewStatus, LocalVolumeObject
    <3>5. WorkInv(n)'
      <4>1. work'[n].rv = work[n].rv /\ work'[n].pre = work[n].pre \ GetMyNodeBoundedPVCList(n)
        BY Zenon, <3>1, <3>4
      <4>2. work[n].rv \in 1 .. lv[n].rv /\ (work[n].rv = lv[n].rv => work[n].pre = lv[n].pre)
        <5>1. lv[n].rv \in Nat /\ work[n].rv \in Nat
          BY Zenon, <1>t, <3>3 DEF TypeOK, ApiTypeOK, LocalVolumeObject
        <5> QED
          BY ONLY <3>3, <5>1 DEF CacheInv
      <4> QED
        BY Zenon, <1>n, <2>0, <3>2, <4>1, <4>2 DEF WorkInv
    <3>6. CacheInv(agentLv[n], n)'
      BY Zenon, <1>t, <1>g, <2>0, CacheFrame DEF VersionInv, AgentInv, CacheInv, TypeOK, AgentTypeOK
    <3>7. \A m \in Nodes \ {n} : UNCHANGED <<agentLv[m], agentPc[m], work[m]>>
      BY Zenon, <1>7, <1>d, <2>2 DEF Reconciler
    <3> QED
      BY Zenon, <1>f, <1>g, <1>k, <2>0, <3>1, <3>5, <3>6, <3>7 DEF AgentInv
  <2> QED
    BY Zenon, <1>7, <2>1, <2>2 DEF Reconciler
<1>8. CASE ReconcilerNoVGInfo(n)
  BY Zenon, <1>8, <1>g, <1>h DEF ReconcilerNoVGInfo, apiVars
<1>9. CASE AgentUpdateStatus(n)
  BY Zenon, <1>9, <1>h, <1>u, AgentWrites DEF AgentUpdateStatus
<1>10. CASE AgentUpdateStatusError(n)
  BY Zenon, <1>10, <1>g, <1>h, <1>u, AgentWrites DEF AgentUpdateStatusError
<1> QED
  BY Zenon, <1>1, <1>2, <1>3, <1>4, <1>5, <1>6, <1>7, <1>8, <1>9, <1>10 DEF AgentSync, AgentWorker

LEMMA VolumeNextReserved == ReservedInv /\ VolumeNext => ReservedInv'
<1> SUFFICES ASSUME ReservedInv, VolumeNext PROVE ReservedInv'
  OBVIOUS
<1>t. TypeOK /\ VersionInv /\ TypeOK'
  BY VolumeNextType DEF ReservedInv
<1>u. UNCHANGED <<lv, schedLv, stage, target, copylv, agentPc, agentLv, agentPv, work>>
  BY Zenon DEF VolumeNext, CreateVolume, ControllerExpandVolume, NodePublishCreate,
     NodePublishResize, UpdatePVPublishSuccessTag, ReleaseVolume, GcDeleteVolume,
     GcRemoveFinalizer, DeleteVolume, apiVars, schedVars, agentVars
\* The node of a volume is set once, when the volume is created.
<1>1. \A c \in Claims : /\ pv[c].node # None => pv'[c].node = pv[c].node
                        /\ pv'[c].phase = "None" => pv'[c].node = None
  <2> SUFFICES ASSUME NEW d \in Claims,
                      \/ \E n \in Nodes : CreateVolume(d, n)
                      \/ ControllerExpandVolume(d) \/ ReleaseVolume(d) \/ DeleteVolume(d)
                      \/ NodePublishCreate(d) \/ NodePublishResize(d)
                      \/ UpdatePVPublishSuccessTag(d)
                      \/ GcDeleteVolume(d) \/ GcRemoveFinalizer(d)
               PROVE  \A c \in Claims : /\ pv[c].node # None => pv'[c].node = pv[c].node
                                        /\ pv'[c].phase = "None" => pv'[c].node = None
    BY Zenon DEF VolumeNext
  <2> USE DEF PersistentVolumeObject, ReservedInv, NodeInv, TypeOK, ApiTypeOK
  <2>1. ASSUME NEW n \in Nodes, CreateVolume(d, n)
        PROVE  \A c \in Claims : /\ pv[c].node # None => pv'[c].node = pv[c].node
                                 /\ pv'[c].phase = "None" => pv'[c].node = None
    BY Zenon, <2>1 DEF CreateVolume, NoPersistentVolume
  <2>2. CASE ControllerExpandVolume(d)
    BY <2>2 DEF ControllerExpandVolume
  <2>3. CASE ReleaseVolume(d)
    BY <2>3 DEF ReleaseVolume
  <2>4. CASE DeleteVolume(d)
    BY <2>4 DEF DeleteVolume
  <2>5. CASE UpdatePVPublishSuccessTag(d)
    BY <2>5 DEF UpdatePVPublishSuccessTag
  <2>6. CASE GcRemoveFinalizer(d)
    BY <2>6 DEF GcRemoveFinalizer
  <2>7. CASE NodePublishCreate(d) \/ NodePublishResize(d) \/ GcDeleteVolume(d)
    BY Zenon, <2>7 DEF NodePublishCreate, NodePublishResize, GcDeleteVolume, apiVars
  <2> QED
    BY Zenon, <2>1, <2>2, <2>3, <2>4, <2>5, <2>6, <2>7
<1>2. NodeInv'
  <2>1. ASSUME NEW n \in Nodes, NEW c \in Claims
        PROVE  agentPv'[n][c].node \in {None, pv'[c].node}
    <3>1. agentPv'[n][c].node = None \/ agentPv'[n][c].node = pv[c].node
      BY Zenon, <1>u DEF ReservedInv, NodeInv
    <3> QED
      BY Zenon, <1>1, <3>1
  <2> QED
    BY Zenon, <1>1, <2>1 DEF NodeInv
<1>3. Forward
  <2>1. ASSUME NEW n \in Nodes PROVE BoundOn(n) \subseteq BoundOn(n)'
    BY Zenon, <1>1, SetsAssumption DEF BoundOn
  <2> QED
    BY Zenon, <1>u, <2>1 DEF Forward
<1>4. \A n \in Nodes : CacheInv(schedLv[n], n)' /\ AgentInv(n)'
  BY Zenon, <1>t, <1>u, <1>3, SchedFrame, AgentFrame
<1>5. \A p \in Pods : PodInv(p)'
  BY Zenon, <1>t, <1>u, <1>3, PodFrame
<1> QED
  BY Zenon, <1>t, <1>2, <1>3, <1>4, <1>5, LvFrame DEF ReservedInv, VersionInv

LEMMA InitReserved == Init => ReservedInv
<1> SUFFICES ASSUME Init PROVE ReservedInv
  OBVIOUS
<1>1. TypeOK
  BY InitType
<1>2. VersionInv
  <2>1. ASSUME NEW n \in Nodes
        PROVE  lv[n] = NoLocalVolume /\ schedLv[n] = NoLocalVolume
               /\ agentLv[n] = NoLocalVolume /\ agentPc[n] = "down"
    BY Zenon DEF Init
  <2>2. NoLocalVolume.rv = 0 /\ NoLocalVolume.pre = {}
    BY Zenon DEF NoLocalVolume
  <2>3. ASSUME NEW n \in Nodes PROVE CacheInv(schedLv[n], n) /\ AgentInv(n)
    <3>1. CacheInv(schedLv[n], n) /\ CacheInv(agentLv[n], n)
      BY <2>1, <2>2 DEF CacheInv
    <3> QED
      BY Zenon, <2>1, <3>1 DEF AgentInv
  <2>4. ASSUME NEW p \in Pods PROVE PodInv(p)
    <3>1. stage[p] = "pending"
      BY DEF Init
    <3> QED
      BY Zenon, <3>1 DEF PodInv
  <2> QED
    BY Zenon, <2>1, <2>2, <2>3, <2>4 DEF VersionInv
<1>3. NodeInv
  BY Zenon DEF Init, NodeInv, NoPersistentVolume
<1> QED
  BY <1>1, <1>2, <1>3 DEF ReservedInv

LEMMA StutterReserved == ReservedInv /\ UNCHANGED vars => ReservedInv'
<1> SUFFICES ASSUME ReservedInv, UNCHANGED vars PROVE ReservedInv'
  OBVIOUS
<1> USE DEF vars, apiVars, nodeVars, schedVars, agentVars
<1>1. TypeOK'
  BY Zenon, StutterType DEF ReservedInv
<1>2. VersionInv'
  <2>1. \A n \in Nodes : BoundOn(n)' = BoundOn(n)
    BY DEF BoundOn
  <2>2. Forward
    BY Zenon, <2>1 DEF Forward
  <2>3. TypeOK /\ VersionInv
    BY DEF ReservedInv
  <2>4. \A n \in Nodes : CacheInv(schedLv[n], n)' /\ AgentInv(n)'
    BY Zenon, <1>1, <2>2, <2>3, SchedFrame, AgentFrame
  <2>5. \A p \in Pods : PodInv(p)'
    BY Zenon, <1>1, <2>2, <2>3, PodFrame
  <2> QED
    BY Zenon, <1>1, <2>2, <2>3, <2>4, <2>5, LvFrame DEF VersionInv
<1>3. NodeInv'
  BY Zenon DEF ReservedInv, NodeInv
<1> QED
  BY Zenon, <1>1, <1>2, <1>3 DEF ReservedInv

LEMMA AlwaysReserved == Spec => []ReservedInv
  BY InitReserved, SchedNextReserved, AgentNextReserved, VolumeNextReserved,
     StutterReserved, PTL DEF Spec, Next

\* An entry that bind wrote stays in the node's LocalVolume until the volume
\* of the claim it names is bound there, for any number of concurrent binds
\* and whatever stale copies the extender and the agent write.
THEOREM ReservationsStay == Spec => []BoundPodsReserved
<1>1. ReservedInv => BoundPodsReserved
  BY Zenon DEF ReservedInv, VersionInv, PodInv, BoundPodsReserved
<1> QED
  BY <1>1, AlwaysReserved, PTL

LEMMA NextKeeps == ReservedInv /\ Next => NoLostStep
<1> SUFFICES ASSUME ReservedInv, Next PROVE NoLostStep
  OBVIOUS
<1>1. CASE UNCHANGED lv
  BY Zenon, <1>1 DEF NoLostStep
<1>2. ASSUME NEW p \in Pods, BindUpdateStatus(p) \/ BindUpdateStatusError(p) PROVE NoLostStep
  BY Zenon, <1>1, <1>2, BindWrites DEF BindUpdateStatus, BindUpdateStatusError
<1>3. ASSUME NEW n \in Nodes, AgentUpdateStatus(n) \/ AgentUpdateStatusError(n) PROVE NoLostStep
  BY Zenon, <1>1, <1>3, AgentWrites DEF AgentUpdateStatus, AgentUpdateStatusError
<1>4. ASSUME NEW n \in Nodes, NewAgent(n) PROVE NoLostStep
  <2>1. \A m \in Nodes : lv'[m] = lv[m] \/ (lv[m].pre = {} /\ lv'[m].pre = {})
    BY SMTT(30), <1>4
    DEF NewAgent, Registered, NoLocalVolume, ReservedInv, VersionInv, TypeOK, ApiTypeOK,
        LocalVolumeObject
  <2> QED
    BY Zenon, <2>1 DEF NoLostStep
<1>5. CASE SchedNext
  BY <1>1, <1>2, <1>5
  DEF SchedNext, PredicateHandler, BindCopy, BindLookupError, BindPod, BindPodError,
      SchedSyncLocalVolume, SchedSyncClaim, SchedRestart, apiVars
<1>6. CASE AgentNext
  BY Zenon, <1>1, <1>3, <1>4, <1>6
  DEF AgentNext, AgentSync, AgentWorker, AgentCrash, AgentSyncLocalVolume,
      AgentSyncPersistentVolume, Resync, Reconcile, Reconciler, ReconcilerNoVGInfo, apiVars
<1>7. CASE VolumeNext
  BY Zenon, <1>1, <1>7
  DEF VolumeNext, CreateVolume, ControllerExpandVolume, NodePublishCreate,
      NodePublishResize, UpdatePVPublishSuccessTag, ReleaseVolume, GcDeleteVolume,
      GcRemoveFinalizer, DeleteVolume, apiVars
<1> QED
  BY <1>5, <1>6, <1>7 DEF Next

\* The extender never undoes what the agent wrote, and the agent never drops
\* an entry the extender added but that of a claim bound on its node: the
\* version check of UpdateStatus catches every stale copy.
THEOREM NoUpdateLost == Spec => NoLostUpdate
<1>1. ReservedInv /\ [Next]_vars => [NoLostStep]_vars
  BY NextKeeps
<1> QED
  BY <1>1, AlwaysReserved, PTL DEF Spec, NoLostUpdate
----------------------------------------------------------------------------
(* No entry that counts as a reservation is ever written: bind adds the key *)
(* "" alone, and every other step only copies or drops entries.             *)

Uncounted(obj) == obj.pre \subseteq {EmptyKey}

KeyInv ==
    /\ \A n \in Nodes : /\ Uncounted(lv[n]) /\ Uncounted(schedLv[n])
                        /\ Uncounted(agentLv[n]) /\ Uncounted(work[n])
    /\ \A p \in Pods : Uncounted(copylv[p])

LEMMA NoObjectUncounted == Uncounted(NoLocalVolume)
  BY Zenon DEF Uncounted, NoLocalVolume

LEMMA StoredUncounted ==
    ASSUME TypeOK, KeyInv, NEW n \in Nodes, NEW obj \in LocalVolumeObject,
           Uncounted(obj), lv' = Stored(n, obj)
    PROVE  \A m \in Nodes : Uncounted(lv'[m])
  BY DEF TypeOK, ApiTypeOK, KeyInv, Uncounted, Stored, LocalVolumeObject

LEMMA SchedNextKeys == TypeOK /\ KeyInv /\ SchedNext => KeyInv'
<1> SUFFICES ASSUME TypeOK, KeyInv, SchedNext PROVE KeyInv'
  OBVIOUS
<1>t. /\ DOMAIN schedLv = Nodes /\ DOMAIN copylv = Pods
      /\ \A p \in Pods : copylv[p] \in LocalVolumeObject
      /\ \A n \in Nodes : schedLv[n] \in LocalVolumeObject
      /\ \A p \in Pods : stage[p] # "pending" => target[p] \in Nodes
  BY DEF TypeOK, SchedTypeOK
<1>u. UNCHANGED <<agentLv, work>>
  BY Zenon DEF SchedNext, PredicateHandler, BindCopy, BindLookupError, BindUpdateStatus,
     BindUpdateStatusError, BindPod, BindPodError, SchedSyncLocalVolume, SchedSyncClaim,
     SchedRestart, agentVars
<1>f. ASSUME \A n \in Nodes : Uncounted(lv'[n]) /\ Uncounted(schedLv'[n]),
             \A p \in Pods : Uncounted(copylv'[p])
      PROVE  KeyInv'
  BY Zenon, <1>f, <1>u DEF KeyInv, Uncounted
<1>h. ASSUME NEW p \in Pods, Unbind(p), \A n \in Nodes : Uncounted(lv'[n]) PROVE KeyInv'
  <2>1. UNCHANGED schedLv /\ copylv' = [copylv EXCEPT ![p] = NoLocalVolume]
    BY <1>h DEF Unbind
  <2>2. \A q \in Pods : copylv'[q] = copylv[q] \/ copylv'[q] = NoLocalVolume
    BY Zenon, <1>t, <2>1
  <2> QED
    BY Zenon, <1>f, <1>h, <2>1, <2>2, NoObjectUncounted DEF KeyInv
<1>1. ASSUME NEW p \in Pods, NEW n \in Nodes, PredicateHandler(p, n) PROVE KeyInv'
  BY Zenon, <1>1, <1>f DEF PredicateHandler, apiVars, KeyInv
<1>2. ASSUME NEW p \in Pods, BindCopy(p) PROVE KeyInv'
  <2>1. UNCHANGED <<lv, schedLv>>
    BY <1>2 DEF BindCopy, apiVars
  <2>2. target[p] \in Nodes
    BY <1>2, <1>t DEF BindCopy
  <2>3. copylv'[p].pre = schedLv[target[p]].pre \cup BindKeys(p)
    BY <1>2, <1>t, <2>2 DEF BindCopy, LocalVolumeObject
  <2>4. BindKeys(p) \subseteq {EmptyKey}
    BY DEF BindKeys
  <2>5. Uncounted(copylv'[p])
    BY Zenon, <2>2, <2>3, <2>4 DEF KeyInv, Uncounted
  <2>6. \A q \in Pods \ {p} : copylv'[q] = copylv[q]
    BY <1>2, <1>t DEF BindCopy
  <2> QED
    BY Zenon, <1>f, <2>1, <2>5, <2>6 DEF KeyInv
<1>3. ASSUME NEW p \in Pods, BindLookupError(p) PROVE KeyInv'
  BY Zenon, <1>3, <1>h DEF BindLookupError, apiVars, KeyInv
<1>w. ASSUME NEW p \in Pods, stage[p] = "copied", lv' = Stored(target[p], copylv[p])
      PROVE  \A n \in Nodes : Uncounted(lv'[n])
  BY Zenon, <1>w, <1>t, StoredUncounted DEF KeyInv
<1>4. ASSUME NEW p \in Pods, BindUpdateStatus(p) PROVE KeyInv'
  BY Zenon, <1>4, <1>f, <1>w DEF BindUpdateStatus, KeyInv
<1>5. ASSUME NEW p \in Pods, BindUpdateStatusError(p) PROVE KeyInv'
  BY Zenon, <1>5, <1>h, <1>w DEF BindUpdateStatusError, KeyInv
<1>6. ASSUME NEW p \in Pods, BindPod(p) PROVE KeyInv'
  BY Zenon, <1>6, <1>f DEF BindPod, KeyInv
<1>7. ASSUME NEW p \in Pods, BindPodError(p) PROVE KeyInv'
  BY Zenon, <1>7, <1>h DEF BindPodError, KeyInv
<1>8. ASSUME NEW n \in Nodes, SchedSyncLocalVolume(n) PROVE KeyInv'
  <2>1. UNCHANGED <<lv, copylv>> /\ \A m \in Nodes : schedLv'[m] \in {schedLv[m], lv[m]}
    BY Zenon, <1>8, <1>t DEF SchedSyncLocalVolume, apiVars
  <2> QED
    BY Zenon, <1>f, <2>1 DEF KeyInv
<1>9. ASSUME NEW c \in Claims, SchedSyncClaim(c) PROVE KeyInv'
  BY Zenon, <1>9, <1>f DEF SchedSyncClaim, apiVars, KeyInv
<1>10. CASE SchedRestart
  <2>1. UNCHANGED lv /\ schedLv' = lv
    BY Zenon, <1>10 DEF SchedRestart, apiVars
  <2>2. \A p \in Pods : copylv'[p] \in {copylv[p], NoLocalVolume}
    BY Zenon, <1>10 DEF SchedRestart
  <2> QED
    BY Zenon, <1>f, <2>1, <2>2, NoObjectUncounted DEF KeyInv
<1> QED
  BY Zenon, <1>1, <1>2, <1>3, <1>4, <1>5, <1>6, <1>7, <1>8, <1>9, <1>10 DEF SchedNext

LEMMA AgentNextKeys == TypeOK /\ KeyInv /\ AgentNext => KeyInv'
<1> SUFFICES ASSUME TypeOK, KeyInv, NEW n \in Nodes,
                    \/ NewAgent(n) \/ AgentCrash(n) \/ AgentSync(n) \/ Resync(n)
                    \/ AgentWorker(n)
             PROVE  KeyInv'
  BY DEF AgentNext
<1>t. /\ DOMAIN lv = Nodes /\ DOMAIN agentLv = Nodes /\ DOMAIN work = Nodes
      /\ \A m \in Nodes : work[m] \in LocalVolumeObject
  BY DEF TypeOK, ApiTypeOK, AgentTypeOK
<1>u. UNCHANGED <<schedLv, copylv>>
  BY Zenon DEF NewAgent, AgentCrash, AgentSync, AgentWorker, AgentSyncLocalVolume,
     AgentSyncPersistentVolume, Resync, Reconcile, Reconciler, ReconcilerNoVGInfo,
     AgentUpdateStatus, AgentUpdateStatusError, schedVars
<1>f. ASSUME \A m \in Nodes : /\ Uncounted(lv'[m])
                              /\ agentLv'[m] \in {agentLv[m], lv'[m]}
                              /\ work'[m] = work[m] \/ Uncounted(work'[m])
      PROVE  KeyInv'
  <2>1. \A m \in Nodes : Uncounted(agentLv'[m]) /\ Uncounted(work'[m])
    BY Zenon, <1>f DEF KeyInv
  <2> QED
    BY Zenon, <1>f, <1>u, <2>1 DEF KeyInv, Uncounted
<1>d. AgentDone(n) => \A m \in Nodes : work'[m] = work[m] \/ Uncounted(work'[m])
  BY Zenon, <1>t, NoObjectUncounted DEF AgentDone
<1>1. CASE NewAgent(n)
  <2>1. \A m \in Nodes : lv'[m] = lv[m] \/ lv'[m].pre = {}
    BY <1>1, <1>t DEF NewAgent, Registered, NoLocalVolume
  <2>2. \A m \in Nodes : Uncounted(lv'[m])
    BY Zenon, <2>1 DEF KeyInv, Uncounted
  <2>3. UNCHANGED work /\ \A m \in Nodes : agentLv'[m] \in {agentLv[m], lv'[m]}
    BY Zenon, <1>1, <1>t DEF NewAgent
  <2> QED
    BY Zenon, <1>f, <2>2, <2>3
<1>2. CASE AgentCrash(n)
  <2>1. UNCHANGED <<lv, agentLv>> /\ \A m \in Nodes : work'[m] \in {work[m], NoLocalVolume}
    BY Zenon, <1>2, <1>t DEF AgentCrash, apiVars
  <2> QED
    BY Zenon, <1>f, <2>1, NoObjectUncounted DEF KeyInv
<1>3. CASE AgentSyncLocalVolume(n)
  <2>1. UNCHANGED <<lv, work>> /\ \A m \in Nodes : agentLv'[m] \in {agentLv[m], lv[m]}
    BY Zenon, <1>3, <1>t DEF AgentSyncLocalVolume, apiVars
  <2> QED
    BY Zenon, <1>f, <2>1 DEF KeyInv
<1>4. CASE Resync(n) \/ \E c \in Claims : AgentSyncPersistentVolume(n, c)
  BY Zenon, <1>4, <1>f DEF Resync, AgentSyncPersistentVolume, apiVars, KeyInv
<1>5. CASE Reconcile(n)
  <2>1. UNCHANGED <<lv, agentLv>> /\ \A m \in Nodes : work'[m] \in {work[m], agentLv[m]}
    BY Zenon, <1>5, <1>t DEF Reconcile, apiVars
  <2> QED
    BY Zenon, <1>f, <2>1 DEF KeyInv
<1>6. CASE Reconciler(n)
  <2>1. UNCHANGED <<lv, agentLv>>
    BY Zenon, <1>6 DEF Reconciler, apiVars
  <2>2. NewStatus(n).pre \subseteq work[n].pre
    BY <1>t DEF NewStatus, LocalVolumeObject
  <2>3. Uncounted(NewStatus(n))
    BY Zenon, <2>2 DEF KeyInv, Uncounted
  <2>4. \A m \in Nodes : work'[m] = work[m] \/ Uncounted(work'[m])
    BY Zenon, <1>6, <1>d, <1>t, <2>3 DEF Reconciler
  <2> QED
    BY Zenon, <1>f, <2>1, <2>4 DEF KeyInv
<1>7. CASE ReconcilerNoVGInfo(n)
  BY Zenon, <1>7, <1>d, <1>f DEF ReconcilerNoVGInfo, apiVars, KeyInv
<1>8. CASE AgentUpdateStatus(n) \/ AgentUpdateStatusError(n)
  <2>1. AgentDone(n) /\ UNCHANGED agentLv /\ (UNCHANGED lv \/ lv' = Stored(n, work[n]))
    BY Zenon, <1>8 DEF AgentUpdateStatus, AgentUpdateStatusError
  <2>2. \A m \in Nodes : Uncounted(lv'[m])
    BY Zenon, <1>t, <2>1, StoredUncounted DEF KeyInv
  <2> QED
    BY Zenon, <1>d, <1>f, <2>1, <2>2
<1> QED
  BY Zenon, <1>1, <1>2, <1>3, <1>4, <1>5, <1>6, <1>7, <1>8 DEF AgentSync, AgentWorker

LEMMA NextKeys == TypeOK /\ KeyInv /\ [Next]_vars => KeyInv'
<1> SUFFICES ASSUME KeyInv, VolumeNext \/ UNCHANGED vars PROVE KeyInv'
  BY SchedNextKeys, AgentNextKeys DEF Next
<1>1. UNCHANGED <<lv, schedLv, copylv, agentLv, work>>
  BY Zenon DEF VolumeNext, CreateVolume, ControllerExpandVolume, NodePublishCreate,
     NodePublishResize, UpdatePVPublishSuccessTag, ReleaseVolume, GcDeleteVolume,
     GcRemoveFinalizer, DeleteVolume, apiVars, schedVars, agentVars, vars
<1> QED
  BY Zenon, <1>1 DEF KeyInv, Uncounted

\* A sum over no claims is 0: the one value of the fold that needs no induction.
LEMMA SumOfNone == MapThenSumSet(RequestGiB, {}) = 0
<1> DEFINE Body(f) == [s \in SUBSET {} |->
                         IF s = {} THEN 0
                         ELSE RequestGiB(CHOOSE x \in s : TRUE) + f[s \ {CHOOSE x \in s : TRUE}]]
<1>1. [s \in SUBSET {} |-> 0] = Body([s \in SUBSET {} |-> 0])
  OBVIOUS
<1>2. (CHOOSE f : f = Body(f)) = Body(CHOOSE f : f = Body(f))
  BY Zenon, <1>1
<1> QED
  BY Zenon, <1>2 DEF MapThenSumSet, MapThenFoldSet

LEMMA ModuloNotMore ==
    ASSUME NEW x \in Nat, NEW w \in Nat \ {0}
    PROVE  x % w <= x
  OBVIOUS

\* What the extender takes for the free size of a node is never more than the
\* free size it has cached: the uint64 subtraction of getNodeFreeSize does not
\* wrap, since no entry that counts is ever written.
THEOREM SubtractionDoesNotWrap == Spec => []FreeSizeNeverWraps
<1>1. Init => KeyInv
  BY NoObjectUncounted DEF Init, KeyInv
<1>2. TypeOK /\ KeyInv => FreeSizeNeverWraps
  <2> SUFFICES ASSUME TypeOK, KeyInv, NEW n \in Nodes
               PROVE  GetNodeFreeSize(n) <= schedLv[n].free
    BY DEF FreeSizeNeverWraps
  <2>1. CountedKeys(n) = {}
    BY Zenon, SetsAssumption DEF TypeOK, SchedTypeOK, KeyInv, Uncounted, CountedKeys
  <2>2. MapThenSumSet(RequestGiB, CountedKeys(n)) = 0
    BY <2>1, SumOfNone
  <2>3. schedLv[n].free \in Nat
    BY Zenon DEF TypeOK, SchedTypeOK, LocalVolumeObject
  <2>4. schedLv[n].free - 0 = schedLv[n].free
    BY <2>3
  <2>5. schedLv[n].free % Word <= schedLv[n].free
    BY Zenon, <2>3, ModuloNotMore, SizesAssumption
  <2> QED
    BY SMTT(30), <2>2, <2>3, <2>4, <2>5 DEF GetNodeFreeSize
<1> QED
  BY <1>1, <1>2, TypeCorrect, NextKeys, PTL DEF Spec
-----------------------------------------------------------------------------
(***************************************************************************)
(* The agent misses no wake-up: as long as a LocalVolume is out of date,   *)
(* something will make its agent look again.                               *)
(***************************************************************************)

HIDE DEF Keys

(* What the agent's copy of a PersistentVolume has to do with the stored one *)

\* a is b or an earlier state of it.
Older(a, b) ==
    /\ a.size <= b.size
    /\ a.tag => b.tag
    /\ a.tag /\ b.fin => a.fin
    /\ a.phase = "Bound" => b.phase # "None"
    /\ a.phase = "Released" => b.phase \in {"Released", "Deleted"}
    /\ a.phase = "Deleted" => b.phase = "Deleted"

VolumeInv ==
    /\ \A n \in Nodes, c \in Claims : Older(agentPv[n][c], pv[c])
    /\ \A c \in Claims :
          /\ pv[c].phase = "Bound" /\ pv[c].tag => lvSize[c] > 0
          /\ pv[c].fin => pv[c].tag
          /\ pv[c].phase = "None" => pv[c] = NoPersistentVolume

\* While the agent of n works, either its item will be done again or it works
\* on the object in the cache; and the sizes it is about to write are right, or
\* something will make it look again.
WorkSizes(n) ==
    work[n].total = ToStatus(VGSize[n]) /\ work[n].free = ToStatus(vgFree[n])

AwakeInv(n) ==
    /\ agentPc[n] = "copied" => pending[n] \/ work[n] = agentLv[n]
    /\ agentPc[n] = "changed" => lost[n] \/ WakeUp(n) \/ WorkSizes(n)
    /\ lv[n].rv > 0 => Fresh(n) \/ agentPc[n] # "idle" \/ WakeUp(n) \/ lost[n]

\* The inductive invariant behind NoSilentStaleness.
WakeInv == ReservedInv /\ VolumeInv /\ \A n \in Nodes : AwakeInv(n)
----------------------------------------------------------------------------
(* VolumeInv *)

LEMMA OlderSelf ==
    ASSUME NEW a \in PersistentVolumeObject
    PROVE  Older(a, a)
  BY DEF Older, PersistentVolumeObject

LEMMA InitVolume == Init => VolumeInv
<1> SUFFICES ASSUME Init PROVE VolumeInv
  OBVIOUS
<1>1. \A n \in Nodes, c \in Claims : agentPv[n][c] = pv[c] /\ pv[c] = NoPersistentVolume
  BY DEF Init
<1>2. \A n \in Nodes, c \in Claims : Older(agentPv[n][c], pv[c])
  BY <1>1, OlderSelf, NoObjectsType
<1>3. \A c \in Claims : pv[c] = NoPersistentVolume
  BY DEF Init
<1>4. \A c \in Claims : pv[c].phase # "Bound" /\ ~pv[c].fin
  BY <1>3 DEF NoPersistentVolume
<1> QED
  BY <1>2, <1>3, <1>4 DEF VolumeInv

LEMMA SchedNextVolume == VolumeInv /\ SchedNext => VolumeInv'
<1> SUFFICES ASSUME VolumeInv, SchedNext PROVE VolumeInv'
  OBVIOUS
<1>1. UNCHANGED <<pv, agentPv, lvSize>>
  BY Zenon DEF SchedNext, PredicateHandler, BindCopy, BindLookupError, BindUpdateStatus,
     BindUpdateStatusError, BindPod, BindPodError, SchedSyncLocalVolume, SchedSyncClaim,
     SchedRestart, apiVars, agentVars, nodeVars
<1> QED
  BY <1>1 DEF VolumeInv

LEMMA AgentNextVolume == TypeOK /\ VolumeInv /\ AgentNext => VolumeInv'
<1> SUFFICES ASSUME TypeOK, VolumeInv, AgentNext PROVE VolumeInv'
  OBVIOUS
<1>1. UNCHANGED <<pv, lvSize>>
  BY Zenon DEF AgentNext, NewAgent, AgentCrash, AgentSync, AgentWorker, AgentSyncLocalVolume,
     AgentSyncPersistentVolume, Resync, Reconcile, Reconciler, ReconcilerNoVGInfo,
     AgentUpdateStatus, AgentUpdateStatusError, apiVars, nodeVars
<1>2. \A n \in Nodes, c \in Claims : agentPv'[n][c] \in {agentPv[n][c], pv[c]}
  <2> SUFFICES ASSUME NEW n \in Nodes,
                      NewAgent(n) \/ AgentCrash(n) \/ AgentSync(n) \/ Resync(n) \/ AgentWorker(n)
               PROVE  \A m \in Nodes, c \in Claims : agentPv'[m][c] \in {agentPv[m][c], pv[c]}
    BY DEF AgentNext
  <2>1. agentPv \in [Nodes -> [Claims -> PersistentVolumeObject]]
    BY DEF TypeOK, AgentTypeOK
  <2>2. AgentCrash(n) \/ AgentSyncLocalVolume(n) \/ Resync(n) \/ AgentWorker(n)
        => UNCHANGED agentPv
    BY Zenon DEF AgentCrash, AgentWorker, AgentSyncLocalVolume, Resync, Reconcile, Reconciler,
       ReconcilerNoVGInfo, AgentUpdateStatus, AgentUpdateStatusError
  <2>3. CASE NewAgent(n)
    BY Zenon, <2>1, <2>3 DEF NewAgent
  <2>4. ASSUME NEW d \in Claims, AgentSyncPersistentVolume(n, d)
        PROVE  \A m \in Nodes, c \in Claims : agentPv'[m][c] \in {agentPv[m][c], pv[c]}
    BY Zenon, <2>1, <2>4 DEF AgentSyncPersistentVolume
  <2> QED
    BY <2>2, <2>3, <2>4 DEF AgentSync
<1>3. \A n \in Nodes, c \in Claims : Older(agentPv'[n][c], pv'[c])
  BY Zenon, <1>1, <1>2, OlderSelf DEF VolumeInv, TypeOK, ApiTypeOK
<1> QED
  BY <1>1, <1>3 DEF VolumeInv

\* A step of the provisioner, the driver or the collector that concerns d.
VolumeStep(d) ==
    \/ \E n \in Nodes : CreateVolume(d, n)
    \/ ControllerExpandVolume(d) \/ ReleaseVolume(d) \/ DeleteVolume(d)
    \/ NodePublishCreate(d) \/ NodePublishResize(d) \/ UpdatePVPublishSuccessTag(d)
    \/ GcDeleteVolume(d) \/ GcRemoveFinalizer(d)

\* What such a step does to the volume of d: a changed PersistentVolume is new
\* to whoever has a copy, and a changed volume group is yet to be announced.
VolumeEffect(d) ==
    /\ Older(pv[d], pv'[d])
    /\ pv'[d] = pv[d] \/ ~Older(pv'[d], pv[d])
    /\ pv[d].node # None => pv'[d].node = pv[d].node
    /\ pv'[d].phase = "Bound" /\ pv'[d].tag => lvSize'[d] > 0
    /\ pv'[d].fin => pv'[d].tag
    /\ pv'[d].phase = "None" => pv'[d] = pv[d]
    /\ pv'[d] = pv[d] => (Unannounced(d) => Unannounced(d)')
    /\ \A n \in Nodes : \/ vgFree'[n] = vgFree[n]
                        \/ pv'[d].node = n /\ Unannounced(d)'
                        \/ lost'[n]
    /\ \A n \in Nodes : lost[n] => lost'[n]

\* A step that leaves the PersistentVolume, and what is to be announced of it.
LEMMA SameObjectEffect ==
    ASSUME TypeOK, VolumeInv, NEW d \in Claims, pv'[d] = pv[d],
           pv[d].phase = "Bound" /\ pv[d].tag => lvSize'[d] > 0,
           Unannounced(d) => Unannounced(d)',
           \A n \in Nodes : vgFree'[n] = vgFree[n] \/ (pv[d].node = n /\ Unannounced(d)') \/ lost'[n],
           \A n \in Nodes : lost[n] => lost'[n]
    PROVE  VolumeEffect(d)
<1>1. pv[d] \in PersistentVolumeObject
  BY Zenon DEF TypeOK, ApiTypeOK
<1>2. Older(pv[d], pv'[d])
  BY Zenon, <1>1, OlderSelf
<1>3. pv[d].fin => pv[d].tag
  BY Zenon DEF VolumeInv
<1> QED
  BY Zenon, <1>2, <1>3 DEF VolumeEffect

LEMMA VolumeStepEffect ==
    ASSUME TypeOK, NodeInv, VolumeInv, NEW d \in Claims, VolumeStep(d)
    PROVE  VolumeEffect(d)
<1> USE DEF TypeOK, ApiTypeOK, PersistentVolumeObject, VolumeEffect, Older, Unannounced
<1>1. ASSUME NEW n \in Nodes, CreateVolume(d, n) PROVE VolumeEffect(d)
  <2>1. /\ pv[d] = NoPersistentVolume
        /\ pv'[d].phase = "Bound" /\ pv'[d].size = ClaimSize[d]
        /\ pv'[d].tag = FALSE /\ pv'[d].fin = FALSE
        /\ UNCHANGED <<vgFree, lvSize, lost>>
    BY <1>1 DEF CreateVolume, NoPersistentVolume, nodeVars, agentVars, VolumeInv
  <2> HIDE DEF TypeOK, ApiTypeOK, PersistentVolumeObject, Unannounced
  <2>2. pv[d].node = None /\ pv[d].phase = "None" /\ pv[d].size = 0 /\ ~pv[d].tag
    BY <2>1 DEF NoPersistentVolume
  <2>3. pv[d].size <= pv'[d].size
    BY <2>1, <2>2, SizesAssumption
  <2>4. Older(pv[d], pv'[d]) /\ ~Older(pv'[d], pv[d])
    BY Zenon, <2>1, <2>2, <2>3
  <2> HIDE DEF Older
  <2>5. pv'[d] # pv[d]
    BY Zenon, <2>4
  <2> QED
    BY Zenon, <2>1, <2>2, <2>4, <2>5
<1>2. CASE ControllerExpandVolume(d)
  BY <1>2, SizesAssumption DEF ControllerExpandVolume, nodeVars, agentVars, VolumeInv
<1>3. CASE ReleaseVolume(d)
  BY <1>3 DEF ReleaseVolume, nodeVars, agentVars, VolumeInv
<1>4. CASE DeleteVolume(d)
  BY <1>4 DEF DeleteVolume, nodeVars, agentVars, VolumeInv
<1>5. CASE NodePublishCreate(d)
  <2> DEFINE size == GetPvSize(pv[d].size)
  <2>1. size \in Nat /\ vgFree \in [Nodes -> Nat] /\ lvSize \in [Claims -> Nat]
    BY GetPvSizeNat
  <2> HIDE DEF size, TypeOK, ApiTypeOK, PersistentVolumeObject, VolumeEffect, Older, Unannounced
  <2>2. /\ UNCHANGED <<pv, lost>> /\ pv[d].phase = "Bound" /\ lvSize[d] = 0
        /\ lvSize' = [lvSize EXCEPT ![d] = size] /\ vgFree' = [vgFree EXCEPT ![pv[d].node] = @ - size]
    BY Zenon, <1>5 DEF NodePublishCreate, apiVars, agentVars, size
  <2>3. lvSize'[d] = size /\ ~(lvSize[d] > 0)
    BY <2>1, <2>2
  <2>4. ~pv[d].tag
    BY Zenon, <2>2, <2>3 DEF VolumeInv
  <2>5. \A n \in Nodes : vgFree'[n] = vgFree[n] \/ (n = pv[d].node /\ lvSize'[d] > 0)
    BY <2>1, <2>2, <2>3
  <2>6. ~Unannounced(d)
    BY Zenon, <2>2, <2>3 DEF Unannounced
  <2>7. lvSize'[d] > 0 => Unannounced(d)'
    BY Zenon, <2>2, <2>4 DEF Unannounced
  <2> QED
    BY Zenon, <2>2, <2>4, <2>5, <2>6, <2>7, SameObjectEffect
<1>6. CASE NodePublishResize(d)
  <2> DEFINE size == GetPvSize(pv[d].size)
  <2>1. size \in Nat
    BY GetPvSizeNat
  <2> HIDE DEF size
  <2>2. UNCHANGED pv /\ lvSize[d] > 0 /\ lvSize'[d] > 0
    BY SMTT(30), <1>6, <2>1 DEF NodePublishResize, apiVars, size
  <2>3. \A n \in Nodes : vgFree'[n] = vgFree[n] \/ lost'[n]
    BY SMTT(30), <1>6 DEF NodePublishResize, AgentTypeOK
  <2>4. \A n \in Nodes : lost[n] => lost'[n]
    BY <1>6 DEF NodePublishResize, AgentTypeOK
  <2> HIDE DEF TypeOK, ApiTypeOK, PersistentVolumeObject, VolumeEffect, Older, Unannounced
  <2>5. lvSize[d] # 0
    BY <2>2
  <2>6. Unannounced(d) => Unannounced(d)'
    BY Zenon, <2>2, <2>5 DEF Unannounced
  <2> QED
    BY Zenon, <2>2, <2>3, <2>4, <2>6, SameObjectEffect
<1>7. CASE UpdatePVPublishSuccessTag(d)
  BY SMTT(30), <1>7 DEF UpdatePVPublishSuccessTag, nodeVars, agentVars, VolumeInv
<1>8. CASE GcDeleteVolume(d)
  <2>1. /\ UNCHANGED <<pv, lost>> /\ pv[d].phase = "Released" /\ pv[d].fin
        /\ lvSize'[d] = 0
    BY <1>8 DEF GcDeleteVolume, apiVars, agentVars
  <2>2. \A n \in Nodes : vgFree'[n] = vgFree[n] \/ n = pv[d].node
    BY <1>8 DEF GcDeleteVolume
  <2> HIDE DEF TypeOK, ApiTypeOK, PersistentVolumeObject, VolumeEffect, Older, Unannounced
  <2>3. Unannounced(d)'
    BY Zenon, <2>1 DEF Unannounced
  <2>4. pv[d].phase # "Bound"
    BY <2>1
  <2> QED
    BY Zenon, <2>1, <2>2, <2>3, <2>4, SameObjectEffect
<1>9. CASE GcRemoveFinalizer(d)
  BY <1>9 DEF GcRemoveFinalizer, nodeVars, agentVars, VolumeInv
<1> QED
  BY Zenon, <1>1, <1>2, <1>3, <1>4, <1>5, <1>6, <1>7, <1>8, <1>9 DEF VolumeStep

LEMMA VolumeStepFrame ==
    ASSUME TypeOK, NEW d \in Claims, VolumeStep(d)
    PROVE  /\ \A c \in Claims \ {d} : UNCHANGED <<pv[c], lvSize[c]>>
           /\ UNCHANGED <<lv, agentPc, pending, agentLv, agentPv, work>>
  BY Zenon DEF TypeOK, ApiTypeOK, VolumeStep, CreateVolume, ControllerExpandVolume,
     NodePublishCreate, NodePublishResize, UpdatePVPublishSuccessTag, ReleaseVolume,
     GcDeleteVolume, GcRemoveFinalizer, DeleteVolume, apiVars, nodeVars, agentVars

LEMMA OlderTransitive ==
    ASSUME NEW a \in PersistentVolumeObject, NEW b \in PersistentVolumeObject,
           NEW c \in PersistentVolumeObject, Older(a, b), Older(b, c)
    PROVE  Older(a, c)
  BY DEF Older, PersistentVolumeObject

LEMMA VolumeStepVolume ==
    ASSUME TypeOK, TypeOK', NodeInv, VolumeInv, NEW d \in Claims, VolumeStep(d)
    PROVE  VolumeInv'
<1>1. VolumeEffect(d) /\ UNCHANGED agentPv
  BY VolumeStepEffect, VolumeStepFrame
<1>2. ASSUME NEW n \in Nodes, NEW c \in Claims PROVE Older(agentPv'[n][c], pv'[c])
  <2>1. /\ agentPv[n][c] \in PersistentVolumeObject
        /\ pv[c] \in PersistentVolumeObject /\ pv'[c] \in PersistentVolumeObject
    BY DEF TypeOK, ApiTypeOK, AgentTypeOK
  <2>2. CASE c = d
    BY Zenon, <1>1, <2>1, <2>2, OlderTransitive DEF VolumeInv, VolumeEffect
  <2>3. CASE c # d
    BY Zenon, <1>1, <2>3, VolumeStepFrame DEF VolumeInv
  <2> QED
    BY <2>2, <2>3
<1>3. ASSUME NEW c \in Claims
      PROVE  /\ pv'[c].phase = "Bound" /\ pv'[c].tag => lvSize'[c] > 0
             /\ pv'[c].fin => pv'[c].tag
             /\ pv'[c].phase = "None" => pv'[c] = NoPersistentVolume
  <2>1. CASE c = d
    BY Zenon, <1>1, <2>1 DEF VolumeInv, VolumeEffect
  <2>2. CASE c # d
    BY Zenon, <2>2, VolumeStepFrame DEF VolumeInv
  <2> QED
    BY <2>1, <2>2
<1> QED
  BY Zenon, <1>2, <1>3 DEF VolumeInv
----------------------------------------------------------------------------
(* AwakeInv *)

\* A PersistentVolume of n that will make the agent of n look again.
ClaimWakes(n, c) == pv[c].node = n /\ (agentPv[n][c] # pv[c] \/ Unannounced(c))

\* A version of the LocalVolume the agent has not seen is a wake-up.
LEMMA NewVersionWakes ==
    ASSUME TypeOK, TypeOK', VersionInv, Forward, NEW n \in Nodes,
           agentLv'[n] = agentLv[n], lv'[n] # lv[n]
    PROVE  WakeUp(n)'
<1>1. agentLv[n].rv <= lv[n].rv
  BY DEF VersionInv, AgentInv, CacheInv
<1>2. /\ agentLv[n].rv \in Nat /\ lv[n].rv \in Nat /\ lv'[n].rv \in Nat
      /\ lv'[n].rv > lv[n].rv
  BY DEF TypeOK, ApiTypeOK, AgentTypeOK, LocalVolumeObject, Forward
<1>3. agentLv[n].rv # lv'[n].rv
  BY <1>1, <1>2
<1> QED
  BY Zenon, <1>3 DEF WakeUp

\* A step that leaves n and its agent alone, whatever it writes to lv[n].
LEMMA AwakeFrame ==
    ASSUME TypeOK, TypeOK', VersionInv, Forward, UNCHANGED <<pv, lvSize>>,
           NEW n \in Nodes, AwakeInv(n),
           UNCHANGED <<agentPc[n], pending[n], agentLv[n], agentPv[n], work[n], lost[n],
                       vgFree[n]>>
    PROVE  AwakeInv(n)'
<1>1. CASE lv'[n] = lv[n]
  BY Zenon, <1>1 DEF AwakeInv, WakeUp, Unannounced, Fresh, WorkSizes
<1>2. CASE lv'[n] # lv[n]
  <2>1. WakeUp(n)'
    BY Zenon, <1>2, NewVersionWakes
  <2> QED
    BY Zenon, <2>1 DEF AwakeInv
<1> QED
  BY <1>1, <1>2

LEMMA VolumeStepAwake ==
    ASSUME TypeOK, NodeInv, VolumeInv, NEW d \in Claims, VolumeStep(d),
           NEW n \in Nodes, AwakeInv(n)
    PROVE  AwakeInv(n)'
<1>1. VolumeEffect(d)
  BY VolumeStepEffect
<1>2. /\ \A c \in Claims \ {d} : UNCHANGED <<pv[c], lvSize[c]>>
      /\ UNCHANGED <<lv, agentPc, pending, agentLv, agentPv, work>>
  BY Zenon, VolumeStepFrame
<1>3. ASSUME NEW c \in Claims, ClaimWakes(n, c) PROVE ClaimWakes(n, c)'
  <2>1. CASE c # d
    BY Zenon, <1>2, <1>3, <2>1 DEF ClaimWakes, Unannounced
  <2>2. CASE c = d /\ pv'[d] = pv[d]
    BY Zenon, <1>1, <1>2, <1>3, <2>2 DEF ClaimWakes, VolumeEffect
  <2>3. CASE c = d /\ pv'[d] # pv[d]
    <3>1. pv'[d].node = n
      BY Zenon, <1>1, <1>3, <2>3, SetsAssumption DEF ClaimWakes, VolumeEffect
    <3>2. agentPv'[n][d] # pv'[d]
      BY Zenon, <1>1, <1>2, <2>3 DEF VolumeEffect, VolumeInv
    <3> QED
      BY <2>3, <3>1, <3>2 DEF ClaimWakes
  <2> QED
    BY Zenon, <2>1, <2>2, <2>3
<1>4. WakeUp(n) => WakeUp(n)'
  BY Zenon, <1>2, <1>3 DEF WakeUp, ClaimWakes
<1>5. vgFree'[n] = vgFree[n] \/ WakeUp(n)' \/ lost'[n]
  BY Zenon, <1>1 DEF VolumeEffect, WakeUp
<1>6. lost[n] => lost'[n]
  BY Zenon, <1>1 DEF VolumeEffect
<1> QED
  BY Zenon, <1>2, <1>4, <1>5, <1>6 DEF AwakeInv, Fresh, WorkSizes

LEMMA NextForward == ReservedInv /\ (SchedNext \/ AgentNext) => Forward
<1> SUFFICES ASSUME ReservedInv, SchedNext \/ AgentNext PROVE Forward
  OBVIOUS
<1>1. UNCHANGED pv
  BY Zenon DEF SchedNext, PredicateHandler, BindCopy, BindLookupError, BindUpdateStatus,
     BindUpdateStatusError, BindPod, BindPodError, SchedSyncLocalVolume, SchedSyncClaim,
     SchedRestart, AgentNext, NewAgent, AgentCrash, AgentSync, AgentWorker,
     AgentSyncLocalVolume, AgentSyncPersistentVolume, Resync, Reconcile, Reconciler,
     ReconcilerNoVGInfo, AgentUpdateStatus, AgentUpdateStatusError, apiVars
<1>2. \A n \in Nodes : BoundOn(n)' = BoundOn(n)
  BY <1>1 DEF BoundOn
<1>3. CASE UNCHANGED lv
  BY <1>2, <1>3 DEF Forward
<1>4. ASSUME NEW p \in Pods, BindUpdateStatus(p) \/ BindUpdateStatusError(p) PROVE Forward
  BY Zenon, <1>1, <1>3, <1>4, BindWrites DEF BindUpdateStatus, BindUpdateStatusError
<1>5. ASSUME NEW n \in Nodes, AgentUpdateStatus(n) \/ AgentUpdateStatusError(n) PROVE Forward
  BY Zenon, <1>1, <1>3, <1>5, AgentWrites DEF AgentUpdateStatus, AgentUpdateStatusError
<1>6. ASSUME NEW n \in Nodes, NewAgent(n) PROVE Forward
  <2>1. \A m \in Nodes : lv'[m] = lv[m] \/ (lv[m].rv = 0 /\ lv'[m].rv = 1)
    BY <1>6 DEF NewAgent, Registered, NoLocalVolume, ReservedInv, TypeOK, ApiTypeOK, LocalVolumeObject
  <2>2. ASSUME NEW m \in Nodes
        PROVE  /\ lv'[m] = lv[m] \/ lv'[m].rv > lv[m].rv
               /\ lv[m].pre \subseteq lv'[m].pre \cup BoundOn(m)'
    <3>1. lv[m].rv = 0 => lv[m].pre = {}
      BY Zenon DEF ReservedInv, VersionInv
    <3>2. CASE lv'[m] = lv[m]
      BY Zenon, <3>2
    <3>3. CASE lv[m].rv = 0 /\ lv'[m].rv = 1
      <4>1. lv'[m].rv > lv[m].rv
        BY <3>3
      <4> QED
        BY Zenon, <3>1, <3>3, <4>1
    <3> QED
      BY Zenon, <2>1, <3>2, <3>3
  <2> QED
    BY Zenon, <1>2, <2>2 DEF Forward
<1>7. CASE SchedNext
  BY Zenon, <1>3, <1>4, <1>7
  DEF SchedNext, PredicateHandler, BindCopy, BindLookupError, BindPod, BindPodError,
      SchedSyncLocalVolume, SchedSyncClaim, SchedRestart, apiVars
<1>8. CASE AgentNext
  BY Zenon, <1>3, <1>5, <1>6, <1>8
  DEF AgentNext, AgentSync, AgentWorker, AgentCrash, AgentSyncLocalVolume,
      AgentSyncPersistentVolume, Resync, Reconcile, Reconciler, ReconcilerNoVGInfo, apiVars
<1> QED
  BY <1>7, <1>8

LEMMA SchedNextAwake ==
    ASSUME ReservedInv, ReservedInv', SchedNext, NEW n \in Nodes, AwakeInv(n)
    PROVE  AwakeInv(n)'
<1>1. UNCHANGED <<pv, lvSize, vgFree, agentPc, pending, agentLv, agentPv, work, lost>>
  BY Zenon DEF SchedNext, PredicateHandler, BindCopy, BindLookupError, BindUpdateStatus,
     BindUpdateStatusError, BindPod, BindPodError, SchedSyncLocalVolume, SchedSyncClaim,
     SchedRestart, apiVars, nodeVars, agentVars
<1> QED
  BY Zenon, <1>1, NextForward, AwakeFrame DEF ReservedInv

LEMMA AgentNextAwake ==
    ASSUME ReservedInv, ReservedInv', AgentNext, \A n \in Nodes : AwakeInv(n)
    PROVE  \A n \in Nodes : AwakeInv(n)'
<1> PICK n \in Nodes :
        NewAgent(n) \/ AgentCrash(n) \/ AgentSync(n) \/ Resync(n) \/ AgentWorker(n)
  BY DEF AgentNext
<1>t. TypeOK /\ TypeOK' /\ VersionInv /\ Forward /\ AwakeInv(n)
  BY NextForward DEF ReservedInv
<1>u. UNCHANGED <<pv, vgFree, lvSize>>
  BY Zenon DEF NewAgent, AgentCrash, AgentSync, AgentWorker, AgentSyncLocalVolume,
     AgentSyncPersistentVolume, Resync, Reconcile, Reconciler, ReconcilerNoVGInfo,
     AgentUpdateStatus, AgentUpdateStatusError, apiVars, nodeVars
<1>m. ASSUME NEW m \in Nodes \ {n} PROVE AwakeInv(m)'
  <2>1. UNCHANGED <<agentPc[m], pending[m], agentLv[m], agentPv[m], work[m], lost[m], vgFree[m]>>
    <3> DEFINE Same == UNCHANGED <<agentPc[m], pending[m], agentLv[m], agentPv[m],
                                   work[m], lost[m]>>
    <3>d. /\ DOMAIN agentPc = Nodes /\ DOMAIN pending = Nodes /\ DOMAIN agentLv = Nodes
          /\ DOMAIN agentPv = Nodes /\ DOMAIN work = Nodes /\ DOMAIN lost = Nodes
      BY <1>t DEF TypeOK, AgentTypeOK
    <3>1. NewAgent(n) \/ AgentCrash(n) \/ Resync(n) => Same
      BY Zenon, <3>d DEF NewAgent, AgentCrash, Resync
    <3>2. AgentSync(n) => Same
      BY Zenon, <3>d DEF AgentSync, AgentSyncLocalVolume, AgentSyncPersistentVolume
    <3>3. Reconcile(n) => Same
      BY Zenon, <3>d DEF Reconcile
    <3>4. Reconciler(n) \/ ReconcilerNoVGInfo(n) => Same
      BY Zenon, <3>d DEF Reconciler, ReconcilerNoVGInfo, AgentDone
    <3>5. AgentUpdateStatus(n) \/ AgentUpdateStatusError(n) => Same
      BY Zenon, <3>d DEF AgentUpdateStatus, AgentUpdateStatusError, AgentDone
    <3> QED
      BY Zenon, <1>u, <3>1, <3>2, <3>3, <3>4, <3>5 DEF AgentWorker
  <2> QED
    BY Zenon, <1>t, <1>u, <2>1, AwakeFrame
<1> SUFFICES AwakeInv(n)'
  BY <1>m
<1>p. pending'[n] => WakeUp(n)'
  BY Zenon DEF WakeUp
\* The key is queued: whatever the step did, the agent will look again.
<1>q. pending'[n] => AwakeInv(n)'
  BY Zenon, <1>p DEF AwakeInv
<1>1. CASE NewAgent(n)
  <2>1. agentPc'[n] = "idle" /\ (lv'[n].rv > 0 => pending'[n])
    BY ZenonT(30), <1>1, <1>t DEF NewAgent, TypeOK, AgentTypeOK
  <2> QED
    BY Zenon, <1>p, <2>1 DEF AwakeInv
<1>2. CASE AgentCrash(n)
  <2>1. agentPc'[n] = "down"
    BY Zenon, <1>2, <1>t DEF AgentCrash, TypeOK, AgentTypeOK
  <2> QED
    BY Zenon, <2>1 DEF AwakeInv
<1>3. CASE AgentSyncLocalVolume(n)
  BY Zenon, <1>3, <1>q, <1>t DEF AgentSyncLocalVolume, TypeOK, AgentTypeOK
<1>4. ASSUME NEW c \in Claims, AgentSyncPersistentVolume(n, c) PROVE AwakeInv(n)'
  <2>0. UNCHANGED <<lv, agentPc, agentLv, work>>
    BY <1>4 DEF AgentSyncPersistentVolume, apiVars
  <2>1. CASE pending'[n]
    BY <1>q, <2>1
  <2>2. CASE lost'[n] /\ UNCHANGED pending
    BY Zenon, <1>t, <2>0, <2>2 DEF AwakeInv
  <2>3. CASE ~OnNode(c, n) /\ UNCHANGED <<pending, lost>>
    <3>1. \A d \in Claims : OnNode(d, n) => agentPv'[n][d] = agentPv[n][d]
      <4>1. agentPv' = [agentPv EXCEPT ![n][c] = pv[c]]
        BY <1>4 DEF AgentSyncPersistentVolume
      <4>2. agentPv \in [Nodes -> [Claims -> PersistentVolumeObject]]
        BY <1>t DEF TypeOK, AgentTypeOK
      <4> QED
        BY <2>3, <4>1, <4>2
    <3>2. WakeUp(n) => WakeUp(n)'
      BY Zenon, <1>u, <2>0, <2>3, <3>1 DEF WakeUp, OnNode, Unannounced
    <3> QED
      BY Zenon, <1>t, <1>u, <2>0, <2>3, <3>2 DEF AwakeInv, Fresh, WorkSizes
  <2>4. \/ pending'[n]
        \/ lost'[n] /\ UNCHANGED pending
        \/ ~OnNode(c, n) /\ UNCHANGED <<pending, lost>>
    <3>1. CASE lost' = [lost EXCEPT ![n] = TRUE] /\ UNCHANGED pending
      BY Zenon, <1>t, <3>1 DEF TypeOK, AgentTypeOK
    <3>2. CASE pending' = [pending EXCEPT ![n] = @ \/ OnNode(c, n)] /\ UNCHANGED lost
      <4>1. CASE pending[n] \/ OnNode(c, n)
        BY Zenon, <1>t, <3>2, <4>1 DEF TypeOK, AgentTypeOK
      <4>2. CASE ~pending[n] /\ ~OnNode(c, n)
        BY <1>t, <3>2, <4>2, Zenon DEF TypeOK, AgentTypeOK
      <4> QED
        BY Zenon, <4>1, <4>2
    <3> QED
      BY Zenon, <1>4, <3>1, <3>2 DEF AgentSyncPersistentVolume
  <2> QED
    BY Zenon, <2>1, <2>2, <2>3, <2>4
<1>5. CASE Resync(n)
  BY Zenon, <1>5, <1>q, <1>t DEF Resync, TypeOK, AgentTypeOK
<1>6. CASE Reconcile(n)
  <2>0. UNCHANGED <<lv, agentLv>> /\ agentPc[n] = "idle"
    BY Zenon, <1>6 DEF Reconcile, apiVars
  <2>1. CASE agentLv[n].rv = 0
    <3>1. agentPc'[n] = "idle"
      BY Zenon, <1>6, <2>0, <2>1 DEF Reconcile
    <3>2. lv'[n].rv > 0 => WakeUp(n)'
      <4>1. lv'[n].rv > 0 => agentLv[n].rv # lv'[n].rv
        BY <2>1
      <4> QED
        BY Zenon, <2>0, <4>1 DEF WakeUp
    <3> QED
      BY Zenon, <3>1, <3>2 DEF AwakeInv
  <2>2. CASE agentLv[n].rv # 0
    <3>1. agentPc'[n] = "copied" /\ work'[n] = agentLv'[n]
      <4>1. agentPc' = [agentPc EXCEPT ![n] = "copied"] /\ work' = [work EXCEPT ![n] = agentLv[n]]
        BY Zenon, <1>6, <2>2 DEF Reconcile
      <4>2. DOMAIN agentPc = Nodes /\ DOMAIN work = Nodes
        BY Zenon, <1>t DEF TypeOK, AgentTypeOK
      <4>3. agentPc'[n] = "copied" /\ work'[n] = agentLv[n]
        BY Zenon, <4>1, <4>2
      <4> QED
        BY Zenon, <2>0, <4>3
    <3> QED
      BY Zenon, <3>1 DEF AwakeInv
  <2> QED
    BY Zenon, <2>1, <2>2
<1>7. CASE Reconciler(n)
  <2>0. /\ UNCHANGED <<lv, agentLv, pending>> /\ agentPc[n] = "copied"
        /\ pending[n] \/ work[n] = agentLv[n]
    BY Zenon, <1>7, <1>t DEF Reconciler, apiVars, AwakeInv
  <2>1. NewStatus(n).total = ToStatus(VGSize[n]) /\ NewStatus(n).free = ToStatus(vgFree[n])
    BY <1>t DEF NewStatus, TypeOK, AgentTypeOK, LocalVolumeObject
  <2>2. CASE NewStatus(n) = work[n]
    <3>1. agentPc'[n] = "idle"
      BY Zenon, <1>7, <1>t, <2>2 DEF Reconciler, AgentDone, TypeOK, AgentTypeOK
    <3>2. Fresh(n)' \/ WakeUp(n)'
      BY Zenon, <1>u, <2>0, <2>1, <2>2 DEF WakeUp, Fresh
    <3> QED
      BY Zenon, <3>1, <3>2 DEF AwakeInv
  <2>3. CASE NewStatus(n) # work[n]
    <3>1. agentPc'[n] = "changed" /\ work'[n] = NewStatus(n)
      BY Zenon, <1>7, <1>t, <2>3 DEF Reconciler, TypeOK, AgentTypeOK
    <3> QED
      BY Zenon, <1>u, <2>1, <3>1 DEF AwakeInv, WorkSizes
  <2> QED
    BY <2>2, <2>3
<1>8. CASE ReconcilerNoVGInfo(n)
  <2>1. agentPc'[n] = "idle" /\ lost'[n]
    BY Zenon, <1>8, <1>t DEF ReconcilerNoVGInfo, AgentDone, TypeOK, AgentTypeOK
  <2> QED
    BY Zenon, <2>1 DEF AwakeInv
<1>9. CASE AgentUpdateStatus(n)
  <2>0. /\ UNCHANGED <<pending, agentLv, agentPv, lost>>
        /\ lost[n] \/ WakeUp(n) \/ WorkSizes(n)
        /\ agentPc'[n] = "idle"
    BY Zenon, <1>9, <1>t DEF AgentUpdateStatus, AgentDone, AwakeInv, TypeOK, AgentTypeOK
  <2>1. lv'[n].total = work[n].total /\ lv'[n].free = work[n].free
    BY Zenon, <1>9, <1>t, Written DEF AgentUpdateStatus, TypeOK, AgentTypeOK
  <2>2. WakeUp(n) => WakeUp(n)'
    <3>1. CASE lv'[n] # lv[n]
      BY Zenon, <1>t, <2>0, <3>1, NewVersionWakes
    <3>2. CASE lv'[n] = lv[n]
      BY Zenon, <1>u, <2>0, <3>2 DEF WakeUp, Unannounced
    <3> QED
      BY Zenon, <3>1, <3>2
  <2>3. WorkSizes(n) => Fresh(n)'
    BY Zenon, <1>u, <2>1 DEF WorkSizes, Fresh
  <2> QED
    BY Zenon, <2>0, <2>2, <2>3 DEF AwakeInv
<1>10. CASE AgentUpdateStatusError(n)
  BY Zenon, <1>10, <1>q, <1>t DEF AgentUpdateStatusError, TypeOK, AgentTypeOK
<1> QED
  BY <1>1, <1>2, <1>3, <1>4, <1>5, <1>6, <1>7, <1>8, <1>9, <1>10 DEF AgentSync, AgentWorker
----------------------------------------------------------------------------

LEMMA InitWake == Init => WakeInv
<1> SUFFICES ASSUME Init PROVE WakeInv
  OBVIOUS
<1>1. \A n \in Nodes : AwakeInv(n)
  BY Zenon DEF Init, AwakeInv, NoLocalVolume
<1> QED
  BY <1>1, InitReserved, InitVolume DEF WakeInv

LEMMA NextWake == WakeInv /\ [Next]_vars => WakeInv'
<1> SUFFICES ASSUME WakeInv, [Next]_vars PROVE WakeInv'
  OBVIOUS
<1>1. ReservedInv /\ VolumeInv /\ TypeOK /\ NodeInv /\ \A n \in Nodes : AwakeInv(n)
  BY DEF WakeInv, ReservedInv
<1>2. ReservedInv' /\ TypeOK'
  BY Zenon, <1>1, SchedNextReserved, AgentNextReserved, VolumeNextReserved, StutterReserved
  DEF Next, ReservedInv
<1>3. CASE SchedNext
  BY <1>1, <1>2, <1>3, SchedNextVolume, SchedNextAwake DEF WakeInv
<1>4. CASE AgentNext
  BY <1>1, <1>2, <1>4, AgentNextVolume, AgentNextAwake DEF WakeInv
<1>5. CASE VolumeNext
  <2>1. PICK d \in Claims : VolumeStep(d)
    BY <1>5 DEF VolumeNext, VolumeStep
  <2> QED
    BY <1>1, <1>2, <2>1, VolumeStepVolume, VolumeStepAwake DEF WakeInv
<1>6. CASE UNCHANGED vars
  <2>1. VolumeInv'
    BY Zenon, <1>1, <1>6 DEF VolumeInv, vars, apiVars, nodeVars, agentVars
  <2>2. \A n \in Nodes : AwakeInv(n)'
    BY Zenon, <1>1, <1>6
    DEF AwakeInv, Fresh, WakeUp, Unannounced, WorkSizes, vars, apiVars, nodeVars, agentVars
  <2> QED
    BY <1>2, <2>1, <2>2 DEF WakeInv
<1> QED
  BY <1>3, <1>4, <1>5, <1>6 DEF Next

\* The agent misses no wake-up, for any number of nodes, pods, claims and
\* faults: an out-of-date LocalVolume always has an event, a queued key, an
\* agent at work or a restart ahead of it, unless a resize, a failed vgs or a
\* dropped tombstone has silenced the agent.
THEOREM NoWakeUpMissed == Spec => []NoSilentStaleness
<1>1. WakeInv => NoSilentStaleness
  BY Zenon DEF WakeInv, AwakeInv, NoSilentStaleness
<1> QED
  BY <1>1, InitWake, NextWake, PTL DEF Spec
=============================================================================
