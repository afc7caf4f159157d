---------------------------- MODULE LocalVolume ----------------------------
(***************************************************************************)
(* The LocalVolume object of a node, and everyone who reads or writes it.  *)
(*                                                                         *)
(* A node's LocalVolume (an API object named after the node) says how much *)
(* of the node's volume group is free.  Two programs write its status:     *)
(*                                                                         *)
(*   - the agent of the node (pkg/agent), which copies the volume group's  *)
(*     total and free size into it and removes PreAllocated entries;       *)
(*   - the scheduler extender (pkg/scheduler), which reads it in predicate *)
(*     and adds PreAllocated entries in bind.                              *)
(*                                                                         *)
(* Both read it from an informer's cache, which lags the API server, and   *)
(* both write it with UpdateStatus, which the API server refuses when the  *)
(* copy written was not made from the current version.  The CSI driver     *)
(* and the collector change the volume group and tell the agent through    *)
(* the PersistentVolume; here they appear by the steps the agent sees.     *)
(*                                                                         *)
(* A watch is modelled by a step that brings one cached object up to date; *)
(* several changes may be delivered at once.                               *)
(***************************************************************************)
EXTENDS Integers, FiniteSets, FiniteSetsExt

CONSTANTS
    Nodes,      \* node names
    Pods,       \* pods that use local volumes, and only those
    Claims,     \* their claims, one PersistentVolume per claim
    PodClaims,  \* PodClaims[p]: the claims of pod p
    Deletable,  \* the claims that are deleted at some time
    ClaimSize,  \* ClaimSize[c]: the storage request of claim c
    VGSize,     \* VGSize[n]: the size of node n's volume group
    GiB,        \* a GiB, in the unit of ClaimSize and VGSize (a MiB)
    ReportedG,  \* 1024 of the megabytes "vgs --units=M" prints (10^6 bytes)
    Word,       \* the modulus of uint64 arithmetic
    None,       \* no node
    EmptyKey,   \* the PreAllocated key ""
    MaxFaults,  \* bound on crashes, failed commands and failed API calls
    MaxGrowth   \* bound on the growth of a volume after it was provisioned

ASSUME SetsAssumption ==
    /\ None \notin Nodes
    /\ EmptyKey \notin Claims
    /\ PodClaims \in [Pods -> SUBSET Claims]
    /\ Deletable \subseteq Claims
ASSUME SizesAssumption ==
    /\ ClaimSize \in [Claims -> Nat \ {0}]
    /\ VGSize \in [Nodes -> Nat]
    /\ GiB \in Nat \ {0}
    /\ ReportedG \in 1 .. GiB
    /\ Word \in Nat \ {0}
ASSUME BoundsAssumption == MaxFaults \in Nat /\ MaxGrowth \in Nat

VARIABLES
    lv,         \* API server: the LocalVolume of every node (rv = 0: none)
    pv,         \* API server: the PersistentVolume of every claim
    podNode,    \* API server: the node a pod is bound to
    vgFree,     \* node: free space of the volume group
    lvSize,     \* node: size of the logical volume of a claim (0: none)
    schedLv,    \* extender: cached LocalVolumes
    schedClaims,\* extender: claims present in its caches
    stage,      \* extender and kube-scheduler: where each pod is
    target,     \* kube-scheduler: the node picked for a pod
    copylv,     \* bind: the copy to be written
    agentPc,    \* agent: where its worker is
    pending,    \* agent: its node's key is queued, or waits to be retried
    agentLv,    \* agent: cached LocalVolume of its node
    agentPv,    \* agent: cached PersistentVolumes
    work,       \* agent: the copy reconciler works on
    lost,       \* history: the volume group changed untold, or a wake-up of the
                \* agent was dropped, since its last look at the volume group
    faults      \* number of faults so far

apiVars   == <<lv, pv, podNode>>
nodeVars  == <<vgFree, lvSize>>
schedVars == <<schedLv, schedClaims, stage, target, copylv>>
agentVars == <<agentPc, pending, agentLv, agentPv, work, lost>>
vars      == <<apiVars, nodeVars, schedVars, agentVars, faults>>

Keys == Claims \cup {EmptyKey}
----------------------------------------------------------------------------
(* Objects *)

LocalVolumeObject == [rv : Nat, total : Nat, free : Nat, pre : SUBSET Keys]

PersistentVolumeObject ==
    [node : Nodes \cup {None}, phase : {"None", "Bound", "Released", "Deleted"},
     size : Nat, tag : BOOLEAN, fin : BOOLEAN]

NoLocalVolume == [rv |-> 0, total |-> 0, free |-> 0, pre |-> {}]

NoPersistentVolume ==
    [node |-> None, phase |-> "None", size |-> 0, tag |-> FALSE, fin |-> FALSE]

Init ==
    /\ lv = [n \in Nodes |-> NoLocalVolume]
    /\ pv = [c \in Claims |-> NoPersistentVolume]
    /\ podNode = [p \in Pods |-> None]
    /\ vgFree = VGSize
    /\ lvSize = [c \in Claims |-> 0]
    /\ schedLv = [n \in Nodes |-> NoLocalVolume]
    /\ schedClaims = {}
    /\ stage = [p \in Pods |-> "pending"]
    /\ target = [p \in Pods |-> None]
    /\ copylv = [p \in Pods |-> NoLocalVolume]
    /\ agentPc = [n \in Nodes |-> "down"]
    /\ pending = [n \in Nodes |-> FALSE]
    /\ agentLv = [n \in Nodes |-> NoLocalVolume]
    /\ agentPv = [n \in Nodes |-> pv]
    /\ work = [n \in Nodes |-> NoLocalVolume]
    /\ lost = [n \in Nodes |-> FALSE]
    /\ faults = 0

Fault == faults < MaxFaults /\ faults' = faults + 1
----------------------------------------------------------------------------
(* Conversions *)

\* What the agent reports of a size vgs prints, in whole units of 1024 MB.
ToStatus(size) == size \div ReportedG

\* A claim's request as the extender counts it: GiB, rounded up.
RequestGiB(c) == (ClaimSize[c] + GiB - 1) \div GiB

\* The number getPvSize returns for a volume of this size, its unit aside:
\* whole GiB, below one GiB whole MiB (the unit of sizes here).  lvdisplay,
\* whose unit is cut off, prints the size of a logical volume the same way.
SizeNumber(size) == IF size >= GiB THEN size \div GiB ELSE size

\* The size createVolume and resizeVolume ask lvcreate and lvextend for.
GetPvSize(size) == IF size >= GiB THEN SizeNumber(size) * GiB ELSE size
----------------------------------------------------------------------------
(* API server: UpdateStatus of a LocalVolume *)

\* The object was not made from the current version.
Conflict(n, obj) == obj.rv # lv[n].rv

\* A status equal to the stored one is not written and makes no new version.
Stored(n, obj) ==
    IF obj = lv[n] THEN lv ELSE [lv EXCEPT ![n] = [obj EXCEPT !.rv = @ + 1]]
----------------------------------------------------------------------------
(* Scheduler extender: predicate and bind *)

\* The claims of p that the extender finds in its caches.
CachedClaims(p) == PodClaims[p] \cap schedClaims

GetPodLocalVolumeRequestSize(p) == MapThenSumSet(RequestGiB, CachedClaims(p))

\* PreAllocated entries that name a claim in the cache count; "" names none.
CountedKeys(n) == schedLv[n].pre \cap schedClaims

GetNodeFreeSize(n) ==
    IF schedLv[n].rv = 0 THEN 0
    ELSE (schedLv[n].free - MapThenSumSet(RequestGiB, CountedKeys(n))) % Word

PredicateResult(p, n) ==
    \/ GetPodLocalVolumeRequestSize(p) = 0
    \/ GetNodeFreeSize(n) >= GetPodLocalVolumeRequestSize(p)

\* kube-scheduler asks the extender's filter about p and picks one of the nodes
\* it lets through.  A node other than the one a claim of p is provisioned on
\* is not offered.
PredicateHandler(p, n) ==
    /\ stage[p] = "pending"
    /\ \A c \in PodClaims[p] : pv[c].node \in {n, None}
    /\ PredicateResult(p, n)
    /\ stage' = [stage EXCEPT ![p] = "filtered"]
    /\ target' = [target EXCEPT ![p] = n]
    /\ UNCHANGED <<apiVars, nodeVars, agentVars, schedLv, schedClaims, copylv, faults>>

\* Mutant: bind ranges over the keys.
BindKeysOfClaims(p) == CachedClaims(p)

\* The keys bind adds for p: it ranges over the values of the map that
\* getPodLocalVolumePVCNames returns, and every value of that map is "".
BindKeys(p) == {EmptyKey : c \in CachedClaims(p)}

\* A failed bind: kube-scheduler will schedule p again.
Unbind(p) ==
    /\ stage' = [stage EXCEPT ![p] = "pending"]
    /\ copylv' = [copylv EXCEPT ![p] = NoLocalVolume]
    /\ UNCHANGED <<schedLv, schedClaims, target>>

\* Mutant: BindHandler goes on without the write.
BindCopyOnly(p) ==
    /\ stage[p] = "filtered"
    /\ schedLv[target[p]].rv > 0
    /\ copylv' = [copylv EXCEPT ![p] =
                     [schedLv[target[p]] EXCEPT !.pre = @ \cup BindKeys(p)]]
    /\ stage' = [stage EXCEPT ![p] = "updated"]
    /\ UNCHANGED <<apiVars, nodeVars, agentVars, schedLv, schedClaims, target, faults>>

\* bind, up to the write: the copy of the cached LocalVolume with p's keys.
BindCopy(p) ==
    LET n == target[p] IN
    /\ stage[p] = "filtered"
    /\ schedLv[n].rv > 0
    /\ copylv' = [copylv EXCEPT ![p] =
                     [schedLv[n] EXCEPT !.pre = @ \cup BindKeys(p)]]
    /\ stage' = [stage EXCEPT ![p] = "copied"]
    /\ UNCHANGED <<apiVars, nodeVars, agentVars, schedLv, schedClaims, target, faults>>

\* The pod or the node's LocalVolume is not in the cache.
BindLookupError(p) ==
    /\ stage[p] = "filtered"
    /\ \/ schedLv[target[p]].rv = 0 /\ UNCHANGED faults
       \/ Fault
    /\ Unbind(p)
    /\ UNCHANGED <<apiVars, nodeVars, agentVars>>

\* Mutant: bind writes its copy over whatever version is there.
BindUpdateStatusForced(p) ==
    LET n == target[p] IN
    /\ stage[p] = "copied"
    /\ lv' = Stored(n, [copylv[p] EXCEPT !.rv = lv[n].rv])
    /\ stage' = [stage EXCEPT ![p] = "updated"]
    /\ UNCHANGED <<pv, podNode, nodeVars, agentVars, schedLv, schedClaims, target,
                   copylv, faults>>

BindUpdateStatus(p) ==
    LET n == target[p] IN
    /\ stage[p] = "copied"
    /\ ~Conflict(n, copylv[p])
    /\ lv' = Stored(n, copylv[p])
    /\ stage' = [stage EXCEPT ![p] = "updated"]
    /\ UNCHANGED <<pv, podNode, nodeVars, agentVars, schedLv, schedClaims, target,
                   copylv, faults>>

\* UpdateStatus returns an error: a conflict, a call that never arrived, or one
\* that was carried out and whose answer was lost.
BindUpdateStatusError(p) ==
    LET n == target[p] IN
    /\ stage[p] = "copied"
    /\ \/ Conflict(n, copylv[p]) /\ UNCHANGED <<lv, faults>>
       \/ ~Conflict(n, copylv[p]) /\ Fault /\ UNCHANGED lv
       \/ ~Conflict(n, copylv[p]) /\ Fault /\ lv' = Stored(n, copylv[p])
    /\ Unbind(p)
    /\ UNCHANGED <<pv, podNode, nodeVars, agentVars>>

\* BindHandler binds the pod once bind has succeeded.
BindPod(p) ==
    /\ stage[p] = "updated"
    /\ podNode[p] = None
    /\ podNode' = [podNode EXCEPT ![p] = target[p]]
    /\ stage' = [stage EXCEPT ![p] = "bound"]
    /\ UNCHANGED <<lv, pv, nodeVars, agentVars, schedLv, schedClaims, target, copylv,
                   faults>>

\* The API server refuses to bind a bound pod; other errors are as above.
BindPodError(p) ==
    /\ stage[p] = "updated"
    /\ \/ podNode[p] # None /\ UNCHANGED <<podNode, faults>>
       \/ podNode[p] = None /\ Fault /\ UNCHANGED podNode
       \/ podNode[p] = None /\ Fault /\ podNode' = [podNode EXCEPT ![p] = target[p]]
    /\ Unbind(p)
    /\ UNCHANGED <<lv, pv, nodeVars, agentVars>>

\* The extender's informers deliver.
SchedSyncLocalVolume(n) ==
    /\ schedLv[n] # lv[n]
    /\ schedLv' = [schedLv EXCEPT ![n] = lv[n]]
    /\ UNCHANGED <<apiVars, nodeVars, agentVars, schedClaims, stage, target, copylv, faults>>

ClaimExists(c) == pv[c].phase \in {"None", "Bound"}

SchedSyncClaim(c) ==
    /\ schedClaims' = IF ClaimExists(c) THEN schedClaims \cup {c} ELSE schedClaims \ {c}
    /\ schedClaims' # schedClaims
    /\ UNCHANGED <<apiVars, nodeVars, agentVars, schedLv, stage, target, copylv, faults>>

\* The extender restarts: calls in progress fail, the caches are listed anew.
SchedRestart ==
    /\ Fault
    /\ stage' = [p \in Pods |-> IF stage[p] = "bound" THEN "bound" ELSE "pending"]
    /\ copylv' = [p \in Pods |-> IF stage[p] = "bound" THEN copylv[p] ELSE NoLocalVolume]
    /\ schedLv' = lv
    /\ schedClaims' = {c \in Claims : ClaimExists(c)}
    /\ UNCHANGED <<apiVars, nodeVars, agentVars, target>>
----------------------------------------------------------------------------
(* Agent: start, informers, the reconciler *)

OnNode(c, n) == pv[c].node = n

\* NewAgent registers the node if it has no LocalVolume; a failure is ignored.
\* Then the caches are listed, and every listed object of the node is an event.
Registered(n) ==
    IF lv[n].rv > 0 THEN lv ELSE [lv EXCEPT ![n] = [NoLocalVolume EXCEPT !.rv = 1]]

NewAgent(n) ==
    /\ agentPc[n] = "down"
    /\ \/ lv' = Registered(n) /\ UNCHANGED faults
       \/ lv[n].rv = 0 /\ Fault /\ UNCHANGED lv
    /\ agentPc' = [agentPc EXCEPT ![n] = "idle"]
    /\ agentLv' = [agentLv EXCEPT ![n] = lv'[n]]
    /\ agentPv' = [agentPv EXCEPT ![n] = pv]
    /\ pending' = [pending EXCEPT ![n] = lv'[n].rv > 0 \/ \E c \in Claims : OnNode(c, n)]
    /\ UNCHANGED <<pv, podNode, nodeVars, schedVars, work, lost>>

AgentCrash(n) ==
    /\ agentPc[n] # "down"
    /\ Fault
    /\ agentPc' = [agentPc EXCEPT ![n] = "down"]
    /\ pending' = [pending EXCEPT ![n] = FALSE]
    /\ work' = [work EXCEPT ![n] = NoLocalVolume]
    /\ UNCHANGED <<apiVars, nodeVars, schedVars, agentLv, agentPv, lost>>

\* Events of the node's LocalVolume enqueue its key.
AgentSyncLocalVolume(n) ==
    /\ agentPc[n] # "down"
    /\ agentLv[n] # lv[n]
    /\ agentLv' = [agentLv EXCEPT ![n] = lv[n]]
    /\ pending' = [pending EXCEPT ![n] = TRUE]
    /\ UNCHANGED <<apiVars, nodeVars, schedVars, agentPc, agentPv, work, lost, faults>>

\* Events of a PersistentVolume pass agentFilter on its own node only, where
\* they enqueue the node's key.  A deletion the watch missed arrives as a
\* tombstone, which agentFilter drops.
AgentSyncPersistentVolume(n, c) ==
    /\ agentPc[n] # "down"
    /\ agentPv[n][c] # pv[c]
    /\ agentPv' = [agentPv EXCEPT ![n][c] = pv[c]]
    /\ \/ /\ pending' = [pending EXCEPT ![n] = @ \/ OnNode(c, n)]
          /\ UNCHANGED <<lost, faults>>
       \/ /\ OnNode(c, n) /\ pv[c].phase = "Deleted" /\ Fault
          /\ lost' = [lost EXCEPT ![n] = TRUE]
          /\ UNCHANGED pending
    /\ UNCHANGED <<apiVars, nodeVars, schedVars, agentPc, agentLv, work>>

\* The informers replay their caches to the handlers every resync period.
Resync(n) ==
    /\ agentPc[n] = "idle" /\ ~pending[n]
    /\ agentLv[n].rv > 0
    /\ pending' = [pending EXCEPT ![n] = TRUE]
    /\ UNCHANGED <<apiVars, nodeVars, schedVars, agentPc, agentLv, agentPv, work, lost, faults>>

\* A worker takes the key and copies the cached object, if there is one.
Reconcile(n) ==
    /\ agentPc[n] = "idle" /\ pending[n]
    /\ pending' = [pending EXCEPT ![n] = FALSE]
    /\ IF agentLv[n].rv = 0
       THEN UNCHANGED <<agentPc, work>>
       ELSE /\ agentPc' = [agentPc EXCEPT ![n] = "copied"]
            /\ work' = [work EXCEPT ![n] = agentLv[n]]
    /\ UNCHANGED <<apiVars, nodeVars, schedVars, agentLv, agentPv, lost, faults>>

\* The keys of the claims whose PersistentVolumes the agent sees Bound here.
GetMyNodeBoundedPVCList(n) ==
    {c \in Claims : agentPv[n][c].node = n /\ agentPv[n][c].phase = "Bound"}

\* The status reconciler arrives at from its copy.
NewStatus(n) ==
    [work[n] EXCEPT !.total = ToStatus(VGSize[n]), !.free = ToStatus(vgFree[n]),
                    !.pre = @ \ GetMyNodeBoundedPVCList(n)]

\* The worker is done with its item.
AgentDone(n) ==
    /\ agentPc' = [agentPc EXCEPT ![n] = "idle"]
    /\ work' = [work EXCEPT ![n] = NoLocalVolume]

\* Mutant: a changed free size alone is not written.
ReconcilerForgetsFreeSize(n) ==
    /\ agentPc[n] = "copied"
    /\ IF NewStatus(n).total = work[n].total /\ NewStatus(n).pre = work[n].pre
       THEN AgentDone(n)
       ELSE /\ agentPc' = [agentPc EXCEPT ![n] = "changed"]
            /\ work' = [work EXCEPT ![n] = NewStatus(n)]
    /\ lost' = [lost EXCEPT ![n] = FALSE]
    /\ UNCHANGED <<apiVars, nodeVars, schedVars, pending, agentLv, agentPv, faults>>

\* reconciler looks at the volume group, and writes only what has changed.
Reconciler(n) ==
    /\ agentPc[n] = "copied"
    /\ IF NewStatus(n) = work[n]
       THEN AgentDone(n)
       ELSE /\ agentPc' = [agentPc EXCEPT ![n] = "changed"]
            /\ work' = [work EXCEPT ![n] = NewStatus(n)]
    /\ lost' = [lost EXCEPT ![n] = FALSE]
    /\ UNCHANGED <<apiVars, nodeVars, schedVars, pending, agentLv, agentPv, faults>>

\* GetVGInfo found nothing: reconciler returns nil and is not tried again.
ReconcilerNoVGInfo(n) ==
    /\ agentPc[n] = "copied"
    /\ Fault
    /\ AgentDone(n)
    /\ lost' = [lost EXCEPT ![n] = TRUE]
    /\ UNCHANGED <<apiVars, nodeVars, schedVars, pending, agentLv, agentPv>>

AgentUpdateStatus(n) ==
    /\ agentPc[n] = "changed"
    /\ ~Conflict(n, work[n])
    /\ lv' = Stored(n, work[n])
    /\ AgentDone(n)
    /\ UNCHANGED <<pv, podNode, nodeVars, schedVars, pending, agentLv, agentPv, lost, faults>>

\* Mutant: the error is swallowed and the key is not queued again.
AgentUpdateStatusErrorSwallowed(n) ==
    /\ agentPc[n] = "changed"
    /\ \/ Conflict(n, work[n]) /\ UNCHANGED faults
       \/ ~Conflict(n, work[n]) /\ Fault
    /\ AgentDone(n)
    /\ UNCHANGED <<apiVars, nodeVars, schedVars, pending, agentLv, agentPv, lost>>

\* An error is returned to the controller, which queues the key again.
AgentUpdateStatusError(n) ==
    /\ agentPc[n] = "changed"
    /\ \/ Conflict(n, work[n]) /\ UNCHANGED <<lv, faults>>
       \/ ~Conflict(n, work[n]) /\ Fault /\ UNCHANGED lv
       \/ ~Conflict(n, work[n]) /\ Fault /\ lv' = Stored(n, work[n])
    /\ AgentDone(n)
    /\ pending' = [pending EXCEPT ![n] = TRUE]
    /\ UNCHANGED <<pv, podNode, nodeVars, schedVars, agentLv, agentPv, lost>>
----------------------------------------------------------------------------
(* Provisioner, CSI driver and collector: what the agent sees of them *)

\* The provisioner calls CreateVolume for the node kube-scheduler selected and
\* creates a PersistentVolume that only that node can use.
CreateVolume(c, n) ==
    /\ pv[c].phase = "None"
    /\ \E p \in Pods : c \in PodClaims[p] /\ target[p] = n
    /\ pv' = [pv EXCEPT ![c] = [NoPersistentVolume EXCEPT
                  !.node = n, !.phase = "Bound", !.size = ClaimSize[c]]]
    /\ UNCHANGED <<lv, podNode, nodeVars, schedVars, agentVars, faults>>

\* The claim is expanded: the resizer writes the new capacity into the volume.
ControllerExpandVolume(c) ==
    /\ pv[c].phase = "Bound"
    /\ pv[c].size + GiB <= ClaimSize[c] + MaxGrowth
    /\ pv' = [pv EXCEPT ![c].size = @ + GiB]
    /\ UNCHANGED <<lv, podNode, nodeVars, schedVars, agentVars, faults>>

\* A pod with claim c runs on the node of c's volume.
InUse(c) == \E p \in Pods : c \in PodClaims[p] /\ podNode[p] = pv[c].node

\* NodePublishVolume makes the logical volume, if the volume group has room,
\* or enlarges the one it finds.
NodePublishCreate(c) ==
    LET n == pv[c].node  size == GetPvSize(pv[c].size) IN
    /\ pv[c].phase = "Bound" /\ InUse(c)
    /\ lvSize[c] = 0
    /\ size <= vgFree[n]
    /\ lvSize' = [lvSize EXCEPT ![c] = size]
    /\ vgFree' = [vgFree EXCEPT ![n] = @ - size]
    /\ UNCHANGED <<apiVars, schedVars, agentVars, faults>>

\* Mutant: the whole new size is taken from the volume group.
NodePublishResizeWhole(c) ==
    LET n == pv[c].node  size == GetPvSize(pv[c].size) IN
    /\ pv[c].phase = "Bound" /\ InUse(c)
    /\ SizeNumber(lvSize[c]) < SizeNumber(pv[c].size)
    /\ lvSize[c] \in 1 .. size - 1
    /\ size - lvSize[c] <= vgFree[n]
    /\ lvSize' = [lvSize EXCEPT ![c] = size]
    /\ vgFree' = [vgFree EXCEPT ![n] = @ - size]
    /\ lost' = [lost EXCEPT ![n] = TRUE]
    /\ UNCHANGED <<apiVars, schedVars, agentPc, pending, agentLv, agentPv, work, faults>>

NodePublishResize(c) ==
    LET n == pv[c].node  size == GetPvSize(pv[c].size) IN
    /\ pv[c].phase = "Bound" /\ InUse(c)
    /\ SizeNumber(lvSize[c]) < SizeNumber(pv[c].size)
    /\ lvSize[c] \in 1 .. size - 1
    /\ size - lvSize[c] <= vgFree[n]
    /\ lvSize' = [lvSize EXCEPT ![c] = size]
    /\ vgFree' = [vgFree EXCEPT ![n] = @ - (size - lvSize[c])]
    /\ lost' = [lost EXCEPT ![n] = TRUE]
    /\ UNCHANGED <<apiVars, schedVars, agentPc, pending, agentLv, agentPv, work, faults>>

\* NodePublishVolume ends by tagging the volume, which the agent sees, and by
\* adding the collector's finalizer; a volume with the tag is left as it is.
UpdatePVPublishSuccessTag(c) ==
    /\ pv[c].phase \in {"Bound", "Released"}
    /\ lvSize[c] > 0 /\ ~pv[c].tag
    /\ pv' = [pv EXCEPT ![c].tag = TRUE, ![c].fin = TRUE]
    /\ UNCHANGED <<lv, podNode, nodeVars, schedVars, agentVars, faults>>

\* The claim is deleted, after the pods that use it.
ReleaseVolume(c) ==
    /\ c \in Deletable
    /\ pv[c].phase = "Bound"
    /\ pv' = [pv EXCEPT ![c].phase = "Released"]
    /\ UNCHANGED <<lv, podNode, nodeVars, schedVars, agentVars, faults>>

\* The collector removes the logical volume of a released PersistentVolume
\* that has its finalizer, and then the finalizer.
GcDeleteVolume(c) ==
    LET n == pv[c].node IN
    /\ pv[c].phase = "Released" /\ pv[c].fin
    /\ lvSize[c] > 0
    /\ lvSize' = [lvSize EXCEPT ![c] = 0]
    /\ vgFree' = [vgFree EXCEPT ![n] = @ + lvSize[c]]
    /\ UNCHANGED <<apiVars, schedVars, agentVars, faults>>

GcRemoveFinalizer(c) ==
    /\ pv[c].phase = "Released" /\ pv[c].fin
    /\ lvSize[c] = 0
    /\ pv' = [pv EXCEPT ![c].fin = FALSE]
    /\ UNCHANGED <<lv, podNode, nodeVars, schedVars, agentVars, faults>>

\* The provisioner calls DeleteVolume, which does nothing, and deletes the
\* PersistentVolume; the object goes once it has no finalizer.
DeleteVolume(c) ==
    /\ pv[c].phase = "Released" /\ ~pv[c].fin
    /\ pv' = [pv EXCEPT ![c].phase = "Deleted"]
    /\ UNCHANGED <<lv, podNode, nodeVars, schedVars, agentVars, faults>>
----------------------------------------------------------------------------
(* Specification *)

SchedNext ==
    \/ \E p \in Pods :
          \/ \E n \in Nodes : PredicateHandler(p, n)
          \/ BindCopy(p) \/ BindLookupError(p)
          \/ BindUpdateStatus(p) \/ BindUpdateStatusError(p)
          \/ BindPod(p) \/ BindPodError(p)
    \/ \E n \in Nodes : SchedSyncLocalVolume(n)
    \/ \E c \in Claims : SchedSyncClaim(c)
    \/ SchedRestart

AgentSync(n) ==
    \/ AgentSyncLocalVolume(n)
    \/ \E c \in Claims : AgentSyncPersistentVolume(n, c)

AgentWorker(n) ==
    \/ Reconcile(n) \/ Reconciler(n) \/ ReconcilerNoVGInfo(n)
    \/ AgentUpdateStatus(n) \/ AgentUpdateStatusError(n)

AgentNext == \E n \in Nodes :
    NewAgent(n) \/ AgentCrash(n) \/ AgentSync(n) \/ Resync(n) \/ AgentWorker(n)

VolumeNext == \E c \in Claims :
    \/ \E n \in Nodes : CreateVolume(c, n)
    \/ ControllerExpandVolume(c) \/ ReleaseVolume(c) \/ DeleteVolume(c)
    \/ NodePublishCreate(c) \/ NodePublishResize(c) \/ UpdatePVPublishSuccessTag(c)
    \/ GcDeleteVolume(c) \/ GcRemoveFinalizer(c)

Next == SchedNext \/ AgentNext \/ VolumeNext

Spec == Init /\ [][Next]_vars

\* The agent is restarted when it exits, its informers and its workers run,
\* each in goroutines of its own, and the resync timer fires.  Nothing is
\* assumed of the extender, the driver and the users.
Fairness == \A n \in Nodes :
    /\ WF_vars(NewAgent(n)) /\ WF_vars(AgentSync(n))
    /\ WF_vars(Resync(n)) /\ WF_vars(AgentWorker(n))

FairSpec == Spec /\ Fairness
----------------------------------------------------------------------------
(* Properties *)

\* The API server: a status holds no keys but claims and the empty key, and a
\* volume that exists has a node.
ApiTypeOK ==
    /\ lv \in [Nodes -> LocalVolumeObject]
    /\ pv \in [Claims -> PersistentVolumeObject]
    /\ podNode \in [Pods -> Nodes \cup {None}]
    /\ \A c \in Claims : pv[c].phase # "None" => pv[c].node \in Nodes

\* The extender: a pod past predicate has a node.
SchedTypeOK ==
    /\ schedLv \in [Nodes -> LocalVolumeObject]
    /\ schedClaims \in SUBSET Claims
    /\ stage \in [Pods -> {"pending", "filtered", "copied", "updated", "bound"}]
    /\ target \in [Pods -> Nodes \cup {None}]
    /\ \A p \in Pods : stage[p] # "pending" => target[p] \in Nodes
    /\ copylv \in [Pods -> LocalVolumeObject]

\* The agents.
AgentTypeOK ==
    /\ agentPc \in [Nodes -> {"down", "idle", "copied", "changed"}]
    /\ pending \in [Nodes -> BOOLEAN]
    /\ agentLv \in [Nodes -> LocalVolumeObject]
    /\ agentPv \in [Nodes -> [Claims -> PersistentVolumeObject]]
    /\ work \in [Nodes -> LocalVolumeObject]
    /\ lost \in [Nodes -> BOOLEAN]

\* Every variable of the API server, the extender, the agents and the nodes
\* holds a value of its type; a logical volume never takes more space than its
\* volume group has.
TypeOK ==
    /\ ApiTypeOK /\ SchedTypeOK /\ AgentTypeOK
    /\ vgFree \in [Nodes -> Nat] /\ lvSize \in [Claims -> Nat]
    /\ faults \in 0 .. MaxFaults

\* The claims whose volume has been bound on n.
BoundOn(n) == {c \in Claims : pv[c].node = n}

\* Once bind has written its copy for p, every entry of that copy stays in the
\* node's LocalVolume, whatever the other binds and the agent write from their
\* own stale copies, until the volume of the claim it names is bound there;
\* and a pod is only ever bound to a node that has registered.
BoundPodsReserved ==
    \A p \in Pods : stage[p] \in {"updated", "bound"} =>
        /\ lv[target[p]].rv > 0
        /\ copylv[p].pre \subseteq lv[target[p]].pre \cup BoundOn(target[p])

\* The sizes in the node's LocalVolume are those of its volume group.
Fresh(n) == lv[n].total = ToStatus(VGSize[n]) /\ lv[n].free = ToStatus(vgFree[n])

\* The driver or the collector has changed the volume group and has yet to
\* change the PersistentVolume.
Unannounced(c) ==
    \/ lvSize[c] > 0 /\ ~pv[c].tag /\ pv[c].phase \in {"Bound", "Released"}
    \/ lvSize[c] = 0 /\ pv[c].fin /\ pv[c].phase = "Released"

\* Something is on its way that will make the agent look again.
WakeUp(n) ==
    \/ pending[n]
    \/ agentLv[n] # lv[n]
    \/ \E c \in Claims : pv[c].node = n /\ (agentPv[n][c] # pv[c] \/ Unannounced(c))

\* No missed wake-up: while a registered node's LocalVolume is out of date,
\* its agent is down or at work, or an event or a queued key will make it look
\* again, unless a resize, a failed vgs or a dropped tombstone has silenced it
\* since it last looked.
NoSilentStaleness ==
    \A n \in Nodes : lv[n].rv > 0 =>
        Fresh(n) \/ agentPc[n] # "idle" \/ WakeUp(n) \/ lost[n]

\* No lost update: a write takes from PreAllocated only claims whose volume is
\* bound on the node, and a write that adds to PreAllocated leaves the sizes
\* the agent wrote as they are.
NoLostStep ==
    \A n \in Nodes :
        /\ lv[n].pre \ lv'[n].pre \subseteq BoundOn(n)
        /\ ~(lv'[n].pre \subseteq lv[n].pre) =>
               lv'[n].free = lv[n].free /\ lv'[n].total = lv[n].total

\* Every step is free of lost updates, whoever takes it: bind and the agent both
\* write from copies of cached objects, and UpdateStatus refuses stale ones.
NoLostUpdate == [][NoLostStep]_vars

\* getNodeFreeSize never wraps: what the extender takes for free is never more
\* than the free size it has cached.
FreeSizeNeverWraps == \A n \in Nodes : GetNodeFreeSize(n) <= schedLv[n].free

\* Once crashes and failures stop, the LocalVolume of a registered node comes
\* to show its volume group and stays so: the resync makes good every wake-up
\* that was lost.
FreeSizeConverges == \A n \in Nodes : <>[](lv[n].rv > 0 => Fresh(n))

\* What the comment on the last step of NodePublishVolume says: the tag on the
\* PersistentVolume informs the agent, which updates the free size.  While
\* nothing fails, an out-of-date LocalVolume has a wake-up on its way.
PublishInformsAgent ==
    \A n \in Nodes : faults = 0 /\ lv[n].rv > 0 =>
        Fresh(n) \/ agentPc[n] # "idle" \/ WakeUp(n)

\* What step 3 of reconciler, "update preallocated info", is there for: when
\* the volumes of a bound pod are bound, the entry bind made for it goes.
PreAllocatedCleared ==
    \A p \in Pods, n \in Nodes :
        LET volumesBound == \A c \in PodClaims[p] : OnNode(c, n) /\ pv[c].phase = "Bound"
        IN  (stage[p] = "bound" /\ target[p] = n /\ volumesBound)
                ~> (lv[n].pre \cap copylv[p].pre = {} \/ ~volumesBound)
=============================================================================
