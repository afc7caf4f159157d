---------------------------- MODULE NodeVolume ----------------------------
(***************************************************************************)
(* The logical volumes of one node: NodePublishVolume and                  *)
(* NodeUnpublishVolume of the CSI driver (pkg/driver), called by kubelet,  *)
(* against the collector (pkg/agent), which removes the logical volumes of *)
(* released PersistentVolumes.                                             *)
(*                                                                         *)
(* A publish is a chain of commands: make the logical volume, look for a   *)
(* file system, mkfs, mount, lvextend, grow the file system, patch the     *)
(* PersistentVolume.  Every command and every API call is a step, and the  *)
(* driver, the collector or the node may go down between any two of them.  *)
(* The handlers ignore their context: a call kubelet has given up runs on. *)
(*                                                                         *)
(* Sizes are whole numbers of one unit; what the code makes of the units   *)
(* lvdisplay prints is the subject of module Sizes.                        *)
(***************************************************************************)
EXTENDS Integers, FiniteSets

CONSTANTS
    Volumes,     \* PersistentVolumes of this node
    Pods,        \* the pods that use a volume, each with a target path of its own
    Calls,       \* the calls about one volume the driver may have in progress
    LvmType,     \* LvmType[v]: the parameter "lvmType" of v's storage class
    Retained,    \* the volumes whose reclaim policy is not Delete
    NoPod,       \* the pod of a call slot that is free
    MaxSize,     \* bound on the size of a volume
    MaxFaults,   \* bound on crashes, failed or slow commands and failed API calls
    ForceDelete  \* claims are deleted under pods that still run here

ASSUME SetsAssumption ==
    /\ Retained \subseteq Volumes
    /\ LvmType \in [Volumes -> STRING]
    /\ NoPod \notin Pods
ASSUME BoundsAssumption ==
    MaxSize \in Nat \ {0} /\ MaxFaults \in Nat /\ ForceDelete \in BOOLEAN

VARIABLES
    pv,         \* API server: the PersistentVolumes
    lv,         \* node: size of the logical volume (0: none)
    fs,         \* node: size of the file system on it (0: none)
    data,       \* node: a pod has written to that file system
    mounted,    \* node: the pods on whose target path it is mounted
    pod,        \* kubelet: what it is doing about a pod's volume
    awaited,    \* kubelet: the call about a volume it waits for
    call,       \* driver: the calls in progress
    gcPv,       \* collector: cached PersistentVolumes
    gcPending,  \* collector: the volumes whose key is queued
    gcPc,       \* collector: where the worker that has the key is
    gcCopy,     \* collector: the copy that worker has
    faults      \* number of faults so far

nodeVars == <<lv, fs, data, mounted>>
podVars  == <<pod, awaited>>
gcVars   == <<gcPv, gcPending, gcPc, gcCopy>>
vars     == <<pv, nodeVars, podVars, call, gcVars, faults>>

PersistentVolumeObject ==
    [phase : {"Bound", "Released", "Deleted"}, size : 1 .. MaxSize,
     tag : BOOLEAN, fin : BOOLEAN, deleting : BOOLEAN]

NewPersistentVolume ==
    [phase |-> "Bound", size |-> 1, tag |-> FALSE, fin |-> FALSE, deleting |-> FALSE]

\* A free slot; a call holds the local variables of NodePublishVolume: isMnt,
\* volumeNewCreated and the size getPvSize returned.
NoCall == [pc |-> "idle", pod |-> NoPod, new |-> FALSE, isMnt |-> FALSE, size |-> 0]

NoCallAwaited == <<>>

Init ==
    /\ pv = [v \in Volumes |-> NewPersistentVolume]
    /\ lv = [v \in Volumes |-> 0]
    /\ fs = [v \in Volumes |-> 0]
    /\ data = [v \in Volumes |-> FALSE]
    /\ mounted = [v \in Volumes |-> {}]
    /\ pod = [v \in Volumes |-> [q \in Pods |-> "none"]]
    /\ awaited = [v \in Volumes |-> NoCallAwaited]
    /\ call = [v \in Volumes |-> [k \in Calls |-> NoCall]]
    /\ gcPv = pv
    /\ gcPending = [v \in Volumes |-> FALSE]
    /\ gcPc = [v \in Volumes |-> "idle"]
    /\ gcCopy = pv
    /\ faults = 0

Fault == faults < MaxFaults /\ faults' = faults + 1
----------------------------------------------------------------------------
(* Kubelet *)

StartPod(v, q) ==
    /\ pod[v][q] = "none" /\ pv[v].phase = "Bound"
    /\ pod' = [pod EXCEPT ![v][q] = "waiting"]
    /\ UNCHANGED <<pv, nodeVars, awaited, call, gcVars, faults>>

\* The pod is deleted: kubelet unpublishes its volume before it lets it go.
EndPod(v, q) ==
    /\ pod[v][q] \in {"waiting", "running"}
    /\ pod' = [pod EXCEPT ![v][q] = "ending"]
    /\ UNCHANGED <<pv, nodeVars, awaited, call, gcVars, faults>>

\* Kubelet has one operation on a volume at a time, and repeats it until it
\* succeeds.
Request(v, k, q, pc) ==
    /\ awaited[v] = NoCallAwaited /\ call[v][k] = NoCall
    /\ awaited' = [awaited EXCEPT ![v] = <<k>>]
    /\ call' = [call EXCEPT ![v][k] = [NoCall EXCEPT !.pc = pc, !.pod = q]]
    /\ UNCHANGED <<pv, nodeVars, pod, gcVars, faults>>

RequestPublish(v, k, q) == pod[v][q] = "waiting" /\ Request(v, k, q, "stat")

RequestUnpublish(v, k, q) == pod[v][q] = "ending" /\ Request(v, k, q, "isMounted2")

\* A command takes long and kubelet's deadline passes; the handler runs on.
Timeout(v) ==
    /\ awaited[v] # NoCallAwaited
    /\ Fault
    /\ awaited' = [awaited EXCEPT ![v] = NoCallAwaited]
    /\ UNCHANGED <<pv, nodeVars, pod, call, gcVars>>

\* A call ends; if kubelet waits for it, a success moves the pod on.
Return(v, k, ok) ==
    LET q == call[v][k].pod IN
    /\ call' = [call EXCEPT ![v][k] = NoCall]
    /\ awaited' = [awaited EXCEPT ![v] = IF @ = <<k>> THEN NoCallAwaited ELSE @]
    /\ pod' = [pod EXCEPT ![v][q] =
                  CASE ok /\ awaited[v] = <<k>> /\ @ = "waiting" -> "running"
                    [] ok /\ awaited[v] = <<k>> /\ @ = "ending"
                          /\ call[v][k].pc \in {"isMounted2", "unmount"} -> "none"
                    [] OTHER -> @]

ReturnError(v, k) == Return(v, k, FALSE)

Write(v) ==
    /\ \E q \in mounted[v] : pod[v][q] = "running"
    /\ data' = [data EXCEPT ![v] = TRUE]
    /\ UNCHANGED <<pv, lv, fs, mounted, podVars, call, gcVars, faults>>
----------------------------------------------------------------------------
(* NodePublishVolume *)

\* The call goes on to pc, its local variables unchanged.
Goto(v, k, pc) == call' = [call EXCEPT ![v][k].pc = pc]

At(v, k, pc) == call[v][k].pc = pc

\* Whatever command or API call is next fails and changes nothing; the handler
\* returns its error.
CommandError(v, k) ==
    /\ ~At(v, k, "idle")
    /\ Fault
    /\ ReturnError(v, k)
    /\ UNCHANGED <<pv, nodeVars, gcVars>>

\* Mutant: the volume is always created.
StatNever(v, k) ==
    /\ At(v, k, "stat")
    /\ call' = [call EXCEPT ![v][k].new = TRUE, ![v][k].pc = "create"]
    /\ UNCHANGED <<pv, nodeVars, podVars, gcVars, faults>>

\* os.Stat of the device.
Stat(v, k) ==
    /\ At(v, k, "stat")
    /\ call' = [call EXCEPT ![v][k].new = (lv[v] = 0),
                            ![v][k].pc = IF lv[v] = 0 THEN "create" ELSE "isMounted"]
    /\ UNCHANGED <<pv, nodeVars, podVars, gcVars, faults>>

\* Mutant: a started unit is added once more.
PvSizeRoundedUp(v, k, then) ==
    /\ call' = [call EXCEPT ![v][k].pc = then, ![v][k].size = pv[v].size + 1]
    /\ UNCHANGED <<pv, nodeVars, podVars, gcVars, faults>>

\* getPvSize: 0 when the PersistentVolume cannot be had.
PvSize(v, k, then) ==
    /\ \/ /\ call' = [call EXCEPT ![v][k].pc = then,
                      ![v][k].size = IF pv[v].phase = "Deleted" THEN 0 ELSE pv[v].size]
          /\ UNCHANGED faults
       \/ Fault /\ call' = [call EXCEPT ![v][k].pc = then, ![v][k].size = 0]
    /\ UNCHANGED <<pv, nodeVars, podVars, gcVars>>

CreateGetPvSize(v, k) == At(v, k, "create") /\ PvSize(v, k, "lvcreate")

\* lvcreate refuses a name that exists and a size of 0; a type that is neither
\* linear nor striping makes no logical volume and is no error.
CreateVolume(v, k) ==
    /\ At(v, k, "lvcreate")
    /\ IF LvmType[v] \in {"linear", "striping"} /\ (lv[v] > 0 \/ call[v][k].size = 0)
       THEN ReturnError(v, k) /\ UNCHANGED lv
       ELSE /\ lv' = IF LvmType[v] \in {"linear", "striping"}
                     THEN [lv EXCEPT ![v] = call[v][k].size] ELSE lv
            /\ Goto(v, k, "isMounted")
            /\ UNCHANGED podVars
    /\ UNCHANGED <<pv, fs, data, mounted, gcVars, faults>>

\* The mounter's IsMounted, Mount and Unmount.  IsMounted looks for the path as a
\* piece of any line of /proc/mounts; kubelet's paths hold the pod's UID, so that
\* none is a piece of another.  The kernel refuses to mount a device twice on one
\* path, and umount fails on a path where nothing is mounted.
TargetIsMounted(v, q) == q \in mounted[v]

MountTarget(v, q) == mounted' = [mounted EXCEPT ![v] = @ \cup {q}]

UnmountTarget(v, q) == mounted' = [mounted EXCEPT ![v] = @ \ {q}]

IsMounted(v, k) ==
    /\ At(v, k, "isMounted")
    /\ call' = [call EXCEPT ![v][k].isMnt = TargetIsMounted(v, call[v][k].pod),
                            ![v][k].pc = "checkFSType"]
    /\ UNCHANGED <<pv, nodeVars, podVars, gcVars, faults>>

AfterFormat(v, k) == IF call[v][k].isMnt THEN "mounted" ELSE "mount"

\* Mutant: a failed look counts as no file system.
CheckFSTypeOrFormat(v, k) ==
    /\ At(v, k, "checkFSType")
    /\ \/ Goto(v, k, IF fs[v] = 0 THEN "format" ELSE AfterFormat(v, k)) /\ UNCHANGED faults
       \/ Fault /\ Goto(v, k, "format")
    /\ UNCHANGED <<pv, nodeVars, podVars, gcVars>>

\* checkFSType fails without a device, and finds no type on a blank one.
CheckFSType(v, k) ==
    /\ At(v, k, "checkFSType")
    /\ IF lv[v] = 0
       THEN ReturnError(v, k)
       ELSE /\ Goto(v, k, IF fs[v] = 0 THEN "format" ELSE AfterFormat(v, k))
            /\ UNCHANGED podVars
    /\ UNCHANGED <<pv, nodeVars, gcVars, faults>>

\* mkfs refuses a mounted device, and needs one.
FormatDevice(v, k) ==
    /\ At(v, k, "format")
    /\ IF lv[v] = 0 \/ mounted[v] # {}
       THEN ReturnError(v, k) /\ UNCHANGED <<fs, data>>
       ELSE /\ fs' = [fs EXCEPT ![v] = lv[v]]
            /\ data' = [data EXCEPT ![v] = FALSE]
            /\ Goto(v, k, AfterFormat(v, k))
            /\ UNCHANGED podVars
    /\ UNCHANGED <<pv, lv, mounted, gcVars, faults>>

\* resizeVolume follows unless this call made the volume.
AfterMount(v, k) == IF call[v][k].new THEN "getPv" ELSE "resize"

\* Mount needs a file system on the device.
Mount(v, k) ==
    LET q == call[v][k].pod IN
    /\ At(v, k, "mount")
    /\ IF fs[v] = 0 \/ TargetIsMounted(v, q)
       THEN ReturnError(v, k) /\ UNCHANGED mounted
       ELSE /\ MountTarget(v, q)
            /\ Goto(v, k, AfterMount(v, k))
            /\ UNCHANGED podVars
    /\ UNCHANGED <<pv, lv, fs, data, gcVars, faults>>

AlreadyMounted(v, k) ==
    /\ At(v, k, "mounted")
    /\ Goto(v, k, AfterMount(v, k))
    /\ UNCHANGED <<pv, nodeVars, podVars, gcVars, faults>>

ResizeGetPvSize(v, k) == At(v, k, "resize") /\ PvSize(v, k, "lvextend")

\* resizeVolume up to lvextend: nothing to do for a volume of at least the
\* wanted size.
ResizeVolume(v, k) ==
    /\ At(v, k, "lvextend")
    /\ IF lv[v] = 0
       THEN ReturnError(v, k) /\ UNCHANGED lv
       ELSE /\ lv' = IF lv[v] >= call[v][k].size THEN lv
                     ELSE [lv EXCEPT ![v] = call[v][k].size]
            /\ Goto(v, k, IF lv[v] >= call[v][k].size THEN "getPv" ELSE "resizefs")
            /\ UNCHANGED podVars
    /\ UNCHANGED <<pv, fs, data, mounted, gcVars, faults>>

\* Mutant: the file system is left as it is.
ResizeFsForgotten(v, k) ==
    /\ At(v, k, "resizefs")
    /\ Goto(v, k, "getPv")
    /\ UNCHANGED <<pv, nodeVars, podVars, gcVars, faults>>

\* The resizer grows the file system to the size of its device.
ResizeFs(v, k) ==
    /\ At(v, k, "resizefs")
    /\ IF fs[v] = 0 THEN ReturnError(v, k) /\ UNCHANGED fs
       ELSE /\ fs' = [fs EXCEPT ![v] = lv[v]]
            /\ Goto(v, k, "getPv")
            /\ UNCHANGED podVars
    /\ UNCHANGED <<pv, lv, data, mounted, gcVars, faults>>

\* updatePVPublishSuccessTag: a tagged volume is left alone ...
GetPv(v, k) ==
    /\ At(v, k, "getPv")
    /\ IF pv[v].phase = "Deleted" \/ pv[v].tag
       THEN Return(v, k, pv[v].phase # "Deleted")
       ELSE Goto(v, k, "patch") /\ UNCHANGED podVars
    /\ UNCHANGED <<pv, nodeVars, gcVars, faults>>

\* Mutant: the finalizer is forgotten.
PatchPvTagOnly(v, k) ==
    /\ At(v, k, "patch")
    /\ IF pv[v].phase = "Deleted"
       THEN ReturnError(v, k) /\ UNCHANGED pv
       ELSE /\ pv' = [pv EXCEPT ![v].tag = TRUE]
            /\ Return(v, k, TRUE)
    /\ UNCHANGED <<nodeVars, gcVars, faults>>

\* ... and another is patched, whatever has become of it since.
PatchPv(v, k) ==
    /\ At(v, k, "patch")
    /\ IF pv[v].phase = "Deleted"
       THEN ReturnError(v, k) /\ UNCHANGED pv
       ELSE /\ pv' = [pv EXCEPT ![v].tag = TRUE, ![v].fin = TRUE]
            /\ Return(v, k, TRUE)
    /\ UNCHANGED <<nodeVars, gcVars, faults>>
----------------------------------------------------------------------------
(* NodeUnpublishVolume *)

UnpublishIsMounted(v, k) ==
    /\ At(v, k, "isMounted2")
    /\ IF TargetIsMounted(v, call[v][k].pod)
       THEN Goto(v, k, "unmount") /\ UNCHANGED podVars
       ELSE Return(v, k, TRUE)
    /\ UNCHANGED <<pv, nodeVars, gcVars, faults>>

Unmount(v, k) ==
    LET q == call[v][k].pod IN
    /\ At(v, k, "unmount")
    /\ UnmountTarget(v, q)
    /\ Return(v, k, TargetIsMounted(v, q))
    /\ UNCHANGED <<pv, lv, fs, data, gcVars, faults>>
----------------------------------------------------------------------------
(* Users, the resizer and the provisioner *)

ControllerExpandVolume(v) ==
    /\ pv[v].phase = "Bound" /\ pv[v].size < MaxSize
    /\ pv' = [pv EXCEPT ![v].size = @ + 1]
    /\ UNCHANGED <<nodeVars, podVars, call, gcVars, faults>>

\* The claim goes when no pod uses it, unless pods are deleted by force.
ReleaseVolume(v) ==
    /\ pv[v].phase = "Bound"
    /\ ForceDelete \/ \A q \in Pods : pod[v][q] = "none"
    /\ pv' = [pv EXCEPT ![v].phase = "Released"]
    /\ UNCHANGED <<nodeVars, podVars, call, gcVars, faults>>

\* A PersistentVolume that is being deleted goes with its last finalizer.
Finalized(p) == IF p.deleting /\ ~p.fin THEN [p EXCEPT !.phase = "Deleted"] ELSE p

\* DeleteVolume of the driver does nothing; the provisioner deletes the object.
DeleteVolume(v) ==
    /\ pv[v].phase = "Released" /\ v \notin Retained /\ ~pv[v].deleting
    /\ pv' = [pv EXCEPT ![v] = Finalized([@ EXCEPT !.deleting = TRUE])]
    /\ UNCHANGED <<nodeVars, podVars, call, gcVars, faults>>
----------------------------------------------------------------------------
(* The collector *)

\* An event of a volume of this node enqueues its key.
GcSync(v) ==
    /\ gcPv[v] # pv[v]
    /\ gcPv' = [gcPv EXCEPT ![v] = pv[v]]
    /\ gcPending' = [gcPending EXCEPT ![v] = TRUE]
    /\ UNCHANGED <<pv, nodeVars, podVars, call, gcPc, gcCopy, faults>>

\* Mutant: a resync period of 0.
GcResyncNever(v) == v \notin Volumes /\ UNCHANGED vars

GcResync(v) ==
    /\ gcPv[v].phase # "Deleted" /\ ~gcPending[v]
    /\ gcPending' = [gcPending EXCEPT ![v] = TRUE]
    /\ UNCHANGED <<pv, nodeVars, podVars, call, gcPv, gcPc, gcCopy, faults>>

\* Mutant: the phase does not matter.
CollectAnyPhase(v) == gcPv[v].fin /\ v \notin Retained

\* Mutant: the finalizer does not matter.
CollectUnmarked(v) == gcPv[v].phase = "Released" /\ v \notin Retained

\* The volumes the reconciler acts on.
Collectable(v) == gcPv[v].phase = "Released" /\ v \notin Retained /\ gcPv[v].fin

\* A worker takes the key and copies the cached object.
GcReconcile(v) ==
    /\ gcPc[v] = "idle" /\ gcPending[v]
    /\ gcPending' = [gcPending EXCEPT ![v] = FALSE]
    /\ IF Collectable(v)
       THEN /\ gcPc' = [gcPc EXCEPT ![v] = "lvremove"]
            /\ gcCopy' = [gcCopy EXCEPT ![v] = gcPv[v]]
       ELSE UNCHANGED <<gcPc, gcCopy>>
    /\ UNCHANGED <<pv, nodeVars, podVars, call, gcPv, faults>>

RemoveLv(v) ==
    /\ lv' = [lv EXCEPT ![v] = 0]
    /\ fs' = [fs EXCEPT ![v] = 0]
    /\ data' = [data EXCEPT ![v] = FALSE]
    /\ UNCHANGED mounted

\* Mutant: the finalizer goes although lvremove failed.
GcDeleteVolumeRegardless(v) ==
    /\ gcPc[v] = "lvremove"
    /\ gcPc' = [gcPc EXCEPT ![v] = "update"]
    /\ \/ mounted[v] = {} /\ RemoveLv(v) /\ UNCHANGED faults
       \/ mounted[v] # {} /\ UNCHANGED <<nodeVars, faults>>
       \/ Fault /\ UNCHANGED nodeVars
    /\ UNCHANGED <<pv, podVars, call, gcPv, gcPending, gcCopy>>

\* deleteVolume: a volume that is not there counts as removed; lvremove refuses
\* a mounted one.  reconciler ignores the error and is done.
GcDeleteVolume(v) ==
    /\ gcPc[v] = "lvremove"
    /\ \/ /\ mounted[v] = {} /\ RemoveLv(v)
          /\ gcPc' = [gcPc EXCEPT ![v] = "update"] /\ UNCHANGED faults
       \/ /\ mounted[v] # {} /\ gcPc' = [gcPc EXCEPT ![v] = "idle"]
          /\ UNCHANGED <<nodeVars, faults>>
       \/ Fault /\ gcPc' = [gcPc EXCEPT ![v] = "idle"] /\ UNCHANGED nodeVars
    /\ UNCHANGED <<pv, podVars, call, gcPv, gcPending, gcCopy>>

\* The API server refuses an object that was not made from the current one;
\* the states of a PersistentVolume never recur, so they stand for versions.
UpdateRefused(v) == gcCopy[v] # pv[v] \/ pv[v].phase = "Deleted"

\* Update without the finalizer; an error queues the key again.
GcUpdate(v) ==
    /\ gcPc[v] = "update"
    /\ gcPc' = [gcPc EXCEPT ![v] = "idle"]
    /\ \/ /\ ~UpdateRefused(v)
          /\ pv' = [pv EXCEPT ![v] = Finalized([@ EXCEPT !.fin = FALSE])]
          /\ UNCHANGED <<gcPending, faults>>
       \/ /\ UpdateRefused(v) /\ gcPending' = [gcPending EXCEPT ![v] = TRUE]
          /\ UNCHANGED <<pv, faults>>
       \/ /\ Fault /\ gcPending' = [gcPending EXCEPT ![v] = TRUE]
          /\ UNCHANGED pv
    /\ UNCHANGED <<nodeVars, podVars, call, gcPv, gcCopy>>
----------------------------------------------------------------------------
(* Crashes *)

\* The driver goes down with its calls, which fail.
DriverStops ==
    /\ call' = [v \in Volumes |-> [k \in Calls |-> NoCall]]
    /\ awaited' = [v \in Volumes |-> NoCallAwaited]

DriverCrash == Fault /\ DriverStops /\ UNCHANGED <<pv, nodeVars, pod, gcVars>>

\* The collector comes back with a new cache, and every volume listed is an
\* event.
CollectorStarts ==
    /\ gcPv' = pv
    /\ gcPending' = [v \in Volumes |-> pv[v].phase # "Deleted"]
    /\ gcPc' = [v \in Volumes |-> "idle"]
    /\ UNCHANGED gcCopy

CollectorCrash == Fault /\ CollectorStarts /\ UNCHANGED <<pv, nodeVars, podVars, call>>

\* A reboot also takes the mounts, and kubelet publishes anew.
Reboot ==
    /\ Fault
    /\ DriverStops /\ CollectorStarts
    /\ mounted' = [v \in Volumes |-> {}]
    /\ pod' = [v \in Volumes |-> [q \in Pods |->
                  IF pod[v][q] = "running" THEN "waiting" ELSE pod[v][q]]]
    /\ UNCHANGED <<pv, lv, fs, data>>
----------------------------------------------------------------------------
(* Specification *)

Kubelet(v) ==
    \/ \E q \in Pods : StartPod(v, q) \/ EndPod(v, q)
    \/ \E q \in Pods, k \in Calls : RequestPublish(v, k, q) \/ RequestUnpublish(v, k, q)
    \/ Timeout(v) \/ Write(v)

Handler(v, k) ==
    \/ Stat(v, k) \/ CreateGetPvSize(v, k) \/ CreateVolume(v, k) \/ IsMounted(v, k)
    \/ CheckFSType(v, k) \/ FormatDevice(v, k) \/ Mount(v, k) \/ AlreadyMounted(v, k)
    \/ ResizeGetPvSize(v, k) \/ ResizeVolume(v, k) \/ ResizeFs(v, k)
    \/ GetPv(v, k) \/ PatchPv(v, k)
    \/ UnpublishIsMounted(v, k) \/ Unmount(v, k)

Collector(v) == GcReconcile(v) \/ GcDeleteVolume(v) \/ GcUpdate(v)

Next ==
    \/ \E v \in Volumes :
          \/ Kubelet(v)
          \/ \E k \in Calls : Handler(v, k) \/ CommandError(v, k)
          \/ ControllerExpandVolume(v) \/ ReleaseVolume(v) \/ DeleteVolume(v)
          \/ GcSync(v) \/ GcResync(v) \/ Collector(v)
    \/ DriverCrash \/ CollectorCrash \/ Reboot

Spec == Init /\ [][Next]_vars

\* Kubelet repeats a call until it succeeds, the commands of a handler end, the
\* collector's informer, resync timer and workers run, and the provisioner
\* repeats its deletion.  Nothing is assumed of users.
Fairness == \A v \in Volumes :
    /\ \A q \in Pods :
          /\ WF_vars(\E k \in Calls : RequestPublish(v, k, q))
          /\ WF_vars(\E k \in Calls : RequestUnpublish(v, k, q))
    /\ \A k \in Calls : WF_vars(Handler(v, k))
    /\ WF_vars(DeleteVolume(v))
    /\ WF_vars(GcSync(v)) /\ WF_vars(GcResync(v)) /\ WF_vars(Collector(v))

FairSpec == Spec /\ Fairness
----------------------------------------------------------------------------
(* Properties *)

Steps == {"stat", "create", "lvcreate", "isMounted", "checkFSType", "format",
          "mounted", "mount", "resize", "lvextend", "resizefs", "getPv", "patch",
          "isMounted2", "unmount"}

Call == [pc : Steps \cup {"idle"}, pod : Pods \cup {NoPod}, new : BOOLEAN,
         isMnt : BOOLEAN, size : 0 .. MaxSize]

\* Every variable holds a value of its type, and a busy slot has a pod.
TypeOK ==
    /\ pv \in [Volumes -> PersistentVolumeObject]
    /\ lv \in [Volumes -> 0 .. MaxSize] /\ fs \in [Volumes -> 0 .. MaxSize]
    /\ data \in [Volumes -> BOOLEAN]
    /\ mounted \in [Volumes -> SUBSET Pods]
    /\ pod \in [Volumes -> [Pods -> {"none", "waiting", "running", "ending"}]]
    /\ awaited \in [Volumes -> {NoCallAwaited} \cup {<<k>> : k \in Calls}]
    /\ call \in [Volumes -> [Calls -> Call]]
    /\ \A v \in Volumes, k \in Calls : call[v][k].pc # "idle" => call[v][k].pod \in Pods
    /\ gcPv \in [Volumes -> PersistentVolumeObject]
    /\ gcPending \in [Volumes -> BOOLEAN]
    /\ gcPc \in [Volumes -> {"idle", "lvremove", "update"}]
    /\ gcCopy \in [Volumes -> PersistentVolumeObject]
    /\ faults \in 0 .. MaxFaults

\* What NodePublishVolume logs before it formats, "The device has no
\* filesystem, starting format": no call is about to format a device that has
\* a file system.
FormatsBlankDevice ==
    \A v \in Volumes, k \in Calls : At(v, k, "format") => fs[v] = 0

\* What pods have written stays until the volume is released, whoever crashes
\* or retries: no mkfs over it, and no lvremove from a stale cache.
DataKeptStep ==
    \A v \in Volumes : data[v] /\ ~data'[v] => pv[v].phase # "Bound"

DataKept == [][DataKeptStep]_vars

\* The finalizer works: when a tagged PersistentVolume is gone, so is its
\* logical volume, although the driver may crash anywhere in a publish and the
\* collector between lvremove and the update.
TaggedNotLeaked ==
    \A v \in Volumes : pv[v].phase = "Deleted" /\ pv[v].tag => lv[v] = 0

\* While nothing fails, no logical volume outlives its PersistentVolume, tagged
\* or not.
NothingLeaked ==
    \A v \in Volumes : pv[v].phase = "Deleted" /\ faults = 0 => lv[v] = 0

\* What resizeVolume says it does, "use resizer to expand volume filesystem":
\* when a publish succeeds and the pod starts, the file system fills its device.
\* This is so while nothing fails: after a crash between lvextend and the resizer
\* the next publish finds the device large enough and leaves the file system.
FilesystemGrownStep ==
    \A v \in Volumes, q \in Pods :
        pod[v][q] = "waiting" /\ pod'[v][q] = "running" /\ faults = 0 => fs'[v] = lv'[v]

FilesystemGrown == [][FilesystemGrownStep]_vars

\* A released volume with the finalizer is collected in the end, and its
\* PersistentVolume goes, though reconciler forgets a failed lvremove.
Collected ==
    \A v \in Volumes \ Retained :
        (pv[v].phase = "Released" /\ pv[v].fin) ~> (pv[v].phase = "Deleted" /\ lv[v] = 0)

\* A pod that waits for its volume gets it, or is deleted first, whatever a
\* failed or interrupted publish has left behind; unless another pod of the
\* volume ends, for kubelet has one operation on a volume at a time and nothing
\* here says whose turn is next.
PodStarts ==
    \A v \in Volumes, q \in Pods :
        pod[v][q] = "waiting" ~> pod[v][q] # "waiting" \/ \E o \in Pods \ {q} : pod[v][o] = "ending"

\* The driver and the collector keep the promises of VolumeLifecycle.
Lifecycle ==
    INSTANCE VolumeLifecycle WITH
        phase <- [v \in Volumes |-> pv[v].phase],
        tag   <- [v \in Volumes |-> pv[v].tag],
        fin   <- [v \in Volumes |-> pv[v].fin]

\* Over all commands, retries, crashes and stale caches, a logical volume is made,
\* marked, released, removed and forgotten in that order: no publish makes a
\* marked one again, no collector takes one that is bound or not marked, and the
\* finalizer outlives it.
KeepsLifecycle == Lifecycle!Spec
=============================================================================
