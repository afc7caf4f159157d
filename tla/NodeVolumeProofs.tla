-------------------------- MODULE NodeVolumeProofs --------------------------
(***************************************************************************)
(* Proofs about NodeVolume, for any number of volumes and pods and any     *)
(* faults.  What needs more says so: that the driver has one call about a  *)
(* volume at a time (OneCall), or that no claim is deleted under a pod     *)
(* that still runs (~ForceDelete).                                         *)
(***************************************************************************)
EXTENDS NodeVolume, TLAPS

\* The parts of the state by their types.  A call never loses its pod.
CallInv ==
    /\ call \in [Volumes -> [Calls -> Call]]
    /\ \A v \in Volumes, k \in Calls : call[v][k].pc # "idle" => call[v][k].pod \in Pods

PvInv ==
    /\ pv \in [Volumes -> PersistentVolumeObject] /\ gcPv \in [Volumes -> PersistentVolumeObject]
    /\ gcPc \in [Volumes -> {"idle", "lvremove", "update"}]
    /\ gcPending \in [Volumes -> BOOLEAN] /\ gcCopy \in [Volumes -> PersistentVolumeObject]

NodeType ==
    /\ lv \in [Volumes -> 0 .. MaxSize] /\ fs \in [Volumes -> 0 .. MaxSize]
    /\ data \in [Volumes -> BOOLEAN]
    /\ mounted \in [Volumes -> SUBSET Pods]

PodType == pod \in [Volumes -> [Pods -> {"none", "waiting", "running", "ending"}]]
----------------------------------------------------------------------------
(* Calls *)

\* Only the call (v, k) takes a step.
OthersStay(v, k) ==
    \A w \in Volumes, j \in Calls : w # v \/ j # k => call'[w][j] = call[w][j]

LEMMA Bounds == MaxSize \in Nat /\ 0 \in 0 .. MaxSize /\ 1 \in 1 .. MaxSize /\ MaxFaults \in Nat
  BY BoundsAssumption DEF BoundsAssumption

LEMMA NoCallFacts == NoCall \in Call /\ NoCall.pc = "idle" /\ "idle" \notin Steps
  BY Bounds DEF NoCall, Call, Steps

LEMMA UpdateCall ==
    ASSUME CallInv, NEW v \in Volumes, NEW k \in Calls, NEW c \in Call,
           c.pc # "idle" => c.pod \in Pods,
           call' = [call EXCEPT ![v][k] = c]
    PROVE  CallInv' /\ OthersStay(v, k) /\ call'[v][k] = c
  BY DEF CallInv, OthersStay

LEMMA GotoFacts ==
    ASSUME CallInv, NEW v \in Volumes, NEW k \in Calls, NEW pc \in Steps,
           call[v][k].pc # "idle", Goto(v, k, pc)
    PROVE  /\ CallInv' /\ OthersStay(v, k)
           /\ call'[v][k].pc = pc /\ call'[v][k].pod = call[v][k].pod
           /\ call'[v][k].isMnt = call[v][k].isMnt
<1> DEFINE c == [call[v][k] EXCEPT !.pc = pc]
<1>1. call[v][k] \in Call /\ call[v][k].pod \in Pods
  BY DEF CallInv
<1>2. c \in Call /\ c.pc = pc /\ c.pod = call[v][k].pod /\ c.isMnt = call[v][k].isMnt
  BY <1>1 DEF Call
<1>3. call' = [call EXCEPT ![v][k] = c]
  BY DEF Goto
<1> HIDE DEF c
<1>4. c \in Call /\ (c.pc # "idle" => c.pod \in Pods)
  BY <1>1, <1>2
<1>5. CallInv' /\ OthersStay(v, k) /\ call'[v][k] = c
  BY Zenon, <1>3, <1>4, UpdateCall
<1> QED
  BY <1>2, <1>5

LEMMA ReturnFacts ==
    ASSUME CallInv, NEW v \in Volumes, NEW k \in Calls, NEW ok, Return(v, k, ok)
    PROVE  CallInv' /\ OthersStay(v, k) /\ call'[v][k] = NoCall
<1>1. call' = [call EXCEPT ![v][k] = NoCall]
  BY DEF Return
<1> QED
  BY Zenon, <1>1, NoCallFacts, UpdateCall

\* What getPvSize and the two steps that set several variables do to the call.
LEMMA SetSizeFacts ==
    ASSUME CallInv, NEW v \in Volumes, NEW k \in Calls, NEW pc \in Steps, NEW n \in 0 .. MaxSize,
           call[v][k].pc # "idle",
           call' = [call EXCEPT ![v][k].pc = pc, ![v][k].size = n]
    PROVE  /\ CallInv' /\ OthersStay(v, k)
           /\ call'[v][k].pc = pc /\ call'[v][k].pod = call[v][k].pod
           /\ call'[v][k].isMnt = call[v][k].isMnt
<1> DEFINE c == [[call[v][k] EXCEPT !.pc = pc] EXCEPT !.size = n]
<1>1. call[v][k] \in Call /\ call[v][k].pod \in Pods
  BY DEF CallInv
<1>2. c \in Call /\ c.pc = pc /\ c.pod = call[v][k].pod /\ c.isMnt = call[v][k].isMnt
  BY Zenon, <1>1 DEF Call
<1>3. call' = [call EXCEPT ![v][k] = c]
  <2>1. call \in [Volumes -> [Calls -> Call]]
    BY DEF CallInv
  <2> QED
    BY Zenon, <2>1
<1> HIDE DEF c
<1>4. CallInv' /\ OthersStay(v, k) /\ call'[v][k] = c
  BY ONLY Zenon, CallInv, v \in Volumes, k \in Calls, <1>1, <1>2, <1>3, UpdateCall
<1> QED
  BY <1>2, <1>4

LEMMA PvSizeFacts ==
    ASSUME CallInv, PvInv, NEW v \in Volumes, NEW k \in Calls, NEW pc \in Steps,
           call[v][k].pc # "idle", PvSize(v, k, pc)
    PROVE  /\ CallInv' /\ OthersStay(v, k)
           /\ call'[v][k].pc = pc /\ call'[v][k].pod = call[v][k].pod
           /\ call'[v][k].isMnt = call[v][k].isMnt
<1>1. pv[v].size \in 0 .. MaxSize /\ 0 \in 0 .. MaxSize
  BY Bounds DEF PvInv, PersistentVolumeObject
<1>2. PICK n \in 0 .. MaxSize : call' = [call EXCEPT ![v][k].pc = pc, ![v][k].size = n]
  BY <1>1 DEF PvSize
<1> QED
  BY Zenon, <1>2, SetSizeFacts

LEMMA StatFacts ==
    ASSUME CallInv, NEW v \in Volumes, NEW k \in Calls, Stat(v, k)
    PROVE  /\ CallInv' /\ OthersStay(v, k)
           /\ call'[v][k].pc = (IF lv[v] = 0 THEN "create" ELSE "isMounted")
           /\ call'[v][k].pod = call[v][k].pod
<1> DEFINE pc == IF lv[v] = 0 THEN "create" ELSE "isMounted"
           c == [[call[v][k] EXCEPT !.new = (lv[v] = 0)] EXCEPT !.pc = pc]
<1>1. call[v][k] \in Call /\ call[v][k].pod \in Pods
  BY DEF CallInv, Stat, At
<1>2. pc \in Steps /\ pc \in {"create", "isMounted"}
  BY DEF Steps
<1>3. c \in Call /\ c.pc = pc /\ c.pod = call[v][k].pod /\ c.isMnt = call[v][k].isMnt
  BY Zenon, <1>1, <1>2 DEF Call
<1>4. call' = [call EXCEPT ![v][k] = c]
  BY Zenon, <1>1 DEF CallInv, Stat
<1> HIDE DEF c, pc
<1>5. CallInv' /\ OthersStay(v, k) /\ call'[v][k] = c
  BY Zenon, <1>1, <1>3, <1>4, UpdateCall
<1> QED
  BY <1>3, <1>5 DEF pc

LEMMA IsMountedFacts ==
    ASSUME CallInv, NEW v \in Volumes, NEW k \in Calls, IsMounted(v, k)
    PROVE  /\ CallInv' /\ OthersStay(v, k)
           /\ call'[v][k].pc = "checkFSType" /\ call'[v][k].pod = call[v][k].pod
           /\ call'[v][k].isMnt = (call[v][k].pod \in mounted[v])
<1> DEFINE b == TargetIsMounted(v, call[v][k].pod)
           c == [[call[v][k] EXCEPT !.isMnt = b] EXCEPT !.pc = "checkFSType"]
<1>1. call[v][k] \in Call /\ call[v][k].pod \in Pods
  BY DEF CallInv, IsMounted, At
<1>2. "checkFSType" \in Steps /\ b \in BOOLEAN
  BY DEF Steps, TargetIsMounted
<1>3. call' = [call EXCEPT ![v][k] = c]
  BY Zenon, <1>1 DEF CallInv, IsMounted
<1> HIDE DEF b
<1>4. c \in Call /\ c.pc = "checkFSType" /\ c.pod = call[v][k].pod /\ c.isMnt = b
  BY Zenon, <1>1, <1>2 DEF Call
<1> HIDE DEF c
<1>5. CallInv' /\ OthersStay(v, k) /\ call'[v][k] = c
  BY Zenon, <1>1, <1>3, <1>4, UpdateCall
<1> QED
  BY <1>4, <1>5 DEF b, TargetIsMounted

\* The call (v, k) ends, or goes on to another step for the same pod; it comes to
\* mkfs only from a look that found no filesystem.
Moves(v, k) ==
    /\ OthersStay(v, k) /\ call[v][k].pc # "idle"
    /\ \/ call'[v][k] = NoCall
       \/ /\ call'[v][k].pc # "idle" /\ call'[v][k].pod = call[v][k].pod
          /\ UNCHANGED pod
    /\ call'[v][k].pc = "format" => fs[v] = 0 /\ UNCHANGED fs

LEMMA ReturnMoves ==
    ASSUME CallInv, NEW v \in Volumes, NEW k \in Calls, NEW ok,
           call[v][k].pc # "idle", Return(v, k, ok)
    PROVE  CallInv' /\ Moves(v, k)
  BY ReturnFacts, NoCallFacts DEF Moves

LEMMA GotoMoves ==
    ASSUME CallInv, NEW v \in Volumes, NEW k \in Calls, NEW pc \in Steps \ {"format"},
           call[v][k].pc # "idle", Goto(v, k, pc), UNCHANGED pod
    PROVE  CallInv' /\ Moves(v, k)
  BY GotoFacts, NoCallFacts DEF Moves

LEMMA PvSizeMoves ==
    ASSUME CallInv, PvInv, NEW v \in Volumes, NEW k \in Calls, NEW pc \in Steps \ {"format"},
           call[v][k].pc # "idle", PvSize(v, k, pc)
    PROVE  CallInv' /\ Moves(v, k)
<1>1. UNCHANGED pod
  BY DEF PvSize, podVars
<1> QED
  BY <1>1, PvSizeFacts, NoCallFacts DEF Moves

LEMMA HandlerMoves ==
    ASSUME CallInv, PvInv, NEW v \in Volumes, NEW k \in Calls,
           Handler(v, k) \/ CommandError(v, k)
    PROVE  CallInv' /\ Moves(v, k)
<1> USE DEF At, ReturnError, podVars
<1>1. CASE Stat(v, k)
  <2>1. /\ CallInv' /\ OthersStay(v, k) /\ call'[v][k].pc \in {"create", "isMounted"}
        /\ call'[v][k].pod = call[v][k].pod
    BY <1>1, StatFacts
  <2> QED
    BY <1>1, <2>1 DEF Stat, Moves
<1>2. CASE CreateGetPvSize(v, k)
  BY <1>2, PvSizeMoves DEF CreateGetPvSize, Steps
<1>3. CASE CreateVolume(v, k)
  BY Zenon, <1>3, ReturnMoves, GotoMoves DEF CreateVolume, Steps
<1>4. CASE IsMounted(v, k)
  BY Zenon, <1>4, IsMountedFacts, NoCallFacts DEF IsMounted, Moves
<1>5. CASE CheckFSType(v, k)
  <2>1. CASE lv[v] = 0
    BY Zenon, <1>5, <2>1, ReturnMoves DEF CheckFSType
  <2>2. CASE lv[v] # 0 /\ fs[v] # 0
    BY <1>5, <2>2, GotoMoves DEF CheckFSType, AfterFormat, Steps
  <2>3. CASE lv[v] # 0 /\ fs[v] = 0
    <3>1. Goto(v, k, "format") /\ UNCHANGED <<pod, fs>> /\ call[v][k].pc # "idle"
      BY <1>5, <2>3 DEF CheckFSType, nodeVars
    <3>2. "format" \in Steps
      BY DEF Steps
    <3> QED
      BY <2>3, <3>1, <3>2, GotoFacts DEF Moves
  <2> QED
    BY <2>1, <2>2, <2>3
<1>6. CASE FormatDevice(v, k)
  BY Zenon, <1>6, ReturnMoves, GotoMoves DEF FormatDevice, AfterFormat, Steps
<1>7. CASE Mount(v, k)
  BY Zenon, <1>7, ReturnMoves, GotoMoves DEF Mount, AfterMount, Steps
<1>8. CASE AlreadyMounted(v, k)
  BY <1>8, GotoMoves DEF AlreadyMounted, AfterMount, Steps
<1>9. CASE ResizeGetPvSize(v, k)
  BY <1>9, PvSizeMoves DEF ResizeGetPvSize, Steps
<1>10. CASE ResizeVolume(v, k)
  BY Zenon, <1>10, ReturnMoves, GotoMoves DEF ResizeVolume, Steps
<1>11. CASE ResizeFs(v, k)
  BY Zenon, <1>11, ReturnMoves, GotoMoves DEF ResizeFs, Steps
<1>12. CASE GetPv(v, k)
  BY <1>12, ReturnMoves, GotoMoves DEF GetPv, Steps
<1>13. CASE PatchPv(v, k)
  BY Zenon, <1>13, ReturnMoves DEF PatchPv
<1>14. CASE UnpublishIsMounted(v, k)
  BY Zenon, <1>14, ReturnMoves, GotoMoves DEF UnpublishIsMounted, Steps
<1>15. CASE Unmount(v, k)
  BY <1>15, ReturnMoves DEF Unmount
<1>16. CASE CommandError(v, k)
  <2>1. call[v][k].pc # "idle"
    BY <1>16 DEF CommandError
  <2> QED
    BY Zenon, <1>16, <2>1, ReturnMoves DEF CommandError
<1> QED
  BY <1>1, <1>2, <1>3, <1>4, <1>5, <1>6, <1>7, <1>8, <1>9, <1>10, <1>11, <1>12, <1>13,
     <1>14, <1>15, <1>16 DEF Handler
----------------------------------------------------------------------------
(* What is on the node *)

\* A filesystem needs a device; a mount and data need a filesystem.
NodeInv ==
    \A v \in Volumes :
        /\ fs[v] # 0 => lv[v] # 0
        /\ mounted[v] # {} => fs[v] # 0
        /\ data[v] => fs[v] # 0

\* The steps that change the node.
NodeStep(v) ==
    \/ Write(v) \/ GcDeleteVolume(v)
    \/ \E k \in Calls : \/ CreateVolume(v, k) \/ FormatDevice(v, k) \/ Mount(v, k)
                         \/ ResizeVolume(v, k) \/ ResizeFs(v, k) \/ Unmount(v, k)

LEMMA NodeSteps ==
    ASSUME [Next]_vars
    PROVE  UNCHANGED nodeVars \/ Reboot \/ \E v \in Volumes : NodeStep(v)
<1>1. ASSUME NEW v \in Volumes, NEW k \in Calls, Handler(v, k) \/ CommandError(v, k)
      PROVE  UNCHANGED nodeVars \/ NodeStep(v)
  BY ZenonT(30), <1>1 DEF Handler, NodeStep, CommandError, Stat, CreateGetPvSize, PvSize, IsMounted, CheckFSType,
     AlreadyMounted, ResizeGetPvSize, GetPv, PatchPv, UnpublishIsMounted, nodeVars
<1>2. ASSUME NEW v \in Volumes, Kubelet(v) PROVE UNCHANGED nodeVars \/ NodeStep(v)
  BY Zenon, <1>2 DEF Kubelet, NodeStep, StartPod, EndPod, RequestPublish, RequestUnpublish, Request, Timeout, nodeVars
<1>3. ASSUME NEW v \in Volumes,
             \/ ControllerExpandVolume(v) \/ ReleaseVolume(v) \/ DeleteVolume(v)
             \/ GcSync(v) \/ GcResync(v) \/ Collector(v)
      PROVE  UNCHANGED nodeVars \/ NodeStep(v)
  BY <1>3 DEF ControllerExpandVolume, ReleaseVolume, DeleteVolume, GcSync, GcResync, Collector,
     GcReconcile, GcUpdate, NodeStep, nodeVars
<1>4. CASE DriverCrash \/ CollectorCrash \/ UNCHANGED vars
  BY <1>4 DEF DriverCrash, CollectorCrash, vars, nodeVars
<1> QED
  BY <1>1, <1>2, <1>3, <1>4 DEF Next

LEMMA NodeStepInv ==
    ASSUME CallInv, NodeType, NodeInv, NEW v \in Volumes, NodeStep(v)
    PROVE  NodeType' /\ NodeInv'
<1>1. CASE Write(v)
  BY <1>1 DEF Write, NodeType, NodeInv
<1>2. CASE GcDeleteVolume(v)
  <2>1. CASE UNCHANGED nodeVars
    BY <2>1 DEF NodeType, NodeInv, nodeVars
  <2>2. CASE mounted[v] = {} /\ RemoveLv(v)
    <3>1. NodeType'
      BY <2>2, Bounds DEF RemoveLv, NodeType
    <3>2. /\ fs'[v] = 0 /\ ~data'[v] /\ mounted'[v] = {} /\ UNCHANGED mounted
          /\ \A w \in Volumes \ {v} : fs'[w] = fs[w] /\ lv'[w] = lv[w] /\ data'[w] = data[w]
      BY <2>2 DEF RemoveLv, NodeType
    <3> QED
      BY <3>1, <3>2 DEF NodeInv
  <2> QED
    BY <1>2, <2>1, <2>2 DEF GcDeleteVolume
<1>3. ASSUME NEW k \in Calls, CreateVolume(v, k) PROVE NodeType' /\ NodeInv'
  <2>1. call[v][k].size \in 0 .. MaxSize
    BY DEF CallInv, Call
  <2>2. UNCHANGED lv \/ (call[v][k].size # 0 /\ lv' = [lv EXCEPT ![v] = call[v][k].size])
    BY <1>3 DEF CreateVolume
  <2> QED
    BY <1>3, <2>1, <2>2 DEF CreateVolume, NodeType, NodeInv
<1>4. ASSUME NEW k \in Calls, FormatDevice(v, k) PROVE NodeType' /\ NodeInv'
  BY Zenon, <1>4 DEF FormatDevice, NodeType, NodeInv
<1>5. ASSUME NEW k \in Calls, Mount(v, k) PROVE NodeType' /\ NodeInv'
  <2>1. call[v][k].pod \in Pods
    BY <1>5 DEF CallInv, Mount, At
  <2>2. UNCHANGED mounted \/ (fs[v] # 0 /\ mounted' = [mounted EXCEPT ![v] = @ \cup {call[v][k].pod}])
    BY <1>5 DEF Mount, MountTarget
  <2> QED
    BY <1>5, <2>1, <2>2 DEF Mount, NodeType, NodeInv
<1>6. ASSUME NEW k \in Calls, ResizeVolume(v, k) PROVE NodeType' /\ NodeInv'
  <2>1. call[v][k].size \in 0 .. MaxSize
    BY DEF CallInv, Call
  <2>2. UNCHANGED lv \/ (call[v][k].size # 0 /\ lv' = [lv EXCEPT ![v] = call[v][k].size])
    BY <1>6, <2>1, Bounds DEF ResizeVolume, NodeType
  <2> QED
    BY <1>6, <2>1, <2>2 DEF ResizeVolume, NodeType, NodeInv
<1>7. ASSUME NEW k \in Calls, ResizeFs(v, k) PROVE NodeType' /\ NodeInv'
  BY <1>7 DEF ResizeFs, NodeType, NodeInv
<1>8. ASSUME NEW k \in Calls, Unmount(v, k) PROVE NodeType' /\ NodeInv'
  BY <1>8 DEF Unmount, UnmountTarget, NodeType, NodeInv
<1> QED
  BY <1>1, <1>2, <1>3, <1>4, <1>5, <1>6, <1>7, <1>8 DEF NodeStep

LEMMA NextNode == CallInv /\ NodeType /\ NodeInv /\ [Next]_vars => NodeType' /\ NodeInv'
<1> SUFFICES ASSUME CallInv, NodeType, NodeInv, [Next]_vars PROVE NodeType' /\ NodeInv'
  OBVIOUS
<1>1. CASE UNCHANGED nodeVars
  BY <1>1 DEF nodeVars, NodeType, NodeInv
<1>2. CASE Reboot
  BY <1>2 DEF Reboot, NodeType, NodeInv
<1> QED
  BY <1>1, <1>2, NodeSteps, NodeStepInv
----------------------------------------------------------------------------
(* PersistentVolumes and the collector *)

\* The collector acts on a volume only when its claim is gone: what its cache
\* says of that stays true.
ReleasedInv ==
    \A v \in Volumes :
        /\ gcPv[v].phase # "Bound" => pv[v].phase # "Bound"
        /\ gcPc[v] # "idle" => pv[v].phase # "Bound"

\* No step brings a claim back.
PhaseStep ==
    \A v \in Volumes : pv[v].phase # "Bound" => pv'[v].phase # "Bound"

LEMMA SetPv ==
    ASSUME PvInv, NEW v \in Volumes, NEW p \in PersistentVolumeObject, pv' = [pv EXCEPT ![v] = p]
    PROVE  pv' \in [Volumes -> PersistentVolumeObject] /\ pv'[v] = p /\ \A w \in Volumes \ {v} : pv'[w] = pv[w]
  BY DEF PvInv

LEMMA FinalizedFacts ==
    ASSUME NEW p \in PersistentVolumeObject
    PROVE  /\ Finalized(p) \in PersistentVolumeObject
           /\ Finalized(p).phase \in {p.phase, "Deleted"}
           /\ Finalized(p).phase # p.phase => ~p.fin
           /\ Finalized(p).fin = p.fin /\ Finalized(p).tag = p.tag
  BY DEF Finalized, PersistentVolumeObject

\* What a step may do to a PersistentVolume: the phase, the tag and the finalizer
\* stay; a publish tags it; its claim goes; it goes itself, having no finalizer;
\* the collector takes the finalizer.
SameMarks(v) == pv'[v].tag = pv[v].tag /\ pv'[v].fin = pv[v].fin

PvStep(v) ==
    \/ SameMarks(v) /\ pv'[v].phase = pv[v].phase
    \/ /\ \E k \in Calls : call[v][k].pc = "patch"
       /\ pv'[v].phase = pv[v].phase /\ pv[v].phase # "Deleted" /\ pv'[v].tag /\ pv'[v].fin
    \/ /\ SameMarks(v) /\ pv[v].phase = "Bound" /\ pv'[v].phase = "Released"
       /\ UNCHANGED <<nodeVars, pod, call, gcVars>>
       /\ ForceDelete \/ \A q \in Pods : pod[v][q] = "none"
    \/ SameMarks(v) /\ pv[v].phase = "Released" /\ pv'[v].phase = "Deleted" /\ ~pv[v].fin
    \/ /\ gcPc[v] = "update" /\ ~pv'[v].fin /\ pv'[v].tag = pv[v].tag
       /\ pv'[v].phase \in {pv[v].phase, "Deleted"}

LEMMA PvUnchanged ==
    ASSUME PvInv, UNCHANGED pv
    PROVE  pv' \in [Volumes -> PersistentVolumeObject] /\ \A v \in Volumes : PvStep(v)
  BY DEF PvInv, PvStep, SameMarks

LEMMA PvChanged ==
    ASSUME PvInv, NEW v \in Volumes, NEW p \in PersistentVolumeObject, pv' = [pv EXCEPT ![v] = p],
           pv'[v] = p => PvStep(v)
    PROVE  pv' \in [Volumes -> PersistentVolumeObject] /\ \A w \in Volumes : PvStep(w)
<1>1. ASSUME NEW w \in Volumes \ {v} PROVE PvStep(w)
  <2>1. pv'[w] = pv[w]
    BY SetPv
  <2> QED
    BY <2>1 DEF PvStep, SameMarks
<1> QED
  BY Zenon, <1>1, SetPv

LEMMA PatchStep ==
    ASSUME PvInv, NEW v \in Volumes, NEW k \in Calls, PatchPv(v, k)
    PROVE  pv' \in [Volumes -> PersistentVolumeObject] /\ \A w \in Volumes : PvStep(w)
<1>1. CASE UNCHANGED pv
  BY <1>1, PvUnchanged
<1>2. CASE pv[v].phase # "Deleted" /\ pv' = [pv EXCEPT ![v].tag = TRUE, ![v].fin = TRUE]
  <2> DEFINE p == [[pv[v] EXCEPT !.tag = TRUE] EXCEPT !.fin = TRUE]
  <2>1. pv[v] \in PersistentVolumeObject /\ pv \in [Volumes -> PersistentVolumeObject]
    BY DEF PvInv
  <2>2. p \in PersistentVolumeObject /\ p.phase = pv[v].phase /\ p.tag /\ p.fin
    BY Zenon, <2>1 DEF PersistentVolumeObject
  <2>3. pv' = [pv EXCEPT ![v] = p]
    BY Zenon, <1>2, <2>1
  <2>4. call[v][k].pc = "patch"
    BY DEF PatchPv, At
  <2> HIDE DEF p
  <2>5. pv'[v] = p => PvStep(v)
    BY Zenon, <1>2, <2>2, <2>4 DEF PvStep
  <2> QED
    BY Zenon, <2>2, <2>3, <2>5, PvChanged
<1> QED
  BY Zenon, <1>1, <1>2 DEF PatchPv

LEMMA UserStep ==
    ASSUME PvInv, NEW v \in Volumes,
           ControllerExpandVolume(v) \/ ReleaseVolume(v) \/ DeleteVolume(v)
    PROVE  pv' \in [Volumes -> PersistentVolumeObject] /\ \A w \in Volumes : PvStep(w)
<1>1. pv[v] \in PersistentVolumeObject /\ pv \in [Volumes -> PersistentVolumeObject]
  BY DEF PvInv
<1>2. CASE ControllerExpandVolume(v)
  <2> DEFINE p == [pv[v] EXCEPT !.size = @ + 1]
  <2>1. p \in PersistentVolumeObject /\ p.phase = pv[v].phase /\ p.tag = pv[v].tag /\ p.fin = pv[v].fin
    <3>1. pv[v].size + 1 \in 1 .. MaxSize
      BY <1>1, <1>2, Bounds DEF PersistentVolumeObject, ControllerExpandVolume
    <3> QED
      BY <1>1, <3>1 DEF PersistentVolumeObject
  <2>2. pv' = [pv EXCEPT ![v] = p]
    BY <1>1, <1>2 DEF ControllerExpandVolume
  <2> HIDE DEF p
  <2> QED
    BY ZenonT(30), <2>1, <2>2, PvChanged DEF PvStep, SameMarks
<1>3. CASE ReleaseVolume(v)
  <2> DEFINE p == [pv[v] EXCEPT !.phase = "Released"]
  <2>1. p \in PersistentVolumeObject /\ p.phase = "Released" /\ p.tag = pv[v].tag /\ p.fin = pv[v].fin
    BY <1>1 DEF PersistentVolumeObject
  <2>2. pv' = [pv EXCEPT ![v] = p]
    BY <1>1, <1>3 DEF ReleaseVolume
  <2> HIDE DEF p
  <2>3. pv'[v] = p => PvStep(v)
    BY <1>3, <2>1 DEF PvStep, SameMarks, ReleaseVolume, podVars
  <2> QED
    BY Zenon, <2>1, <2>2, <2>3, PvChanged
<1>4. CASE DeleteVolume(v)
  <2> DEFINE d == [pv[v] EXCEPT !.deleting = TRUE]
             p == Finalized(d)
  <2>1. d \in PersistentVolumeObject /\ d.phase = pv[v].phase /\ d.tag = pv[v].tag /\ d.fin = pv[v].fin
    BY Zenon, <1>1 DEF PersistentVolumeObject
  <2>2. pv' = [pv EXCEPT ![v] = p]
    BY <1>1, <1>4 DEF DeleteVolume
  <2> HIDE DEF d
  <2>3. /\ p \in PersistentVolumeObject /\ p.tag = pv[v].tag /\ p.fin = pv[v].fin
        /\ p.phase \in {pv[v].phase, "Deleted"} /\ (p.phase # pv[v].phase => ~pv[v].fin)
    BY <2>1, FinalizedFacts
  <2> HIDE DEF p
  <2>4. pv'[v] = p => PvStep(v)
    BY <1>4, <2>3 DEF PvStep, SameMarks, DeleteVolume
  <2> QED
    BY Zenon, <2>2, <2>3, <2>4, PvChanged
<1> QED
  BY <1>2, <1>3, <1>4

LEMMA UpdateStep ==
    ASSUME PvInv, NEW v \in Volumes, GcUpdate(v)
    PROVE  pv' \in [Volumes -> PersistentVolumeObject] /\ \A w \in Volumes : PvStep(w)
<1>1. CASE UNCHANGED pv
  BY <1>1, PvUnchanged
<1>2. CASE pv' = [pv EXCEPT ![v] = Finalized([@ EXCEPT !.fin = FALSE])]
  <2> DEFINE d == [pv[v] EXCEPT !.fin = FALSE]
             p == Finalized(d)
  <2>1. pv[v] \in PersistentVolumeObject /\ pv \in [Volumes -> PersistentVolumeObject]
    BY DEF PvInv
  <2>2. d \in PersistentVolumeObject /\ d.phase = pv[v].phase /\ d.tag = pv[v].tag /\ ~d.fin
    BY Zenon, <2>1 DEF PersistentVolumeObject
  <2>3. pv' = [pv EXCEPT ![v] = p] /\ gcPc[v] = "update"
    BY <1>2, <2>1 DEF GcUpdate
  <2> HIDE DEF d
  <2>4. p \in PersistentVolumeObject /\ p.tag = pv[v].tag /\ ~p.fin /\ p.phase \in {pv[v].phase, "Deleted"}
    BY <2>2, FinalizedFacts
  <2> HIDE DEF p
  <2> QED
    BY Zenon, <2>3, <2>4, PvChanged DEF PvStep
<1> QED
  BY <1>1, <1>2 DEF GcUpdate

LEMMA NextPv ==
    ASSUME PvInv, [Next]_vars
    PROVE  pv' \in [Volumes -> PersistentVolumeObject] /\ \A w \in Volumes : PvStep(w)
<1>1. ASSUME NEW v \in Volumes, NEW k \in Calls, Handler(v, k) \/ CommandError(v, k)
      PROVE  UNCHANGED pv \/ PatchPv(v, k)
  BY ZenonT(30), <1>1 DEF Handler, CommandError, Stat, CreateGetPvSize, PvSize, CreateVolume, IsMounted, CheckFSType,
     FormatDevice, Mount, AlreadyMounted, ResizeGetPvSize, ResizeVolume, ResizeFs, GetPv, UnpublishIsMounted, Unmount
<1>2. ASSUME NEW v \in Volumes, Kubelet(v) PROVE UNCHANGED pv
  BY Zenon, <1>2 DEF Kubelet, StartPod, EndPod, RequestPublish, RequestUnpublish, Request, Timeout, Write
<1>3. ASSUME NEW v \in Volumes, GcSync(v) \/ GcResync(v) \/ Collector(v) PROVE UNCHANGED pv \/ GcUpdate(v)
  BY <1>3 DEF GcSync, GcResync, Collector, GcReconcile, GcDeleteVolume
<1>4. CASE DriverCrash \/ CollectorCrash \/ Reboot \/ UNCHANGED vars
  BY <1>4, PvUnchanged DEF DriverCrash, CollectorCrash, Reboot, vars
<1> QED
  BY <1>1, <1>2, <1>3, <1>4, PvUnchanged, PatchStep, UserStep, UpdateStep DEF Next

\* What a step may do to the collector: its cache is refreshed, it takes a released
\* volume, it removes the logical volume, it is done or starts again.
GcStep(v) ==
    /\ gcPv'[v] \in {gcPv[v], pv[v]}
    /\ \/ gcPc'[v] \in {"idle", gcPc[v]}
       \/ gcPc'[v] = "lvremove" /\ gcPv[v].phase # "Bound" /\ gcPv[v].fin
       \/ gcPc[v] = "lvremove" /\ gcPc'[v] = "update" /\ lv'[v] = 0

GcType ==
    /\ gcPv' \in [Volumes -> PersistentVolumeObject] /\ gcPc' \in [Volumes -> {"idle", "lvremove", "update"}]
    /\ gcPending' \in [Volumes -> BOOLEAN] /\ gcCopy' \in [Volumes -> PersistentVolumeObject]

LEMMA GcUnchanged ==
    ASSUME PvInv, UNCHANGED gcVars
    PROVE  GcType /\ \A v \in Volumes : GcStep(v)
  BY DEF PvInv, GcStep, GcType, gcVars

LEMMA GcRestarts ==
    ASSUME PvInv, CollectorStarts
    PROVE  GcType /\ \A v \in Volumes : GcStep(v)
  BY DEF PvInv, GcStep, GcType, CollectorStarts

LEMMA CollectorStep ==
    ASSUME PvInv, NodeType, NEW v \in Volumes, GcSync(v) \/ GcResync(v) \/ Collector(v)
    PROVE  GcType /\ \A w \in Volumes : GcStep(w)
<1> USE DEF PvInv, GcStep, GcType
<1>1. CASE GcSync(v)
  BY <1>1 DEF GcSync
<1>2. CASE GcResync(v)
  BY <1>2 DEF GcResync
<1>3. CASE GcReconcile(v)
  <2>1. gcPending' = [gcPending EXCEPT ![v] = FALSE] /\ UNCHANGED gcPv
    BY <1>3 DEF GcReconcile
  <2>2. \/ UNCHANGED <<gcPc, gcCopy>>
        \/ /\ gcPv[v].phase # "Bound" /\ gcPv[v].fin /\ gcPc' = [gcPc EXCEPT ![v] = "lvremove"]
           /\ gcCopy' = [gcCopy EXCEPT ![v] = gcPv[v]]
    BY <1>3 DEF GcReconcile, Collectable
  <2> QED
    BY <2>1, <2>2
<1>4. CASE GcDeleteVolume(v)
  <2>1. /\ UNCHANGED <<gcPv, gcPending, gcCopy>> /\ gcPc[v] = "lvremove"
        /\ \/ lv'[v] = 0 /\ gcPc' = [gcPc EXCEPT ![v] = "update"]
           \/ gcPc' = [gcPc EXCEPT ![v] = "idle"]
    BY <1>4 DEF GcDeleteVolume, RemoveLv, NodeType
  <2> QED
    BY <2>1
<1>5. CASE GcUpdate(v)
  <2>1. gcPending' \in [Volumes -> BOOLEAN]
    BY Zenon, <1>5 DEF GcUpdate
  <2> QED
    BY Zenon, <1>5, <2>1 DEF GcUpdate
<1> QED
  BY <1>1, <1>2, <1>3, <1>4, <1>5 DEF Collector

LEMMA NextGc ==
    ASSUME PvInv, NodeType, [Next]_vars
    PROVE  GcType /\ \A w \in Volumes : GcStep(w)
<1>1. ASSUME NEW v \in Volumes, NEW k \in Calls, Handler(v, k) \/ CommandError(v, k)
      PROVE  UNCHANGED gcVars
  BY ZenonT(30), <1>1 DEF Handler, CommandError, Stat, CreateGetPvSize, PvSize, CreateVolume, IsMounted, CheckFSType,
     FormatDevice, Mount, AlreadyMounted, ResizeGetPvSize, ResizeVolume, ResizeFs, GetPv, PatchPv,
     UnpublishIsMounted, Unmount
<1>2. ASSUME NEW v \in Volumes,
             Kubelet(v) \/ ControllerExpandVolume(v) \/ ReleaseVolume(v) \/ DeleteVolume(v)
      PROVE  UNCHANGED gcVars
  BY Zenon, <1>2 DEF Kubelet, StartPod, EndPod, RequestPublish, RequestUnpublish, Request, Timeout, Write,
     ControllerExpandVolume, ReleaseVolume, DeleteVolume
<1>3. CASE DriverCrash \/ UNCHANGED vars
  BY <1>3, GcUnchanged DEF DriverCrash, vars
<1>4. CASE CollectorCrash \/ Reboot
  BY <1>4, GcRestarts DEF CollectorCrash, Reboot
<1> QED
  BY <1>1, <1>2, <1>3, <1>4, GcUnchanged, CollectorStep DEF Next

LEMMA NextReleased ==
    ASSUME PvInv, NodeType, ReleasedInv, [Next]_vars
    PROVE  PvInv' /\ ReleasedInv' /\ PhaseStep
<1>1. PhaseStep
  BY NextPv DEF PvStep, PhaseStep
<1>2. PvInv'
  BY NextPv, NextGc DEF PvInv, GcType
<1>3. ReleasedInv'
  BY <1>1, NextGc DEF GcStep, ReleasedInv, PhaseStep
<1> QED
  BY <1>1, <1>2, <1>3
----------------------------------------------------------------------------
(* Calls, again: requests, crashes and the type of all calls *)

LEMMA RequestFacts ==
    ASSUME CallInv, NEW v \in Volumes, NEW k \in Calls, NEW q \in Pods, NEW pc \in Steps,
           Request(v, k, q, pc)
    PROVE  /\ CallInv' /\ OthersStay(v, k)
           /\ call'[v][k].pc = pc /\ call'[v][k].pod = q
<1> DEFINE c == [[NoCall EXCEPT !.pc = pc] EXCEPT !.pod = q]
<1>1. c \in Call /\ c.pc = pc /\ c.pod = q
  BY Zenon, NoCallFacts DEF Call
<1>2. call' = [call EXCEPT ![v][k] = c]
  BY DEF Request
<1> HIDE DEF c
<1>3. CallInv' /\ OthersStay(v, k) /\ call'[v][k] = c
  BY ONLY Zenon, CallInv, v \in Volumes, k \in Calls, q \in Pods, <1>1, <1>2, UpdateCall
<1> QED
  BY <1>1, <1>3

\* The steps that change no call.
LEMMA CallSteps ==
    ASSUME [Next]_vars
    PROVE  \/ UNCHANGED call
           \/ DriverStops
           \/ \E v \in Volumes, k \in Calls : Handler(v, k) \/ CommandError(v, k)
           \/ \E v \in Volumes, k \in Calls, q \in Pods : RequestPublish(v, k, q) \/ RequestUnpublish(v, k, q)
<1>1. ASSUME NEW v \in Volumes, Kubelet(v)
      PROVE  \/ UNCHANGED call
             \/ \E k \in Calls, q \in Pods : RequestPublish(v, k, q) \/ RequestUnpublish(v, k, q)
  BY <1>1 DEF Kubelet, StartPod, EndPod, Timeout, Write
<1>2. ASSUME NEW v \in Volumes,
             \/ ControllerExpandVolume(v) \/ ReleaseVolume(v) \/ DeleteVolume(v)
             \/ GcSync(v) \/ GcResync(v) \/ Collector(v)
      PROVE  UNCHANGED call
  BY <1>2 DEF ControllerExpandVolume, ReleaseVolume, DeleteVolume, GcSync, GcResync, Collector,
     GcReconcile, GcDeleteVolume, GcUpdate
<1>3. CASE DriverCrash \/ CollectorCrash \/ Reboot \/ UNCHANGED vars
  BY <1>3 DEF DriverCrash, CollectorCrash, Reboot, vars
<1> QED
  BY <1>1, <1>2, <1>3 DEF Next

LEMMA StopsFacts ==
    ASSUME DriverStops
    PROVE  CallInv' /\ \A v \in Volumes, k \in Calls : call'[v][k].pc = "idle"
  BY NoCallFacts DEF DriverStops, CallInv

LEMMA NextCall == CallInv /\ PvInv /\ [Next]_vars => CallInv'
<1> SUFFICES ASSUME CallInv, PvInv, [Next]_vars PROVE CallInv'
  OBVIOUS
<1>1. CASE UNCHANGED call
  BY <1>1 DEF CallInv
<1>2. ASSUME NEW v \in Volumes, NEW k \in Calls, NEW q \in Pods,
             RequestPublish(v, k, q) \/ RequestUnpublish(v, k, q)
      PROVE  CallInv'
  BY <1>2, RequestFacts DEF RequestPublish, RequestUnpublish, Steps
<1> QED
  BY <1>1, <1>2, CallSteps, StopsFacts, HandlerMoves

----------------------------------------------------------------------------
(* Faults, and the call kubelet waits for *)

Waits == {NoCallAwaited} \cup {<<k>> : k \in Calls}

AwaitType == awaited \in [Volumes -> Waits] /\ faults \in 0 .. MaxFaults

\* A step is a fault, or changes neither their number nor, unless a call begins or
\* ends, what kubelet waits for.
Unanswered(v, k) ==
    awaited' = [awaited EXCEPT ![v] = IF @ = <<k>> THEN NoCallAwaited ELSE @]

LEMMA HandlerAwaits ==
    ASSUME NEW v \in Volumes, NEW k \in Calls, Handler(v, k) \/ CommandError(v, k)
    PROVE  /\ UNCHANGED awaited \/ (Unanswered(v, k) /\ call' = [call EXCEPT ![v][k] = NoCall])
           /\ UNCHANGED faults \/ Fault
<1> USE DEF podVars
<1>1. ASSUME NEW ok, Return(v, k, ok)
      PROVE  Unanswered(v, k) /\ call' = [call EXCEPT ![v][k] = NoCall]
  BY <1>1 DEF Return, Unanswered
<1>2. CASE \/ Stat(v, k) \/ CreateGetPvSize(v, k) \/ IsMounted(v, k)
           \/ AlreadyMounted(v, k) \/ ResizeGetPvSize(v, k)
  BY Zenon, <1>2 DEF Stat, CreateGetPvSize, PvSize, IsMounted, AlreadyMounted, ResizeGetPvSize
<1>3. CASE \/ CreateVolume(v, k) \/ CheckFSType(v, k) \/ FormatDevice(v, k) \/ Mount(v, k)
           \/ ResizeVolume(v, k) \/ ResizeFs(v, k)
  BY Zenon, <1>1, <1>3 DEF CreateVolume, CheckFSType, FormatDevice, Mount, ResizeVolume, ResizeFs, ReturnError
<1>4. CASE GetPv(v, k) \/ PatchPv(v, k) \/ UnpublishIsMounted(v, k) \/ Unmount(v, k)
  BY Zenon, <1>1, <1>4 DEF GetPv, PatchPv, UnpublishIsMounted, Unmount, ReturnError
<1>5. CASE CommandError(v, k)
  BY Zenon, <1>1, <1>5 DEF CommandError, ReturnError
<1> QED
  BY <1>2, <1>3, <1>4, <1>5 DEF Handler

LEMMA FaultStep == [Next]_vars => UNCHANGED faults \/ Fault
<1> SUFFICES ASSUME [Next]_vars PROVE UNCHANGED faults \/ Fault
  OBVIOUS
<1>1. ASSUME NEW v \in Volumes, Kubelet(v) PROVE UNCHANGED faults \/ Fault
  BY Zenon, <1>1 DEF Kubelet, StartPod, EndPod, RequestPublish, RequestUnpublish, Request, Timeout, Write
<1>2. ASSUME NEW v \in Volumes,
             \/ ControllerExpandVolume(v) \/ ReleaseVolume(v) \/ DeleteVolume(v)
             \/ GcSync(v) \/ GcResync(v) \/ Collector(v)
      PROVE  UNCHANGED faults \/ Fault
  BY <1>2 DEF ControllerExpandVolume, ReleaseVolume, DeleteVolume, GcSync, GcResync, Collector,
     GcReconcile, GcDeleteVolume, GcUpdate
<1>3. CASE DriverCrash \/ CollectorCrash \/ Reboot \/ UNCHANGED vars
  BY <1>3 DEF DriverCrash, CollectorCrash, Reboot, vars
<1> QED
  BY <1>1, <1>2, <1>3, HandlerAwaits DEF Next

\* What else may become of the call kubelet waits for.
LEMMA AwaitSteps ==
    ASSUME [Next]_vars
    PROVE  \/ UNCHANGED <<call, awaited>>
           \/ UNCHANGED call /\ Fault /\ \E v \in Volumes : awaited' = [awaited EXCEPT ![v] = NoCallAwaited]
           \/ Fault /\ DriverStops
           \/ \E v \in Volumes, k \in Calls : Handler(v, k) \/ CommandError(v, k)
           \/ \E v \in Volumes, k \in Calls, q \in Pods : RequestPublish(v, k, q) \/ RequestUnpublish(v, k, q)
<1> USE DEF podVars
<1>1. ASSUME NEW v \in Volumes, Kubelet(v)
      PROVE  \/ UNCHANGED <<call, awaited>>
             \/ UNCHANGED call /\ Fault /\ awaited' = [awaited EXCEPT ![v] = NoCallAwaited]
             \/ \E k \in Calls, q \in Pods : RequestPublish(v, k, q) \/ RequestUnpublish(v, k, q)
  BY <1>1 DEF Kubelet, StartPod, EndPod, Timeout, Write
<1>2. ASSUME NEW v \in Volumes,
             \/ ControllerExpandVolume(v) \/ ReleaseVolume(v) \/ DeleteVolume(v)
             \/ GcSync(v) \/ GcResync(v) \/ Collector(v)
      PROVE  UNCHANGED <<call, awaited>>
  BY <1>2 DEF ControllerExpandVolume, ReleaseVolume, DeleteVolume, GcSync, GcResync, Collector,
     GcReconcile, GcDeleteVolume, GcUpdate
<1>3. CASE DriverCrash \/ CollectorCrash \/ Reboot \/ UNCHANGED vars
  BY <1>3 DEF DriverCrash, CollectorCrash, Reboot, vars
<1> QED
  BY <1>1, <1>2, <1>3 DEF Next

LEMMA NextAwaitType == AwaitType /\ [Next]_vars => AwaitType'
<1> SUFFICES ASSUME AwaitType, [Next]_vars PROVE AwaitType'
  OBVIOUS
<1>1. faults' \in 0 .. MaxFaults
  BY FaultStep, Bounds DEF AwaitType, Fault
<1>2. ASSUME NEW v \in Volumes, NEW x \in Waits, awaited' = [awaited EXCEPT ![v] = x]
      PROVE  awaited' \in [Volumes -> Waits]
  BY <1>2 DEF AwaitType
<1>3. NoCallAwaited \in Waits /\ \A k \in Calls : <<k>> \in Waits
  BY DEF Waits
<1>4. ASSUME NEW v \in Volumes, NEW k \in Calls, Unanswered(v, k)
      PROVE  awaited' \in [Volumes -> Waits]
  BY <1>2, <1>3, <1>4 DEF Unanswered, AwaitType
<1>5. ASSUME NEW v \in Volumes, NEW k \in Calls, NEW q \in Pods, RequestPublish(v, k, q) \/ RequestUnpublish(v, k, q)
      PROVE  awaited' \in [Volumes -> Waits]
  BY <1>2, <1>3, <1>5 DEF RequestPublish, RequestUnpublish, Request
<1>6. DriverStops => awaited' \in [Volumes -> Waits]
  BY <1>3 DEF DriverStops
<1>7. UNCHANGED awaited => awaited' \in [Volumes -> Waits]
  BY DEF AwaitType
<1>8. awaited' \in [Volumes -> Waits]
  BY <1>2, <1>3, <1>4, <1>5, <1>6, <1>7, AwaitSteps, HandlerAwaits
<1> QED
  BY <1>1, <1>8 DEF AwaitType

\* The invariant that needs no assumption on users or on the number of calls.
CoreInv == CallInv /\ PvInv /\ NodeType /\ NodeInv /\ ReleasedInv

LEMMA CoreInit == Init => CoreInv
<1> SUFFICES ASSUME Init PROVE CoreInv
  OBVIOUS
<1>1. NewPersistentVolume \in PersistentVolumeObject /\ NewPersistentVolume.phase = "Bound"
  BY Bounds DEF NewPersistentVolume, PersistentVolumeObject
<1>2. CallInv
  BY NoCallFacts DEF Init, CallInv
<1>3. PvInv /\ ReleasedInv
  BY <1>1 DEF Init, PvInv, ReleasedInv
<1>4. NodeType /\ NodeInv
  BY Bounds DEF Init, NodeType, NodeInv
<1> QED
  BY <1>2, <1>3, <1>4 DEF CoreInv

LEMMA CoreNext == CoreInv /\ [Next]_vars => CoreInv'
  BY NextCall, NextNode, NextReleased DEF CoreInv
----------------------------------------------------------------------------
(* Formatting *)

\* A step of another actor than a handler leaves a file system alone or removes it.
LEMMA FsStep ==
    ASSUME NodeType, [Next]_vars
    PROVE  \/ \A w \in Volumes : fs'[w] \in {fs[w], 0}
           \/ \E v \in Volumes, k \in Calls :
                 (FormatDevice(v, k) \/ ResizeFs(v, k)) /\ \A w \in Volumes \ {v} : fs'[w] = fs[w]
<1>1. ASSUME NEW v \in Volumes, NEW k \in Calls,
             CreateVolume(v, k) \/ Mount(v, k) \/ ResizeVolume(v, k) \/ Unmount(v, k)
      PROVE  UNCHANGED fs
  BY Zenon, <1>1 DEF CreateVolume, Mount, ResizeVolume, Unmount
<1>2. ASSUME NEW v \in Volumes, Write(v) PROVE UNCHANGED fs
  BY <1>2 DEF Write
<1>3. ASSUME NEW v \in Volumes, GcDeleteVolume(v) PROVE \A w \in Volumes : fs'[w] \in {fs[w], 0}
  BY <1>3 DEF GcDeleteVolume, RemoveLv, NodeType, nodeVars
<1>4. ASSUME NEW v \in Volumes, NEW k \in Calls, FormatDevice(v, k) \/ ResizeFs(v, k)
      PROVE  \A w \in Volumes \ {v} : fs'[w] = fs[w]
  BY <1>4 DEF FormatDevice, ResizeFs, NodeType
<1>5. CASE UNCHANGED nodeVars \/ Reboot
  BY Zenon, <1>5 DEF nodeVars, Reboot
<1> QED
  BY <1>1, <1>2, <1>3, <1>4, <1>5, NodeSteps DEF NodeStep

\* The driver has one call about a volume at a time: because kubelet waits for each,
\* or, however it behaves, because there is room for one.
Alone ==
    \A v \in Volumes, j, k \in Calls : call[v][j].pc # "idle" /\ call[v][k].pc # "idle" => j = k

OneCall == \A j, k \in Calls : j = k

LEMMA OneIsAlone == OneCall => Alone
  BY DEF OneCall, Alone

\* A call that may come to mkfs in this step is the one that has looked, or has
\* looked before.
LEMMA FormatStep ==
    ASSUME Alone, CallInv, PvInv, [Next]_vars, NEW w \in Volumes, NEW j \in Calls,
           call'[w][j].pc = "format"
    PROVE  \/ fs[w] = 0 /\ UNCHANGED fs
           \/ /\ call[w][j].pc = "format"
              /\ \A v \in Volumes, k \in Calls : Handler(v, k) => v # w
<1>1. ASSUME NEW v \in Volumes, NEW k \in Calls, Handler(v, k) \/ CommandError(v, k)
      PROVE  \/ v = w /\ fs[w] = 0 /\ UNCHANGED fs
             \/ v # w /\ call[w][j].pc = "format"
  <2>1. Moves(v, k)
    BY Zenon, <1>1, HandlerMoves
  <2> QED
    BY <2>1, NoCallFacts DEF Moves, OthersStay, Alone
<1>2. ASSUME NEW v \in Volumes, NEW k \in Calls, NEW q \in Pods,
             RequestPublish(v, k, q) \/ RequestUnpublish(v, k, q)
      PROVE  call[w][j].pc = "format"
  <2>1. OthersStay(v, k) /\ call'[v][k].pc # "format"
    BY <1>2, RequestFacts DEF RequestPublish, RequestUnpublish, Steps
  <2> QED
    BY <2>1 DEF OthersStay
<1>3. CASE DriverStops
  BY <1>3, StopsFacts
<1> QED
  BY <1>1, <1>2, <1>3, CallSteps

LEMMA FormatNext == Alone /\ CoreInv /\ FormatsBlankDevice /\ [Next]_vars => FormatsBlankDevice'
<1> SUFFICES ASSUME Alone, CoreInv, FormatsBlankDevice, [Next]_vars,
                    NEW w \in Volumes, NEW j \in Calls, call'[w][j].pc = "format"
             PROVE  fs'[w] = 0
  BY DEF FormatsBlankDevice, At
<1>1. \/ fs[w] = 0 /\ UNCHANGED fs
      \/ fs[w] = 0 /\ \A v \in Volumes, k \in Calls : Handler(v, k) => v # w
  BY FormatStep DEF CoreInv, FormatsBlankDevice, At
<1> QED
  BY Zenon, <1>1, FsStep DEF CoreInv, Handler

\* With one call about a volume at a time, NodePublishVolume formats only a device
\* that has no file system, as it logs.
THEOREM FormatsBlank ==
    ASSUME OneCall
    PROVE  Spec => []FormatsBlankDevice
<1>1. Init => CoreInv /\ FormatsBlankDevice
  BY CoreInit, NoCallFacts DEF Init, FormatsBlankDevice, At
<1>2. CoreInv /\ FormatsBlankDevice /\ [Next]_vars => CoreInv' /\ FormatsBlankDevice'
  BY CoreNext, FormatNext, OneIsAlone
<1> QED
  BY <1>1, <1>2, PTL DEF Spec

LEMMA DataStep ==
    ASSUME CoreInv, FormatsBlankDevice, [Next]_vars
    PROVE  DataKeptStep
<1> SUFFICES ASSUME NEW w \in Volumes, data[w], ~data'[w] PROVE pv[w].phase # "Bound"
  BY DEF DataKeptStep
<1> USE DEF CoreInv
<1>1. ASSUME NEW v \in Volumes, NEW k \in Calls,
             CreateVolume(v, k) \/ Mount(v, k) \/ ResizeVolume(v, k) \/ ResizeFs(v, k) \/ Unmount(v, k)
      PROVE  UNCHANGED data
  BY Zenon, <1>1 DEF CreateVolume, Mount, ResizeVolume, ResizeFs, Unmount
<1>2. ASSUME NEW v \in Volumes PROVE ~Write(v)
  BY Zenon DEF Write, NodeType
<1>3. ASSUME NEW v \in Volumes, GcDeleteVolume(v) PROVE pv[w].phase # "Bound"
  <2>1. v = w
    BY <1>3 DEF GcDeleteVolume, RemoveLv, NodeType, nodeVars
  <2> QED
    BY <1>3, <2>1 DEF GcDeleteVolume, ReleasedInv
<1>4. ASSUME NEW v \in Volumes, NEW k \in Calls PROVE ~FormatDevice(v, k)
  <2> SUFFICES ASSUME FormatDevice(v, k) PROVE FALSE
    OBVIOUS
  <2>1. v = w
    BY DEF FormatDevice, NodeType
  <2>2. fs[w] = 0
    BY <2>1 DEF FormatDevice, FormatsBlankDevice
  <2> QED
    BY <2>2 DEF NodeInv
<1>5. ~(UNCHANGED nodeVars \/ Reboot)
  BY DEF nodeVars, Reboot
<1> QED
  BY Zenon, <1>1, <1>2, <1>3, <1>4, <1>5, NodeSteps DEF NodeStep

\* With one call about a volume at a time, what pods have written stays until the
\* claim is gone: no publish formats over it and no stale cache removes it,
\* whatever crashes, fails or is retried.
THEOREM DataStays ==
    ASSUME OneCall
    PROVE  Spec => DataKept
<1>1. Init => CoreInv /\ FormatsBlankDevice
  BY CoreInit, NoCallFacts DEF Init, FormatsBlankDevice, At
<1>2. CoreInv /\ FormatsBlankDevice /\ [Next]_vars => CoreInv' /\ FormatsBlankDevice'
  BY CoreNext, FormatNext, OneIsAlone
<1>3. CoreInv /\ FormatsBlankDevice /\ [Next]_vars => [DataKeptStep]_vars
  BY DataStep
<1> QED
  BY <1>1, <1>2, <1>3, PTL DEF Spec, DataKept
----------------------------------------------------------------------------
(* Pods *)

\* What a step may do to a pod: it starts while the volume is bound; it is let go
\* by a call that ends; it moves on otherwise.
PodStep(w, q) ==
    \/ pod'[w][q] = pod[w][q]
    \/ pod[w][q] = "none" /\ pv[w].phase = "Bound" /\ UNCHANGED <<pv, call>>
    \/ pod[w][q] \notin {"none", "ending"} /\ pod'[w][q] # "none"
    \/ pod[w][q] # "none" /\ \E k \in Calls : call[w][k].pc # "idle" /\ call'[w][k] = NoCall

LEMMA SetPod ==
    ASSUME PodType, NEW v \in Volumes, NEW q \in Pods, NEW s \in {"none", "waiting", "running", "ending"},
           pod' = [pod EXCEPT ![v][q] = s], pod'[v][q] = s => PodStep(v, q)
    PROVE  PodType' /\ \A w \in Volumes, r \in Pods : PodStep(w, r)
<1>1. /\ PodType' /\ pod'[v][q] = s
      /\ \A w \in Volumes, r \in Pods : w # v \/ r # q => pod'[w][r] = pod[w][r]
  BY DEF PodType
<1> QED
  BY <1>1 DEF PodStep

LEMMA PodUnchanged ==
    ASSUME PodType, UNCHANGED pod
    PROVE  PodType' /\ \A w \in Volumes, r \in Pods : PodStep(w, r)
  BY DEF PodType, PodStep

LEMMA ReturnPod ==
    ASSUME CallInv, PodType, NEW v \in Volumes, NEW k \in Calls, NEW ok \in BOOLEAN,
           call[v][k].pc # "idle", Return(v, k, ok)
    PROVE  PodType' /\ \A w \in Volumes, r \in Pods : PodStep(w, r)
<1>1. PICK q \in Pods : q = call[v][k].pod
  BY DEF CallInv
<1>2. PICK s \in {pod[v][q]} \cup {"running", "none"} :
         pod' = [pod EXCEPT ![v][q] = s] /\ (pod[v][q] = "none" => s = "none")
  BY ZenonT(30), <1>1 DEF Return
<1>3. pod[v][q] \in {"none", "waiting", "running", "ending"}
  BY DEF PodType
<1>4. call'[v][k] = NoCall
  BY ReturnFacts
<1>5. pod'[v][q] = s => PodStep(v, q)
  BY <1>2, <1>4 DEF PodStep
<1> QED
  BY Zenon, <1>2, <1>3, <1>5, SetPod

LEMMA HandlerPod ==
    ASSUME CallInv, PodType, NEW v \in Volumes, NEW k \in Calls, Handler(v, k) \/ CommandError(v, k)
    PROVE  PodType' /\ \A w \in Volumes, r \in Pods : PodStep(w, r)
<1> DEFINE Ends == Return(v, k, TRUE) \/ Return(v, k, FALSE)
<1>1. call[v][k].pc # "idle"
  BY Zenon DEF Handler, CommandError, Stat, CreateGetPvSize, CreateVolume, IsMounted, CheckFSType,
     FormatDevice, Mount, AlreadyMounted, ResizeGetPvSize, ResizeVolume, ResizeFs, GetPv, PatchPv,
     UnpublishIsMounted, Unmount, At
<1>2. ASSUME UNCHANGED pod \/ Ends
      PROVE  PodType' /\ \A w \in Volumes, r \in Pods : PodStep(w, r)
  BY Zenon, <1>1, <1>2, PodUnchanged, ReturnPod
<1>3. CASE GetPv(v, k)
  <2>1. UNCHANGED pod \/ Ends
    BY Zenon, <1>3 DEF GetPv, podVars, Return
  <2> QED
    BY Zenon, <1>2, <2>1
<1>4. CASE Unmount(v, k)
  <2>1. Ends
    BY ZenonT(30), <1>4 DEF Unmount, Return, TargetIsMounted
  <2> QED
    BY Zenon, <1>2, <2>1
<1>5. CASE PatchPv(v, k) \/ UnpublishIsMounted(v, k) \/ CommandError(v, k)
  <2>1. UNCHANGED pod \/ Ends
    BY Zenon, <1>5 DEF PatchPv, UnpublishIsMounted, CommandError, ReturnError, podVars
  <2> QED
    BY Zenon, <1>2, <2>1
<1>6. CASE \/ Stat(v, k) \/ CreateGetPvSize(v, k) \/ CreateVolume(v, k) \/ IsMounted(v, k)
           \/ CheckFSType(v, k) \/ FormatDevice(v, k) \/ Mount(v, k) \/ AlreadyMounted(v, k)
           \/ ResizeGetPvSize(v, k) \/ ResizeVolume(v, k) \/ ResizeFs(v, k)
  <2>1. UNCHANGED pod \/ ReturnError(v, k)
    BY Zenon, <1>6 DEF Stat, CreateGetPvSize, PvSize, CreateVolume, IsMounted, CheckFSType, FormatDevice,
       Mount, AlreadyMounted, ResizeGetPvSize, ResizeVolume, ResizeFs, podVars
  <2> QED
    BY Zenon, <1>2, <2>1 DEF ReturnError
<1> QED
  BY <1>3, <1>4, <1>5, <1>6 DEF Handler

LEMMA NextPod ==
    ASSUME CallInv, PodType, [Next]_vars
    PROVE  PodType' /\ \A w \in Volumes, r \in Pods : PodStep(w, r)
<1>1. ASSUME NEW v \in Volumes, NEW q \in Pods, StartPod(v, q) \/ EndPod(v, q)
      PROVE  PodType' /\ \A w \in Volumes, r \in Pods : PodStep(w, r)
  BY Zenon, <1>1, SetPod DEF StartPod, EndPod, PodStep
<1>2. ASSUME NEW v \in Volumes, Kubelet(v)
      PROVE  UNCHANGED pod \/ \E q \in Pods : StartPod(v, q) \/ EndPod(v, q)
  BY Zenon, <1>2 DEF Kubelet, RequestPublish, RequestUnpublish, Request, Timeout, Write, podVars
<1>3. ASSUME NEW v \in Volumes,
             \/ ControllerExpandVolume(v) \/ ReleaseVolume(v) \/ DeleteVolume(v)
             \/ GcSync(v) \/ GcResync(v) \/ Collector(v)
      PROVE  UNCHANGED pod
  BY <1>3 DEF ControllerExpandVolume, ReleaseVolume, DeleteVolume, GcSync, GcResync, Collector,
     GcReconcile, GcDeleteVolume, GcUpdate, podVars
<1>4. CASE Reboot
  BY <1>4 DEF Reboot, PodType, PodStep
<1>5. CASE DriverCrash \/ CollectorCrash \/ UNCHANGED vars
  BY <1>5, PodUnchanged DEF DriverCrash, CollectorCrash, vars, podVars
<1> QED
  BY <1>1, <1>2, <1>3, <1>4, <1>5, PodUnchanged, HandlerPod DEF Next

\* No step leaves a variable with a value that is not of its type, and no handler
\* loses the pod it works for, however many calls, faults and restarts there are.
THEOREM TypeCorrect == Spec => []TypeOK
<1> DEFINE Inv == CoreInv /\ PodType /\ AwaitType
<1>1. Init => Inv
  <2>1. Init => AwaitType
    BY Bounds DEF Init, AwaitType, Waits
  <2>2. Init => PodType
    BY DEF Init, PodType
  <2> QED
    BY <2>1, <2>2, CoreInit
<1>2. Inv /\ [Next]_vars => Inv'
  BY CoreNext, NextPod, NextAwaitType DEF CoreInv
<1>3. Inv => TypeOK
  BY Zenon DEF CoreInv, CallInv, PvInv, NodeType, PodType, AwaitType, Waits, TypeOK
<1> QED
  BY <1>1, <1>2, <1>3, PTL DEF Spec
----------------------------------------------------------------------------
(* The finalizer *)

\* A call is about a pod that is there, and no pod uses a volume whose claim is
\* gone.  A volume loses the finalizer only after its logical volume, and goes
\* only without it.
UseInv ==
    \A v \in Volumes :
        /\ \A k \in Calls : call[v][k].pc # "idle" => pod[v][call[v][k].pod] # "none"
        /\ pv[v].phase # "Bound" => \A q \in Pods : pod[v][q] = "none"

FinalizerInv ==
    \A v \in Volumes :
        /\ gcPc[v] = "update" => lv[v] = 0
        /\ pv[v].tag /\ ~pv[v].fin => pv[v].phase # "Bound" /\ lv[v] = 0
        /\ pv[v].phase = "Deleted" => ~pv[v].fin

\* Only a call makes a logical volume.
LEMMA LvStep ==
    ASSUME NodeType, [Next]_vars, NEW w \in Volumes, lv[w] = 0, lv'[w] # 0
    PROVE  \E k \in Calls : call[w][k].pc # "idle"
<1>1. ASSUME NEW v \in Volumes, NEW k \in Calls, CreateVolume(v, k)
      PROVE  \E j \in Calls : call[w][j].pc # "idle"
  BY <1>1 DEF CreateVolume, At, NodeType
<1>2. ASSUME NEW v \in Volumes, NEW k \in Calls PROVE ~ResizeVolume(v, k)
  BY DEF ResizeVolume, NodeType
<1>3. ASSUME NEW v \in Volumes, NEW k \in Calls,
             FormatDevice(v, k) \/ Mount(v, k) \/ ResizeFs(v, k) \/ Unmount(v, k)
      PROVE  UNCHANGED lv
  BY Zenon, <1>3 DEF FormatDevice, Mount, ResizeFs, Unmount
<1>4. ASSUME NEW v \in Volumes PROVE ~(Write(v) \/ GcDeleteVolume(v))
  BY DEF Write, GcDeleteVolume, RemoveLv, NodeType, nodeVars
<1>5. ~(UNCHANGED nodeVars \/ Reboot)
  BY DEF nodeVars, Reboot
<1> QED
  BY Zenon, <1>1, <1>2, <1>3, <1>4, <1>5, NodeSteps DEF NodeStep

\* A call after a step: one that has not moved, one that has moved for its pod,
\* or one kubelet has made for a pod that is there.
LEMMA CallOrigin ==
    ASSUME CallInv, PvInv, [Next]_vars, NEW w \in Volumes, NEW j \in Calls,
           call'[w][j].pc # "idle"
    PROVE  \/ call[w][j].pc # "idle" /\ call'[w][j].pod = call[w][j].pod
           \/ UNCHANGED pod /\ pod[w][call'[w][j].pod] # "none"
<1>1. ASSUME NEW v \in Volumes, NEW k \in Calls, Handler(v, k) \/ CommandError(v, k)
      PROVE  call[w][j].pc # "idle" /\ call'[w][j].pod = call[w][j].pod
  <2>1. Moves(v, k)
    BY <1>1, HandlerMoves
  <2> QED
    BY <2>1, NoCallFacts DEF Moves, OthersStay
<1>2. ASSUME NEW v \in Volumes, NEW k \in Calls, NEW q \in Pods,
             RequestPublish(v, k, q) \/ RequestUnpublish(v, k, q)
      PROVE  \/ call[w][j].pc # "idle" /\ call'[w][j].pod = call[w][j].pod
             \/ UNCHANGED pod /\ pod[w][call'[w][j].pod] # "none"
  <2>1. OthersStay(v, k) /\ call'[v][k].pod = q
    BY <1>2, RequestFacts DEF RequestPublish, RequestUnpublish, Steps
  <2>2. UNCHANGED pod /\ pod[v][q] # "none"
    BY <1>2 DEF RequestPublish, RequestUnpublish, Request
  <2> QED
    BY <2>1, <2>2 DEF OthersStay
<1> QED
  BY Zenon, <1>1, <1>2, CallSteps, StopsFacts

LEMMA UseNext ==
    ASSUME Alone, ~ForceDelete, CoreInv, PodType, UseInv, [Next]_vars
    PROVE  UseInv'
<1> USE DEF CoreInv
<1>1. ASSUME NEW w \in Volumes, NEW j \in Calls, call'[w][j].pc # "idle"
      PROVE  pod'[w][call'[w][j].pod] # "none"
  <2>1. CASE UNCHANGED pod /\ pod[w][call'[w][j].pod] # "none"
    BY <2>1
  <2>2. CASE call[w][j].pc # "idle" /\ call'[w][j].pod = call[w][j].pod
    <3>1. PICK q \in Pods : q = call[w][j].pod
      BY <2>2 DEF CallInv
    <3>2. pod[w][q] # "none"
      BY <2>2, <3>1 DEF UseInv
    <3>3. \A k \in Calls : call[w][k].pc # "idle" => call'[w][k] # NoCall
      BY <1>1, <2>2, NoCallFacts DEF Alone
    <3>4. pod'[w][q] # "none"
      BY Zenon, <3>2, <3>3, NextPod DEF PodStep
    <3> QED
      BY <2>2, <3>1, <3>4
  <2> QED
    BY Zenon, <1>1, <2>1, <2>2, CallOrigin
<1>2. ASSUME NEW w \in Volumes, pv'[w].phase # "Bound", NEW q \in Pods
      PROVE  pod'[w][q] = "none"
  <2>1. CASE pv[w].phase # "Bound"
    BY <2>1, NextPod DEF UseInv, PodStep
  <2>2. CASE pv[w].phase = "Bound"
    BY Zenon, <1>2, <2>2, NextPv DEF PvStep, ReleasedInv
  <2> QED
    BY <2>1, <2>2
<1> QED
  BY <1>1, <1>2 DEF UseInv

LEMMA FinalizerNext ==
    ASSUME CoreInv, UseInv, FinalizerInv, [Next]_vars
    PROVE  FinalizerInv'
<1> USE DEF CoreInv
<1> SUFFICES ASSUME NEW w \in Volumes
             PROVE  /\ gcPc'[w] = "update" => lv'[w] = 0
                    /\ pv'[w].tag /\ ~pv'[w].fin => pv'[w].phase # "Bound" /\ lv'[w] = 0
                    /\ pv'[w].phase = "Deleted" => ~pv'[w].fin
  BY DEF FinalizerInv
<1>1. lv[w] = 0 /\ pv[w].phase # "Bound" => lv'[w] = 0
  <2> SUFFICES ASSUME lv[w] = 0, pv[w].phase # "Bound", lv'[w] # 0 PROVE FALSE
    OBVIOUS
  <2>1. PICK k \in Calls : call[w][k].pc # "idle"
    BY LvStep
  <2>2. call[w][k].pod \in Pods /\ pod[w][call[w][k].pod] # "none"
    BY Zenon, <2>1 DEF CallInv, UseInv
  <2> QED
    BY <2>2 DEF UseInv
<1>2. gcPc'[w] = "update" => lv'[w] = 0
  BY <1>1, NextGc DEF GcStep, FinalizerInv, ReleasedInv
<1>3. pv'[w].phase = "Deleted" => ~pv'[w].fin
  BY Zenon, NextPv DEF PvStep, SameMarks, FinalizerInv
<1>4. pv[w].phase # "Bound" => pv'[w].phase # "Bound"
  BY NextReleased DEF PhaseStep
<1>5. pv'[w].tag /\ ~pv'[w].fin => pv'[w].phase # "Bound" /\ lv'[w] = 0
  <2>1. PvStep(w)
    BY NextPv
  <2> QED
    BY Zenon, <2>1, <1>1, <1>4 DEF PvStep, SameMarks, FinalizerInv, ReleasedInv
<1> QED
  BY Zenon, <1>2, <1>3, <1>5

\* With one call about a volume at a time and claims that are deleted only when no
\* pod uses them, the finalizer NodePublishVolume sets works: a tagged
\* PersistentVolume that is gone has left no logical volume, whatever crashes.
THEOREM FinalizerWorks ==
    ASSUME OneCall, ~ForceDelete
    PROVE  Spec => []TaggedNotLeaked
<1> DEFINE Inv == CoreInv /\ PodType /\ UseInv /\ FinalizerInv
<1>1. Init => Inv
  <2> SUFFICES ASSUME Init PROVE PodType /\ UseInv /\ FinalizerInv
    BY CoreInit
  <2>1. \A v \in Volumes : pv[v].phase = "Bound" /\ ~pv[v].tag
    BY DEF Init, NewPersistentVolume
  <2>2. \A v \in Volumes : gcPc[v] = "idle" /\ \A k \in Calls : call[v][k].pc = "idle"
    BY NoCallFacts DEF Init
  <2>3. PodType
    BY DEF Init, PodType
  <2> QED
    BY Zenon, <2>1, <2>2, <2>3 DEF UseInv, FinalizerInv
<1>2. Inv /\ [Next]_vars => Inv'
  BY CoreNext, NextPod, UseNext, FinalizerNext, OneIsAlone DEF CoreInv
<1>3. Inv => TaggedNotLeaked
  BY DEF FinalizerInv, TaggedNotLeaked
<1> QED
  BY <1>1, <1>2, <1>3, PTL DEF Spec
----------------------------------------------------------------------------
(* While nothing fails *)

\* Kubelet waits for every call about a volume, and so there is one at a time.
AwaitedInv == \A v \in Volumes, k \in Calls : call[v][k].pc # "idle" => awaited[v] = <<k>>

LEMMA AwaitedAlone == AwaitedInv => Alone
<1> SUFFICES ASSUME AwaitedInv, NEW v \in Volumes, NEW j \in Calls, NEW k \in Calls,
                    call[v][j].pc # "idle", call[v][k].pc # "idle"
             PROVE  j = k
  BY DEF Alone
<1>1. <<j>> = <<k>>
  BY DEF AwaitedInv
<1> QED
  BY <1>1

LEMMA NextAwaited ==
    ASSUME CallInv, PvInv, AwaitType, AwaitedInv, [Next]_vars, UNCHANGED faults
    PROVE  AwaitedInv'
<1> SUFFICES ASSUME NEW w \in Volumes, NEW j \in Calls, call'[w][j].pc # "idle"
             PROVE  awaited'[w] = <<j>>
  BY DEF AwaitedInv
<1>1. ~Fault
  BY DEF Fault, AwaitType
<1>2. ASSUME NEW v \in Volumes, NEW k \in Calls, Handler(v, k) \/ CommandError(v, k)
      PROVE  awaited'[w] = <<j>>
  <2>1. Moves(v, k)
    BY <1>2, HandlerMoves
  <2>2. call[w][j].pc # "idle" /\ awaited[w] = <<j>> /\ awaited[v] = <<k>>
    BY <2>1, NoCallFacts DEF Moves, OthersStay, AwaitedInv
  <2>3. CASE Unanswered(v, k) /\ call' = [call EXCEPT ![v][k] = NoCall]
    <3>1. w # v \/ j # k
      BY <2>3, NoCallFacts DEF CallInv
    <3>2. <<j>> = <<k>> => j = k
      OBVIOUS
    <3>3. w # v
      BY <2>2, <3>1, <3>2
    <3> QED
      BY <2>2, <2>3, <3>3 DEF Unanswered, AwaitType
  <2> QED
    BY <1>2, <2>2, <2>3, HandlerAwaits
<1>3. ASSUME NEW v \in Volumes, NEW k \in Calls, NEW q \in Pods,
             RequestPublish(v, k, q) \/ RequestUnpublish(v, k, q)
      PROVE  awaited'[w] = <<j>>
  <2>1. OthersStay(v, k)
    BY Zenon, <1>3, RequestFacts DEF RequestPublish, RequestUnpublish, Steps
  <2>2. awaited[v] = NoCallAwaited /\ awaited' = [awaited EXCEPT ![v] = <<k>>]
    BY <1>3 DEF RequestPublish, RequestUnpublish, Request
  <2>3. CASE w = v /\ j = k
    BY <2>2, <2>3 DEF AwaitType
  <2>4. CASE w # v \/ j # k
    <3>1. awaited[w] = <<j>>
      BY <2>1, <2>4 DEF OthersStay, AwaitedInv
    <3>2. <<j>> # NoCallAwaited
      BY DEF NoCallAwaited
    <3>3. w # v
      BY <2>2, <3>1, <3>2
    <3> QED
      BY <2>2, <3>1, <3>3 DEF AwaitType
  <2> QED
    BY <2>3, <2>4
<1>4. CASE UNCHANGED <<call, awaited>>
  BY <1>4 DEF AwaitedInv
<1> QED
  BY Zenon, <1>1, <1>2, <1>3, <1>4, AwaitSteps

\* What a call knows of its volume stays true until it ends: l, f and m are the
\* logical volume, its file system and its mounts, p the volume's pods.
Unformatted == {"isMounted", "checkFSType", "format"}

Formatted == {"mounted", "mount", "resize", "lvextend", "resizefs", "getPv", "patch"}

CallFlow(c, l, f, m, p) ==
    /\ c.pc \in {"create", "lvcreate"} => l = 0
    /\ c.pc \in {"checkFSType", "format"} => (c.isMnt <=> c.pod \in m)
    /\ c.pc = "format" => f = 0
    /\ c.pc = "mount" => c.pod \notin m
    /\ c.pc \in Formatted => (f = 0 => l = 0)
    /\ c.pc \in {"isMounted2", "unmount"} => p[c.pod] = "ending"

\* The call will fill the device with a file system.
Filling(c, f) == c.pc = "resizefs" \/ (f = 0 /\ c.pc \in Unformatted)

\* The call will tag the volume.
Tagging(c) == c.pc \in Unformatted \cup Formatted

Marked(v) == pv[v].tag \/ pv[v].phase = "Deleted"

Flow(v) ==
    /\ \A k \in Calls : CallFlow(call[v][k], lv[v], fs[v], mounted[v], pod[v])
    /\ fs[v] = lv[v] \/ \E k \in Calls : Filling(call[v][k], fs[v])
    /\ lv[v] # 0 => Marked(v) \/ \E k \in Calls : Tagging(call[v][k])

\* Flow of a volume with one call in progress.
LocalFlow(v, k) ==
    /\ CallFlow(call[v][k], lv[v], fs[v], mounted[v], pod[v])
    /\ fs[v] = lv[v] \/ Filling(call[v][k], fs[v])
    /\ lv[v] # 0 => Marked(v) \/ Tagging(call[v][k])

LEMMA IdleFlow ==
    ASSUME NEW c, c.pc = "idle"
    PROVE  /\ \A l, f, m, p : CallFlow(c, l, f, m, p)
           /\ ~Tagging(c) /\ \A f : ~Filling(c, f)
  BY DEF CallFlow, Filling, Tagging, Unformatted, Formatted

LEMMA FlowIsLocal ==
    ASSUME Alone, NEW v \in Volumes, NEW k \in Calls, call[v][k].pc # "idle", Flow(v)
    PROVE  LocalFlow(v, k)
  BY Zenon, IdleFlow DEF Alone, Flow, LocalFlow

LEMMA LocalIsFlow ==
    ASSUME Alone, NEW v \in Volumes, NEW k \in Calls, call[v][k].pc # "idle", OthersStay(v, k),
           LocalFlow(v, k)'
    PROVE  Flow(v)'
<1>1. ASSUME NEW j \in Calls, j # k
      PROVE  CallFlow(call[v][j], lv[v], fs[v], mounted[v], pod[v])'
  <2>1. call'[v][j].pc = "idle"
    BY <1>1 DEF Alone, OthersStay
  <2> QED
    BY Zenon, <2>1, IdleFlow
<1> QED
  BY Zenon, <1>1 DEF Flow, LocalFlow

\* A tagged volume stays so, and one that is gone does not come back.
LEMMA NextMarked ==
    ASSUME PvInv, [Next]_vars, NEW v \in Volumes, Marked(v)
    PROVE  Marked(v)'
  BY Zenon, NextPv DEF PvStep, SameMarks, Marked

\* A call that ends leaves a device that its file system fills, and a mark.
LEMMA ReturnFlow ==
    ASSUME CallInv, NEW v \in Volumes, NEW k \in Calls, NEW ok, Return(v, k, ok),
           fs'[v] = lv'[v], lv'[v] # 0 => Marked(v)'
    PROVE  LocalFlow(v, k)'
<1>1. call'[v][k].pc = "idle"
  BY Zenon, ReturnFacts, NoCallFacts
<1> QED
  BY Zenon, <1>1, IdleFlow DEF LocalFlow

\* The steps of a publish up to the file system.
LEMMA FormatFlow ==
    ASSUME CallInv, PvInv, NodeType, NodeInv, NEW v \in Volumes, NEW k \in Calls,
           LocalFlow(v, k), Marked(v) => Marked(v)',
           \/ Stat(v, k) \/ CreateGetPvSize(v, k) \/ CreateVolume(v, k) \/ IsMounted(v, k)
           \/ CheckFSType(v, k) \/ FormatDevice(v, k)
    PROVE  LocalFlow(v, k)'
<1> DEFINE c == call[v][k]
           d == call'[v][k]
<1> USE DEF At, podVars, nodeVars, ReturnError
<1>1. /\ lv[v] \in 0 .. MaxSize /\ fs[v] \in 0 .. MaxSize
      /\ fs[v] # 0 => lv[v] # 0
      /\ mounted[v] # {} => fs[v] # 0
  BY DEF NodeType, NodeInv
<1>2. CASE Stat(v, k)
  <2>1. d.pc = (IF lv[v] = 0 THEN "create" ELSE "isMounted") /\ UNCHANGED <<lv, fs, mounted, pod>>
    BY Zenon, <1>2, StatFacts DEF Stat
  <2>2. c.pc = "stat"
    BY <1>2 DEF Stat
  <2> HIDE DEF c, d
  <2> QED
    BY Zenon, <1>1, <2>1, <2>2 DEF LocalFlow, CallFlow, Filling, Tagging, Formatted, Unformatted, c, d
<1>3. CASE CreateGetPvSize(v, k)
  <2>1. d.pc = "lvcreate" /\ c.pc = "create" /\ UNCHANGED <<lv, fs, mounted, pod>>
    <3>1. d.pc = "lvcreate"
      BY Zenon, <1>3, PvSizeFacts DEF CreateGetPvSize, Steps
    <3> QED
      BY Zenon, <1>3, <3>1 DEF CreateGetPvSize, PvSize
  <2> QED
    BY Zenon, <1>1, <2>1 DEF LocalFlow, CallFlow, Filling, Tagging, Formatted, Unformatted
<1>4. CASE CreateVolume(v, k)
  <2>1. c.pc = "lvcreate" /\ lv[v] = 0 /\ fs[v] = 0 /\ UNCHANGED <<fs, mounted>>
    BY Zenon, <1>1, <1>4 DEF CreateVolume, LocalFlow, CallFlow
  <2>2. CASE ReturnError(v, k) /\ UNCHANGED lv
    BY Zenon, <2>1, <2>2, ReturnFlow
  <2>3. CASE Goto(v, k, "isMounted") /\ UNCHANGED pod
    <3>1. d.pc = "isMounted"
      BY Zenon, <2>1, <2>3, GotoFacts DEF Steps
    <3> QED
      BY Zenon, <2>1, <2>3, <3>1 DEF LocalFlow, CallFlow, Filling, Tagging, Formatted, Unformatted
  <2> QED
    BY Zenon, <1>4, <2>2, <2>3 DEF CreateVolume
<1>5. CASE IsMounted(v, k)
  <2>1. d.pc = "checkFSType" /\ d.pod = c.pod /\ d.isMnt = (c.pod \in mounted[v])
    BY Zenon, <1>5, IsMountedFacts
  <2>2. c.pc = "isMounted" /\ UNCHANGED <<lv, fs, mounted, pod>>
    BY <1>5 DEF IsMounted
  <2> QED
    BY ZenonT(30), <1>1, <2>1, <2>2 DEF LocalFlow, CallFlow, Filling, Tagging, Formatted, Unformatted
<1>6. CASE CheckFSType(v, k)
  <2>1. c.pc = "checkFSType" /\ UNCHANGED <<lv, fs, mounted>>
    BY Zenon, <1>6 DEF CheckFSType
  <2>2. CASE lv[v] = 0
    BY Zenon, <1>1, <1>6, <2>1, <2>2, ReturnFlow DEF CheckFSType
  <2>3. CASE lv[v] # 0 /\ fs[v] = 0
    <3>1. Goto(v, k, "format") /\ UNCHANGED pod
      BY Zenon, <1>6, <2>3 DEF CheckFSType
    <3>2. d.pc = "format" /\ d.pod = c.pod /\ d.isMnt = c.isMnt
      BY Zenon, <2>1, <3>1, GotoFacts DEF Steps
    <3> QED
      BY Zenon, <2>1, <2>3, <3>1, <3>2 DEF LocalFlow, CallFlow, Filling, Tagging, Formatted, Unformatted
  <2>4. CASE lv[v] # 0 /\ fs[v] # 0
    <3>1. Goto(v, k, IF c.isMnt THEN "mounted" ELSE "mount") /\ UNCHANGED pod
      BY Zenon, <1>6, <2>4 DEF CheckFSType, AfterFormat
    <3>2. d.pc = (IF c.isMnt THEN "mounted" ELSE "mount") /\ d.pod = c.pod
      BY Zenon, <2>1, <3>1, GotoFacts DEF Steps
    <3> QED
      BY Zenon, <2>1, <2>4, <3>1, <3>2 DEF LocalFlow, CallFlow, Filling, Tagging, Formatted, Unformatted
  <2> QED
    BY Zenon, <2>2, <2>3, <2>4
<1>7. CASE FormatDevice(v, k)
  <2>1. c.pc = "format" /\ fs[v] = 0 /\ mounted[v] = {} /\ UNCHANGED <<lv, mounted>>
    BY Zenon, <1>1, <1>7 DEF FormatDevice, LocalFlow, CallFlow
  <2>2. CASE lv[v] = 0
    BY Zenon, <1>7, <2>1, <2>2, ReturnFlow DEF FormatDevice
  <2>3. CASE lv[v] # 0
    <3>1. /\ Goto(v, k, IF c.isMnt THEN "mounted" ELSE "mount") /\ UNCHANGED pod
          /\ fs'[v] = lv[v]
      BY Zenon, <1>7, <2>1, <2>3 DEF FormatDevice, AfterFormat, NodeType
    <3>2. d.pc = (IF c.isMnt THEN "mounted" ELSE "mount") /\ d.pod = c.pod
      BY Zenon, <2>1, <3>1, GotoFacts DEF Steps
    <3> QED
      BY Zenon, <2>1, <2>3, <3>1, <3>2 DEF LocalFlow, CallFlow, Filling, Tagging, Formatted, Unformatted
  <2> QED
    BY <2>2, <2>3
<1> QED
  BY <1>2, <1>3, <1>4, <1>5, <1>6, <1>7

\* The steps from the file system to the patch.
LEMMA MountFlow ==
    ASSUME CallInv, PvInv, NodeType, NodeInv, NEW v \in Volumes, NEW k \in Calls,
           LocalFlow(v, k), Marked(v) => Marked(v)',
           \/ Mount(v, k) \/ AlreadyMounted(v, k) \/ ResizeGetPvSize(v, k)
           \/ ResizeVolume(v, k) \/ ResizeFs(v, k) \/ GetPv(v, k) \/ PatchPv(v, k)
    PROVE  LocalFlow(v, k)'
<1> DEFINE c == call[v][k]
           d == call'[v][k]
<1> USE DEF At, podVars, nodeVars, ReturnError
<1>1. /\ lv[v] \in 0 .. MaxSize /\ fs[v] \in 0 .. MaxSize /\ c.size \in 0 .. MaxSize
      /\ fs[v] # 0 => lv[v] # 0
  BY Zenon DEF NodeType, NodeInv, CallInv, Call
<1>2. c.pc \in Formatted => /\ fs[v] = 0 => lv[v] = 0
                            /\ c.pc # "resizefs" => fs[v] = lv[v]
  BY Zenon DEF LocalFlow, CallFlow, Filling, Formatted, Unformatted
<1>3. ASSUME NEW pc \in Formatted \ {"mount", "resizefs"}, d.pc = pc, c.pc \in Formatted \ {"resizefs"},
             UNCHANGED <<lv, fs, pod>>
      PROVE  LocalFlow(v, k)'
  BY Zenon, <1>1, <1>2, <1>3 DEF LocalFlow, CallFlow, Filling, Tagging, Formatted, Unformatted
<1>4. Formatted \subseteq Steps
  BY DEF Formatted, Steps
<1>5. CASE Mount(v, k)
  <2>1. c.pc = "mount" /\ c.pod \notin mounted[v] /\ UNCHANGED <<lv, fs>>
    BY Zenon, <1>5 DEF Mount, LocalFlow, CallFlow
  <2>2. CASE fs[v] = 0
    <3>1. ReturnError(v, k) /\ lv[v] = 0
      BY Zenon, <1>2, <1>5, <2>1, <2>2 DEF Mount, Formatted
    <3> QED
      BY Zenon, <2>1, <2>2, <3>1, ReturnFlow
  <2>3. CASE fs[v] # 0
    <3>1. Goto(v, k, IF c.new THEN "getPv" ELSE "resize") /\ UNCHANGED pod
      BY Zenon, <1>5, <2>1, <2>3 DEF Mount, AfterMount, TargetIsMounted
    <3>2. d.pc = (IF c.new THEN "getPv" ELSE "resize")
      BY Zenon, <2>1, <3>1, GotoFacts DEF Steps
    <3> QED
      BY Zenon, <1>3, <2>1, <3>1, <3>2 DEF Formatted
  <2> QED
    BY <2>2, <2>3
<1>6. CASE AlreadyMounted(v, k)
  <2>1. /\ c.pc = "mounted" /\ UNCHANGED <<lv, fs, pod>>
        /\ Goto(v, k, IF c.new THEN "getPv" ELSE "resize")
    BY Zenon, <1>6 DEF AlreadyMounted, AfterMount
  <2>2. d.pc = (IF c.new THEN "getPv" ELSE "resize")
    BY Zenon, <2>1, GotoFacts DEF Steps
  <2> QED
    BY Zenon, <1>3, <2>1, <2>2 DEF Formatted
<1>7. CASE ResizeGetPvSize(v, k)
  <2>1. c.pc = "resize" /\ UNCHANGED <<lv, fs, pod>> /\ PvSize(v, k, "lvextend")
    BY Zenon, <1>7 DEF ResizeGetPvSize, PvSize
  <2>2. d.pc = "lvextend"
    BY Zenon, <2>1, PvSizeFacts DEF Steps
  <2> QED
    BY Zenon, <1>3, <2>1, <2>2 DEF Formatted
<1>8. CASE ResizeVolume(v, k)
  <2>1. c.pc = "lvextend" /\ UNCHANGED fs
    BY Zenon, <1>8 DEF ResizeVolume
  <2>2. fs[v] = lv[v]
    BY Zenon, <1>2, <2>1 DEF Formatted
  <2>3. CASE lv[v] = 0
    BY Zenon, <1>8, <2>1, <2>2, <2>3, ReturnFlow DEF ResizeVolume
  <2>4. CASE lv[v] # 0 /\ lv[v] >= c.size
    <3>1. Goto(v, k, "getPv") /\ UNCHANGED <<lv, pod>>
      BY Zenon, <1>8, <2>4 DEF ResizeVolume
    <3>2. d.pc = "getPv"
      BY Zenon, <2>1, <3>1, GotoFacts DEF Steps
    <3> QED
      BY Zenon, <1>3, <2>1, <3>1, <3>2 DEF Formatted
  <2>5. CASE lv[v] # 0 /\ ~(lv[v] >= c.size)
    <3>1. Goto(v, k, "resizefs") /\ UNCHANGED pod
      BY Zenon, <1>8, <2>5 DEF ResizeVolume
    <3>2. d.pc = "resizefs"
      BY Zenon, <2>1, <3>1, GotoFacts DEF Steps
    <3> QED
      BY Zenon, <2>1, <2>2, <2>5, <3>2 DEF LocalFlow, CallFlow, Filling, Tagging, Formatted
  <2> QED
    BY Zenon, <2>3, <2>4, <2>5
<1>9. CASE ResizeFs(v, k)
  <2>1. c.pc = "resizefs" /\ UNCHANGED lv
    BY Zenon, <1>9 DEF ResizeFs
  <2>2. CASE fs[v] = 0
    BY Zenon, <1>2, <1>9, <2>1, <2>2, ReturnFlow DEF ResizeFs, Formatted
  <2>3. CASE fs[v] # 0
    <3>1. Goto(v, k, "getPv") /\ UNCHANGED pod /\ fs'[v] = lv[v]
      BY Zenon, <1>9, <2>3 DEF ResizeFs, NodeType
    <3>2. d.pc = "getPv"
      BY Zenon, <2>1, <3>1, GotoFacts DEF Steps
    <3> QED
      BY Zenon, <2>1, <3>1, <3>2 DEF LocalFlow, CallFlow, Tagging, Formatted
  <2> QED
    BY <2>2, <2>3
<1>10. CASE GetPv(v, k)
  <2>1. c.pc = "getPv" /\ fs[v] = lv[v] /\ UNCHANGED <<lv, fs>>
    BY Zenon, <1>2, <1>10 DEF GetPv, Formatted
  <2>2. CASE Marked(v)
    BY Zenon, <1>10, <2>1, <2>2, ReturnFlow DEF GetPv, Marked
  <2>3. CASE ~Marked(v)
    <3>1. Goto(v, k, "patch") /\ UNCHANGED pod
      BY Zenon, <1>10, <2>3 DEF GetPv, Marked
    <3>2. d.pc = "patch"
      BY Zenon, <2>1, <3>1, GotoFacts DEF Steps
    <3> QED
      BY Zenon, <1>3, <2>1, <3>1, <3>2 DEF Formatted
  <2> QED
    BY <2>2, <2>3
<1>11. CASE PatchPv(v, k)
  <2>1. fs[v] = lv[v] /\ UNCHANGED <<lv, fs>>
    BY <1>2, <1>11 DEF PatchPv, Formatted
  <2>2. Marked(v)'
    <3>1. CASE pv[v].phase = "Deleted"
      BY <1>11, <3>1 DEF PatchPv, Marked
    <3>2. CASE pv[v].phase # "Deleted"
      <4>1. pv \in [Volumes -> PersistentVolumeObject]
        BY DEF PvInv
      <4>2. pv' = [pv EXCEPT ![v].tag = TRUE, ![v].fin = TRUE]
        BY Zenon, <1>11, <3>2 DEF PatchPv
      <4>3. pv'[v].tag = TRUE
        BY <4>1, <4>2 DEF PersistentVolumeObject
      <4> QED
        BY Zenon, <4>3 DEF Marked
    <3> QED
      BY Zenon, <3>1, <3>2
  <2>3. PICK ok \in BOOLEAN : Return(v, k, ok)
    BY Zenon, <1>11 DEF PatchPv
  <2> QED
    BY Zenon, <2>1, <2>2, <2>3, ReturnFlow
<1> QED
  BY <1>5, <1>6, <1>7, <1>8, <1>9, <1>10, <1>11

LEMMA UnpublishFlow ==
    ASSUME CallInv, NEW v \in Volumes, NEW k \in Calls, LocalFlow(v, k), Marked(v) => Marked(v)',
           UnpublishIsMounted(v, k) \/ Unmount(v, k)
    PROVE  LocalFlow(v, k)'
<1> DEFINE c == call[v][k]
           d == call'[v][k]
<1> USE DEF At, podVars, nodeVars
<1>1. c.pc \in {"isMounted2", "unmount"} /\ UNCHANGED <<lv, fs>>
  BY Zenon DEF UnpublishIsMounted, Unmount
<1>2. fs[v] = lv[v] /\ (lv[v] # 0 => Marked(v)) /\ pod[v][c.pod] = "ending"
  BY Zenon, <1>1 DEF LocalFlow, CallFlow, Filling, Tagging, Formatted, Unformatted
<1>3. CASE Unmount(v, k) \/ Return(v, k, TRUE)
  BY Zenon, <1>1, <1>2, <1>3, ReturnFlow DEF Unmount
<1>4. CASE Goto(v, k, "unmount") /\ UNCHANGED pod
  <2>1. d.pc = "unmount" /\ d.pod = c.pod
    BY Zenon, <1>1, <1>4, GotoFacts DEF Steps
  <2> QED
    BY Zenon, <1>1, <1>2, <1>4, <2>1 DEF LocalFlow, CallFlow, Formatted
<1> QED
  BY Zenon, <1>3, <1>4 DEF UnpublishIsMounted

\* A handler leaves the other volumes alone.
SameVolume(w) ==
    lv'[w] = lv[w] /\ fs'[w] = fs[w] /\ mounted'[w] = mounted[w] /\ pod'[w] = pod[w]

LEMMA HandlerElsewhere ==
    ASSUME CallInv, NodeType, PodType, NEW v \in Volumes, NEW k \in Calls, Handler(v, k),
           NEW w \in Volumes, w # v
    PROVE  SameVolume(w)
<1> USE DEF podVars, nodeVars
<1>1. lv'[w] = lv[w]
  BY Zenon DEF Handler, Stat, CreateGetPvSize, PvSize, CreateVolume, IsMounted, CheckFSType, FormatDevice,
     Mount, AlreadyMounted, ResizeGetPvSize, ResizeVolume, ResizeFs, GetPv, PatchPv,
     UnpublishIsMounted, Unmount, NodeType
<1>2. fs'[w] = fs[w]
  BY Zenon DEF Handler, Stat, CreateGetPvSize, PvSize, CreateVolume, IsMounted, CheckFSType, FormatDevice,
     Mount, AlreadyMounted, ResizeGetPvSize, ResizeVolume, ResizeFs, GetPv, PatchPv,
     UnpublishIsMounted, Unmount, NodeType
<1>3. mounted'[w] = mounted[w]
  BY Zenon DEF Handler, Stat, CreateGetPvSize, PvSize, CreateVolume, IsMounted, CheckFSType, FormatDevice,
     Mount, MountTarget, AlreadyMounted, ResizeGetPvSize, ResizeVolume, ResizeFs, GetPv, PatchPv,
     UnpublishIsMounted, Unmount, UnmountTarget, NodeType
<1>4. ASSUME NEW ok, Return(v, k, ok) PROVE pod'[w] = pod[w]
  BY Zenon, <1>4 DEF Return, PodType
<1>5. UNCHANGED pod \/ \E ok : Return(v, k, ok)
  BY Zenon DEF Handler, Stat, CreateGetPvSize, PvSize, CreateVolume, IsMounted, CheckFSType, FormatDevice,
     Mount, AlreadyMounted, ResizeGetPvSize, ResizeVolume, ResizeFs, GetPv, PatchPv,
     UnpublishIsMounted, Unmount, ReturnError
<1> QED
  BY Zenon, <1>1, <1>2, <1>3, <1>4, <1>5 DEF SameVolume

\* The others change no call: the collector may take the logical volume, and a pod
\* that ends waits for its unpublish.
LEMMA QuietFlow ==
    ASSUME CallInv, NEW w \in Volumes, Flow(w), Marked(w) => Marked(w)',
           \A k \in Calls : call'[w][k] = call[w][k],
           mounted'[w] = mounted[w], \A q \in Pods : PodStep(w, q),
           (lv'[w] = lv[w] /\ fs'[w] = fs[w]) \/ (lv'[w] = 0 /\ fs'[w] = 0)
    PROVE  Flow(w)'
<1>1. ASSUME NEW k \in Calls, call[w][k].pc \in {"isMounted2", "unmount"}
      PROVE  pod'[w][call[w][k].pod] = "ending"
  <2>1. PICK q \in Pods : q = call[w][k].pod
    BY Zenon, <1>1 DEF CallInv
  <2>2. pod[w][q] = "ending"
    BY Zenon, <1>1, <2>1 DEF Flow, CallFlow
  <2>3. \A j \in Calls : ~(call[w][j].pc # "idle" /\ call'[w][j] = NoCall)
    BY Zenon, NoCallFacts
  <2> QED
    BY Zenon, <2>1, <2>2, <2>3 DEF PodStep
<1>2. ASSUME NEW k \in Calls
      PROVE  CallFlow(call'[w][k], lv'[w], fs'[w], mounted'[w], pod'[w])
  <2> DEFINE c == call[w][k]
  <2>1. CallFlow(c, lv[w], fs[w], mounted[w], pod[w]) /\ call'[w][k] = c
    BY Zenon DEF Flow
  <2>2. c.pc \in {"isMounted2", "unmount"} => pod'[w][c.pod] = "ending"
    BY Zenon, <1>1
  <2> HIDE DEF c
  <2> QED
    BY Zenon, <2>1, <2>2 DEF CallFlow
<1>3. fs'[w] = lv'[w] \/ \E k \in Calls : Filling(call'[w][k], fs'[w])
  <2>1. fs[w] = lv[w] \/ \E k \in Calls : Filling(call[w][k], fs[w])
    BY Zenon DEF Flow
  <2>2. CASE lv'[w] = 0 /\ fs'[w] = 0
    BY Zenon, <2>2
  <2>3. CASE lv'[w] = lv[w] /\ fs'[w] = fs[w]
    BY Zenon, <2>1, <2>3
  <2> QED
    BY Zenon, <2>2, <2>3
<1>4. lv'[w] # 0 => Marked(w)' \/ \E k \in Calls : Tagging(call'[w][k])
  <2>1. lv[w] # 0 => Marked(w) \/ \E k \in Calls : Tagging(call[w][k])
    BY Zenon DEF Flow
  <2> QED
    BY Zenon, <2>1
<1> QED
  BY Zenon, <1>2, <1>3, <1>4 DEF Flow

LEMMA HandlerFlow ==
    ASSUME CoreInv, PodType, AwaitedInv, \A w \in Volumes : Flow(w), [Next]_vars,
           NEW v \in Volumes, NEW k \in Calls, Handler(v, k), NEW w \in Volumes
    PROVE  Flow(w)'
<1> USE DEF CoreInv
<1>1. Moves(v, k) /\ call[v][k].pc # "idle" /\ OthersStay(v, k)
  BY Zenon, HandlerMoves DEF Moves
<1>2. Marked(w) => Marked(w)'
  BY NextMarked
<1>3. CASE w = v
  <2>1. LocalFlow(v, k)
    BY Zenon, <1>1, AwaitedAlone, FlowIsLocal
  <2>2. LocalFlow(v, k)'
    BY Zenon, <1>2, <1>3, <2>1, FormatFlow, MountFlow, UnpublishFlow DEF Handler
  <2> QED
    BY Zenon, <1>1, <1>3, <2>2, AwaitedAlone, LocalIsFlow
<1>4. CASE w # v
  <2>1. SameVolume(w)
    BY <1>4, HandlerElsewhere
  <2>2. \A j \in Calls : call'[w][j] = call[w][j]
    BY Zenon, <1>1, <1>4 DEF OthersStay
  <2>3. \A q \in Pods : PodStep(w, q)
    BY Zenon, <2>1 DEF SameVolume, PodStep
  <2> QED
    BY Zenon, <1>2, <2>1, <2>2, <2>3, QuietFlow DEF SameVolume
<1> QED
  BY <1>3, <1>4

LEMMA RequestFlow ==
    ASSUME CallInv, AwaitedInv, NEW v \in Volumes, NEW k \in Calls, NEW q \in Pods,
           RequestPublish(v, k, q) \/ RequestUnpublish(v, k, q), NEW w \in Volumes, Flow(w)
    PROVE  Flow(w)'
<1>1. UNCHANGED <<pv, lv, fs, mounted, pod>> /\ awaited[v] = NoCallAwaited
  BY DEF RequestPublish, RequestUnpublish, Request, nodeVars
<1>2. /\ OthersStay(v, k) /\ call'[v][k].pod = q
      /\ call'[v][k].pc = "stat" \/ (call'[v][k].pc = "isMounted2" /\ pod[v][q] = "ending")
  BY Zenon, RequestFacts DEF RequestPublish, RequestUnpublish, Steps
<1>3. CASE w # v
  <2>1. \A j \in Calls : call'[w][j] = call[w][j]
    BY Zenon, <1>2, <1>3 DEF OthersStay
  <2> QED
    BY Zenon, <1>1, <2>1 DEF Flow, Marked
<1>4. CASE w = v
  <2>1. \A j \in Calls : call[v][j].pc = "idle"
    <3>1. \A j \in Calls : <<j>> # NoCallAwaited
      BY DEF NoCallAwaited
    <3> QED
      BY Zenon, <1>1, <3>1 DEF AwaitedInv
  <2>2. fs[v] = lv[v] /\ (lv[v] # 0 => Marked(v))
    BY Zenon, <1>4, <2>1, IdleFlow DEF Flow
  <2>3. ASSUME NEW j \in Calls
        PROVE  CallFlow(call'[v][j], lv'[v], fs'[v], mounted'[v], pod'[v])
    <3>1. CASE j = k
      BY Zenon, <1>1, <1>2, <3>1 DEF CallFlow, Formatted
    <3>2. CASE j # k
      BY Zenon, <1>2, <2>1, <3>2, IdleFlow DEF OthersStay
    <3> QED
      BY Zenon, <3>1, <3>2
  <2> QED
    BY Zenon, <1>1, <1>4, <2>2, <2>3 DEF Flow, Marked
<1> QED
  BY <1>3, <1>4

LEMMA NextFlow ==
    ASSUME CoreInv, PodType, AwaitType, AwaitedInv, \A w \in Volumes : Flow(w),
           [Next]_vars, UNCHANGED faults, NEW w \in Volumes
    PROVE  Flow(w)'
<1> USE DEF CoreInv
<1>1. ~Fault
  BY DEF Fault, AwaitType
<1>2. ASSUME NEW v \in Volumes, NEW k \in Calls, Handler(v, k) PROVE Flow(w)'
  BY <1>2, HandlerFlow
<1>3. ASSUME NEW v \in Volumes, NEW k \in Calls PROVE ~CommandError(v, k)
  BY <1>1 DEF CommandError
<1>4. ASSUME NEW v \in Volumes, NEW k \in Calls, NEW q \in Pods,
             RequestPublish(v, k, q) \/ RequestUnpublish(v, k, q)
      PROVE  Flow(w)'
  BY Zenon, <1>4, RequestFlow
<1>5. CASE UNCHANGED <<call, awaited>>
  <2>1. \A q \in Pods : PodStep(w, q)
    BY NextPod
  <2>2. Marked(w) => Marked(w)'
    BY NextMarked
  <2>3. CASE UNCHANGED nodeVars
    BY Zenon, <1>5, <2>1, <2>2, <2>3, QuietFlow DEF nodeVars
  <2>4. ASSUME NEW v \in Volumes, Write(v) PROVE Flow(w)'
    BY Zenon, <1>5, <2>1, <2>2, <2>4, QuietFlow DEF Write
  <2>5. ASSUME NEW v \in Volumes, GcDeleteVolume(v) PROVE Flow(w)'
    <3>1. CASE RemoveLv(v)
      <4>1. mounted' = mounted /\ ((lv'[w] = lv[w] /\ fs'[w] = fs[w]) \/ (lv'[w] = 0 /\ fs'[w] = 0))
        BY Zenon, <3>1 DEF RemoveLv, NodeType
      <4> QED
        BY Zenon, <1>5, <2>1, <2>2, <4>1, QuietFlow
    <3> QED
      BY Zenon, <2>3, <2>5, <3>1 DEF GcDeleteVolume
  <2>6. ASSUME NEW v \in Volumes, NEW k \in Calls,
               \/ CreateVolume(v, k) \/ FormatDevice(v, k) \/ Mount(v, k)
               \/ ResizeVolume(v, k) \/ ResizeFs(v, k) \/ Unmount(v, k)
        PROVE  Flow(w)'
    BY Zenon, <1>2, <2>6 DEF Handler
  <2>7. ~Reboot
    BY Zenon, <1>1 DEF Reboot
  <2> QED
    BY Zenon, <2>3, <2>4, <2>5, <2>6, <2>7, NodeSteps DEF NodeStep
<1> QED
  BY Zenon, <1>1, <1>2, <1>3, <1>4, <1>5, AwaitSteps

\* The invariant of the behaviours without faults.
FaultFreeInv == faults = 0 => AwaitedInv /\ \A v \in Volumes : Flow(v)

FlowInv == CoreInv /\ PodType /\ AwaitType /\ FaultFreeInv

LEMMA FaultsKept == AwaitType /\ [Next]_vars /\ faults' = 0 => faults = 0 /\ UNCHANGED faults
  BY FaultStep DEF AwaitType, Fault

LEMMA InitFlow == Init => FlowInv
<1> SUFFICES ASSUME Init PROVE PodType /\ AwaitType /\ AwaitedInv /\ \A v \in Volumes : Flow(v)
  BY CoreInit DEF FlowInv, FaultFreeInv
<1>1. AwaitType
  <2>1. faults \in 0 .. MaxFaults
    BY Bounds DEF Init
  <2>2. awaited \in [Volumes -> Waits]
    BY Zenon DEF Init, Waits
  <2> QED
    BY Zenon, <2>1, <2>2 DEF AwaitType
<1>2. PodType
  BY DEF Init, PodType
<1>3. \A v \in Volumes, k \in Calls : call[v][k].pc = "idle"
  BY Zenon, NoCallFacts DEF Init
<1>4. \A v \in Volumes : fs[v] = 0 /\ lv[v] = 0
  BY DEF Init
<1> QED
  BY Zenon, <1>1, <1>2, <1>3, <1>4, IdleFlow DEF AwaitedInv, Flow

LEMMA NextFlowInv == FlowInv /\ [Next]_vars => FlowInv'
<1> SUFFICES ASSUME FlowInv, [Next]_vars PROVE FlowInv'
  OBVIOUS
<1>1. CoreInv' /\ PodType' /\ AwaitType'
  BY Zenon, CoreNext, NextPod, NextAwaitType DEF FlowInv, CoreInv
<1>2. ASSUME faults' = 0 PROVE AwaitedInv' /\ \A v \in Volumes : Flow(v)'
  <2>1. faults = 0 /\ UNCHANGED faults
    BY <1>2, FaultsKept DEF FlowInv
  <2>2. AwaitedInv /\ \A v \in Volumes : Flow(v)
    BY <2>1 DEF FlowInv, FaultFreeInv
  <2> QED
    BY <2>1, <2>2, NextAwaited, NextFlow DEF FlowInv, CoreInv
<1> QED
  BY <1>1, <1>2 DEF FlowInv, FaultFreeInv

\* A pod runs because the call kubelet waits for has succeeded.
LEMMA RunsStep ==
    ASSUME CallInv, PodType, [Next]_vars, NEW w \in Volumes, NEW q \in Pods,
           pod[w][q] = "waiting", pod'[w][q] = "running"
    PROVE  \E k \in Calls :
              /\ GetPv(w, k) \/ PatchPv(w, k) \/ UnpublishIsMounted(w, k) \/ Unmount(w, k)
              /\ call[w][k].pod = q
<1>1. pod' # pod
  OBVIOUS
<1>2. ASSUME NEW v \in Volumes, NEW k \in Calls, NEW ok, Return(v, k, ok)
      PROVE  v = w /\ call[v][k].pod = q
  BY Zenon, <1>2 DEF Return, PodType
<1>3. ASSUME NEW v \in Volumes, NEW k \in Calls PROVE ~Return(v, k, FALSE)
  BY Zenon, <1>2 DEF Return, PodType
<1>4. ASSUME NEW v \in Volumes, NEW k \in Calls, Handler(v, k) \/ CommandError(v, k)
      PROVE  GetPv(v, k) \/ PatchPv(v, k) \/ UnpublishIsMounted(v, k) \/ Unmount(v, k)
  BY Zenon, <1>1, <1>3, <1>4 DEF Handler, CommandError, Stat, CreateGetPvSize, PvSize, CreateVolume, IsMounted,
     CheckFSType, FormatDevice, Mount, AlreadyMounted, ResizeGetPvSize, ResizeVolume, ResizeFs,
     ReturnError, podVars
<1>5. ASSUME NEW v \in Volumes, NEW k \in Calls,
             GetPv(v, k) \/ PatchPv(v, k) \/ UnpublishIsMounted(v, k) \/ Unmount(v, k)
      PROVE  v = w /\ call[v][k].pod = q
  <2>1. \E ok : Return(v, k, ok)
    BY Zenon, <1>1, <1>5 DEF GetPv, PatchPv, UnpublishIsMounted, Unmount, ReturnError, podVars
  <2> QED
    BY Zenon, <1>2, <2>1
<1>6. ASSUME NEW v \in Volumes PROVE ~Kubelet(v)
  <2>1. ASSUME NEW r \in Pods PROVE ~StartPod(v, r)
    BY Zenon DEF StartPod, PodType
  <2>2. ASSUME NEW r \in Pods PROVE ~EndPod(v, r)
    BY DEF EndPod, PodType
  <2>3. ASSUME NEW r \in Pods, NEW k \in Calls PROVE ~(RequestPublish(v, k, r) \/ RequestUnpublish(v, k, r))
    BY <1>1 DEF RequestPublish, RequestUnpublish, Request
  <2>4. ~(Timeout(v) \/ Write(v))
    BY Zenon, <1>1 DEF Timeout, Write, podVars
  <2> QED
    BY Zenon, <2>1, <2>2, <2>3, <2>4 DEF Kubelet
<1>7. ASSUME NEW v \in Volumes
      PROVE  ~(\/ ControllerExpandVolume(v) \/ ReleaseVolume(v) \/ DeleteVolume(v)
               \/ GcSync(v) \/ GcResync(v) \/ Collector(v))
  BY <1>1 DEF ControllerExpandVolume, ReleaseVolume, DeleteVolume, GcSync, GcResync, Collector,
     GcReconcile, GcDeleteVolume, GcUpdate, podVars
<1>8. ~(DriverCrash \/ CollectorCrash \/ UNCHANGED vars)
  BY Zenon, <1>1 DEF DriverCrash, CollectorCrash, vars, podVars
<1>9. ~Reboot
  BY DEF Reboot, PodType
<1> QED
  BY Zenon, <1>4, <1>5, <1>6, <1>7, <1>8, <1>9 DEF Next

LEMMA GrownStep ==
    ASSUME FlowInv, [Next]_vars
    PROVE  FilesystemGrownStep
<1> SUFFICES ASSUME NEW v \in Volumes, NEW q \in Pods, pod[v][q] = "waiting", pod'[v][q] = "running",
                    faults = 0
             PROVE  fs'[v] = lv'[v]
  BY DEF FilesystemGrownStep
<1>1. AwaitedInv /\ Flow(v) /\ CallInv /\ PodType
  BY DEF FlowInv, FaultFreeInv, CoreInv
<1>2. PICK k \in Calls :
         /\ GetPv(v, k) \/ PatchPv(v, k) \/ UnpublishIsMounted(v, k) \/ Unmount(v, k)
         /\ call[v][k].pod = q
  BY Zenon, <1>1, RunsStep
<1>3. call[v][k].pc \in {"getPv", "patch", "isMounted2", "unmount"} /\ UNCHANGED <<lv, fs>>
  BY Zenon, <1>2 DEF GetPv, PatchPv, UnpublishIsMounted, Unmount, At, nodeVars
<1>4. LocalFlow(v, k)
  BY Zenon, <1>1, <1>3, AwaitedAlone, FlowIsLocal
<1>5. fs[v] = lv[v]
  BY Zenon, <1>3, <1>4 DEF LocalFlow, Filling, Unformatted
<1> QED
  BY Zenon, <1>3, <1>5

\* While nothing fails, a publish that succeeds leaves a file system that fills its
\* device, be it new, mounted already or extended: a pod never starts on less.
THEOREM FilesystemFillsDevice == Spec => FilesystemGrown
<1>1. FlowInv /\ [Next]_vars => [FilesystemGrownStep]_vars
  BY GrownStep
<1> QED
  BY <1>1, InitFlow, NextFlowInv, PTL DEF Spec, FilesystemGrown

\* While nothing fails, a volume without a claim has a tag, or no logical volume.
LeakInv == faults = 0 => UseInv /\ FinalizerInv /\ NothingLeaked

LEMMA NextLeak ==
    ASSUME ~ForceDelete, FlowInv, LeakInv, [Next]_vars
    PROVE  LeakInv'
<1> SUFFICES ASSUME faults' = 0 PROVE UseInv' /\ FinalizerInv' /\ NothingLeaked'
  BY DEF LeakInv
<1>1. faults = 0
  BY FaultsKept DEF FlowInv
<1>2. /\ CoreInv /\ PodType /\ Alone /\ UseInv /\ FinalizerInv /\ NothingLeaked
      /\ \A v \in Volumes : Flow(v)
  BY <1>1, AwaitedAlone DEF FlowInv, FaultFreeInv, LeakInv
<1>3. UseInv' /\ FinalizerInv'
  BY <1>2, UseNext, FinalizerNext
<1>4. ASSUME NEW w \in Volumes, pv'[w].phase = "Deleted" PROVE lv'[w] = 0
  <2>1. CASE pv[w].phase = "Bound"
    BY Zenon, <1>2, <1>4, <2>1, NextPv DEF CoreInv, PvStep, ReleasedInv
  <2>2. CASE pv[w].phase # "Bound"
    <3>1. \A k \in Calls : call[w][k].pc = "idle"
      BY SMTT(30), <1>2, <2>2 DEF UseInv, CoreInv, CallInv
    <3>2. lv[w] = 0 => lv'[w] = 0
      BY Zenon, <1>2, <3>1, LvStep DEF CoreInv
    <3>3. lv[w] # 0 => pv[w].tag /\ pv[w].phase # "Deleted"
      BY Zenon, <1>1, <1>2, <3>1, IdleFlow DEF Flow, Marked, NothingLeaked
    <3>4. lv[w] = 0
      <4> SUFFICES ASSUME lv[w] # 0 PROVE FALSE
        OBVIOUS
      <4>1. pv[w].tag /\ pv[w].phase # "Deleted" /\ pv[w].fin /\ gcPc[w] # "update"
        BY Zenon, <1>2, <3>3 DEF FinalizerInv
      <4>2. PvStep(w)
        BY Zenon, <1>2, NextPv DEF CoreInv
      <4> QED
        BY ZenonT(30), <1>4, <2>2, <4>1, <4>2 DEF PvStep
    <3> QED
      BY <3>2, <3>4
  <2> QED
    BY Zenon, <2>1, <2>2
<1> QED
  BY Zenon, <1>3, <1>4 DEF NothingLeaked

\* While nothing fails and claims are deleted only when no pod uses them, no logical
\* volume is left when its PersistentVolume is gone: every publish that made one has
\* tagged the volume before its pod could end.
THEOREM NothingLeaks ==
    ASSUME ~ForceDelete
    PROVE  Spec => []NothingLeaked
<1>1. Init => LeakInv
  <2> SUFFICES ASSUME Init PROVE UseInv /\ FinalizerInv /\ NothingLeaked
    BY DEF LeakInv
  <2>1. \A v \in Volumes : pv[v].phase = "Bound" /\ ~pv[v].tag /\ lv[v] = 0
    BY Zenon DEF Init, NewPersistentVolume
  <2>2. \A v \in Volumes : gcPc[v] = "idle" /\ \A k \in Calls : call[v][k].pc = "idle"
    BY NoCallFacts DEF Init
  <2> QED
    BY Zenon, <2>1, <2>2 DEF UseInv, FinalizerInv, NothingLeaked
<1>2. FlowInv /\ LeakInv /\ [Next]_vars => FlowInv' /\ LeakInv'
  BY NextFlowInv, NextLeak
<1>3. LeakInv => NothingLeaked
  BY Zenon DEF LeakInv, NothingLeaked
<1> QED
  BY <1>1, <1>2, <1>3, InitFlow, PTL DEF Spec
----------------------------------------------------------------------------
(* The life of a logical volume *)

\* A publish that has come past mkfs works on a file system; the finalizer comes
\* with the tag and the collector acts on tagged volumes only, whatever the age of
\* its cache; and a bound volume with the tag has its logical volume.
LifeInv ==
    \A v \in Volumes :
        /\ \A k \in Calls : call[v][k].pc \in Formatted => fs[v] # 0
        /\ pv[v].fin \/ gcPv[v].fin \/ gcPc[v] # "idle" => pv[v].tag
        /\ pv[v].phase = "Bound" /\ pv[v].tag => lv[v] # 0

LEMMA CallBound ==
    ASSUME CallInv, UseInv, NEW v \in Volumes, NEW k \in Calls, call[v][k].pc # "idle"
    PROVE  pv[v].phase = "Bound"
<1>1. call[v][k].pod \in Pods /\ pod[v][call[v][k].pod] # "none"
  BY Zenon DEF CallInv, UseInv
<1> QED
  BY Zenon, <1>1 DEF UseInv

\* While the claim is there, nothing takes the logical volume or its file system.
LEMMA BoundKeeps ==
    ASSUME CoreInv, [Next]_vars, NEW w \in Volumes, pv[w].phase = "Bound"
    PROVE  (fs[w] # 0 => fs'[w] # 0) /\ (lv[w] # 0 => lv'[w] # 0)
<1> USE DEF CoreInv
<1>1. fs[w] \in 0 .. MaxSize /\ lv[w] \in 0 .. MaxSize /\ (fs[w] # 0 => lv[w] # 0)
  BY DEF NodeType, NodeInv
<1>2. ASSUME NEW v \in Volumes, NEW k \in Calls, CreateVolume(v, k)
      PROVE  UNCHANGED fs /\ (lv[w] # 0 => lv'[w] # 0)
  BY <1>1, <1>2 DEF CreateVolume, NodeType
<1>3. ASSUME NEW v \in Volumes, NEW k \in Calls, FormatDevice(v, k)
      PROVE  UNCHANGED lv /\ (fs[w] # 0 => fs'[w] # 0)
  BY <1>3 DEF FormatDevice, NodeType
<1>4. ASSUME NEW v \in Volumes, NEW k \in Calls, Mount(v, k) \/ Unmount(v, k)
      PROVE  UNCHANGED <<lv, fs>>
  BY Zenon, <1>4 DEF Mount, Unmount
<1>5. ASSUME NEW v \in Volumes, NEW k \in Calls, ResizeVolume(v, k)
      PROVE  UNCHANGED fs /\ (lv[w] # 0 => lv'[w] # 0)
  <2>1. call[v][k].size \in 0 .. MaxSize
    BY Zenon DEF CallInv, Call
  <2>2. /\ UNCHANGED fs
        /\ \/ UNCHANGED lv
           \/ lv' = [lv EXCEPT ![v] = call[v][k].size] /\ ~(lv[v] >= call[v][k].size)
    BY Zenon, <1>5 DEF ResizeVolume
  <2> QED
    BY <1>1, <2>1, <2>2 DEF NodeType
<1>6. ASSUME NEW v \in Volumes, NEW k \in Calls, ResizeFs(v, k)
      PROVE  UNCHANGED lv /\ (fs[w] # 0 => fs'[w] # 0)
  BY <1>1, <1>6 DEF ResizeFs, NodeType
<1>7. ASSUME NEW v \in Volumes, GcDeleteVolume(v)
      PROVE  lv'[w] = lv[w] /\ fs'[w] = fs[w]
  <2>1. gcPc[w] = "idle"
    BY DEF ReleasedInv
  <2>2. v # w
    BY <1>7, <2>1 DEF GcDeleteVolume
  <2> QED
    BY <1>7, <2>2 DEF GcDeleteVolume, RemoveLv, NodeType, nodeVars
<1>8. ASSUME NEW v \in Volumes, Write(v) PROVE UNCHANGED <<lv, fs>>
  BY <1>8 DEF Write
<1>9. CASE UNCHANGED nodeVars \/ Reboot
  BY <1>9 DEF nodeVars, Reboot
<1> QED
  BY Zenon, <1>2, <1>3, <1>4, <1>5, <1>6, <1>7, <1>8, <1>9, NodeSteps DEF NodeStep

\* A call comes past mkfs only with a file system on the device.
LEMMA FormattedHandler ==
    ASSUME CallInv, PvInv, NodeType, NEW v \in Volumes, NEW k \in Calls,
           Handler(v, k) \/ CommandError(v, k), call'[v][k].pc \in Formatted
    PROVE  call[v][k].pc \in Formatted \/ fs'[v] # 0
<1> USE DEF At, ReturnError
<1>1. ASSUME NEW ok, Return(v, k, ok) PROVE FALSE
  BY <1>1, ReturnFacts, NoCallFacts DEF Formatted
<1>2. ASSUME NEW pc \in Steps, Goto(v, k, pc), call[v][k].pc # "idle" PROVE pc \in Formatted
  BY <1>2, GotoFacts
<1>3. CASE Stat(v, k)
  BY <1>3, StatFacts DEF Formatted
<1>4. CASE CreateGetPvSize(v, k)
  <2>1. call'[v][k].pc = "lvcreate"
    BY <1>4, PvSizeFacts DEF CreateGetPvSize, Steps
  <2> QED
    BY <2>1 DEF Formatted
<1>5. CASE CreateVolume(v, k)
  BY Zenon, <1>1, <1>2, <1>5 DEF CreateVolume, Steps, Formatted
<1>6. CASE IsMounted(v, k)
  BY <1>6, IsMountedFacts DEF Formatted
<1>7. CASE CheckFSType(v, k)
  <2>1. fs[v] = 0 => Goto(v, k, "format") /\ call[v][k].pc # "idle"
    BY Zenon, <1>1, <1>7 DEF CheckFSType
  <2>2. "format" \in Steps /\ "format" \notin Formatted
    BY DEF Steps, Formatted
  <2>3. fs[v] # 0
    BY Zenon, <1>2, <2>1, <2>2
  <2> QED
    BY <1>7, <2>3 DEF CheckFSType, nodeVars
<1>8. CASE FormatDevice(v, k)
  <2>1. lv[v] # 0 /\ fs' = [fs EXCEPT ![v] = lv[v]]
    BY Zenon, <1>1, <1>8 DEF FormatDevice
  <2> QED
    BY <2>1 DEF NodeType
<1>9. CASE UnpublishIsMounted(v, k)
  BY Zenon, <1>1, <1>2, <1>9 DEF UnpublishIsMounted, Steps, Formatted
<1>10. CASE Unmount(v, k)
  BY Zenon, <1>1, <1>10 DEF Unmount
<1>11. CASE CommandError(v, k)
  BY Zenon, <1>1, <1>11 DEF CommandError
<1>12. CASE \/ Mount(v, k) \/ AlreadyMounted(v, k) \/ ResizeGetPvSize(v, k)
            \/ ResizeVolume(v, k) \/ ResizeFs(v, k) \/ GetPv(v, k) \/ PatchPv(v, k)
  BY Zenon, <1>12 DEF Mount, AlreadyMounted, ResizeGetPvSize, ResizeVolume, ResizeFs, GetPv, PatchPv, Formatted
<1> QED
  BY Zenon, <1>3, <1>4, <1>5, <1>6, <1>7, <1>8, <1>9, <1>10, <1>11, <1>12 DEF Handler

LEMMA FormattedNext ==
    ASSUME CoreInv, UseInv, LifeInv, [Next]_vars, NEW w \in Volumes, NEW j \in Calls,
           call'[w][j].pc \in Formatted
    PROVE  fs'[w] # 0
<1> USE DEF CoreInv
<1>1. call[w][j].pc \in Formatted => fs'[w] # 0
  <2> SUFFICES ASSUME call[w][j].pc \in Formatted PROVE fs'[w] # 0
    OBVIOUS
  <2>1. call[w][j].pc # "idle"
    BY DEF Formatted
  <2>2. pv[w].phase = "Bound"
    BY <2>1, CallBound
  <2>3. fs[w] # 0
    BY Zenon DEF LifeInv
  <2> QED
    BY <2>2, <2>3, BoundKeeps
<1>2. ASSUME NEW v \in Volumes, NEW k \in Calls, Handler(v, k) \/ CommandError(v, k)
      PROVE  fs'[w] # 0
  <2>1. CASE v = w /\ k = j
    BY <1>1, <1>2, <2>1, FormattedHandler
  <2>2. CASE ~(v = w /\ k = j)
    <3>1. OthersStay(v, k)
      BY <1>2, HandlerMoves DEF Moves
    <3> QED
      BY <1>1, <2>2, <3>1 DEF OthersStay
  <2> QED
    BY <2>1, <2>2
<1>3. ASSUME NEW v \in Volumes, NEW k \in Calls, NEW q \in Pods,
             RequestPublish(v, k, q) \/ RequestUnpublish(v, k, q)
      PROVE  fs'[w] # 0
  <2>1. OthersStay(v, k) /\ call'[v][k].pc \notin Formatted
    BY <1>3, RequestFacts DEF RequestPublish, RequestUnpublish, Steps, Formatted
  <2> QED
    BY <1>1, <2>1 DEF OthersStay
<1>4. CASE DriverStops
  BY <1>4, StopsFacts DEF Formatted
<1> QED
  BY Zenon, <1>1, <1>2, <1>3, <1>4, CallSteps

LEMMA LifeNext ==
    ASSUME CoreInv, UseInv, LifeInv, [Next]_vars
    PROVE  LifeInv'
<1> USE DEF CoreInv
<1> SUFFICES ASSUME NEW w \in Volumes
             PROVE  /\ \A k \in Calls : call'[w][k].pc \in Formatted => fs'[w] # 0
                    /\ pv'[w].fin \/ gcPv'[w].fin \/ gcPc'[w] # "idle" => pv'[w].tag
                    /\ pv'[w].phase = "Bound" /\ pv'[w].tag => lv'[w] # 0
  BY Zenon DEF LifeInv
<1>1. PvStep(w) /\ GcStep(w)
  BY NextPv, NextGc
<1>2. pv[w].tag => pv'[w].tag
  BY Zenon, <1>1 DEF PvStep, SameMarks
<1>3. pv[w].fin \/ gcPv[w].fin \/ gcPc[w] # "idle" => pv[w].tag
  BY Zenon DEF LifeInv
<1>4. pv'[w].fin => pv'[w].tag
  BY Zenon, <1>1, <1>2, <1>3 DEF PvStep, SameMarks
<1>5. gcPv'[w].fin => pv'[w].tag
  BY Zenon, <1>1, <1>2, <1>3 DEF GcStep
<1>6. gcPc'[w] # "idle" => pv'[w].tag
  BY <1>1, <1>2, <1>3 DEF GcStep
<1>7. ASSUME pv'[w].phase = "Bound", pv'[w].tag PROVE lv'[w] # 0
  <2>1. pv[w].phase = "Bound"
    BY <1>7, NextReleased DEF PhaseStep
  <2>2. CASE pv[w].tag
    BY <2>1, <2>2, BoundKeeps DEF LifeInv
  <2>3. CASE \E k \in Calls : call[w][k].pc = "patch"
    <3>1. fs[w] # 0
      BY <2>3 DEF LifeInv, Formatted
    <3> QED
      BY <2>1, <3>1, BoundKeeps DEF NodeInv
  <2> QED
    BY Zenon, <1>1, <1>7, <2>1, <2>2, <2>3 DEF PvStep, SameMarks
<1> QED
  BY Zenon, <1>4, <1>5, <1>6, <1>7, FormattedNext

\* A step changes the logical volume of at most one volume: the collector removes
\* it, or a publish makes it or makes it larger.
LvMoves(v) ==
    \/ gcPc[v] = "lvremove" /\ lv' = [lv EXCEPT ![v] = 0]
    \/ /\ \E k \in Calls : call[v][k].pc # "idle"
       /\ \E n \in 1 .. MaxSize : lv[v] < n /\ lv' = [lv EXCEPT ![v] = n]

LEMMA LvSteps ==
    ASSUME CoreInv, [Next]_vars
    PROVE  UNCHANGED lv \/ (UNCHANGED pv /\ \E v \in Volumes : LvMoves(v))
<1> USE DEF CoreInv
<1>1. ASSUME NEW v \in Volumes, NEW k \in Calls
      PROVE  call[v][k].size \in 0 .. MaxSize /\ lv[v] \in 0 .. MaxSize /\ MaxSize \in Nat
  BY Zenon, Bounds DEF CallInv, Call, NodeType
<1>2. ASSUME NEW v \in Volumes, NEW k \in Calls, CreateVolume(v, k)
      PROVE  UNCHANGED pv /\ (UNCHANGED lv \/ LvMoves(v))
  <2>1. CASE UNCHANGED lv
    BY <1>2, <2>1 DEF CreateVolume
  <2>2. CASE ~(UNCHANGED lv)
    <3>1. /\ lv' = [lv EXCEPT ![v] = call[v][k].size] /\ ~(lv[v] > 0) /\ call[v][k].size # 0
          /\ call[v][k].pc = "lvcreate" /\ UNCHANGED pv
      BY <1>2, <2>2 DEF CreateVolume, At
    <3>2. call[v][k].size \in 1 .. MaxSize /\ lv[v] < call[v][k].size
      BY <1>1, <3>1
    <3> QED
      BY Zenon, <3>1, <3>2 DEF LvMoves
  <2> QED
    BY <2>1, <2>2
<1>3. ASSUME NEW v \in Volumes, NEW k \in Calls, ResizeVolume(v, k)
      PROVE  UNCHANGED pv /\ (UNCHANGED lv \/ LvMoves(v))
  <2>1. CASE UNCHANGED lv
    BY <1>3, <2>1 DEF ResizeVolume
  <2>2. CASE ~(UNCHANGED lv)
    <3>1. /\ lv' = [lv EXCEPT ![v] = call[v][k].size] /\ ~(lv[v] >= call[v][k].size)
          /\ call[v][k].pc = "lvextend" /\ UNCHANGED pv
      BY <1>3, <2>2 DEF ResizeVolume, At
    <3>2. call[v][k].size \in 1 .. MaxSize /\ lv[v] < call[v][k].size
      BY <1>1, <3>1
    <3> QED
      BY Zenon, <3>1, <3>2 DEF LvMoves
  <2> QED
    BY <2>1, <2>2
<1>4. ASSUME NEW v \in Volumes, NEW k \in Calls,
             FormatDevice(v, k) \/ Mount(v, k) \/ ResizeFs(v, k) \/ Unmount(v, k)
      PROVE  UNCHANGED lv
  BY Zenon, <1>4 DEF FormatDevice, Mount, ResizeFs, Unmount
<1>5. ASSUME NEW v \in Volumes, GcDeleteVolume(v)
      PROVE  UNCHANGED pv /\ (UNCHANGED lv \/ LvMoves(v))
  BY Zenon, <1>5 DEF GcDeleteVolume, RemoveLv, LvMoves, nodeVars
<1>6. ASSUME NEW v \in Volumes, Write(v) PROVE UNCHANGED lv
  BY <1>6 DEF Write
<1>7. CASE UNCHANGED nodeVars \/ Reboot
  BY <1>7 DEF nodeVars, Reboot
<1> QED
  BY Zenon, <1>2, <1>3, <1>4, <1>5, <1>6, <1>7, NodeSteps DEF NodeStep

\* A step changes at most one PersistentVolume.
LEMMA PvFrame ==
    ASSUME PvInv, [Next]_vars
    PROVE  UNCHANGED pv \/ \E v \in Volumes : \A w \in Volumes \ {v} : pv'[w] = pv[w]
<1>1. ASSUME NEW v \in Volumes, NEW k \in Calls, Handler(v, k) \/ CommandError(v, k)
      PROVE  UNCHANGED pv \/ PatchPv(v, k)
  BY ZenonT(30), <1>1 DEF Handler, CommandError, Stat, CreateGetPvSize, PvSize, CreateVolume, IsMounted, CheckFSType,
     FormatDevice, Mount, AlreadyMounted, ResizeGetPvSize, ResizeVolume, ResizeFs, GetPv, UnpublishIsMounted, Unmount
<1>2. ASSUME NEW v \in Volumes, NEW k \in Calls, PatchPv(v, k)
      PROVE  \A w \in Volumes \ {v} : pv'[w] = pv[w]
  BY Zenon, <1>2 DEF PatchPv, PvInv
<1>3. ASSUME NEW v \in Volumes, Kubelet(v) PROVE UNCHANGED pv
  BY Zenon, <1>3 DEF Kubelet, StartPod, EndPod, RequestPublish, RequestUnpublish, Request, Timeout, Write
<1>4. ASSUME NEW v \in Volumes, GcSync(v) \/ GcResync(v) \/ Collector(v)
      PROVE  \A w \in Volumes \ {v} : pv'[w] = pv[w]
  BY <1>4 DEF GcSync, GcResync, Collector, GcReconcile, GcDeleteVolume, GcUpdate, PvInv
<1>5. ASSUME NEW v \in Volumes, ControllerExpandVolume(v) \/ ReleaseVolume(v) \/ DeleteVolume(v)
      PROVE  \A w \in Volumes \ {v} : pv'[w] = pv[w]
  BY <1>5 DEF ControllerExpandVolume, ReleaseVolume, DeleteVolume, PvInv
<1>6. CASE DriverCrash \/ CollectorCrash \/ Reboot \/ UNCHANGED vars
  BY <1>6 DEF DriverCrash, CollectorCrash, Reboot, vars
<1> QED
  BY Zenon, <1>1, <1>2, <1>3, <1>4, <1>5, <1>6 DEF Next

\* What VolumeLifecycle sees of the PersistentVolumes.
Phase == [v \in Volumes |-> pv[v].phase]
Tag == [v \in Volumes |-> pv[v].tag]
Fin == [v \in Volumes |-> pv[v].fin]

LEMMA SameSeen ==
    ASSUME PvInv, NEW v \in Volumes, \A w \in Volumes \ {v} : pv'[w] = pv[w]
    PROVE  /\ pv'[v].phase = pv[v].phase => Phase' = Phase
           /\ pv'[v].tag = pv[v].tag => Tag' = Tag
           /\ pv'[v].fin = pv[v].fin => Fin' = Fin
  BY DEF Phase, Tag, Fin

LEMMA ChangedSeen ==
    ASSUME PvInv, NEW v \in Volumes, \A w \in Volumes \ {v} : pv'[w] = pv[w]
    PROVE  /\ Phase' = [Phase EXCEPT ![v] = pv'[v].phase]
           /\ Tag' = [Tag EXCEPT ![v] = pv'[v].tag]
           /\ Fin' = [Fin EXCEPT ![v] = pv'[v].fin]
  BY Zenon DEF Phase, Tag, Fin

LEMMA Seen ==
    ASSUME NEW v \in Volumes
    PROVE  Phase[v] = pv[v].phase /\ Tag[v] = pv[v].tag /\ Fin[v] = pv[v].fin
  BY DEF Phase, Tag, Fin

\* A step that changes a logical volume makes it, grows it or removes it.
LEMMA LvRefines ==
    ASSUME CoreInv, UseInv, FinalizerInv, LifeInv, UNCHANGED pv, NEW v \in Volumes, LvMoves(v)
    PROVE  Lifecycle!Next \/ UNCHANGED Lifecycle!vars
<1> USE DEF CoreInv
<1>1. lv \in [Volumes -> 0 .. MaxSize] /\ MaxSize \in Nat
  BY Bounds DEF NodeType
<1>2. Phase' = Phase /\ Tag' = Tag /\ Fin' = Fin
  BY Zenon DEF Phase, Tag, Fin
<1>3. Phase[v] = pv[v].phase /\ Tag[v] = pv[v].tag /\ Fin[v] = pv[v].fin
  BY Seen
<1>4. CASE gcPc[v] = "lvremove" /\ lv' = [lv EXCEPT ![v] = 0]
  <2>1. CASE lv[v] = 0
    <3>1. lv' = lv
      BY <1>1, <1>4, <2>1
    <3> QED
      BY Zenon, <1>2, <3>1 DEF Lifecycle!vars, Phase, Tag, Fin
  <2>2. CASE lv[v] # 0
    <3>1. pv[v].tag /\ pv[v].phase # "Bound"
      BY <1>4 DEF LifeInv, ReleasedInv
    <3>2. pv[v].fin /\ pv[v].phase # "Deleted"
      BY <2>2, <3>1 DEF FinalizerInv
    <3>3. pv[v].phase = "Released"
      BY <3>1, <3>2 DEF PvInv, PersistentVolumeObject
    <3>4. lv[v] > 0
      BY <1>1, <2>2
    <3>5. Lifecycle!Remove(v)
      BY Zenon, <1>2, <1>3, <1>4, <3>2, <3>3, <3>4 DEF Lifecycle!Remove, Phase, Tag, Fin
    <3> QED
      BY Zenon, <3>5 DEF Lifecycle!Next
  <2> QED
    BY <2>1, <2>2
<1>5. CASE /\ \E k \in Calls : call[v][k].pc # "idle"
           /\ \E n \in 1 .. MaxSize : lv[v] < n /\ lv' = [lv EXCEPT ![v] = n]
  <2>1. pv[v].phase = "Bound"
    BY <1>5, CallBound
  <2>2. PICK n \in 1 .. MaxSize : lv[v] < n /\ lv' = [lv EXCEPT ![v] = n]
    BY Zenon, <1>5
  <2>3. CASE lv[v] = 0
    <3>1. ~pv[v].tag
      BY <2>1, <2>3 DEF LifeInv
    <3>2. Lifecycle!Make(v)
      BY Zenon, <1>2, <1>3, <2>1, <2>2, <2>3, <3>1 DEF Lifecycle!Make, Phase, Tag, Fin
    <3> QED
      BY Zenon, <3>2 DEF Lifecycle!Next
  <2>4. CASE lv[v] # 0
    <3>1. lv[v] > 0 /\ n > lv[v]
      BY <1>1, <2>2, <2>4
    <3>2. Lifecycle!Grow(v)
      BY Zenon, <1>2, <1>3, <2>1, <2>2, <3>1 DEF Lifecycle!Grow, Phase, Tag, Fin
    <3> QED
      BY Zenon, <3>2 DEF Lifecycle!Next
  <2> QED
    BY <2>3, <2>4
<1> QED
  BY <1>4, <1>5 DEF LvMoves

\* A step that changes a PersistentVolume marks it, releases it, takes the
\* finalizer away or deletes it.
LEMMA PvRefines ==
    ASSUME CoreInv, UseInv, FinalizerInv, LifeInv, UNCHANGED lv, NEW v \in Volumes,
           \A w \in Volumes \ {v} : pv'[w] = pv[w], PvStep(v),
           pv' \in [Volumes -> PersistentVolumeObject]
    PROVE  Lifecycle!Next \/ UNCHANGED Lifecycle!vars
<1> USE DEF CoreInv
<1>1. /\ pv[v].phase \in {"Bound", "Released", "Deleted"} /\ pv[v].tag \in BOOLEAN /\ pv[v].fin \in BOOLEAN
      /\ pv'[v].tag \in BOOLEAN /\ pv'[v].fin \in BOOLEAN
  BY DEF PvInv, PersistentVolumeObject
<1>2. /\ pv'[v].phase = pv[v].phase => Phase' = Phase
      /\ pv'[v].tag = pv[v].tag => Tag' = Tag
      /\ pv'[v].fin = pv[v].fin => Fin' = Fin
  BY Zenon, SameSeen
<1>3. /\ Phase' = [Phase EXCEPT ![v] = pv'[v].phase]
      /\ Tag' = [Tag EXCEPT ![v] = pv'[v].tag]
      /\ Fin' = [Fin EXCEPT ![v] = pv'[v].fin]
  BY Zenon, ChangedSeen
<1>4. Phase[v] = pv[v].phase /\ Tag[v] = pv[v].tag /\ Fin[v] = pv[v].fin
  BY Seen
<1>5. ASSUME SameMarks(v), pv'[v].phase = pv[v].phase PROVE UNCHANGED Lifecycle!vars
  <2>1. Phase' = Phase /\ Tag' = Tag /\ Fin' = Fin
    BY Zenon, <1>2, <1>5 DEF SameMarks
  <2> QED
    BY Zenon, <2>1 DEF Lifecycle!vars, Phase, Tag, Fin
<1>6. ASSUME SameMarks(v), pv[v].phase = "Released", ~pv[v].fin, pv'[v].phase = "Deleted"
      PROVE  Lifecycle!Next
  <2>1. Tag' = Tag /\ Fin' = Fin /\ Phase' = [Phase EXCEPT ![v] = "Deleted"]
    BY Zenon, <1>2, <1>3, <1>6 DEF SameMarks
  <2>2. Lifecycle!Delete(v)
    BY Zenon, <1>4, <1>6, <2>1 DEF Lifecycle!Delete, Phase, Tag, Fin
  <2> QED
    BY Zenon, <2>2 DEF Lifecycle!Next
<1>7. CASE /\ \E k \in Calls : call[v][k].pc = "patch"
           /\ pv'[v].phase = pv[v].phase /\ pv[v].phase # "Deleted" /\ pv'[v].tag /\ pv'[v].fin
  <2>1. PICK k \in Calls : call[v][k].pc = "patch"
    BY <1>7
  <2>2. pv[v].phase = "Bound"
    BY <2>1, CallBound
  <2>3. fs[v] # 0
    BY <2>1 DEF LifeInv, Formatted
  <2>4. lv[v] > 0
    BY <2>3, Bounds DEF NodeInv, NodeType
  <2>5. CASE pv[v].tag
    <3>1. pv[v].fin
      BY <2>2, <2>5 DEF FinalizerInv
    <3>2. SameMarks(v)
      BY <1>1, <1>7, <2>5, <3>1 DEF SameMarks
    <3> QED
      BY <1>5, <1>7, <3>2
  <2>6. CASE ~pv[v].tag
    <3>1. pv'[v].tag = TRUE /\ pv'[v].fin = TRUE
      BY <1>1, <1>7
    <3>2. Phase' = Phase /\ Tag' = [Tag EXCEPT ![v] = TRUE] /\ Fin' = [Fin EXCEPT ![v] = TRUE]
      BY Zenon, <1>2, <1>3, <1>7, <3>1
    <3>3. Lifecycle!Mark(v)
      BY Zenon, <1>4, <2>2, <2>4, <2>6, <3>2 DEF Lifecycle!Mark, Phase, Tag, Fin
    <3> QED
      BY Zenon, <3>3 DEF Lifecycle!Next
  <2> QED
    BY <2>5, <2>6
<1>8. CASE SameMarks(v) /\ pv[v].phase = "Bound" /\ pv'[v].phase = "Released"
  <2>1. Tag' = Tag /\ Fin' = Fin /\ Phase' = [Phase EXCEPT ![v] = "Released"]
    BY Zenon, <1>2, <1>3, <1>8 DEF SameMarks
  <2>2. Lifecycle!Release(v)
    BY Zenon, <1>4, <1>8, <2>1 DEF Lifecycle!Release, Phase, Tag, Fin
  <2> QED
    BY Zenon, <2>2 DEF Lifecycle!Next
<1>9. CASE /\ gcPc[v] = "update" /\ ~pv'[v].fin /\ pv'[v].tag = pv[v].tag
           /\ pv'[v].phase \in {pv[v].phase, "Deleted"}
  <2>1. pv[v].phase # "Bound" /\ lv[v] = 0
    BY <1>9 DEF ReleasedInv, FinalizerInv
  <2>2. CASE pv[v].fin
    <3>1. pv[v].phase = "Released"
      BY <1>1, <2>1, <2>2 DEF FinalizerInv
    <3>2. pv'[v].fin = FALSE
      BY <1>1, <1>9
    <3>3. PICK p \in {"Released", "Deleted"} : Phase' = [Phase EXCEPT ![v] = p]
      BY Zenon, <1>3, <1>9, <3>1
    <3>4. Tag' = Tag /\ Fin' = [Fin EXCEPT ![v] = FALSE]
      BY Zenon, <1>2, <1>3, <1>9, <3>2
    <3>5. Lifecycle!Unfinalize(v)
      BY Zenon, <1>4, <2>1, <2>2, <3>1, <3>3, <3>4 DEF Lifecycle!Unfinalize, Phase, Tag, Fin
    <3> QED
      BY Zenon, <3>5 DEF Lifecycle!Next
  <2>3. CASE ~pv[v].fin
    <3>1. SameMarks(v)
      BY <1>1, <1>9, <2>3 DEF SameMarks
    <3> QED
      BY <1>1, <1>5, <1>6, <1>9, <2>1, <2>3, <3>1
  <2> QED
    BY <2>2, <2>3
<1> QED
  BY Zenon, <1>5, <1>6, <1>7, <1>8, <1>9 DEF PvStep

LEMMA LifeRefines ==
    ASSUME CoreInv, UseInv, FinalizerInv, LifeInv, [Next]_vars
    PROVE  Lifecycle!Next \/ UNCHANGED Lifecycle!vars
<1>1. CASE UNCHANGED <<pv, lv>>
  BY Zenon, <1>1 DEF Lifecycle!vars
<1>2. CASE UNCHANGED lv /\ ~(UNCHANGED pv)
  <2>1. PICK v \in Volumes : \A w \in Volumes \ {v} : pv'[w] = pv[w]
    BY Zenon, <1>2, PvFrame DEF CoreInv
  <2>2. pv' \in [Volumes -> PersistentVolumeObject] /\ PvStep(v)
    BY Zenon, NextPv DEF CoreInv
  <2> QED
    BY Zenon, <1>2, <2>1, <2>2, PvRefines
<1>3. CASE ~(UNCHANGED lv)
  <2>1. UNCHANGED pv /\ \E v \in Volumes : LvMoves(v)
    BY Zenon, <1>3, LvSteps
  <2> QED
    BY Zenon, <2>1, LvRefines
<1> QED
  BY Zenon, <1>1, <1>2, <1>3

\* The driver and the collector of a node implement VolumeLifecycle: when there is
\* one call about a volume at a time and the claim of a volume in use stays, every
\* command they run, and every crash, retry and stale read in between, is a step
\* of that life or no step at all.  In particular a publish never makes a marked
\* logical volume a second time, and reconciler removes only one whose claim is
\* gone and whose finalizer holds the PersistentVolume.
THEOREM LifecycleKept ==
    ASSUME OneCall, ~ForceDelete
    PROVE  Spec => KeepsLifecycle
<1> DEFINE Inv == CoreInv /\ PodType /\ UseInv /\ FinalizerInv /\ LifeInv
<1>1. Init => Inv /\ Lifecycle!Init
  <2> SUFFICES ASSUME Init PROVE PodType /\ UseInv /\ FinalizerInv /\ LifeInv /\ Lifecycle!Init
    BY CoreInit
  <2>1. \A v \in Volumes : pv[v].phase = "Bound" /\ pv[v].tag = FALSE /\ pv[v].fin = FALSE
    BY DEF Init, NewPersistentVolume
  <2>2. \A v \in Volumes : ~gcPv[v].fin
    BY DEF Init, NewPersistentVolume
  <2>3. \A v \in Volumes : gcPc[v] = "idle" /\ \A k \in Calls : call[v][k].pc = "idle"
    BY NoCallFacts DEF Init
  <2>4. PodType
    BY DEF Init, PodType
  <2>5. UseInv /\ FinalizerInv
    BY Zenon, <2>1, <2>3 DEF UseInv, FinalizerInv
  <2>6. LifeInv
    BY <2>1, <2>2, <2>3 DEF LifeInv, Formatted
  <2>7. Lifecycle!Init
    BY Zenon, <2>1 DEF Init, Lifecycle!Init
  <2> QED
    BY <2>4, <2>5, <2>6, <2>7
<1>2. Inv /\ [Next]_vars => Inv'
  BY CoreNext, NextPod, UseNext, FinalizerNext, LifeNext, OneIsAlone DEF CoreInv
<1>3. Inv /\ [Next]_vars => [Lifecycle!Next]_Lifecycle!vars
  BY LifeRefines
<1> QED
  BY <1>1, <1>2, <1>3, PTL DEF Spec, KeepsLifecycle, Lifecycle!Spec
=============================================================================
