---------------------------- MODULE VolumeGroup ----------------------------
(***************************************************************************)
(* lvm.CreateVG: "create vg if not exist".                                 *)
(*                                                                         *)
(* Two processes of a node call it, in containers of their own and with no *)
(* lock between them: the agent when it starts, which ends on an error and *)
(* is started again, and the driver before it makes a logical volume,      *)
(* which returns the error to kubelet and is called again.  CreateVG asks  *)
(* whether the group is there, collects the devices that look free, makes  *)
(* them physical volumes and makes the group of them: four kinds of        *)
(* commands, each atomic by LVM's own locks, and nothing holds from one to *)
(* the next.                                                               *)
(***************************************************************************)
EXTENDS Integers, Sequences, FiniteSets, Functions

CONSTANTS
    Callers,    \* the processes that call CreateVG
    Devices,    \* the names getDeviceList tries, in its order
    Mounted,    \* those that are mounted, or hold a partition that is
    Foreign,    \* those that belong to another volume group
    Absent,     \* those that do not exist
    MaxFaults   \* bound on crashes and failed commands

\* What the proofs assume of the constants.
DevicesAssumption ==
    /\ Devices \in Seq(STRING) /\ IsInjective(Devices)
    /\ Mounted \cup Foreign \cup Absent \subseteq Range(Devices)

VARIABLES
    orphans,    \* physical volumes that belong to no group
    group,      \* the devices of our group ({}: there is no group)
    pc,         \* where each caller is in CreateVG
    next,       \* the device getDeviceList tries next
    found,      \* localDeviceList
    pvNum,      \* the number CreateVG returned
    faults

callVars == <<pc, next, found, pvNum>>
vars     == <<orphans, group, callVars, faults>>

Init ==
    /\ orphans = {} /\ group = {}
    /\ pc = [p \in Callers |-> "idle"]
    /\ next = [p \in Callers |-> 1]
    /\ found = [p \in Callers |-> {}]
    /\ pvNum = [p \in Callers |-> 0]
    /\ faults = 0

Fault == faults < MaxFaults /\ faults' = faults + 1

Set(f, p, x) == [f EXCEPT ![p] = x]
----------------------------------------------------------------------------
(* The steps of CreateVG *)

\* NewAgent or createVolume calls; a call that failed is repeated.
Call(p) ==
    /\ pc[p] \in {"idle", "failed"}
    /\ pc' = Set(pc, p, "vgdisplay")
    /\ next' = Set(next, p, 1)
    /\ found' = Set(found, p, {})
    /\ UNCHANGED <<orphans, group, pvNum, faults>>

Succeed(p, n) == pc' = Set(pc, p, "done") /\ pvNum' = Set(pvNum, p, n)

Fail(p) == pc' = Set(pc, p, "failed") /\ UNCHANGED pvNum

\* The group is there: return the number of its physical volumes.  Of a pipe
\* only the last command's failure shows, so a vgdisplay that fails looks like
\* a group that does not exist.
VgDisplay(p) ==
    /\ pc[p] = "vgdisplay"
    /\ \/ group # {} /\ Succeed(p, Cardinality(group)) /\ UNCHANGED faults
       \/ group = {} /\ pc' = Set(pc, p, "scan") /\ UNCHANGED <<pvNum, faults>>
       \/ Fault /\ pc' = Set(pc, p, "scan") /\ UNCHANGED pvNum
    /\ UNCHANGED <<orphans, group, next, found>>

\* pvdisplay succeeds on every physical volume, of this group, of another or of
\* none.
IsPhysicalVolume(d) == d \in orphans \cup group \cup Foreign

\* getDeviceList looks at one device; a pvdisplay or a mount that fails makes
\* it look free.
GetDeviceList(p) ==
    LET d == Devices[next[p]]
        Take == found' = Set(found, p, found[p] \cup {d})
    IN
    /\ pc[p] = "scan" /\ next[p] <= Len(Devices)
    /\ next' = Set(next, p, next[p] + 1)
    /\ \/ /\ d \in Absent \cup Mounted /\ UNCHANGED <<found, faults>>
       \/ /\ d \notin Absent \cup Mounted /\ ~IsPhysicalVolume(d)
          /\ Take /\ UNCHANGED faults
       \/ /\ d \notin Absent \cup Mounted /\ IsPhysicalVolume(d)
          /\ UNCHANGED <<found, faults>>
       \/ d \notin Absent /\ Fault /\ Take
    /\ UNCHANGED <<orphans, group, pc, pvNum>>

Scanned(p) ==
    /\ pc[p] = "scan" /\ next[p] = Len(Devices) + 1
    /\ pc' = Set(pc, p, "pvcreate")
    /\ UNCHANGED <<orphans, group, next, found, pvNum, faults>>

\* LVM initialises no device that is in use; an orphan is initialised again.
InUse == Mounted \cup Foreign \cup group

\* pvcreate fails when it is given no device, or one that is in use; those it
\* was able to initialise stay initialised.
PvCreate(p) ==
    /\ pc[p] = "pvcreate"
    /\ \/ /\ found[p] # {} /\ found[p] \cap InUse = {}
          /\ orphans' = orphans \cup found[p]
          /\ pc' = Set(pc, p, "vgcreate") /\ UNCHANGED <<pvNum, faults>>
       \/ /\ found[p] = {} \/ found[p] \cap InUse # {}
          /\ orphans' = orphans \cup (found[p] \ InUse)
          /\ Fail(p) /\ UNCHANGED faults
       \/ Fault /\ Fail(p) /\ UNCHANGED orphans
    /\ UNCHANGED <<group, next, found>>

\* vgcreate fails if the group exists or a device is no longer an orphan.
VgCreate(p) ==
    /\ pc[p] = "vgcreate"
    /\ \/ /\ group = {} /\ found[p] \subseteq orphans
          /\ group' = found[p] /\ orphans' = orphans \ found[p]
          /\ Succeed(p, Cardinality(found[p])) /\ UNCHANGED faults
       \/ /\ ~(group = {} /\ found[p] \subseteq orphans)
          /\ Fail(p) /\ UNCHANGED <<orphans, group, faults>>
       \/ Fault /\ Fail(p) /\ UNCHANGED <<orphans, group>>
    /\ UNCHANGED <<next, found>>

\* The process ends in the middle; the devices stay as they are.
Crash(p) ==
    /\ pc[p] \notin {"idle", "done"}
    /\ Fault
    /\ pc' = Set(pc, p, "idle")
    /\ UNCHANGED <<orphans, group, next, found, pvNum>>
----------------------------------------------------------------------------
(* Specification *)

CreateVG(p) ==
    \/ Call(p) \/ VgDisplay(p) \/ GetDeviceList(p) \/ Scanned(p)
    \/ PvCreate(p) \/ VgCreate(p)

Next == \E p \in Callers : CreateVG(p) \/ Crash(p)

Spec == Init /\ [][Next]_vars
----------------------------------------------------------------------------
(* Properties *)

Usable == Range(Devices) \ (Mounted \cup Foreign \cup Absent)

\* A caller that was told the group is there, made by itself or by the other
\* caller, finds it there, and the number it got, over which createVolume
\* stripes, is the number of its physical volumes for good.
PvNumRight ==
    \A p \in Callers : pc[p] = "done" => group # {} /\ pvNum[p] = Cardinality(group)

\* The group is made once, of usable devices only, whichever caller's commands
\* fail: no device that is mounted or belongs to another group comes into it.
GroupOfUsable ==
    /\ group \subseteq Usable
    /\ orphans \subseteq Usable
    /\ group \cap orphans = {}

\* While nothing fails, the callers' race is harmless to the devices asked for:
\* what a caller is about to initialise is usable.
ListUsable == faults = 0 => \A p \in Callers : found[p] \subseteq Usable

\* A crash, or a failed vgcreate, after pvcreate: the usable devices are all
\* physical volumes of no group, and no caller has one in its list.
Stranded ==
    /\ group = {} /\ Usable \subseteq orphans
    /\ \A p \in Callers :
        /\ pc[p] \notin {"vgcreate", "done"}
        /\ pc[p] \in {"vgdisplay", "scan", "pvcreate"} => found[p] = {}

\* getDeviceList takes a device that is a physical volume for one that is used,
\* so that CreateVG does not make up for the crash: of the calls that follow,
\* however many there are, none makes the group while no command fails.
StrandedStays == [][Stranded /\ UNCHANGED faults => Stranded']_vars
=============================================================================
