-------------------------------- MODULE Sizes --------------------------------
(***************************************************************************)
(* The same size in four roundings.  The agent reports the group in units  *)
(* of 1024 MB, for "vgs --units=M" counts in 10^6 bytes, rounded down; the *)
(* extender charges a claim in whole GiB, rounded up, and compares the two *)
(* numbers; the driver asks LVM for the claim's size in whole GiB or,      *)
(* below one, in whole MiB, rounded down; and LVM rounds up to extents.    *)
(* When a volume is published again, the driver compares what it would ask *)
(* for with the number lvdisplay prints, whose unit it does not read.      *)
(*                                                                         *)
(* LocalVolume has the steps of the accounting, and NodeVolume those of a  *)
(* publish; here each is one step on current state.                        *)
(***************************************************************************)
EXTENDS Integers

CONSTANTS
    Volumes,
    Mi,         \* a MiB, in the unit of all sizes here
    K,          \* MiB in a GiB, and GiB in a TiB (1024)
    ReportedG,  \* 1024 MB, the unit of the agent's report, less than a GiB
    Extent,     \* the extent of the group
    VgSize,     \* the size of the group
    Quantities, \* the sizes claims may ask for
    MayGrow     \* claims may be expanded

Gi == K * Mi
Ti == K * Gi

\* What the proofs assume of the constants.
UnitsAssumption ==
    /\ Mi \in Nat \ {0} /\ K \in Nat \ {0} /\ Extent \in Nat \ {0} /\ Gi % Extent = 0
    /\ ReportedG \in 1 .. Gi
    /\ VgSize \in Nat /\ VgSize % Extent = 0
    /\ Quantities \subseteq Nat \ {0}
    /\ MayGrow \in BOOLEAN

VARIABLES
    pv,         \* the capacity in the PersistentVolume (0: none)
    lv,         \* the size of the logical volume (0: none)
    vgFree,     \* what is free in the group
    outcome     \* what the last publish of a volume came to

vars == <<pv, lv, vgFree, outcome>>

Init ==
    /\ pv = [v \in Volumes |-> 0]
    /\ lv = [v \in Volumes |-> 0]
    /\ vgFree = VgSize
    /\ outcome = [v \in Volumes |-> "none"]

RoundUp(n, unit) == ((n + unit - 1) \div unit) * unit

\* The volumes that are admitted and not made yet.
Unmade == {v \in Volumes : pv[v] # 0 /\ lv[v] = 0}
-----------------------------------------------------------------------------
(* The extender and the agent *)

\* What getPodLocalVolumeRequestSize and getNodeFreeSize make of a quantity.
RealSize(q) == RoundUp(q, Gi) \div Gi

\* Status.FreeSize, as the agent's reconciler writes it.
StatusFreeSize == vgFree \div ReportedG

\* getNodeFreeSize subtracts the claims whose keys are in PreAllocated; bind writes
\* the key "" only, which is no claim's (PreAllocatedCleared in LocalVolume).
GetNodeFreeSize == StatusFreeSize

\* A claim the extender finds room for gets its volume.  Pods come one at a time
\* here, each when the volumes of those before it are made: of two that come
\* together the extender may admit both into the same room, roundings or not.
Admit(v, q) ==
    /\ pv[v] = 0 /\ Unmade = {}
    /\ GetNodeFreeSize >= RealSize(q)
    /\ pv' = [pv EXCEPT ![v] = q]
    /\ UNCHANGED <<lv, vgFree, outcome>>

\* A claim is expanded; the extender is not asked.
Grow(v, q) ==
    /\ MayGrow /\ pv[v] # 0 /\ q > pv[v]
    /\ pv' = [pv EXCEPT ![v] = q]
    /\ UNCHANGED <<lv, vgFree, outcome>>
-----------------------------------------------------------------------------
(* The driver *)

\* getPvSize: a number and its unit.
GetPvSize(q) ==
    IF q \div Gi = 0 THEN [number |-> q \div Mi, unit |-> Mi] ELSE [number |-> q \div Gi, unit |-> Gi]

Wanted(v) == GetPvSize(pv[v]).number * GetPvSize(pv[v]).unit

\* What LVM takes for v.
Asked(v) == RoundUp(Wanted(v), Extent)

Set(v, size, result) ==
    /\ lv' = [lv EXCEPT ![v] = size]
    /\ vgFree' = vgFree + lv[v] - size
    /\ outcome' = [outcome EXCEPT ![v] = result]
    /\ UNCHANGED pv

\* createVolume: lvcreate -L of the number and unit; a size of 0 is refused.
CreateVolume(v) ==
    LET size == Asked(v) IN
    /\ pv[v] # 0 /\ lv[v] = 0
    /\ Set(v, IF size > vgFree THEN 0 ELSE size,
              CASE size = 0 -> "invalid" [] size > vgFree -> "full" [] OTHER -> "created")

\* The integral part of the number lvdisplay prints; the unit depends on the size.
LvDisplay(size) ==
    CASE size < Gi -> size \div Mi
      [] Gi <= size /\ size < Ti -> size \div Gi
      [] Ti <= size -> size \div Ti

\* resizeVolume compares two numbers.
Keeps(v) == LvDisplay(lv[v]) >= GetPvSize(pv[v]).number

\* ... and calls lvextend, which refuses to shrink, and a size the volume has.
ResizeVolume(v) ==
    LET size == Asked(v) IN
    /\ lv[v] # 0
    /\ IF ~Keeps(v) /\ lv[v] < size /\ size - lv[v] <= vgFree
       THEN Set(v, size, "extended")
       ELSE Set(v, lv[v], CASE Keeps(v) -> "kept"
                            [] ~Keeps(v) /\ size <= lv[v] -> "refused"
                            [] OTHER -> "full")
-----------------------------------------------------------------------------
Next ==
    \/ \E v \in Volumes, q \in Quantities : Admit(v, q)
    \/ \E v \in Volumes, q \in Quantities : Grow(v, q)
    \/ \E v \in Volumes : CreateVolume(v)
    \/ \E v \in Volumes : ResizeVolume(v)

Spec == Init /\ [][Next]_vars
-----------------------------------------------------------------------------
\* The roundings agree: as long as no claim grows, the group has room for the
\* volume the extender admitted, although it is charged in other amounts than it
\* is made in, LVM adds to it, and the free space is rounded too; provided that
\* the agent's report is the number of GiB that are free.
AdmittedFits ==
    \A v \in Unmade : StatusFreeSize = vgFree \div Gi => Asked(v) <= vgFree

\* When the report says more than that, because its unit is less than a GiB,
\* lvcreate may refuse what the extender admitted; the free space then falls
\* short of the volume by no more than the ratio of the two units.
ShortageBounded == \A v \in Unmade : Asked(v) * ReportedG <= vgFree * Gi

\* Below a TiB and from a GiB on the two numbers have the same unit, and a volume
\* that is published again, grown or not, is never refused by LVM.
NotRefused == \A v \in Volumes : outcome[v] # "refused"

\* "if lvmsize equal/bigger than pv size, no do expand", at resizeVolume's
\* comparison: a volume a publish keeps as it is has the size that is wanted.
KeptIsBigEnough == \A v \in Volumes : lv[v] # 0 /\ Keeps(v) => lv[v] >= Wanted(v)

\* The same sentence from the other side: a volume that has the size that is
\* wanted is not extended.
BigEnoughIsKept == \A v \in Volumes : lv[v] # 0 /\ lv[v] >= Wanted(v) => Keeps(v)
=============================================================================
