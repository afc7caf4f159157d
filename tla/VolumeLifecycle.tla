-------------------------- MODULE VolumeLifecycle --------------------------
(***************************************************************************)
(* What the driver and the collector of a node together promise about the  *)
(* logical volume of a PersistentVolume: it is made, and grows, while the  *)
(* claim is there; once the PersistentVolume has the tag, it stays until   *)
(* the claim is gone, is then removed, and only then the finalizer goes,   *)
(* and with it the PersistentVolume.  Nothing is promised for a logical    *)
(* volume whose PersistentVolume never got the tag.                        *)
(***************************************************************************)
EXTENDS Naturals

CONSTANTS
    Volumes,    \* the PersistentVolumes of the node
    MaxSize     \* the largest size of a volume

VARIABLES
    phase,      \* phase[v]: Bound, Released or Deleted
    tag,        \* tag[v]: v was published once
    fin,        \* fin[v]: v has the collector's finalizer
    lv          \* lv[v]: size of v's logical volume (0: none)

vars == <<phase, tag, fin, lv>>

Init ==
    /\ phase = [v \in Volumes |-> "Bound"]
    /\ tag = [v \in Volumes |-> FALSE]
    /\ fin = [v \in Volumes |-> FALSE]
    /\ lv = [v \in Volumes |-> 0]

\* Made before the tag, and never again.
Make(v) ==
    /\ phase[v] = "Bound" /\ ~tag[v] /\ lv[v] = 0
    /\ \E n \in 1 .. MaxSize : lv' = [lv EXCEPT ![v] = n]
    /\ UNCHANGED <<phase, tag, fin>>

Grow(v) ==
    /\ phase[v] = "Bound" /\ lv[v] > 0
    /\ \E n \in 1 .. MaxSize : n > lv[v] /\ lv' = [lv EXCEPT ![v] = n]
    /\ UNCHANGED <<phase, tag, fin>>

\* The tag and the finalizer come together, for a logical volume that is there.
Mark(v) ==
    /\ phase[v] = "Bound" /\ ~tag[v] /\ lv[v] > 0
    /\ tag' = [tag EXCEPT ![v] = TRUE]
    /\ fin' = [fin EXCEPT ![v] = TRUE]
    /\ UNCHANGED <<phase, lv>>

Release(v) ==
    /\ phase[v] = "Bound"
    /\ phase' = [phase EXCEPT ![v] = "Released"]
    /\ UNCHANGED <<tag, fin, lv>>

Remove(v) ==
    /\ phase[v] = "Released" /\ fin[v] /\ lv[v] > 0
    /\ lv' = [lv EXCEPT ![v] = 0]
    /\ UNCHANGED <<phase, tag, fin>>

\* With the finalizer goes a PersistentVolume that is being deleted.
Unfinalize(v) ==
    /\ phase[v] = "Released" /\ fin[v] /\ lv[v] = 0
    /\ fin' = [fin EXCEPT ![v] = FALSE]
    /\ \E p \in {"Released", "Deleted"} : phase' = [phase EXCEPT ![v] = p]
    /\ UNCHANGED <<tag, lv>>

Delete(v) ==
    /\ phase[v] = "Released" /\ ~fin[v]
    /\ phase' = [phase EXCEPT ![v] = "Deleted"]
    /\ UNCHANGED <<tag, fin, lv>>

Next == \E v \in Volumes :
    Make(v) \/ Grow(v) \/ Mark(v) \/ Release(v) \/ Remove(v) \/ Unfinalize(v) \/ Delete(v)

Spec == Init /\ [][Next]_vars
=============================================================================
