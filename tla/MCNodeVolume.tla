---------------------------- MODULE MCNodeVolume ----------------------------
\* Instances of NodeVolume for TLC.
EXTENDS NodeVolume, TLC

CONSTANTS v1, q1, q2

MCLvmType == [v \in Volumes |-> "linear"]

PodSymmetry == Permutations(Pods)
=============================================================================
