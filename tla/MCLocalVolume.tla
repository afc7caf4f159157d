--------------------------- MODULE MCLocalVolume ---------------------------
(***************************************************************************)
(* Instances of LocalVolume for TLC.  A GiB has 21 MiB here, 1024 MB are   *)
(* 20 of those, and a word holds 10 bits: small numbers in the same order. *)
(***************************************************************************)
EXTENDS LocalVolume, TLC

CONSTANTS n1, n2, p1, p2, c1, c2

MCGiB       == 21
MCReportedG == 20
MCWord      == 1024

\* Every pod uses every claim.  A claim of one GiB and a half, for which the
\* extender counts 2 GiB and the driver makes 1 GiB; the volume group holds it
\* and leaves room for it to grow.
MCPodClaims  == [p \in Pods |-> Claims]
MCClaimSize  == [c \in Claims |-> 31]
MCVGSize     == [n \in Nodes |-> 60]
=============================================================================
