--------------------------- MODULE MCController ---------------------------
(***************************************************************************)
(* Instances of Controller for TLC.                                        *)
(***************************************************************************)
EXTENDS Controller

CONSTANTS k1, k2, k3, w1, w2
=============================================================================
