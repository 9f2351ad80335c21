--------------------------- MODULE MC_SdkClient ---------------------------
(* Small instances of SdkClient. *)
EXTENDS SdkClient, TLC

CONSTANTS u1, u2
MCSymmetry == Permutations({u1, u2})
=============================================================================
