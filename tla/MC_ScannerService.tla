-------------------------- MODULE MC_ScannerService --------------------------
(* Small instances of ScannerService. *)
EXTENDS ScannerService, TLC

CONSTANTS a, b, x
MCSymmetry == Permutations({a, b})
=============================================================================
