-------------------------- MODULE MC_PipelineRun --------------------------
(* Small instances of PipelineRun for TLC.                                 *)
EXTENDS PipelineRun, TLC

CONSTANTS c1, c2, w1, w2

\* Requests are alike, and so are the threads that run cycles.
MCSymmetry == Permutations({c1, c2}) \cup Permutations({w1, w2})
=============================================================================
