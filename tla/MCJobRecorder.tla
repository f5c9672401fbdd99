--------------------------- MODULE MCJobRecorder ---------------------------
(* JobRecorder for TLC: two threads, two job IDs of which the allowance       *)
(* covers one, and payloads that differ, one of them a dry run.             *)
EXTENDS JobRecorder, TLC

CONSTANTS j1, j2, t1, t2, x, y, dry

MCSymmetry == Permutations(Threads) \cup Permutations(Jobs) \cup Permutations({x, y})
=============================================================================
