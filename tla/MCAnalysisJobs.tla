--------------------------- MODULE MCAnalysisJobs ---------------------------
(* Small instances of AnalysisJobs for TLC: every job is of one key, so that *)
(* jobs compete for it; symmetry is used only where no liveness is checked.  *)
EXTENDS AnalysisJobs, TLC
CONSTANTS j1, j2, k1, w1, w2, web, sched

OneKey == [j \in Jobs |-> k1]

JobSymmetry    == Permutations(Jobs)
WorkerSymmetry == Permutations(Workers)
=============================================================================
