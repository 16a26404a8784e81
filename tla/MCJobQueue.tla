----------------------------- MODULE MCJobQueue -----------------------------
(***************************************************************************)
(* The queue's tables under arbitrary callers, on a small instance.        *)
(***************************************************************************)
EXTENDS JobQueue, TLC

JobSymmetry == Permutations(JobId)
=============================================================================
