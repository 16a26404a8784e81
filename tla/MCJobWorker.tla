---------------------------- MODULE MCJobWorker ----------------------------
(***************************************************************************)
(* Workers on the queue, with faults, on a small instance.                 *)
(***************************************************************************)
EXTENDS JobWorker, TLC

Symmetry == Permutations(JobId) \cup Permutations(Worker)
=============================================================================
