-------------------------- MODULE MCPlayHubImport --------------------------
(***************************************************************************)
(* A tournament of a few rounds, and two importers.                        *)
(***************************************************************************)
EXTENDS PlayHubImport, TLC

Symmetry == Permutations(Importer)
=============================================================================
