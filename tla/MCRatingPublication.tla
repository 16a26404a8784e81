------------------------ MODULE MCRatingPublication ------------------------
(***************************************************************************)
(* Two processes refreshing and publishing, on a small instance.           *)
(***************************************************************************)
EXTENDS RatingPublication, TLC

Symmetry == Permutations(Run) \cup Permutations(Process)
=============================================================================
