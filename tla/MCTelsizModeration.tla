------------------------ MODULE MCTelsizModeration ------------------------
(* Everyone may complain about everyone else. *)
EXTENDS TelsizModeration, TLC

Symmetry == Permutations(Users) \cup Permutations(ReportIds)
=============================================================================
