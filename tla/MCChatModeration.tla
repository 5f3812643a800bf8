-------------------------- MODULE MCChatModeration --------------------------
(* Two calls of the member at once. *)
EXTENDS ChatModeration, TLC

Symmetry == Permutations(Calls)
=============================================================================
