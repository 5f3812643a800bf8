----------------------------- MODULE MCChatRoom -----------------------------
(* Two rooms, one page, a few writers.                                       *)
EXTENDS ChatRoom, TLC

Symmetry == Permutations(Chats) \cup Permutations(JoinIds)

\* hasty never becomes false again, and the properties of this run then hold
\* whatever happens: what follows such a state is not explored.  Bound: what
\* follows a state with more than two events on their way is not explored either.
StillPatient == ~hasty
FewEvents == Len(down) <= 2
=============================================================================
