--------------------------- MODULE MCChatPresence ---------------------------
(* Two tabs of one user: entries are per user, and users do not interfere. *)
EXTENDS ChatPresence, TLC

CONSTANTS a

MCUserOf == [s \in Sockets |-> a]

\* Safety only.
Symmetry == Permutations(Sockets) \cup Permutations(Chats) \cup Permutations(JoinIds)
=============================================================================
