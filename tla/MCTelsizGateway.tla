-------------------------- MODULE MCTelsizGateway --------------------------
(* The sockets belong to one user: who shares a user only matters to mutes.  *)
EXTENDS TelsizGateway, TLC

CONSTANTS u1

MCUserOf == [s \in Sockets |-> u1]

\* Safety only: the run checks no liveness property.
Symmetry ==
  Permutations(Channels) \cup Permutations(Sockets) \cup Permutations(TimerIds)
    \cup Permutations(PttIds)
=============================================================================
