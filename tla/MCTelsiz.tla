------------------------------ MODULE MCTelsiz ------------------------------
(* One socket per user; two complaints are what a mute takes here.          *)
EXTENDS Telsiz

CONSTANTS a, b, d

MCUserOf == [s \in Sockets |-> s]

MCGrievances == {<<a, d>>, <<b, d>>}
=============================================================================
