------------------------------ MODULE MCAgents ------------------------------
(* One agent: requests for different agents share nothing but the numbers   *)
(* of the keys.  The requests are interchangeable.                          *)
EXTENDS Agents, TLC
CONSTANTS w1, r1, r2
SomeRequest == Permutations(Requests)
=============================================================================
