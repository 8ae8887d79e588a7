------------------------------ MODULE MCLobby ------------------------------
(* Small instances of Lobby.                                               *)
EXTENDS Lobby, TLC

CONSTANTS a1, a2, a3, h1, h2

MCAgents   == {a1, a2, a3}
MCHandlers == {h1, h2}
MCOneRoom  == 1..1
Symmetry   == Permutations(Agents) \cup Permutations(Handlers)
============================================================================
