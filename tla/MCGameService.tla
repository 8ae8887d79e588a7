--------------------------- MODULE MCGameService ---------------------------
(* Small instances of GameService, over the rules of Betting.              *)
EXTENDS GameService, Betting, TLC

CONSTANTS r1, r2

MCRequests == {r1, r2}
Symmetry == Permutations(MCRequests)
============================================================================
