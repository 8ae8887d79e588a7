-------------------------- MODULE MCGameProgress --------------------------
(* Small instances of GameProgress, over the rules of Betting.             *)
EXTENDS GameProgress, Betting

CONSTANT r1

MCRequests == {r1}
============================================================================
