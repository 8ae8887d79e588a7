------------------------------ MODULE Betting ------------------------------
(***************************************************************************)
(* The rules of a little betting game, for small instances of GameService: *)
(* agents act in seat order, "call" stays, "fold" leaves, and the hand is  *)
(* over when one agent is left or MaxMoves moves were made.  As in the     *)
(* engine, apply_action does not ask whose turn it is; a position is its   *)
(* history, so two different runs of moves never look alike.               *)
(***************************************************************************)
EXTENDS Naturals, Sequences, FiniteSets

CONSTANTS a1, a2, MaxMoves

Seats     == <<a1, a2>>
MCAgents  == {a1, a2}
MCActions == {"call", "fold"}
\* A stale manager may apply one move more to a finished hand.
MaxApplied == MaxMoves + 1

MCPositions ==
    [moves : UNION {[1..n -> MCAgents \X MCActions] : n \in 0..MaxApplied},
     live  : SUBSET MCAgents,
     on    : 1..Len(Seats)]
MCInitial == [moves |-> <<>>, live |-> MCAgents, on |-> 1]

MCTerminal(s) == Cardinality(s.live) <= 1 \/ Len(s.moves) >= MaxMoves
MCValid(s, a, m) == ~MCTerminal(s) /\ a \in s.live /\ Seats[s.on] = a
MCApplies(s, a, m) == Len(s.moves) < MaxApplied
MCApply(s, a, m) ==
    [moves |-> Append(s.moves, <<a, m>>),
     live  |-> IF m = "fold" THEN s.live \ {a} ELSE s.live,
     on    |-> (s.on % Len(Seats)) + 1]
MCActor(s) == Seats[s.on]
\* A hand that ends on its first move cannot be scored (see TexasHoldem).
MCPays(s) == MCTerminal(s) /\ Len(s.moves) > 1
MCTurnNumber(s) == Len(s.moves) + 1
============================================================================
