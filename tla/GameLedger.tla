---------------------------- MODULE GameLedger ----------------------------
(***************************************************************************)
(* What the game service promises about one game, with no handlers, cache  *)
(* or background tasks: an append-only ledger of moves, each one legal in  *)
(* the position its predecessor left, and one payout, decided only from a  *)
(* finished position.  GameService implements it as long as no turn times  *)
(* out.                                                                    *)
(***************************************************************************)
EXTENDS Naturals

CONSTANTS
    Agents,              \* the players of the game
    Actions,             \* the moves an agent can name
    Positions,           \* the positions of the rules (current_state)
    InitialPosition,     \* what Game::init returned
    Valid(_, _, _),      \* Valid(s, a, m): valid_actions(s, a) contains m
    Applies(_, _, _),    \* apply_action(s, a, m) returns Ok ...
    Apply(_, _, _),      \* ... and this position
    Terminal(_),         \* is_terminal(s)
    None                 \* no payout yet

VARIABLES
    entries,    \* 1..n -> [agent, action, state]
    payout      \* the position the payout was computed from, or None

vars == <<entries, payout>>

\* The position after the first n moves.
PositionAfter(n) == IF n = 0 THEN InitialPosition ELSE entries[n].state

Init ==
    /\ entries = [k \in 1..0 |-> InitialPosition]
    /\ payout = None

\* One more move, legal in the position the ledger ends in.
Play(a, m) ==
    \E n \in {0} \cup DOMAIN entries :
        /\ DOMAIN entries = 1..n
        /\ Valid(PositionAfter(n), a, m)
        /\ Applies(PositionAfter(n), a, m)
        /\ entries' = [k \in 1..(n + 1) |->
                          IF k <= n THEN entries[k]
                          ELSE [agent |-> a, action |-> m,
                                state |-> Apply(PositionAfter(n), a, m)]]
        /\ UNCHANGED payout

\* The payout is decided once, from the finished position.
Pay ==
    \E n \in {0} \cup DOMAIN entries :
        /\ DOMAIN entries = 1..n
        /\ payout = None
        /\ Terminal(PositionAfter(n))
        /\ payout' = PositionAfter(n)
        /\ UNCHANGED entries

Next == (\E a \in Agents, m \in Actions : Play(a, m)) \/ Pay

Spec == Init /\ [][Next]_vars
===========================================================================
