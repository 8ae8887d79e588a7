------------------------------- MODULE Match -------------------------------
(***************************************************************************)
(* A game of hold'em as it is served: GameService with the rules that      *)
(* TexasHoldem models, in the way the Game trait gives them to it          *)
(* (engine.rs, impl Game for TexasHoldemV1).  An agent is its seat, 0 is   *)
(* no seat, and a request names a move and an amount.                      *)
(*                                                                         *)
(* The variables hand and paid of TexasHoldem are what can be read off the *)
(* service's log and result; Shows says how.                               *)
(***************************************************************************)
EXTENDS TexasHoldem

CONSTANTS
    Requests, Manager, TurnsTimeOut, WritesMayFail,     \* GameService's
    Verdict     \* Verdict[h][s]: what evaluate_best_hand says of seat s in h

VARIABLES status, game, log, turn, misses, disconnected, pc, job, cpc,
          final, result, stats, started, published, acks

----------------------------------------------------------------------------
(* The Game trait                                                          *)

\* Board and deck of each street.
Board(h) ==
    /\ h.phase = "pre_flop" => h.community = 0 /\ h.deck = 52 - 2 * N
    /\ h.phase = "flop"     => h.community = 3 /\ h.deck = 48 - 2 * N
    /\ h.phase = "turn"     => h.community = 4 /\ h.deck = 46 - 2 * N
    /\ h.phase = "river"    => h.community = 5 /\ h.deck = 44 - 2 * N

Chips(h) == Total(h.stack) + h.pot

\* What current_state may hold, whoever has moved and when.
Positions == {h \in Hands : Board(h) /\ Chips(h) = Escrow}

\* A fold names an amount as well, which nothing reads.
Actions == Moves \X Amounts
TimeoutAction == <<TimeoutMove, CHOOSE x \in Amounts : TRUE>>

Valid(h, s, move) == move[1] \in ValidActions(h, s)
Accepts(h, s, move) == Applies(h, s, move[1], move[2])
Apply(h, s, move) == Applied(h, s, move[1], move[2])
Actor(h) == h.on
TurnNumber(h) == h.turn

\* result is Some: None without a player still in, a panic on a short board.
Pays(h) == Terminal(h) /\ Unfolded(h) # {} /\ Scored(h)

Service == INSTANCE GameServiceProofs WITH
    Agents <- Seats, NoAgent <- 0, Expired <- N + 1, InitialPosition <- InitialHand,
    None <- NotPaid, Applies <- Accepts

MatchOK ==
    /\ Manager \notin Requests
    /\ TurnsTimeOut \in BOOLEAN /\ WritesMayFail \in BOOLEAN
    /\ Amounts # {}
    /\ \A h \in Positions : Verdict[h] \in [Unfolded(h) -> Scores]

----------------------------------------------------------------------------
(* The hand that the service plays                                         *)

\* How many moves are logged.
Played == CHOOSE n \in {0} \cup DOMAIN log : \A k \in DOMAIN log : k <= n

Shows ==
    /\ hand = Service!LoggedPosition(Played)
    /\ paid = IF result = NotPaid THEN NotPaid ELSE Payout(result, Verdict[result])

\* Wherever a position of the game is kept, the chips of the buy-ins are in it.
ChipsServed ==
    /\ Chips(game.state) = Escrow
    /\ \A k \in DOMAIN log : Chips(log[k].state) = Escrow
    /\ result # NotPaid => Chips(result) = Escrow

\* The payout from the saved result is the pot less the rake to the wei, goes to
\* players still in, and the escrow covers it with the rake it takes itself.
PayoutCovered ==
    result # NotPaid =>
        LET p == Payout(result, Verdict[result]) IN
        /\ Total(p) + Rake(result.pot) = result.pot
        /\ DOMAIN p \subseteq Unfolded(result)
        /\ Total(p) + Rake(Escrow) <= Escrow
=============================================================================
