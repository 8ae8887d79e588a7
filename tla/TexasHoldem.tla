---------------------------- MODULE TexasHoldem ----------------------------
(***************************************************************************)
(* One hand of games/texas_holdem_v1/engine.rs: the JSON state of          *)
(* TexasHoldemV1 as a record and init, valid_actions, apply_action,        *)
(* is_terminal and result as operators on it, driven by the moves that     *)
(* submit_action lets through and by the fold of a timeout.                *)
(*                                                                         *)
(* Cards are counted, not named: which cards fall only matters to the      *)
(* scores of the hands, which Pay chooses.  The seats are 1..N and every   *)
(* stack is the room's buy-in, as start_game seats the players.            *)
(***************************************************************************)
EXTENDS Naturals, FiniteSets, Functions

CONSTANTS
    N,          \* how many players are dealt in
    BuyIn,      \* buy_in_wei
    Amounts,    \* the amount_wei values a request can name
    RakeBps,    \* config.rake_bps
    Scores      \* the scores evaluate_best_hand can return

ASSUME TableAssumption ==
    /\ N \in 2..9
    /\ BuyIn \in Nat \ {0}
    /\ Amounts \subseteq Nat
    /\ RakeBps \in 0..1000
    /\ Scores \subseteq Nat

VARIABLES
    hand,       \* games.current_state
    paid        \* what result() gave each winner, by seat; empty before

vars == <<hand, paid>>

Seats == 1..N
DealerSeat == 1
After(s) == (s % N) + 1
SmallBlindSeat == IF N = 2 THEN DealerSeat ELSE After(DealerSeat)
BigBlindSeat == After(SmallBlindSeat)
SmallBlind == BuyIn \div 100
BigBlind == BuyIn \div 50
Blind(s) == IF s = SmallBlindSeat THEN SmallBlind
            ELSE IF s = BigBlindSeat THEN BigBlind ELSE 0
\* Mutant: the blinds go into the pot and stay on the stacks.
StackDealtBlindsKept(s) == BuyIn
StackDealt(s) == BuyIn - Blind(s)

\* What init leaves: two cards each, blinds posted, under the gun to act.
InitialHand ==
    [phase |-> "pre_flop", deck |-> 52 - 2 * N, community |-> 0,
     stack |-> [s \in Seats |-> StackDealt(s)],
     bet |-> [s \in Seats |-> Blind(s)],
     status |-> [s \in Seats |-> "active"],
     pot |-> SmallBlind + BigBlind, current |-> BigBlind,
     on |-> After(BigBlindSeat), turn |-> 1, aggressor |-> BigBlindSeat]

Phases == {"pre_flop", "flop", "turn", "river", "completed"}
Hands ==
    [phase : Phases, deck : Nat, community : 0..5, stack : [Seats -> Nat],
     bet : [Seats -> Nat], status : [Seats -> {"active", "all_in", "folded"}],
     pot : Nat, current : Nat, on : Seats, turn : Nat \ {0},
     aggressor : Seats]

----------------------------------------------------------------------------
(* Reading a hand                                                          *)

Active(h)   == {s \in Seats : h.status[s] = "active"}
Unfolded(h) == {s \in Seats : h.status[s] # "folded"}

\* is_terminal
Terminal(h) == h.phase = "completed"

\* current_bet.saturating_sub(bet_this_round)
ToCall(h, s) == IF h.bet[s] < h.current THEN h.current - h.bet[s] ELSE 0

\* The seats asked after s, nearest first: the loop over next_seat, which
\* ends with s itself.
Distance(s, t) == (t + N - s - 1) % N
\* Mutant: the next seat, whoever sits there.
NextSeat(h, s) == After(s)
NextActive(h, s) ==
    CHOOSE t \in Active(h) :
        \A u \in Active(h) : Distance(s, t) <= Distance(s, u)

Moves == {"fold", "check", "call", "bet", "raise", "all_in"}

\* valid_actions
ValidActions(h, s) ==
    {m \in Moves :
        /\ ~Terminal(h) /\ s = h.on /\ h.status[s] = "active"
        /\ \/ m = "fold" /\ h.stack[s] + ToCall(h, s) > 0
           \/ m \in {"check", "bet"} /\ ToCall(h, s) = 0 /\ h.stack[s] > 0
           \/ m = "all_in" /\ ToCall(h, s) > 0 /\ h.stack[s] <= ToCall(h, s)
           \/ m \in {"call", "raise"} /\ ToCall(h, s) > 0
                                      /\ h.stack[s] > ToCall(h, s)}

----------------------------------------------------------------------------
(* apply_action, which asks neither whose turn it is nor valid_actions     *)

\* Mutant: a bet is not held against the stack.
AppliesAnyBet(h, s, m, x) ==
    \/ m \in {"fold", "call", "all_in"}
    \/ m = "check" /\ ToCall(h, s) = 0
    \/ m = "bet" /\ BigBlind <= x
    \/ m = "raise" /\ h.current <= x /\ x <= h.stack[s]
\* Mutant: a raise is not held against the current bet.
AppliesAnyRaise(h, s, m, x) ==
    \/ m \in {"fold", "call", "all_in"}
    \/ m = "check" /\ ToCall(h, s) = 0
    \/ m = "bet" /\ BigBlind <= x /\ x <= h.stack[s]
    \/ m = "raise" /\ x <= h.stack[s]
\* The move is accepted; x is the amount it names, if it needs one.
Applies(h, s, m, x) ==
    \/ m \in {"fold", "call", "all_in"}
    \/ m = "check" /\ ToCall(h, s) = 0
    \/ m = "bet" /\ BigBlind <= x /\ x <= h.stack[s]
    \/ m = "raise" /\ h.current <= x /\ x <= h.stack[s]

\* The chips the move takes from the stack.
Spent(h, s, m, x) ==
    CASE m = "call" -> IF ToCall(h, s) <= h.stack[s] THEN ToCall(h, s)
                       ELSE h.stack[s]
      [] m \in {"bet", "raise"} -> x
      [] m = "all_in" -> h.stack[s]
      [] OTHER -> 0

\* The move sets the bet the others must match.
Raises(h, s, m, x) ==
    \/ m \in {"bet", "raise"}
    \/ m = "all_in" /\ h.bet[s] + h.stack[s] > h.current

\* Mutant: only the all_in move makes a player all-in.
StatusAfterNamed(h, s, m, x) ==
    CASE m = "fold" -> "folded" [] m = "all_in" -> "all_in"
      [] OTHER -> h.status[s]
\* The mover's status: folded, all_in without chips behind, or as before.
StatusAfter(h, s, m, x) ==
    CASE m = "fold" -> "folded"
      [] m = "all_in" -> "all_in"
      [] m \in {"call", "bet", "raise"} /\ Spent(h, s, m, x) = h.stack[s] ->
            "all_in"
      [] OTHER -> h.status[s]

\* Mutant: the pot takes a raise for the whole bet of the round.
MovedRaiseTo(h, s, m, x) ==
    LET spent == Spent(h, s, m, x) IN
    [h EXCEPT !.stack[s] = @ - spent,
              !.bet[s] = @ + spent,
              !.pot = @ + spent - (IF m = "raise" THEN h.bet[s] ELSE 0),
              !.status[s] = StatusAfter(h, s, m, x),
              !.current = IF Raises(h, s, m, x) THEN h.bet[s] + spent ELSE @,
              !.aggressor = IF Raises(h, s, m, x) THEN s ELSE @,
              !.turn = @ + 1]

\* The move itself, before the action advances.
Moved(h, s, m, x) ==
    LET spent == Spent(h, s, m, x) IN
    [h EXCEPT !.stack[s] = @ - spent,
              !.bet[s] = @ + spent,
              !.pot = @ + spent,
              !.status[s] = StatusAfter(h, s, m, x),
              !.current = IF Raises(h, s, m, x) THEN h.bet[s] + spent ELSE @,
              !.aggressor = IF Raises(h, s, m, x) THEN s ELSE @,
              !.turn = @ + 1]

\* Mutant: there is no street after the river, not even the showdown.
FollowingToRiver(p) ==
    CASE p = "pre_flop" -> "flop" [] p = "flop" -> "turn"
      [] OTHER -> "river"
Following(p) ==
    CASE p = "pre_flop" -> "flop" [] p = "flop" -> "turn"
      [] p = "turn" -> "river" [] OTHER -> "completed"
Dealt(p) == CASE p = "flop" -> 3 [] p \in {"turn", "river"} -> 1 [] OTHER -> 0
Burnt(p) == IF Dealt(p) > 0 THEN 1 ELSE 0

\* Mutant: with nobody left to ask the hand completes before the cards fall.
NextPhaseUndealt(h) ==
    LET p == Following(h.phase) IN
    IF Active(h) = {} THEN [h EXCEPT !.phase = "completed"]
    ELSE [h EXCEPT !.phase = p,
                   !.bet = [s \in Seats |-> IF s \in Unfolded(h) THEN 0 ELSE @[s]],
                   !.current = 0,
                   !.community = @ + Dealt(p),
                   !.deck = @ - Dealt(p) - Burnt(p),
                   !.on = IF p = "completed" THEN @ ELSE NextActive(h, DealerSeat)]

\* next_phase: the bets are reset, but not those of the folded; with nobody
\* left to ask the hand completes on the board dealt so far.
NextPhase(h) ==
    LET p == Following(h.phase) IN
    [h EXCEPT !.phase = IF Active(h) = {} THEN "completed" ELSE p,
              !.bet = [s \in Seats |-> IF s \in Unfolded(h) THEN 0 ELSE @[s]],
              !.current = 0,
              !.community = @ + Dealt(p),
              !.deck = @ - Dealt(p) - Burnt(p),
              !.on = IF p = "completed" \/ Active(h) = {} THEN @
                     ELSE NextActive(h, DealerSeat)]

\* Every player still active has put in the current bet.
RoundComplete(h) == \A s \in Active(h) : h.bet[s] >= h.current

\* advance_action
Advanced(h) ==
    IF Cardinality(Unfolded(h)) = 1 THEN [h EXCEPT !.phase = "completed"]
    ELSE IF RoundComplete(h) THEN NextPhase(h)
    ELSE [h EXCEPT !.on = NextActive(h, h.on)]

Applied(h, s, m, x) == Advanced(Moved(h, s, m, x))

TimeoutMove == "fold"

----------------------------------------------------------------------------
(* result                                                                  *)

\* evaluate_best_hand asserts five cards and panics on fewer.
Scored(h) == 2 + h.community >= 5

Rake(pot) == (pot * RakeBps) \div 10000

Winners(h, score) ==
    {s \in Unfolded(h) : \A t \in Unfolded(h) : score[t] <= score[s]}

\* Mutant: the remainder of an uneven split is paid to nobody.
PayoutRoundedDown(h, score) ==
    LET w == Winners(h, score)
    IN  [s \in w |-> (h.pot - Rake(h.pot)) \div Cardinality(w)]

\* The pot less the rake in equal shares, the remainder to the first winner.
Payout(h, score) ==
    LET w     == Winners(h, score)
        share == (h.pot - Rake(h.pot)) \div Cardinality(w)
        rest  == (h.pot - Rake(h.pot)) % Cardinality(w)
        first == CHOOSE s \in w : \A t \in w : s <= t
    IN  [s \in w |-> IF s = first THEN share + rest ELSE share]

NotPaid == [s \in {} |-> 0]

----------------------------------------------------------------------------
Init ==
    /\ hand = InitialHand
    /\ paid = NotPaid

\* A move submit_action lets through.
Act(s, m, x) ==
    /\ m \in ValidActions(hand, s)
    /\ Applies(hand, s, m, x)
    /\ hand' = Applied(hand, s, m, x)
    /\ UNCHANGED paid

\* The turn manager folds the player on action_on_seat.
TimeOut ==
    /\ ~Terminal(hand)
    /\ Applies(hand, hand.on, TimeoutMove, 0)
    /\ hand' = Applied(hand, hand.on, TimeoutMove, 0)
    /\ UNCHANGED paid

\* complete_game takes the result of the completed hand.
Pay ==
    /\ Terminal(hand) /\ paid = NotPaid
    /\ Scored(hand)
    /\ \E score \in [Unfolded(hand) -> Scores] : paid' = Payout(hand, score)
    /\ UNCHANGED hand

Next ==
    \/ \E s \in Seats, m \in Moves, x \in Amounts : Act(s, m, x)
    \/ TimeOut
    \/ Pay

Spec == Init /\ [][Next]_vars

----------------------------------------------------------------------------
(* Properties                                                              *)

Total(f) == FoldFunction(LAMBDA x, y : x + y, 0, f)
Escrow == N * BuyIn

TypeOK ==
    /\ hand \in Hands
    /\ DOMAIN paid \subseteq Seats /\ \A s \in DOMAIN paid : paid[s] \in Nat

\* No move creates or loses a chip: stacks and pot always make up what the
\* players brought, whichever of the six branches moved the chips.
ChipsConserved == Total(hand.stack) + hand.pot = Escrow

\* While a round is open the bet to match is the largest bet of a player
\* still in, so what to_call says is owed is owed to somebody.
CurrentBetIsLargest ==
    ~Terminal(hand) =>
        /\ \A s \in Unfolded(hand) : hand.bet[s] <= hand.current
        /\ \E s \in Unfolded(hand) : hand.bet[s] = hand.current

\* The player to act can stay in the hand: it always has a check, a call or
\* an all-in, so nobody is made to fold by the rules or to wait for a timeout
\* because valid_actions is empty.  And it has something to decide: the only
\* player with chips behind is asked only while it owes something, although
\* advance_action and next_phase have no such case.
ActorCanStay ==
    ~Terminal(hand) =>
        /\ \E m \in ValidActions(hand, hand.on) \cap {"check", "call", "all_in"} :
              Applies(hand, hand.on, m, 0)
        /\ Cardinality(Active(hand)) = 1 => ToCall(hand, hand.on) > 0

\* all_in is exactly having no chips behind, although each branch decides it
\* on its own.
AllInMeansNoChips ==
    \A s \in Seats : hand.status[s] = "all_in" <=> hand.stack[s] = 0

\* What the seats put in that s could match.
Matched(s) ==
    LET in(t) == BuyIn - hand.stack[t] IN
    Total([t \in Seats |-> IF in(t) <= in(s) THEN in(t) ELSE in(s)])

\* The winners share the pot less the rake to the wei, each is still in, and
\* BotTheHouseEscrow, which takes its rake of the whole escrow and not of the
\* pot, never reverts the settlement with Overdistribution.  Every stack is
\* dealt equal, so a winner never takes more of a player's chips than it put
\* in itself, although result() knows no side pots.
PotIsPaidOut ==
    paid # NotPaid =>
        /\ Total(paid) + Rake(hand.pot) = hand.pot
        /\ DOMAIN paid \subseteq Unfolded(hand)
        /\ Total(paid) + Rake(Escrow) <= Escrow
        /\ \A s \in DOMAIN paid : paid[s] <= Matched(s)

\* A hand that two or more players reach the end of can be scored: wherever the
\* last of them went all-in, next_phase has dealt the flop before the hand is
\* completed, so evaluate_best_hand does not panic on it (engine.rs:386).  The
\* board may have three cards only, and a hand won by folds none.
ShowdownCanBeScored ==
    Terminal(hand) /\ Cardinality(Unfolded(hand)) > 1 => Scored(hand)

\* A hand cannot go round in circles: every move takes chips off a stack, or
\* a player out of the betting, or the hand to a later street, and nothing
\* brings any of them back.
Street(h) == CHOOSE n \in 0..4 :
    <<"pre_flop", "flop", "turn", "river", "completed">>[n + 1] = h.phase
EveryMoveProgresses ==
    [][ /\ hand'.pot >= hand.pot
        /\ Active(hand') \subseteq Active(hand)
        /\ Street(hand') >= Street(hand)
        /\ \/ hand'.pot > hand.pot
           \/ Active(hand') # Active(hand)
           \/ Street(hand') > Street(hand) ]_hand

----------------------------------------------------------------------------
(* What the repository's words say and the code does not do                *)

\* "A betting round is complete when all active players have either called
\* the current bet, checked, ...": with no bet made, the round goes on while
\* a player behind the mover has not been asked.
NoOneSkipped ==
    [][ \A s \in Active(hand) :
           (/\ hand.phase \in {"flop", "turn", "river"} /\ hand.current = 0
            /\ Cardinality(Unfolded(hand')) > 1
            /\ Distance(DealerSeat, s) > Distance(DealerSeat, hand.on))
           => hand'.phase = hand.phase ]_hand

\* assert!(cards.len() >= 5, "Need at least 5 cards"): the hands of a
\* completed game can be evaluated.
CompletedCanBeScored == Terminal(hand) => Scored(hand)
============================================================================
