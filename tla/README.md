# Bothouse in TLA+

A verification development for the Bothouse backend (`src/src`): agents hold
API keys, deposit a buy-in in an escrow contract, sit down in rooms and play
No-Limit Texas Hold'em over HTTP; the server is referee, clock and cashier.
The code is one tokio process over Postgres, Redis and an Ethereum RPC node.

The question asked here is about *a game of money from the seat to the
payout*: which races, lost writes, timeouts and crashes can change who has
won, how often a game is paid, or whether it ends at all. Around it are the
two ways in, sessions and API keys: what a used nonce, a closed session or a
replaced key can still open. The modules translate the Rust source;
`SPECS.md` is only quoted where the code does something else.

## The system

| component | source | state it keeps | operations that change it |
|---|---|---|---|
| game service | `services/game_service.rs` | rows `games`, `game_log`, `game_players`, `game_results`, `agent_stats`; cache key `turn:{game_id}` | `submit_action`, `advance_turn`, `run_turn_manager` (one task per game), `complete_game` (one task per terminal move) |
| engine | `games/texas_holdem_v1/engine.rs` | none: the JSON position is an argument | `init`, `valid_actions`, `apply_action`, `is_terminal`, `result`, `timeout_action` |
| hand evaluator | `.../hand_evaluator.rs` | none | `evaluate_best_hand` |
| lobby | `services/lobby_service.rs` | rows `rooms`, `seats`, `games`, `game_players` | `create_room`, `join_room`, `leave_room`, `join_queue`, `start_game` |
| settlement | `services/settlement_service.rs`, `adapters/ethereum` | none stored; the escrow contract | `initiate`: submit, five polls, an event |
| auth | `services/auth_service.rs` | nonces (cache), sessions | `generate_nonce`, `verify_signature`, `refresh_token`, `logout` |
| agents | `services/agent_service.rs` | rows `agents`, the API-key cache | `register_agent`, `update_agent`, `rotate_api_key`, `authenticate_agent_key` |
| analytics | `services/metrics_service.rs` | none: reads | queries |
| rate limiter | `api/middleware/rate_limit.rs` | token buckets behind a mutex | `check` (wired to no route) |
| stores, cache, bus | `adapters/postgres`, `adapters/redis` | the tables, TTL keys, channels | single statements; no transaction spans two |

How they interact. The last `join_room` to find the room full enough runs
`start_game` inline, which writes the game and spawns its turn manager.
`submit_action` and the turn manager are then two unsynchronised writers of
the same game: they meet only in the cache key, read with one call and deleted
with another, and in `UNIQUE(game_id, sequence)` of `game_log`. A terminal
move of either spawns `complete_game`, which writes result, stats and the two
status columns and spawns `settlement_service::initiate`. No lock or database
transaction spans two awaits anywhere. Errors are handled in two ways: `?`,
which ends the handler where it is, and `let _ =`, which goes on as though
the write had been done.

What is hard, and which property it comes to (the full list with lines is
`hazards` in PROJECT.json):

- *Two writers of one turn.* The move is computed from a row read before the
  turn was claimed. Does the log still replay? (`LogReplays`, `RowIsLogged`,
  `SequenceNeverRegresses`, `ChangesAreNumbered`)
- *Two writes per move.* The append and the save can be separated by a crash,
  an error or the other writer. (`AcceptedIsLogged`, `LogHasNoGap`,
  `SequenceMatchesTurn`)
- *Completion.* Several `complete_game` tasks, each able to stop half way.
  (`CompletesOnce`, `CompletionIsFinal`)
- *Does the hand end?* The turn key is the only thing the manager looks at;
  every path that takes it has to put it back, and its time to live runs
  beside the manager's sleep. (`AbandonedHandFinishes`, `EveryHandFinishes`,
  `SomeoneCanMove`, `TurnMeetsTheManager`)
- *Chips.* Six kinds of move each do their own arithmetic over four streets,
  without side pots. (`ChipsConserved`, `PotIsPaidOut`,
  `CurrentBetIsLargest`, `ActorCanStay`, `AllInMeansNoChips`)
- *The end of a hand.* Whether a round is over is read off the bets; can a
  hand go round in circles, or end where nobody can be scored?
  (`EveryMoveProgresses`, `ShowdownCanBeScored`)
- *Scores.* Category and ranks are packed into one number, and ties split the
  pot. (`OrderIsPokers`, `BestIsUnbeaten`)
- *Seats.* Counts and statuses are read, then an RPC to the chain is awaited,
  then the seat is written; `start_game` is a row of awaits and may stop at each.
  (`NeverOverfull`, `PlayersHaveDeposited`, `RoomFollowsItsGames`,
  `SeatsAreDense`, `OneGamePerRoom`, `InProgressIsServed`)
- *Money.* The settlement comes after four kinds of writes, is sent to a chain
  that answers late or not at all, and is polled five times.
  (`PaymentFollowsTheBooks`, `VerdictIsWhatWasSeen`, `VerdictComes`,
  `ResultIsSettled`)
- *Statistics.* An agent in two games that end together has one row, read and
  written back by both. (`StatsFollowTheGames`)
- *Signing in and out.* Nonce, session row and cache entry are read and deleted
  in separate calls. (`LateRequestsAreRefused`, `LoggedOutIsForgotten`)
- *API keys.* Updates and rotations write back a whole row, and a key has two
  halves, a hash in the table and a prefix in the cache.
  (`FieldsAreLostByOverlapOnly`, `OwnerIsNotLockedOut`, `RotatedOutIsRefused`)

## The modules

**GameService** models one running game. An action is one await of a handler:
what a handler does between two awaits has no other store or cache call in it,
and any other task may run at an await. `pc[t]`/`job[t]` are the program
counter and the locals of each request slot and of the manager; `job.state`
and `job.seq` are the copy of the row the handler works on, which is where
staleness lives. `cpc`/`final` are the `complete_game` task that each of them
may have started. A slot in `Requests` is one `POST /games/{id}/action` in
flight and is reused. The `Game` trait appears as operator constants (`Valid`,
`Applies`, `Apply`, `Terminal`, ...) under `RulesAssumption`, so nothing
depends on poker. `Pays(s)` says that `result` returns `Some` (it may return
`None`, and may panic). The guards follow the early returns: `SubmitReject` is
every refusal after the key was taken, `SubmitFail` every `?` and dropped
connection, `CompleteFail` a `complete_game` that stops at any call, with any
subset of the stats written. `SubmitAppend` and `ManagerAppend` differ as the
code does: an error ends the request, and is ignored by the manager.
`ExpireTurn` is the TTL, `ManagerStop` the shutdown branch of `select!`,
`Crash` the death and restart of the process. A key that is not there is `Expired`
or, deleted or never set, `NoAgent`: properties tell the two apart, no action does.
The room's row is not kept here:
`complete_game` writes it, but so do `start_game` and the room's other games,
and neither looks at it first; it is Lobby's. Two flags name the situations
that theorems distinguish: `TurnsTimeOut` (the manager's sleep can elapse) and
`WritesMayFail` (a call whose error is ignored can fail).

**GameProgress** is GameService with what the scheduling guarantees: fair steps
of the manager, of a request once it is served and of `complete_game`, requests
that may fail anywhere, and turn keys that may expire at any moment. Crashes,
shutdown and failing stores of the manager and of `complete_game` are not in it.

**GameLedger** is the abstract specification: an append-only list of legal
moves and one payout from a finished position. `GameService!ImplementsLedger`
is the refinement, `entries <- log`, `payout <- result`.

**TexasHoldem** models one hand. The position is a record with the fields of
the JSON state; `ValidActions`, `Applies`, `Moved`, `Advanced`, `NextPhase`
and `Payout` are `valid_actions`, the checks and the effects of
`apply_action`, `advance_action`, `next_phase` and `result`. `Applies` is kept
apart from `ValidActions` because the code does so: the timeout path calls
`apply_action` without `valid_actions`. Cards are counted (deck, community)
and a showdown chooses any scores for the unfolded hands. Seats are 1..N with
equal stacks, as `start_game` deals them; the dealer is seat 1.

**Lobby** models the rooms, seats and games tables and the five operations,
again one await per action; `start_game` continues the `join_room` that called
it (`pc` values `s_*`), and `join_queue` continues as `join_room` or
`create_room`. The escrow contract is external: `check_escrow_deposit` answers
either way, and `verified` remembers the yes. `managers` has the games whose
turn manager was spawned, which is an action after the room says InProgress
(`StartProgress`, `StartSpawn`). `CompleteRoom` is the write of a `complete_game`
of one of those games, whatever the room says by then. A write whose reply is lost
is the write followed by `Fail`. `SeatTaken` is the pair of
unique constraints of the `seats` table. Room 1, 2, ... are in the order of
insertion; all have one buy-in.

**TurnClock** models only time: the expiry of the turn key (whole seconds,
`SET EX`) against the manager's sleep (milliseconds, not restarted when a
request hands the turn on). Between key and sleep the manager awaits store reads
and a webhook of up to 3 s, `Calls` at most in all: `manager` is its
place in the cycle, `left` the time its sleep, or at most its calls, still take.
A request reads, deletes and sets the key in three steps, and may take any time between
them; one answers at a time, and moves are always accepted. What a refused or
racing move does is GameService's.

**HandEvaluator** has the scoring as pure operators: `Category`, `Kicker` and
`Score` are `evaluate_five`, `Best` is `evaluate_best_hand`. The branches of
the code, tried from the highest category down, are the largest category that
a hand `Makes`. Poker's order is stated next to it without any number: a
category by shape, then the first group of ranks in which two hands differ.
Its only state is the two hands that were `shown`, so that TLC goes through
all pairs.

**Closing** takes over where GameService stops: any number of
`complete_game` calls over several games that share players, the settlement
task each of them spawns, and the chain. GameService has what *one* game's
handlers do to its own rows; Closing has what games do to each other (the
rows of `agent_stats`) and what follows the room's last write. Actions are
again awaits, and a call that fails may have been carried out (`Goes`) or not
(`Stop`). The chain is external and free: a transaction is mined, reverted or
dropped at any time, or never. `raced`, `minedAt` and `missed` are history
variables: which rows were written while another call held a copy, and what
the polls could have seen.

**Sessions** has nonces, users, session rows and cache entries, and the
handlers of `auth_service`. A signature is the number of the nonce it was made
over, a token the number of its session. `late` holds the requests that were
sent after their nonce was used up or their session closed; an overlapping
request is not in it, and it is the only kind the code lets pass.

**Agents** has the `agents` table, the key prefixes in the cache and the
handlers of `agent_service`. `ideal` is what the row would be if each write
only set the field it is about, and `lost` names the fields that some write
has put back since; the properties say that nothing is lost in another way.

**MCGameService**, **MCGameProgress**, **MCLobby**, **MCClosing**,
**MCSessions**, **MCAgents** and **MCHandEvaluator** give the constants of their
modules small values. The first two play **Betting**, a toy whose position *is*
its history, so that two different runs never look alike by accident; a hand that
ends on its first move has no result, like a hold'em hand won before the flop. TexasHoldem and TurnClock have
plain constants and need no MC module.

**Match** puts the two together: an instance of GameService whose agents are
seats and whose `Valid`, `Applies`, `Apply`, `Terminal` and `Pays` are
TexasHoldem's `valid_actions`, `apply_action`, `is_terminal` and `result`.
`Positions` are the hands that may come up at all, with racing timeouts too, where an
accepted move need not be legal: typed, with a board that goes with the street
and with all the chips. `Shows` reads `hand` and `paid` off the service's log and
result, `Verdict` is any evaluator. Match is composed for its theorems; the
product of both state spaces is no run.

**GameServiceProofs** (with the ledger), **LobbyProofs**, **TurnClockProofs**,
**TexasHoldemProofs** (with Match), **HandEvaluatorProofs**,
**ClosingProofs**, **SessionsProofs** and **AgentsProofs** hold the proofs.

Definitions whose comment begins with *Mutant* are wrong on purpose: each
stands beside the definition it would replace and breaks a property of a run,
which shows that the property depends on that piece of code.

## The runs

| run | constants | asks | states |
|---|---|---|---|
| GameServicePlayed | 2 agents, 2 request slots, hands of up to 3 moves, no timeouts, failing writes | do requests alone implement the ledger? | 43k |
| GameServiceFaults | the same with 2 moves, timeouts and failing writes | what survives every fault | 493k |
| GameServiceProgress | 1 slot, 3 moves, timeouts, failing requests, expiring keys, fair | does the manager finish an abandoned hand; does the log stay dense | 206k |
| GameServiceStuck | 1 slot, 2 moves, timeouts, expiring keys, no failures, fair | does every hand finish? It does not | counterexample |
| TexasHoldemThree | 3 players, 100 wei, 7 amounts, rake 5%, 2 scores | every hand, played to the payout | 219k |
| HandRanks | 255 hands of five over six ranks, all pairs | are the scores poker's order; is the best hand found | 65k |
| LobbyRaces | 3 agents, 2 handlers, one room of 2, 4 seats ever | every race of the five operations, and of games that end | 141k |
| TurnClockCycle | timeout 4.5 s in quarter seconds, calls of up to 3.25 s | how long a turn can last, and whom the manager can fold for | 3k |
| Closing | 2 games, 3 agents, 3 calls, 5 polls, 1 crash, store and RPC failing, fair | books, payments, verdicts and stats | 386k |
| ClosingUnpaid | the same, both games hold'em, no faults, fair | is every result settled? It is not | counterexample |
| Sessions | 1 wallet, 2 requests, 2 nonces, 2 sessions | what a late request can still do | 391k |
| Agents | 1 agent, 2 requests, 3 keys, a status or a key asked for | what overlapping changes of one row lose | 664k |

Why the bounds are enough. Two slots and the manager give every pair of
writers of one turn, and a slot is reused, so a late third request is there
too. Three moves let a handler hold a copy two saves old. `MaxMoves` bounds
the toy game and not the service: sequence numbers are not capped otherwise,
and one move more than `MaxMoves` is allowed because a stale manager can apply
it.

For hold'em three players are the smallest table where dealer, small blind,
big blind and first to act differ on a later street, and where a player can be
folded, one all-in and one active at a time; the amounts are the small blind,
the big blind, three, half the stack, and the values around the whole stack
(99 after a small blind, 97 after calling three).

The evaluator looks at a hand through the multiset of its ranks and whether
there is one suit, so HandRanks has one hand for each. Six ranks with the ace
reach every category and every way in which two hands of one category first
differ, at each place of the packed number; two hands that share cards make
the six and seven cards of `BestIsUnbeaten`.

In the lobby three agents over two seats is the smallest overfull race, and
four creations let both seats be left and taken again; with one room
`join_queue` never picks between two, only between joining and creating. The
timeout of TurnClockCycle is no multiple of a second, so that rounding down
matters, and the calls are the 3 s that the HTTP client allows a webhook
(http_client.rs:14) and a quarter for the stores; the theorems leave all three
numbers open.

In Closing one game is completed by two calls, as GameService shows it may be,
and shares two players with another game in other seats; so one call meets its
own game's rival and a stranger over the same row. One of the games has wallets
in its position and is paid, the other is hold'em. Five polls is the code's
number. Two overlapping requests are every pair of `auth_service` and of
`agent_service`; a slot is reused, so that the effects of a third, earlier or
later, are there. Two nonces let one replace the other, two sessions let one
login's answer cross another's logout; three keys are the registered one and two
that overlapping rotations make.

Symmetry is used for request slots and lobby agents and handlers, never in a
run with liveness, and not for the agents of a hand, whose seats are ordered.
`CHECK_DEADLOCK FALSE` is set where the system really stops: a finished hand
in TexasHoldem, GameService without faults after completion, Closing when all
is announced, two hands shown, and Sessions and Agents when the bounded
numbers are used up and everything has expired or been refused.

### Fairness

`FairSpec` of GameProgress has weak fairness of the manager's steps, of the steps
of a request that was accepted by the server, and of `complete_game`; tokio polls
woken tasks, store calls return, and a `sleep` elapses. It has *no* fairness for the
arrival of requests: agents owe nothing. It leaves out crashes, shutdown and the
errors that the manager or `complete_game` meets: nothing takes up their work
again, so no hand ends after them. Requests may fail, and keys may expire, with no
fairness: expiry is no fault, and with the default timeout the key of an idle agent
that got its turn from the manager is gone before the manager looks
(`TurnMeetsTheManager`, item 7). That is why `AbandonedHandFinishes` has the escape
`turn = Expired`. It speaks of the keys that live until the manager looks, as those do
that a request set in the middle of a sleep, and says that the manager then takes, plays
and hands on turn after turn until the hand is played or a key of its own
expires. `Played` has the final position without a result next to Completed:
`complete_game` writes nothing for it (item 5).

TurnClock's fairness, which only `SomeoneCanMove` uses, is that time passes, due
keys expire, and the manager and a request that came are scheduled.

`Closing` has weak fairness of each call of `complete_game` and of each
settlement task, and none for the chain: nothing obliges it to mine. That is
why `VerdictComes` can only promise an announcement, after five polls at the
latest, and why it excepts a crash (no task is taken up again) and a failing event
bus (the error of `publish` is dropped). Sessions, Agents and Lobby answer one
request at a time and owe nothing afterwards, so they have only safety properties.

### What the code does otherwise than its documents say

Two runs stop at a counterexample, quoted in `findings`.

1. `GameServiceStuck`: a refused move (a wrong signature, an action that is
   not valid) has already deleted the turn key; nothing sets it again and the
   manager skips a missing key. One mistake of the agent to act and the hand hangs,
   although nothing failed and no key expired (`EveryHandFinishes` excepts both
   an expiry and a hand without a result).
2. `ClosingUnpaid`: `init` gives a player no `wallet_address`, `result` looks
   for one in the final position and falls back to an empty string, and the
   escrow adapter fails to parse it. No result of hold'em is ever sent.

Further properties are stated in the modules, under a heading of their own,
and are in no run; put in place of the properties of the configuration named
here, each of them stops at a counterexample as well.

3. `ChangesAreNumbered` (GameServiceFaults): the "atomic claim" is a read and
   a delete, so a request and the manager can both play a turn. The manager
   ignores that its append was refused and saves another position under the
   same sequence.
4. `NoOneSkipped` (TexasHoldemThree): `round_complete` compares bets only, so
   with no bet on the street the first check ends the round for everybody behind.
5. `CompletedCanBeScored` (TexasHoldemThree): `result` evaluates the remaining
   hand even when all others folded, on as few as two cards, and the evaluator
   asserts five. `complete_game` panics and the game stays InProgress. A hand
   that two players finish has a flop at least (`ShowdownCanBeScored`), but
   all-in before the river it is scored on the board dealt so far.
6. `OneGamePerRoom` (LobbyRaces): two joins that both count enough seats both
   start the game.
7. `SomeoneCanMove` (TurnClockCycle): the key's time to live is no longer than the
   manager's sleep and starts before it, so the key of an idle agent that
   got its turn from the manager is gone when the manager looks, and the hand stops. The default of 10 s is no exception:
   the webhook comes between the two.
8. `WheelBeatsTwoPair` (HandRanks): A-2-3-4-5 is scored as two pairs and a
   six, 20,000,006, which is below *every* two pairs, where the comment
   beside it (hand_evaluator.rs:217) wants it just above them; the steel wheel
   gets the same score. `OrderIsPokers` therefore leaves wheels out.
   `WheelIsBelowTwoPair` proves it of every wheel: it beats one pair and none,
   and nothing else.
9. `InProgressIsServed` (LobbyRaces): `start_game` writes InProgress and then spawns
   the turn manager. Where the write is done and its reply lost, or the handler
   dropped at that await, the room says InProgress and no task serves the game.

Met while modelling, visible in the actions named.

- *Games.* A shutdown or crash leaves a game no manager serves (`Crash`,
  `ManagerStop`); an ignored append error leaves a gap (`ManagerAppend` under
  `WritesMayFail`); an agent handed the turn by a request in the middle of the sleep is
  folded early (`Look` and `Delete` of TurnClock).
- *Lobby.* `leave_room` may delete the seat of a started game, or leave a gap
  in the numbers after which the planned number is taken and no join succeeds
  (`LeaveDelete`, `JoinReadSeats`); `create_room` lists the room before the
  deposit is checked (`CreateRequest`); a room whose players left between
  count and read divides by zero in `init` and stays Starting
  (`StartCreateGame`); a room's status is overwritten by every writer, so a
  Completed room whose second game starts says Starting again (`StartSetStatus`,
  `CompleteRoom`).
- *Hold'em.* A raise may leave the current bet as it was (`Applies`); with
  all players all-in the board is not run out (`NextPhase`); the remainder of a
  split goes to the first winner and not to the house (`Payout`). With a buy-in
  below 50 wei the big blind is zero and a bet of zero is legal, after which
  nothing has changed; `MovesProgress` needs `BigBlind > 0`.
- *Money.* A settlement confirmed after the fifth poll is announced as failed
  although it was paid, and one whose `send` failed may have been sent
  (`CheckConfirmation`, `SettleFails`); the settlement record is built and
  never stored, so the announcement is all there is. Deposits are looked up
  under the room's id (lobby_service.rs:94, 182) and the settlement names the game's, a
  fresh UUID that nothing in `src/` registers with the contract.
- *Sessions.* Two overlapping logins can use one nonce (`VerifyGetNonce`,
  where SPECS.md:1403 has "Nonce expired or already used" refused), and a
  login's delete takes away whatever nonce the wallet has by then, a newer one
  included (`VerifyDeleteNonce`); a refresh that overlaps a logout still gets its
  token (`RefreshAnswer`); and no middleware asks for the session when a
  token is presented, so a logout ends refreshing and the cached entry,
  and the access token lives until it expires (`LogoutBegin`).
- *Agents.* A whole-row write can bring back a replaced key, a status or a
  time seen (`WriteRow`), and a rotation that fails after its write leaves the
  owner without a key that opens the row (`Fail`).

## What is proved

For all constants that satisfy the assumptions, with any number of agents and
requests and any game:

| theorem | says | needs |
|---|---|---|
| `TypeCorrect` | `TypeOK`, and a handler that acts knows its agent | `RulesAssumption`, `FlagsAssumption` |
| `AcceptedLogged` | an accepted move stays in the log | the same |
| `SequenceMatches` | sequence and turn number agree in the row | the same |
| `CompletedOnce`, `CompletionFinal` | one settlement, one count; a result and a Completed game stay | the same |
| `NoGap` | the log is 1..n and the row within it | ignored writes do not fail, or no timeouts |
| `RowLogged`, `Replayed`, `NeverRegresses` | row and log tell one legal history | no timeouts |
| `LedgerImplemented` | `Spec => Ledger!Spec` | no timeouts |
| `LobbyTyped`, `NotOverfull` | types; never more than `max_players` seated | `LobbyAssumption` |
| `RoomFollows` | InProgress and Completed mean a ready game, Open means none; managers serve ready games | the same |
| `Deposited` | every player's deposit was confirmed for that room | the same |
| `SeatsDense` | until a seat is left, seats and players are numbered 1..n and enough | the same |
| `ClockTyped`, `TurnMeets` | no turn outlasts the timeout and the calls of two rounds; one that the manager set is gone when it wakes | `ClockAssumption` |
| `TypeCorrect`, `AllInIsBroke`, `LargestBet` | every hand: types, all-in is an empty stack, the bet to match is somebody's | `TableAssumption` |
| `ShowdownHasBoard`, `ActorStays` | a showdown can be scored; who is asked can stay and has a decision | the same |
| `MovesProgress` | no hand goes round in circles | `BigBlind > 0` |
| `ChipsKept`, `PotPaidOut` | stacks and pot are the buy-ins; the payout is the pot to the wei and nobody wins more than was matched | `TableAssumption` |
| `ScoresAreOrdered`, `BestIsScored` | scores are poker's order for any two hands of the deck; the best five of six or seven are found | no wheel shown |
| `WheelIsBelowTwoPair` | where the wheel is ranked instead | none |
| `ChipsAreServed`, `AnyPayoutIsCovered` | every position the service keeps has all chips; every payout is its pot | `TableAssumption`, `MatchOK` |
| `MatchIsPlayed`, `MatchPaysThePot` | log and result are a hand of TexasHoldem, with its invariants | the same, no timeouts |
| `TypeCorrect`, `PaymentFollows` | money moves once, after the books | `ClosingAssumption` |
| `VerdictIsSeen`, `StatsFollow` | verdicts are what was seen; stats are lost by overlap only | the same |
| `TypeCorrect`, `LateRefused`, `Forgotten` | used nonces and closed sessions open nothing | `SessionsAssumption` |
| `TypeCorrect`, `FieldsLost` | a row loses fields by overlap only | `AgentsAssumption` |
| `OwnerHasKey`, `RotatedOutRefused` | the owner's key opens the row; a replaced key does not | the same |

The assumptions on the rules are what the engine gives: a move keeps the type
of the position and adds one to `turn_number`, no action is valid in a
terminal position, and `result` is `Some` only in a terminal one. For hold'em
they are no assumption: `RulesHold` proves them. `MatchOK` asks that the
evaluator gives each player still in a score, that there is an amount to name,
and that the flags of GameService are flags. Of the lobby
only that `2 <= min_players <= max_players` and that finitely many rooms and seats are ever
created, as many as one likes. Of the table 2 to 9 players, a buy-in of at
least one wei and a rake of at most a tenth; of Closing that games, with
distinct players, are finitely many; of sessions and agents that the
bounds on nonces, sessions and keys are numbers.

The arguments. None of the properties is inductive by itself.

- `AcceptedInv` adds that a request between append and answer has *its own*
  entry in the log at its sequence; entries never change (`LogGrows`), so the
  acknowledgement inherits it. This is where `UNIQUE(game_id, sequence)`
  enters.
- `SequenceInv` adds the same equation for the copy each handler holds and for
  the position it computed. A stale copy is old, but never torn.
- `CompletionInv` ties each `complete_game` step to the prefix of writes
  before it. `INSERT` of the result has a unique game id: the one task that got past
  it is the only one in a later step, however many were started.
- `GapInv` adds that every copy's sequence is in the log, and that a handler
  about to save has its entry there.
- `LedgerInv` is the interesting one. Copies may be stale, so it is *not* true
  that a request works on the current row. It is true that its copy is a logged
  position, that the log is at most one entry ahead of the row, and that the
  one entry ahead belongs to the single request still to save. A stale request
  computes a legal move from an old position, and its append then hits a
  taken sequence. The refinement needs one more step: the append extends the
  log at its end (`AppendPlays`), and a result is stored from the row's position with no
  entry ahead of it (`ResultPays`), so the payout is from the final position of the
  ledger.

- In LobbyProofs, `NumbersUnique` (the table's second unique constraint) with
  the planned number at most `max_players` bounds the seats: they inject into
  `1..max_players`. The count that was read plays no part, which is why it may be stale.
  `ServedInv` adds that a handler inside `start_game` finds its room out of
  Open already and that its game, once ready, stays so, which is what the one to
  spawn the manager relies on. `DepositInv`
  carries the contract's yes from the handler to the seat, to the players that
  `start_game` read, and to the game. `DenseInv` says that a planned number is
  at most one beyond the seats there are, so that the smaller ones are
  refused as taken, and that a count once sufficient stays so while nobody leaves.

- In TurnClockProofs the invariant bounds what is `left` in the sleep and outside it,
  and says that no key of the manager's own is there while it is about to set one.
- In TexasHoldemProofs, `HandOK` has two conjuncts that none of the
  properties mentions. `Level`: chips behind and chips bet come to the same
  for everybody still in, because stacks are dealt equal, so that a stack is empty
  only where the current bet is matched. `Order`: of the players still active
  those who owe come before those who do not, going round from the seat to
  act; so advancing to the next active seat finds one who owes whenever there
  is one. Both together are why no side pots are needed and why the last
  player with chips behind is not asked in vain. `MoveOK` is the same
  for the position between a move and `advance_action`.
- The chips and the pot are sums over the seats. `Total` is a fold, so a
  function defined by recursion over the subsets of its domain; that such a function
  exists is proved first (`SumsExist`), and what is said of it by taking one
  element off at a time (`SubsetInduction`), where the induction is over the *set* of good
  subsets, as a theorem with an operator parameter could not be instantiated.
  So sums add (`TotalAdds`), are monotone, and change by what one seat changes
  (`TotalChanges`), and `ChipsConserved` is inductive with the types. For
  `PotIsPaidOut` the invariant also has `Covered` (no stack is lower than that of a
  player still in) and `Unfolded # {}`, and the remainder of the split comes
  from dividing by at most nine winners (`DivMod`).
- In HandEvaluatorProofs five cards of the deck are one of six shapes of ranks
  (all apart, a pair, two pairs, three, a full house, four), and `Kicker`, which packs the ranks into four bits
  each, stays below the 10^7 that one category is worth. So scores compare by category
  first; within a category the packed number compares as its digits do, place by
  place from the left, which is poker's comparison of groups. The wheel is the one hand
  whose category is not what the digits say. For `BestIsUnbeaten` the maximum over the
  sets of five is at least each of them.
- The Match theorems begin with `ApplyTyped`: *any* accepted move, out of turn or
  on a finished hand too, keeps the types, the board of the street and the chips, and counts
  itself. That is `RulesAssumption`, and it discharges every
  theorem of GameServiceProofs for hold'em; `ChipsAreServed` and
  `AnyPayoutIsCovered` need no more, so they hold under any race, failure or timeout.
  `MatchIsPlayed` composes with `LedgerImplemented`: a `Play` of the ledger is
  an `Act` of the hand and its `Pay` a `Pay`, because a result is only saved
  where `result` has one (`ResultIsPayable`).
- In ClosingProofs the primary key of `game_results` makes one call of each
  game `Began`; a settlement task exists only when that call is past the room's
  status, and then it is in its last await (`CallOK`, `BooksClosed`). `InOrder`
  counts polls against the chain: while a transaction is mined and not yet
  heard of, the polls made are those before it was mined and those that failed since.
  For the stats, `CopyOK` says of each copy what the property says of the row, and that
  it *is* the row unless the row was raced; the counted games are a set, and a call adds
  its own game to it, once.
- In SessionsProofs a spent nonce is no longer the one that is stored and no
  nonce is issued twice; a session is not yet known to anybody while its login
  is before the answer (`OpenedOnce`), so no logout can come before its cache entry.
- In AgentsProofs a copy and the row agree in every field that is not `stale`
  (`RowsInv`). `OwnerInv` says of the key in each copy that will be
  written back what `OwnerIsNotLockedOut` says of the row. For `RotatedOutRefused`
  a key that a rotation has replaced is in a row only where `lost` has the
  key (`OldInv`), which needs that no key is in use before the request that
  made it writes it (`Fresh`) and that a copy with an old key is known to be
  stale (`OldIsStale`).

With timeouts `LedgerImplemented` is false, as item 3 above shows: that is the
boundary the theorem marks. It is the ignored error of the manager's append,
and not the race for the turn as such, that breaks the ledger.

Only model-checked is liveness (`AbandonedHandFinishes`, `VerdictComes`), which
is outside what the prover treats: fairness and `ENABLED`. Every other property
of a passing run is a theorem. The hands of `BestIsUnbeaten` and `OrderIsPokers`
in HandRanks are a sample of the deck; the theorems are about all of it.

## Not modelled, and why

- `visible_state`, a projection of the position for one viewer or for
  spectators, changes nothing. (It shows all cards of those who did not fold
  once the phase is completed, also when the hand was won by folds.)
- The rate limiter is a floating-point bucket in wall-clock time that no route
  uses and nothing constructs. Analytics reads counters that nothing in `src/`
  writes. Nothing subscribes to the event bus; what is published is counted in
  GameService and Closing.
- Shuffle (ChaCha20), hashes, signatures, HTTP parsing, OpenAPI and
  configuration are pure computation or I/O; signature checks appear as
  refusals. The positions of a table (`btn`, `sb`, ...) are labels.
- The in-memory adapters are test doubles, and looser than the tables: they
  have no unique constraints, on which `AcceptedLogged`, `CompletedOnce` and
  `NotOverfull` rest.
- `get_settlement` and `get_agent_history` are stubs. Read-only endpoints have
  no action.
- Amounts are small naturals: `u128` does not overflow at any chip count in
  circulation, and `ChipsConserved` bounds them by the escrow.

## Plan

1. Closing as an instance of GameService's `complete_game`, so that the games
   whose ends it starts from are those that GameService produces.
2. `RateLimiter`: the bucket against an abstract sliding allowance, should a
   route come to use it.

## Running

`tlc -config <run>.cfg <module>.tla`, with the module that PROJECT.json names
for the run (GameServicePlayed and GameServiceFaults use MCGameService,
GameServiceProgress and GameServiceStuck MCGameProgress, `Closing*` MCClosing, HandRanks
MCHandEvaluator, LobbyRaces MCLobby, Sessions MCSessions, Agents MCAgents;
TexasHoldemThree and TurnClockCycle their own modules), and `tlapm` on each of
the eight proof modules.
