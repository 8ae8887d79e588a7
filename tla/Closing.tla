------------------------------ MODULE Closing ------------------------------
(***************************************************************************)
(* What follows the end of a game: complete_game of several games whose    *)
(* players meet each other in more than one of them, the settlement task   *)
(* that each spawns, and the escrow contract on the chain.                 *)
(*                                                                         *)
(* Two handlers may have seen the end of one game (GameService), so a game *)
(* may have several calls of complete_game.  Every await is an action of   *)
(* its own, and one that fails may have been carried out.                  *)
(* Of the counters in a row of agent_stats two are kept, games_played and  *)
(* games_won: the others are computed from the same copy in the same way.  *)
(* All games are of one type, so each agent has one row.                   *)
(***************************************************************************)
EXTENDS Naturals, Sequences, FiniteSets

CONSTANTS
    Games,
    Calls,         \* calls of complete_game
    Game,          \* Game[c]: the game that call c completes
    Agents,
    Players,       \* Players[g]: the agents of a game in the order of their seats
    Winners,       \* Winners[g]: those whom the result names as winners
    Fields,        \* Fields[g]: the keys of a player in the final position
    Failing,       \* calls that may fail: among "store", "rpc" and "publish"
    MaxPolls,      \* attempts to find the transaction confirmed
    MaxCrashes     \* bound: times the process stops

ASSUME ClosingAssumption ==
    /\ IsFiniteSet(Games) /\ Game \in [Calls -> Games]
    /\ \A g \in Games :
         /\ Players[g] \in Seq(Agents) /\ Len(Players[g]) > 0
         /\ \A i, j \in 1..Len(Players[g]) : Players[g][i] = Players[g][j] => i = j
    /\ MaxPolls \in Nat \ {0} /\ MaxCrashes \in Nat

VARIABLES
    booked,        \* which of "result", "game", "room", "event" complete_game has written
    stats,         \* the row of each agent in agent_stats
    pc,            \* where each call of complete_game is
    seat,          \* the player whose stats come next
    copy,          \* the row that get_stats returned
    task,          \* where the settlement task is
    polls,         \* confirmations asked for
    heard,         \* what the task knows of the transaction
    tx,            \* the transaction on the chain
    sent,          \* ghost: transactions sent
    verdict,       \* the event published on the settlement
    crashes,
    raced,         \* ghost: agents whose row was written while another call held a copy
    minedAt,       \* ghost: polls made when the transaction was mined
    missed         \* ghost: polls that failed since

closing == <<booked, stats, pc, seat, copy, raced>>
settling == <<task, polls, heard, tx, sent, verdict, minedAt, missed>>
vars == <<closing, settling, crashes>>

Rows == [played : Nat, won : Nat]
Player(c) == Players[Game[c]][seat[c]]

\* May a call of this kind fail, and the handler stop with the error?
Fails(kind) == kind \in Failing

TypeOK ==
    /\ booked \in [Games -> SUBSET {"result", "game", "room", "event"}]
    /\ stats \in [Agents -> Rows] /\ copy \in [Calls -> Rows]
    /\ pc \in [Calls -> {"playing", "result", "read", "write", "game", "room", "event", "end"}]
    /\ seat \in [Calls -> Nat] /\ \A c \in Calls : seat[c] \in 1..Len(Players[Game[c]]) + 1
    /\ task \in [Games -> {"none", "settle", "poll", "announce", "end"}]
    /\ polls \in [Games -> 0..MaxPolls] /\ minedAt \in [Games -> 0..MaxPolls]
    /\ missed \in [Games -> 0..MaxPolls]
    /\ heard \in [Games -> {"nothing", "confirmed", "timeout", "error"}]
    /\ tx \in [Games -> {"none", "pending", "mined", "reverted", "dropped"}]
    /\ verdict \in [Games -> {"none", "SETTLEMENT_COMPLETED", "SETTLEMENT_FAILED"}]
    /\ sent \in [Games -> Nat] /\ crashes \in 0..MaxCrashes /\ raced \subseteq Agents

----------------------------------------------------------------------------
(* complete_game                                                           *)

Init ==
    /\ booked = [g \in Games |-> {}]
    /\ stats = [a \in Agents |-> [played |-> 0, won |-> 0]]
    /\ pc = [c \in Calls |-> "playing"] /\ seat = [c \in Calls |-> 1]
    /\ copy = [c \in Calls |-> [played |-> 0, won |-> 0]]
    /\ task = [g \in Games |-> "none"] /\ polls = [g \in Games |-> 0]
    /\ heard = [g \in Games |-> "nothing"] /\ tx = [g \in Games |-> "none"]
    /\ sent = [g \in Games |-> 0] /\ verdict = [g \in Games |-> "none"]
    /\ crashes = 0 /\ raced = {}
    /\ minedAt = [g \in Games |-> 0] /\ missed = [g \in Games |-> 0]

\* The call returned: on to the next await, or with an error out of the handler.
Goes(c, kind, next) ==
    \E to \in {next} \union (IF Fails(kind) THEN {"end"} ELSE {}) : pc' = [pc EXCEPT ![c] = to]

Books(c, what) == booked' = [booked EXCEPT ![Game[c]] = @ \union {what}]

\* A call that fails without having been carried out; publish fails as event.
Stop(c) ==
    /\ \/ pc[c] \in {"result", "read", "write", "game", "room"} /\ Fails("store")
       \/ pc[c] = "event" /\ Fails("publish")
    /\ pc' = [pc EXCEPT ![c] = "end"]
    /\ UNCHANGED <<booked, stats, seat, copy, raced, settling, crashes>>

\* A handler has computed a terminal position and spawned complete_game.
Complete(c) ==
    /\ pc[c] = "playing"
    /\ pc' = [pc EXCEPT ![c] = "result"]
    /\ UNCHANGED <<booked, stats, seat, copy, raced, settling, crashes>>

\* Mutant: a result that is there already is written over.
SaveResultAgain(c) ==
    /\ pc[c] = "result"
    /\ Books(c, "result") /\ Goes(c, "store", "read")
    /\ UNCHANGED <<stats, seat, copy, raced, settling, crashes>>

\* The primary key of game_results refuses the result of a later call.
SaveResult(c) ==
    /\ pc[c] = "result"
    /\ IF "result" \in booked[Game[c]]
       THEN pc' = [pc EXCEPT ![c] = "end"] /\ UNCHANGED booked
       ELSE Books(c, "result") /\ Goes(c, "store", "read")
    /\ UNCHANGED <<stats, seat, copy, raced, settling, crashes>>

GetStats(c) ==
    /\ pc[c] = "read"
    /\ copy' = [copy EXCEPT ![c] = stats[Player(c)]]
    /\ pc' = [pc EXCEPT ![c] = "write"]
    /\ UNCHANGED <<booked, stats, seat, raced, settling, crashes>>

\* The calls that hold a copy of the row of agent a.
Holders(a) == {c \in Calls : pc[c] = "write" /\ Player(c) = a}

\* One game more than in the copy.
Counted(c) ==
    [played |-> copy[c].played + 1,
     won |-> copy[c].won + IF Player(c) \in Winners[Game[c]] THEN 1 ELSE 0]

\* Mutant: every player is counted as a winner.
UpsertStatsAllWon(c) ==
    LET a == Player(c) IN
    /\ pc[c] = "write"
    /\ stats' = [stats EXCEPT ![a] = [Counted(c) EXCEPT !.won = copy[c].won + 1]]
    /\ raced' = IF Holders(a) = {c} THEN raced ELSE raced \union {a}
    /\ seat' = [seat EXCEPT ![c] = @ + 1]
    /\ Goes(c, "store", IF seat[c] = Len(Players[Game[c]]) THEN "game" ELSE "read")
    /\ UNCHANGED <<booked, copy, settling, crashes>>

\* Mutant: the last player's row is not written.
UpsertStatsButLast(c) ==
    LET a == Player(c) IN
    /\ pc[c] = "write"
    /\ stats' = [stats EXCEPT ![a] = Counted(c)]
    /\ raced' = IF Holders(a) = {c} THEN raced ELSE raced \union {a}
    /\ seat' = [seat EXCEPT ![c] = @ + 1]
    /\ Goes(c, "store", IF seat[c] + 1 >= Len(Players[Game[c]]) THEN "game" ELSE "read")
    /\ UNCHANGED <<booked, copy, settling, crashes>>

UpsertStats(c) ==
    LET a == Player(c) IN
    /\ pc[c] = "write"
    /\ stats' = [stats EXCEPT ![a] = Counted(c)]
    /\ raced' = IF Holders(a) = {c} THEN raced ELSE raced \union {a}
    /\ seat' = [seat EXCEPT ![c] = @ + 1]
    /\ Goes(c, "store", IF seat[c] = Len(Players[Game[c]]) THEN "game" ELSE "read")
    /\ UNCHANGED <<booked, copy, settling, crashes>>

CompleteStatus(c) ==
    /\ pc[c] = "game"
    /\ Books(c, "game") /\ Goes(c, "store", "room")
    /\ UNCHANGED <<stats, seat, copy, raced, settling, crashes>>

\* The room's status; if it returned, the settlement task is spawned at once.
CompleteRoom(c) ==
    /\ pc[c] = "room"
    /\ Books(c, "room") /\ Goes(c, "store", "event")
    /\ task' = IF pc'[c] = "event" THEN [task EXCEPT ![Game[c]] = "settle"] ELSE task
    /\ UNCHANGED <<stats, seat, copy, raced, crashes>>
    /\ UNCHANGED <<polls, heard, tx, sent, verdict, minedAt, missed>>

Publish(c) ==
    /\ pc[c] = "event"
    /\ Books(c, "event") /\ pc' = [pc EXCEPT ![c] = "end"]
    /\ UNCHANGED <<stats, seat, copy, raced, settling, crashes>>

----------------------------------------------------------------------------
(* settlement_service::initiate and the escrow adapter                     *)

\* The keys that the engine's init gives a player.
HoldemFields == {"agent_id", "seat_number", "hole_cards", "stack_wei", "status",
                 "position", "bet_this_round_wei", "consecutive_timeouts"}

\* result looks for the wallet in the final position, where it may be missing.
WinnerWallet(g) == IF "wallet_address" \in Fields[g] THEN "0x" ELSE ""

\* The node has the transaction.
Send(g) == tx' = [tx EXCEPT ![g] = "pending"] /\ sent' = [sent EXCEPT ![g] = @ + 1]

\* settle: the addresses are parsed, then the transaction is sent.
SettleRefused(g) ==
    /\ task[g] = "settle"
    /\ WinnerWallet(g) = ""
    /\ task' = [task EXCEPT ![g] = "announce"] /\ heard' = [heard EXCEPT ![g] = "error"]
    /\ UNCHANGED <<polls, tx, sent, verdict, minedAt, missed, closing, crashes>>

\* send fails; the node may have the transaction nevertheless.
SettleFails(g) ==
    /\ task[g] = "settle" /\ Fails("rpc")
    /\ WinnerWallet(g) # ""
    /\ task' = [task EXCEPT ![g] = "announce"] /\ heard' = [heard EXCEPT ![g] = "error"]
    /\ \/ Send(g)
       \/ UNCHANGED <<tx, sent>>
    /\ UNCHANGED <<polls, verdict, minedAt, missed, closing, crashes>>

SettleSent(g) ==
    /\ task[g] = "settle"
    /\ WinnerWallet(g) # ""
    /\ task' = [task EXCEPT ![g] = "poll"] /\ Send(g)
    /\ UNCHANGED <<polls, heard, verdict, minedAt, missed, closing, crashes>>

\* Mutant: one poll too many.
PollInVainAgain(g) ==
    /\ polls' = [polls EXCEPT ![g] = @ + 1]
    /\ IF polls[g] = MaxPolls
       THEN task' = [task EXCEPT ![g] = "announce"] /\ heard' = [heard EXCEPT ![g] = "timeout"]
       ELSE UNCHANGED <<task, heard>>

\* A poll without a receipt that says success, the fifth of which is the last.
PollInVain(g) ==
    /\ polls' = [polls EXCEPT ![g] = @ + 1]
    /\ IF polls[g] + 1 = MaxPolls
       THEN task' = [task EXCEPT ![g] = "announce"] /\ heard' = [heard EXCEPT ![g] = "timeout"]
       ELSE UNCHANGED <<task, heard>>

\* Mutant: the first poll decides.
CheckConfirmationOnce(g) ==
    /\ task[g] = "poll"
    /\ task' = [task EXCEPT ![g] = "announce"]
    /\ heard' = [heard EXCEPT ![g] = IF tx[g] = "mined" THEN "confirmed" ELSE "timeout"]
    /\ polls' = [polls EXCEPT ![g] = @ + 1]
    /\ UNCHANGED <<tx, sent, verdict, minedAt, missed, closing, crashes>>

\* After the next of the growing delays the receipt is asked for.
CheckConfirmation(g) ==
    /\ task[g] = "poll"
    /\ IF tx[g] = "mined"
       THEN /\ task' = [task EXCEPT ![g] = "announce"] /\ heard' = [heard EXCEPT ![g] = "confirmed"]
            /\ polls' = [polls EXCEPT ![g] = @ + 1]
       ELSE PollInVain(g)
    /\ UNCHANGED <<tx, sent, verdict, minedAt, missed, closing, crashes>>

\* The node does not answer, which counts as a receipt not found.
CheckFails(g) ==
    /\ task[g] = "poll" /\ Fails("rpc")
    /\ PollInVain(g)
    /\ missed' = IF tx[g] = "mined" THEN [missed EXCEPT ![g] = @ + 1] ELSE missed
    /\ UNCHANGED <<tx, sent, verdict, minedAt, closing, crashes>>

\* Mutant: a settlement that was not confirmed is sent once more.
AnnounceOrRetry(g) ==
    /\ task[g] = "announce"
    /\ \/ /\ heard[g] = "confirmed"
          /\ verdict' = [verdict EXCEPT ![g] = "SETTLEMENT_COMPLETED"]
          /\ task' = [task EXCEPT ![g] = "end"] /\ UNCHANGED <<polls, tx, sent>>
       \/ /\ heard[g] # "confirmed"
          /\ task' = [task EXCEPT ![g] = "poll"] /\ polls' = [polls EXCEPT ![g] = 0]
          /\ Send(g) /\ UNCHANGED verdict
    /\ UNCHANGED <<heard, minedAt, missed, closing, crashes>>

\* Mutant: only a success is announced.
AnnounceSuccess(g) ==
    /\ task[g] = "announce"
    /\ task' = [task EXCEPT ![g] = "end"]
    /\ verdict' = IF heard[g] = "confirmed" THEN [verdict EXCEPT ![g] = "SETTLEMENT_COMPLETED"] ELSE verdict
    /\ UNCHANGED <<polls, heard, tx, sent, minedAt, missed, closing, crashes>>

Announce(g) ==
    /\ task[g] = "announce"
    /\ task' = [task EXCEPT ![g] = "end"]
    /\ \/ verdict' = [verdict EXCEPT ![g] = IF heard[g] = "confirmed" THEN "SETTLEMENT_COMPLETED"
                                                                     ELSE "SETTLEMENT_FAILED"]
       \/ Fails("publish") /\ UNCHANGED verdict
    /\ UNCHANGED <<polls, heard, tx, sent, minedAt, missed, closing, crashes>>

----------------------------------------------------------------------------
(* The chain and the process                                               *)

\* The transaction is mined, with or without success, or never will be.
Mine(g) ==
    /\ tx[g] = "pending"
    /\ \E end \in {"mined", "reverted", "dropped"} : tx' = [tx EXCEPT ![g] = end]
    /\ minedAt' = [minedAt EXCEPT ![g] = polls[g]]
    /\ UNCHANGED <<task, polls, heard, sent, verdict, missed, closing, crashes>>

\* The process stops and is started again: no task is taken up.
Crash ==
    /\ crashes < MaxCrashes /\ crashes' = crashes + 1
    /\ pc' = [c \in Calls |-> IF pc[c] = "playing" THEN "playing" ELSE "end"]
    /\ task' = [g \in Games |-> IF task[g] = "none" THEN "none" ELSE "end"]
    /\ UNCHANGED <<booked, stats, seat, copy, raced, polls, heard, tx, sent, verdict, minedAt, missed>>

Closes(c) == \/ SaveResult(c) \/ GetStats(c) \/ UpsertStats(c)
             \/ CompleteStatus(c) \/ CompleteRoom(c) \/ Publish(c) \/ Stop(c)
Settles(g) == \/ SettleRefused(g) \/ SettleFails(g) \/ SettleSent(g)
              \/ CheckConfirmation(g) \/ CheckFails(g) \/ Announce(g)

Next == \/ \E c \in Calls : Complete(c) \/ Closes(c)
        \/ \E g \in Games : Settles(g) \/ Mine(g)
        \/ Crash

\* The runtime schedules every task; the chain promises nothing.
Fairness == /\ \A c \in Calls : WF_vars(Closes(c))
            /\ \A g \in Games : WF_vars(Settles(g))
Spec == Init /\ [][Next]_vars /\ Fairness

----------------------------------------------------------------------------
(* Properties                                                              *)

\* The games in which agent a has been counted.
CountedIn(a) ==
    {g \in Games : \E c \in Calls : Game[c] = g /\ \E i \in 1..seat[c] - 1 : Players[g][i] = a}
WonIn(a) == {g \in CountedIn(a) : a \in Winners[g]}

\* However the completions of an agent's games interleave, fail half-way or are
\* cut off, its stats never show a game or a win that it did not have; and they
\* are lost in one way only, when between get_stats and upsert_stats of one call
\* another writes the same row: an agent to whom that never happened has exactly
\* the games in which it was counted (game_service.rs:312).
StatsFollowTheGames ==
    \A a \in Agents :
        /\ stats[a].played <= Cardinality(CountedIn(a))
        /\ stats[a].won <= Cardinality(WonIn(a))
        /\ a \notin raced =>
             stats[a] = [played |-> Cardinality(CountedIn(a)), won |-> Cardinality(WonIn(a))]

\* Money moves last and once: when a settlement is on its way the result is saved,
\* every player counted and both statuses final, whatever failed; and no second
\* call, failure, crash or late confirmation makes the server send two transactions
\* for a game (game_service.rs:386, settlement_service.rs:28).
PaymentFollowsTheBooks ==
    \A g \in Games :
        /\ sent[g] <= 1
        /\ (task[g] # "none" \/ tx[g] # "none") =>
             /\ {"result", "game", "room"} \subseteq booked[g]
             /\ \E c \in Calls : Game[c] = g /\ seat[c] = Len(Players[g]) + 1

\* A settlement announced as completed has been paid, and one announced as failed
\* after its transaction was mined was mined after the last poll, or every poll
\* after it failed (settlement_service.rs:40).
VerdictIsWhatWasSeen ==
    \A g \in Games :
        /\ verdict[g] = "SETTLEMENT_COMPLETED" => tx[g] = "mined"
        /\ (verdict[g] = "SETTLEMENT_FAILED" /\ heard[g] = "timeout" /\ tx[g] = "mined")
              => minedAt[g] + missed[g] = MaxPolls

\* Every settlement that was started is announced one way or the other, unless
\* the process stops or the event bus fails (settlement_service.rs:56).
VerdictComes ==
    \A g \in Games : task[g] = "settle" ~> \/ verdict[g] # "none"
                                           \/ crashes > 0 \/ Fails("publish")

----------------------------------------------------------------------------
(* What the repository's words say and the code does not do                *)

\* "Settlement is triggered by a cryptographically signed game result": a game
\* whose completion has reached the settlement is eventually sent to the escrow.
ResultIsSettled == \A g \in Games : task[g] = "settle" ~> tx[g] # "none"
============================================================================
