---------------------------- MODULE GameService ----------------------------
(***************************************************************************)
(* One running game of services/game_service.rs: submit_action requests,   *)
(* the turn manager task and the complete_game tasks they start, over the  *)
(* games row, the game_log table and the game_results table of Postgres    *)
(* and the turn:{game_id} key of the cache.                                *)
(*                                                                         *)
(* An action is one await of a handler: what the handler does between two  *)
(* awaits runs with no other store or cache call of it in between, while   *)
(* every other task may run at each await.  A request slot in Requests is  *)
(* a POST /games/{id}/action being served; it is reused when it ends.      *)
(*                                                                         *)
(* The rules of the game (the Game trait) are operator constants, so what  *)
(* holds here holds for every game the registry can serve.                 *)
(***************************************************************************)
EXTENDS Naturals

CONSTANTS
    Agents, NoAgent,     \* the seated agents; no turn key in the cache, or ...
    Expired,             \* ... none because the last one expired
    Actions,             \* the moves a request can name, amounts included
    Positions,           \* the values of games.current_state
    InitialPosition,     \* what Game::init returned
    None,                \* no row in game_results
    Valid(_, _, _),      \* Valid(s, a, m): valid_actions(s, a) contains m
    Applies(_, _, _),    \* apply_action(s, a, m) returns Ok ...
    Apply(_, _, _),      \* ... and this position
    TimeoutAction,       \* timeout_action(s, a)
    Actor(_),            \* the agent on action_on_seat, or NoAgent
    Terminal(_),         \* is_terminal(s)
    Pays(_),             \* result(s) returns Some: neither None nor a panic
    TurnNumber(_),       \* s["turn_number"]
    Requests,            \* slots of concurrent submit_action requests
    Manager,             \* the turn manager task
    TurnsTimeOut,        \* whether the manager's sleep can elapse
    WritesMayFail        \* whether a store call whose error is ignored may fail

ASSUME RulesAssumption ==
    /\ NoAgent \notin Agents
    /\ Expired \notin Agents \cup {NoAgent}
    /\ None \notin Positions
    /\ Manager \notin Requests
    /\ TimeoutAction \in Actions
    /\ InitialPosition \in Positions
    /\ TurnNumber(InitialPosition) = 1
    /\ \A s \in Positions :
          /\ Actor(s) \in Agents \cup {NoAgent}
          /\ TurnNumber(s) \in Nat
          /\ Terminal(s) \in BOOLEAN
          /\ Pays(s) \in BOOLEAN
          /\ Pays(s) => Terminal(s)
          /\ \A a \in Agents, m \in Actions :
                /\ Valid(s, a, m) => ~Terminal(s)
                /\ Applies(s, a, m) =>
                      /\ Apply(s, a, m) \in Positions
                      /\ TurnNumber(Apply(s, a, m)) = TurnNumber(s) + 1

ASSUME FlagsAssumption ==
    /\ TurnsTimeOut \in BOOLEAN
    /\ WritesMayFail \in BOOLEAN

VARIABLES
    status,       \* games.status
    game,         \* games.current_state and games.sequence_number
    log,          \* game_log, by sequence (UNIQUE (game_id, sequence))
    turn,         \* the turn:{game_id} key, NoAgent or Expired when absent,
                  \* which the code cannot tell apart
    misses,       \* game_players.consecutive_timeouts
    disconnected, \* the players whose status is Disconnected
    pc, job,      \* each request handler and the manager: where it is, locals
    cpc, final,   \* the complete_game task each of them started: same
    result,       \* game_results: the position the saved result comes from
    stats,        \* how often this game was counted in an agent's stats
    started,      \* how often settlement_service::initiate was started
    published,    \* how often GAME_COMPLETED was published
    acks          \* the accepted responses, with what they answer

rows    == <<log, misses, disconnected, result, stats>>
outputs == <<started, published, acks>>
vars    == <<status, game, rows, turn, pc, job, cpc, final, outputs>>

Players == Agents \cup {NoAgent}
Tasks   == Requests \cup {Manager}

Row      == [state : Positions, seq : Nat]
Entry    == [agent : Agents, action : Actions, state : Positions]
Ack      == [agent : Agents, action : Actions, seq : Nat]

\* The locals of a handler: the agent and its move, the copy of the games
\* row (state, seq) the handler works on, and the position it computed.
Job(a, m, row, s) ==
    [agent |-> a, action |-> m, state |-> row.state, seq |-> row.seq, new |-> s]
Jobs == [agent : Players, action : Actions, state : Positions, seq : Nat,
         new : Positions]
InitialRow == [state |-> InitialPosition, seq |-> 0]
NoJob == Job(NoAgent, TimeoutAction, InitialRow, InitialPosition)

Status == {"InProgress", "Completed"}
HandlerPC == {"idle", "turn", "claim", "apply", "append", "save", "advance",
              "start", "sleep", "stopped"}
CompletionPC == {"idle", "result", "stats", "status", "room", "publish"}
\* The handler acts for an agent from the moment it is known.
Acting == {"claim", "apply", "append", "save", "advance"}

TypeOK ==
    /\ status \in Status
    /\ game \in Row
    /\ DOMAIN log \subseteq Nat \ {0}
    /\ \A k \in DOMAIN log : log[k] \in Entry
    /\ turn \in Players \cup {Expired}
    /\ misses \in [Agents -> Nat]
    /\ disconnected \subseteq Agents
    /\ pc \in [Tasks -> HandlerPC]
    /\ job \in [Tasks -> Jobs]
    /\ \A t \in Tasks : pc[t] \in Acting => job[t].agent \in Agents
    /\ cpc \in [Tasks -> CompletionPC]
    /\ final \in [Tasks -> Positions]
    /\ result \in Positions \cup {None}
    /\ stats \in [Agents -> Nat]
    /\ started \in Nat
    /\ published \in Nat
    /\ acks \subseteq Ack

\* What lobby_service::start_game left behind when it spawns the manager.
Init ==
    /\ status = "InProgress"
    /\ game = InitialRow
    /\ log = [k \in 1..0 |-> NoJob]
    /\ turn = NoAgent
    /\ misses = [a \in Agents |-> 0]
    /\ disconnected = {}
    /\ pc = [t \in Tasks |-> IF t = Manager THEN "start" ELSE "idle"]
    /\ job = [t \in Tasks |-> NoJob]
    /\ cpc = [t \in Tasks |-> "idle"]
    /\ final = [t \in Tasks |-> InitialPosition]
    /\ result = None
    /\ stats = [a \in Agents |-> 0]
    /\ started = 0
    /\ published = 0
    /\ acks = {}

----------------------------------------------------------------------------
(* What submit_action and the manager have in common                       *)

Go(t, p) == pc' = [pc EXCEPT ![t] = p]

\* The handler ends, or the manager goes back to its loop, at p.
Finish(t, p) == Go(t, p) /\ job' = [job EXCEPT ![t] = NoJob]

\* apply_action on the handler's copy of the row.
Computes(t) ==
    LET j == job[t] IN
    /\ Applies(j.state, j.agent, j.action)
    /\ job' = [job EXCEPT ![t] =
                  Job(j.agent, j.action, [state |-> j.state, seq |-> j.seq],
                      Apply(j.state, j.agent, j.action))]

\* append_log_entry on a sequence that is free; UNIQUE refuses any other.
AppendLog(t) ==
    LET j == job[t] IN
    log' = [k \in DOMAIN log \cup {j.seq + 1} |->
               IF k = j.seq + 1
               THEN [agent |-> j.agent, action |-> j.action, state |-> j.new]
               ELSE log[k]]

\* Mutant: the sequence counted from the row as it is by now.
SaveGameCounted(t) == game' = [state |-> job[t].new, seq |-> game.seq + 1]

\* update_game_state: no check of the sequence it replaces.
SaveGame(t) == game' = [state |-> job[t].new, seq |-> job[t].seq + 1]

\* advance_turn up to set_current_turn: no seat to act on, no key set.
SetTurn(s) == turn' = IF Actor(s) = NoAgent THEN turn ELSE Actor(s)

StartCompletion(t) ==
    /\ cpc' = [cpc EXCEPT ![t] = "result"]
    /\ final' = [final EXCEPT ![t] = job[t].new]

\* The accepted response.
Accept(t) ==
    acks' = acks \cup {[agent |-> job[t].agent, action |-> job[t].action,
                        seq |-> job[t].seq + 1]}

----------------------------------------------------------------------------
(* submit_action                                                           *)

\* get_game_by_id; a game not in progress is answered Conflict at once.
SubmitReadGame(r, a, m) ==
    /\ pc[r] = "idle" /\ cpc[r] = "idle"
    /\ status = "InProgress"
    /\ Go(r, "turn")
    /\ job' = [job EXCEPT ![r] = Job(a, m, game, InitialPosition)]
    /\ UNCHANGED <<status, game, rows, turn, cpc, final, outputs>>

\* get_current_turn; None or another agent is answered Forbidden.
SubmitReadTurn(r) ==
    /\ pc[r] = "turn"
    /\ \/ turn = job[r].agent /\ turn \in Agents /\ Go(r, "claim")
                              /\ UNCHANGED job
       \/ turn # job[r].agent /\ Finish(r, "idle")
    /\ UNCHANGED <<status, game, rows, turn, cpc, final, outputs>>

\* delete_current_turn deletes whatever the key holds by now.
SubmitClaim(r) ==
    /\ pc[r] = "claim"
    /\ turn' = NoAgent
    /\ Go(r, "apply")
    /\ UNCHANGED <<status, game, rows, job, cpc, final, outputs>>

\* A bad signature or an illegal action: the turn key stays deleted.
SubmitReject(r) ==
    /\ pc[r] = "apply"
    /\ Finish(r, "idle")
    /\ UNCHANGED <<status, game, rows, turn, cpc, final, outputs>>

\* valid_actions and apply_action on the snapshot.
SubmitApply(r) ==
    /\ pc[r] = "apply"
    /\ Valid(job[r].state, job[r].agent, job[r].action)
    /\ Computes(r)
    /\ Go(r, "append")
    /\ UNCHANGED <<status, game, rows, turn, cpc, final, outputs>>

\* Mutant: a taken sequence is no error, the handler goes on to save.
SubmitAppendAnyway(r) ==
    /\ pc[r] = "append"
    /\ \/ job[r].seq + 1 \notin DOMAIN log /\ AppendLog(r)
       \/ job[r].seq + 1 \in DOMAIN log /\ UNCHANGED log
    /\ Go(r, "save")
    /\ UNCHANGED <<status, game, misses, disconnected, result, stats,
                   turn, job, cpc, final, outputs>>

\* Mutant: an upsert, a taken sequence is overwritten.
SubmitAppendUpsert(r) ==
    /\ pc[r] = "append"
    /\ AppendLog(r) /\ Go(r, "save")
    /\ UNCHANGED <<status, game, misses, disconnected, result, stats,
                   turn, job, cpc, final, outputs>>

\* append_log_entry; a taken sequence is an error that ends the request.
SubmitAppend(r) ==
    /\ pc[r] = "append"
    /\ \/ /\ job[r].seq + 1 \notin DOMAIN log
          /\ AppendLog(r)
          /\ Go(r, "save") /\ UNCHANGED job
       \/ /\ job[r].seq + 1 \in DOMAIN log
          /\ Finish(r, "idle") /\ UNCHANGED log
    /\ UNCHANGED <<status, game, misses, disconnected, result, stats,
                   turn, cpc, final, outputs>>

\* update_game_state, then complete_game and the answer, or advance_turn.
SubmitSave(r) ==
    /\ pc[r] = "save"
    /\ SaveGame(r)
    /\ \/ /\ Terminal(job[r].new)
          /\ StartCompletion(r) /\ Accept(r)
          /\ Finish(r, "idle")
       \/ /\ ~Terminal(job[r].new)
          /\ Go(r, "advance")
          /\ UNCHANGED <<job, cpc, final, acks>>
    /\ UNCHANGED <<status, rows, turn, started, published>>

\* advance_turn; a failed agent lookup after the key is set is an error.
SubmitAdvance(r) ==
    /\ pc[r] = "advance"
    /\ SetTurn(job[r].new)
    /\ Accept(r) \/ UNCHANGED acks
    /\ Finish(r, "idle")
    /\ UNCHANGED <<status, game, rows, cpc, final, started, published>>

\* A store or cache error, or the client's connection closing, ends the
\* handler at any await; a save whose reply is lost has still happened.
SubmitFail(r) ==
    /\ pc[r] # "idle"
    /\ Finish(r, "idle")
    /\ UNCHANGED game \/ (pc[r] = "save" /\ SaveGame(r))
    /\ UNCHANGED <<status, rows, turn, cpc, final, outputs>>

----------------------------------------------------------------------------
(* run_turn_manager                                                        *)

\* The initial turn, for the agent on action_on_seat if there is one; an
\* error of set_current_turn is ignored.
ManagerStart ==
    /\ pc[Manager] = "start"
    /\ SetTurn(game.state) \/ (WritesMayFail /\ UNCHANGED turn)
    /\ Go(Manager, "sleep")
    /\ UNCHANGED <<status, game, rows, job, cpc, final, outputs>>

\* The sleep elapses: get_game_by_id.
ManagerTick ==
    /\ pc[Manager] = "sleep" /\ TurnsTimeOut
    /\ \/ /\ status = "InProgress"
          /\ Go(Manager, "turn")
          /\ job' = [job EXCEPT ![Manager] =
                        Job(NoAgent, TimeoutAction, game, InitialPosition)]
       \/ /\ status # "InProgress"
          /\ Finish(Manager, "stopped")
    /\ UNCHANGED <<status, game, rows, turn, cpc, final, outputs>>

\* Mutant: the manager does not look whether anybody has the turn.
ManagerReadTurnUnchecked ==
    LET j == job[Manager] IN
    /\ pc[Manager] = "turn"
    /\ Go(Manager, "claim")
    /\ job' = [job EXCEPT ![Manager] =
                  Job(turn, TimeoutAction,
                      [state |-> j.state, seq |-> j.seq], j.new)]
    /\ UNCHANGED <<status, game, rows, turn, cpc, final, outputs>>

\* get_current_turn: the timeout concerns whoever holds the turn by now.
ManagerReadTurn ==
    LET j == job[Manager] IN
    /\ pc[Manager] = "turn"
    /\ \/ /\ turn \in Agents
          /\ Go(Manager, "claim")
          /\ job' = [job EXCEPT ![Manager] =
                        Job(turn, TimeoutAction,
                            [state |-> j.state, seq |-> j.seq], j.new)]
       \/ /\ turn \notin Agents
          /\ Finish(Manager, "sleep")
    /\ UNCHANGED <<status, game, rows, turn, cpc, final, outputs>>

\* delete_current_turn, its error ignored.
ManagerClaim ==
    /\ pc[Manager] = "claim"
    /\ turn' = NoAgent \/ (WritesMayFail /\ UNCHANGED turn)
    /\ Go(Manager, "apply")
    /\ UNCHANGED <<status, game, rows, job, cpc, final, outputs>>

\* update_player and apply_action(timeout_action) on the snapshot, with no
\* valid_actions: a move apply_action refuses ends the turn without a key.
ManagerApply ==
    LET j == job[Manager] IN
    /\ pc[Manager] = "apply"
    /\ \/ /\ misses' = [misses EXCEPT ![j.agent] = @ + 1]
          /\ disconnected' = disconnected \cup
                                 {a \in {j.agent} : misses[a] + 1 >= 3}
       \/ WritesMayFail /\ UNCHANGED <<misses, disconnected>>
    /\ \/ Computes(Manager) /\ Go(Manager, "append")
       \/ ~Applies(j.state, j.agent, j.action) /\ Finish(Manager, "sleep")
    /\ UNCHANGED <<status, game, log, result, stats, turn, cpc, final,
                   outputs>>

\* Mutant: timeouts are not logged.
ManagerAppendNothing ==
    /\ pc[Manager] = "append"
    /\ Go(Manager, "save")
    /\ UNCHANGED <<status, game, rows, turn, job, cpc, final, outputs>>

\* append_log_entry, its error ignored: a taken sequence loses the entry.
ManagerAppend ==
    LET taken == job[Manager].seq + 1 \in DOMAIN log IN
    /\ pc[Manager] = "append"
    /\ \/ ~taken /\ AppendLog(Manager)
       \/ (taken \/ WritesMayFail) /\ UNCHANGED log
    /\ Go(Manager, "save")
    /\ UNCHANGED <<status, game, misses, disconnected, result, stats,
                   turn, job, cpc, final, outputs>>

\* update_game_state, its error ignored, then complete_game inline or go on.
ManagerSave ==
    /\ pc[Manager] = "save"
    /\ SaveGame(Manager) \/ (WritesMayFail /\ UNCHANGED game)
    /\ \/ /\ Terminal(job[Manager].new)
          /\ StartCompletion(Manager)
          /\ Finish(Manager, "stopped")
       \/ /\ ~Terminal(job[Manager].new)
          /\ Go(Manager, "advance")
          /\ UNCHANGED <<job, cpc, final>>
    /\ UNCHANGED <<status, rows, turn, outputs>>

\* Mutant: the timeout is played and the next agent is not given the turn.
ManagerAdvanceNobody ==
    /\ pc[Manager] = "advance"
    /\ Finish(Manager, "sleep")
    /\ UNCHANGED <<status, game, rows, turn, cpc, final, outputs>>

\* advance_turn, its error ignored.
ManagerAdvance ==
    /\ pc[Manager] = "advance"
    /\ SetTurn(job[Manager].new) \/ (WritesMayFail /\ UNCHANGED turn)
    /\ Finish(Manager, "sleep")
    /\ UNCHANGED <<status, game, rows, cpc, final, outputs>>

\* The shutdown signal, or a failed read where the loop breaks.
ManagerStop ==
    /\ pc[Manager] \in {"start", "sleep", "turn", "apply"}
    /\ Finish(Manager, "stopped")
    /\ UNCHANGED <<status, game, rows, turn, cpc, final, outputs>>

----------------------------------------------------------------------------
(* complete_game, spawned by submit_action or run by the manager           *)

CompletionGo(t, p) == cpc' = [cpc EXCEPT ![t] = p] /\ UNCHANGED final
EndCompletion(t) ==
    /\ cpc' = [cpc EXCEPT ![t] = "idle"]
    /\ final' = [final EXCEPT ![t] = InitialPosition]

\* Mutant: a result that is saved already is no error (DO NOTHING).
CompleteResultAgain(t) ==
    /\ cpc[t] = "result"
    /\ \/ /\ Pays(final[t])
          /\ result' = IF result = None THEN final[t] ELSE result
          /\ CompletionGo(t, "stats")
       \/ /\ ~Pays(final[t])
          /\ EndCompletion(t)
          /\ UNCHANGED result
    /\ UNCHANGED <<status, game, log, misses, disconnected, stats,
                   turn, pc, job, outputs>>

\* Mutant: a result that is saved already is replaced (DO UPDATE).
CompleteResultReplaced(t) ==
    /\ cpc[t] = "result"
    /\ \/ /\ Pays(final[t])
          /\ result' = final[t]
          /\ CompletionGo(t, "stats")
       \/ /\ ~Pays(final[t])
          /\ EndCompletion(t)
          /\ UNCHANGED result
    /\ UNCHANGED <<status, game, log, misses, disconnected, stats,
                   turn, pc, job, outputs>>

\* result, then save_result: game_id is the primary key of game_results.
CompleteResult(t) ==
    /\ cpc[t] = "result"
    /\ \/ /\ Pays(final[t]) /\ result = None
          /\ result' = final[t]
          /\ CompletionGo(t, "stats")
       \/ /\ ~Pays(final[t]) \/ result # None
          /\ EndCompletion(t)
          /\ UNCHANGED result
    /\ UNCHANGED <<status, game, log, misses, disconnected, stats,
                   turn, pc, job, outputs>>

Count(counted) ==
    stats' = [a \in Agents |-> IF a \in counted THEN stats[a] + 1 ELSE stats[a]]

\* get_stats and upsert_stats of each player in turn.
CompleteStats(t) ==
    /\ cpc[t] = "stats"
    /\ Count(Agents)
    /\ CompletionGo(t, "status")
    /\ UNCHANGED <<status, game, log, misses, disconnected, result,
                   turn, pc, job, outputs>>

CompleteStatus(t) ==
    /\ cpc[t] = "status"
    /\ status' = "Completed"
    /\ CompletionGo(t, "room")
    /\ UNCHANGED <<game, rows, turn, pc, job, outputs>>

\* update_room_status, then settlement_service::initiate is spawned.  The row
\* of the room is not kept here: start_game and the room's other games write it
\* as well, which is Lobby's matter.
CompleteRoom(t) ==
    /\ cpc[t] = "room"
    /\ started' = started + 1
    /\ CompletionGo(t, "publish")
    /\ UNCHANGED <<status, game, rows, turn, pc, job, published, acks>>

CompletePublish(t) ==
    /\ cpc[t] = "publish"
    /\ published' = published + 1
    /\ EndCompletion(t)
    /\ UNCHANGED <<status, game, rows, turn, pc, job, started, acks>>

\* An error of any store call of complete_game ends it, and nobody retries:
\* some players may be counted, or the game be Completed and never settled.
CompleteFail(t) ==
    /\ cpc[t] # "idle"
    /\ EndCompletion(t)
    /\ \/ UNCHANGED stats
       \/ cpc[t] = "stats" /\ \E counted \in SUBSET Agents : Count(counted)
    /\ UNCHANGED <<status, game, log, misses, disconnected, result,
                   turn, pc, job, outputs>>

----------------------------------------------------------------------------
(* The environment                                                         *)

\* The TTL of the turn key passes.
ExpireTurn ==
    /\ turn \in Agents
    /\ turn' = Expired
    /\ UNCHANGED <<status, game, rows, pc, job, cpc, final, outputs>>

\* The process dies and is restarted; startup spawns no turn manager.
Crash ==
    /\ pc' = [t \in Tasks |-> IF t = Manager THEN "stopped" ELSE "idle"]
    /\ job' = [t \in Tasks |-> NoJob]
    /\ cpc' = [t \in Tasks |-> "idle"]
    /\ final' = [t \in Tasks |-> InitialPosition]
    /\ UNCHANGED <<status, game, rows, turn, outputs>>

----------------------------------------------------------------------------
SubmitStep(r) ==
    \/ \E a \in Agents, m \in Actions : SubmitReadGame(r, a, m)
    \/ SubmitReadTurn(r) \/ SubmitClaim(r)
    \/ SubmitReject(r) \/ SubmitApply(r)
    \/ SubmitAppend(r) \/ SubmitSave(r) \/ SubmitAdvance(r)

ManagerStep ==
    \/ ManagerStart \/ ManagerTick \/ ManagerReadTurn
    \/ ManagerClaim \/ ManagerApply \/ ManagerAppend
    \/ ManagerSave \/ ManagerAdvance

CompleteStep(t) ==
    \/ CompleteResult(t) \/ CompleteStats(t) \/ CompleteStatus(t)
    \/ CompleteRoom(t) \/ CompletePublish(t)

Fault ==
    \/ \E r \in Requests : SubmitFail(r)
    \/ \E t \in Tasks : CompleteFail(t)
    \/ ManagerStop \/ ExpireTurn \/ Crash

Next ==
    \/ \E r \in Requests : SubmitStep(r)
    \/ ManagerStep
    \/ \E t \in Tasks : CompleteStep(t)
    \/ Fault

Spec == Init /\ [][Next]_vars

----------------------------------------------------------------------------
(* Properties                                                              *)

\* The position the log records after the first n moves.
LoggedPosition(n) == IF n = 0 THEN InitialPosition ELSE log[n].state

\* GameLog.sequence is a gap-free count whatever raced: no entry and no copy
\* of the row is ahead of the log, although the append and the save are two
\* writes and both submit_action and the manager do them unlocked.
LogHasNoGap ==
    /\ \A k \in DOMAIN log : \A j \in 1..k : j \in DOMAIN log
    /\ game.seq \in DOMAIN log \cup {0}

\* The sequence number stored beside a position is the number of moves the
\* position itself counts (turn_number), so the two columns update_game_state
\* writes never come from two different handlers.
SequenceMatchesTurn == TurnNumber(game.state) = game.seq + 1

\* A move answered accepted is in the log at the sequence number of the
\* answer, with that agent and action, whoever else was at that turn: the
\* acknowledgement outlives crashes and later overwrites of the row.
AcceptedIsLogged ==
    \A k \in acks :
        /\ k.seq \in DOMAIN log
        /\ log[k.seq].agent = k.agent
        /\ log[k.seq].action = k.action

\* However many complete_game tasks race, one game starts one settlement and
\* counts once in each agent's stats; settlement starts only when the result
\* is saved from a finished position and the game says Completed.
CompletesOnce ==
    /\ started <= 1 /\ published <= started
    /\ \A a \in Agents : stats[a] <= 1
    /\ started = 1 => status = "Completed"
    /\ status = "Completed" =>
          /\ result # None /\ Terminal(result)
          /\ \A a \in Agents : stats[a] = 1

\* The saved result never changes, and a Completed game stays so, although a
\* second complete_game or a late update_game_state may follow.
CompletionIsFinal ==
    [][ /\ result # None => result' = result
        /\ status = "Completed" => status' = "Completed" ]_vars

-----------------------------------------------------------------------------
(* While no turn times out.                                                *)

\* The log is a replay: each logged position is what the rules make of the
\* previous one by the logged, legal move, although the handler computed it
\* from a snapshot read before it claimed the turn.
LogReplays ==
    \A k \in DOMAIN log :
        LET s == LoggedPosition(k - 1) IN
        /\ Valid(s, log[k].agent, log[k].action)
        /\ log[k].state = Apply(s, log[k].agent, log[k].action)

\* The games row holds a position of the log, the one at its sequence.
RowIsLogged == game.seq \in DOMAIN log \cup {0} /\ game.state = LoggedPosition(game.seq)

\* No late save takes the row back behind a move already saved.
SequenceNeverRegresses == [][game'.seq >= game.seq]_vars

\* The detailed handlers implement the ledger of legal moves.
Ledger == INSTANCE GameLedger WITH entries <- log, payout <- result
ImplementsLedger == Ledger!Spec

-----------------------------------------------------------------------------
(* What the repository's words say and the code does not do                *)

\* "If sequence_number unchanged: no state change occurred", which is how
\* agents that poll notice a change: every other position has its own number.
ChangesAreNumbered ==
    [][game'.seq = game.seq => game'.state = game.state]_vars
============================================================================
