------------------------------- MODULE Lobby -------------------------------
(***************************************************************************)
(* services/lobby_service.rs: create_room, join_room, leave_room,          *)
(* join_queue and start_game over the rooms, seats and games tables.  An   *)
(* action is one await of a handler, as in GameService; nothing locks a    *)
(* room between two of them.                                               *)
(*                                                                         *)
(* All rooms have the same game, buy-in and max_players, so join_queue     *)
(* looks at every open one.  The escrow contract is external: it answers   *)
(* check_escrow_deposit one way or the other.                              *)
(***************************************************************************)
EXTENDS Naturals, Sequences, FiniteSets

CONSTANTS
    Agents,
    NoAgent,        \* the agent of a free slot
    Rooms,          \* 1..n, in the order create_room inserts them
    MaxPlayers,     \* max_players of every room
    MinPlayers,     \* min_players a create_room request names
    Handlers,       \* slots of concurrent requests
    MaxSeats        \* bound: how many seats are ever created

ASSUME LobbyAssumption ==
    /\ NoAgent \notin Agents
    /\ IsFiniteSet(Rooms) /\ Rooms = 1..Cardinality(Rooms) /\ 1 \in Rooms
    /\ MaxPlayers \in Nat /\ MinPlayers \in 2..MaxPlayers
    /\ MaxSeats \in Nat

VARIABLES
    room,       \* rooms: [status, min] by room
    seats,      \* the rows of seats: [id, room, agent, number]
    made,       \* how many seats were created, for the ids
    games,      \* the games of each room: [players, ready], oldest first
    managers,   \* the <<room, game>> whose turn manager was spawned
    verified,   \* the <<room, agent>> the escrow contract has vouched for
    pc, loc     \* each handler: where it is, locals

tables == <<room, seats, made, games, managers, verified>>
vars   == <<tables, pc, loc>>

Statuses == {"none", "Open", "Starting", "InProgress", "Completed"}
Players  == [agent : Agents, number : 1..MaxPlayers]
Games    == [players : SUBSET Players, ready : BOOLEAN]
QueueMin == 2       \* the min_players join_queue creates rooms with

\* The locals of a handler: its agent and room, the seat number it plans, the
\* seat it read (its id; for start_game the game it created), the players
\* start_game read, the rooms join_queue still has to look at.
Locals == [agent : Agents \cup {NoAgent}, room : Rooms, number : 0..MaxPlayers,
           seat : Nat, players : SUBSET Players, rest : SUBSET Rooms]
NoLocals == [agent |-> NoAgent, room |-> 1, number |-> 0,
             seat |-> 0, players |-> {}, rest |-> {}]

HandlerPC ==
    {"idle", "j_room", "j_agent", "j_seats", "j_escrow", "j_create", "j_count",
     "s_status", "s_seats", "s_game", "s_players", "s_progress", "s_spawn",
     "l_seat", "l_delete", "q_seats", "c_room", "c_escrow", "c_seat"}

TypeOK ==
    /\ room \in [Rooms -> [status : Statuses, min : 2..MaxPlayers]]
    /\ seats \subseteq [id : 1..made, room : Rooms, agent : Agents,
                        number : 1..MaxPlayers]
    /\ made \in 0..MaxSeats
    /\ games \in [Rooms -> Seq(Games)]
    /\ managers \subseteq Rooms \X Nat
    /\ verified \subseteq Rooms \X Agents
    /\ pc \in [Handlers -> HandlerPC]
    /\ loc \in [Handlers -> Locals]

Init ==
    /\ room = [r \in Rooms |-> [status |-> "none", min |-> QueueMin]]
    /\ seats = {}
    /\ made = 0
    /\ games = [r \in Rooms |-> <<>>]
    /\ managers = {}
    /\ verified = {}
    /\ pc = [h \in Handlers |-> "idle"]
    /\ loc = [h \in Handlers |-> NoLocals]

SeatsOf(r) == {s \in seats : s.room = r}

Go(h, p)     == pc' = [pc EXCEPT ![h] = p]
Set(h, l)    == loc' = [loc EXCEPT ![h] = l]
Finish(h)    == Go(h, "idle") /\ Set(h, NoLocals)
Request(a)   == [NoLocals EXCEPT !.agent = a]

\* create_seat: UNIQUE(room_id, agent_id) and UNIQUE(room_id, seat_number).
\* Mutant: without UNIQUE(room_id, seat_number).
SeatTakenByAgent(r, a, n) == \E s \in SeatsOf(r) : s.agent = a
SeatTaken(r, a, n) == \E s \in SeatsOf(r) : s.agent = a \/ s.number = n
InsertSeat(r, a, n) ==
    /\ made < MaxSeats
    /\ ~SeatTaken(r, a, n)
    /\ made' = made + 1
    /\ seats' = seats \cup
                    {[id |-> made + 1, room |-> r, agent |-> a, number |-> n]}

\* check_escrow_deposit for the handler's agent and room.
Vouch(h) == verified' = verified \cup {<<loc[h].room, loc[h].agent>>}

----------------------------------------------------------------------------
(* join_room                                                               *)

\* get_room_by_id: no such room or not Open ends the request at once.
JoinReadRoom(h, a, r) ==
    /\ pc[h] = "idle"
    /\ room[r].status = "Open"
    /\ Go(h, "j_agent") /\ Set(h, [Request(a) EXCEPT !.room = r])
    /\ UNCHANGED tables

\* The same, called by join_queue.
QueueJoinRoom(h) ==
    /\ pc[h] = "j_room"
    /\ \/ room[loc[h].room].status = "Open" /\ Go(h, "j_agent") /\ UNCHANGED loc
       \/ room[loc[h].room].status # "Open" /\ Finish(h)
    /\ UNCHANGED tables

\* get_seat_by_agent_and_room
JoinReadAgent(h) ==
    LET seated == \E s \in SeatsOf(loc[h].room) : s.agent = loc[h].agent IN
    /\ pc[h] = "j_agent"
    /\ \/ ~seated /\ Go(h, "j_seats") /\ UNCHANGED loc
       \/ seated /\ Finish(h)
    /\ UNCHANGED tables

\* Mutant: one more player than max_players finds a seat.
JoinReadSeatsOneMore(h) ==
    LET count == Cardinality(SeatsOf(loc[h].room)) IN
    /\ pc[h] = "j_seats"
    /\ \/ /\ count <= MaxPlayers
          /\ Go(h, "j_escrow") /\ Set(h, [loc[h] EXCEPT !.number = count + 1])
       \/ count > MaxPlayers /\ Finish(h)
    /\ UNCHANGED tables

\* get_seats_by_room: full, or the seat number is planned from the count.
JoinReadSeats(h) ==
    LET count == Cardinality(SeatsOf(loc[h].room)) IN
    /\ pc[h] = "j_seats"
    /\ \/ /\ count < MaxPlayers
          /\ Go(h, "j_escrow") /\ Set(h, [loc[h] EXCEPT !.number = count + 1])
       \/ count >= MaxPlayers /\ Finish(h)
    /\ UNCHANGED tables

\* Mutant: the answer of the escrow contract is not looked at.
JoinCheckEscrowUnread(h) ==
    /\ pc[h] = "j_escrow"
    /\ Vouch(h) \/ UNCHANGED verified
    /\ Go(h, "j_create")
    /\ UNCHANGED <<room, seats, made, games, managers, loc>>

\* check_escrow_deposit; false ends the request.
JoinCheckEscrow(h) ==
    /\ pc[h] = "j_escrow"
    /\ \/ Vouch(h) /\ Go(h, "j_create") /\ UNCHANGED loc
       \/ UNCHANGED verified /\ Finish(h)
    /\ UNCHANGED <<room, seats, made, games, managers>>

JoinCreateSeat(h) ==
    LET l == loc[h] IN
    /\ pc[h] = "j_create"
    /\ \/ InsertSeat(l.room, l.agent, l.number) /\ Go(h, "j_count")
          /\ Set(h, [l EXCEPT !.number = 0])
       \/ SeatTaken(l.room, l.agent, l.number) /\ Finish(h)
          /\ UNCHANGED <<seats, made>>
    /\ UNCHANGED <<room, games, managers, verified>>

\* The seats are read again: enough of them, and start_game runs.
JoinCount(h) ==
    LET enough == Cardinality(SeatsOf(loc[h].room)) >= room[loc[h].room].min IN
    /\ pc[h] = "j_count"
    /\ \/ enough /\ Go(h, "s_status") /\ UNCHANGED loc
       \/ ~enough /\ Finish(h)
    /\ UNCHANGED tables

----------------------------------------------------------------------------
(* start_game, inside the join_room that found the room full enough        *)

\* Mutant: the room says InProgress before there is a game.
StartSetInProgress(h) ==
    /\ pc[h] = "s_status"
    /\ room' = [room EXCEPT ![loc[h].room].status = "InProgress"]
    /\ Go(h, "s_seats")
    /\ UNCHANGED <<seats, made, games, managers, verified, loc>>

StartSetStatus(h) ==
    /\ pc[h] = "s_status"
    /\ room' = [room EXCEPT ![loc[h].room].status = "Starting"]
    /\ Go(h, "s_seats")
    /\ UNCHANGED <<seats, made, games, managers, verified, loc>>

\* get_seats_by_room: the players, whoever is seated by now.
StartReadSeats(h) ==
    /\ pc[h] = "s_seats"
    /\ Set(h, [loc[h] EXCEPT !.players =
                  {[agent |-> s.agent, number |-> s.number] :
                      s \in SeatsOf(loc[h].room)}])
    /\ Go(h, "s_game")
    /\ UNCHANGED tables

\* init, which divides by the number of players and panics on an empty
\* table, and create_game.
StartCreateGame(h) ==
    LET l == loc[h] IN
    /\ pc[h] = "s_game"
    /\ \/ /\ l.players # {}
          /\ games' = [games EXCEPT ![l.room] =
                          Append(@, [players |-> l.players, ready |-> FALSE])]
          /\ Set(h, [l EXCEPT !.players = {}, !.seat = Len(games[l.room]) + 1])
          /\ Go(h, "s_players")
       \/ l.players = {} /\ Finish(h) /\ UNCHANGED games
    /\ UNCHANGED <<room, seats, made, managers, verified>>

\* create_player for each of them.
StartCreatePlayers(h) ==
    /\ pc[h] = "s_players"
    /\ games' = [games EXCEPT ![loc[h].room][loc[h].seat].ready = TRUE]
    /\ Go(h, "s_progress")
    /\ UNCHANGED <<room, seats, made, managers, verified, loc>>

\* The room says InProgress before there is a turn manager.
StartProgress(h) ==
    /\ pc[h] = "s_progress"
    /\ room' = [room EXCEPT ![loc[h].room].status = "InProgress"]
    /\ Go(h, "s_spawn")
    /\ UNCHANGED <<seats, made, games, managers, verified, loc>>

\* The reply is there and run_turn_manager is spawned.
StartSpawn(h) ==
    /\ pc[h] = "s_spawn"
    /\ managers' = managers \cup {<<loc[h].room, loc[h].seat>>}
    /\ Finish(h)
    /\ UNCHANGED <<room, seats, made, games, verified>>

----------------------------------------------------------------------------
(* leave_room                                                              *)

LeaveReadRoom(h, a, r) ==
    /\ pc[h] = "idle"
    /\ room[r].status = "Open"
    /\ Go(h, "l_seat") /\ Set(h, [Request(a) EXCEPT !.room = r])
    /\ UNCHANGED tables

LeaveReadSeat(h) ==
    LET mine == {s \in SeatsOf(loc[h].room) : s.agent = loc[h].agent} IN
    /\ pc[h] = "l_seat"
    /\ \/ \E s \in mine : Go(h, "l_delete") /\ Set(h, [loc[h] EXCEPT !.seat = s.id])
       \/ mine = {} /\ Finish(h)
    /\ UNCHANGED tables

\* delete_seat, whatever the room has become.
LeaveDelete(h) ==
    /\ pc[h] = "l_delete"
    /\ seats' = {s \in seats : s.id # loc[h].seat}
    /\ Finish(h)
    /\ UNCHANGED <<room, made, games, managers, verified>>

----------------------------------------------------------------------------
(* join_queue and create_room                                              *)

\* list_rooms(Open), newest first.
QueueListRooms(h, a) ==
    /\ pc[h] = "idle"
    /\ Go(h, "q_seats")
    /\ Set(h, [Request(a) EXCEPT
                  !.rest = {r \in Rooms : room[r].status = "Open"}])
    /\ UNCHANGED tables

\* The newest listed room with a free seat is joined; an error of join_room
\* is the answer, the other rooms are not tried.
QueueReadSeats(h) ==
    LET l == loc[h] IN
    /\ pc[h] = "q_seats"
    /\ \/ /\ l.rest = {} /\ Go(h, "c_room") /\ UNCHANGED loc
       \/ \E r \in l.rest :
             /\ \A q \in l.rest : q <= r
             /\ \/ /\ Cardinality(SeatsOf(r)) < MaxPlayers
                   /\ Go(h, "j_room")
                   /\ Set(h, [l EXCEPT !.room = r, !.rest = {}])
                \/ /\ Cardinality(SeatsOf(r)) >= MaxPlayers
                   /\ UNCHANGED pc
                   /\ Set(h, [l EXCEPT !.rest = @ \ {r}])
    /\ UNCHANGED tables

\* The insert of create_room, the next room id.
InsertRoom(h, l, min) ==
    \E r \in Rooms :
        /\ room[r].status = "none"
        /\ \A q \in Rooms : q < r => room[q].status # "none"
        /\ room' = [room EXCEPT ![r] = [status |-> "Open", min |-> min]]
        /\ Set(h, [l EXCEPT !.room = r])

CreateRequest(h, a) ==
    /\ pc[h] = "idle"
    /\ InsertRoom(h, Request(a), MinPlayers)
    /\ Go(h, "c_escrow")
    /\ UNCHANGED <<seats, made, games, managers, verified>>

QueueCreateRoom(h) ==
    /\ pc[h] = "c_room"
    /\ InsertRoom(h, loc[h], QueueMin)
    /\ Go(h, "c_escrow")
    /\ UNCHANGED <<seats, made, games, managers, verified>>

\* The room is listed as Open by now; it stays if the deposit is missing.
CreateCheckEscrow(h) ==
    /\ pc[h] = "c_escrow"
    /\ \/ Vouch(h) /\ Go(h, "c_seat") /\ UNCHANGED loc
       \/ UNCHANGED verified /\ Finish(h)
    /\ UNCHANGED <<room, seats, made, games, managers>>

CreateSeat(h) ==
    LET l == loc[h] IN
    /\ pc[h] = "c_seat"
    /\ \/ InsertSeat(l.room, l.agent, 1)
       \/ SeatTaken(l.room, l.agent, 1) /\ UNCHANGED <<seats, made>>
    /\ Finish(h)
    /\ UNCHANGED <<room, games, managers, verified>>

----------------------------------------------------------------------------
\* complete_game of one of the room's games, whatever the room says by now;
\* a game with no manager ever spawned has no turn to end it.
CompleteRoom(r) ==
    /\ \E game \in managers : game[1] = r
    /\ room' = [room EXCEPT ![r].status = "Completed"]
    /\ UNCHANGED <<seats, made, games, managers, verified, pc, loc>>

\* A store error, a dropped connection or a crash ends a request at any
\* await; what it wrote stays written. A write that is done although its
\* reply is lost is the write, and then Fail where the reply was awaited.
Fail(h) ==
    /\ pc[h] # "idle"
    /\ Finish(h)
    /\ UNCHANGED tables

Requests(h) ==
    \E a \in Agents :
        \/ \E r \in Rooms : JoinReadRoom(h, a, r) \/ LeaveReadRoom(h, a, r)
        \/ QueueListRooms(h, a) \/ CreateRequest(h, a)

Continue(h) ==
    \/ QueueJoinRoom(h) \/ JoinReadAgent(h) \/ JoinReadSeats(h)
    \/ JoinCheckEscrow(h) \/ JoinCreateSeat(h) \/ JoinCount(h)
    \/ StartSetStatus(h) \/ StartReadSeats(h) \/ StartCreateGame(h)
    \/ StartCreatePlayers(h) \/ StartProgress(h) \/ StartSpawn(h)
    \/ LeaveReadSeat(h) \/ LeaveDelete(h)
    \/ QueueReadSeats(h) \/ QueueCreateRoom(h)
    \/ CreateCheckEscrow(h) \/ CreateSeat(h)

Next == \/ \E h \in Handlers : Requests(h) \/ Continue(h) \/ Fail(h)
        \/ \E r \in Rooms : CompleteRoom(r)

Spec == Init /\ [][Next]_vars

----------------------------------------------------------------------------
(* Properties                                                              *)

\* However many joins read the same count, a room never seats more players
\* than max_players: each plans a seat number within it, and the numbers of
\* a room are unique.
NeverOverfull == \A r \in Rooms : Cardinality(SeatsOf(r)) <= MaxPlayers

\* Nobody plays on credit: every player of a game has a deposit the escrow
\* contract vouched for, for that room, even if the seats changed hands
\* between the count and start_game's read.
PlayersHaveDeposited ==
    \A r \in Rooms : \A i \in DOMAIN games[r] :
        \A p \in games[r][i].players : <<r, p.agent>> \in verified

\* What a room says does not run ahead of its games, whoever else is starting
\* or completing one and wherever a start stops: a room that was InProgress or
\* Completed has a game with all its player rows, an Open one has no game, and
\* no turn manager serves a game whose player rows are not all there.
RoomFollowsItsGames ==
    /\ \A r \in Rooms :
          /\ room[r].status \in {"InProgress", "Completed"} =>
                \E i \in DOMAIN games[r] : games[r][i].ready
          /\ room[r].status \in {"none", "Open"} => games[r] = <<>>
    /\ \A game \in managers :
          /\ game[2] \in DOMAIN games[game[1]]
          /\ games[game[1]][game[2]].ready

\* Until a seat is left for the first time, the n seats of a room are numbered
\* 1..n, each once, as the engine assumes when it goes round the table, and a
\* game has its min_players, although the counts are read before the rows
\* they are for.
Dense(seated) == {s.number : s \in seated} = 1..Cardinality(seated)
NobodyHasLeft == Cardinality(seats) = made
SeatsAreDense ==
    NobodyHasLeft => \A r \in Rooms :
        /\ Dense(SeatsOf(r))
        /\ \A i \in DOMAIN games[r] :
              /\ Dense(games[r][i].players)
              /\ Cardinality(games[r][i].players) >= room[r].min

----------------------------------------------------------------------------
(* What the repository's words say and the code does not do                *)

\* "get_game_by_room_id -> Option<GameInstance>", "If not Open: Conflict": a
\* room starts one game.
OneGamePerRoom == \A r \in Rooms : Len(games[r]) <= 1

\* "Set room status to InProgress", "Start turn manager for game_id (spawn tokio
\* task)": a room that says InProgress is served, or its start_game is still to
\* spawn the manager.
InProgressIsServed ==
    \A r \in Rooms : room[r].status = "InProgress" =>
        \/ \E game \in managers : game[1] = r
        \/ \E h \in Handlers : pc[h] = "s_spawn" /\ loc[h].room = r
============================================================================
