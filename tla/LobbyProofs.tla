---------------------------- MODULE LobbyProofs ----------------------------
(***************************************************************************)
(* What Lobby guarantees for any agents, rooms and concurrent requests.    *)
(***************************************************************************)
EXTENDS Lobby, FiniteSetTheorems, SequenceTheorems, TLAPS

\* What a handler knows where it is: whom it acts for, that the number it
\* plans is a seat, and that the game it prepares exists.
HandlerOK(h) ==
    /\ pc[h] # "idle" => loc[h].agent \in Agents
    /\ pc[h] \in {"j_escrow", "j_create"} => loc[h].number \in 1..MaxPlayers
    /\ pc[h] \in {"s_players", "s_progress", "s_spawn"} =>
          loc[h].seat \in DOMAIN games[loc[h].room]

TypeInv == TypeOK /\ IsFiniteSet(seats) /\ \A h \in Handlers : HandlerOK(h)

\* Handler h is at p with locals l, and the others are where they were.
Moves(h, p, l) ==
    /\ pc' \in [Handlers -> HandlerPC] /\ pc'[h] = p
    /\ loc' \in [Handlers -> Locals] /\ loc'[h] = l
    /\ \A g \in Handlers \ {h} : pc'[g] = pc[g] /\ loc'[g] = loc[g]

LEMMA GoMoves ==
    ASSUME TypeOK, NEW h \in Handlers, NEW p \in HandlerPC, NEW l \in Locals,
           Go(h, p), Set(h, l) \/ (UNCHANGED loc /\ l = loc[h])
    PROVE  Moves(h, p, l)
    BY DEF TypeOK, Go, Set, Moves

LEMMA NoLocalsTyped == NoLocals \in Locals
    BY LobbyAssumption DEF NoLocals, Locals

LEMMA RequestTyped ==
    ASSUME NEW a \in Agents, NEW r \in Rooms, NEW rest \in SUBSET Rooms
    PROVE  /\ [Request(a) EXCEPT !.room = r] \in Locals
           /\ [Request(a) EXCEPT !.rest = rest] \in Locals
           /\ Request(a) \in Locals /\ Request(a).agent = a
    BY NoLocalsTyped DEF Request, NoLocals, Locals

LEMMA FinishMoves ==
    ASSUME TypeOK, NEW h \in Handlers, Finish(h)
    PROVE  Moves(h, "idle", NoLocals)
    BY GoMoves, NoLocalsTyped DEF Finish, HandlerPC

\* The handlers' part of TypeInv after one of them has moved and the games of
\* no room have become fewer.
LEMMA HandlersStep ==
    ASSUME TypeInv, NEW h \in Handlers, NEW p, NEW l, Moves(h, p, l),
           \A r \in Rooms : DOMAIN games[r] \subseteq DOMAIN games'[r],
           p # "idle" => l.agent \in Agents,
           p \in {"j_escrow", "j_create"} => l.number \in 1..MaxPlayers,
           p \in {"s_players", "s_progress", "s_spawn"} =>
              l.seat \in DOMAIN games'[l.room]
    PROVE  \A g \in Handlers : HandlerOK(g)'
<1>1. \A g \in Handlers : loc[g].room \in Rooms
    BY DEF TypeInv, TypeOK, Locals
<1> QED
    BY <1>1 DEF TypeInv, HandlerOK, Moves

\* A step that leaves the tables alone.
LEMMA TablesStep ==
    ASSUME TypeInv, UNCHANGED tables, NEW h \in Handlers, NEW p, NEW l,
           Moves(h, p, l),
           p # "idle" => l.agent \in Agents,
           p \in {"j_escrow", "j_create"} => l.number \in 1..MaxPlayers,
           p \in {"s_players", "s_progress", "s_spawn"} =>
              l.seat \in DOMAIN games[l.room]
    PROVE  TypeInv'
<1>1. \A g \in Handlers : HandlerOK(g)'
    BY HandlersStep DEF tables
<1> QED
    BY <1>1 DEF TypeInv, TypeOK, tables, Moves

\* A handler that ends.
LEMMA EndStep ==
    ASSUME TypeInv, NEW h \in Handlers, Finish(h), UNCHANGED games
    PROVE  /\ pc' \in [Handlers -> HandlerPC] /\ loc' \in [Handlers -> Locals]
           /\ \A g \in Handlers : HandlerOK(g)'
<1>1. Moves(h, "idle", NoLocals)
    BY FinishMoves DEF TypeInv
<1>2. \A g \in Handlers : HandlerOK(g)'
    BY <1>1, HandlersStep
<1> QED
    BY <1>1, <1>2 DEF Moves

\* The seats of a room are finitely many.
LEMMA SeatsFinite ==
    ASSUME IsFiniteSet(seats), NEW r
    PROVE  IsFiniteSet(SeatsOf(r)) /\ Cardinality(SeatsOf(r)) \in Nat
<1>1. SeatsOf(r) \in SUBSET seats
    BY DEF SeatsOf
<1>2. IsFiniteSet(SeatsOf(r))
    BY <1>1, FS_Subset
<1> QED
    BY <1>2, FS_CardinalityType

\* create_seat adds one row of the right type.
LEMMA InsertTyped ==
    ASSUME TypeInv, NEW r \in Rooms, NEW a \in Agents,
           NEW n \in 1..MaxPlayers, InsertSeat(r, a, n)
    PROVE  /\ seats' \subseteq [id : 1..made', room : Rooms, agent : Agents,
                                number : 1..MaxPlayers]
           /\ made' \in 0..MaxSeats
           /\ IsFiniteSet(seats')
<1>1. made \in 0..MaxSeats /\ made < MaxSeats /\ made' = made + 1
      /\ MaxSeats \in Nat
    BY LobbyAssumption DEF TypeInv, TypeOK, InsertSeat
<1>2. IsFiniteSet(seats')
    BY FS_AddElement DEF TypeInv, InsertSeat
<1>3. \A s \in seats : s \in [id : 1..made', room : Rooms, agent : Agents,
                              number : 1..MaxPlayers]
    BY <1>1 DEF TypeInv, TypeOK
<1> QED
    BY <1>1, <1>2, <1>3 DEF InsertSeat

\* A request or a step of a handler that writes no table.
Reads(h) ==
    \/ \E a \in Agents :
          \/ \E r \in Rooms : JoinReadRoom(h, a, r) \/ LeaveReadRoom(h, a, r)
          \/ QueueListRooms(h, a)
    \/ QueueJoinRoom(h) \/ JoinReadAgent(h) \/ JoinReadSeats(h)
    \/ JoinCount(h) \/ StartReadSeats(h) \/ LeaveReadSeat(h)
    \/ QueueReadSeats(h) \/ Fail(h)

\* What a read leaves: the handler goes on with its agent, or ends.
LEMMA ReadsType ==
    ASSUME TypeInv, NEW h \in Handlers, Reads(h)
    PROVE  TypeInv'
<1> USE DEF HandlerPC
<1>0. /\ loc[h] \in Locals
      /\ pc[h] # "idle" => loc[h].agent \in Agents
      /\ TypeOK
    BY DEF TypeInv, TypeOK, HandlerOK
<1>1. CASE Finish(h) /\ UNCHANGED tables
    <2>1. Moves(h, "idle", NoLocals)
        BY <1>0, <1>1, FinishMoves
    <2> QED
        BY <1>1, <2>1, TablesStep
<1>2. ASSUME NEW a \in Agents, NEW r \in Rooms,
             JoinReadRoom(h, a, r) \/ LeaveReadRoom(h, a, r)
      PROVE  TypeInv'
    <2> DEFINE l == [Request(a) EXCEPT !.room = r]
    <2>1. l \in Locals /\ l.agent = a
        BY RequestTyped DEF Locals, Request, NoLocals
    <2>2. Moves(h, "j_agent", l) \/ Moves(h, "l_seat", l)
        BY <1>0, <1>2, <2>1, GoMoves DEF JoinReadRoom, LeaveReadRoom
    <2> QED
        BY <1>2, <2>1, <2>2, TablesStep DEF JoinReadRoom, LeaveReadRoom
<1>3. ASSUME NEW a \in Agents, QueueListRooms(h, a) PROVE TypeInv'
    <2> DEFINE rest == {r \in Rooms : room[r].status = "Open"}
               l == [Request(a) EXCEPT !.rest = rest]
    <2>1. l \in Locals /\ l.agent = a
        BY RequestTyped, LobbyAssumption DEF Locals, Request, NoLocals
    <2>2. Moves(h, "q_seats", l)
        BY <1>0, <1>3, <2>1, GoMoves DEF QueueListRooms
    <2> QED
        BY <1>3, <2>1, <2>2, TablesStep DEF QueueListRooms
<1>4. ASSUME NEW p \in {"j_agent", "j_seats", "s_status"}, pc[h] # "idle",
             Go(h, p), UNCHANGED loc, UNCHANGED tables
      PROVE  TypeInv'
    <2>1. Moves(h, p, loc[h])
        BY <1>0, <1>4, GoMoves
    <2> QED
        BY <1>0, <1>4, <2>1, TablesStep
<1>5. CASE JoinReadSeats(h)
    <2> DEFINE count == Cardinality(SeatsOf(loc[h].room))
               l == [loc[h] EXCEPT !.number = count + 1]
    <2>1. CASE count < MaxPlayers /\ Go(h, "j_escrow") /\ Set(h, l)
        <3>1. count + 1 \in 1..MaxPlayers
            BY <2>1, SeatsFinite, LobbyAssumption DEF TypeInv
        <3>2. l \in Locals /\ l.agent = loc[h].agent
              /\ l.number \in 1..MaxPlayers
            BY <1>0, <3>1 DEF Locals
        <3>3. Moves(h, "j_escrow", l)
            BY <1>0, <2>1, <3>2, GoMoves
        <3> HIDE DEF l
        <3> QED
            BY <1>0, <1>5, <3>2, <3>3, TablesStep DEF JoinReadSeats
    <2> QED
        BY <1>1, <1>5, <2>1 DEF JoinReadSeats
<1>6. CASE StartReadSeats(h)
    <2> DEFINE ps == {[agent |-> s.agent, number |-> s.number] :
                         s \in SeatsOf(loc[h].room)}
               l == [loc[h] EXCEPT !.players = ps]
    <2>1. ps \subseteq Players
        BY <1>0 DEF TypeOK, SeatsOf, Players
    <2>2. l \in Locals /\ l.agent = loc[h].agent
        BY <1>0, <2>1 DEF Locals
    <2>3. Moves(h, "s_game", l)
        BY <1>0, <1>6, <2>2, GoMoves DEF StartReadSeats
    <2> HIDE DEF l
    <2> QED
        BY <1>0, <1>6, <2>2, <2>3, TablesStep DEF StartReadSeats
<1>7. CASE LeaveReadSeat(h)
    <2>1. ASSUME NEW s \in seats, Go(h, "l_delete"),
                 Set(h, [loc[h] EXCEPT !.seat = s.id])
          PROVE  TypeInv'
        <3> DEFINE l == [loc[h] EXCEPT !.seat = s.id]
        <3>1. s.id \in Nat
            BY <1>0 DEF TypeOK
        <3>2. l \in Locals /\ l.agent = loc[h].agent
            BY <1>0, <3>1 DEF Locals
        <3>3. Moves(h, "l_delete", l)
            BY <1>0, <2>1, <3>2, GoMoves
        <3> HIDE DEF l
        <3> QED
            BY <1>0, <1>7, <3>2, <3>3, TablesStep DEF LeaveReadSeat
    <2> QED
        BY <1>1, <1>7, <2>1 DEF LeaveReadSeat, SeatsOf
<1>8. CASE QueueReadSeats(h)
    <2>1. CASE Go(h, "c_room") /\ UNCHANGED loc
        <3>1. Moves(h, "c_room", loc[h])
            BY <1>0, <2>1, GoMoves
        <3> QED
            BY <1>0, <1>8, <3>1, TablesStep DEF QueueReadSeats
    <2>2. ASSUME NEW r \in loc[h].rest, Go(h, "j_room"),
                 Set(h, [loc[h] EXCEPT !.room = r, !.rest = {}])
          PROVE  TypeInv'
        <3> DEFINE l == [loc[h] EXCEPT !.room = r, !.rest = {}]
        <3>1. l \in Locals /\ l.agent = loc[h].agent
            BY <1>0 DEF Locals
        <3>2. Moves(h, "j_room", l)
            BY <1>0, <2>2, <3>1, GoMoves
        <3> HIDE DEF l
        <3> QED
            BY <1>0, <1>8, <3>1, <3>2, TablesStep DEF QueueReadSeats
    <2>3. ASSUME NEW r \in loc[h].rest, UNCHANGED pc,
                 Set(h, [loc[h] EXCEPT !.rest = @ \ {r}])
          PROVE  TypeInv'
        <3> DEFINE l == [loc[h] EXCEPT !.rest = @ \ {r}]
        <3>1. l \in Locals /\ l.agent = loc[h].agent
            BY <1>0 DEF Locals
        <3>2. pc[h] = "q_seats" /\ Go(h, "q_seats")
            BY <1>0, <1>8, <2>3 DEF QueueReadSeats, Go, TypeOK
        <3>3. Moves(h, "q_seats", l)
            BY <1>0, <2>3, <3>1, <3>2, GoMoves
        <3> HIDE DEF l
        <3> QED
            BY <1>0, <1>8, <3>1, <3>3, TablesStep DEF QueueReadSeats
    <2> QED
        BY <1>8, <2>1, <2>2, <2>3 DEF QueueReadSeats
<1>9. CASE QueueJoinRoom(h) \/ JoinReadAgent(h) \/ JoinCount(h) \/ Fail(h)
    BY <1>1, <1>4, <1>9 DEF QueueJoinRoom, JoinReadAgent, JoinCount, Fail
<1> QED
    BY <1>2, <1>3, <1>5, <1>6, <1>7, <1>8, <1>9 DEF Reads

\* The steps that write a table.
LEMMA SeatWritesType ==
    ASSUME TypeInv, NEW h \in Handlers,
           \/ JoinCheckEscrow(h) \/ JoinCreateSeat(h) \/ LeaveDelete(h)
           \/ CreateCheckEscrow(h) \/ CreateSeat(h)
    PROVE  TypeInv'
<1> USE DEF HandlerPC
<1>0. /\ loc[h] \in Locals /\ TypeOK
      /\ pc[h] # "idle" => loc[h].agent \in Agents
      /\ pc[h] \in {"j_escrow", "j_create"} =>
            loc[h].number \in 1..MaxPlayers
      /\ loc[h].room \in Rooms
    BY DEF TypeInv, TypeOK, HandlerOK, Locals
<1>1. UNCHANGED <<room, games, managers>>
    BY DEF JoinCheckEscrow, JoinCreateSeat, LeaveDelete, CreateCheckEscrow,
           CreateSeat
\* Where the handler is after it.
<1>2. /\ pc' \in [Handlers -> HandlerPC] /\ loc' \in [Handlers -> Locals]
      /\ \A g \in Handlers : HandlerOK(g)'
    <2>1. CASE Finish(h)
        BY <1>1, <2>1, EndStep
    <2>2. ASSUME NEW p \in {"j_create", "c_seat"}, Go(h, p), UNCHANGED loc,
                 pc[h] # "idle", p = "j_create" => pc[h] = "j_escrow"
          PROVE  /\ pc' \in [Handlers -> HandlerPC]
                 /\ loc' \in [Handlers -> Locals]
                 /\ \A g \in Handlers : HandlerOK(g)'
        <3>1. Moves(h, p, loc[h])
            BY <1>0, <2>2, GoMoves
        <3>2. \A g \in Handlers : HandlerOK(g)'
            BY <1>0, <1>1, <2>2, <3>1, HandlersStep
        <3> QED
            BY <3>1, <3>2 DEF Moves
    <2>3. CASE JoinCreateSeat(h) /\ Go(h, "j_count")
               /\ Set(h, [loc[h] EXCEPT !.number = 0])
        <3> DEFINE l == [loc[h] EXCEPT !.number = 0]
        <3>1. l \in Locals /\ l.agent = loc[h].agent
            BY <1>0, LobbyAssumption DEF Locals
        <3>2. Moves(h, "j_count", l)
            BY <1>0, <2>3, <3>1, GoMoves
        <3>3. pc[h] # "idle"
            BY <2>3 DEF JoinCreateSeat
        <3> HIDE DEF l
        <3>4. \A g \in Handlers : HandlerOK(g)'
            BY <1>0, <1>1, <3>1, <3>2, <3>3, HandlersStep
        <3> QED
            BY <3>2, <3>4 DEF Moves
    <2> QED
        BY <2>1, <2>2, <2>3
           DEF JoinCheckEscrow, JoinCreateSeat, LeaveDelete,
               CreateCheckEscrow, CreateSeat
<1>3. /\ seats' \subseteq [id : 1..made', room : Rooms, agent : Agents,
                           number : 1..MaxPlayers]
      /\ made' \in 0..MaxSeats
      /\ IsFiniteSet(seats')
    <2>1. CASE JoinCreateSeat(h)
        BY <1>0, <2>1, InsertTyped DEF JoinCreateSeat, TypeInv, TypeOK
    <2>2. CASE CreateSeat(h)
        <3>1. 1 \in 1..MaxPlayers
            BY LobbyAssumption
        <3> QED
            BY <1>0, <2>2, <3>1, InsertTyped DEF CreateSeat, TypeInv, TypeOK
    <2>3. CASE LeaveDelete(h)
        <3>1. seats' \in SUBSET seats /\ UNCHANGED made
            BY <2>3 DEF LeaveDelete
        <3> QED
            BY <3>1, FS_Subset DEF TypeInv, TypeOK
    <2>4. CASE UNCHANGED <<seats, made>>
        BY <2>4 DEF TypeInv, TypeOK
    <2> QED
        BY <2>1, <2>2, <2>3, <2>4 DEF JoinCheckEscrow, CreateCheckEscrow
<1>4. verified' \subseteq Rooms \X Agents
    BY <1>0 DEF TypeOK, JoinCheckEscrow, JoinCreateSeat, LeaveDelete,
                CreateCheckEscrow, CreateSeat, Vouch
<1> QED
    BY <1>0, <1>1, <1>2, <1>3, <1>4 DEF TypeInv, TypeOK

\* A room is inserted or changes its status, or a manager is spawned.
LEMMA RoomWritesType ==
    ASSUME TypeInv, NEW h \in Handlers,
           \/ StartSetStatus(h) \/ StartProgress(h) \/ StartSpawn(h)
           \/ QueueCreateRoom(h) \/ \E a \in Agents : CreateRequest(h, a)
    PROVE  TypeInv'
<1> USE DEF HandlerPC
<1>0. /\ loc[h] \in Locals /\ TypeOK
      /\ pc[h] # "idle" => loc[h].agent \in Agents
      /\ loc[h].room \in Rooms
    BY DEF TypeInv, TypeOK, HandlerOK, Locals
<1>1. UNCHANGED <<seats, made, games, verified>>
    BY DEF StartSetStatus, StartProgress, StartSpawn, QueueCreateRoom, CreateRequest
\* The next room, for a request or for join_queue.
<1>2. ASSUME NEW l \in Locals, l.agent \in Agents, NEW min \in 2..MaxPlayers,
             InsertRoom(h, l, min), Go(h, "c_escrow"), UNCHANGED managers
      PROVE  TypeInv'
    <2>1. PICK r \in Rooms :
             /\ room' = [room EXCEPT ![r] = [status |-> "Open", min |-> min]]
             /\ Set(h, [l EXCEPT !.room = r])
        BY <1>2 DEF InsertRoom
    <2>2. room' \in [Rooms -> [status : Statuses, min : 2..MaxPlayers]]
        BY <1>0, <2>1 DEF TypeOK, Statuses
    <2> DEFINE k == [l EXCEPT !.room = r]
    <2>3. k \in Locals /\ k.agent = l.agent
        BY DEF Locals
    <2>4. Moves(h, "c_escrow", k)
        BY <1>0, <1>2, <2>1, <2>3, GoMoves
    <2> HIDE DEF k
    <2>5. \A g \in Handlers : HandlerOK(g)'
        BY <1>1, <1>2, <2>3, <2>4, HandlersStep
    <2> QED
        BY <1>0, <1>1, <1>2, <2>2, <2>4, <2>5 DEF TypeInv, TypeOK, Moves
<1>3. CASE QueueCreateRoom(h)
    <2>1. QueueMin \in 2..MaxPlayers
        BY LobbyAssumption DEF QueueMin
    <2>2. pc[h] = "c_room" /\ loc[h].agent \in Agents
        BY <1>0, <1>3 DEF QueueCreateRoom
    <2> QED
        BY <1>0, <1>2, <1>3, <2>1, <2>2 DEF QueueCreateRoom
<1>4. ASSUME NEW a \in Agents, CreateRequest(h, a) PROVE TypeInv'
    <2>1. Request(a) \in Locals /\ Request(a).agent = a
        BY RequestTyped, LobbyAssumption
    <2>2. MinPlayers \in 2..MaxPlayers
        BY LobbyAssumption
    <2> QED
        BY <1>2, <1>4, <2>1, <2>2 DEF CreateRequest
<1>5. CASE StartSetStatus(h) \/ StartProgress(h) \/ StartSpawn(h)
    <2>1. room' \in [Rooms -> [status : Statuses, min : 2..MaxPlayers]]
        <3>1. CASE UNCHANGED room
            BY <1>0, <3>1 DEF TypeOK
        <3>2. CASE ~UNCHANGED room
            <4>1. PICK st \in Statuses :
                     room' = [room EXCEPT ![loc[h].room].status = st]
                BY <1>5, <3>2 DEF StartSetStatus, StartProgress, StartSpawn, Statuses
            <4>2. [room[loc[h].room] EXCEPT !.status = st]
                     \in [status : Statuses, min : 2..MaxPlayers]
                BY <1>0 DEF TypeOK
            <4> QED
                BY <1>0, <4>1, <4>2 DEF TypeOK
        <3> QED
            BY <3>1, <3>2
    <2>3. managers' \subseteq Rooms \X Nat
        <3>1. loc[h].seat \in Nat
            BY <1>0 DEF Locals
        <3> QED
            BY <1>0, <1>5, <3>1 DEF TypeOK, StartSetStatus, StartProgress, StartSpawn
    <2>2. /\ pc' \in [Handlers -> HandlerPC] /\ loc' \in [Handlers -> Locals]
          /\ \A g \in Handlers : HandlerOK(g)'
        <3>1. CASE Finish(h)
            BY <1>1, <3>1, EndStep
        <3>2. ASSUME NEW p \in {"s_seats", "s_spawn"}, pc[h] # "idle",
                     Go(h, p), UNCHANGED loc, p = "s_spawn" => pc[h] = "s_progress"
              PROVE  /\ pc' \in [Handlers -> HandlerPC]
                     /\ loc' \in [Handlers -> Locals]
                     /\ \A g \in Handlers : HandlerOK(g)'
            <4>1. Moves(h, p, loc[h])
                BY <1>0, <3>2, GoMoves
            <4>2. p = "s_spawn" => loc[h].seat \in DOMAIN games'[loc[h].room]
                BY <1>1, <3>2 DEF TypeInv, HandlerOK
            <4>3. \A g \in Handlers : HandlerOK(g)'
                BY <1>0, <1>1, <3>2, <4>1, <4>2, HandlersStep
            <4> QED
                BY <4>1, <4>3 DEF Moves
        <3> QED
            BY <1>5, <3>1, <3>2 DEF StartSetStatus, StartProgress, StartSpawn
    <2> QED
        BY <1>0, <1>1, <2>1, <2>2, <2>3 DEF TypeInv, TypeOK
<1> QED
    BY <1>3, <1>4, <1>5

\* create_game appends a game, create_player makes it ready.
LEMMA GameWritesType ==
    ASSUME TypeInv, NEW h \in Handlers,
           StartCreateGame(h) \/ StartCreatePlayers(h)
    PROVE  /\ TypeInv'
           /\ \A r \in Rooms : DOMAIN games[r] \subseteq DOMAIN games'[r]
<1> USE DEF HandlerPC
<1>0. /\ loc[h] \in Locals /\ TypeOK
      /\ pc[h] # "idle" => loc[h].agent \in Agents
      /\ loc[h].room \in Rooms
    BY DEF TypeInv, TypeOK, HandlerOK, Locals
<1> DEFINE R == loc[h].room
<1>1. UNCHANGED <<room, seats, made, managers, verified>>
    BY DEF StartCreateGame, StartCreatePlayers
<1>2. games[R] \in Seq(Games) /\ DOMAIN games[R] = 1..Len(games[R])
      /\ Len(games[R]) \in Nat
    BY <1>0, LenProperties DEF TypeOK
<1>3. CASE Finish(h) /\ UNCHANGED games
    BY <1>0, <1>1, <1>3, EndStep DEF TypeInv, TypeOK
<1>4. CASE StartCreateGame(h) /\ loc[h].players # {}
    <2> DEFINE g == [players |-> loc[h].players, ready |-> FALSE]
               n == Len(games[R]) + 1
               k == [loc[h] EXCEPT !.players = {}, !.seat = n]
    <2>1. /\ games' = [games EXCEPT ![R] = Append(@, g)]
          /\ Set(h, k) /\ Go(h, "s_players") /\ pc[h] = "s_game"
        BY <1>4 DEF StartCreateGame
    <2>2. g \in Games
        BY <1>0 DEF Games, Locals
    <2> HIDE DEF g
    <2>3. /\ Append(games[R], g) \in Seq(Games)
          /\ Len(Append(games[R], g)) = Len(games[R]) + 1
        BY <1>2, <2>2, AppendProperties
    <2>4. DOMAIN Append(games[R], g) = 1..(Len(games[R]) + 1)
        BY <2>3, LenProperties
    <2>5. games' \in [Rooms -> Seq(Games)]
        BY <1>0, <2>1, <2>3 DEF TypeOK
    <2>6. \A r \in Rooms : DOMAIN games[r] \subseteq DOMAIN games'[r]
        BY <1>0, <1>2, <2>1, <2>4 DEF TypeOK
    <2>7. /\ k \in Locals /\ k.agent = loc[h].agent /\ k.room = R
          /\ k.seat = n
        <3>1. n \in Nat
            BY <1>2
        <3> HIDE DEF n
        <3> QED
            BY <1>0, <3>1 DEF Locals
    <2>10. k.seat \in DOMAIN games'[R]
        <3>1. games'[R] = Append(games[R], g)
            BY <1>0, <2>1 DEF TypeOK
        <3>2. Len(games[R]) + 1 \in 1..(Len(games[R]) + 1)
            BY <1>2
        <3> HIDE DEF k
        <3> QED
            BY <2>4, <2>7, <3>1, <3>2
    <2>8. Moves(h, "s_players", k)
        BY <1>0, <2>1, <2>7, GoMoves
    <2> HIDE DEF k
    <2>9. \A q \in Handlers : HandlerOK(q)'
        BY <1>0, <2>1, <2>6, <2>7, <2>8, <2>10, HandlersStep
    <2> QED
        BY <1>0, <1>1, <2>5, <2>6, <2>8, <2>9 DEF TypeInv, TypeOK, Moves
<1>5. CASE StartCreatePlayers(h)
    <2> DEFINE i == loc[h].seat
               g == [games[R][i] EXCEPT !.ready = TRUE]
    <2>1. /\ games' = [games EXCEPT ![R] = [@ EXCEPT ![i] = g]]
          /\ Go(h, "s_progress") /\ UNCHANGED loc /\ pc[h] = "s_players"
        BY <1>5 DEF StartCreatePlayers
    <2>2. i \in 1..Len(games[R])
        BY <1>2, <2>1 DEF TypeInv, HandlerOK
    <2>3. games[R][i] \in Games
        BY <1>2, <2>2, ElementOfSeq
    <2>4. g \in Games
        BY <2>3 DEF Games
    <2> HIDE DEF g, i
    <2>5. /\ [games[R] EXCEPT ![i] = g] \in Seq(Games)
          /\ Len([games[R] EXCEPT ![i] = g]) = Len(games[R])
        BY <1>2, <2>2, <2>4, ExceptSeq
    <2>6. DOMAIN [games[R] EXCEPT ![i] = g] = DOMAIN games[R]
        OBVIOUS
    <2>7. games' \in [Rooms -> Seq(Games)]
        BY <1>0, <2>1, <2>5 DEF TypeOK
    <2>8. \A r \in Rooms : DOMAIN games[r] \subseteq DOMAIN games'[r]
        BY <1>0, <2>1, <2>6 DEF TypeOK
    <2>9. Moves(h, "s_progress", loc[h])
        BY <1>0, <2>1, GoMoves
    <2>10. i \in DOMAIN games'[R]
        BY <1>0, <1>2, <2>2, <2>8
    <2>11. \A q \in Handlers : HandlerOK(q)'
        BY <1>0, <2>1, <2>8, <2>9, <2>10, HandlersStep DEF i
    <2> QED
        BY <1>0, <1>1, <2>7, <2>8, <2>9, <2>11 DEF TypeInv, TypeOK, Moves
<1> QED
    BY <1>3, <1>4, <1>5 DEF StartCreateGame

\* A room whose game is completed changes its status, and nothing else.
LEMMA CompleteMeans ==
    ASSUME TypeOK, NEW r \in Rooms, CompleteRoom(r)
    PROVE  /\ room' \in [Rooms -> [status : Statuses, min : 2..MaxPlayers]]
           /\ room'[r].status = "Completed" /\ room'[r].min = room[r].min
           /\ \A q \in Rooms \ {r} : room'[q] = room[q]
<1>1. room' = [room EXCEPT ![r] = [room[r] EXCEPT !.status = "Completed"]]
    BY DEF CompleteRoom
<1>2. /\ [room[r] EXCEPT !.status = "Completed"] \in [status : Statuses, min : 2..MaxPlayers]
      /\ [room[r] EXCEPT !.status = "Completed"].status = "Completed"
      /\ [room[r] EXCEPT !.status = "Completed"].min = room[r].min
    BY DEF TypeOK, Statuses
<1> QED
    BY <1>1, <1>2 DEF TypeOK

\* The steps of one handler.
StepOf(h) == Requests(h) \/ Continue(h) \/ Fail(h)

LEMMA TypeStep == TypeInv /\ [Next]_vars => TypeInv'
<1> SUFFICES ASSUME TypeInv, [Next]_vars PROVE TypeInv'
    OBVIOUS
<1>1. ASSUME NEW h \in Handlers, StepOf(h) PROVE TypeInv'
    BY <1>1, ReadsType, SeatWritesType, RoomWritesType, GameWritesType
       DEF StepOf, Requests, Continue, Reads
<1>2. CASE UNCHANGED vars
    BY <1>2 DEF TypeInv, TypeOK, HandlerOK, vars, tables
<1>3. ASSUME NEW r \in Rooms, CompleteRoom(r) PROVE TypeInv'
    BY <1>3, CompleteMeans DEF CompleteRoom, TypeInv, TypeOK, HandlerOK
<1> QED
    BY <1>1, <1>2, <1>3 DEF Next, StepOf

LEMMA TypeInit == Init => TypeInv
<1> SUFFICES ASSUME Init PROVE TypeInv
    OBVIOUS
<1>1. room \in [Rooms -> [status : Statuses, min : 2..MaxPlayers]]
    BY LobbyAssumption DEF Init, Statuses, QueueMin
<1>2. games \in [Rooms -> Seq(Games)]
    BY EmptySeq DEF Init
<1>3. pc \in [Handlers -> HandlerPC] /\ loc \in [Handlers -> Locals]
    BY NoLocalsTyped DEF Init, HandlerPC
<1>4. made \in 0..MaxSeats /\ IsFiniteSet(seats)
    BY LobbyAssumption, FS_EmptySet DEF Init
<1> QED
    BY <1>1, <1>2, <1>3, <1>4 DEF Init, TypeInv, TypeOK, HandlerOK

\* Theorem: the tables and the locals of every handler keep their types: no
\* handler plans a seat number beyond max_players.
THEOREM LobbyTyped == Spec => []TypeOK
<1>1. TypeInv => TypeOK
    BY DEF TypeInv
<1> QED
    BY <1>1, TypeInit, TypeStep, PTL DEF Spec

----------------------------------------------------------------------------
(* Seats                                                                   *)

\* UNIQUE(room_id, seat_number).
NumbersUnique ==
    \A s, t \in seats : s.room = t.room /\ s.number = t.number => s = t

LEMMA NumbersStep == TypeInv /\ NumbersUnique /\ [Next]_vars => NumbersUnique'
<1> SUFFICES ASSUME TypeInv, NumbersUnique, [Next]_vars PROVE NumbersUnique'
    OBVIOUS
<1>1. ASSUME NEW r, NEW a, NEW n, InsertSeat(r, a, n) PROVE NumbersUnique'
    BY <1>1 DEF NumbersUnique, InsertSeat, SeatTaken, SeatsOf
<1>2. CASE seats' \subseteq seats
    BY <1>2 DEF NumbersUnique
<1>3. ASSUME NEW h \in Handlers, StepOf(h), ~(seats' \subseteq seats)
      PROVE  \E r, a, n : InsertSeat(r, a, n)
    BY <1>3 DEF StepOf, Requests, Continue, JoinReadRoom, LeaveReadRoom,
        QueueListRooms, CreateRequest, QueueJoinRoom, JoinReadAgent,
        JoinReadSeats, JoinCheckEscrow, JoinCreateSeat, JoinCount,
        StartSetStatus, StartReadSeats, StartCreateGame, StartCreatePlayers,
        StartProgress, StartSpawn, LeaveReadSeat, LeaveDelete, QueueReadSeats,
        QueueCreateRoom, CreateCheckEscrow, CreateSeat, Fail, tables
<1>4. UNCHANGED vars \/ (\E r \in Rooms : CompleteRoom(r)) => seats' \subseteq seats
    BY DEF vars, tables, CompleteRoom
<1> QED
    BY <1>1, <1>2, <1>3, <1>4 DEF Next, StepOf

\* A room with unique numbers up to max_players is not overfull: its seats
\* are no more than their numbers.
LEMMA UniqueNotOverfull == TypeInv /\ NumbersUnique => NeverOverfull
<1> SUFFICES ASSUME TypeInv, NumbersUnique, NEW r \in Rooms
             PROVE  Cardinality(SeatsOf(r)) <= MaxPlayers
    BY DEF NeverOverfull
<1> DEFINE f == [s \in SeatsOf(r) |-> s.number]
<1>1. MaxPlayers \in Nat
    BY LobbyAssumption
<1>2. f \in Injection(SeatsOf(r), 1..MaxPlayers)
    BY DEF Injection, IsInjective, TypeInv, TypeOK, NumbersUnique, SeatsOf
<1>3. IsFiniteSet(1..MaxPlayers) /\ Cardinality(1..MaxPlayers) = MaxPlayers
    BY <1>1, FS_Interval
<1> HIDE DEF f
<1>4. Cardinality(SeatsOf(r)) <= Cardinality(1..MaxPlayers)
    BY <1>2, <1>3, FS_Injection
<1> QED
    BY <1>3, <1>4

\* Theorem: no room ever seats more than max_players agents, however many
\* join_room, join_queue and create_room requests read the same count, and
\* whoever leaves in between.
THEOREM NotOverfull == Spec => []NeverOverfull
<1>1. Init => NumbersUnique
    BY DEF Init, NumbersUnique
<1> QED
    BY <1>1, TypeInit, TypeStep, NumbersStep, UniqueNotOverfull, PTL DEF Spec

----------------------------------------------------------------------------
(* Games                                                                   *)

\* Where handler h is, for the invariants below: no other one moves.
LEMMA Others ==
    ASSUME TypeInv, NEW h \in Handlers, StepOf(h)
    PROVE  \A g \in Handlers \ {h} : pc'[g] = pc[g] /\ loc'[g] = loc[g]
    BY DEF TypeInv, TypeOK, StepOf, Requests, Continue, JoinReadRoom,
        LeaveReadRoom, QueueListRooms, CreateRequest, QueueJoinRoom,
        JoinReadAgent, JoinReadSeats, JoinCheckEscrow, JoinCreateSeat,
        JoinCount, StartSetStatus, StartReadSeats, StartCreateGame,
        StartCreatePlayers, StartProgress, StartSpawn, LeaveReadSeat, LeaveDelete,
        QueueReadSeats, QueueCreateRoom, CreateCheckEscrow, CreateSeat, Fail,
        InsertRoom, Finish, Go, Set

\* The handlers inside start_game, after its first write.
Starting == {"s_seats", "s_game", "s_players", "s_progress", "s_spawn"}
Unstarted == {"none", "Open"}

\* The second half of RoomFollowsItsGames.
ManagersServe ==
    \A game \in managers : /\ game[2] \in DOMAIN games[game[1]]
                           /\ games[game[1]][game[2]].ready

\* Only start_game takes a room out of Open, before it creates a game, and
\* nothing takes it back; it says InProgress when the game is there, and the
\* manager is spawned when it has its players.
ServedInv ==
    /\ RoomFollowsItsGames
    /\ \A h \in Handlers :
          /\ pc[h] \in Starting => room[loc[h].room].status \notin Unstarted
          /\ pc[h] \in {"s_progress", "s_spawn"} => games[loc[h].room][loc[h].seat].ready

\* A game that is ready stays so.
ReadyStays ==
    \A r \in Rooms : \A i \in DOMAIN games[r] :
        /\ i \in DOMAIN games'[r]
        /\ games[r][i].ready => games'[r][i].ready

\* A game that is served stays ready.
LEMMA ServingStays ==
    ASSUME TypeOK, ManagersServe, ReadyStays, UNCHANGED managers
    PROVE  ManagersServe'
<1>1. \A game \in managers : game[1] \in Rooms
    BY DEF TypeOK
<1> QED
    BY <1>1 DEF ManagersServe, ReadyStays

\* The handlers' part, if no room goes back and no ready game is undone.
LEMMA ServedHandlers ==
    ASSUME TypeInv, ServedInv, NEW h \in Handlers, StepOf(h), ReadyStays,
           \A r \in Rooms : room'[r].status \in Unstarted
                              => room[r].status \in Unstarted,
           pc'[h] \in Starting => room'[loc'[h].room].status \notin Unstarted,
           pc'[h] \in {"s_progress", "s_spawn"} => games'[loc'[h].room][loc'[h].seat].ready
    PROVE  \A g \in Handlers :
              /\ pc'[g] \in Starting
                    => room'[loc'[g].room].status \notin Unstarted
              /\ pc'[g] \in {"s_progress", "s_spawn"}
                    => games'[loc'[g].room][loc'[g].seat].ready
<1> SUFFICES ASSUME NEW g \in Handlers \ {h}
             PROVE  /\ pc'[g] \in Starting
                          => room'[loc'[g].room].status \notin Unstarted
                    /\ pc'[g] \in {"s_progress", "s_spawn"}
                          => games'[loc'[g].room][loc'[g].seat].ready
    OBVIOUS
<1>1. pc'[g] = pc[g] /\ loc'[g] = loc[g]
    BY Others
<1>2. loc[g].room \in Rooms
    BY DEF TypeInv, TypeOK, Locals
<1>3. pc[g] \in {"s_progress", "s_spawn"} => loc[g].seat \in DOMAIN games[loc[g].room]
    BY DEF TypeInv, HandlerOK
<1> QED
    BY <1>1, <1>2, <1>3 DEF ServedInv, ReadyStays

\* A step that touches neither rooms, games nor managers.
LEMMA ServedFrame ==
    ASSUME TypeInv, ServedInv, NEW h \in Handlers, StepOf(h),
           UNCHANGED <<room, games, managers>>,
           \/ pc'[h] \notin Starting
           \/ pc[h] \in Starting /\ loc'[h].room = loc[h].room,
           pc'[h] \notin {"s_progress", "s_spawn"}
    PROVE  ServedInv'
<1>1. ReadyStays
    BY DEF ReadyStays
<1>2. \A g \in Handlers :
              /\ pc'[g] \in Starting
                    => room'[loc'[g].room].status \notin Unstarted
              /\ pc'[g] \in {"s_progress", "s_spawn"}
                    => games'[loc'[g].room][loc'[g].seat].ready
    BY <1>1, ServedHandlers DEF ServedInv
<1>3. RoomFollowsItsGames'
    BY DEF ServedInv, RoomFollowsItsGames
<1> QED
    BY <1>2, <1>3 DEF ServedInv

\* Every step but those that write rooms, games or managers is such a step.
LEMMA ServedOther ==
    ASSUME TypeInv, ServedInv, NEW h \in Handlers, StepOf(h),
           ~StartSetStatus(h), ~StartCreateGame(h), ~StartCreatePlayers(h),
           ~StartProgress(h), ~StartSpawn(h), ~QueueCreateRoom(h),
           \A a \in Agents : ~CreateRequest(h, a)
    PROVE  ServedInv'
<1>0. pc \in [Handlers -> HandlerPC] /\ loc \in [Handlers -> Locals]
    BY DEF TypeInv, TypeOK
<1>1. UNCHANGED <<room, games, managers>>
    BY DEF StepOf, Requests, Continue, JoinReadRoom, LeaveReadRoom,
        QueueListRooms, QueueJoinRoom, JoinReadAgent, JoinReadSeats,
        JoinCheckEscrow, JoinCreateSeat, JoinCount, StartReadSeats,
        LeaveReadSeat, LeaveDelete, QueueReadSeats, CreateCheckEscrow,
        CreateSeat, Fail, tables
<1>2. CASE StartReadSeats(h)
    <2>1. /\ pc[h] \in Starting /\ pc'[h] = "s_game"
          /\ loc'[h].room = loc[h].room
        BY <1>0, <1>2 DEF StartReadSeats, Go, Set, Starting, Locals
    <2> QED
        BY <1>1, <2>1, ServedFrame
<1>3. CASE ~StartReadSeats(h)
    <2>1. pc'[h] \notin Starting
        BY <1>0, <1>3 DEF StepOf, Requests, Continue, JoinReadRoom,
            LeaveReadRoom, QueueListRooms, QueueJoinRoom, JoinReadAgent,
            JoinReadSeats, JoinCheckEscrow, JoinCreateSeat, JoinCount,
            LeaveReadSeat, LeaveDelete, QueueReadSeats, CreateCheckEscrow,
            CreateSeat, Fail, Finish, Go, Starting
    <2> QED
        BY <1>1, <2>1, ServedFrame DEF Starting
<1> QED
    BY <1>2, <1>3

LEMMA ServedStep == TypeInv /\ ServedInv /\ [Next]_vars => ServedInv'
<1> SUFFICES ASSUME TypeInv, ServedInv, [Next]_vars PROVE ServedInv'
    OBVIOUS
<1>0. /\ pc \in [Handlers -> HandlerPC] /\ loc \in [Handlers -> Locals]
      /\ room \in [Rooms -> [status : Statuses, min : 2..MaxPlayers]]
      /\ games \in [Rooms -> Seq(Games)] /\ managers \subseteq Rooms \X Nat
      /\ ManagersServe
      /\ \A h \in Handlers : loc[h].room \in Rooms
    BY DEF TypeInv, TypeOK, Locals, ServedInv, RoomFollowsItsGames, ManagersServe
\* What is left to show of a step of h that writes a room or a game.
<1>1. ASSUME NEW h \in Handlers, StepOf(h), ReadyStays,
             \A r \in Rooms : room'[r].status \in Unstarted
                                => room[r].status \in Unstarted,
             pc'[h] \in Starting
                => room'[loc'[h].room].status \notin Unstarted,
             pc'[h] \in {"s_progress", "s_spawn"}
                => games'[loc'[h].room][loc'[h].seat].ready,
             RoomFollowsItsGames'
      PROVE  ServedInv'
    BY <1>1, ServedHandlers DEF ServedInv
<1>2. ASSUME NEW h \in Handlers, StartSetStatus(h) PROVE ServedInv'
    <2> DEFINE R == loc[h].room
    <2>1. /\ room'[R].status = "Starting"
          /\ \A r \in Rooms \ {R} : room'[r] = room[r]
          /\ UNCHANGED <<games, managers>>
          /\ pc'[h] = "s_seats" /\ loc'[h].room = R
        BY <1>0, <1>2 DEF StartSetStatus, Go
    <2>2. RoomFollowsItsGames'
        BY <1>0, <2>1 DEF ServedInv, RoomFollowsItsGames
    <2>3. StepOf(h)
        BY <1>2 DEF StepOf, Continue
    <2> QED
        BY <1>0, <1>1, <2>1, <2>2, <2>3 DEF ReadyStays, Unstarted
<1>3. ASSUME NEW h \in Handlers, StartProgress(h) PROVE ServedInv'
    <2> DEFINE R == loc[h].room
    <2>1. /\ room'[R].status = "InProgress"
          /\ \A r \in Rooms \ {R} : room'[r] = room[r]
          /\ UNCHANGED <<games, managers, loc>>
          /\ pc[h] = "s_progress" /\ pc'[h] = "s_spawn"
        BY <1>0, <1>3 DEF StartProgress, Go
    <2>2. loc[h].seat \in DOMAIN games[R] /\ games[R][loc[h].seat].ready
        BY <2>1 DEF TypeInv, HandlerOK, ServedInv
    <2>3. RoomFollowsItsGames'
        BY <1>0, <2>1, <2>2 DEF ServedInv, RoomFollowsItsGames
    <2>4. StepOf(h)
        BY <1>3 DEF StepOf, Continue
    <2> QED
        BY <1>0, <1>1, <2>1, <2>2, <2>3, <2>4 DEF ReadyStays, Unstarted, Starting
<1>9. ASSUME NEW h \in Handlers, StartSpawn(h) PROVE ServedInv'
    <2> DEFINE game == <<loc[h].room, loc[h].seat>>
    <2>1. /\ managers' = managers \cup {game}
          /\ UNCHANGED <<room, games>>
          /\ pc[h] = "s_spawn" /\ pc'[h] = "idle"
        BY <1>0, <1>9 DEF StartSpawn, Finish, Go
    <2>2. game[2] \in DOMAIN games[game[1]] /\ games[game[1]][game[2]].ready
        BY <2>1 DEF TypeInv, HandlerOK, ServedInv
    <2> HIDE DEF game
    <2>3. RoomFollowsItsGames'
        BY <2>1, <2>2 DEF ServedInv, RoomFollowsItsGames
    <2>4. StepOf(h)
        BY <1>9 DEF StepOf, Continue
    <2> QED
        BY <1>1, <2>1, <2>3, <2>4 DEF ReadyStays, Starting
<1>4. ASSUME NEW h \in Handlers, StartCreateGame(h) PROVE ServedInv'
    <2> DEFINE R == loc[h].room
               g == [players |-> loc[h].players, ready |-> FALSE]
    <2>1. StepOf(h)
        BY <1>4 DEF StepOf, Continue
    <2>2. CASE loc[h].players = {}
        BY <1>0, <1>4, <2>1, <2>2, ServedFrame
           DEF StartCreateGame, Finish, Go, Starting
    <2>3. CASE loc[h].players # {}
        <3>1. /\ games' = [games EXCEPT ![R] = Append(@, g)]
              /\ pc[h] = "s_game" /\ pc'[h] = "s_players"
              /\ loc'[h].room = R /\ UNCHANGED <<room, managers>>
            <4>1. /\ games' = [games EXCEPT ![R] = Append(@, g)]
                  /\ pc[h] = "s_game" /\ Go(h, "s_players")
                  /\ Set(h, [loc[h] EXCEPT !.players = {},
                                           !.seat = Len(games[R]) + 1])
                  /\ UNCHANGED <<room, managers>>
                BY <1>4, <2>3 DEF StartCreateGame
            <4>2. loc'[h].room = R
                BY <1>0, <4>1 DEF Set, Locals
            <4>3. pc'[h] = "s_players"
                BY <1>0, <4>1 DEF Go
            <4> QED
                BY <4>1, <4>2, <4>3
        <3>2. g \in Games
            BY <1>0 DEF Games, Locals
        <3> HIDE DEF g
        <3>3. /\ Append(games[R], g) \in Seq(Games)
              /\ Len(Append(games[R], g)) = Len(games[R]) + 1
              /\ \A i \in 1..Len(games[R]) :
                    Append(games[R], g)[i] = games[R][i]
              /\ DOMAIN games[R] = 1..Len(games[R]) /\ Len(games[R]) \in Nat
            BY <1>0, <3>2, AppendProperties, LenProperties
        <3>4. DOMAIN Append(games[R], g) = 1..(Len(games[R]) + 1)
            BY <3>3, LenProperties
        <3>5. /\ games'[R] = Append(games[R], g)
              /\ \A r \in Rooms \ {R} : games'[r] = games[r]
            BY <1>0, <3>1
        <3>6. /\ DOMAIN games[R] \subseteq DOMAIN games'[R]
              /\ \A i \in DOMAIN games[R] : games'[R][i] = games[R][i]
            BY <3>3, <3>4, <3>5
        <3>7. ReadyStays
            BY <3>5, <3>6 DEF ReadyStays
        <3>8. room[R].status \notin Unstarted
            BY <3>1 DEF ServedInv, Starting
        <3>9. RoomFollowsItsGames'
            <4>0. ManagersServe'
                BY <1>0, <3>1, <3>7, ServingStays DEF TypeInv
            <4> SUFFICES ASSUME NEW r \in Rooms
                         PROVE  /\ room[r].status \in {"InProgress", "Completed"} =>
                                      \E i \in DOMAIN games'[r] :
                                            games'[r][i].ready
                                /\ room[r].status \in Unstarted =>
                                      games'[r] = <<>>
                BY <3>1, <4>0 DEF RoomFollowsItsGames, ManagersServe, Unstarted
            <4>1. CASE r = R
                BY <3>6, <3>8, <4>1 DEF ServedInv, RoomFollowsItsGames
            <4>2. CASE r # R
                BY <3>5, <4>2 DEF ServedInv, RoomFollowsItsGames, Unstarted
            <4> QED
                BY <4>1, <4>2
        <3> QED
            BY <1>1, <2>1, <3>1, <3>7, <3>8, <3>9
    <2> QED
        BY <2>2, <2>3
<1>5. ASSUME NEW h \in Handlers, StartCreatePlayers(h) PROVE ServedInv'
    <2> DEFINE R == loc[h].room
               i == loc[h].seat
    <2>1. /\ games' = [games EXCEPT ![R][i].ready = TRUE]
          /\ pc[h] = "s_players" /\ pc'[h] = "s_progress"
          /\ UNCHANGED <<room, managers, loc>>
        BY <1>0, <1>5 DEF StartCreatePlayers, Go
    <2>2. i \in DOMAIN games[R] /\ DOMAIN games[R] = 1..Len(games[R])
        BY <1>0, <2>1, LenProperties DEF TypeInv, HandlerOK
    <2>3. games[R][i] \in Games
        BY <1>0, <2>2, ElementOfSeq
    <2>4. /\ \A r \in Rooms \ {R} : games'[r] = games[r]
          /\ DOMAIN games'[R] = DOMAIN games[R]
          /\ \A j \in DOMAIN games[R] \ {i} : games'[R][j] = games[R][j]
          /\ games'[R][i].ready
        BY <1>0, <2>1, <2>2, <2>3 DEF Games
    <2>5. ReadyStays
        BY <2>4 DEF ReadyStays
    <2>6. room[R].status \notin Unstarted
        BY <2>1 DEF ServedInv, Starting
    <2>7. RoomFollowsItsGames'
        <3>1. ManagersServe'
            BY <1>0, <2>1, <2>5, ServingStays DEF TypeInv
        <3> QED
            BY <1>0, <2>1, <2>4, <2>5, <2>6, <3>1
               DEF ServedInv, RoomFollowsItsGames, ManagersServe, Unstarted, ReadyStays
    <2>8. StepOf(h)
        BY <1>5 DEF StepOf, Continue
    <2> QED
        BY <1>1, <2>1, <2>4, <2>5, <2>6, <2>7, <2>8
<1>6. ASSUME NEW h \in Handlers, NEW l, NEW min, InsertRoom(h, l, min),
             Go(h, "c_escrow"), UNCHANGED <<games, managers>>, StepOf(h)
      PROVE  ServedInv'
    <2>1. PICK r \in Rooms :
             /\ room[r].status = "none"
             /\ room' = [room EXCEPT ![r] = [status |-> "Open", min |-> min]]
        BY <1>6 DEF InsertRoom
    <2>2. /\ room'[r].status = "Open"
          /\ \A q \in Rooms \ {r} : room'[q] = room[q]
        BY <1>0, <2>1
    <2>3. RoomFollowsItsGames'
        BY <1>6, <2>1, <2>2 DEF ServedInv, RoomFollowsItsGames
    <2>4. pc'[h] \notin Starting
        BY <1>0, <1>6 DEF Go, Starting
    <2> QED
        BY <1>1, <1>6, <2>1, <2>2, <2>3, <2>4
           DEF ReadyStays, Unstarted, Starting
<1>7. ASSUME NEW h \in Handlers,
             QueueCreateRoom(h) \/ \E a \in Agents : CreateRequest(h, a)
      PROVE  ServedInv'
    BY <1>6, <1>7 DEF QueueCreateRoom, CreateRequest, StepOf, Requests,
                      Continue
<1>8. CASE UNCHANGED vars
    BY <1>8 DEF ServedInv, RoomFollowsItsGames, vars, tables
<1>10. ASSUME NEW r \in Rooms, CompleteRoom(r) PROVE ServedInv'
    <2>1. /\ room'[r].status = "Completed"
          /\ \A q \in Rooms \ {r} : room'[q] = room[q]
          /\ UNCHANGED <<games, managers, pc, loc>>
        BY <1>10, CompleteMeans DEF CompleteRoom, TypeInv
    <2>2. \E i \in DOMAIN games[r] : games[r][i].ready
        BY <1>0, <1>10 DEF CompleteRoom, ManagersServe
    <2>3. RoomFollowsItsGames'
        BY <2>1, <2>2 DEF ServedInv, RoomFollowsItsGames
    <2>4. \A h \in Handlers : pc'[h] \in Starting => room'[loc'[h].room].status \notin Unstarted
        BY <1>0, <2>1 DEF ServedInv, Unstarted
    <2> QED
        BY <2>1, <2>3, <2>4 DEF ServedInv
<1> QED
    BY <1>2, <1>3, <1>4, <1>5, <1>7, <1>8, <1>9, <1>10, ServedOther DEF Next, StepOf

\* Theorem: a room that was InProgress or Completed has a game with its player
\* rows, an Open one has no game, and only a game with its player rows has a turn
\* manager, however many start_game and complete_game run in the room at once
\* and wherever one of them stops.
THEOREM RoomFollows == Spec => []RoomFollowsItsGames
<1>1. Init => ServedInv
    BY LobbyAssumption
       DEF Init, ServedInv, RoomFollowsItsGames, Starting
<1>2. ServedInv => RoomFollowsItsGames
    BY DEF ServedInv
<1> QED
    BY <1>1, <1>2, TypeInit, TypeStep, ServedStep, PTL DEF Spec

----------------------------------------------------------------------------
(* Deposits                                                                *)

\* Who is seated, about to be seated, or read as a player by start_game was
\* vouched for in that room.
HandlerVouched(h) ==
    /\ pc[h] \in {"j_create", "c_seat"} =>
          <<loc[h].room, loc[h].agent>> \in verified
    /\ pc[h] = "s_game" =>
          \A p \in loc[h].players : <<loc[h].room, p.agent>> \in verified

DepositInv ==
    /\ PlayersHaveDeposited
    /\ \A s \in seats : <<s.room, s.agent>> \in verified
    /\ \A h \in Handlers : HandlerVouched(h)

\* The contract's answers are not taken back, and seats are only deleted but
\* by create_seat.
LEMMA VerifiedGrows ==
    ASSUME NEW h \in Handlers, StepOf(h)
    PROVE  /\ verified \subseteq verified'
           /\ \/ seats' \subseteq seats
              \/ JoinCreateSeat(h) \/ CreateSeat(h)
           /\ UNCHANGED games \/ StartCreateGame(h) \/ StartCreatePlayers(h)
    BY DEF StepOf, Requests, Continue, JoinReadRoom,
        LeaveReadRoom, QueueListRooms, CreateRequest, QueueJoinRoom,
        JoinReadAgent, JoinReadSeats, JoinCheckEscrow, JoinCreateSeat,
        JoinCount, StartSetStatus, StartReadSeats, StartCreateGame,
        StartCreatePlayers, StartProgress, StartSpawn, LeaveReadSeat, LeaveDelete,
        QueueReadSeats, QueueCreateRoom, CreateCheckEscrow, CreateSeat, Fail,
        Vouch, tables

LEMMA DepositHandlers ==
    ASSUME TypeInv, DepositInv, NEW h \in Handlers, StepOf(h)
    PROVE  \A g \in Handlers : HandlerVouched(g)'
<1>0. /\ pc \in [Handlers -> HandlerPC] /\ loc \in [Handlers -> Locals]
      /\ verified \subseteq verified'
    BY VerifiedGrows DEF TypeInv, TypeOK
<1>1. ASSUME NEW g \in Handlers \ {h} PROVE HandlerVouched(g)'
    BY <1>0, Others DEF DepositInv, HandlerVouched
<1>2. HandlerVouched(h)'
    <2>1. CASE JoinCheckEscrow(h) \/ CreateCheckEscrow(h)
        BY <1>0, <2>1 DEF HandlerVouched, JoinCheckEscrow, CreateCheckEscrow,
                          Vouch, Finish, Go
    <2>2. CASE StartReadSeats(h)
        <3> DEFINE ps == {[agent |-> s.agent, number |-> s.number] :
                             s \in SeatsOf(loc[h].room)}
        <3>1. \A p \in ps : <<loc[h].room, p.agent>> \in verified
            BY DEF DepositInv, SeatsOf
        <3> HIDE DEF ps
        <3>2. /\ loc'[h] = [loc[h] EXCEPT !.players = ps]
              /\ pc'[h] = "s_game" /\ UNCHANGED verified
            BY <1>0, <2>2 DEF StartReadSeats, Go, Set, tables, ps
        <3>3. loc'[h].room = loc[h].room /\ loc'[h].players = ps
            BY <1>0, <3>2 DEF Locals
        <3> QED
            BY <3>1, <3>2, <3>3 DEF HandlerVouched
    <2>3. CASE ~JoinCheckEscrow(h) /\ ~CreateCheckEscrow(h)
               /\ ~StartReadSeats(h)
        <3>1. pc'[h] \notin {"j_create", "c_seat", "s_game"}
            BY <1>0, <2>3 DEF StepOf, Requests, Continue, JoinReadRoom,
        LeaveReadRoom, QueueListRooms, CreateRequest, QueueJoinRoom,
        JoinReadAgent, JoinReadSeats, JoinCheckEscrow, JoinCreateSeat,
        JoinCount, StartSetStatus, StartReadSeats, StartCreateGame,
        StartCreatePlayers, StartProgress, StartSpawn, LeaveReadSeat, LeaveDelete,
        QueueReadSeats, QueueCreateRoom, CreateCheckEscrow, CreateSeat, Fail,
        Finish, Go
        <3> QED
            BY <3>1 DEF HandlerVouched
    <2> QED
        BY <2>1, <2>2, <2>3
<1> QED
    BY <1>1, <1>2

LEMMA DepositStep == TypeInv /\ DepositInv /\ [Next]_vars => DepositInv'
<1> SUFFICES ASSUME TypeInv, DepositInv, [Next]_vars PROVE DepositInv'
    OBVIOUS
<1>0. /\ loc \in [Handlers -> Locals] /\ games \in [Rooms -> Seq(Games)]
      /\ \A h \in Handlers : loc[h].room \in Rooms
    BY DEF TypeInv, TypeOK, Locals
<1>1. ASSUME NEW h \in Handlers, StepOf(h) PROVE DepositInv'
    <2>1. verified \subseteq verified'
        BY <1>1, VerifiedGrows
    <2>2. \A g \in Handlers : HandlerVouched(g)'
        BY <1>1, DepositHandlers
    <2>3. \A s \in seats' : <<s.room, s.agent>> \in verified'
        <3>1. CASE seats' \subseteq seats
            BY <2>1, <3>1 DEF DepositInv
        <3>2. CASE JoinCreateSeat(h) \/ CreateSeat(h)
            <4>1. \/ seats' \subseteq seats
                  \/ \E n : InsertSeat(loc[h].room, loc[h].agent, n)
                BY <3>2 DEF JoinCreateSeat, CreateSeat
            <4>2. <<loc[h].room, loc[h].agent>> \in verified
                BY <3>2 DEF JoinCreateSeat, CreateSeat, DepositInv,
                            HandlerVouched
            <4>3. ASSUME NEW n, InsertSeat(loc[h].room, loc[h].agent, n),
                         NEW s \in seats', s \notin seats
                  PROVE  s.room = loc[h].room /\ s.agent = loc[h].agent
                BY <4>3 DEF InsertSeat
            <4> QED
                BY <2>1, <3>1, <4>1, <4>2, <4>3 DEF DepositInv
        <3> QED
            BY <1>1, <3>1, <3>2, VerifiedGrows
    <2>4. PlayersHaveDeposited'
        <3>1. CASE UNCHANGED games
            BY <2>1, <3>1 DEF DepositInv, PlayersHaveDeposited
        <3>2. CASE StartCreateGame(h) /\ ~UNCHANGED games
            <4> DEFINE R == loc[h].room
                       g == [players |-> loc[h].players, ready |-> FALSE]
            <4>1. /\ games' = [games EXCEPT ![R] = Append(@, g)]
                  /\ pc[h] = "s_game"
                BY <3>2 DEF StartCreateGame
            <4>2. g \in Games /\ g.players = loc[h].players
                BY <1>0 DEF Games, Locals
            <4>3. \A p \in g.players : <<R, p.agent>> \in verified
                BY <4>1, <4>2 DEF DepositInv, HandlerVouched
            <4> HIDE DEF g
            <4>4. /\ Append(games[R], g) \in Seq(Games)
                  /\ Len(Append(games[R], g)) = Len(games[R]) + 1
                  /\ \A i \in 1..Len(games[R]) :
                        Append(games[R], g)[i] = games[R][i]
                  /\ Append(games[R], g)[Len(games[R]) + 1] = g
                  /\ DOMAIN games[R] = 1..Len(games[R])
                  /\ Len(games[R]) \in Nat
                BY <1>0, <4>2, AppendProperties, LenProperties
            <4>5. DOMAIN Append(games[R], g) = 1..(Len(games[R]) + 1)
                BY <4>4, LenProperties
            <4>6. /\ games'[R] = Append(games[R], g)
                  /\ \A r \in Rooms \ {R} : games'[r] = games[r]
                BY <1>0, <4>1
            <4>7. \A i \in DOMAIN games'[R] :
                    games'[R][i] = g \/ (/\ i \in DOMAIN games[R]
                                         /\ games'[R][i] = games[R][i])
                BY <4>4, <4>5, <4>6
            <4>8. ASSUME NEW i \in DOMAIN games'[R],
                         NEW p \in games'[R][i].players
                  PROVE  <<R, p.agent>> \in verified'
                BY <1>0, <2>1, <4>3, <4>7, <4>8
                   DEF DepositInv, PlayersHaveDeposited
            <4> QED
                BY <2>1, <4>6, <4>8 DEF DepositInv, PlayersHaveDeposited
        <3>3. CASE StartCreatePlayers(h)
            <4> DEFINE R == loc[h].room
                       j == loc[h].seat
            <4>1. games' = [games EXCEPT ![R][j].ready = TRUE]
                BY <3>3 DEF StartCreatePlayers
            <4>2. /\ j \in DOMAIN games[R]
                  /\ DOMAIN games[R] = 1..Len(games[R])
                BY <1>0, <3>3, LenProperties
                   DEF StartCreatePlayers, TypeInv, HandlerOK
            <4>3. games[R][j] \in Games
                BY <1>0, <4>2, ElementOfSeq
            <4>4. /\ \A r \in Rooms \ {R} : games'[r] = games[r]
                  /\ DOMAIN games'[R] = DOMAIN games[R]
                  /\ \A i \in DOMAIN games[R] :
                        games'[R][i].players = games[R][i].players
                BY <1>0, <4>1, <4>2, <4>3 DEF Games
            <4> QED
                BY <1>0, <2>1, <4>4 DEF DepositInv, PlayersHaveDeposited
        <3> QED
            BY <1>1, <3>1, <3>2, <3>3, VerifiedGrows
    <2> QED
        BY <2>2, <2>3, <2>4 DEF DepositInv
<1>2. CASE UNCHANGED vars
    BY <1>2 DEF DepositInv, PlayersHaveDeposited, HandlerVouched, vars, tables
<1>3. ASSUME NEW r \in Rooms, CompleteRoom(r) PROVE DepositInv'
    BY <1>3 DEF CompleteRoom, DepositInv, PlayersHaveDeposited, HandlerVouched
<1> QED
    BY <1>1, <1>2, <1>3 DEF Next, StepOf

\* Theorem: nobody plays on credit: whoever is a player of a game had a
\* deposit confirmed for that room, even if the seats changed hands between
\* the count of join_room and the read of start_game.
THEOREM Deposited == Spec => []PlayersHaveDeposited
<1>1. Init => DepositInv
    BY DEF Init, DepositInv, PlayersHaveDeposited, HandlerVouched
<1>2. DepositInv => PlayersHaveDeposited
    BY DEF DepositInv
<1> QED
    BY <1>1, <1>2, TypeInit, TypeStep, DepositStep, PTL DEF Spec

----------------------------------------------------------------------------
(* Seat numbers                                                            *)

\* The handlers whose room was Open when they read it.
Joining == {"j_agent", "j_seats", "j_escrow", "j_create", "j_count", "s_status"} \union Starting

\* The players are numbered from 1 on, and enough of them.
Full(players, min) == Dense(players) /\ Cardinality(players) >= min

\* A planned number is not beyond the next one; a count that was enough still is.
HandlerDense(h) ==
    /\ pc[h] \in {"j_escrow", "j_create"} =>
          loc[h].number <= Cardinality(SeatsOf(loc[h].room)) + 1
    /\ pc[h] \in {"s_status", "s_seats"} =>
          Cardinality(SeatsOf(loc[h].room)) >= room[loc[h].room].min
    /\ pc[h] = "s_game" => Full(loc[h].players, room[loc[h].room].min)

AllDense ==
    /\ \A r \in Rooms : /\ Dense(SeatsOf(r))
                        /\ \A i \in DOMAIN games[r] : Full(games[r][i].players, room[r].min)
    /\ \A h \in Handlers : HandlerDense(h)

DenseInv ==
    /\ Cardinality(seats) <= made
    /\ \A h \in Handlers : pc[h] \in Joining => room[loc[h].room].status # "none"
    /\ NobodyHasLeft => AllDense

\* A room that is there stays there with its min_players.
RoomStays ==
    \A r \in Rooms : room[r].status # "none" =>
        room'[r].status # "none" /\ room'[r].min = room[r].min

LEMMA RoomsStay == ASSUME TypeInv, NEW h \in Handlers, StepOf(h) PROVE RoomStays
<1>0. /\ room \in [Rooms -> [status : Statuses, min : 2..MaxPlayers]]
      /\ loc[h].room \in Rooms
    BY DEF TypeInv, TypeOK, Locals
<1>1. CASE UNCHANGED room
    BY <1>1 DEF RoomStays
<1>2. CASE StartSetStatus(h) \/ StartProgress(h)
    <2>1. PICK st \in {"Starting", "InProgress"} :
             room' = [room EXCEPT ![loc[h].room].status = st]
        BY <1>2 DEF StartSetStatus, StartProgress
    <2>2. \A r \in Rooms : room'[r] = IF r = loc[h].room THEN [room[r] EXCEPT !.status = st] ELSE room[r]
        BY <1>0, <2>1
    <2>3. \A r \in Rooms : room[r] \in [status : Statuses, min : 2..MaxPlayers]
        BY <1>0
    <2>4. \A r \in Rooms : /\ [room[r] EXCEPT !.status = st].status = st
                           /\ [room[r] EXCEPT !.status = st].min = room[r].min
        BY <2>3
    <2> QED
        BY <2>2, <2>4 DEF RoomStays
<1>3. ASSUME NEW l, NEW min, InsertRoom(h, l, min) PROVE RoomStays
    BY <1>0, <1>3 DEF InsertRoom, RoomStays
<1> QED
    BY <1>1, <1>2, <1>3 DEF StepOf, Requests, Continue, JoinReadRoom,
        LeaveReadRoom, QueueListRooms, CreateRequest, QueueJoinRoom,
        JoinReadAgent, JoinReadSeats, JoinCheckEscrow, JoinCreateSeat,
        JoinCount, StartSpawn, StartReadSeats, StartCreateGame,
        StartCreatePlayers, LeaveReadSeat, LeaveDelete,
        QueueReadSeats, QueueCreateRoom, CreateCheckEscrow, CreateSeat, Fail,
        tables

\* Who joins has seen the room.
LEMMA JoinersStay ==
    ASSUME TypeInv, DenseInv, NEW h \in Handlers, StepOf(h)
    PROVE  \A g \in Handlers : pc'[g] \in Joining => room'[loc'[g].room].status # "none"
<1>0. /\ pc \in [Handlers -> HandlerPC] /\ loc \in [Handlers -> Locals]
      /\ \A g \in Handlers : loc[g].room \in Rooms
    BY DEF TypeInv, TypeOK, Locals
<1>1. RoomStays
    BY RoomsStay
<1>2. ASSUME NEW g \in Handlers \ {h} PROVE pc'[g] \in Joining => room'[loc'[g].room].status # "none"
    BY <1>0, <1>1, Others DEF DenseInv, RoomStays
<1>3. \/ pc'[h] \notin Joining
      \/ loc'[h].room = loc[h].room /\ room[loc[h].room].status # "none"
      \/ loc'[h].room \in Rooms /\ room[loc'[h].room].status # "none"
    <2>1. ASSUME NEW a \in Agents, NEW r \in Rooms, JoinReadRoom(h, a, r)
          PROVE  loc'[h].room \in Rooms /\ room[loc'[h].room].status # "none"
        <3>1. loc'[h] = [Request(a) EXCEPT !.room = r]
            BY <1>0, <2>1 DEF JoinReadRoom, Set
        <3>2. loc'[h].room = r
            BY <3>1 DEF Request, NoLocals
        <3> QED
            BY <2>1, <3>2 DEF JoinReadRoom
    <2>2. CASE QueueJoinRoom(h)
        BY <1>0, <2>2 DEF QueueJoinRoom, Finish, Go, Joining, Starting
    <2>3. CASE pc[h] \in Joining
        <3>1. room[loc[h].room].status # "none"
            BY <2>3 DEF DenseInv
        <3>2. CASE pc[h] \in {"j_agent", "j_count", "s_status", "s_players", "s_progress", "s_spawn", "j_escrow"}
            BY <1>0, <3>1, <3>2 DEF StepOf, Requests, Continue, JoinReadRoom,
                LeaveReadRoom, QueueListRooms, CreateRequest, QueueJoinRoom,
                JoinReadAgent, JoinReadSeats, JoinCheckEscrow, JoinCreateSeat,
                JoinCount, StartSetStatus, StartReadSeats, StartCreateGame,
                StartCreatePlayers, StartProgress, StartSpawn, LeaveReadSeat, LeaveDelete,
                QueueReadSeats, QueueCreateRoom, CreateCheckEscrow, CreateSeat, Fail,
                Finish, Go, Joining, Starting
        <3>3. CASE pc[h] \in {"j_seats", "j_create", "s_seats", "s_game"}
            <4>1. \/ JoinReadSeats(h) \/ JoinCreateSeat(h) \/ StartReadSeats(h) \/ StartCreateGame(h)
                  \/ Fail(h)
                BY <3>3 DEF StepOf, Requests, Continue, JoinReadRoom,
                    LeaveReadRoom, QueueListRooms, CreateRequest, QueueJoinRoom,
                    JoinReadAgent, JoinCheckEscrow,
                    JoinCount, StartSetStatus,
                    StartCreatePlayers, StartProgress, StartSpawn, LeaveReadSeat, LeaveDelete,
                    QueueReadSeats, QueueCreateRoom, CreateCheckEscrow, CreateSeat
            <4>2. Finish(h) => pc'[h] \notin Joining
                BY <1>0 DEF Finish, Go, Joining, Starting
            <4>3. Finish(h) \/ loc'[h].room = loc[h].room
                <5> DEFINE n == Cardinality(SeatsOf(loc[h].room)) + 1
                           ps == {[agent |-> s.agent, number |-> s.number] :
                                     s \in SeatsOf(loc[h].room)}
                           i == Len(games[loc[h].room]) + 1
                <5>0. loc[h] \in Locals
                    BY <1>0
                <5>1. CASE JoinReadSeats(h) /\ ~Finish(h)
                    <6>1. loc'[h] = [loc[h] EXCEPT !.number = n]
                        BY <1>0, <5>1 DEF JoinReadSeats, Set
                    <6> HIDE DEF n
                    <6> QED
                        BY <5>0, <6>1 DEF Locals
                <5>2. CASE JoinCreateSeat(h) /\ ~Finish(h)
                    BY <1>0, <5>2 DEF JoinCreateSeat, Set, Locals
                <5>3. CASE StartReadSeats(h)
                    <6>1. loc'[h] = [loc[h] EXCEPT !.players = ps]
                        BY <1>0, <5>3 DEF StartReadSeats, Set
                    <6> HIDE DEF ps
                    <6> QED
                        BY <5>0, <6>1 DEF Locals
                <5>4. CASE StartCreateGame(h) /\ ~Finish(h)
                    <6>1. Set(h, [loc[h] EXCEPT !.players = {}, !.seat = i])
                        BY <5>4 DEF StartCreateGame
                    <6> HIDE DEF i
                    <6>2. loc'[h] = [loc[h] EXCEPT !.players = {}, !.seat = i]
                        BY <1>0, <6>1 DEF Set
                    <6> QED
                        BY <5>0, <6>2 DEF Locals
                <5> QED
                    BY <4>1, <5>1, <5>2, <5>3, <5>4 DEF Fail
            <4> QED
                BY <3>1, <4>2, <4>3
        <3> QED
            BY <2>3, <3>2, <3>3 DEF Joining, Starting
    <2>4. CASE pc[h] \notin Joining /\ ~QueueJoinRoom(h)
               /\ \A a \in Agents, r \in Rooms : ~JoinReadRoom(h, a, r)
        <3>1. pc'[h] \notin Joining
            BY <1>0, <2>4 DEF StepOf, Requests, Continue, JoinReadRoom,
                LeaveReadRoom, QueueListRooms, CreateRequest, QueueJoinRoom,
                JoinReadAgent, JoinReadSeats, JoinCheckEscrow, JoinCreateSeat,
                JoinCount, StartSetStatus, StartReadSeats, StartCreateGame,
                StartCreatePlayers, StartProgress, StartSpawn, LeaveReadSeat, LeaveDelete,
                QueueReadSeats, QueueCreateRoom, CreateCheckEscrow, CreateSeat, Fail,
                Finish, Go, Joining, Starting
        <3> QED
            BY <3>1
    <2> QED
        BY <2>1, <2>2, <2>3, <2>4
<1> QED
    BY <1>0, <1>1, <1>2, <1>3 DEF RoomStays

\* The other handlers' counts, when no room has fewer seats than before.
LEMMA OthersDense ==
    ASSUME TypeInv, DenseInv, AllDense, NEW h \in Handlers, StepOf(h), IsFiniteSet(seats'),
           \A r \in Rooms : Cardinality(SeatsOf(r)) <= Cardinality(SeatsOf(r)')
    PROVE  \A g \in Handlers \ {h} : HandlerDense(g)'
<1> SUFFICES ASSUME NEW g \in Handlers \ {h} PROVE HandlerDense(g)'
    OBVIOUS
<1>1. pc'[g] = pc[g] /\ loc'[g] = loc[g] /\ loc[g].room \in Rooms
    BY Others DEF TypeInv, TypeOK, Locals
<1> DEFINE r == loc[g].room
           old == Cardinality(SeatsOf(r))
           new == Cardinality(SeatsOf(r)')
<1>2. old \in Nat /\ new \in Nat /\ old <= new
    <2>1. IsFiniteSet(SeatsOf(r)')
        BY FS_Subset DEF SeatsOf
    <2> QED
        BY <1>1, <2>1, SeatsFinite, FS_CardinalityType DEF TypeInv
<1>3. pc[g] \in Joining => room'[r].min = room[r].min
    BY <1>1, RoomsStay DEF DenseInv, RoomStays
<1>4. room[r].min \in Nat /\ loc[g].number \in Nat
    BY <1>1, LobbyAssumption DEF TypeInv, TypeOK, Locals
<1>5. CASE pc[g] \in {"j_escrow", "j_create"}
    BY <1>1, <1>2, <1>4, <1>5 DEF AllDense, HandlerDense
<1>6. CASE pc[g] \in {"s_status", "s_seats"}
    BY <1>1, <1>2, <1>3, <1>4, <1>6 DEF AllDense, HandlerDense, Joining, Starting
<1>7. CASE pc[g] = "s_game"
    BY <1>1, <1>3, <1>7 DEF AllDense, HandlerDense, Joining, Starting, Full, Dense
<1>8. CASE pc[g] \notin {"j_escrow", "j_create", "s_status", "s_seats", "s_game"}
    BY <1>1, <1>8 DEF HandlerDense
<1> QED
    BY <1>5, <1>6, <1>7, <1>8

\* The players start_game reads are numbered as the seats are.
LEMMA PlayersDense ==
    ASSUME TypeInv, NumbersUnique, NEW r \in Rooms, Dense(SeatsOf(r)), NEW ps,
           ps = {[agent |-> s.agent, number |-> s.number] : s \in SeatsOf(r)}
    PROVE  Dense(ps) /\ Cardinality(ps) = Cardinality(SeatsOf(r))
<1> DEFINE f == [s \in SeatsOf(r) |-> [agent |-> s.agent, number |-> s.number]]
<1>1. IsFiniteSet(SeatsOf(r))
    BY SeatsFinite DEF TypeInv
<1>2. f \in Bijection(SeatsOf(r), ps)
    <2>1. \A s, t \in SeatsOf(r) : f[s] = f[t] => s = t
        BY DEF NumbersUnique, SeatsOf
    <2>2. f \in [SeatsOf(r) -> ps] /\ \A p \in ps : \E s \in SeatsOf(r) : f[s] = p
        OBVIOUS
    <2> HIDE DEF f
    <2> QED
        BY <2>1, <2>2 DEF Bijection, Injection, Surjection, IsInjective
<1>3. Cardinality(ps) = Cardinality(SeatsOf(r))
    BY <1>1, <1>2, FS_Bijection DEF ExistsBijection
<1>4. {p.number : p \in ps} = {s.number : s \in SeatsOf(r)}
    <2>1. \A s \in SeatsOf(r) : [agent |-> s.agent, number |-> s.number] \in ps
        OBVIOUS
    <2>2. \A p \in ps : \E s \in SeatsOf(r) : p.number = s.number
        OBVIOUS
    <2>3. \A s \in SeatsOf(r) : [agent |-> s.agent, number |-> s.number].number = s.number
        OBVIOUS
    <2>4. \A s \in SeatsOf(r) : \E p \in ps : p.number = s.number
        BY <2>1, <2>3
    <2> QED
        BY <2>2, <2>4
<1> QED
    BY <1>3, <1>4 DEF Dense

\* A step that leaves the seats alone.
LEMMA DenseFrame ==
    ASSUME TypeInv, NumbersUnique, ServedInv, DenseInv, AllDense,
           NEW h \in Handlers, StepOf(h), UNCHANGED <<seats, made>>
    PROVE  AllDense'
<1>0. /\ pc \in [Handlers -> HandlerPC] /\ loc \in [Handlers -> Locals]
      /\ games \in [Rooms -> Seq(Games)] /\ loc[h].room \in Rooms
      /\ \A r \in Rooms : Cardinality(SeatsOf(r)) \in Nat /\ IsFiniteSet(SeatsOf(r))
      /\ IsFiniteSet(seats)
    BY SeatsFinite DEF TypeInv, TypeOK, Locals
<1>1. RoomStays
    BY RoomsStay
<1>2. \A r \in Rooms : SeatsOf(r)' = SeatsOf(r)
    BY DEF SeatsOf
<1>3. \A g \in Handlers \ {h} : HandlerDense(g)'
    BY <1>0, <1>2, OthersDense
<1> DEFINE R == loc[h].room
<1>4. HandlerDense(h)'
    <2>1. CASE JoinReadSeats(h)
        <3>1. pc'[h] = "idle" \/ /\ pc'[h] = "j_escrow"
                                 /\ loc'[h] = [loc[h] EXCEPT !.number = Cardinality(SeatsOf(R)) + 1]
            BY <1>0, <2>1 DEF JoinReadSeats, Finish, Go, Set
        <3>2. CASE pc'[h] = "idle"
            BY <3>2 DEF HandlerDense
        <3>3. CASE pc'[h] = "j_escrow" /\ loc'[h] = [loc[h] EXCEPT !.number = Cardinality(SeatsOf(R)) + 1]
            <4>1. loc'[h].number = Cardinality(SeatsOf(R)) + 1 /\ loc'[h].room = R
                BY <1>0, <3>3 DEF Locals
            <4> QED
                BY <1>0, <1>2, <3>3, <4>1 DEF HandlerDense
        <3> QED
            BY <3>1, <3>2, <3>3
    <2>2. CASE JoinCheckEscrow(h)
        BY <1>0, <1>2, <2>2 DEF JoinCheckEscrow, Finish, Go, AllDense, HandlerDense
    <2>3. CASE JoinCount(h)
        BY <1>0, <1>2, <2>3 DEF JoinCount, Finish, Go, HandlerDense, tables
    <2>4. CASE StartSetStatus(h)
        <3>1. pc[h] = "s_status" /\ pc'[h] = "s_seats" /\ UNCHANGED loc
            BY <1>0, <2>4 DEF StartSetStatus, Go
        <3>2. room'[R].min = room[R].min
            BY <1>0, <1>1, <3>1 DEF DenseInv, RoomStays, Joining
        <3> QED
            BY <1>0, <3>1, <3>2 DEF AllDense, HandlerDense, SeatsOf
    <2>5. CASE StartReadSeats(h)
        <3> DEFINE ps == {[agent |-> s.agent, number |-> s.number] : s \in SeatsOf(R)}
        <3>1. /\ loc'[h] = [loc[h] EXCEPT !.players = ps]
              /\ pc[h] = "s_seats" /\ pc'[h] = "s_game" /\ UNCHANGED room
            BY <1>0, <2>5 DEF StartReadSeats, Go, Set, tables
        <3>2. loc'[h].room = R /\ loc'[h].players = ps
            BY <1>0, <3>1 DEF Locals
        <3>3. Dense(ps) /\ Cardinality(ps) = Cardinality(SeatsOf(R))
            BY <1>0, PlayersDense DEF AllDense
        <3>4. Cardinality(SeatsOf(R)) >= room[R].min
            BY <3>1 DEF AllDense, HandlerDense
        <3> HIDE DEF ps
        <3>5. Full(loc'[h].players, room'[loc'[h].room].min)
            BY <3>1, <3>2, <3>3, <3>4 DEF Full
        <3> QED
            BY <3>1, <3>5 DEF HandlerDense, Full, Dense
    <2>6. CASE /\ ~JoinReadSeats(h) /\ ~JoinCheckEscrow(h) /\ ~JoinCount(h)
               /\ ~StartSetStatus(h) /\ ~StartReadSeats(h)
        <3>1. pc'[h] \notin {"j_escrow", "j_create", "s_status", "s_seats", "s_game"}
            BY <1>0, <2>6 DEF StepOf, Requests, Continue, JoinReadRoom,
                LeaveReadRoom, QueueListRooms, CreateRequest, QueueJoinRoom,
                JoinReadAgent, JoinCreateSeat, StartCreateGame,
                StartCreatePlayers, StartProgress, StartSpawn, LeaveReadSeat, LeaveDelete,
                QueueReadSeats, QueueCreateRoom, CreateCheckEscrow, CreateSeat, Fail,
                Finish, Go
        <3> QED
            BY <3>1 DEF HandlerDense
    <2> QED
        BY <2>1, <2>2, <2>3, <2>4, <2>5, <2>6
<1>5. \A r \in Rooms : \A i \in DOMAIN games[r] : room'[r].min = room[r].min
    BY <1>1 DEF ServedInv, RoomFollowsItsGames, RoomStays
<1>6. \A r \in Rooms : \A i \in DOMAIN games[r] : Full(games[r][i].players, room'[r].min)
    BY <1>5 DEF AllDense
<1>7. \A r \in Rooms : \A i \in DOMAIN games'[r] : Full(games'[r][i].players, room'[r].min)
    <2>1. CASE UNCHANGED games
        BY <1>6, <2>1
    <2>2. CASE StartCreateGame(h) /\ ~UNCHANGED games
        <3> DEFINE g == [players |-> loc[h].players, ready |-> FALSE]
        <3>1. games' = [games EXCEPT ![R] = Append(@, g)] /\ pc[h] = "s_game"
            BY <2>2 DEF StartCreateGame
        <3>2. g \in Games /\ g.players = loc[h].players
            BY <1>0 DEF Games, Locals
        <3>3. Full(g.players, room'[R].min)
            <4>1. room'[R].min = room[R].min
                BY <1>0, <1>1, <3>1 DEF DenseInv, Joining, Starting, RoomStays
            <4> QED
                BY <3>1, <3>2, <4>1 DEF AllDense, HandlerDense
        <3> HIDE DEF g
        <3>4. /\ Append(games[R], g) \in Seq(Games)
              /\ Len(Append(games[R], g)) = Len(games[R]) + 1
              /\ \A i \in 1..Len(games[R]) : Append(games[R], g)[i] = games[R][i]
              /\ Append(games[R], g)[Len(games[R]) + 1] = g
              /\ DOMAIN games[R] = 1..Len(games[R]) /\ Len(games[R]) \in Nat
            BY <1>0, <3>2, AppendProperties, LenProperties
        <3>5. DOMAIN Append(games[R], g) = 1..(Len(games[R]) + 1)
            BY <3>4, LenProperties
        <3>6. /\ games'[R] = Append(games[R], g)
              /\ \A r \in Rooms \ {R} : games'[r] = games[r]
            BY <1>0, <3>1
        <3>7. \A i \in DOMAIN games'[R] :
                 games'[R][i] = g \/ (i \in DOMAIN games[R] /\ games'[R][i] = games[R][i])
            BY <3>4, <3>5, <3>6
        <3>8. \A i \in DOMAIN games'[R] : Full(games'[R][i].players, room'[R].min)
            BY <1>0, <1>6, <3>3, <3>7
        <3> QED
            BY <1>6, <3>6, <3>8
    <2>3. CASE StartCreatePlayers(h)
        <3> DEFINE j == loc[h].seat
        <3>1. games' = [games EXCEPT ![R][j].ready = TRUE]
            BY <2>3 DEF StartCreatePlayers
        <3>2. j \in DOMAIN games[R] /\ DOMAIN games[R] = 1..Len(games[R])
            BY <1>0, <2>3, LenProperties DEF StartCreatePlayers, TypeInv, HandlerOK
        <3>3. games[R][j] \in Games
            BY <1>0, <3>2, ElementOfSeq
        <3>4. /\ \A r \in Rooms \ {R} : games'[r] = games[r]
              /\ DOMAIN games'[R] = DOMAIN games[R]
              /\ \A i \in DOMAIN games[R] : games'[R][i].players = games[R][i].players
            BY <1>0, <3>1, <3>2, <3>3 DEF Games
        <3> QED
            BY <1>6, <3>4
    <2> QED
        BY <2>1, <2>2, <2>3, VerifiedGrows
<1>8. \A r \in Rooms : Dense(SeatsOf(r)')
    BY <1>2 DEF AllDense
<1> QED
    BY <1>3, <1>4, <1>7, <1>8 DEF AllDense, Full, Dense, SeatsOf

\* create_seat gives out the next number: a smaller one is taken.
LEMMA DenseInsert ==
    ASSUME TypeInv, NumbersUnique, ServedInv, DenseInv, AllDense,
           NEW h \in Handlers, StepOf(h), NEW n \in 1..MaxPlayers,
           n <= Cardinality(SeatsOf(loc[h].room)) + 1,
           InsertSeat(loc[h].room, loc[h].agent, n),
           UNCHANGED <<room, games>>, pc'[h] \in {"j_count", "idle"}
    PROVE  AllDense'
<1> PICK R : R = loc[h].room
    OBVIOUS
<1> DEFINE new == [id |-> made + 1, room |-> R, agent |-> loc[h].agent, number |-> n]
           k == Cardinality(SeatsOf(R))
<1>0. /\ R \in Rooms /\ made \in Nat /\ IsFiniteSet(seats) /\ n \in Nat
      /\ \A r \in Rooms : Cardinality(SeatsOf(r)) \in Nat /\ IsFiniteSet(SeatsOf(r))
      /\ \A s \in seats : s.id \in 1..made
    BY SeatsFinite, LobbyAssumption DEF TypeInv, TypeOK, Locals
<1>1. seats' = seats \union {new} /\ \A s \in SeatsOf(R) : s.number # n
    BY DEF InsertSeat, SeatTaken
<1>2. new \notin seats /\ new.room = R /\ new.number = n
    <2>1. new.id = made + 1 /\ new.room = R /\ new.number = n
        OBVIOUS
    <2> QED
        BY <1>0, <2>1
<1> HIDE DEF new
<1>3. /\ SeatsOf(R)' = SeatsOf(R) \union {new} /\ new \notin SeatsOf(R)
      /\ \A r \in Rooms \ {R} : SeatsOf(r)' = SeatsOf(r)
    BY <1>1, <1>2 DEF SeatsOf
<1>4. Cardinality(SeatsOf(R)') = k + 1
    BY <1>0, <1>3, FS_AddElement
<1>5. n = k + 1
    <2>1. {s.number : s \in SeatsOf(R)} = 1..k
        BY <1>0 DEF AllDense, Dense
    <2>2. n \notin 1..k
        BY <1>1, <2>1
    <2> QED
        BY <1>0, <2>2
<1> DEFINE old == SeatsOf(R)
           now == SeatsOf(R)'
<1>6. Dense(now)
    <2>1. now = old \union {new}
        BY <1>3
    <2>2. {s.number : s \in old} = 1..k
        BY <1>0 DEF AllDense, Dense
    <2> HIDE DEF old, now
    <2>3. {s.number : s \in now} = {s.number : s \in old} \union {n}
        BY <1>2, <2>1
    <2>4. {s.number : s \in now} = 1..(k + 1)
        BY <1>0, <1>5, <2>2, <2>3 DEF old
    <2>5. Cardinality(now) = k + 1
        BY <1>4 DEF now
    <2> QED
        BY <2>4, <2>5 DEF Dense
<1>7. \A r \in Rooms : Dense(SeatsOf(r)')
    BY <1>3, <1>6 DEF AllDense
<1>8. \A g \in Handlers : HandlerDense(g)'
    <2>1. ASSUME NEW r \in Rooms PROVE Cardinality(SeatsOf(r)) <= Cardinality(SeatsOf(r)')
        <3>1. Cardinality(SeatsOf(r)) \in Nat
            BY <1>0
        <3>2. CASE r = R
            BY <1>4, <3>1, <3>2
        <3>3. CASE r # R
            BY <1>3, <3>1, <3>3
        <3> QED
            BY <3>2, <3>3
    <2>2. IsFiniteSet(seats')
        BY <1>0, <1>1, FS_AddElement
    <2>3. HandlerDense(h)'
        BY DEF HandlerDense
    <2> QED
        BY <2>1, <2>2, <2>3, OthersDense
<1> QED
    BY <1>7, <1>8 DEF AllDense, Full, Dense, SeatsOf

LEMMA DenseStep ==
    TypeInv /\ NumbersUnique /\ ServedInv /\ DenseInv /\ [Next]_vars => DenseInv'
<1> SUFFICES ASSUME TypeInv, NumbersUnique, ServedInv, DenseInv, [Next]_vars PROVE DenseInv'
    OBVIOUS
<1>0. /\ IsFiniteSet(seats) /\ made \in Nat /\ Cardinality(seats) \in Nat
      /\ \A s \in seats : s.id \in 1..made
      /\ pc \in [Handlers -> HandlerPC] /\ loc \in [Handlers -> Locals]
    BY LobbyAssumption, FS_CardinalityType DEF TypeInv, TypeOK
<1>1. ASSUME NEW h \in Handlers, StepOf(h) PROVE DenseInv'
    <2>1. \A g \in Handlers : pc'[g] \in Joining => room'[loc'[g].room].status # "none"
        BY <1>1, JoinersStay
    <2>2. CASE UNCHANGED <<seats, made>>
        <3>1. NobodyHasLeft' => NobodyHasLeft
            BY <2>2 DEF NobodyHasLeft
        <3> QED
            BY <1>1, <2>1, <2>2, <3>1, DenseFrame DEF DenseInv
    <2>3. ASSUME NEW n \in 1..MaxPlayers, InsertSeat(loc[h].room, loc[h].agent, n),
                 NobodyHasLeft => n <= Cardinality(SeatsOf(loc[h].room)) + 1,
                 UNCHANGED <<room, games>>, pc'[h] \in {"j_count", "idle"}
          PROVE  DenseInv'
        <3> DEFINE new == [id |-> made + 1, room |-> loc[h].room, agent |-> loc[h].agent, number |-> n]
        <3>1. seats' = seats \union {new} /\ made' = made + 1
            BY <2>3 DEF InsertSeat
        <3>2. new \notin seats
            <4>1. new.id = made + 1
                OBVIOUS
            <4> QED
                BY <1>0, <4>1
        <3> HIDE DEF new
        <3>3. Cardinality(seats') = Cardinality(seats) + 1
            BY <1>0, <3>1, <3>2, FS_AddElement
        <3>4. Cardinality(seats') <= made' /\ (NobodyHasLeft' => NobodyHasLeft)
            BY <1>0, <3>1, <3>3 DEF DenseInv, NobodyHasLeft
        <3>5. NobodyHasLeft => AllDense'
            BY <1>1, <2>3, DenseInsert DEF DenseInv
        <3> QED
            BY <2>1, <3>4, <3>5 DEF DenseInv
    <2>4. CASE JoinCreateSeat(h) /\ ~UNCHANGED <<seats, made>>
        <3>1. /\ InsertSeat(loc[h].room, loc[h].agent, loc[h].number)
              /\ pc[h] = "j_create" /\ pc'[h] = "j_count" /\ UNCHANGED <<room, games>>
            BY <1>0, <2>4 DEF JoinCreateSeat, Go
        <3>2. loc[h].number \in 1..MaxPlayers
            BY <3>1 DEF TypeInv, HandlerOK
        <3> QED
            BY <2>3, <3>1, <3>2 DEF DenseInv, AllDense, HandlerDense
    <2>5. CASE CreateSeat(h) /\ ~UNCHANGED <<seats, made>>
        <3>1. /\ InsertSeat(loc[h].room, loc[h].agent, 1)
              /\ pc'[h] = "idle" /\ UNCHANGED <<room, games>>
            BY <1>0, <2>5 DEF CreateSeat, Finish, Go
        <3>2. 1 \in 1..MaxPlayers
            BY LobbyAssumption
        <3>3. Cardinality(SeatsOf(loc[h].room)) \in Nat
            BY <1>0, SeatsFinite
        <3>4. 1 <= Cardinality(SeatsOf(loc[h].room)) + 1
            BY <3>3
        <3> QED
            BY <2>3, <3>1, <3>2, <3>4
    <2>6. CASE LeaveDelete(h) /\ ~UNCHANGED <<seats, made>>
        <3>1. seats' \subseteq seats /\ made' = made /\ seats' # seats
            BY <2>6 DEF LeaveDelete
        <3>2. Cardinality(seats') < Cardinality(seats) /\ Cardinality(seats') \in Nat
            BY <1>0, <3>1, FS_Subset, FS_CardinalityType
        <3>3. Cardinality(seats') <= made' /\ ~NobodyHasLeft'
            BY <1>0, <3>1, <3>2 DEF DenseInv, NobodyHasLeft
        <3> QED
            BY <2>1, <3>3 DEF DenseInv
    <2>7. UNCHANGED <<seats, made>> \/ JoinCreateSeat(h) \/ CreateSeat(h) \/ LeaveDelete(h)
        BY <1>1 DEF StepOf, Requests, Continue, JoinReadRoom,
            LeaveReadRoom, QueueListRooms, CreateRequest, QueueJoinRoom,
            JoinReadAgent, JoinReadSeats, JoinCheckEscrow,
            JoinCount, StartSetStatus, StartReadSeats, StartCreateGame,
            StartCreatePlayers, StartProgress, StartSpawn, LeaveReadSeat,
            QueueReadSeats, QueueCreateRoom, CreateCheckEscrow, Fail, tables
    <2> QED
        BY <2>2, <2>4, <2>5, <2>6, <2>7
<1>2. CASE UNCHANGED vars
    BY <1>2 DEF DenseInv, AllDense, HandlerDense, Full, Dense, NobodyHasLeft, SeatsOf, vars, tables
<1>3. ASSUME NEW r \in Rooms, CompleteRoom(r) PROVE DenseInv'
    <2>1. /\ \A q \in Rooms : room'[q].min = room[q].min
          /\ \A q \in Rooms : room'[q].status = "none" => room[q].status = "none"
          /\ UNCHANGED <<seats, made, games, pc, loc>>
        BY <1>3, CompleteMeans DEF CompleteRoom, TypeInv
    <2>2. \A h \in Handlers : loc[h].room \in Rooms
        BY <1>0 DEF Locals
    <2>3. AllDense => AllDense'
        BY <2>1, <2>2 DEF AllDense, HandlerDense, Full, Dense, SeatsOf
    <2> QED
        BY <2>1, <2>2, <2>3 DEF DenseInv, NobodyHasLeft
<1> QED
    BY <1>1, <1>2, <1>3 DEF Next, StepOf

\* Theorem: until a seat is left for the first time the seats of every room are
\* numbered 1..n, and every game has its min_players, numbered likewise, although
\* every number is planned and every count taken before the row it is for.
THEOREM SeatsDense == Spec => []SeatsAreDense
<1>1. Init => DenseInv
    <2> SUFFICES ASSUME Init PROVE DenseInv
        OBVIOUS
    <2>1. Cardinality(seats) = 0 /\ made = 0 /\ \A r : SeatsOf(r) = {}
        BY FS_EmptySet DEF Init, SeatsOf
    <2>2. \A r : Dense(SeatsOf(r))
        BY <2>1, FS_EmptySet DEF Dense
    <2>3. \A h \in Handlers : pc[h] = "idle"
        BY DEF Init
    <2>4. \A r \in Rooms : DOMAIN games[r] = {}
        BY DEF Init
    <2> QED
        BY <2>1, <2>2, <2>3, <2>4 DEF DenseInv, AllDense, HandlerDense, Joining, Starting
<1>2. DenseInv => SeatsAreDense
    BY DEF DenseInv, AllDense, Full, SeatsAreDense
<1>3. Init => NumbersUnique
    BY DEF Init, NumbersUnique
<1>4. Init => ServedInv
    BY LobbyAssumption
       DEF Init, ServedInv, RoomFollowsItsGames, Starting
<1> QED
    BY <1>1, <1>2, <1>3, <1>4, TypeInit, TypeStep, NumbersStep, ServedStep, DenseStep, PTL DEF Spec
============================================================================
