SPECIFICATION Spec
CONSTANTS
    a1 = a1
    a2 = a2
    a3 = a3
    h1 = h1
    h2 = h2
    NoAgent = NoAgent
    Agents <- MCAgents
    Handlers <- MCHandlers
    Rooms <- MCOneRoom
    MaxPlayers = 2
    MinPlayers = 2
    MaxSeats = 4
SYMMETRY Symmetry
INVARIANTS
    TypeOK
    NeverOverfull
    RoomFollowsItsGames
    PlayersHaveDeposited
    SeatsAreDense
