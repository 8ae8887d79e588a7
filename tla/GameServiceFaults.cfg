SPECIFICATION Spec
CONSTANTS
    a1 = a1
    a2 = a2
    r1 = r1
    r2 = r2
    MaxMoves = 2
    NoAgent = NoAgent
    Expired = Expired
    None = None
    Manager = Manager
    Agents <- MCAgents
    Actions <- MCActions
    Positions <- MCPositions
    InitialPosition <- MCInitial
    Valid <- MCValid
    Applies <- MCApplies
    Apply <- MCApply
    TimeoutAction = "fold"
    Actor <- MCActor
    Terminal <- MCTerminal
    Pays <- MCPays
    TurnNumber <- MCTurnNumber
    Requests <- MCRequests
    TurnsTimeOut = TRUE
    WritesMayFail = TRUE
SYMMETRY Symmetry
INVARIANTS
    TypeOK
    SequenceMatchesTurn
    AcceptedIsLogged
    CompletesOnce
PROPERTIES
    CompletionIsFinal
