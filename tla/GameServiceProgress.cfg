SPECIFICATION FairSpec
CONSTANTS
    a1 = a1
    a2 = a2
    r1 = r1
    MaxMoves = 3
    NoAgent = NoAgent
    Expired = Expired
    None = None
    Manager = Manager
    Agents <- MCAgents
    Actions <- MCActions
    Positions <- MCPositions
    InitialPosition <- MCInitial
    Valid <- MCValid
    Applies <- MCApplies
    Apply <- MCApply
    TimeoutAction = "call"
    Actor <- MCActor
    Terminal <- MCTerminal
    Pays <- MCPays
    TurnNumber <- MCTurnNumber
    Requests <- MCRequests
    TurnsTimeOut = TRUE
    WritesMayFail = FALSE
    RequestsMayFail = TRUE
INVARIANTS
    LogHasNoGap
PROPERTIES
    AbandonedHandFinishes
CHECK_DEADLOCK FALSE
