SPECIFICATION Spec
CONSTANTS
    Timeout = 18
    Second = 4
    Calls = 13
INVARIANTS
    TypeOK
    TurnMeetsTheManager
