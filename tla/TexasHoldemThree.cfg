SPECIFICATION Spec
CONSTANTS
    N = 3
    BuyIn = 100
    Amounts = {1, 2, 3, 50, 97, 99, 100}
    RakeBps = 500
    Scores = {1, 2}
INVARIANTS
    TypeOK
    ChipsConserved
    CurrentBetIsLargest
    ActorCanStay
    AllInMeansNoChips
    PotIsPaidOut
    ShowdownCanBeScored
PROPERTIES
    EveryMoveProgresses
CHECK_DEADLOCK FALSE
