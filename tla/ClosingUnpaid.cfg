CONSTANTS
    g1 = g1
    g2 = g2
    a1 = a1
    a2 = a2
    a3 = a3
    c1 = c1
    c2 = c2
    c3 = c3
    Games = {g1, g2}
    Calls = {c1, c2, c3}
    Game <- MCGame
    Agents = {a1, a2, a3}
    Players <- MCPlayers
    Winners <- MCWinners
    Fields <- HoldemOnly
    Failing = {}
    MaxPolls = 5
    MaxCrashes = 0
SPECIFICATION Spec
PROPERTIES ResultIsSettled
CHECK_DEADLOCK FALSE
