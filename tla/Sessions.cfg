CONSTANTS
    w1 = w1
    r1 = r1
    r2 = r2
    Wallets = {w1}
    Requests = {r1, r2}
    MaxNonces = 2
    MaxSessions = 2
SPECIFICATION Spec
INVARIANTS TypeOK LateRequestsAreRefused LoggedOutIsForgotten
CHECK_DEADLOCK FALSE
