CONSTANTS
    w1 = w1
    r1 = r1
    r2 = r2
    Wallets = {w1}
    Requests = {r1, r2}
    Asked = {"active", "key"}
    MaxKeys = 3
SPECIFICATION Spec
SYMMETRY SomeRequest
INVARIANTS TypeOK FieldsAreLostByOverlapOnly OwnerIsNotLockedOut
PROPERTIES RotatedOutIsRefused
CHECK_DEADLOCK FALSE
