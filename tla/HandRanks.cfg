CONSTANT Hands <- MCHands
SPECIFICATION Spec
INVARIANTS OrderIsPokers BestIsUnbeaten
CHECK_DEADLOCK FALSE
