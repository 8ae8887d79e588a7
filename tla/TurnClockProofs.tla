-------------------------- MODULE TurnClockProofs --------------------------
(***************************************************************************)
(* What TurnClock guarantees for every timeout, every unit of time and     *)
(* however long the manager's calls take.                                  *)
(***************************************************************************)
EXTENDS TurnClock, TLAPS

\* A turn the manager is about to hand on is not one that it set itself.
ClockInv == /\ TypeOK /\ TurnMeetsTheManager
            /\ manager = "sleep" => left <= Timeout
            /\ manager # "sleep" => left <= Calls
            /\ manager = "set" => ~own
            /\ own => turn

\* A key lives for a whole number of units, and for the timeout if that is
\* at least a second.
LEMMA TtlNat == Ttl \in Nat /\ (Timeout >= Second => Ttl <= Timeout)
<1>1. Timeout % Second \in 0..Second - 1
    BY ClockAssumption
<1> QED
    BY <1>1, ClockAssumption DEF Ttl

\* What dropping the key and a request's setting it come to.
LEMMA DropMeans == Drop => ~turn' /\ ~own' /\ turn' \in BOOLEAN /\ own' \in BOOLEAN
    BY Zenon DEF Drop
LEMMA HandMeans == Hand(FALSE) => turn' /\ ~own' /\ turn' \in BOOLEAN /\ own' \in BOOLEAN
    BY Zenon DEF Hand

LEMMA ClockInit == Init => ClockInv
<1>1. Init => ~turn /\ ~own /\ turn \in BOOLEAN /\ own \in BOOLEAN
    BY Zenon DEF Init
<1>2. Init => ttl = 0 /\ request = "none" /\ manager = "set" /\ left = Calls
    BY DEF Init
<1> QED
    BY <1>1, <1>2, TtlNat, ClockAssumption
       DEF ClockInv, TypeOK, Longest, TurnMeetsTheManager

LEMMA ClockStep == ClockInv /\ [Next]_vars => ClockInv'
<1> SUFFICES ASSUME ClockInv, [Next]_vars PROVE ClockInv'
    OBVIOUS
<1> USE TtlNat, ClockAssumption
    DEF ClockInv, TypeOK, Longest, TurnMeetsTheManager, UntilTaken, UntilAwake
<1>1. CASE Pass
    BY <1>1 DEF Pass
<1>2. CASE Expire
    BY <1>2 DEF Expire, Drop
<1>3. CASE RequestReads
    BY <1>3 DEF RequestReads, key
<1>4. CASE RequestDeletes
    <2>1. /\ request' = "set" /\ manager' = manager /\ left' = left
          /\ ttl' = 0 /\ Drop
        BY <1>4 DEF RequestDeletes, Drop
    <2> QED
        BY <2>1, DropMeans
<1>5. CASE RequestSets
    <2>1. /\ request' = "none" /\ manager' = manager /\ left' = left
          /\ ttl' = Ttl /\ Hand(FALSE)
        BY <1>5 DEF RequestSets, Hand
    <2> QED
        BY <2>1, HandMeans
<1>6. CASE Wake
    BY <1>6 DEF Wake, key
<1>7. CASE Look
    BY <1>7 DEF Look, SleepAgain, key
<1>8. CASE Delete
    <2>1. /\ manager = "delete" /\ manager' = "set" /\ request' = request
          /\ left' = left /\ ttl' = 0 /\ Drop
        BY <1>8 DEF Delete, Drop
    <2> QED
        BY <2>1, DropMeans
<1>9. CASE HandOn
    BY <1>9 DEF HandOn, Hand
<1>10. CASE Call
    BY <1>10 DEF Call, SleepAgain, key
<1>11. CASE UNCHANGED vars
    BY <1>11 DEF vars
<1> QED
    BY <1>1, <1>2, <1>3, <1>4, <1>5, <1>6, <1>7, <1>8, <1>9, <1>10, <1>11
       DEF Next, RequestContinues, ManagerStep

\* Theorem: the clocks of TurnClock keep their ranges, for every timeout: the
\* key's life and what is left of the manager's sleep or of its calls.
THEOREM ClockTyped == Spec => []TypeOK
<1>1. ClockInv => TypeOK
    BY DEF ClockInv
<1> QED
    BY <1>1, ClockInit, ClockStep, PTL DEF Spec

\* Theorem: whatever the timeout, however long the calls take, and wherever in
\* the manager's sleep a request hands the turn on, no agent keeps it for longer
\* than the timeout and two rounds of calls, and none that the manager gave it
\* to is folded for while its key lives.
THEOREM TurnMeets == Spec => []TurnMeetsTheManager
<1>1. ClockInv => TurnMeetsTheManager
    BY DEF ClockInv
<1> QED
    BY <1>1, ClockInit, ClockStep, PTL DEF Spec
============================================================================
