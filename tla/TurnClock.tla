----------------------------- MODULE TurnClock -----------------------------
(***************************************************************************)
(* How long an agent has for its turn: the expiry of the turn:{game_id}    *)
(* key against the cycle of run_turn_manager, which sleeps for the         *)
(* timeout, looks at the key, and plays and hands on a turn it finds.  The *)
(* sleep starts after the calls that follow the key's SET EX, a webhook    *)
(* among them, and does not start over when a request hands the turn on.   *)
(*                                                                         *)
(* What the moves do, refused ones and failing calls included, is          *)
(* GameService's; here every move is accepted, a hand goes on for ever,    *)
(* one request at a time answers, and time passes in units of 1/Second     *)
(* seconds.                                                                *)
(***************************************************************************)
EXTENDS Naturals

CONSTANTS
    Timeout,       \* turn_timeout_ms, in units
    Second,        \* units in a second
    Calls          \* the longest the manager's calls between two sleeps take

ASSUME ClockAssumption ==
    Timeout \in Nat \ {0} /\ Second \in Nat \ {0} /\ Calls \in Nat

VARIABLES
    turn,      \* the key is set: an agent may move
    ttl,       \* units until the key expires
    own,       \* history: the manager set the key, and not a request
    request,   \* a submit_action of the agent: what it does next, or "none"
    manager,   \* what run_turn_manager does next, or "sleep"
    left       \* units of its sleep, or at most of its calls, still to go

vars == <<turn, ttl, own, request, manager, left>>
key  == <<turn, ttl, own>>

\* Mutant: a part of a second counts as a whole one.
TtlRoundedUp == IF Timeout % Second = 0 THEN Timeout
                ELSE (Timeout - (Timeout % Second)) + Second

\* SET EX counts whole seconds, at least one.
Ttl == IF Timeout >= Second THEN Timeout - (Timeout % Second) ELSE Second

Longest == IF Timeout >= Calls THEN Timeout ELSE Calls

TypeOK == /\ turn \in BOOLEAN /\ ttl \in 0..Ttl /\ own \in BOOLEAN
          /\ request \in {"none", "delete", "set"}
          /\ manager \in {"sleep", "look", "delete", "set", "call"}
          /\ left \in 0..Longest

\* set_current_turn for the next agent.
Hand(byManager) == turn' = TRUE /\ ttl' = Ttl /\ own' = byManager
\* The key is gone and nobody has the turn.
Drop == turn' = FALSE /\ ttl' = 0 /\ own' = FALSE

\* The manager is spawned, with the initial turn to set.
Init == /\ turn = FALSE /\ ttl = 0 /\ own = FALSE
        /\ request = "none"
        /\ manager = "set" /\ left = Calls

\* Mutant: time passes for the sleep after it is over, too.
PassOverslept ==
    /\ ~(turn /\ ttl = 0)
    /\ left' = left - 1
    /\ ttl' = IF ttl > 0 THEN ttl - 1 ELSE 0
    /\ UNCHANGED <<turn, own, request, manager>>

\* A unit of time passes; what is due happens first.
Pass ==
    /\ left > 0 /\ ~(turn /\ ttl = 0)
    /\ left' = left - 1
    /\ ttl' = IF ttl > 0 THEN ttl - 1 ELSE 0
    /\ UNCHANGED <<turn, own, request, manager>>

\* The key expires; who reads it in the same unit does so before or after.
Expire == turn /\ ttl = 0 /\ Drop /\ UNCHANGED <<request, manager, left>>

\* submit_action reads the key, deletes what it holds by then, and hands the
\* turn on, each some time after the other.
RequestReads ==
    /\ request = "none" /\ turn
    /\ request' = "delete" /\ UNCHANGED <<key, manager, left>>
RequestDeletes ==
    /\ request = "delete" /\ Drop
    /\ request' = "set" /\ UNCHANGED <<manager, left>>
RequestSets ==
    /\ request = "set" /\ Hand(FALSE)
    /\ request' = "none" /\ UNCHANGED <<manager, left>>

\* The sleep is over: the row is read, and then the key.
Wake == /\ manager = "sleep" /\ left = 0
        /\ manager' = "look" /\ left' = Calls /\ UNCHANGED <<key, request>>

\* Back to the top of the loop.
SleepAgain == manager' = "sleep" /\ left' = Timeout

\* With a key the manager takes the turn, without one it sleeps again.
Look == /\ manager = "look"
        /\ \/ turn /\ manager' = "delete" /\ UNCHANGED left
           \/ ~turn /\ SleepAgain
        /\ UNCHANGED <<key, request>>
Delete == /\ manager = "delete" /\ Drop
          /\ manager' = "set" /\ UNCHANGED <<request, left>>
\* The initial turn, or advance_turn after the timeout action.
HandOn == /\ manager = "set" /\ Hand(TRUE)
          /\ manager' = "call" /\ UNCHANGED <<request, left>>
\* The agent is looked up and its webhook called; then the next sleep.
Call == manager = "call" /\ SleepAgain /\ UNCHANGED <<key, request>>

RequestContinues == RequestDeletes \/ RequestSets
ManagerStep == Wake \/ Look \/ Delete \/ HandOn \/ Call

Next == Pass \/ Expire \/ RequestReads \/ RequestContinues \/ ManagerStep

\* Time passes, keys expire, the manager and a request that came are scheduled;
\* nobody has to send one.
Fairness == /\ WF_vars(Pass) /\ WF_vars(Expire)
            /\ WF_vars(RequestContinues) /\ WF_vars(ManagerStep)
Spec == Init /\ [][Next]_vars /\ Fairness

----------------------------------------------------------------------------
(* Properties                                                              *)

\* When the manager takes a turn it finds, at the latest ...
UntilTaken == CASE manager \in {"look", "delete"} -> left
                [] manager = "sleep" -> left + Calls
                [] OTHER -> left + Timeout + Calls
\* ... and when it wakes, at the earliest.
UntilAwake == CASE manager = "sleep" -> left
                [] manager = "call" -> Timeout
                [] OTHER -> 0

\* The sleep was started for another turn, and the key lives and the calls
\* take as long as they do; still no agent keeps a turn for longer than the
\* timeout and the calls of two rounds of the manager, and one that got its
\* turn from the manager is never folded for while its key has life left.
TurnMeetsTheManager ==
    turn => /\ (Ttl - ttl) + UntilTaken <= Timeout + 2 * Calls
            /\ own /\ Timeout >= Second => ttl <= UntilAwake

----------------------------------------------------------------------------
(* What the repository's words say and the code does not do                *)

\* "Default action applied after this elapses": an idle agent's turn is folded
\* and handed on, so the hand is never left for good with nobody to move.
SomeoneCanMove == []<>turn
============================================================================
