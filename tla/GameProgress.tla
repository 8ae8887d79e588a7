--------------------------- MODULE GameProgress ---------------------------
(***************************************************************************)
(* Whether a game of GameService comes to its end while the process lives, *)
(* its stores answer the manager and complete_game, and the turn keys      *)
(* expire when their time is over.  When that is, and how it meets the     *)
(* manager's sleep, is TurnClock's; here a key may expire at any moment.   *)
(***************************************************************************)
EXTENDS GameService

CONSTANT RequestsMayFail     \* whether a request may end at any of its calls

ASSUME RequestsAssumption == RequestsMayFail \in BOOLEAN

SubmitContinues(r) ==
    \/ SubmitReadTurn(r) \/ SubmitClaim(r)
    \/ SubmitReject(r) \/ SubmitApply(r)
    \/ SubmitAppend(r) \/ SubmitSave(r) \/ SubmitAdvance(r)

FairNext ==
    \/ \E r \in Requests : SubmitStep(r)
    \/ \E r \in Requests : RequestsMayFail /\ SubmitFail(r)
    \/ ManagerStep
    \/ \E t \in Tasks : CompleteStep(t)
    \/ ExpireTurn

\* A started task is scheduled again, and the manager's sleep always elapses.
\* Nobody has to send a request, and no key has to expire.
Fairness ==
    /\ WF_vars(ManagerStep)
    /\ \A r \in Requests : WF_vars(SubmitContinues(r))
    /\ \A t \in Tasks : WF_vars(CompleteStep(t))

FairSpec == Init /\ [][FairNext]_vars /\ Fairness

----------------------------------------------------------------------------
(* Properties                                                              *)

Quiet == \A r \in Requests : pc[r] = "idle"

\* The hand is played: completed, or in a final position without a result,
\* for which complete_game writes nothing.
Played ==
    \/ status = "Completed"
    \/ Terminal(game.state) /\ ~Pays(game.state)

\* A hand its players abandon is played out by the timeouts: whatever the races
\* and failed requests before left in the row, the log and the turn key, once
\* the key is set and no request comes the manager alone gets it done, turn by
\* turn, unless one of the keys expires before the manager has looked.
AbandonedHandFinishes ==
    (turn \in Agents /\ Quiet /\ pc[Manager] = "sleep")
        ~> (Played \/ ~Quiet \/ turn = Expired)

----------------------------------------------------------------------------
(* What the repository's words say and the code does not do                *)

\* "Timeout = automatic fold": no hand stays unfinished for ever, not even
\* where every key lives until the manager looks.
EveryHandFinishes == <>(Played \/ turn = Expired)
============================================================================
