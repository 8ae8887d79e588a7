------------------------- MODULE GameServiceProofs -------------------------
(***************************************************************************)
(* What GameService guarantees for every game, any number of agents and    *)
(* any number of concurrent requests.                                      *)
(***************************************************************************)
EXTENDS GameService, TLAPS

\* What TypeOK says of the handlers' program counters and locals.
HandlersOK ==
    /\ pc \in [Tasks -> HandlerPC]
    /\ job \in [Tasks -> Jobs]
    /\ \A t \in Tasks : pc[t] \in Acting => job[t].agent \in Agents

\* A handler that ends or goes back to its loop forgets its locals.
LEMMA FinishTyped ==
    ASSUME HandlersOK, NEW t \in Tasks, NEW p \in HandlerPC \ Acting,
           Finish(t, p)
    PROVE  HandlersOK'
<1>1. NoJob \in Jobs
    BY RulesAssumption DEF NoJob, Jobs, Job, InitialRow, Players
<1> QED
    BY <1>1 DEF HandlersOK, Finish, Go

\* A handler that goes on keeps its locals, and acts only for an agent.
LEMMA GoTyped ==
    ASSUME HandlersOK, NEW t \in Tasks, NEW p \in HandlerPC, Go(t, p),
           UNCHANGED job, p \in Acting => job[t].agent \in Agents
    PROVE  HandlersOK'
    BY DEF HandlersOK, Go

\* The types of the variables are kept by every await of every handler.
LEMMA TypeStep == TypeOK /\ [Next]_vars => TypeOK'
<1> SUFFICES ASSUME TypeOK, [Next]_vars PROVE TypeOK'
    OBVIOUS
<1> USE RulesAssumption, FlagsAssumption
<1> USE DEF TypeOK, Players, Tasks, Row, Entry, Ack, Job, Jobs, NoJob,
            InitialRow, Status, HandlerPC, CompletionPC, Acting, rows,
            outputs, Go, Finish
<1>1. ASSUME NEW r \in Requests, NEW a \in Agents, NEW m \in Actions,
             SubmitReadGame(r, a, m)
      PROVE  TypeOK'
    BY <1>1 DEF SubmitReadGame
<1>2. ASSUME NEW r \in Requests, SubmitReadTurn(r) PROVE TypeOK'
  <2>1. job[r].agent \in Players /\ r \in Tasks
    OBVIOUS
  <2>2. HandlersOK'
    <3>1. CASE turn = job[r].agent /\ turn \in Agents /\ Go(r, "claim")
               /\ UNCHANGED job
      BY <2>1, <3>1, GoTyped DEF HandlersOK
    <3>2. CASE Finish(r, "idle")
      BY <2>1, <3>2, FinishTyped DEF HandlersOK
    <3> QED
      BY <1>2, <3>1, <3>2 DEF SubmitReadTurn
  <2> QED
    BY <1>2, <2>2 DEF SubmitReadTurn, HandlersOK
<1>3. ASSUME NEW r \in Requests, SubmitClaim(r) PROVE TypeOK'
    BY <1>3 DEF SubmitClaim
<1>4. ASSUME NEW r \in Requests, SubmitReject(r) PROVE TypeOK'
    BY <1>4 DEF SubmitReject
<1>5. ASSUME NEW r \in Requests, SubmitApply(r) PROVE TypeOK'
    BY <1>5 DEF SubmitApply, Computes
<1>6. ASSUME NEW r \in Requests, SubmitAppend(r) PROVE TypeOK'
  <2>1. /\ job[r].seq \in Nat /\ job[r].agent \in Agents
        /\ job[r].action \in Actions /\ job[r].new \in Positions
    BY <1>6 DEF SubmitAppend
  <2>2. CASE AppendLog(r) /\ Go(r, "save") /\ UNCHANGED job
    <3>1. DOMAIN log' \subseteq Nat \ {0}
      BY <2>1, <2>2 DEF AppendLog
    <3>2. \A k \in DOMAIN log' : log'[k] \in Entry
      BY <2>1, <2>2 DEF AppendLog
    <3> QED
      BY <1>6, <2>2, <3>1, <3>2 DEF SubmitAppend
  <2>3. CASE Finish(r, "idle") /\ UNCHANGED log
    BY <1>6, <2>3 DEF SubmitAppend
  <2> QED
    BY <1>6, <2>2, <2>3 DEF SubmitAppend
<1>7. ASSUME NEW r \in Requests, SubmitSave(r) PROVE TypeOK'
  <2>1. /\ job[r].seq \in Nat /\ job[r].agent \in Agents
        /\ job[r].action \in Actions /\ job[r].new \in Positions
    BY <1>7 DEF SubmitSave
  <2>2. game' \in Row
    BY <1>7, <2>1 DEF SubmitSave, SaveGame
  <2>3. acks' \subseteq Ack
    BY <1>7, <2>1 DEF SubmitSave, Accept
  <2>4. final' \in [Tasks -> Positions] /\ cpc' \in [Tasks -> CompletionPC]
    <3>1. CASE StartCompletion(r)
      BY <2>1, <3>1 DEF StartCompletion
    <3>2. CASE UNCHANGED <<cpc, final>>
      BY <3>2
    <3> QED
      BY <1>7, <3>1, <3>2 DEF SubmitSave
  <2>5. HandlersOK'
    <3>1. CASE Finish(r, "idle")
      BY <3>1, FinishTyped DEF HandlersOK
    <3>2. CASE Go(r, "advance") /\ UNCHANGED job
      BY <2>1, <3>2, GoTyped DEF HandlersOK
    <3> QED
      BY <1>7, <3>1, <3>2 DEF SubmitSave
  <2>6. UNCHANGED <<status, rows, turn, started, published>>
    BY <1>7 DEF SubmitSave
  <2> QED
    BY <2>2, <2>3, <2>4, <2>5, <2>6 DEF HandlersOK
<1>8. ASSUME NEW r \in Requests, SubmitAdvance(r) PROVE TypeOK'
    BY <1>8 DEF SubmitAdvance, SetTurn, Accept
<1>9. ASSUME NEW r \in Requests, SubmitFail(r) PROVE TypeOK'
    BY <1>9 DEF SubmitFail, SaveGame
<1>10. CASE ManagerStart
    BY <1>10 DEF ManagerStart, SetTurn
<1>11. CASE ManagerTick
    BY <1>11 DEF ManagerTick
<1>12. CASE ManagerReadTurn
    BY <1>12 DEF ManagerReadTurn
<1>13. CASE ManagerClaim
    BY <1>13 DEF ManagerClaim
<1>14. CASE ManagerApply
  <2>1. misses' \in [Agents -> Nat] /\ disconnected' \subseteq Agents
    <3>1. job[Manager].agent \in Agents
      BY <1>14 DEF ManagerApply
    <3>2. CASE UNCHANGED <<misses, disconnected>>
      BY <3>2
    <3>3. CASE /\ misses' = [misses EXCEPT ![job[Manager].agent] = @ + 1]
               /\ disconnected' = disconnected \cup
                     {a \in {job[Manager].agent} : misses[a] + 1 >= 3}
      BY <3>1, <3>3
    <3> QED
      BY <1>14, <3>2, <3>3 DEF ManagerApply
  <2>2. HandlersOK'
    <3>1. Manager \in Tasks /\ pc[Manager] = "apply"
      BY <1>14 DEF ManagerApply
    <3>2. CASE Computes(Manager) /\ Go(Manager, "append")
      BY <3>1, <3>2 DEF Computes, HandlersOK
    <3>3. CASE Finish(Manager, "sleep")
      BY <3>1, <3>3, FinishTyped DEF HandlersOK
    <3> QED
      BY <1>14, <3>2, <3>3 DEF ManagerApply
  <2>3. UNCHANGED <<status, game, log, result, stats, turn, cpc, final, outputs>>
    BY <1>14 DEF ManagerApply
  <2> QED
    BY <2>1, <2>2, <2>3 DEF HandlersOK
<1>15. CASE ManagerAppend
  <2>1. Manager \in Tasks /\ job[Manager].agent \in Agents
    BY <1>15 DEF ManagerAppend
  <2>2. DOMAIN log' \subseteq Nat \ {0} /\ \A k \in DOMAIN log' : log'[k] \in Entry
    <3>1. CASE AppendLog(Manager)
      BY <2>1, <3>1 DEF AppendLog
    <3>2. CASE UNCHANGED log
      BY <3>2
    <3> QED
      BY <1>15, <3>1, <3>2 DEF ManagerAppend
  <2>3. HandlersOK'
    BY <1>15, <2>1 DEF ManagerAppend, HandlersOK
  <2>4. UNCHANGED <<status, game, misses, disconnected, result, stats, turn,
                    cpc, final, outputs>>
    BY <1>15 DEF ManagerAppend
  <2> QED
    BY <2>2, <2>3, <2>4 DEF HandlersOK
<1>16. CASE ManagerSave
    BY <1>16 DEF ManagerSave, SaveGame, StartCompletion
<1>17. CASE ManagerAdvance
    BY <1>17 DEF ManagerAdvance, SetTurn
<1>18. CASE ManagerStop
    BY <1>18 DEF ManagerStop
<1>19. ASSUME NEW t \in Tasks, CompleteResult(t) PROVE TypeOK'
  <2>1. /\ cpc' \in [Tasks -> CompletionPC] /\ final' \in [Tasks -> Positions]
        /\ result' \in Positions \cup {None}
    BY <1>19 DEF CompleteResult, EndCompletion, CompletionGo
  <2> QED
    BY <1>19, <2>1 DEF CompleteResult
<1>20. ASSUME NEW t \in Tasks, CompleteStats(t) PROVE TypeOK'
    BY <1>20 DEF CompleteStats, Count, CompletionGo
<1>21. ASSUME NEW t \in Tasks, CompleteStatus(t) PROVE TypeOK'
    BY <1>21 DEF CompleteStatus, CompletionGo
<1>22. ASSUME NEW t \in Tasks, CompleteRoom(t) PROVE TypeOK'
    BY <1>22 DEF CompleteRoom, CompletionGo
<1>23. ASSUME NEW t \in Tasks, CompletePublish(t) PROVE TypeOK'
    BY <1>23 DEF CompletePublish, EndCompletion
<1>24. ASSUME NEW t \in Tasks, CompleteFail(t) PROVE TypeOK'
  <2>1. /\ cpc' \in [Tasks -> CompletionPC] /\ final' \in [Tasks -> Positions]
    BY <1>24 DEF CompleteFail, EndCompletion
  <2>2. stats' \in [Agents -> Nat]
    BY <1>24 DEF CompleteFail, Count
  <2> QED
    BY <1>24, <2>1, <2>2 DEF CompleteFail
<1>25. CASE ExpireTurn
    BY <1>25 DEF ExpireTurn
<1>26. CASE Crash
    BY <1>26 DEF Crash
<1>27. CASE UNCHANGED vars
    BY <1>27 DEF vars
<1> QED
    BY <1>1, <1>2, <1>3, <1>4, <1>5, <1>6, <1>7, <1>8, <1>9, <1>10, <1>11,
       <1>12, <1>13, <1>14, <1>15, <1>16, <1>17, <1>18, <1>19, <1>20, <1>21,
       <1>22, <1>23, <1>24, <1>25, <1>26, <1>27
       DEF Next, SubmitStep, ManagerStep, CompleteStep, Fault

\* Theorem: the types hold in every run, with any faults.
THEOREM TypeCorrect == Spec => []TypeOK
<1>1. Init => TypeOK
    BY RulesAssumption
       DEF Init, TypeOK, Players, Tasks, Row, Job, Jobs, NoJob, InitialRow,
           Status, HandlerPC, CompletionPC, Acting
<1> QED
    BY <1>1, TypeStep, PTL DEF Spec

-----------------------------------------------------------------------------
(* The log is append-only                                                  *)

LogGrows ==
    /\ DOMAIN log \subseteq DOMAIN log'
    /\ \A k \in DOMAIN log : log'[k] = log[k]

\* No handler rewrites or removes an entry: a sequence is written once.
LEMMA LogStep == TypeOK /\ [Next]_vars => LogGrows
<1> SUFFICES ASSUME TypeOK, [Next]_vars PROVE LogGrows
    OBVIOUS
<1>1. ASSUME NEW r \in Requests, SubmitAppend(r) PROVE LogGrows
    BY <1>1 DEF SubmitAppend, AppendLog, LogGrows
<1>2. CASE ManagerAppend
    BY <1>2 DEF ManagerAppend, AppendLog, LogGrows
<1>3. CASE UNCHANGED log
    BY <1>3 DEF LogGrows
<1> QED
    BY <1>1, <1>2, <1>3
       DEF Next, SubmitStep, ManagerStep, CompleteStep, Fault, vars, rows,
           SubmitReadGame, SubmitReadTurn, SubmitClaim, SubmitReject,
           SubmitApply, SubmitSave, SubmitAdvance, SubmitFail, ManagerStart,
           ManagerTick, ManagerReadTurn, ManagerClaim, ManagerApply,
           ManagerSave, ManagerAdvance, ManagerStop, CompleteResult,
           CompleteStats, CompleteStatus, CompleteRoom, CompletePublish,
           CompleteFail, ExpireTurn, Crash

-----------------------------------------------------------------------------
(* An accepted move is logged                                              *)

\* The log holds the move of a request, in its place.
Recorded(r) ==
    LET k == job[r].seq + 1 IN
    /\ k \in DOMAIN log
    /\ log[k].agent = job[r].agent
    /\ log[k].action = job[r].action
    /\ log[k].state = job[r].new

\* A request that may still answer accepted has its move in the log.
AcceptedInv ==
    /\ AcceptedIsLogged
    /\ \A r \in Requests : pc[r] \in {"save", "advance"} => Recorded(r)

\* A request whose locals stay, or that leaves save and advance, is no worse.
LEMMA RecordedStays ==
    ASSUME TypeOK, AcceptedInv, LogGrows, NEW r \in Requests,
           \/ pc'[r] \notin {"save", "advance"}
           \/ pc[r] \in {"save", "advance"} /\ job'[r] = job[r]
    PROVE  pc'[r] \in {"save", "advance"} => Recorded(r)'
    BY DEF TypeOK, AcceptedInv, LogGrows, Recorded

LEMMA AcceptedStep == TypeOK /\ AcceptedInv /\ [Next]_vars => AcceptedInv'
<1> SUFFICES ASSUME TypeOK, AcceptedInv, [Next]_vars PROVE AcceptedInv'
    OBVIOUS
<1> DEFINE SA == {"save", "advance"}
<1>1. LogGrows
    BY LogStep
<1>2. /\ pc \in [Tasks -> HandlerPC] /\ job \in [Tasks -> Jobs]
      /\ Requests \subseteq Tasks /\ Manager \notin Requests
    BY RulesAssumption DEF TypeOK, Tasks
<1>3. ASSUME UNCHANGED acks,
             \A r \in Requests : \/ pc'[r] \notin SA
                                 \/ pc[r] \in SA /\ job'[r] = job[r]
      PROVE  AcceptedInv'
  <2>1. AcceptedIsLogged'
    BY <1>1, <1>3 DEF AcceptedInv, AcceptedIsLogged, LogGrows
  <2> QED
    BY <1>1, <1>3, <2>1, RecordedStays DEF AcceptedInv
<1>4. ASSUME NEW r \in Requests, SubmitAppend(r) PROVE AcceptedInv'
  <2>1. CASE Finish(r, "idle")
    BY <1>2, <1>3, <1>4, <2>1 DEF SubmitAppend, outputs, Finish, Go
  <2>2. CASE AppendLog(r) /\ Go(r, "save") /\ UNCHANGED job
    <3>1. Recorded(r)'
      BY <1>2, <2>2 DEF Recorded, AppendLog, Jobs
    <3>2. ASSUME NEW q \in Requests, q # r
          PROVE  pc'[q] \in SA => Recorded(q)'
      BY <1>1, <1>2, <2>2, <3>2, RecordedStays DEF Go
    <3>3. AcceptedIsLogged'
      BY <1>1, <1>4 DEF SubmitAppend, outputs, AcceptedInv,
                        AcceptedIsLogged, LogGrows
    <3> QED
      BY <3>1, <3>2, <3>3 DEF AcceptedInv
  <2> QED
    BY <1>4, <2>1, <2>2 DEF SubmitAppend
<1>5. ASSUME NEW r \in Requests, SubmitSave(r) \/ SubmitAdvance(r)
      PROVE  AcceptedInv'
  <2>1. Recorded(r) /\ UNCHANGED log
    BY <1>5 DEF AcceptedInv, SubmitSave, SubmitAdvance, rows
  <2>2. Accept(r) \/ UNCHANGED acks
    BY <1>5 DEF SubmitSave, SubmitAdvance
  <2>3. AcceptedIsLogged'
    BY <2>1, <2>2 DEF AcceptedInv, AcceptedIsLogged, Accept, Recorded
  <2>4. ASSUME NEW q \in Requests
        PROVE  pc'[q] \notin SA \/ (pc[q] \in SA /\ job'[q] = job[q])
    BY <1>2, <1>5 DEF SubmitSave, SubmitAdvance, Finish, Go
  <2> QED
    BY <1>1, <2>3, <2>4, RecordedStays DEF AcceptedInv
<1>6. ASSUME NEW r \in Requests, NEW a \in Agents, NEW m \in Actions,
             SubmitReadGame(r, a, m)
      PROVE  AcceptedInv'
    BY <1>2, <1>3, <1>6 DEF SubmitReadGame, Go, outputs
<1>7. ASSUME NEW r \in Requests, SubmitReadTurn(r) \/ SubmitClaim(r)
                 \/ SubmitReject(r) \/ SubmitApply(r) \/ SubmitFail(r)
      PROVE  AcceptedInv'
    BY <1>2, <1>3, <1>7
       DEF SubmitReadTurn, SubmitClaim, SubmitReject, SubmitApply, Computes,
           SubmitFail, Finish, Go, outputs
<1>8. CASE ManagerStep \/ ManagerStop
  <2>1. UNCHANGED acks
    BY <1>8 DEF ManagerStep, ManagerStart, ManagerTick, ManagerReadTurn,
                ManagerClaim, ManagerApply, ManagerAppend, ManagerSave,
                ManagerAdvance, ManagerStop, outputs
  <2>2. ASSUME NEW q \in Requests PROVE pc'[q] = pc[q] /\ job'[q] = job[q]
    BY <1>2, <1>8
       DEF ManagerStep, ManagerStart, ManagerTick, ManagerReadTurn,
           ManagerClaim, ManagerApply, ManagerAppend, ManagerSave,
           ManagerAdvance, ManagerStop, Computes, Finish, Go
  <2> QED
    BY <1>3, <2>1, <2>2
<1>9. CASE Crash
    BY <1>2, <1>3, <1>9 DEF Crash, outputs
<1>10. CASE UNCHANGED <<pc, job, acks>>
    BY <1>3, <1>10
<1>11. ASSUME NEW t \in Tasks, CompleteStep(t) \/ CompleteFail(t)
       PROVE  UNCHANGED <<pc, job, acks>>
    BY <1>11 DEF CompleteStep, CompleteResult, CompleteStats, CompleteStatus,
                 CompleteRoom, CompletePublish, CompleteFail, outputs
<1>12. ExpireTurn \/ UNCHANGED vars => UNCHANGED <<pc, job, acks>>
    BY DEF ExpireTurn, vars, outputs
<1> QED
    BY <1>4, <1>5, <1>6, <1>7, <1>8, <1>9, <1>10, <1>11, <1>12
       DEF Next, SubmitStep, Fault

\* Theorem: whatever races, crashes or errors, a move answered accepted is
\* in the log with its agent and action at the sequence of the answer.
THEOREM AcceptedLogged == Spec => []AcceptedIsLogged
<1>1. Init => AcceptedInv
    BY RulesAssumption DEF Init, AcceptedInv, AcceptedIsLogged, Tasks
<1>2. AcceptedInv => AcceptedIsLogged
    BY DEF AcceptedInv
<1> QED
    BY <1>1, <1>2, AcceptedStep, TypeCorrect, PTL DEF Spec

-----------------------------------------------------------------------------
(* The sequence number and the position's own turn number                  *)

\* A handler's copy of the row and the position it computed count alike.
CountsAlike(t) ==
    /\ TurnNumber(job[t].state) = job[t].seq + 1
    /\ pc[t] \in {"append", "save", "advance"} =>
          TurnNumber(job[t].new) = job[t].seq + 2

SequenceInv == SequenceMatchesTurn /\ \A t \in Tasks : CountsAlike(t)

\* Forgetting the locals, or keeping them, keeps the counts.
LEMMA FinishCounts ==
    ASSUME TypeOK, SequenceInv, NEW t \in Tasks,
           NEW p \in HandlerPC \ Acting, Finish(t, p)
    PROVE  \A u \in Tasks : CountsAlike(u)'
<1>1. NoJob.state = InitialPosition /\ NoJob.seq = 0
    BY DEF NoJob, Job, InitialRow
<1> QED
    BY <1>1, RulesAssumption
       DEF TypeOK, SequenceInv, Finish, Go, CountsAlike, Acting

LEMMA GoCounts ==
    ASSUME TypeOK, SequenceInv, NEW t \in Tasks, NEW p, Go(t, p),
           UNCHANGED job,
           \/ p \notin {"append", "save", "advance"}
           \/ pc[t] \in {"append", "save", "advance"}
    PROVE  \A u \in Tasks : CountsAlike(u)'
    BY DEF TypeOK, SequenceInv, Go, CountsAlike

LEMMA ComputeCounts ==
    ASSUME TypeOK, SequenceInv, NEW t \in Tasks, job[t].agent \in Agents,
           Computes(t), NEW p, Go(t, p)
    PROVE  \A u \in Tasks : CountsAlike(u)'
<1> DEFINE j == job[t]
<1>1. j \in Jobs
    BY DEF TypeOK
<1>2. /\ j.state \in Positions /\ j.action \in Actions /\ j.seq \in Nat
      /\ TurnNumber(j.state) = j.seq + 1
    BY <1>1 DEF Jobs, SequenceInv, CountsAlike
<1>3. /\ job'[t].state = j.state /\ job'[t].seq = j.seq
      /\ job'[t].new = Apply(j.state, j.agent, j.action)
    BY DEF TypeOK, Computes, Job
<1>4. TurnNumber(Apply(j.state, j.agent, j.action)) = j.seq + 2
    BY <1>2, RulesAssumption DEF Computes
<1>5. CountsAlike(t)'
    BY <1>2, <1>3, <1>4 DEF CountsAlike
<1>6. ASSUME NEW u \in Tasks, u # t PROVE CountsAlike(u)'
    BY <1>6 DEF TypeOK, Computes, Go, SequenceInv, CountsAlike
<1> QED
    BY <1>5, <1>6

LEMMA SequenceStep == TypeOK /\ SequenceInv /\ [Next]_vars => SequenceInv'
<1> SUFFICES ASSUME TypeOK, SequenceInv, [Next]_vars PROVE SequenceInv'
    OBVIOUS
<1> USE DEF Tasks
<1>1. ASSUME NEW t \in Tasks, SaveGame(t), pc[t] = "save"
      PROVE  SequenceMatchesTurn'
    BY <1>1 DEF SaveGame, SequenceInv, CountsAlike, SequenceMatchesTurn,
                TypeOK, Jobs
<1>2. UNCHANGED game => SequenceMatchesTurn'
    BY DEF SequenceInv, SequenceMatchesTurn
<1>3. ASSUME NEW r \in Requests, NEW a \in Agents, NEW m \in Actions,
             SubmitReadGame(r, a, m)
      PROVE  SequenceInv'
    BY <1>2, <1>3 DEF SubmitReadGame, Go, Job, SequenceInv, CountsAlike,
                      SequenceMatchesTurn, TypeOK
<1>4. ASSUME NEW r \in Requests, SubmitReadTurn(r) \/ SubmitReject(r)
                 \/ SubmitClaim(r) \/ SubmitAppend(r)
      PROVE  SequenceInv'
    BY <1>2, <1>4, FinishCounts, GoCounts
       DEF SubmitReadTurn, SubmitReject, SubmitClaim, SubmitAppend,
           SequenceInv, HandlerPC, Acting
<1>5. ASSUME NEW r \in Requests, SubmitApply(r) PROVE SequenceInv'
    BY <1>2, <1>5, ComputeCounts DEF SubmitApply, SequenceInv, TypeOK, Acting
<1>6. ASSUME NEW r \in Requests, SubmitSave(r) PROVE SequenceInv'
  <2>1. \A u \in Tasks : CountsAlike(u)'
    BY <1>6, FinishCounts, GoCounts DEF SubmitSave, HandlerPC, Acting
  <2> QED
    BY <1>1, <1>6, <2>1 DEF SubmitSave, SequenceInv
<1>7. ASSUME NEW r \in Requests, SubmitAdvance(r) PROVE SequenceInv'
    BY <1>2, <1>7, FinishCounts DEF SubmitAdvance, SequenceInv, HandlerPC,
                                    Acting
<1>8. ASSUME NEW r \in Requests, SubmitFail(r) PROVE SequenceInv'
    BY <1>1, <1>2, <1>8, FinishCounts DEF SubmitFail, SequenceInv, HandlerPC,
                                          Acting
<1>9. CASE ManagerStart \/ ManagerClaim \/ ManagerAppend
    BY <1>2, <1>9, GoCounts
       DEF ManagerStart, ManagerClaim, ManagerAppend, SequenceInv
<1>10. CASE ManagerTick
  <2>1. CASE Finish(Manager, "stopped")
    BY <1>2, <1>10, <2>1, FinishCounts DEF ManagerTick, SequenceInv,
                                           HandlerPC, Acting
  <2>2. CASE ~Finish(Manager, "stopped")
    BY <1>2, <1>10, <2>2 DEF ManagerTick, Go, Job, SequenceInv, CountsAlike,
                             SequenceMatchesTurn, TypeOK
  <2> QED
    BY <2>1, <2>2
<1>11. CASE ManagerReadTurn
  <2>1. CASE Finish(Manager, "sleep")
    BY <1>2, <1>11, <2>1, FinishCounts DEF ManagerReadTurn, SequenceInv,
                                           HandlerPC, Acting
  <2>2. CASE ~Finish(Manager, "sleep")
    BY <1>2, <1>11, <2>2 DEF ManagerReadTurn, Go, Job, SequenceInv,
                             CountsAlike, SequenceMatchesTurn, TypeOK
  <2> QED
    BY <2>1, <2>2
<1>12. CASE ManagerApply
    BY <1>2, <1>12, ComputeCounts, FinishCounts
       DEF ManagerApply, SequenceInv, TypeOK, HandlerPC, Acting
<1>13. CASE ManagerSave
  <2>1. \A u \in Tasks : CountsAlike(u)'
    BY <1>13, FinishCounts, GoCounts DEF ManagerSave, HandlerPC, Acting
  <2> QED
    BY <1>1, <1>2, <1>13, <2>1 DEF ManagerSave, SequenceInv
<1>14. CASE ManagerAdvance \/ ManagerStop
    BY <1>2, <1>14, FinishCounts
       DEF ManagerAdvance, ManagerStop, SequenceInv, HandlerPC, Acting
<1>15. CASE Crash
    BY <1>2, <1>15, RulesAssumption
       DEF Crash, SequenceInv, CountsAlike, NoJob, Job, InitialRow, rows
<1>16. CASE UNCHANGED <<pc, job, game>>
    BY <1>16 DEF SequenceInv, CountsAlike, SequenceMatchesTurn
<1>17. ASSUME NEW t \in Tasks, CompleteStep(t) \/ CompleteFail(t)
       PROVE  UNCHANGED <<pc, job, game>>
    BY <1>17 DEF CompleteStep, CompleteResult, CompleteStats, CompleteStatus,
                 CompleteRoom, CompletePublish, CompleteFail
<1>18. ExpireTurn \/ UNCHANGED vars => UNCHANGED <<pc, job, game>>
    BY DEF ExpireTurn, vars
<1> QED
    BY <1>3, <1>4, <1>5, <1>6, <1>7, <1>8, <1>9, <1>10, <1>11, <1>12, <1>13,
       <1>14, <1>15, <1>16, <1>17, <1>18
       DEF Next, SubmitStep, ManagerStep, Fault

\* Theorem: the sequence number beside the stored position is always the
\* number of moves that position counts.
THEOREM SequenceMatches == Spec => []SequenceMatchesTurn
<1>1. Init => SequenceInv
    BY RulesAssumption
       DEF Init, SequenceInv, SequenceMatchesTurn, CountsAlike, NoJob, Job,
           InitialRow, Tasks
<1>2. SequenceInv => SequenceMatchesTurn
    BY DEF SequenceInv
<1> QED
    BY <1>1, <1>2, SequenceStep, TypeCorrect, PTL DEF Spec

-----------------------------------------------------------------------------
(* One result, one settlement                                              *)

Completing == {"stats", "status", "room", "publish"}

\* What the writes of complete_game have reached, as a stage.
Reached(n) ==
    /\ \A a \in Agents : stats[a] = IF n >= 1 THEN 1 ELSE 0
    /\ status = IF n >= 2 THEN "Completed" ELSE "InProgress"
    /\ started = IF n >= 3 THEN 1 ELSE 0
    /\ published = 0

\* At most one task is past save_result, and what it has written is exactly
\* what its place says; before the result is saved nothing is written.
CompletionInv ==
    /\ CompletesOnce
    /\ started \in {0, 1}
    /\ result # None => Terminal(result)
    /\ result = None => Reached(0)
    /\ \A t \in Tasks : cpc[t] \in Completing =>
          /\ result # None
          /\ \A u \in Tasks : cpc[u] \in Completing => u = t
    /\ \A t \in Tasks :
          /\ cpc[t] = "stats" => Reached(0)
          /\ cpc[t] = "status" => Reached(1)
          /\ cpc[t] = "room" => Reached(2)
          /\ cpc[t] = "publish" => Reached(3)

\* The variables complete_game writes, besides its own place.
written == <<stats, status, started, published, result>>

\* A step that starts or ends tasks and writes nothing keeps the invariant.
LEMMA CompletionFrame ==
    ASSUME TypeOK, CompletionInv, UNCHANGED written,
           \A t \in Tasks : cpc'[t] \in Completing => cpc'[t] = cpc[t]
    PROVE  CompletionInv'
    BY DEF CompletionInv, CompletesOnce, Reached, Completing, written

LEMMA CompletionStep ==
    TypeOK /\ CompletionInv /\ [Next]_vars => CompletionInv'
<1> SUFFICES ASSUME TypeOK, CompletionInv, [Next]_vars PROVE CompletionInv'
    OBVIOUS
<1>0. cpc \in [Tasks -> CompletionPC] /\ stats \in [Agents -> Nat]
    BY DEF TypeOK
<1>1. ASSUME NEW t \in Tasks, CompleteResult(t) PROVE CompletionInv'
  <2>1. CASE Pays(final[t]) /\ result = None
    <3>1. /\ result' = final[t] /\ cpc' = [cpc EXCEPT ![t] = "stats"]
          /\ UNCHANGED <<stats, status, started, published>>
      BY <1>1, <2>1 DEF CompleteResult, CompletionGo, outputs
    <3>2. result' # None /\ Terminal(result')
      BY <2>1, <3>1, RulesAssumption DEF TypeOK
    <3>3. \A u \in Tasks : cpc[u] \notin Completing
      BY <2>1 DEF CompletionInv
    <3>4. Reached(0)'
      BY <2>1, <3>1 DEF CompletionInv, Reached
    <3> QED
      BY <1>0, <3>1, <3>2, <3>3, <3>4
         DEF CompletionInv, CompletesOnce, Reached, Completing
  <2>2. CASE ~Pays(final[t]) \/ result # None
    BY <1>0, <1>1, <2>2, CompletionFrame
       DEF CompleteResult, EndCompletion, Completing, written, outputs
  <2> QED
    BY <2>1, <2>2
<1>2. ASSUME NEW t \in Tasks, CompleteStats(t) PROVE CompletionInv'
  <2>1. Reached(0) /\ result # None
    BY <1>2 DEF CompleteStats, CompletionInv, Completing
  <2>2. Reached(1)'
    BY <1>0, <1>2, <2>1 DEF CompleteStats, Count, Reached, outputs
  <2> QED
    BY <1>0, <1>2, <2>1, <2>2
       DEF CompleteStats, CompletionGo, CompletionInv, CompletesOnce,
           Reached, Completing, outputs
<1>3. ASSUME NEW t \in Tasks, CompleteStatus(t) PROVE CompletionInv'
  <2>1. Reached(1) /\ result # None
    BY <1>3 DEF CompleteStatus, CompletionInv, Completing
  <2>2. Reached(2)' /\ result' = result
    BY <1>3, <2>1 DEF CompleteStatus, Reached, outputs, rows
  <2> QED
    BY <1>0, <1>3, <2>1, <2>2
       DEF CompleteStatus, CompletionGo, CompletionInv, CompletesOnce,
           Reached, Completing
<1>4. ASSUME NEW t \in Tasks, CompleteRoom(t) PROVE CompletionInv'
  <2>1. Reached(2) /\ result # None
    BY <1>4 DEF CompleteRoom, CompletionInv, Completing
  <2>2. Reached(3)' /\ result' = result
    BY <1>4, <2>1 DEF CompleteRoom, Reached, rows
  <2> QED
    BY <1>0, <1>4, <2>1, <2>2
       DEF CompleteRoom, CompletionGo, CompletionInv, CompletesOnce,
           Reached, Completing
<1>5. ASSUME NEW t \in Tasks, CompletePublish(t) PROVE CompletionInv'
  <2>1. Reached(3) /\ result # None
    BY <1>5 DEF CompletePublish, CompletionInv, Completing
  <2> QED
    BY <1>0, <1>5, <2>1
       DEF CompletePublish, EndCompletion, CompletionInv, CompletesOnce,
           Reached, Completing, rows
<1>6. ASSUME NEW t \in Tasks, CompleteFail(t) PROVE CompletionInv'
  <2>1. \A u \in Tasks : cpc'[u] \in Completing => cpc'[u] = cpc[u] /\ u # t
    BY <1>0, <1>6 DEF CompleteFail, EndCompletion, Completing
  <2>2. CASE UNCHANGED stats
    BY <1>6, <2>1, <2>2, CompletionFrame DEF CompleteFail, written, outputs
  <2>3. CASE cpc[t] = "stats" /\ \E counted \in SUBSET Agents : Count(counted)
    <3>1. Reached(0) /\ result # None
      BY <2>3 DEF CompletionInv, Completing
    <3>2. \A u \in Tasks : cpc'[u] \notin Completing
      BY <2>1, <2>3 DEF CompletionInv, Completing
    <3>3. \A a \in Agents : stats'[a] \in {0, 1}
      BY <1>0, <1>6, <2>3, <3>1 DEF CompleteFail, Count, Reached
    <3> QED
      BY <1>6, <2>3, <3>1, <3>2, <3>3
         DEF CompleteFail, CompletionInv, CompletesOnce, Reached, Completing,
             outputs
  <2> QED
    BY <1>6, <2>2, <2>3 DEF CompleteFail
<1>7. ASSUME NEW t \in Tasks, StartCompletion(t), UNCHANGED written
      PROVE  CompletionInv'
    BY <1>0, <1>7, CompletionFrame DEF StartCompletion, Completing
<1>8. CASE UNCHANGED <<written, cpc>>
    BY <1>8, CompletionFrame DEF written
<1>9. CASE Crash
    BY <1>9, CompletionFrame DEF Crash, written, rows, outputs, Completing
<1>10. ASSUME NEW r \in Requests, SubmitStep(r) \/ SubmitFail(r)
       PROVE  CompletionInv'
    BY <1>7, <1>8, <1>10
       DEF SubmitStep, SubmitReadGame, SubmitReadTurn, SubmitClaim,
           SubmitReject, SubmitApply, SubmitAppend, SubmitSave,
           SubmitAdvance, SubmitFail, written, rows, outputs, Tasks
<1>11. CASE ManagerStep \/ ManagerStop
    BY <1>7, <1>8, <1>11
       DEF ManagerStep, ManagerStart, ManagerTick, ManagerReadTurn,
           ManagerClaim, ManagerApply, ManagerAppend, ManagerSave,
           ManagerAdvance, ManagerStop, written, rows, outputs, Tasks
<1>12. ExpireTurn \/ UNCHANGED vars => UNCHANGED <<written, cpc>>
    BY DEF ExpireTurn, vars, written, rows, outputs
<1> QED
    BY <1>1, <1>2, <1>3, <1>4, <1>5, <1>6, <1>8, <1>9, <1>10, <1>11, <1>12
       DEF Next, CompleteStep, Fault

\* Theorem: however many complete_game tasks race, one result is saved from a
\* finished position, each player is counted once and one settlement starts.
THEOREM CompletedOnce == Spec => []CompletesOnce
<1>1. Init => CompletionInv
    BY RulesAssumption
       DEF Init, CompletionInv, CompletesOnce, Reached, Completing
<1>2. CompletionInv => CompletesOnce
    BY DEF CompletionInv
<1> QED
    BY <1>1, <1>2, CompletionStep, TypeCorrect, PTL DEF Spec

\* Theorem: no later step takes back a saved result or a Completed status.
THEOREM CompletionFinal == Spec => CompletionIsFinal
<1> DEFINE Final == /\ result # None => result' = result
                    /\ status = "Completed" => status' = "Completed"
<1>1. ASSUME [Next]_vars PROVE Final
  <2>1. CASE UNCHANGED <<result, status>>
    BY <2>1
  <2>2. ASSUME NEW t \in Tasks, CompleteStep(t) \/ CompleteFail(t)
        PROVE  Final
    BY <2>2 DEF CompleteStep, CompleteResult, CompleteStats, CompleteStatus,
                CompleteRoom, CompletePublish, CompleteFail, rows
  <2> QED
    BY <1>1, <2>1, <2>2
       DEF Next, SubmitStep, ManagerStep, Fault, vars, rows,
           SubmitReadGame, SubmitReadTurn, SubmitClaim, SubmitReject,
           SubmitApply, SubmitAppend, SubmitSave, SubmitAdvance, SubmitFail,
           ManagerStart, ManagerTick, ManagerReadTurn, ManagerClaim,
           ManagerApply, ManagerAppend, ManagerSave, ManagerAdvance,
           ManagerStop, ExpireTurn, Crash
<1>2. [Next]_vars => [Final]_vars
    BY <1>1
<1> QED
    BY <1>2, PTL DEF Spec, CompletionIsFinal

\* A result is saved only where Game::result has one, whichever of the racing
\* complete_game tasks saves it.
LEMMA ResultIsPayable == Spec => [](result # None => Pays(result))
<1> DEFINE Payable == result # None => Pays(result)
<1>1. Init => Payable
  BY DEF Init
<1>2. ASSUME Payable, [Next]_vars PROVE Payable'
  <2>1. CASE UNCHANGED result
    BY <1>2, <2>1
  <2>2. ASSUME NEW t \in Tasks, CompleteStep(t) \/ CompleteFail(t)
        PROVE  Payable'
    BY <1>2, <2>2
       DEF CompleteStep, CompleteResult, CompleteStats, CompleteStatus,
           CompleteRoom, CompletePublish, CompleteFail, rows
  <2> QED
    BY <1>2, <2>1, <2>2
       DEF Next, SubmitStep, ManagerStep, Fault, vars, rows,
           SubmitReadGame, SubmitReadTurn, SubmitClaim, SubmitReject,
           SubmitApply, SubmitAppend, SubmitSave, SubmitAdvance, SubmitFail,
           ManagerStart, ManagerTick, ManagerReadTurn, ManagerClaim,
           ManagerApply, ManagerAppend, ManagerSave, ManagerAdvance,
           ManagerStop, ExpireTurn, Crash
<1> QED
  BY <1>1, <1>2, PTL DEF Spec

-----------------------------------------------------------------------------
(* The log has no gap                                                      *)

Known == DOMAIN log \cup {0}

\* Every copy of the row is of a logged sequence, and a handler about to save
\* has its entry in place.
GapInv ==
    /\ LogHasNoGap
    /\ \A t \in Tasks :
          /\ job[t].seq \in Known
          /\ pc[t] = "save" => job[t].seq + 1 \in DOMAIN log
    /\ ~TurnsTimeOut => pc[Manager] \in {"start", "sleep", "stopped"}

\* The manager's append is never lost: it fails on a taken sequence only, or
\* the manager never appends.
Reliable == ~WritesMayFail \/ ~TurnsTimeOut

LEMMA GapStep ==
    ASSUME Reliable
    PROVE  TypeOK /\ GapInv /\ [Next]_vars => GapInv'
<1> SUFFICES ASSUME TypeOK, GapInv, [Next]_vars PROVE GapInv'
    OBVIOUS
<1> USE DEF Tasks
<1> DEFINE Jobwise(t) == /\ job[t].seq \in Known
                         /\ pc[t] = "save" => job[t].seq + 1 \in DOMAIN log
           Idle == ~TurnsTimeOut => pc[Manager] \in {"start", "sleep", "stopped"}
<1>0. /\ pc \in [Tasks -> HandlerPC] /\ job \in [Tasks -> Jobs]
      /\ DOMAIN log \subseteq Nat \ {0} /\ Manager \notin Requests
      /\ NoJob.seq = 0 /\ game.seq \in Known
    BY RulesAssumption DEF TypeOK, NoJob, Job, InitialRow, GapInv,
                           LogHasNoGap, Known
<1>1. LogGrows
    BY LogStep
\* A step that appends nothing and saves at most one entry it has.
<1>2. ASSUME UNCHANGED log,
             UNCHANGED game \/ \E t \in Tasks : pc[t] = "save" /\ SaveGame(t)
      PROVE  LogHasNoGap'
    BY <1>2 DEF GapInv, LogHasNoGap, SaveGame
\* An append lands right behind the entries there are.
<1>3. ASSUME NEW t \in Tasks, AppendLog(t), UNCHANGED game PROVE LogHasNoGap'
  <2>1. \A j \in 1..job[t].seq : j \in DOMAIN log
    BY <1>0, <1>3 DEF GapInv, LogHasNoGap, Known, Jobs
  <2>2. DOMAIN log' = DOMAIN log \cup {job[t].seq + 1}
    BY <1>3 DEF AppendLog
  <2>3. job[t].seq \in Nat
    BY <1>0 DEF Jobs
  <2>4. \A j \in 1..(job[t].seq + 1) : j \in DOMAIN log'
    BY <2>1, <2>2, <2>3
  <2> QED
    BY <1>3, <2>2, <2>4 DEF GapInv, LogHasNoGap
<1>4. ASSUME NEW t \in Tasks,
             \/ job'[t].seq = job[t].seq
             \/ job'[t].seq = 0
             \/ job'[t].seq = game.seq,
             \/ pc'[t] # "save"
             \/ job'[t] = job[t] /\ pc[t] = "save"
      PROVE  Jobwise(t)'
    BY <1>0, <1>1, <1>4 DEF GapInv, Known, LogGrows
<1>5. ASSUME NEW r \in Requests, SubmitStep(r) \/ SubmitFail(r)
      PROVE  GapInv'
  <2>1. LogHasNoGap'
    BY <1>2, <1>3, <1>5
       DEF SubmitStep, SubmitReadGame, SubmitReadTurn, SubmitClaim,
           SubmitReject, SubmitApply, SubmitAppend, SubmitSave,
           SubmitAdvance, SubmitFail, rows
  <2>2. Idle'
    BY <1>0, <1>5
       DEF SubmitStep, SubmitReadGame, SubmitReadTurn, SubmitClaim,
           SubmitReject, SubmitApply, SubmitAppend, SubmitSave,
           SubmitAdvance, SubmitFail, Finish, Go, GapInv
  <2>3. ASSUME NEW t \in Tasks, t # r PROVE Jobwise(t)'
    BY <1>0, <1>4, <1>5, <2>3
       DEF SubmitStep, SubmitReadGame, SubmitReadTurn, SubmitClaim,
           SubmitReject, SubmitApply, Computes, SubmitAppend, SubmitSave,
           SubmitAdvance, SubmitFail, Finish, Go
  <2>4. CASE SubmitAppend(r)
    <3>1. Jobwise(r)'
      <4>1. CASE UNCHANGED job /\ AppendLog(r)
        BY <1>0, <1>1, <4>1 DEF AppendLog, GapInv, Known, LogGrows
      <4>2. CASE Finish(r, "idle")
        BY <1>0, <1>4, <4>2 DEF Finish, Go
      <4> QED
        BY <2>4, <4>1, <4>2 DEF SubmitAppend
    <3> QED
      BY <2>1, <2>2, <2>3, <3>1 DEF GapInv
  <2>5. CASE ~SubmitAppend(r)
    <3>1. Jobwise(r)'
      BY <1>0, <1>4, <1>5, <2>5
         DEF SubmitStep, SubmitReadGame, SubmitReadTurn, SubmitClaim,
             SubmitReject, SubmitApply, Computes, SubmitSave,
             SubmitAdvance, SubmitFail, Finish, Go, Job
    <3> QED
      BY <2>1, <2>2, <2>3, <3>1 DEF GapInv
  <2> QED
    BY <2>4, <2>5
<1>6. CASE ManagerStep \/ ManagerStop
  <2>1. LogHasNoGap'
    BY <1>2, <1>3, <1>6
       DEF ManagerStep, ManagerStart, ManagerTick, ManagerReadTurn,
           ManagerClaim, ManagerApply, ManagerAppend, ManagerSave,
           ManagerAdvance, ManagerStop, rows
  <2>2. Idle'
    BY <1>0, <1>6
       DEF ManagerStep, ManagerStart, ManagerTick, ManagerReadTurn,
           ManagerClaim, ManagerApply, ManagerAppend, ManagerSave,
           ManagerAdvance, ManagerStop, Finish, Go, GapInv
  <2>3. ASSUME NEW t \in Tasks, t # Manager PROVE Jobwise(t)'
    BY <1>0, <1>4, <1>6, <2>3
       DEF ManagerStep, ManagerStart, ManagerTick, ManagerReadTurn,
           ManagerClaim, ManagerApply, Computes, ManagerAppend, ManagerSave,
           ManagerAdvance, ManagerStop, Finish, Go
  <2>4. CASE ManagerAppend
    <3>1. job[Manager].seq + 1 \in DOMAIN log'
      BY <2>4 DEF ManagerAppend, AppendLog, Reliable, GapInv
    <3>2. Jobwise(Manager)'
      BY <1>0, <1>1, <2>4, <3>1 DEF ManagerAppend, GapInv, Known, LogGrows
    <3> QED
      BY <2>1, <2>2, <2>3, <3>2 DEF GapInv
  <2>5. CASE ~ManagerAppend
    <3>1. Jobwise(Manager)'
      BY <1>0, <1>4, <1>6, <2>5
         DEF ManagerStep, ManagerStart, ManagerTick, ManagerReadTurn,
             ManagerClaim, ManagerApply, Computes, ManagerSave,
             ManagerAdvance, ManagerStop, Finish, Go, Job
    <3> QED
      BY <2>1, <2>2, <2>3, <3>1 DEF GapInv
  <2> QED
    BY <2>4, <2>5
<1>7. CASE Crash
    BY <1>0, <1>2, <1>7 DEF Crash, GapInv, Known, rows
<1>8. CASE UNCHANGED <<log, game, pc, job>>
    BY <1>8 DEF GapInv, LogHasNoGap, Known
<1>9. ASSUME NEW t \in Tasks, CompleteStep(t) \/ CompleteFail(t)
      PROVE  UNCHANGED <<log, game, pc, job>>
    BY <1>9 DEF CompleteStep, CompleteResult, CompleteStats, CompleteStatus,
                CompleteRoom, CompletePublish, CompleteFail, rows
<1>10. ExpireTurn \/ UNCHANGED vars => UNCHANGED <<log, game, pc, job>>
    BY DEF ExpireTurn, vars, rows
<1> QED
    BY <1>5, <1>6, <1>7, <1>8, <1>9, <1>10 DEF Next, Fault

\* Theorem: when the writes whose errors the manager ignores do not fail, or
\* no turn times out, the sequences of the log are 1 up to some number and
\* the row is not ahead of them.
THEOREM NoGap == ASSUME Reliable PROVE Spec => []LogHasNoGap
<1>1. Init => GapInv
    BY RulesAssumption
       DEF Init, GapInv, LogHasNoGap, Known, NoJob, Job, InitialRow, Tasks
<1>2. GapInv => LogHasNoGap
    BY DEF GapInv
<1> QED
    BY <1>1, <1>2, GapStep, TypeCorrect, PTL DEF Spec

----------------------------------------------------------------------------
(* While no turn times out, the handlers implement the ledger of           *)
(* GameLedger, whatever requests race, fail or crash.                      *)

\* Each entry is a legal move from the position before it.
Replays ==
    \A k \in DOMAIN log :
        LET s == LoggedPosition(k - 1) IN
        /\ Valid(s, log[k].agent, log[k].action)
        /\ Applies(s, log[k].agent, log[k].action)
        /\ log[k].state = Apply(s, log[k].agent, log[k].action)

\* A request works on a logged position; what it is about to append is a
\* legal move from it.
RequestInv(r) ==
    LET j == job[r] IN
    /\ j.seq <= game.seq
    /\ j.state = LoggedPosition(j.seq)
    /\ pc[r] = "append" =>
          /\ Valid(j.state, j.agent, j.action)
          /\ Applies(j.state, j.agent, j.action)
          /\ j.new = Apply(j.state, j.agent, j.action)
    /\ pc[r] = "save" => j.seq = game.seq

\* The log is at most one entry ahead of the row; that entry belongs to the
\* one request that may still save, and a finished hand has none.
LedgerInv ==
    /\ RowIsLogged
    /\ Replays
    /\ \A k \in DOMAIN log : k <= game.seq + 1
    /\ \A r \in Requests : RequestInv(r)
    /\ \A q, r \in Requests : pc[q] = "save" /\ pc[r] = "save" => q = r
    /\ \A t \in Tasks : cpc[t] = "result" =>
          /\ final[t] = game.state /\ Terminal(final[t])
          /\ game.seq + 1 \notin DOMAIN log

\* What the other invariants say, for the steps below.
Base == TypeOK /\ AcceptedInv /\ GapInv /\ ~TurnsTimeOut

\* Logged positions do not change.
LEMMA PositionsStay ==
    ASSUME LogGrows, NEW n \in Known
    PROVE  LoggedPosition(n)' = LoggedPosition(n)
    BY DEF LogGrows, Known, LoggedPosition

\* A step that leaves the log and the row alone only has to keep requests
\* from reaching append and save with other locals.
LEMMA LedgerFrame ==
    ASSUME Base, LedgerInv, UNCHANGED <<log, game>>,
           \A r \in Requests :
              \/ pc'[r] = pc[r] /\ job'[r] = job[r]
              \/ pc'[r] \notin {"append", "save"} /\ RequestInv(r)',
           \A t \in Tasks : cpc'[t] = "result" =>
              cpc[t] = "result" /\ final'[t] = final[t]
    PROVE  LedgerInv'
<1>1. RowIsLogged' /\ Replays'
    BY DEF LedgerInv, RowIsLogged, Replays, LoggedPosition
<1>2. \A r \in Requests : RequestInv(r)'
    BY DEF LedgerInv, RequestInv, LoggedPosition
<1> QED
    BY <1>1, <1>2 DEF LedgerInv

\* A request that forgets its locals is back at the first position.
LEMMA ForgetInv ==
    ASSUME Base, NEW r \in Requests, job'[r] = NoJob, pc'[r] = "idle",
           game'.seq \in Nat
    PROVE  RequestInv(r)'
    BY DEF RequestInv, NoJob, Job, InitialRow, LoggedPosition

LEMMA LedgerStep == Base /\ LedgerInv /\ [Next]_vars => LedgerInv'
<1> SUFFICES ASSUME Base, LedgerInv, [Next]_vars PROVE LedgerInv'
    OBVIOUS
<1>0. /\ pc \in [Tasks -> HandlerPC] /\ job \in [Tasks -> Jobs]
      /\ cpc \in [Tasks -> CompletionPC] /\ final \in [Tasks -> Positions]
      /\ DOMAIN log \subseteq Nat \ {0} /\ game \in Row /\ game.seq \in Nat
      /\ Requests \subseteq Tasks /\ Manager \notin Requests
      /\ \A t \in Tasks : job[t].seq \in Nat
    BY RulesAssumption DEF Base, TypeOK, Tasks, Row, Jobs
<1>1. LogGrows
    BY LogStep DEF Base
<1>2. ASSUME NEW r \in Requests, Finish(r, "idle"), UNCHANGED <<log, game>>,
             UNCHANGED <<cpc, final>>
      PROVE  LedgerInv'
  <2>1. RequestInv(r)' /\ pc'[r] \notin {"append", "save"}
    BY <1>0, <1>2, ForgetInv DEF Finish, Go
  <2>2. ASSUME NEW q \in Requests, q # r
        PROVE  pc'[q] = pc[q] /\ job'[q] = job[q]
    BY <1>0, <1>2, <2>2 DEF Finish, Go
  <2> QED
    BY <1>2, <2>1, <2>2, LedgerFrame
<1>3. ASSUME NEW r \in Requests, NEW p \in HandlerPC \ {"append", "save"},
             Go(r, p), UNCHANGED <<log, game, job, cpc, final>>
      PROVE  LedgerInv'
  <2>1. RequestInv(r)' /\ pc'[r] \notin {"append", "save"}
    BY <1>0, <1>3 DEF Go, LedgerInv, RequestInv, LoggedPosition
  <2>2. ASSUME NEW q \in Requests, q # r
        PROVE  pc'[q] = pc[q] /\ job'[q] = job[q]
    BY <1>0, <1>3, <2>2 DEF Go
  <2> QED
    BY <1>3, <2>1, <2>2, LedgerFrame
<1>4. ASSUME NEW r \in Requests, NEW a \in Agents, NEW m \in Actions,
             SubmitReadGame(r, a, m)
      PROVE  LedgerInv'
  <2>1. job'[r] = Job(a, m, game, InitialPosition) /\ pc'[r] = "turn"
    BY <1>0, <1>4 DEF SubmitReadGame, Go
  <2>2. UNCHANGED <<log, game, cpc, final>>
    BY <1>4 DEF SubmitReadGame, rows
  <2>3. RequestInv(r)'
    BY <1>0, <2>1, <2>2 DEF Job, RequestInv, LedgerInv, RowIsLogged,
                            LoggedPosition
  <2>4. ASSUME NEW q \in Requests, q # r
        PROVE  pc'[q] = pc[q] /\ job'[q] = job[q]
    BY <1>0, <1>4, <2>4 DEF SubmitReadGame, Go
  <2> QED
    BY <2>1, <2>2, <2>3, <2>4, LedgerFrame
<1>5. ASSUME NEW r \in Requests, SubmitReadTurn(r) \/ SubmitReject(r)
                 \/ SubmitClaim(r) \/ SubmitAdvance(r)
      PROVE  LedgerInv'
    BY <1>2, <1>3, <1>5
       DEF SubmitReadTurn, SubmitReject, SubmitClaim, SubmitAdvance, rows,
           HandlerPC
<1>6. ASSUME NEW r \in Requests, SubmitApply(r) PROVE LedgerInv'
  <2>1. /\ UNCHANGED <<log, game, cpc, final>> /\ pc[r] = "apply"
        /\ pc' = [pc EXCEPT ![r] = "append"]
    BY <1>6 DEF SubmitApply, rows, Go
  <2>2. RequestInv(r)'
    BY <1>0, <1>6, <2>1
       DEF SubmitApply, Computes, Job, LedgerInv, RequestInv, LoggedPosition
  <2>3. ASSUME NEW q \in Requests, q # r
        PROVE  pc'[q] = pc[q] /\ job'[q] = job[q]
    BY <1>0, <1>6, <2>3 DEF SubmitApply, Computes, Go
  <2>4. ASSUME NEW q \in Requests PROVE RequestInv(q)'
    BY <2>1, <2>2, <2>3 DEF LedgerInv, RequestInv, LoggedPosition
  <2>5. RowIsLogged' /\ Replays'
    BY <2>1 DEF LedgerInv, RowIsLogged, Replays, LoggedPosition
  <2> QED
    BY <1>0, <2>1, <2>4, <2>5 DEF LedgerInv
<1>7. ASSUME NEW r \in Requests, SubmitAppend(r) PROVE LedgerInv'
  <2>1. CASE job[r].seq + 1 \in DOMAIN log
    BY <1>2, <1>7, <2>1 DEF SubmitAppend
  <2>2. CASE job[r].seq + 1 \notin DOMAIN log
    <3> DEFINE j == job[r]
    <3>1. /\ AppendLog(r) /\ UNCHANGED <<job, game, cpc, final>>
          /\ pc[r] = "append" /\ pc' = [pc EXCEPT ![r] = "save"]
      BY <1>7, <2>2 DEF SubmitAppend, Go
    <3>2. j.seq = game.seq
      <4>1. j.seq <= game.seq
        BY DEF LedgerInv, RequestInv
      <4>2. j.seq + 1 \in 1..game.seq => j.seq + 1 \in DOMAIN log
        BY <1>0 DEF Base, GapInv, LogHasNoGap
      <4> QED
        BY <1>0, <2>2, <4>1, <4>2
    <3>3. /\ DOMAIN log' = DOMAIN log \cup {j.seq + 1}
          /\ log'[j.seq + 1] = [agent |-> j.agent, action |-> j.action,
                                state |-> j.new]
      BY <3>1 DEF AppendLog
    <3>4. /\ LoggedPosition(j.seq)' = j.state
          /\ Valid(j.state, j.agent, j.action)
          /\ Applies(j.state, j.agent, j.action)
          /\ j.new = Apply(j.state, j.agent, j.action)
      BY <1>0, <1>1, <3>1, PositionsStay
         DEF Base, LedgerInv, RequestInv, GapInv
    <3>5. Replays'
      <4>1. ASSUME NEW k \in DOMAIN log
            PROVE  LoggedPosition(k - 1)' = LoggedPosition(k - 1)
        BY <1>0, <1>1, PositionsStay DEF Base, GapInv, LogHasNoGap, Known
      <4>2. ASSUME NEW k \in DOMAIN log'
            PROVE  LET s == LoggedPosition(k - 1)' IN
                   /\ Valid(s, log'[k].agent, log'[k].action)
                   /\ Applies(s, log'[k].agent, log'[k].action)
                   /\ log'[k].state = Apply(s, log'[k].agent, log'[k].action)
        <5>1. CASE k = j.seq + 1
          <6>1. LoggedPosition(k - 1)' = j.state
            <7>1. k - 1 = job'[r].seq
              BY <1>0, <3>1, <5>1
            <7> QED
              BY <3>4, <7>1 DEF LoggedPosition
          <6>2. /\ log'[k].agent = j.agent /\ log'[k].action = j.action
                /\ log'[k].state = j.new
            BY <3>3, <5>1
          <6> QED
            BY <3>4, <6>1, <6>2
        <5>2. CASE k \in DOMAIN log
          <6>1. log'[k] = log[k]
            BY <1>1, <5>2 DEF LogGrows
          <6> QED
            BY <4>1, <5>2, <6>1 DEF LedgerInv, Replays
        <5> QED
          BY <3>3, <4>2, <5>1, <5>2
      <4> QED
        BY <4>2 DEF Replays
    <3>6. RowIsLogged'
      BY <1>1, <3>1, PositionsStay DEF LedgerInv, RowIsLogged, Known, LogGrows
    <3>7. \A q \in Requests : pc[q] # "save"
      BY <2>2, <3>2 DEF Base, AcceptedInv, Recorded, LedgerInv, RequestInv
    <3>8. ASSUME NEW q \in Requests PROVE RequestInv(q)'
      <4>1. LoggedPosition(job[q].seq)' = LoggedPosition(job[q].seq)
        <5>1. ASSUME NEW n \in Known
              PROVE  LoggedPosition(n)' = LoggedPosition(n)
          BY <1>1, PositionsStay
        <5>2. job[q].seq \in Known /\ job'[q].seq = job[q].seq
          BY <1>0, <3>1 DEF Base, GapInv
        <5> QED
          BY <5>1, <5>2 DEF LoggedPosition
      <4>2. /\ job'[q] = job[q] /\ game' = game
            /\ pc'[q] = IF q = r THEN "save" ELSE pc[q]
        BY <1>0, <3>1
      <4>3. RequestInv(q)
        BY DEF LedgerInv
      <4>4. pc'[q] = "append" => pc[q] = "append"
        BY <4>2
      <4>5. pc'[q] = "save" => job[q].seq = game.seq
        BY <3>2, <3>7, <4>2
      <4> QED
        BY <4>1, <4>2, <4>3, <4>4, <4>5 DEF RequestInv, LoggedPosition
    <3>9. ASSUME NEW t \in Tasks PROVE cpc[t] # "result"
      <4>1. game.state = j.state
        BY <3>2 DEF LedgerInv, RequestInv, RowIsLogged
      <4>2. j.agent \in Agents /\ j.action \in Actions
        BY <1>0, <3>1 DEF Base, TypeOK, Jobs, Acting
      <4>3. game.state \in Positions
        BY <1>0 DEF Row
      <4>4. ~Terminal(game.state)
        BY <3>4, <4>1, <4>2, <4>3, RulesAssumption
      <4> QED
        BY <4>4 DEF LedgerInv
    <3> QED
      BY <1>0, <3>1, <3>2, <3>3, <3>5, <3>6, <3>7, <3>8, <3>9 DEF LedgerInv
  <2> QED
    BY <2>1, <2>2
<1>8. ASSUME NEW r \in Requests, SaveGame(r), pc[r] = "save",
             UNCHANGED log, pc'[r] # "append", pc'[r] # "save",
             job'[r] \in {job[r], NoJob},
             \A q \in Requests \ {r} : pc'[q] = pc[q] /\ job'[q] = job[q],
             \A t \in Tasks : cpc'[t] = "result" =>
                \/ cpc[t] = "result" /\ final'[t] = final[t]
                \/ final'[t] = job[r].new /\ Terminal(job[r].new)
      PROVE  LedgerInv'
  <2> DEFINE j == job[r]
  <2>1. /\ j.seq = game.seq /\ j.seq + 1 \in DOMAIN log
        /\ log[j.seq + 1].state = j.new
    BY <1>8 DEF LedgerInv, RequestInv, Base, AcceptedInv, Recorded
  <2>2. game'.seq = game.seq + 1 /\ game'.state = j.new
    BY <1>8, <2>1 DEF SaveGame
  <2>3. RowIsLogged'
    BY <1>0, <1>8, <2>1, <2>2 DEF RowIsLogged, LoggedPosition
  <2>4. Replays'
    BY <1>8 DEF LedgerInv, Replays, LoggedPosition
  <2>5. \A k \in DOMAIN log' : k <= game'.seq
    BY <1>0, <1>8, <2>2 DEF LedgerInv
  <2>6. ASSUME NEW q \in Requests PROVE RequestInv(q)'
    <3>1. CASE q # r
      BY <1>0, <1>8, <2>2, <3>1 DEF LedgerInv, RequestInv, LoggedPosition
    <3>2. CASE q = r
      BY <1>0, <1>8, <2>1, <2>2, <3>2
         DEF LedgerInv, RequestInv, LoggedPosition, NoJob, Job, InitialRow
    <3> QED
      BY <3>1, <3>2
  <2>7. ASSUME NEW t \in Tasks, cpc'[t] = "result"
        PROVE  final'[t] = game'.state /\ Terminal(final'[t])
    BY <1>8, <2>1, <2>2, <2>7 DEF LedgerInv
  <2>8. game'.seq + 1 \notin DOMAIN log'
    BY <1>0, <2>2, <2>5
  <2> QED
    BY <1>0, <1>8, <2>2, <2>3, <2>4, <2>5, <2>6, <2>7, <2>8 DEF LedgerInv
<1>9. ASSUME NEW r \in Requests, SubmitSave(r) PROVE LedgerInv'
  <2>1. /\ SaveGame(r) /\ pc[r] = "save" /\ UNCHANGED log
        /\ pc'[r] # "append" /\ pc'[r] # "save"
    BY <1>0, <1>9 DEF SubmitSave, rows, Finish, Go
  <2>2. job'[r] \in {job[r], NoJob}
    BY <1>0, <1>9 DEF SubmitSave, Finish
  <2>3. \A q \in Requests \ {r} : pc'[q] = pc[q] /\ job'[q] = job[q]
    BY <1>0, <1>9 DEF SubmitSave, Finish, Go
  <2>4. ASSUME NEW t \in Tasks, cpc'[t] = "result"
        PROVE  \/ cpc[t] = "result" /\ final'[t] = final[t]
               \/ final'[t] = job[r].new /\ Terminal(job[r].new)
    BY <1>0, <1>9, <2>4 DEF SubmitSave, StartCompletion
  <2> QED
    BY <1>8, <2>1, <2>2, <2>3, <2>4
<1>10. ASSUME NEW r \in Requests, SubmitFail(r) PROVE LedgerInv'
  <2>1. CASE UNCHANGED game
    BY <1>2, <1>10, <2>1 DEF SubmitFail, rows
  <2>2. CASE pc[r] = "save" /\ SaveGame(r)
    BY <1>0, <1>8, <1>10, <2>2 DEF SubmitFail, Finish, Go, rows
  <2> QED
    BY <1>10, <2>1, <2>2 DEF SubmitFail
<1>11. CASE ManagerStep \/ ManagerStop
  <2>1. ManagerStart \/ ManagerStop
    BY <1>11 DEF Base, GapInv, ManagerStep, ManagerTick, ManagerReadTurn,
                 ManagerClaim, ManagerApply, ManagerAppend, ManagerSave,
                 ManagerAdvance
  <2>2. UNCHANGED <<log, game, cpc, final>>
    BY <2>1 DEF ManagerStart, ManagerStop, rows
  <2>3. \A r \in Requests : pc'[r] = pc[r] /\ job'[r] = job[r]
    BY <1>0, <2>1 DEF ManagerStart, ManagerStop, Finish, Go
  <2> QED
    BY <2>2, <2>3, LedgerFrame
<1>12. CASE Crash
  <2>1. \A r \in Requests : job'[r] = NoJob /\ pc'[r] = "idle"
    BY <1>0, <1>12 DEF Crash
  <2>2. UNCHANGED <<log, game>> /\ \A t \in Tasks : cpc'[t] = "idle"
    BY <1>12 DEF Crash, rows
  <2> QED
    BY <1>0, <2>1, <2>2, ForgetInv, LedgerFrame
<1>13. ASSUME NEW t \in Tasks, CompleteStep(t) \/ CompleteFail(t)
       PROVE  LedgerInv'
  <2>1. UNCHANGED <<log, game, pc, job>>
    BY <1>13 DEF CompleteStep, CompleteResult, CompleteStats, CompleteStatus,
                 CompleteRoom, CompletePublish, CompleteFail, rows
  <2>2. ASSUME NEW u \in Tasks, cpc'[u] = "result"
        PROVE  cpc[u] = "result" /\ final'[u] = final[u]
    BY <1>0, <1>13, <2>2
       DEF CompleteStep, CompleteResult, CompleteStats, CompleteStatus,
           CompleteRoom, CompletePublish, CompleteFail, CompletionGo,
           EndCompletion
  <2> QED
    BY <2>1, <2>2, LedgerFrame
<1>14. CASE ExpireTurn \/ UNCHANGED vars
    BY <1>14, LedgerFrame DEF ExpireTurn, vars, rows
<1> QED
    BY <1>4, <1>5, <1>6, <1>7, <1>9, <1>10, <1>11, <1>12, <1>13, <1>14
       DEF Next, SubmitStep, Fault

\* What the steps need of the other theorems, from the start and for ever.
LEMMA LedgerInvariant ==
    ASSUME ~TurnsTimeOut
    PROVE  Spec => [](Base /\ LedgerInv)
<1>1. Reliable
    BY DEF Reliable
<1>2. Init => Base
    BY RulesAssumption
       DEF Init, Base, TypeOK, AcceptedInv, AcceptedIsLogged, GapInv,
           LogHasNoGap, Known, Players, Tasks, Row, Job, Jobs, NoJob,
           InitialRow, Status, HandlerPC, CompletionPC, Acting
<1>3. Init => LedgerInv
    BY RulesAssumption
       DEF Init, LedgerInv, RowIsLogged, Replays, RequestInv, LoggedPosition,
           NoJob, Job, InitialRow, Tasks
<1>4. Base /\ [Next]_vars => Base'
    BY <1>1, TypeStep, AcceptedStep, GapStep DEF Base
<1> QED
    BY <1>2, <1>3, <1>4, LedgerStep, PTL DEF Spec

\* Theorem: while no turn times out the row always holds the logged position
\* of its sequence number, whatever requests race, fail or crash.
THEOREM RowLogged == ASSUME ~TurnsTimeOut PROVE Spec => []RowIsLogged
<1>1. LedgerInv => RowIsLogged
    BY DEF LedgerInv
<1> QED
    BY <1>1, LedgerInvariant, PTL

\* Theorem: while no turn times out the log replays by the rules, although
\* each move was computed from a snapshot read before its turn was claimed.
THEOREM Replayed == ASSUME ~TurnsTimeOut PROVE Spec => []LogReplays
<1>1. LedgerInv => LogReplays
    BY DEF LedgerInv, Replays, LogReplays
<1> QED
    BY <1>1, LedgerInvariant, PTL

\* Theorem: while no turn times out no save takes the row back behind a move
\* already saved.
THEOREM NeverRegresses ==
    ASSUME ~TurnsTimeOut PROVE Spec => SequenceNeverRegresses
<1> DEFINE Kept == game'.seq >= game.seq
<1>1. ASSUME Base, LedgerInv, Next PROVE Kept
  <2>0. game.seq \in Nat /\ \A t \in Tasks : job[t].seq \in Nat
    BY <1>1 DEF Base, TypeOK, Row, Jobs
  <2>1. CASE UNCHANGED game
    BY <2>0, <2>1
  <2>2. ASSUME NEW r \in Requests, pc[r] = "save", SaveGame(r)
        PROVE  Kept
    BY <1>1, <2>0, <2>2 DEF SaveGame, LedgerInv, RequestInv
  <2>3. ~ManagerSave
    BY <1>1 DEF Base, GapInv, ManagerSave
  <2> QED
    BY <1>1, <2>1, <2>2, <2>3
       DEF Next, SubmitStep, ManagerStep, CompleteStep, Fault, rows,
           SubmitReadGame, SubmitReadTurn, SubmitClaim, SubmitReject,
           SubmitApply, SubmitAppend, SubmitSave, SubmitAdvance, SubmitFail,
           ManagerStart, ManagerTick, ManagerReadTurn, ManagerClaim,
           ManagerApply, ManagerAppend, ManagerAdvance, ManagerStop,
           CompleteResult, CompleteStats, CompleteStatus, CompleteRoom,
           CompletePublish, CompleteFail, ExpireTurn, Crash
<1>2. Base /\ LedgerInv /\ [Next]_vars => [Kept]_vars
    BY <1>1
<1> QED
    BY <1>2, LedgerInvariant, PTL DEF Spec, SequenceNeverRegresses

-----------------------------------------------------------------------------
(* The refinement                                                          *)

\* An append that finds its sequence free is a legal move of the ledger.
LEMMA AppendPlays ==
    ASSUME Base, LedgerInv, NEW r \in Requests, SubmitAppend(r),
           job[r].seq + 1 \notin DOMAIN log
    PROVE  Ledger!Play(job[r].agent, job[r].action)
<1> DEFINE j == job[r]
           n == j.seq
<1>0. n \in Nat /\ game.seq \in Nat /\ DOMAIN log \subseteq Nat \ {0}
    BY DEF Base, TypeOK, Row, Jobs, Tasks
<1>1. RequestInv(r) /\ pc[r] = "append"
    BY DEF LedgerInv, SubmitAppend
<1>2. n = game.seq
  <2>1. n <= game.seq
    BY <1>1 DEF RequestInv
  <2>2. n + 1 \in 1..game.seq => n + 1 \in DOMAIN log
    BY DEF Base, GapInv, LogHasNoGap
  <2> QED
    BY <1>0, <2>1, <2>2
<1>3. DOMAIN log = 1..n
  <2>1. ASSUME NEW k \in DOMAIN log PROVE k \in 1..n
    BY <1>0, <1>2, <2>1 DEF LedgerInv
  <2>2. ASSUME NEW k \in 1..n PROVE k \in DOMAIN log
    BY <1>0, <1>2, <2>2 DEF Base, GapInv, LogHasNoGap
  <2> QED
    BY <2>1, <2>2
<1>4. n \in {0} \cup DOMAIN log
    BY <1>0, <1>3
<1>5. Ledger!PositionAfter(n) = j.state
    BY <1>1 DEF Ledger!PositionAfter, RequestInv, LoggedPosition
<1>6. log' = [k \in 1..(n + 1) |->
                 IF k <= n THEN log[k]
                 ELSE [agent |-> j.agent, action |-> j.action,
                       state |-> Apply(j.state, j.agent, j.action)]]
  <2>1. DOMAIN log \cup {n + 1} = 1..(n + 1)
    BY <1>0, <1>3
  <2>2. j.new = Apply(j.state, j.agent, j.action)
    BY <1>1 DEF RequestInv
  <2>3. AppendLog(r)
    BY DEF SubmitAppend
  <2>4. \A k \in 1..(n + 1) : k = n + 1 <=> ~(k <= n)
    BY <1>0
  <2> QED
    BY <2>1, <2>2, <2>3, <2>4 DEF AppendLog
<1>7. UNCHANGED result
    BY DEF SubmitAppend
<1> QED
    BY <1>1, <1>3, <1>4, <1>5, <1>6, <1>7 DEF Ledger!Play, RequestInv

\* A result that is saved is the ledger's payout.
LEMMA ResultPays ==
    ASSUME Base, LedgerInv, NEW t \in Tasks, CompleteResult(t),
           result' # result
    PROVE  Ledger!Pay
<1> DEFINE n == game.seq
<1>0. n \in Nat /\ DOMAIN log \subseteq Nat \ {0}
    BY DEF Base, TypeOK, Row
<1>1. /\ cpc[t] = "result" /\ result = None /\ result' = final[t]
      /\ UNCHANGED log
    BY DEF CompleteResult
<1>2. /\ final[t] = game.state /\ Terminal(final[t])
      /\ n + 1 \notin DOMAIN log
    BY <1>1 DEF LedgerInv
<1>3. DOMAIN log = 1..n
  <2>1. ASSUME NEW k \in DOMAIN log PROVE k \in 1..n
    BY <1>0, <1>2, <2>1 DEF LedgerInv
  <2>2. ASSUME NEW k \in 1..n PROVE k \in DOMAIN log
    BY <1>0, <2>2 DEF Base, GapInv, LogHasNoGap
  <2> QED
    BY <2>1, <2>2
<1>4. n \in {0} \cup DOMAIN log
    BY <1>0, <1>3
<1>5. Ledger!PositionAfter(n) = game.state
    BY DEF Ledger!PositionAfter, LedgerInv, RowIsLogged, LoggedPosition
<1> QED
    BY <1>1, <1>2, <1>3, <1>4, <1>5 DEF Ledger!Pay

\* Theorem: while no turn times out the handlers implement the ledger: every
\* await of every handler is a legal move, the payout, or nothing to it.
THEOREM LedgerImplemented ==
    ASSUME ~TurnsTimeOut PROVE Spec => ImplementsLedger
<1>1. Init => Ledger!Init
    BY DEF Init, Ledger!Init
<1>2. Base /\ LedgerInv /\ [Next]_vars => [Ledger!Next]_(Ledger!vars)
  <2> SUFFICES ASSUME Base, LedgerInv, [Next]_vars
               PROVE  Ledger!Next \/ UNCHANGED <<log, result>>
    BY DEF Ledger!vars
  <2>1. ASSUME NEW r \in Requests, SubmitAppend(r)
        PROVE  Ledger!Next \/ UNCHANGED <<log, result>>
    <3>1. CASE job[r].seq + 1 \in DOMAIN log
      BY <2>1, <3>1 DEF SubmitAppend
    <3>2. CASE job[r].seq + 1 \notin DOMAIN log
      <4>1. job[r].agent \in Agents /\ job[r].action \in Actions
        BY <2>1 DEF SubmitAppend, Base, TypeOK, Jobs, Acting, Tasks
      <4> QED
        BY <2>1, <3>2, <4>1, AppendPlays DEF Ledger!Next
    <3> QED
      BY <3>1, <3>2
  <2>2. ASSUME NEW t \in Tasks, CompleteResult(t)
        PROVE  Ledger!Next \/ UNCHANGED <<log, result>>
    BY <2>2, ResultPays DEF Ledger!Next, CompleteResult
  <2>3. ~ManagerAppend
    BY DEF Base, GapInv, ManagerAppend
  <2> QED
    BY <2>1, <2>2, <2>3
       DEF Next, SubmitStep, ManagerStep, CompleteStep, Fault, vars, rows,
           SubmitReadGame, SubmitReadTurn, SubmitClaim, SubmitReject,
           SubmitApply, SubmitSave, SubmitAdvance, SubmitFail,
           ManagerStart, ManagerTick, ManagerReadTurn, ManagerClaim,
           ManagerApply, ManagerSave, ManagerAdvance, ManagerStop,
           CompleteStats, CompleteStatus, CompleteRoom,
           CompletePublish, CompleteFail, ExpireTurn, Crash
<1> QED
    BY <1>1, <1>2, LedgerInvariant, PTL DEF Spec, ImplementsLedger, Ledger!Spec
===========================================================================
