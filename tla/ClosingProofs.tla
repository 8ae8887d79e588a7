--------------------------- MODULE ClosingProofs ---------------------------
(***************************************************************************)
(* What Closing guarantees for any number of games, calls and agents,      *)
(* whatever calls fail and however often the process stops.                *)
(***************************************************************************)
EXTENDS Closing, FiniteSetTheorems, TLAPS

\* Where a call is once its result is saved.
Live == {"read", "write", "game", "room", "event"}

\* The call has saved the result, and may have counted a player.
Began(c) == pc[c] \in Live \/ seat[c] > 1

\* What a call has done by the place where it is.
CallOK(c) ==
    /\ pc[c] \in {"playing", "result"} => seat[c] = 1
    /\ pc[c] \in {"read", "write"} => seat[c] <= Len(Players[Game[c]])
    /\ pc[c] \in {"game", "room", "event"} => seat[c] = Len(Players[Game[c]]) + 1
    /\ pc[c] \in {"room", "event"} => "game" \in booked[Game[c]]
    /\ pc[c] = "event" => "room" \in booked[Game[c]]
    /\ Began(c) => "result" \in booked[Game[c]]
    /\ pc[c] \in Live /\ task[Game[c]] # "none" => pc[c] = "event"

\* The primary key of game_results lets one call of a game begin.
OneBegins ==
    \A c, d \in Calls : Game[c] = Game[d] /\ Began(c) /\ Began(d) => c = d

BooksClosed(g) ==
    /\ {"result", "game", "room"} \subseteq booked[g]
    /\ \E c \in Calls : Game[c] = g /\ seat[c] = Len(Players[g]) + 1

\* What a settlement task has done, heard and said, against the chain: its place t,
\* its polls p, what it heard h, the transaction x, those sent s, the verdict v,
\* the polls m when x was mined and those missed since, i.
InOrder(t, p, h, x, s, v, m, i) ==
    /\ t \in {"none", "settle"} =>
          s = 0 /\ x = "none" /\ p = 0 /\ h = "nothing" /\ v = "none"
    /\ t = "poll" => p < MaxPolls /\ h = "nothing"
    /\ s <= 1
    /\ h = "confirmed" => x = "mined"
    /\ v = "SETTLEMENT_COMPLETED" => h = "confirmed"
    /\ (x = "mined" /\ h \in {"nothing", "timeout"}) => m + i = p
    /\ x # "mined" => i = 0
    /\ h = "timeout" => p = MaxPolls

TaskOK(g) ==
    /\ InOrder(task[g], polls[g], heard[g], tx[g], sent[g], verdict[g], minedAt[g], missed[g])
    /\ task[g] # "none" => BooksClosed(g)

Inv ==
    /\ TypeOK
    /\ \A c \in Calls : CallOK(c)
    /\ OneBegins
    /\ \A g \in Games : TaskOK(g)

----------------------------------------------------------------------------
LEMMA Typed ==
    /\ Game \in [Calls -> Games] /\ MaxPolls \in Nat \ {0} /\ MaxCrashes \in Nat
    /\ \A g \in Games : Len(Players[g]) \in Nat \ {0}
    BY ClosingAssumption

LEMMA InvInit == Init => Inv
    BY Typed DEF Init, Inv, TypeOK, CallOK, OneBegins, Began, Live, TaskOK, InOrder, Rows

\* The books of a game stay closed while nothing is taken out of them and no
\* call goes back a seat.
LEMMA BooksStayClosed ==
    ASSUME NEW g \in Games, BooksClosed(g), booked[g] \subseteq booked'[g],
           \A c \in Calls : seat[c] = Len(Players[g]) + 1 /\ Game[c] = g => seat'[c] = seat[c]
    PROVE  BooksClosed(g)'
    BY DEF BooksClosed

\* A step of call c that leaves the settlements alone and writes at most to the
\* books of its game.
LEMMA CallStep ==
    ASSUME Inv, NEW c \in Calls, NEW to \in {"result", "read", "write", "game", "room", "event", "end"},
           pc' = [pc EXCEPT ![c] = to], UNCHANGED <<settling, crashes>>,
           TypeOK',
           \A g \in Games : booked[g] \subseteq booked'[g],
           \A d \in Calls \ {c} : seat'[d] = seat[d],
           seat'[c] = seat[c] \/ (pc[c] = "write" /\ seat'[c] = seat[c] + 1),
           CallOK(c)',
           Began(c)' => \A d \in Calls \ {c} : Game[d] = Game[c] => ~Began(d)
    PROVE  Inv'
<1>0. pc \in [Calls -> {"playing", "result", "read", "write", "game", "room", "event", "end"}]
    BY DEF Inv, TypeOK
<1>1. \A d \in Calls \ {c} : CallOK(d)' /\ (Began(d)' <=> Began(d))
    <2> SUFFICES ASSUME NEW d \in Calls \ {c} PROVE CallOK(d)' /\ (Began(d)' <=> Began(d))
        OBVIOUS
    <2>1. pc'[d] = pc[d] /\ seat'[d] = seat[d] /\ task' = task
        BY <1>0 DEF settling
    <2>2. Game[d] \in Games /\ CallOK(d)
        BY Typed DEF Inv
    <2> QED
        BY <2>1, <2>2 DEF CallOK, Began
<1>2. OneBegins'
    BY <1>1, Typed DEF Inv, OneBegins
<1>3. ASSUME NEW g \in Games PROVE TaskOK(g)'
    <2>0. Len(Players[g]) \in Nat \ {0} /\ CallOK(c) /\ seat[c] \in Nat
        BY Typed DEF Inv, TypeOK
    <2>1. ASSUME NEW d \in Calls, seat[d] = Len(Players[g]) + 1, Game[d] = g
          PROVE  seat'[d] = seat[d]
        <3>1. CASE d = c
            BY <2>0, <2>1, <3>1 DEF CallOK
        <3> QED
            BY <3>1
    <2>2. BooksClosed(g) => BooksClosed(g)'
        BY <2>1, BooksStayClosed
    <2> QED
        BY <2>2 DEF Inv, TaskOK, settling
<1> QED
    BY <1>1, <1>2, <1>3 DEF Inv

\* The call that acts is the one that began, if it began before.
LEMMA StillAlone ==
    ASSUME Inv, NEW c \in Calls, Began(c)
    PROVE  \A d \in Calls \ {c} : Game[d] = Game[c] => ~Began(d)
    BY DEF Inv, OneBegins

LEMMA ClosesInv ==
    ASSUME Inv, NEW c \in Calls, Complete(c) \/ Closes(c)
    PROVE  Inv'
<1> USE Typed DEF TypeOK, settling
<1>0. /\ Game[c] \in Games /\ TypeOK /\ CallOK(c) /\ seat[c] \in Nat
      /\ Len(Players[Game[c]]) \in Nat \ {0}
    BY DEF Inv
<1>1. CASE Stop(c)
    <2>1. Began(c)' => Began(c)
        BY <1>0, <1>1 DEF Stop, Began, Live
    <2>2. CallOK(c)'
        BY <1>0, <1>1 DEF Stop, CallOK, Began, Live
    <2>3. pc' = [pc EXCEPT ![c] = "end"] /\ TypeOK'
        BY <1>0, <1>1 DEF Stop
    <2> QED
        BY <1>1, <2>1, <2>2, <2>3, CallStep, StillAlone DEF Stop
<1>2. CASE Complete(c)
    <2>1. ~Began(c)' /\ CallOK(c)'
        BY <1>0, <1>2 DEF Complete, CallOK, Began, Live
    <2>2. pc' = [pc EXCEPT ![c] = "result"] /\ TypeOK'
        BY <1>0, <1>2 DEF Complete
    <2> QED
        BY <1>2, <2>1, <2>2, CallStep DEF Complete
<1>3. CASE SaveResult(c) /\ "result" \in booked[Game[c]]
    <2>1. ~Began(c)' /\ CallOK(c)'
        BY <1>0, <1>3 DEF SaveResult, CallOK, Began, Live
    <2>2. pc' = [pc EXCEPT ![c] = "end"] /\ TypeOK'
        BY <1>0, <1>3 DEF SaveResult
    <2> QED
        BY <1>3, <2>1, <2>2, CallStep DEF SaveResult
<1>4. CASE SaveResult(c) /\ "result" \notin booked[Game[c]]
    <2>1. PICK to \in {"read", "end"} : pc' = [pc EXCEPT ![c] = to]
        BY <1>4 DEF SaveResult, Goes
    <2>2. /\ booked' = [booked EXCEPT ![Game[c]] = @ \union {"result"}]
          /\ pc[c] = "result" /\ seat' = seat /\ UNCHANGED <<settling, crashes>>
          /\ UNCHANGED <<stats, copy, raced>>
        BY <1>4 DEF SaveResult, Books
    <2>3. TypeOK'
        BY <1>0, <2>1, <2>2
    <2>4. \A d \in Calls : Game[d] = Game[c] => ~Began(d)
        BY <1>4 DEF Inv, CallOK
    <2>5. task[Game[c]] = "none"
        BY <1>0, <1>4 DEF Inv, TaskOK, BooksClosed
    <2>6. CallOK(c)'
        BY <1>0, <2>1, <2>2, <2>5 DEF CallOK, Began, Live
    <2>7. \A g \in Games : booked[g] \subseteq booked'[g]
        BY <1>0, <2>2
    <2> QED
        BY <1>0, <2>1, <2>2, <2>3, <2>4, <2>6, <2>7, CallStep
<1>5. CASE GetStats(c)
    <2>1. Player(c) \in Agents
        BY <1>0, <1>5, ClosingAssumption DEF GetStats, Player, CallOK
    <2>2. Began(c) /\ CallOK(c)'
        BY <1>0, <1>5 DEF GetStats, CallOK, Began, Live
    <2>3. pc' = [pc EXCEPT ![c] = "write"] /\ TypeOK'
        BY <1>0, <1>5, <2>1 DEF GetStats
    <2> QED
        BY <1>5, <2>2, <2>3, CallStep, StillAlone DEF GetStats
<1>6. CASE UpsertStats(c)
    <2>1. PICK to \in {"read", "game", "end"} :
             /\ pc' = [pc EXCEPT ![c] = to]
             /\ to = "read" => seat[c] # Len(Players[Game[c]])
             /\ to = "game" => seat[c] = Len(Players[Game[c]])
        BY <1>6 DEF UpsertStats, Goes
    <2>2. /\ pc[c] = "write" /\ seat' = [seat EXCEPT ![c] = @ + 1]
          /\ UNCHANGED <<booked, copy, settling, crashes>>
        BY <1>6 DEF UpsertStats
    <2>3. Player(c) \in Agents
        BY <1>0, <2>2, ClosingAssumption DEF Player, CallOK
    <2>4. Counted(c) \in Rows
        BY <1>0 DEF Counted, Rows
    <2>5. stats' \in [Agents -> Rows] /\ raced' \subseteq Agents
        BY <1>0, <1>6, <2>3, <2>4 DEF UpsertStats
    <2>6. /\ seat[c] <= Len(Players[Game[c]]) /\ seat'[c] = seat[c] + 1
          /\ seat' \in [Calls -> Nat] /\ \A d \in Calls \ {c} : seat'[d] = seat[d]
        BY <1>0, <2>2 DEF CallOK
    <2>7. \A d \in Calls : seat'[d] \in 1..Len(Players[Game[d]]) + 1
        <3>1. seat'[c] \in 1..Len(Players[Game[c]]) + 1
            BY <1>0, <2>6
        <3> QED
            BY <1>0, <2>6, <3>1
    <2>8. pc' \in [Calls -> {"playing", "result", "read", "write", "game", "room", "event", "end"}]
        BY <1>0, <2>1
    <2>9. TypeOK'
        BY <1>0, <2>2, <2>5, <2>6, <2>7, <2>8
    <2>10. Began(c) /\ CallOK(c)'
        BY <1>0, <2>1, <2>2, <2>6 DEF CallOK, Began, Live
    <2>11. \A d \in Calls \ {c} : Game[d] = Game[c] => ~Began(d)
        BY <2>10, StillAlone
    <2>12. UNCHANGED <<settling, crashes>> /\ \A g \in Games : booked[g] \subseteq booked'[g]
        BY <2>2
    <2> QED
        BY <2>1, <2>2, <2>6, <2>9, <2>10, <2>11, <2>12, CallStep
<1>7. CASE CompleteStatus(c)
    <2>1. PICK to \in {"room", "end"} : pc' = [pc EXCEPT ![c] = to]
        BY <1>7 DEF CompleteStatus, Goes
    <2>2. /\ booked' = [booked EXCEPT ![Game[c]] = @ \union {"game"}]
          /\ pc[c] = "game" /\ seat' = seat /\ UNCHANGED <<settling, crashes>>
          /\ UNCHANGED <<stats, copy, raced>>
        BY <1>7 DEF CompleteStatus, Books
    <2>3. TypeOK' /\ \A g \in Games : booked[g] \subseteq booked'[g]
        BY <1>0, <2>1, <2>2
    <2>4. Began(c) /\ CallOK(c)'
        BY <1>0, <2>1, <2>2 DEF CallOK, Began, Live
    <2> QED
        BY <2>1, <2>2, <2>3, <2>4, CallStep, StillAlone
<1>8. CASE CompleteRoom(c)
    <2>1. PICK to \in {"event", "end"} : pc' = [pc EXCEPT ![c] = to]
        BY <1>8 DEF CompleteRoom, Goes
    <2>2. /\ booked' = [booked EXCEPT ![Game[c]] = @ \union {"room"}]
          /\ pc[c] = "room" /\ UNCHANGED <<seat, crashes, stats, copy, raced>>
          /\ UNCHANGED <<polls, heard, tx, sent, verdict, minedAt, missed>>
          /\ task' = IF to = "event" THEN [task EXCEPT ![Game[c]] = "settle"] ELSE task
        BY <1>0, <1>8, <2>1 DEF CompleteRoom, Books
    <2>3. task[Game[c]] = "none" /\ Began(c)
        BY <1>0, <2>2 DEF CallOK, Began, Live
    <2>4. TypeOK' /\ \A g \in Games : booked[g] \subseteq booked'[g]
        BY <1>0, <2>1, <2>2
    <2>5. CallOK(c)' /\ \A d \in Calls \ {c} : Began(d)' <=> Began(d)
        BY <1>0, <2>1, <2>2 DEF CallOK, Began, Live
    <2>6. \A d \in Calls \ {c} : CallOK(d)'
        <3>1. ASSUME NEW d \in Calls \ {c}, Game[d] = Game[c] PROVE CallOK(d)'
            BY <1>0, <2>1, <2>2, <2>3, <2>4, <3>1, StillAlone DEF Inv, CallOK, Began
        <3>2. ASSUME NEW d \in Calls \ {c}, Game[d] # Game[c] PROVE CallOK(d)'
            BY <1>0, <2>1, <2>2, <2>4, <3>2 DEF Inv, CallOK, Began
        <3> QED
            BY <3>1, <3>2
    <2>7. OneBegins'
        BY <2>3, <2>5, StillAlone DEF Inv, OneBegins
    <2>8. ASSUME NEW g \in Games PROVE TaskOK(g)'
        <3>1. BooksClosed(g) => BooksClosed(g)'
            BY <2>2, <2>4, BooksStayClosed
        <3>2. CASE g = Game[c]
            <4>1. BooksClosed(g)'
                BY <1>0, <2>2, <3>2 DEF BooksClosed, CallOK, Began, Live
            <4> QED
                BY <1>0, <2>2, <2>3, <3>2, <4>1 DEF Inv, TaskOK, InOrder
        <3>3. CASE g # Game[c]
            BY <1>0, <2>2, <3>1, <3>3 DEF Inv, TaskOK
        <3> QED
            BY <3>2, <3>3
    <2>9. TypeOK' /\ \A d \in Calls : CallOK(d)'
        BY <2>4, <2>5, <2>6
    <2> QED
        BY <2>7, <2>8, <2>9 DEF Inv
<1>9. CASE Publish(c)
    <2>1. /\ booked' = [booked EXCEPT ![Game[c]] = @ \union {"event"}]
          /\ pc[c] = "event" /\ pc' = [pc EXCEPT ![c] = "end"]
          /\ seat' = seat /\ UNCHANGED <<settling, crashes>> /\ UNCHANGED <<stats, copy, raced>>
        BY <1>9 DEF Publish, Books
    <2>2. TypeOK' /\ \A g \in Games : booked[g] \subseteq booked'[g]
        BY <1>0, <2>1
    <2>3. Began(c) /\ CallOK(c)'
        BY <1>0, <2>1 DEF CallOK, Began, Live
    <2> QED
        BY <2>1, <2>2, <2>3, CallStep, StillAlone
<1> QED
    BY <1>1, <1>2, <1>3, <1>4, <1>5, <1>6, <1>7, <1>8, <1>9 DEF Closes

----------------------------------------------------------------------------
\* A step that leaves the calls alone and keeps one settlement in order.
Kept(g) ==
    LET t == task'[g] p == polls'[g] h == heard'[g] x == tx'[g]
        s == sent'[g] v == verdict'[g] m == minedAt'[g] i == missed'[g]
    IN  /\ UNCHANGED <<closing, crashes>>
        /\ task' = [task EXCEPT ![g] = t] /\ polls' = [polls EXCEPT ![g] = p]
        /\ heard' = [heard EXCEPT ![g] = h] /\ tx' = [tx EXCEPT ![g] = x]
        /\ sent' = [sent EXCEPT ![g] = s] /\ verdict' = [verdict EXCEPT ![g] = v]
        /\ minedAt' = [minedAt EXCEPT ![g] = m] /\ missed' = [missed EXCEPT ![g] = i]
        /\ t \in {"settle", "poll", "announce", "end"} /\ p \in 0..MaxPolls
        /\ h \in {"nothing", "confirmed", "timeout", "error"}
        /\ x \in {"none", "pending", "mined", "reverted", "dropped"} /\ s \in Nat
        /\ v \in {"none", "SETTLEMENT_COMPLETED", "SETTLEMENT_FAILED"}
        /\ m \in 0..MaxPolls /\ i \in 0..MaxPolls
        /\ task[g] # "none" /\ InOrder(t, p, h, x, s, v, m, i)

LEMMA TaskStep ==
    ASSUME Inv, NEW g \in Games, Kept(g)
    PROVE  Inv'
<1>0. TypeOK
    BY DEF Inv
<1>1. UNCHANGED <<booked, stats, pc, seat, copy, raced, crashes>>
    BY DEF Kept, closing
<1>2. TypeOK'
    <2>1. task' \in [Games -> {"none", "settle", "poll", "announce", "end"}]
        BY <1>0 DEF TypeOK, Kept
    <2>2. polls' \in [Games -> 0..MaxPolls] /\ minedAt' \in [Games -> 0..MaxPolls]
        BY <1>0 DEF TypeOK, Kept
    <2>3. missed' \in [Games -> 0..MaxPolls] /\ sent' \in [Games -> Nat]
        BY <1>0 DEF TypeOK, Kept
    <2>4. /\ heard' \in [Games -> {"nothing", "confirmed", "timeout", "error"}]
          /\ tx' \in [Games -> {"none", "pending", "mined", "reverted", "dropped"}]
          /\ verdict' \in [Games -> {"none", "SETTLEMENT_COMPLETED", "SETTLEMENT_FAILED"}]
        BY <1>0 DEF TypeOK, Kept
    <2> QED
        BY <1>0, <1>1, <2>1, <2>2, <2>3, <2>4 DEF TypeOK
<1>3. ASSUME NEW e \in Games PROVE TaskOK(e)'
    <2>1. TaskOK(e) /\ (BooksClosed(e)' <=> BooksClosed(e))
        BY <1>1 DEF Inv, BooksClosed
    <2>2. CASE e = g
        BY <1>0, <2>1, <2>2 DEF TaskOK, TypeOK, Kept
    <2>3. CASE e # g
        BY <1>0, <2>1, <2>3 DEF TaskOK, TypeOK, Kept
    <2> QED
        BY <2>2, <2>3
<1>4. ASSUME NEW c \in Calls PROVE CallOK(c)'
    <2>1. CallOK(c) /\ Game[c] \in Games
        BY Typed DEF Inv
    <2>2. task'[Game[c]] # "none" => task[Game[c]] # "none"
        BY <1>0, <2>1 DEF TypeOK, Kept
    <2> QED
        BY <1>1, <2>1, <2>2 DEF CallOK, Began
<1>5. OneBegins'
    BY <1>1 DEF Inv, OneBegins, Began
<1> QED
    BY <1>2, <1>3, <1>4, <1>5 DEF Inv

LEMMA SettlesInv ==
    ASSUME Inv, NEW g \in Games, Settles(g) \/ Mine(g)
    PROVE  Inv'
<1>0. /\ InOrder(task[g], polls[g], heard[g], tx[g], sent[g], verdict[g], minedAt[g], missed[g])
      /\ task[g] \in {"none", "settle", "poll", "announce", "end"}
      /\ heard[g] \in {"nothing", "confirmed", "timeout", "error"}
      /\ tx[g] \in {"none", "pending", "mined", "reverted", "dropped"}
      /\ verdict[g] \in {"none", "SETTLEMENT_COMPLETED", "SETTLEMENT_FAILED"}
      /\ polls[g] \in 0..MaxPolls /\ missed[g] \in 0..MaxPolls
      /\ minedAt[g] \in 0..MaxPolls /\ sent[g] \in Nat
    BY DEF Inv, TypeOK, TaskOK
<1>1. /\ task \in [Games -> {"none", "settle", "poll", "announce", "end"}]
      /\ heard \in [Games -> {"nothing", "confirmed", "timeout", "error"}]
      /\ tx \in [Games -> {"none", "pending", "mined", "reverted", "dropped"}]
      /\ verdict \in [Games -> {"none", "SETTLEMENT_COMPLETED", "SETTLEMENT_FAILED"}]
      /\ polls \in [Games -> 0..MaxPolls] /\ missed \in [Games -> 0..MaxPolls]
      /\ minedAt \in [Games -> 0..MaxPolls] /\ sent \in [Games -> Nat]
    BY DEF Inv, TypeOK
<1>2. SettleRefused(g) => Kept(g)
    BY <1>0, <1>1, Typed DEF SettleRefused, Kept, InOrder
<1>3. ASSUME task[g] = "settle", heard' = [heard EXCEPT ![g] = "error"],
             task' = [task EXCEPT ![g] = "announce"], Send(g) \/ UNCHANGED <<tx, sent>>,
             UNCHANGED <<polls, verdict, minedAt, missed, closing, crashes>>
      PROVE  Kept(g)
    <2>1. CASE Send(g)
        BY <1>0, <1>1, <1>3, <2>1, Typed DEF Send, Kept, InOrder
    <2>2. CASE UNCHANGED <<tx, sent>>
        BY <1>0, <1>1, <1>3, <2>2, Typed DEF Kept, InOrder
    <2> QED
        BY <1>3, <2>1, <2>2
<1>4. SettleSent(g) => Kept(g)
    <2> SUFFICES ASSUME SettleSent(g) PROVE Kept(g)
        OBVIOUS
    <2>1. task[g] = "settle"
        BY DEF SettleSent
    <2>2. sent[g] = 0
        BY <1>0, <2>1 DEF InOrder
    <2>3. task' = [task EXCEPT ![g] = "poll"] /\ tx' = [tx EXCEPT ![g] = "pending"]
        BY DEF SettleSent, Send
    <2>4. sent' = [sent EXCEPT ![g] = sent[g] + 1]
        BY DEF SettleSent, Send
    <2>5. UNCHANGED <<polls, heard, verdict, minedAt, missed, closing, crashes>>
        BY DEF SettleSent
    <2> QED
        BY <1>0, <1>1, <2>1, <2>2, <2>3, <2>4, <2>5, Typed DEF Kept, InOrder
<1>5. ASSUME PollInVain(g), tx[g] # "mined" \/ missed' = [missed EXCEPT ![g] = @ + 1],
             tx[g] = "mined" \/ UNCHANGED missed, task[g] = "poll",
             UNCHANGED <<tx, sent, verdict, minedAt, closing, crashes>>
      PROVE  Kept(g)
    <2>1. CASE polls[g] + 1 = MaxPolls
        BY <1>0, <1>1, <1>5, <2>1, Typed DEF PollInVain, Kept, InOrder
    <2>2. CASE polls[g] + 1 # MaxPolls
        BY <1>0, <1>1, <1>5, <2>2, Typed DEF PollInVain, Kept, InOrder
    <2> QED
        BY <2>1, <2>2
<1>6. CheckConfirmation(g) /\ tx[g] = "mined" => Kept(g)
    BY <1>0, <1>1, Typed DEF CheckConfirmation, Kept, InOrder
<1>7. Announce(g) => Kept(g)
    BY <1>0, <1>1, Typed DEF Announce, Kept, InOrder
<1>8. Mine(g) => Kept(g)
    BY <1>0, <1>1, Typed DEF Mine, Kept, InOrder
<1>9. SettleFails(g) => Kept(g)
    BY <1>3 DEF SettleFails
<1>10. CheckFails(g) \/ CheckConfirmation(g) => Kept(g)
    BY <1>5, <1>6 DEF CheckFails, CheckConfirmation
<1> QED
    BY <1>2, <1>4, <1>7, <1>8, <1>9, <1>10, TaskStep DEF Settles

LEMMA CrashInv == Inv /\ Crash => Inv'
<1> SUFFICES ASSUME Inv, Crash PROVE Inv'
    OBVIOUS
<1>1. TypeOK'
    BY Typed DEF Inv, TypeOK, Crash
<1>2. \A c \in Calls : CallOK(c)' /\ (Began(c)' => Began(c))
    BY Typed DEF Inv, TypeOK, Crash, CallOK, Began, Live
<1>3. OneBegins'
    BY <1>2 DEF Inv, OneBegins
<1>4. \A g \in Games : TaskOK(g)'
    BY DEF Inv, TypeOK, Crash, TaskOK, InOrder, BooksClosed
<1> QED
    BY <1>1, <1>2, <1>3, <1>4 DEF Inv

LEMMA StutterInv == Inv /\ UNCHANGED vars => Inv'
    BY DEF Inv, vars, closing, settling, TypeOK, CallOK, Began, OneBegins, TaskOK, BooksClosed

LEMMA InvStep == Inv /\ [Next]_vars => Inv'
    BY ClosesInv, SettlesInv, CrashInv, StutterInv DEF Next

LEMMA InvAlways == Spec => []Inv
    BY InvInit, InvStep, PTL DEF Spec

\* Every variable keeps to its values, the seat a call counts next included: it
\* never goes beyond the player after the last (game_service.rs:312).
THEOREM TypeCorrect == Spec => []TypeOK
    BY InvAlways, PTL DEF Inv

\* For any games and calls, whatever fails: a settlement starts only when the books
\* of its game are closed, and sends one transaction at most.
THEOREM PaymentFollows == Spec => []PaymentFollowsTheBooks
<1>1. Inv => PaymentFollowsTheBooks
    BY DEF Inv, TypeOK, TaskOK, InOrder, BooksClosed, PaymentFollowsTheBooks
<1> QED
    BY <1>1, InvAlways, PTL

\* For any number of polls: what is announced is what the task has seen of the chain.
THEOREM VerdictIsSeen == Spec => []VerdictIsWhatWasSeen
<1>1. Inv => VerdictIsWhatWasSeen
    <2> SUFFICES ASSUME Inv, NEW g \in Games
                 PROVE  /\ verdict[g] = "SETTLEMENT_COMPLETED" => tx[g] = "mined"
                        /\ (verdict[g] = "SETTLEMENT_FAILED" /\ heard[g] = "timeout" /\ tx[g] = "mined")
                              => minedAt[g] + missed[g] = MaxPolls
        BY DEF VerdictIsWhatWasSeen
    <2> QED
        BY DEF Inv, TaskOK, InOrder
<1> QED
    BY <1>1, InvAlways, PTL

----------------------------------------------------------------------------
\* What is known of a copy between get_stats and upsert_stats.
CopyOK(c) ==
    pc[c] = "write" =>
        /\ copy[c].played <= Cardinality(CountedIn(Player(c)))
        /\ copy[c].won <= Cardinality(WonIn(Player(c)))
        /\ Player(c) \notin raced => copy[c] = stats[Player(c)]

StatsInv == StatsFollowTheGames /\ \A c \in Calls : CopyOK(c)

LEMMA CountsAreFinite ==
    ASSUME NEW a
    PROVE  /\ IsFiniteSet(CountedIn(a)) /\ IsFiniteSet(WonIn(a))
           /\ Cardinality(CountedIn(a)) \in Nat /\ Cardinality(WonIn(a)) \in Nat
<1>1. CountedIn(a) \subseteq Games /\ WonIn(a) \subseteq Games
    BY DEF CountedIn, WonIn
<1>2. IsFiniteSet(CountedIn(a)) /\ IsFiniteSet(WonIn(a))
    BY <1>1, ClosingAssumption, FS_Subset
<1> QED
    BY <1>2, FS_CardinalityType

\* The player whose row a call writes next has not been counted in its game.
LEMMA NotCountedYet ==
    ASSUME Inv, NEW c \in Calls, pc[c] = "write"
    PROVE  Game[c] \notin CountedIn(Player(c)) /\ Player(c) \in Agents
<1>0. /\ Game[c] \in Games /\ seat[c] \in 1..Len(Players[Game[c]]) /\ Began(c)
      /\ Len(Players[Game[c]]) \in Nat
    BY Typed DEF Inv, TypeOK, CallOK, Began, Live
<1>1. ASSUME NEW d \in Calls, Game[d] = Game[c], NEW i \in 1..seat[d] - 1,
             Players[Game[c]][i] = Player(c)
      PROVE  FALSE
    <2>1. seat[d] \in 1..Len(Players[Game[c]]) + 1 /\ seat[d] \in Nat
        BY <1>1 DEF Inv, TypeOK
    <2>2. i \in 1..Len(Players[Game[c]]) /\ seat[d] > 1
        BY <1>0, <2>1
    <2>3. d = c
        BY <1>0, <1>1, <2>2 DEF Inv, OneBegins, Began
    <2>4. i = seat[c]
        BY <1>0, <1>1, <2>2, ClosingAssumption DEF Player
    <2> QED
        BY <1>0, <2>1, <2>3, <2>4
<1>2. Player(c) \in Agents
    BY <1>0, ClosingAssumption DEF Player
<1> QED
    BY <1>1, <1>2 DEF CountedIn

\* Writing the row counts the game for the player and for nobody else.
LEMMA UpsertCounts ==
    ASSUME Inv, NEW c \in Calls, UpsertStats(c), NEW b
    PROVE  CountedIn(b)' = IF b = Player(c) THEN CountedIn(b) \union {Game[c]} ELSE CountedIn(b)
<1>0. Game[c] \in Games /\ Len(Players[Game[c]]) \in Nat
    BY Typed
<1>1. seat \in [Calls -> Nat] /\ seat[c] \in 1..Len(Players[Game[c]]) + 1
    BY DEF Inv, TypeOK
<1>2. seat' = [seat EXCEPT ![c] = seat[c] + 1] /\ seat[c] >= 1
    BY <1>0, <1>1 DEF UpsertStats
<1>3. \A d \in Calls : \A i : i \in 1..seat'[d] - 1 <=> (i \in 1..seat[d] - 1 \/ (d = c /\ i = seat[c]))
    BY <1>1, <1>2
<1> QED
    BY <1>0, <1>3 DEF CountedIn, Player

LEMMA CountsGrow ==
    ASSUME Inv, NEW c \in Calls, UpsertStats(c), NEW a, a = Player(c)
    PROVE  /\ Cardinality(CountedIn(a)') = Cardinality(CountedIn(a)) + 1
           /\ Cardinality(WonIn(a)') = Cardinality(WonIn(a)) + IF a \in Winners[Game[c]] THEN 1 ELSE 0
<1>1. Game[c] \notin CountedIn(a) /\ Game[c] \notin WonIn(a)
    BY NotCountedYet DEF UpsertStats, WonIn
<1>2. CountedIn(a)' = CountedIn(a) \union {Game[c]}
    BY UpsertCounts
<1>3. WonIn(a)' = IF a \in Winners[Game[c]] THEN WonIn(a) \union {Game[c]} ELSE WonIn(a)
    BY <1>2 DEF WonIn
<1>4. /\ IsFiniteSet(CountedIn(a)) /\ IsFiniteSet(WonIn(a))
      /\ Cardinality(WonIn(a)) \in Nat
    BY CountsAreFinite
<1>5. Cardinality(CountedIn(a)') = Cardinality(CountedIn(a)) + 1
    BY <1>1, <1>2, <1>4, FS_AddElement
<1>6. CASE a \in Winners[Game[c]]
    <2>1. WonIn(a)' = WonIn(a) \union {Game[c]}
        BY <1>3, <1>6
    <2>2. Cardinality(WonIn(a)') = Cardinality(WonIn(a)) + 1
        BY <1>1, <1>4, <2>1, FS_AddElement
    <2> QED
        BY <1>5, <1>6, <2>2
<1>7. CASE a \notin Winners[Game[c]]
    BY <1>3, <1>4, <1>5, <1>7
<1> QED
    BY <1>6, <1>7

LEMMA OthersCountsStay ==
    ASSUME Inv, NEW c \in Calls, UpsertStats(c), NEW b, b # Player(c)
    PROVE  CountedIn(b)' = CountedIn(b) /\ WonIn(b)' = WonIn(b)
    BY UpsertCounts DEF WonIn

\* A step that moves neither rows, copies nor seats.
LEMMA StatsKept ==
    ASSUME StatsInv, UNCHANGED <<stats, copy, seat, raced>>,
           \A d \in Calls : pc'[d] = "write" => pc[d] = "write"
    PROVE  StatsInv'
<1>1. \A b : CountedIn(b)' = CountedIn(b) /\ WonIn(b)' = WonIn(b)
    BY DEF CountedIn, WonIn
<1>2. StatsFollowTheGames'
    BY <1>1 DEF StatsInv, StatsFollowTheGames
<1>3. ASSUME NEW d \in Calls PROVE CopyOK(d)'
    <2>1. Player(d)' = Player(d) /\ CopyOK(d)
        BY DEF Player, StatsInv
    <2> QED
        BY <1>1, <2>1 DEF CopyOK
<1> QED
    BY <1>2, <1>3 DEF StatsInv

LEMMA ReadKeepsStats ==
    ASSUME Inv, StatsInv, NEW c \in Calls, GetStats(c)
    PROVE  StatsInv'
<1>1. \A b : CountedIn(b)' = CountedIn(b) /\ WonIn(b)' = WonIn(b)
    BY DEF CountedIn, WonIn, GetStats
<1>2. StatsFollowTheGames'
    BY <1>1 DEF StatsInv, StatsFollowTheGames, GetStats
<1>3. ASSUME NEW d \in Calls PROVE CopyOK(d)'
    <2>1. Player(d)' = Player(d) /\ CopyOK(d)
        BY DEF Player, StatsInv, GetStats
    <2>2. CASE d # c
        <3>1. copy'[d] = copy[d] /\ pc'[d] = pc[d] /\ stats' = stats /\ raced' = raced
            BY <2>2 DEF GetStats, Inv, TypeOK
        <3> QED
            BY <1>1, <2>1, <3>1 DEF CopyOK
    <2>3. CASE d = c
        <3>0. Game[c] \in Games /\ Len(Players[Game[c]]) \in Nat
            BY Typed
        <3>1. CallOK(c) /\ pc[c] = "read" /\ seat[c] \in 1..Len(Players[Game[c]]) + 1
            BY DEF Inv, TypeOK, GetStats
        <3>2. Player(c) \in Agents
            BY <3>0, <3>1, ClosingAssumption DEF Player, CallOK
        <3>3. copy'[c] = stats[Player(c)] /\ stats' = stats /\ raced' = raced
            BY DEF GetStats, Inv, TypeOK
        <3> QED
            BY <1>1, <2>1, <2>3, <3>2, <3>3 DEF CopyOK, StatsInv, StatsFollowTheGames
    <2> QED
        BY <2>2, <2>3
<1> QED
    BY <1>2, <1>3 DEF StatsInv

LEMMA WriteKeepsStats ==
    ASSUME Inv, StatsInv, NEW c \in Calls, UpsertStats(c)
    PROVE  StatsInv'
<1> DEFINE g == Game[c]
           W(a) == IF a \in Winners[g] THEN 1 ELSE 0
<1>1. PICK a \in Agents : a = Player(c)
    BY NotCountedYet DEF UpsertStats
<1>2. /\ Cardinality(CountedIn(a)') = Cardinality(CountedIn(a)) + 1
      /\ Cardinality(WonIn(a)') = Cardinality(WonIn(a)) + W(a)
    BY <1>1, CountsGrow
<1>3. \A b : b # a => CountedIn(b)' = CountedIn(b) /\ WonIn(b)' = WonIn(b)
    BY <1>1, OthersCountsStay
<1>4. Cardinality(CountedIn(a)) \in Nat /\ Cardinality(WonIn(a)) \in Nat /\ W(a) \in {0, 1}
    BY CountsAreFinite
<1>5. /\ copy[c] \in Rows /\ pc[c] = "write"
      /\ stats' = [stats EXCEPT ![a] = [played |-> copy[c].played + 1, won |-> copy[c].won + W(a)]]
      /\ stats \in [Agents -> Rows]
      /\ raced' = IF Holders(a) = {c} THEN raced ELSE raced \union {a}
      /\ copy' = copy
    BY <1>1 DEF Inv, TypeOK, UpsertStats, Counted
<1>6. copy[c].played \in Nat /\ copy[c].won \in Nat
    BY <1>5 DEF Rows
<1>7. /\ copy[c].played <= Cardinality(CountedIn(a)) /\ copy[c].won <= Cardinality(WonIn(a))
      /\ a \notin raced => copy[c] = stats[a]
    BY <1>1, <1>5 DEF StatsInv, CopyOK
<1> HIDE DEF W
<1>8. StatsFollowTheGames'
    <2> SUFFICES ASSUME NEW b \in Agents
                 PROVE  /\ stats'[b].played <= Cardinality(CountedIn(b)')
                        /\ stats'[b].won <= Cardinality(WonIn(b)')
                        /\ b \notin raced' =>
                             stats'[b] = [played |-> Cardinality(CountedIn(b)'), won |-> Cardinality(WonIn(b)')]
        BY DEF StatsFollowTheGames
    <2>1. CASE b = a
        <3>1. stats'[a] = [played |-> copy[c].played + 1, won |-> copy[c].won + W(a)]
            BY <1>5
        <3>2. stats'[a].played <= Cardinality(CountedIn(a)') /\ stats'[a].won <= Cardinality(WonIn(a)')
            BY <1>2, <1>4, <1>6, <1>7, <3>1
        <3>3. ASSUME a \notin raced'
              PROVE  stats'[a] = [played |-> Cardinality(CountedIn(a)'), won |-> Cardinality(WonIn(a)')]
            <4>1. a \notin raced
                BY <1>5, <3>3
            <4>2. copy[c] = [played |-> Cardinality(CountedIn(a)), won |-> Cardinality(WonIn(a))]
                BY <1>7, <4>1 DEF StatsInv, StatsFollowTheGames
            <4> QED
                BY <1>2, <3>1, <4>2
        <3> QED
            BY <2>1, <3>2, <3>3
    <2>2. CASE b # a
        <3>1. stats'[b] = stats[b] /\ (b \notin raced' => b \notin raced)
            BY <1>5, <2>2
        <3>2. CountedIn(b)' = CountedIn(b) /\ WonIn(b)' = WonIn(b)
            BY <1>3, <2>2
        <3> QED
            BY <3>1, <3>2 DEF StatsInv, StatsFollowTheGames
    <2> QED
        BY <2>1, <2>2
<1>9. ASSUME NEW d \in Calls PROVE CopyOK(d)'
    <2>1. pc'[c] # "write"
        BY DEF Inv, TypeOK, UpsertStats, Goes
    <2> SUFFICES ASSUME d # c, pc'[d] = "write"
                 PROVE  /\ copy'[d].played <= Cardinality(CountedIn(Player(d)))'
                        /\ copy'[d].won <= Cardinality(WonIn(Player(d)))'
                        /\ Player(d)' \notin raced' => copy'[d] = stats'[Player(d)']
        BY <2>1 DEF CopyOK
    <2>2. pc[d] = "write" /\ Player(d)' = Player(d)
        BY DEF Inv, TypeOK, UpsertStats, Goes, Player
    <2>3. PICK b \in Agents : b = Player(d)
        BY <2>2, NotCountedYet
    <2>4. /\ copy[d].played <= Cardinality(CountedIn(b)) /\ copy[d].won <= Cardinality(WonIn(b))
          /\ b \notin raced => copy[d] = stats[b]
        BY <2>2, <2>3 DEF StatsInv, CopyOK
    <2>5. copy[d].played \in Nat /\ copy[d].won \in Nat
        BY DEF Inv, TypeOK, Rows
    <2>6. /\ copy'[d].played <= Cardinality(CountedIn(b)') /\ copy'[d].won <= Cardinality(WonIn(b)')
          /\ b \notin raced' => copy'[d] = stats'[b]
        <3>1. CASE b = a
            <4>1. d \in Holders(a)
                BY <2>2, <2>3, <3>1 DEF Holders
            <4> QED
                BY <1>2, <1>4, <1>5, <2>4, <2>5, <3>1, <4>1
        <3>2. CASE b # a
            BY <1>3, <1>5, <2>4, <3>2
        <3> QED
            BY <3>1, <3>2
    <2> QED
        BY <2>2, <2>3, <2>6 DEF CountedIn, WonIn
<1> QED
    BY <1>8, <1>9 DEF StatsInv

LEMMA StatsStep == Inv /\ StatsInv /\ [Next]_vars => StatsInv'
<1> SUFFICES ASSUME Inv, StatsInv, [Next]_vars PROVE StatsInv'
    OBVIOUS
<1>1. ASSUME NEW c \in Calls, Complete(c) \/ (Closes(c) /\ ~GetStats(c) /\ ~UpsertStats(c))
      PROVE  StatsInv'
    <2>1. UNCHANGED <<stats, copy, seat, raced>>
        BY <1>1 DEF Complete, Closes, SaveResult, CompleteStatus, CompleteRoom, Publish, Stop
    <2>2. \A d \in Calls : pc'[d] = "write" => pc[d] = "write"
        BY <1>1 DEF Inv, TypeOK, Complete, Closes, Goes,
                    SaveResult, CompleteStatus, CompleteRoom, Publish, Stop
    <2> QED
        BY <2>1, <2>2, StatsKept
<1>2. ASSUME NEW g \in Games, Settles(g) \/ Mine(g) PROVE StatsInv'
    <2>1. UNCHANGED closing
        BY <1>2 DEF Settles, SettleRefused, SettleFails, SettleSent, CheckConfirmation, CheckFails,
                    Announce, Mine
    <2> QED
        BY <2>1, StatsKept DEF closing
<1>3. CASE Crash
    BY <1>3, StatsKept DEF Crash
<1>4. CASE UNCHANGED vars
    BY <1>4, StatsKept DEF vars, closing
<1> QED
    BY <1>1, <1>2, <1>3, <1>4, ReadKeepsStats, WriteKeepsStats DEF Next, Closes

LEMMA StatsInit == Init => StatsInv
<1> SUFFICES ASSUME Init PROVE StatsInv
    OBVIOUS
<1>1. \A a \in Agents : CountedIn(a) = {} /\ WonIn(a) = {}
    BY DEF Init, CountedIn, WonIn
<1>2. Cardinality({}) = 0 /\ raced = {}
    BY FS_EmptySet DEF Init
<1>3. \A a \in Agents : stats[a] = [played |-> 0, won |-> 0]
    BY DEF Init
<1>4. StatsFollowTheGames
    <2> SUFFICES ASSUME NEW a \in Agents
                 PROVE  /\ stats[a].played <= Cardinality(CountedIn(a))
                        /\ stats[a].won <= Cardinality(WonIn(a))
                        /\ stats[a] = [played |-> Cardinality(CountedIn(a)),
                                       won |-> Cardinality(WonIn(a))]
        BY DEF StatsFollowTheGames
    <2>1. Cardinality(CountedIn(a)) = 0 /\ Cardinality(WonIn(a)) = 0
        BY <1>1, <1>2
    <2> QED
        BY <1>3, <2>1
<1> QED
    BY <1>4 DEF Init, StatsInv, CopyOK

\* For any games, calls, agents and failures: the stats never show what was not
\* played, and an agent whose row no two calls wrote across each other has exactly
\* its games (game_service.rs:312).
THEOREM StatsFollow == Spec => []StatsFollowTheGames
<1>1. Spec => []StatsInv
    BY InvAlways, StatsInit, StatsStep, PTL DEF Spec
<1> QED
    BY <1>1, PTL DEF StatsInv

============================================================================
