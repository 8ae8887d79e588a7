--------------------------- MODULE SessionsProofs ---------------------------
(***************************************************************************)
(* What Sessions guarantees for any number of wallets, requests, nonces    *)
(* and sessions.                                                           *)
(***************************************************************************)
EXTENDS Sessions, FiniteSetTheorems, TLAPS

Places == {"idle", "nonce", "delete", "user", "session", "cache", "answer",
           "read", "reissue", "revoke", "forget"}
SigningIn == {"nonce", "delete", "user", "session", "cache", "answer"}
Opening == {"cache", "answer"}
Abouts == [nonce : 0..MaxNonces, session : 0..MaxSessions]

\* What is issued is numbered from one, without a gap.
Numbered(f, last) == \E k \in 0..last : DOMAIN f = 1..k

\* The nonce a wallet has was issued for it; one that was spent is gone.
NoncesOK ==
    /\ \A w \in Wallets : nonce[w] # 0 => nonce[w] \in DOMAIN issued /\ issued[nonce[w]] = w
    /\ \A n \in spent : n \in DOMAIN issued /\ nonce[issued[n]] # n

\* Tokens are of sessions that were handed out, and those of sessions there are.
SessionsOK ==
    /\ tokens \subseteq held /\ closed \subseteq held /\ held \subseteq DOMAIN sessions
    /\ cache \subseteq DOMAIN sessions
    /\ \A s \in closed : s \notin cache /\ sessions[s].revoked

\* What is known of a request by the place where it is.
RequestOK(r) ==
    /\ pc[r] \in SigningIn => req[r].nonce \in DOMAIN issued
    /\ pc[r] \in {"session"} \union Opening => Wallet(r) \in users
    /\ pc[r] \in Opening => req[r].session \in DOMAIN sessions \ held
    /\ pc[r] \in {"read", "reissue", "revoke", "forget"} => req[r].nonce = 0 /\ req[r].session \in held
    /\ pc[r] = "forget" => sessions[req[r].session].revoked
    /\ r \in late => \/ pc[r] = "nonce" /\ req[r].nonce \in spent
                     \/ pc[r] = "read" /\ req[r].nonce = 0 /\ req[r].session \in closed

\* No two logins open the same session.
OpenedOnce ==
    \A r, q \in Requests : r # q /\ pc[r] \in Opening /\ pc[q] \in Opening
                             => req[r].session # req[q].session

Inv ==
    /\ TypeOK /\ Numbered(issued, MaxNonces) /\ Numbered(sessions, MaxSessions)
    /\ NoncesOK /\ SessionsOK /\ OpenedOnce
    /\ \A r \in Requests : RequestOK(r)

----------------------------------------------------------------------------
\* The number that comes next, and what is numbered with it.
LEMMA NextNumber ==
    ASSUME NEW f, NEW last \in Nat, Numbered(f, last), NEW n, n = Cardinality(DOMAIN f) + 1,
           n <= last, NEW g, DOMAIN g = 1..n
    PROVE  /\ n \in 1..last /\ n \notin DOMAIN f /\ DOMAIN g = DOMAIN f \union {n}
           /\ Numbered(g, last)
<1>1. PICK k \in 0..last : DOMAIN f = 1..k
    BY DEF Numbered
<1>2. Cardinality(1..k) = k
    BY <1>1, FS_Interval
<1>3. n = k + 1
    BY <1>1, <1>2
<1> QED
    BY <1>1, <1>3 DEF Numbered

\* What a step leaves in force for a request that it does not move.
Grows ==
    /\ \A n \in DOMAIN issued : n \in DOMAIN issued' /\ issued'[n] = issued[n]
    /\ \A s \in DOMAIN sessions :
         s \in DOMAIN sessions' /\ (sessions[s].revoked => sessions'[s].revoked)
    /\ users \subseteq users' /\ spent \subseteq spent' /\ closed \subseteq closed'
    /\ held \subseteq held'

LEMMA OthersStay ==
    ASSUME Inv, Grows, NEW q \in Requests, pc'[q] = pc[q], req'[q] = req[q],
           q \in late' <=> q \in late,
           pc[q] \in Opening => req[q].session \notin held'
    PROVE  RequestOK(q)'
<1>1. RequestOK(q) /\ held \subseteq DOMAIN sessions /\ Wallet(q)' = issued'[req[q].nonce]
    BY DEF Inv, SessionsOK, Wallet
<1>2. req[q].nonce \in DOMAIN issued => Wallet(q)' = Wallet(q)
    BY <1>1 DEF Grows, Wallet
<1> QED
    BY <1>1, <1>2 DEF RequestOK, Grows, SigningIn, Opening

LEMMA InitInv == Init => Inv
<1> SUFFICES ASSUME Init PROVE Inv
    OBVIOUS
<1>1. DOMAIN issued = 1..0 /\ DOMAIN sessions = 1..0
    BY DEF Init
<1>2. Numbered(issued, MaxNonces) /\ Numbered(sessions, MaxSessions)
    BY <1>1, SessionsAssumption DEF Numbered
<1>3. TypeOK
    BY <1>1, SessionsAssumption DEF Init, TypeOK, Blank, About
<1> QED
    BY <1>1, <1>2, <1>3 DEF Init, Inv, NoncesOK, SessionsOK, OpenedOnce, RequestOK, Blank, About,
                            SigningIn, Opening

----------------------------------------------------------------------------
\* Request r moves and nobody else.
Moves(r) ==
    /\ pc' \in [Requests -> Places]
    /\ req' \in [Requests -> Abouts]
    /\ late' \subseteq Requests /\ late \ {r} = late' \ {r}
    /\ \A q \in Requests \ {r} : pc'[q] = pc[q] /\ req'[q] = req[q]

LEMMA StepOf ==
    ASSUME Inv, NEW r \in Requests, Moves(r), Grows,
           \A q \in Requests \ {r} : pc[q] \in Opening => req[q].session \notin held',
           TypeOK', Numbered(issued, MaxNonces)', Numbered(sessions, MaxSessions)',
           NoncesOK', SessionsOK', RequestOK(r)',
           pc'[r] \in Opening => \A q \in Requests \ {r} :
               pc[q] \in Opening => req'[r].session # req[q].session
    PROVE  Inv'
<1>1. \A q \in Requests \ {r} : RequestOK(q)'
    BY OthersStay DEF Moves
<1>2. OpenedOnce'
    BY DEF Inv, OpenedOnce, Moves
<1> QED
    BY <1>1, <1>2 DEF Inv

\* A step that only moves the request.
LEMMA QuietStep ==
    ASSUME Inv, NEW r \in Requests, Moves(r), UNCHANGED <<stores, tokens, held, ghosts>>,
           RequestOK(r)',
           pc'[r] \in Opening => pc[r] \in Opening /\ req'[r] = req[r]
    PROVE  Inv'
<1> USE DEF stores, ghosts
<1>1. TypeOK'
    BY DEF Inv, TypeOK, Moves, Places, Abouts
<1>2. Numbered(issued, MaxNonces)' /\ Numbered(sessions, MaxSessions)'
    BY DEF Inv, Numbered
<1>3. NoncesOK' /\ SessionsOK' /\ Grows
    BY DEF Inv, NoncesOK, SessionsOK, Grows
<1>4. \A q \in Requests \ {r} : pc[q] \in Opening => req[q].session \notin held'
    BY DEF Inv, RequestOK
<1>5. pc'[r] \in Opening => \A q \in Requests \ {r} :
         pc[q] \in Opening => req'[r].session # req[q].session
    BY DEF Inv, OpenedOnce
<1> QED
    BY <1>1, <1>2, <1>3, <1>4, <1>5, StepOf

LEMMA AboutTyped ==
    \A n \in 0..MaxNonces, s \in 0..MaxSessions : About(n, s) \in Abouts
    BY DEF About, Abouts

LEMMA BeginMoves ==
    ASSUME Inv, NEW r \in Requests, NEW at \in Places, NEW what \in Abouts, Begin(r, at, what),
           late' \in {late, late \union {r}, late \ {r}}
    PROVE  Moves(r) /\ pc'[r] = at /\ req'[r] = what
    BY DEF Inv, TypeOK, Begin, Moves, Places, Abouts

LEMMA FinishMoves ==
    ASSUME Inv, NEW r \in Requests, Finish(r)
    PROVE  Moves(r) /\ pc'[r] = "idle" /\ req'[r] = Blank /\ r \notin late'
<1>1. Blank \in Abouts
    BY SessionsAssumption, AboutTyped DEF Blank
<1> QED
    BY <1>1, BeginMoves DEF Finish, Places

LEMMA GoMoves ==
    ASSUME Inv, NEW r \in Requests, NEW at \in Places, Go(r, at)
    PROVE  Moves(r) /\ pc'[r] = at /\ req'[r] = req[r] /\ late' = late
    BY DEF Inv, TypeOK, Go, Moves, Places, Abouts

\* A request that is done is in order whatever it left behind.
LEMMA Done ==
    ASSUME NEW r, pc'[r] = "idle", r \notin late'
    PROVE  RequestOK(r)' /\ pc'[r] \notin Opening
    BY DEF RequestOK, SigningIn, Opening

LEMMA BeginInv ==
    ASSUME Inv, NEW r \in Requests,
           \/ \E n \in DOMAIN issued : VerifyBegin(r, n)
           \/ \E s \in SessionIds : RefreshBegin(r, s) \/ LogoutBegin(r, s)
    PROVE  Inv'
<1> USE DEF stores, ghosts
<1>0. TypeOK /\ SessionsOK /\ RequestOK(r)
    BY DEF Inv
<1>1. pc[r] = "idle" => r \notin late
    BY <1>0 DEF RequestOK
<1>2. ASSUME NEW n \in DOMAIN issued, VerifyBegin(r, n) PROVE Inv'
    <2>1. n \in 0..MaxNonces
        BY <1>0, <1>2 DEF TypeOK, Nonces
    <2>2. Moves(r) /\ pc'[r] = "nonce" /\ req'[r] = About(n, 0)
        BY <1>2, <2>1, SessionsAssumption, AboutTyped, BeginMoves DEF VerifyBegin, Places
    <2>3. RequestOK(r)'
        BY <1>1, <1>2, <2>2 DEF RequestOK, VerifyBegin, About, SigningIn, Opening
    <2> QED
        BY <1>2, <2>2, <2>3, QuietStep DEF VerifyBegin, Opening
<1>3. ASSUME NEW s \in SessionIds, RefreshBegin(r, s) PROVE Inv'
    <2>1. Moves(r) /\ pc'[r] = "read" /\ req'[r] = About(0, s)
        BY <1>3, SessionsAssumption, AboutTyped, BeginMoves DEF RefreshBegin, Places, SessionIds
    <2>2. RequestOK(r)'
        BY <1>1, <1>3, <2>1 DEF RequestOK, RefreshBegin, About, SigningIn, Opening
    <2> QED
        BY <1>3, <2>1, <2>2, QuietStep DEF RefreshBegin, Opening
<1>4. ASSUME NEW s \in SessionIds, LogoutBegin(r, s) PROVE Inv'
    <2>1. Moves(r) /\ pc'[r] = "revoke" /\ req'[r] = About(0, s)
        BY <1>4, SessionsAssumption, AboutTyped, BeginMoves DEF LogoutBegin, Places, SessionIds
    <2>2. RequestOK(r)'
        BY <1>0, <1>1, <1>4, <2>1 DEF RequestOK, LogoutBegin, About, SigningIn, Opening, SessionsOK
    <2> QED
        BY <1>4, <2>1, <2>2, QuietStep DEF LogoutBegin, Opening
<1> QED
    BY <1>2, <1>3, <1>4

\* A request refused, failed or sent on by what it read.
LEMMA ReadInv ==
    ASSUME Inv, NEW r \in Requests, VerifyGetNonce(r) \/ RefreshReadSession(r) \/ Fail(r)
    PROVE  Inv'
<1> USE DEF stores, ghosts
<1>0. RequestOK(r) /\ NoncesOK /\ SessionsOK
    BY DEF Inv
<1>1. UNCHANGED <<stores, tokens, held, ghosts>>
    BY DEF VerifyGetNonce, RefreshReadSession, Fail
<1>2. CASE Finish(r)
    BY <1>1, <1>2, FinishMoves, Done, QuietStep
<1>3. CASE pc[r] = "nonce" /\ Recovers(r) /\ Go(r, "delete")
    <2>1. Moves(r) /\ pc'[r] = "delete" /\ req'[r] = req[r] /\ late' = late
        BY <1>3, GoMoves DEF Places
    <2>2. req[r].nonce \notin spent
        BY <1>0, <1>3 DEF RequestOK, SigningIn, Recovers, Wallet, NoncesOK
    <2>3. RequestOK(r)'
        BY <1>0, <1>1, <1>3, <2>1, <2>2 DEF RequestOK, SigningIn, Opening
    <2> QED
        BY <1>1, <2>1, <2>3, QuietStep DEF Opening
<1>4. CASE pc[r] = "read" /\ ~sessions[req[r].session].revoked /\ Go(r, "reissue")
    <2>1. Moves(r) /\ pc'[r] = "reissue" /\ req'[r] = req[r] /\ late' = late
        BY <1>4, GoMoves DEF Places
    <2>2. req[r].session \notin closed
        BY <1>0, <1>4 DEF SessionsOK
    <2>3. RequestOK(r)'
        BY <1>0, <1>1, <1>4, <2>1, <2>2 DEF RequestOK, SigningIn, Opening
    <2> QED
        BY <1>1, <2>1, <2>3, QuietStep DEF Opening
<1> QED
    BY <1>2, <1>3, <1>4 DEF VerifyGetNonce, RefreshReadSession, Fail

----------------------------------------------------------------------------
\* The tables and the cache in order, whatever the requests do.
StoresOK == TypeOK /\ Numbered(issued, MaxNonces) /\ Numbered(sessions, MaxSessions)
            /\ NoncesOK /\ SessionsOK

\* A step of a request that has nothing late to answer for.
LEMMA WriteStep ==
    ASSUME Inv, NEW r \in Requests, Moves(r), Grows, r \notin late', StoresOK',
           \A q \in Requests \ {r} : pc[q] \in Opening => req[q].session \notin held',
           pc'[r] \in SigningIn => req'[r].nonce \in DOMAIN issued',
           pc'[r] \in {"session"} \union Opening => Wallet(r)' \in users',
           pc'[r] \in Opening => req'[r].session \in DOMAIN sessions' \ held',
           pc'[r] \in {"read", "reissue", "revoke", "forget"} =>
               req'[r].nonce = 0 /\ req'[r].session \in held',
           pc'[r] = "forget" => sessions'[req'[r].session].revoked,
           pc'[r] \in Opening => \A q \in Requests \ {r} :
               pc[q] \in Opening => req'[r].session # req[q].session
    PROVE  Inv'
<1>1. RequestOK(r)'
    BY DEF RequestOK
<1> QED
    BY <1>1, StepOf DEF StoresOK

\* What the tables still promise when a step leaves most of them alone.
LEMMA LoginWrites ==
    ASSUME Inv, NEW r \in Requests,
           VerifyDeleteNonce(r) \/ VerifyUpsertUser(r) \/ VerifySetSession(r)
    PROVE  Inv'
<1> USE DEF ghosts
<1>0. RequestOK(r) /\ NoncesOK /\ SessionsOK /\ TypeOK /\ Numbered(issued, MaxNonces)
      /\ Numbered(sessions, MaxSessions)
    BY DEF Inv
<1>1. r \notin late /\ req[r].nonce \in DOMAIN issued
    BY <1>0 DEF RequestOK, SigningIn, VerifyDeleteNonce, VerifyUpsertUser, VerifySetSession
<1>2. Wallet(r) \in Wallets
    BY <1>0, <1>1 DEF TypeOK, Wallet
<1>3. \A q \in Requests : pc[q] \in Opening => req[q].session \notin held
    BY DEF Inv, RequestOK
<1>4. CASE VerifyDeleteNonce(r)
    <2>1. Moves(r) /\ pc'[r] = "user" /\ req'[r] = req[r] /\ late' = late
        BY <1>4, GoMoves DEF VerifyDeleteNonce, Places
    <2>2. UNCHANGED <<issued, users, sessions, cache, tokens, held, closed>>
        BY <1>4 DEF VerifyDeleteNonce
    <2>3. nonce' = [nonce EXCEPT ![Wallet(r)] = 0] /\ spent' = spent \union {req[r].nonce}
        BY <1>4 DEF VerifyDeleteNonce
    <2>4. Grows /\ Numbered(issued, MaxNonces)' /\ Numbered(sessions, MaxSessions)' /\ SessionsOK'
        BY <1>0, <2>2, <2>3 DEF Grows, Numbered, SessionsOK
    <2>5. TypeOK'
        BY <1>0, <1>1, <1>2, <2>1, <2>2, <2>3, SessionsAssumption DEF TypeOK, Moves, Places, Abouts
    <2>6. NoncesOK'
        BY <1>0, <1>1, <2>2, <2>3, SessionsAssumption DEF NoncesOK, TypeOK, Wallet, Nonces
    <2> QED
        BY <1>1, <1>3, <2>1, <2>2, <2>4, <2>5, <2>6, WriteStep DEF StoresOK, SigningIn, Opening
<1>5. CASE VerifyUpsertUser(r)
    <2>1. Moves(r) /\ pc'[r] = "session" /\ req'[r] = req[r] /\ late' = late
        BY <1>5, GoMoves DEF VerifyUpsertUser, Places
    <2>2. /\ UNCHANGED <<issued, nonce, sessions, cache, tokens, held, spent, closed>>
          /\ users' = users \union {Wallet(r)}
        BY <1>5 DEF VerifyUpsertUser
    <2>3. Grows /\ Numbered(issued, MaxNonces)' /\ Numbered(sessions, MaxSessions)' /\ SessionsOK'
          /\ NoncesOK'
        BY <1>0, <2>2 DEF Grows, Numbered, SessionsOK, NoncesOK
    <2>4. TypeOK'
        BY <1>0, <1>2, <2>1, <2>2 DEF TypeOK, Moves, Places, Abouts
    <2>5. Wallet(r)' \in users'
        BY <2>1, <2>2 DEF Wallet
    <2> QED
        BY <1>1, <1>3, <2>1, <2>2, <2>3, <2>4, <2>5, WriteStep DEF StoresOK, SigningIn, Opening
<1>6. CASE VerifySetSession(r)
    <2>1. Moves(r) /\ pc'[r] = "answer" /\ req'[r] = req[r] /\ late' = late
        BY <1>6, GoMoves DEF VerifySetSession, Places
    <2>2. /\ UNCHANGED <<issued, nonce, users, sessions, tokens, held, spent, closed>>
          /\ cache' = cache \union {req[r].session} /\ pc[r] = "cache"
        BY <1>6 DEF VerifySetSession
    <2>3. req[r].session \in DOMAIN sessions \ held /\ Wallet(r) \in users
        BY <1>0, <2>2 DEF RequestOK, Opening
    <2>4. Grows /\ Numbered(issued, MaxNonces)' /\ Numbered(sessions, MaxSessions)' /\ SessionsOK'
          /\ NoncesOK'
        BY <1>0, <2>2, <2>3 DEF Grows, Numbered, SessionsOK, NoncesOK
    <2>5. TypeOK'
        BY <1>0, <2>1, <2>2, <2>3 DEF TypeOK, Moves, Places, Abouts
    <2>6. Wallet(r)' \in users'
        BY <2>1, <2>2, <2>3 DEF Wallet
    <2>7. \A q \in Requests \ {r} : pc[q] \in Opening => req'[r].session # req[q].session
        BY <2>1, <2>2 DEF Inv, OpenedOnce, Opening
    <2> QED
        BY <1>1, <1>3, <2>1, <2>2, <2>3, <2>4, <2>5, <2>6, <2>7, WriteStep
           DEF StoresOK, SigningIn, Opening
<1> QED
    BY <1>4, <1>5, <1>6

\* A new session: a number that nobody has, not in the cache, not handed out.
LEMMA CreateInv ==
    ASSUME Inv, NEW r \in Requests, VerifyCreateSession(r)
    PROVE  Inv'
<1> USE DEF ghosts
<1> DEFINE s == Cardinality(DOMAIN sessions) + 1
           row == [wallet |-> Wallet(r), revoked |-> FALSE, expired |-> FALSE]
<1>0. RequestOK(r) /\ NoncesOK /\ SessionsOK /\ TypeOK /\ Numbered(issued, MaxNonces)
      /\ Numbered(sessions, MaxSessions)
    BY DEF Inv
<1>1. /\ pc[r] = "session" /\ s <= MaxSessions
      /\ sessions' = [t \in 1..s |-> IF t = s THEN row ELSE sessions[t]]
      /\ Begin(r, "cache", About(req[r].nonce, s))
      /\ UNCHANGED <<issued, nonce, users, cache, tokens, held, spent, closed, late>>
    BY DEF VerifyCreateSession
<1>2. r \notin late /\ req[r].nonce \in DOMAIN issued /\ Wallet(r) \in users
    BY <1>0, <1>1 DEF RequestOK, SigningIn
<1>3. DOMAIN sessions' = 1..s
    BY <1>1
<1>4. /\ s \in 1..MaxSessions /\ s \notin DOMAIN sessions
      /\ DOMAIN sessions' = DOMAIN sessions \union {s} /\ Numbered(sessions, MaxSessions)'
    <2> HIDE DEF s
    <2>1. s = Cardinality(DOMAIN sessions) + 1
        BY DEF s
    <2>2. \A f, g : Numbered(f, MaxSessions) /\ s = Cardinality(DOMAIN f) + 1 /\ DOMAIN g = 1..s =>
              /\ s \in 1..MaxSessions /\ s \notin DOMAIN f
              /\ DOMAIN g = DOMAIN f \union {s} /\ Numbered(g, MaxSessions)
        BY <1>1, NextNumber, SessionsAssumption
    <2>3. Numbered(sessions', MaxSessions) <=> Numbered(sessions, MaxSessions)'
        BY DEF Numbered
    <2> QED
        BY <1>0, <1>3, <2>1, <2>2, <2>3
<1> HIDE DEF s
<1>5. /\ \A t \in DOMAIN sessions : sessions'[t] = sessions[t]
      /\ sessions'[s] = row
    BY <1>1, <1>3, <1>4
<1>6. About(req[r].nonce, s) \in Abouts
    BY <1>0, <1>4, AboutTyped DEF TypeOK
<1>7. /\ Moves(r) /\ pc'[r] = "cache" /\ req'[r] = About(req[r].nonce, s)
    BY <1>1, <1>6, BeginMoves DEF Places
<1>8. req'[r].nonce = req[r].nonce /\ req'[r].session = s
    BY <1>7 DEF About
<1>9. Grows /\ NoncesOK' /\ SessionsOK'
    BY <1>0, <1>1, <1>4, <1>5 DEF Grows, NoncesOK, SessionsOK
<1>10. Numbered(issued, MaxNonces)'
    BY <1>0, <1>1 DEF Numbered
<1>11. TypeOK'
    <2>1. row \in [wallet : users, revoked : BOOLEAN, expired : BOOLEAN]
        BY <1>2
    <2>2. \A t \in DOMAIN sessions' : sessions'[t] \in [wallet : users', revoked : BOOLEAN, expired : BOOLEAN]
        BY <1>0, <1>1, <1>4, <1>5, <2>1 DEF TypeOK
    <2> QED
        BY <1>0, <1>1, <1>4, <1>7, <2>2 DEF TypeOK, Moves, Places, Abouts, SessionIds
<1>12. Wallet(r)' \in users'
    BY <1>1, <1>2, <1>8 DEF Wallet
<1>13. \A q \in Requests : pc[q] \in Opening => req[q].session \in DOMAIN sessions \ held
    BY DEF Inv, RequestOK
<1>14. s \notin held'
    BY <1>0, <1>1, <1>4 DEF SessionsOK
<1> QED
    BY <1>1, <1>2, <1>4, <1>7, <1>8, <1>9, <1>10, <1>11, <1>12, <1>13, <1>14, WriteStep
       DEF StoresOK, SigningIn, Opening

\* The tokens go out: no other login has the session.
LEMMA AnswerInv ==
    ASSUME Inv, NEW r \in Requests, VerifyAnswer(r) \/ RefreshAnswer(r)
    PROVE  Inv'
<1> USE DEF ghosts, stores
<1>0. RequestOK(r) /\ NoncesOK /\ SessionsOK /\ TypeOK /\ Numbered(issued, MaxNonces)
      /\ Numbered(sessions, MaxSessions)
    BY DEF Inv
<1>1. Moves(r) /\ pc'[r] = "idle" /\ req'[r] = Blank /\ r \notin late'
    BY FinishMoves DEF VerifyAnswer, RefreshAnswer
<1>2. \A q \in Requests : pc[q] \in Opening => req[q].session \notin held
    BY DEF Inv, RequestOK
<1>3. CASE VerifyAnswer(r)
    <2>1. /\ UNCHANGED <<issued, nonce, sessions, cache, spent, closed>> /\ pc[r] = "answer"
          /\ users' = users \union {Wallet(r)}
          /\ tokens' = tokens \union {req[r].session} /\ held' = held \union {req[r].session}
        BY <1>3 DEF VerifyAnswer
    <2>2. req[r].session \in DOMAIN sessions \ held /\ Wallet(r) \in users
        BY <1>0, <2>1 DEF RequestOK, Opening
    <2>3. Grows /\ Numbered(issued, MaxNonces)' /\ Numbered(sessions, MaxSessions)' /\ SessionsOK'
          /\ NoncesOK'
        BY <1>0, <2>1, <2>2 DEF Grows, Numbered, SessionsOK, NoncesOK
    <2>4. users' = users
        BY <2>1, <2>2
    <2>5. TypeOK'
        BY <1>0, <1>1, <2>1, <2>2, <2>4 DEF TypeOK, Moves, Places, Abouts
    <2>6. \A q \in Requests \ {r} : pc[q] \in Opening => req[q].session \notin held'
        BY <1>2, <2>1 DEF Inv, OpenedOnce, Opening
    <2> QED
        BY <1>1, <2>3, <2>5, <2>6, WriteStep DEF StoresOK, SigningIn, Opening
<1>4. CASE RefreshAnswer(r)
    <2>1. /\ UNCHANGED <<issued, nonce, users, sessions, cache, spent, closed, held>>
          /\ pc[r] = "reissue" /\ tokens' \in {tokens, tokens \union {req[r].session}}
        BY <1>4 DEF RefreshAnswer
    <2>2. req[r].session \in held
        BY <1>0, <2>1 DEF RequestOK
    <2>3. Grows /\ Numbered(issued, MaxNonces)' /\ Numbered(sessions, MaxSessions)' /\ SessionsOK'
          /\ NoncesOK'
        BY <1>0, <2>1, <2>2 DEF Grows, Numbered, SessionsOK, NoncesOK
    <2>4. TypeOK'
        BY <1>0, <1>1, <2>1, <2>2 DEF TypeOK, Moves, Places, Abouts
    <2> QED
        BY <1>1, <1>2, <2>1, <2>3, <2>4, WriteStep DEF StoresOK, SigningIn, Opening
<1> QED
    BY <1>3, <1>4

LEMMA LogoutInv ==
    ASSUME Inv, NEW r \in Requests, LogoutRevoke(r) \/ LogoutForget(r)
    PROVE  Inv'
<1> USE DEF ghosts
<1>0. RequestOK(r) /\ NoncesOK /\ SessionsOK /\ TypeOK /\ Numbered(issued, MaxNonces)
      /\ Numbered(sessions, MaxSessions)
    BY DEF Inv
<1>1. req[r].nonce = 0 /\ req[r].session \in held /\ req[r].session \in DOMAIN sessions /\ r \notin late
    BY <1>0 DEF LogoutRevoke, LogoutForget, RequestOK, SessionsOK
<1>2. \A q \in Requests : pc[q] \in Opening => req[q].session \notin held
    BY DEF Inv, RequestOK
<1>3. CASE LogoutRevoke(r)
    <2> DEFINE s == req[r].session
    <2>1. Moves(r) /\ pc'[r] = "forget" /\ req'[r] = req[r] /\ late' = late
        BY <1>3, GoMoves DEF LogoutRevoke, Places
    <2>2. /\ UNCHANGED <<issued, nonce, users, cache, tokens, held, spent, closed>>
          /\ sessions' = [sessions EXCEPT ![s] = [sessions[s] EXCEPT !.revoked = TRUE]]
        BY <1>3 DEF LogoutRevoke
    <2>3. sessions[s] \in [wallet : users, revoked : BOOLEAN, expired : BOOLEAN]
        BY <1>0, <1>1 DEF TypeOK
    <2>4. /\ DOMAIN sessions' = DOMAIN sessions
          /\ \A t \in DOMAIN sessions : t # s => sessions'[t] = sessions[t]
          /\ sessions'[s] \in [wallet : users, revoked : BOOLEAN, expired : BOOLEAN]
          /\ sessions'[s].revoked
        BY <1>1, <2>2, <2>3
    <2>5. Grows /\ NoncesOK' /\ SessionsOK'
        BY <1>0, <2>2, <2>4 DEF Grows, SessionsOK, NoncesOK
    <2>6. Numbered(issued, MaxNonces)' /\ Numbered(sessions, MaxSessions)'
        BY <1>0, <2>2, <2>4 DEF Numbered
    <2>7. TypeOK'
        <3>1. \A t \in DOMAIN sessions' :
                 sessions'[t] \in [wallet : users', revoked : BOOLEAN, expired : BOOLEAN]
            BY <1>0, <2>2, <2>4 DEF TypeOK
        <3> QED
            BY <1>0, <2>1, <2>2, <2>4, <3>1 DEF TypeOK, Moves, Places, Abouts
    <2> QED
        BY <1>1, <1>2, <2>1, <2>2, <2>4, <2>5, <2>6, <2>7, WriteStep DEF StoresOK, SigningIn, Opening
<1>4. CASE LogoutForget(r)
    <2>1. Moves(r) /\ pc'[r] = "idle" /\ req'[r] = Blank /\ r \notin late'
        BY <1>4, FinishMoves DEF LogoutForget
    <2>2. /\ UNCHANGED <<issued, nonce, users, sessions, tokens, held, spent>>
          /\ cache' = cache \ {req[r].session} /\ closed' = closed \union {req[r].session}
          /\ pc[r] = "forget"
        BY <1>4 DEF LogoutForget
    <2>3. sessions[req[r].session].revoked
        BY <1>0, <2>2 DEF RequestOK
    <2>4. Grows /\ Numbered(issued, MaxNonces)' /\ Numbered(sessions, MaxSessions)' /\ SessionsOK'
          /\ NoncesOK'
        BY <1>0, <1>1, <2>2, <2>3 DEF Grows, Numbered, SessionsOK, NoncesOK
    <2>5. TypeOK'
        BY <1>0, <1>1, <2>1, <2>2 DEF TypeOK, Moves, Places, Abouts
    <2> QED
        BY <1>2, <2>1, <2>2, <2>4, <2>5, WriteStep DEF StoresOK, SigningIn, Opening
<1> QED
    BY <1>3, <1>4

----------------------------------------------------------------------------
\* A step of no request.
LEMMA QuietRequests ==
    ASSUME Inv, UNCHANGED <<pc, req, late, held>>, Grows, StoresOK'
    PROVE  Inv'
<1>1. \A q \in Requests : pc[q] \in Opening => req[q].session \notin held'
    BY DEF Inv, RequestOK
<1>2. \A q \in Requests : RequestOK(q)'
    BY <1>1, OthersStay
<1>3. OpenedOnce'
    BY DEF Inv, OpenedOnce
<1> QED
    BY <1>2, <1>3 DEF Inv, StoresOK

LEMMA GenerateInv ==
    ASSUME Inv, NEW w \in Wallets, GenerateNonce(w)
    PROVE  Inv'
<1> USE DEF ghosts
<1> DEFINE n == Cardinality(DOMAIN issued) + 1
<1>0. NoncesOK /\ SessionsOK /\ TypeOK /\ Numbered(issued, MaxNonces) /\ Numbered(sessions, MaxSessions)
    BY DEF Inv
<1>1. /\ n <= MaxNonces /\ issued' = [m \in 1..n |-> IF m = n THEN w ELSE issued[m]]
      /\ nonce' = [nonce EXCEPT ![w] = n]
      /\ UNCHANGED <<users, sessions, cache, tokens, held, pc, req, spent, closed, late>>
    BY DEF GenerateNonce
<1>2. DOMAIN issued' = 1..n
    BY <1>1
<1>3. /\ n \in 1..MaxNonces /\ n \notin DOMAIN issued
      /\ DOMAIN issued' = DOMAIN issued \union {n} /\ Numbered(issued, MaxNonces)'
    <2> HIDE DEF n
    <2>1. n = Cardinality(DOMAIN issued) + 1
        BY DEF n
    <2>2. \A f, g : Numbered(f, MaxNonces) /\ n = Cardinality(DOMAIN f) + 1 /\ DOMAIN g = 1..n =>
              /\ n \in 1..MaxNonces /\ n \notin DOMAIN f
              /\ DOMAIN g = DOMAIN f \union {n} /\ Numbered(g, MaxNonces)
        BY <1>1, NextNumber, SessionsAssumption
    <2>3. Numbered(issued', MaxNonces) <=> Numbered(issued, MaxNonces)'
        BY DEF Numbered
    <2> QED
        BY <1>0, <1>2, <2>1, <2>2, <2>3
<1> HIDE DEF n
<1>4. (\A m \in DOMAIN issued : issued'[m] = issued[m]) /\ issued'[n] = w
    BY <1>1, <1>2, <1>3
<1>5. Grows /\ SessionsOK' /\ Numbered(sessions, MaxSessions)'
    BY <1>0, <1>1, <1>3, <1>4 DEF Grows, SessionsOK, Numbered
<1>6. NoncesOK'
    BY <1>0, <1>1, <1>3, <1>4 DEF NoncesOK, TypeOK
<1>7. TypeOK'
    <2>1. issued' \in [DOMAIN issued' -> Wallets] /\ DOMAIN issued' \subseteq Nonces
        BY <1>0, <1>1, <1>2, <1>3, <1>4 DEF TypeOK, Nonces
    <2>2. nonce' \in [Wallets -> 0..MaxNonces]
        BY <1>0, <1>1, <1>3 DEF TypeOK
    <2> QED
        BY <1>0, <1>1, <2>1, <2>2 DEF TypeOK
<1> QED
    BY <1>1, <1>3, <1>5, <1>6, <1>7, QuietRequests DEF StoresOK

LEMMA ExpireInv ==
    ASSUME Inv, (\E w \in Wallets : ExpireNonce(w)) \/ (\E s \in SessionIds : Expire(s))
    PROVE  Inv'
<1> USE DEF ghosts, stores
<1>0. NoncesOK /\ SessionsOK /\ TypeOK /\ Numbered(issued, MaxNonces) /\ Numbered(sessions, MaxSessions)
    BY DEF Inv
<1>1. ASSUME NEW w \in Wallets, ExpireNonce(w) PROVE Inv'
    <2>1. /\ nonce' = [nonce EXCEPT ![w] = 0]
          /\ UNCHANGED <<issued, users, sessions, cache, tokens, held, pc, req, spent, closed, late>>
        BY <1>1 DEF ExpireNonce
    <2>2. Grows /\ SessionsOK' /\ Numbered(sessions, MaxSessions)' /\ Numbered(issued, MaxNonces)'
        BY <1>0, <2>1 DEF Grows, SessionsOK, Numbered
    <2>3. NoncesOK' /\ TypeOK'
        BY <1>0, <2>1, SessionsAssumption DEF NoncesOK, TypeOK, Nonces
    <2> QED
        BY <2>1, <2>2, <2>3, QuietRequests DEF StoresOK
<1>2. ASSUME NEW s \in SessionIds, UNCHANGED <<issued, nonce, users, sessions, held, pc, req, spent, closed, late>>,
             tokens' \in {tokens, tokens \ {s}}, cache' \in {cache, cache \ {s}}
      PROVE  Inv'
    <2>1. Grows /\ Numbered(sessions, MaxSessions)' /\ Numbered(issued, MaxNonces)'
        BY <1>0, <1>2 DEF Grows, Numbered
    <2>2. NoncesOK' /\ TypeOK' /\ SessionsOK'
        BY <1>0, <1>2 DEF NoncesOK, TypeOK, SessionsOK
    <2> QED
        BY <1>2, <2>1, <2>2, QuietRequests DEF StoresOK
<1>3. ASSUME NEW s \in DOMAIN sessions, sessions' = [sessions EXCEPT ![s].expired = TRUE],
             UNCHANGED <<issued, nonce, users, cache, tokens, held, pc, req, spent, closed, late>>
      PROVE  Inv'
    <2>1. sessions[s] \in [wallet : users, revoked : BOOLEAN, expired : BOOLEAN]
        BY <1>0 DEF TypeOK
    <2>2. /\ DOMAIN sessions' = DOMAIN sessions
          /\ \A t \in DOMAIN sessions : t # s => sessions'[t] = sessions[t]
          /\ sessions'[s] \in [wallet : users, revoked : BOOLEAN, expired : BOOLEAN]
          /\ sessions'[s].revoked = sessions[s].revoked
        BY <1>3, <2>1
    <2>3. Grows /\ SessionsOK' /\ NoncesOK'
        BY <1>0, <1>3, <2>2 DEF Grows, SessionsOK, NoncesOK
    <2>4. Numbered(sessions, MaxSessions)' /\ Numbered(issued, MaxNonces)'
        BY <1>0, <1>3, <2>2 DEF Numbered
    <2>5. TypeOK'
        <3>1. \A t \in DOMAIN sessions' :
                 sessions'[t] \in [wallet : users', revoked : BOOLEAN, expired : BOOLEAN]
            BY <1>0, <1>3, <2>2 DEF TypeOK
        <3> QED
            BY <1>0, <1>3, <2>2, <3>1 DEF TypeOK
    <2> QED
        BY <1>3, <2>3, <2>4, <2>5, QuietRequests DEF StoresOK
<1> QED
    BY <1>1, <1>2, <1>3 DEF Expire

LEMMA StutterInv == Inv /\ UNCHANGED vars => Inv'
<1> SUFFICES ASSUME Inv, UNCHANGED vars PROVE Inv'
    OBVIOUS
<1> USE DEF vars, stores, ghosts
<1>1. Grows /\ StoresOK'
    BY DEF Inv, StoresOK, Grows, TypeOK, Numbered, NoncesOK, SessionsOK
<1> QED
    BY <1>1, QuietRequests

LEMMA InvAlways == Spec => []Inv
<1>1. Inv /\ [Next]_vars => Inv'
    BY BeginInv, ReadInv, LoginWrites, CreateInv, AnswerInv, LogoutInv, GenerateInv, ExpireInv,
       StutterInv DEF Next, Handle
<1> QED
    BY <1>1, InitInv, PTL DEF Spec

\* Every variable keeps to its values: every session row is of a wallet that is a
\* user, whichever requests of it overlap or fail (auth_service.rs:58).
THEOREM TypeCorrect == Spec => []TypeOK
    BY InvAlways, PTL DEF Inv

\* For any number of requests and sessions: what was used or closed when a request
\* was sent stops the request at its first look at the tables.
THEOREM LateRefused == Spec => []LateRequestsAreRefused
<1>1. Inv => LateRequestsAreRefused
    <2> SUFFICES ASSUME Inv, NEW r \in late
                 PROVE  pc[r] = IF req[r].nonce # 0 THEN "nonce" ELSE "read"
        BY DEF LateRequestsAreRefused
    <2>1. RequestOK(r) /\ spent \subseteq 1..MaxNonces
        BY DEF Inv, TypeOK, Nonces
    <2> QED
        BY <2>1, SessionsAssumption DEF RequestOK
<1> QED
    BY <1>1, InvAlways, PTL

\* For any number of requests and sessions: no login, refresh or other logout puts a
\* session back once its logout was answered.
THEOREM Forgotten == Spec => []LoggedOutIsForgotten
    BY InvAlways, PTL DEF Inv, SessionsOK, LoggedOutIsForgotten

============================================================================
