------------------------------ MODULE Sessions ------------------------------
(***************************************************************************)
(* Signing in and out: auth_service.rs with its handlers, over the nonces  *)
(* and session entries in Redis and the users and sessions tables.  Every  *)
(* await is an action; requests of one wallet overlap, fail at any of      *)
(* them, and keys and sessions expire at any time.                         *)
(*                                                                         *)
(* A nonce is a number; a request to verify carries the number that its    *)
(* signature was made over, and recovering another signer from it is the   *)
(* same as its being made over another number.  A refresh token is the     *)
(* number of its session.  An access token that has expired is no token.   *)
(***************************************************************************)
EXTENDS Naturals, FiniteSets

CONSTANTS
    Wallets,
    Requests,
    MaxNonces,     \* bound: nonces issued
    MaxSessions    \* bound: sessions created

ASSUME SessionsAssumption == MaxNonces \in Nat /\ MaxSessions \in Nat

VARIABLES
    issued,        \* Wallet of each nonce issued, in order
    nonce,         \* nonce:{wallet}, 0 if there is none
    users,         \* wallets in the users table
    sessions,      \* rows of the sessions table, in order
    cache,         \* sessions with a session:{id} entry
    tokens,        \* sessions of which somebody holds an access token
    held,          \* sessions of which somebody holds the refresh token
    pc, req,       \* each request: where it is, what it is about
    spent,         \* ghost: nonces that a login has used and deleted
    closed,        \* ghost: sessions whose logout was answered
    late           \* ghost: requests sent when their nonce was spent or their session closed

stores == <<issued, nonce, users, sessions, cache>>
ghosts == <<spent, closed>>
vars == <<stores, tokens, held, pc, req, ghosts, late>>

Nonces == 1..MaxNonces
SessionIds == 1..MaxSessions
\* What a request is about.
About(n, s) == [nonce |-> n, session |-> s]
Blank == About(0, 0)

Begin(r, at, what) == pc' = [pc EXCEPT ![r] = at] /\ req' = [req EXCEPT ![r] = what]
Go(r, at) == pc' = [pc EXCEPT ![r] = at] /\ UNCHANGED <<req, late>>
\* Answered, or refused, or failed: nothing is left of the request.
Finish(r) == Begin(r, "idle", Blank) /\ late' = late \ {r}

Wallet(r) == issued[req[r].nonce]

TypeOK ==
    /\ issued \in [DOMAIN issued -> Wallets] /\ DOMAIN issued \subseteq Nonces
    /\ nonce \in [Wallets -> 0..MaxNonces] /\ users \subseteq Wallets
    /\ DOMAIN sessions \subseteq SessionIds
    /\ \A s \in DOMAIN sessions :
         sessions[s] \in [wallet : users, revoked : BOOLEAN, expired : BOOLEAN]
    /\ cache \subseteq SessionIds /\ tokens \subseteq SessionIds /\ held \subseteq SessionIds
    /\ pc \in [Requests -> {"idle", "nonce", "delete", "user", "session", "cache", "answer",
                            "read", "reissue", "revoke", "forget"}]
    /\ req \in [Requests -> [nonce : 0..MaxNonces, session : 0..MaxSessions]]
    /\ spent \subseteq Nonces /\ closed \subseteq SessionIds /\ late \subseteq Requests

Init ==
    /\ issued = <<>> /\ nonce = [w \in Wallets |-> 0] /\ users = {}
    /\ sessions = <<>> /\ cache = {} /\ tokens = {} /\ held = {}
    /\ pc = [r \in Requests |-> "idle"] /\ req = [r \in Requests |-> Blank]
    /\ spent = {} /\ closed = {} /\ late = {}

----------------------------------------------------------------------------
(* Nonces                                                                  *)

\* generate_nonce: one call, over whatever nonce the wallet had.
GenerateNonce(w) ==
    LET n == Cardinality(DOMAIN issued) + 1 IN
    /\ n <= MaxNonces
    /\ issued' = [m \in 1..n |-> IF m = n THEN w ELSE issued[m]]
    /\ nonce' = [nonce EXCEPT ![w] = n]
    /\ UNCHANGED <<users, sessions, cache, tokens, held, pc, req, ghosts, late>>

\* After 300 seconds.
ExpireNonce(w) ==
    /\ nonce[w] # 0
    /\ nonce' = [nonce EXCEPT ![w] = 0]
    /\ UNCHANGED <<issued, users, sessions, cache, tokens, held, pc, req, ghosts, late>>

----------------------------------------------------------------------------
(* verify_signature                                                        *)

\* The handler's own look at the user has no effect.
VerifyBegin(r, n) ==
    /\ pc[r] = "idle"
    /\ Begin(r, "nonce", About(n, 0))
    /\ late' = IF n \in spent THEN late \union {r} ELSE late
    /\ UNCHANGED <<stores, tokens, held, ghosts>>

\* recover_signer returns the wallet: it signed the nonce that is there.
Recovers(r) == nonce[Wallet(r)] = req[r].nonce

VerifyGetNonce(r) ==
    /\ pc[r] = "nonce"
    /\ IF Recovers(r) THEN Go(r, "delete") ELSE Finish(r)
    /\ UNCHANGED <<stores, tokens, held, ghosts>>

\* Mutant: the nonce stays until it expires.
VerifyKeepNonce(r) ==
    /\ pc[r] = "delete" /\ Go(r, "user")
    /\ spent' = spent \union {req[r].nonce}
    /\ UNCHANGED <<stores, tokens, held, closed>>

\* Mutant: a session for a wallet that may have no user.
VerifyDeleteSkipUser(r) ==
    /\ pc[r] = "delete" /\ Go(r, "session")
    /\ nonce' = [nonce EXCEPT ![Wallet(r)] = 0]
    /\ spent' = spent \union {req[r].nonce}
    /\ UNCHANGED <<issued, users, sessions, cache, tokens, held, closed>>

\* delete_nonce: whatever nonce the wallet has by now.
VerifyDeleteNonce(r) ==
    /\ pc[r] = "delete" /\ Go(r, "user")
    /\ nonce' = [nonce EXCEPT ![Wallet(r)] = 0]
    /\ spent' = spent \union {req[r].nonce}
    /\ UNCHANGED <<issued, users, sessions, cache, tokens, held, closed>>

VerifyUpsertUser(r) ==
    /\ pc[r] = "user" /\ Go(r, "session")
    /\ users' = users \union {Wallet(r)}
    /\ UNCHANGED <<issued, nonce, sessions, cache, tokens, held, ghosts>>

\* Mutant: the tokens go out as soon as the session is there.
VerifyCreateAndAnswer(r) ==
    LET s == Cardinality(DOMAIN sessions) + 1
        row == [wallet |-> Wallet(r), revoked |-> FALSE, expired |-> FALSE] IN
    /\ pc[r] = "session" /\ s <= MaxSessions
    /\ sessions' = [t \in 1..s |-> IF t = s THEN row ELSE sessions[t]]
    /\ Begin(r, "cache", About(req[r].nonce, s))
    /\ tokens' = tokens \union {s} /\ held' = held \union {s}
    /\ UNCHANGED <<issued, nonce, users, cache, ghosts, late>>

VerifyCreateSession(r) ==
    LET s == Cardinality(DOMAIN sessions) + 1
        row == [wallet |-> Wallet(r), revoked |-> FALSE, expired |-> FALSE] IN
    /\ pc[r] = "session" /\ s <= MaxSessions
    /\ sessions' = [t \in 1..s |-> IF t = s THEN row ELSE sessions[t]]
    /\ Begin(r, "cache", About(req[r].nonce, s))
    /\ UNCHANGED <<issued, nonce, users, cache, tokens, held, ghosts, late>>

\* The access token is issued before; nobody has it yet.
VerifySetSession(r) ==
    /\ pc[r] = "cache" /\ Go(r, "answer")
    /\ cache' = cache \union {req[r].session}
    /\ UNCHANGED <<issued, nonce, users, sessions, tokens, held, ghosts>>

\* The handler upserts the user once more and answers both tokens.
VerifyAnswer(r) ==
    /\ pc[r] = "answer" /\ Finish(r)
    /\ users' = users \union {Wallet(r)}
    /\ tokens' = tokens \union {req[r].session} /\ held' = held \union {req[r].session}
    /\ UNCHANGED <<issued, nonce, sessions, cache, ghosts>>

----------------------------------------------------------------------------
(* refresh_token                                                           *)

RefreshBegin(r, s) ==
    /\ pc[r] = "idle" /\ s \in held
    /\ Begin(r, "read", About(0, s))
    /\ late' = IF s \in closed THEN late \union {r} ELSE late
    /\ UNCHANGED <<stores, tokens, held, ghosts>>

\* Mutant: a refresh token is good until it expires.
RefreshReadExpiry(r) ==
    /\ pc[r] = "read"
    /\ IF sessions[req[r].session].expired THEN Finish(r) ELSE Go(r, "reissue")
    /\ UNCHANGED <<stores, tokens, held, ghosts>>

RefreshReadSession(r) ==
    LET row == sessions[req[r].session] IN
    /\ pc[r] = "read"
    /\ IF row.revoked \/ row.expired THEN Finish(r) ELSE Go(r, "reissue")
    /\ UNCHANGED <<stores, tokens, held, ghosts>>

\* get_user_by_id, then a new access token of the same session.
RefreshAnswer(r) ==
    /\ pc[r] = "reissue" /\ Finish(r)
    /\ tokens' = IF sessions[req[r].session].wallet \in users
                 THEN tokens \union {req[r].session} ELSE tokens
    /\ UNCHANGED <<stores, held, ghosts>>

----------------------------------------------------------------------------
(* logout                                                                  *)

\* The access token says which session; the sessions table is not asked.
LogoutBegin(r, s) ==
    /\ pc[r] = "idle" /\ s \in tokens
    /\ Begin(r, "revoke", About(0, s))
    /\ UNCHANGED <<stores, tokens, held, ghosts, late>>

LogoutRevoke(r) ==
    /\ pc[r] = "revoke" /\ Go(r, "forget")
    /\ sessions' = [sessions EXCEPT ![req[r].session].revoked = TRUE]
    /\ UNCHANGED <<issued, nonce, users, cache, tokens, held, ghosts>>

\* delete_session, and the answer.
LogoutForget(r) ==
    /\ pc[r] = "forget" /\ Finish(r)
    /\ cache' = cache \ {req[r].session}
    /\ closed' = closed \union {req[r].session}
    /\ UNCHANGED <<issued, nonce, users, sessions, tokens, held, spent>>

----------------------------------------------------------------------------
\* A call fails, or the client goes away: what was done stays.
Fail(r) ==
    /\ pc[r] # "idle" /\ Finish(r)
    /\ UNCHANGED <<stores, tokens, held, ghosts>>

\* The access token, the cache entry or the refresh token of a session expires.
Expire(s) ==
    \/ /\ s \in tokens /\ tokens' = tokens \ {s}
       /\ UNCHANGED <<stores, held, pc, req, ghosts, late>>
    \/ /\ s \in cache /\ cache' = cache \ {s}
       /\ UNCHANGED <<issued, nonce, users, sessions, tokens, held, pc, req, ghosts, late>>
    \/ /\ s \in DOMAIN sessions /\ ~sessions[s].expired
       /\ sessions' = [sessions EXCEPT ![s].expired = TRUE]
       /\ UNCHANGED <<issued, nonce, users, cache, tokens, held, pc, req, ghosts, late>>

Handle(r) ==
    \/ \E n \in DOMAIN issued : VerifyBegin(r, n)
    \/ \E s \in SessionIds : RefreshBegin(r, s) \/ LogoutBegin(r, s)
    \/ VerifyGetNonce(r) \/ VerifyDeleteNonce(r) \/ VerifyUpsertUser(r)
    \/ VerifyCreateSession(r) \/ VerifySetSession(r) \/ VerifyAnswer(r)
    \/ RefreshReadSession(r) \/ RefreshAnswer(r)
    \/ LogoutRevoke(r) \/ LogoutForget(r) \/ Fail(r)

Next ==
    \/ \E w \in Wallets : GenerateNonce(w) \/ ExpireNonce(w)
    \/ \E r \in Requests : Handle(r)
    \/ \E s \in SessionIds : Expire(s)

Spec == Init /\ [][Next]_vars

----------------------------------------------------------------------------
(* Properties                                                              *)

\* A login that was sent after its nonce had been used gets nowhere, although two
\* that overlap may both pass: the nonce is deleted before anything is created,
\* and the delete of an overlapping login cannot bring one back.  A refresh that
\* was sent after the logout of its session had been answered gets no token; only
\* one that overlaps with the logout may (auth_service.rs:46, auth_service.rs:97).
LateRequestsAreRefused ==
    \A r \in late : pc[r] = IF req[r].nonce # 0 THEN "nonce" ELSE "read"

\* Once a logout was answered the session is in the cache no more, and no login
\* in progress puts it back: it is cached before its token is handed out
\* (auth_service.rs:118).
LoggedOutIsForgotten ==
    \A s \in closed : s \notin cache /\ sessions[s].revoked

=============================================================================
