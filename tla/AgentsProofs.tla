---------------------------- MODULE AgentsProofs ----------------------------
(***************************************************************************)
(* What Agents guarantees for any number of agents, requests and keys.     *)
(***************************************************************************)
EXTENDS Agents, FiniteSetTheorems, TLAPS

Places == {"idle", "find", "insert", "read", "write", "publish", "lookup", "load", "seen"}
Abouts == [wallet : Wallets, change : Changes, key : 0..MaxKeys, copy : Rows]

\* Keys are numbered from one as they are made, and each is made for one agent.
Numbered == \E k \in 0..MaxKeys : DOMAIN made = 1..k
MadeFor(k, w) == k \in DOMAIN made /\ made[k] = w

\* The request has made a key that is in no row yet.
Carries(r) == pc[r] = "insert" \/ (pc[r] = "write" /\ req[r].change = "key")

\* The two rows agree except in some fields.
Agree(a, b, except) == \A field \in Fields \ except : a[field] = b[field]

\* What is known of a request by the place where it is: its key was made for its
\* agent, and its copy agrees with the row in what nobody has written since.
RequestOK(r) ==
    LET w == req[r].wallet IN
    /\ Carries(r) \/ pc[r] \in {"publish", "lookup", "load", "seen"} => MadeFor(req[r].key, w)
    /\ pc[r] \in {"insert", "publish"} /\ req[r].copy.key # 0 => MadeFor(req[r].copy.key, w)
    /\ pc[r] = "write" => /\ rows[w].key # 0 /\ MadeFor(req[r].copy.key, w)
                          /\ Agree(req[r].copy, rows[w], stale[r])

RowsInv ==
    /\ TypeOK /\ Numbered /\ FieldsAreLostByOverlapOnly
    /\ \A r \in Requests : RequestOK(r)

----------------------------------------------------------------------------
\* Request r moves and nobody else.
Moves(r) ==
    /\ pc' \in [Requests -> Places] /\ req' \in [Requests -> Abouts] /\ late' \subseteq Requests
    /\ \A q \in Requests \ {r} : pc'[q] = pc[q] /\ req'[q] = req[q] /\ (q \in late' <=> q \in late)

LEMMA AboutTyped ==
    ASSUME NEW w \in Wallets, NEW change \in Changes, NEW key \in 0..MaxKeys
    PROVE  About(w, change, key) \in Abouts
    BY AgentsAssumption DEF About, Abouts, NoRow, Rows, Statuses

LEMMA BeginMoves ==
    ASSUME TypeOK, NEW r \in Requests, NEW at \in Places, NEW what \in Abouts, Begin(r, at, what),
           late' \in {late, late \union {r}, late \ {r}}
    PROVE  Moves(r) /\ pc'[r] = at /\ req'[r] = what
    BY DEF TypeOK, Begin, Moves, Places, Abouts

LEMMA FinishMoves ==
    ASSUME TypeOK, NEW r \in Requests, Finish(r)
    PROVE  Moves(r) /\ pc'[r] = "idle" /\ r \notin late'
<1>1. Blank(req[r].wallet) \in Abouts
    BY AboutTyped, AgentsAssumption DEF TypeOK, Blank, Changes
<1> QED
    BY <1>1, BeginMoves DEF Finish, Places

LEMMA GoMoves ==
    ASSUME TypeOK, NEW r \in Requests, NEW at \in Places, Go(r, at)
    PROVE  Moves(r) /\ pc'[r] = at /\ req'[r] = req[r] /\ late' = late
    BY DEF TypeOK, Go, Moves, Places, Abouts

LEMMA DoneOK ==
    ASSUME NEW r, pc'[r] = "idle"
    PROVE  RequestOK(r)' /\ ~Carries(r)'
    BY DEF RequestOK, Carries

\* A new key is one that was never made, for the wallet.
LEMMA MakeKeyMakes ==
    ASSUME TypeOK, Numbered, NEW w \in Wallets, MakeKey(w), NextKey <= MaxKeys
    PROVE  /\ NextKey \in 1..MaxKeys /\ NextKey \notin DOMAIN made
           /\ DOMAIN made' = DOMAIN made \union {NextKey} /\ made'[NextKey] = w
           /\ \A k \in DOMAIN made : made'[k] = made[k]
           /\ Numbered' /\ made' \in [DOMAIN made' -> Wallets]
<1>1. PICK k \in 0..MaxKeys : DOMAIN made = 1..k
    BY DEF Numbered
<1>2. Cardinality(1..k) = k
    BY <1>1, FS_Interval
<1>3. NextKey = k + 1
    BY <1>1, <1>2 DEF NextKey
<1>4. made' = [i \in 1..k + 1 |-> IF i = k + 1 THEN w ELSE made[i]]
    BY <1>3 DEF MakeKey
<1>5. DOMAIN made' = 1..k + 1 /\ k + 1 \in 1..MaxKeys
    BY <1>1, <1>3, <1>4, AgentsAssumption
<1> QED
    BY <1>1, <1>3, <1>4, <1>5 DEF Numbered, TypeOK

\* What a key was made for stays.
Kept == \A k \in DOMAIN made : k \in DOMAIN made' /\ made'[k] = made[k]

LEMMA KeysKept ==
    ASSUME TypeOK, Numbered, NEW w \in Wallets, (MakeKey(w) /\ NextKey <= MaxKeys) \/ UNCHANGED made
    PROVE  /\ Kept /\ Numbered'
           /\ DOMAIN made' \subseteq Keys /\ made' \in [DOMAIN made' -> Wallets]
<1>1. CASE MakeKey(w) /\ NextKey <= MaxKeys
    BY <1>1, MakeKeyMakes DEF Kept, TypeOK, Keys
<1>2. CASE UNCHANGED made
    BY <1>2 DEF Kept, TypeOK, Numbered
<1> QED
    BY <1>1, <1>2

\* A step of r that leaves the rows alone.
LEMMA QuietRows ==
    ASSUME RowsInv, NEW r \in Requests, Moves(r), UNCHANGED <<rows, ideal, lost>>,
           Kept, Numbered', DOMAIN made' \subseteq Keys, made' \in [DOMAIN made' -> Wallets],
           stale' \in [Requests -> SUBSET Fields],
           \A q \in Requests \ {r} : stale'[q] = stale[q],
           cached' \subseteq DOMAIN made', handed' \subseteq DOMAIN made',
           retired' \subseteq DOMAIN made', cut' \subseteq Wallets,
           RequestOK(r)'
    PROVE  RowsInv'
<1>1. TypeOK'
    BY DEF RowsInv, TypeOK, Moves, Kept, Places, Abouts
<1>2. FieldsAreLostByOverlapOnly'
    BY DEF RowsInv, FieldsAreLostByOverlapOnly
<1>3. ASSUME NEW q \in Requests \ {r} PROVE RequestOK(q)'
    <2>1. RequestOK(q) /\ pc'[q] = pc[q] /\ req'[q] = req[q] /\ stale'[q] = stale[q]
        BY DEF RowsInv, Moves
    <2>2. \A k, w : MadeFor(k, w) => MadeFor(k, w)'
        BY DEF MadeFor, Kept
    <2>3. Carries(q)' <=> Carries(q)
        BY <2>1 DEF Carries
    <2> QED
        BY <2>1, <2>2, <2>3 DEF RequestOK, Agree
<1> QED
    BY <1>1, <1>2, <1>3 DEF RowsInv

\* A write of the row of w by one of actors (or of nobody in src): it sets the fields
\* in about, puts those in back as they were, and leaves the rest.
RowWritten(actors, w, row, is, about, back) ==
    /\ rows' = [rows EXCEPT ![w] = row] /\ ideal' = [ideal EXCEPT ![w] = is]
    /\ lost' = [lost EXCEPT ![w] = (lost[w] \union back) \ about]
    /\ \A q \in Requests \ actors :
         stale'[q] = IF pc[q] = "write" /\ req[q].wallet = w THEN stale[q] \union about \union back
                                                           ELSE stale[q]
    /\ stale' \in [Requests -> SUBSET Fields] /\ UNCHANGED keys
    /\ row \in Rows /\ is \in Rows /\ about \subseteq Fields /\ back \subseteq Fields
    /\ Agree(row, rows[w], about \union back) /\ Agree(is, ideal[w], about)
    /\ Agree(row, is, Fields \ about)
    /\ MadeFor(row.key, w) \/ row.key = rows[w].key

LEMMA WriteRows ==
    ASSUME RowsInv, NEW actors \in SUBSET Requests, NEW w \in Wallets, NEW row, NEW is, NEW about, NEW back,
           RowWritten(actors, w, row, is, about, back),
           \A q \in Requests \ actors : pc'[q] = pc[q] /\ req'[q] = req[q],
           pc' \in [Requests -> Places], req' \in [Requests -> Abouts], late' \subseteq Requests,
           \A r \in actors : RequestOK(r)'
    PROVE  RowsInv'
<1> USE DEF RowWritten
<1>0. TypeOK
    BY DEF RowsInv
<1>1. /\ rows' \in [Wallets -> Rows] /\ ideal' \in [Wallets -> Rows] /\ lost' \in [Wallets -> SUBSET Fields]
      /\ UNCHANGED <<made, cached, handed, retired, cut>>
    BY <1>0 DEF TypeOK, keys
<1>2. \A k, v : MadeFor(k, v)' <=> MadeFor(k, v)
    BY <1>1 DEF MadeFor
<1>3. \A v \in Wallets : rows'[v].key # 0 => rows'[v].key \in DOMAIN made /\ made[rows'[v].key] = v
    BY <1>0 DEF TypeOK, MadeFor
<1>4. TypeOK'
    BY <1>0, <1>1, <1>3 DEF TypeOK, Places, Abouts
<1>5. FieldsAreLostByOverlapOnly'
    <2> SUFFICES ASSUME NEW v \in Wallets, NEW field \in Fields \ lost'[v]
                 PROVE  rows'[v][field] = ideal'[v][field]
        BY DEF FieldsAreLostByOverlapOnly
    <2>1. CASE v # w
        BY <1>0, <2>1 DEF RowsInv, FieldsAreLostByOverlapOnly, TypeOK
    <2>2. CASE v = w
        <3>1. rows'[w] = row /\ ideal'[w] = is /\ field \notin (lost[w] \union back) \ about
            BY <1>0, <2>2 DEF TypeOK
        <3>2. CASE field \in about
            BY <2>2, <3>1, <3>2 DEF Agree
        <3>3. CASE field \notin about
            <4>1. rows[w][field] = ideal[w][field]
                BY <3>1, <3>3 DEF RowsInv, FieldsAreLostByOverlapOnly
            <4> QED
                BY <2>2, <3>1, <3>3, <4>1 DEF Agree
        <3> QED
            BY <3>2, <3>3
    <2> QED
        BY <2>1, <2>2
<1>6. ASSUME NEW q \in Requests \ actors PROVE RequestOK(q)'
    <2>1. RequestOK(q) /\ pc'[q] = pc[q] /\ req'[q] = req[q] /\ req[q].wallet \in Wallets
        BY <1>0 DEF RowsInv, TypeOK
    <2>2. Carries(q)' <=> Carries(q)
        BY <2>1 DEF Carries
    <2>3. ASSUME pc[q] = "write"
          PROVE  LET v == req[q].wallet IN rows'[v].key # 0 /\ Agree(req[q].copy, rows'[v], stale'[q])
        <3>1. /\ rows[req[q].wallet].key # 0
              /\ Agree(req[q].copy, rows[req[q].wallet], stale[q])
            BY <2>1, <2>3 DEF RequestOK
        <3>2. CASE req[q].wallet = w
            <4>1. rows'[w] = row /\ stale'[q] = stale[q] \union about \union back
                BY <1>0, <2>3, <3>2 DEF TypeOK
            <4>2. row.key # 0
                BY <1>0, <3>1, <3>2, AgentsAssumption DEF MadeFor, TypeOK, Keys
            <4> QED
                BY <3>1, <3>2, <4>1, <4>2 DEF Agree
        <3>3. CASE req[q].wallet # w
            BY <1>0, <2>1, <2>3, <3>1, <3>3 DEF TypeOK
        <3> QED
            BY <3>2, <3>3
    <2> QED
        BY <1>2, <2>1, <2>2, <2>3 DEF RequestOK
<1>7. Numbered'
    BY <1>1 DEF RowsInv, Numbered
<1> QED
    BY <1>4, <1>5, <1>6, <1>7 DEF RowsInv

----------------------------------------------------------------------------
LEMMA InitRows == Init => RowsInv
<1> SUFFICES ASSUME Init PROVE RowsInv
    OBVIOUS
<1>1. DOMAIN made = 1..0
    BY DEF Init
<1>2. Numbered
    BY <1>1, AgentsAssumption DEF Numbered
<1>3. NoRow \in Rows
    BY AgentsAssumption DEF NoRow, Rows, Statuses
<1>4. \A w \in Wallets : Blank(w) \in Abouts
    BY AboutTyped, AgentsAssumption DEF Blank, Changes
<1>5. TypeOK
    BY <1>1, <1>3, <1>4 DEF Init, TypeOK, Abouts, NoRow
<1>6. FieldsAreLostByOverlapOnly
    BY DEF Init, FieldsAreLostByOverlapOnly
<1> QED
    BY <1>2, <1>5, <1>6 DEF RowsInv, Init, RequestOK, Carries

LEMMA BeginRows ==
    ASSUME RowsInv, NEW r \in Requests,
           \/ \E w \in Wallets : RegisterBegin(r, w) \/ \E change \in Asked : ChangeBegin(r, w, change)
           \/ \E k \in DOMAIN made : AuthenticateBegin(r, k)
    PROVE  RowsInv'
<1> USE DEF tables, keys
<1>0. TypeOK
    BY DEF RowsInv
<1>1. UNCHANGED <<tables, keys>> /\ Kept /\ Numbered'
    BY DEF RegisterBegin, ChangeBegin, AuthenticateBegin, Kept, RowsInv, Numbered
<1>2. ASSUME NEW w \in Wallets, NEW change \in Changes, NEW at \in {"find", "read"},
             Begin(r, at, About(w, change, 0)), UNCHANGED late
      PROVE  RowsInv'
    <2>1. Moves(r) /\ pc'[r] = at
        BY <1>0, <1>2, AboutTyped, BeginMoves, AgentsAssumption DEF Places
    <2>2. RequestOK(r)'
        BY <2>1 DEF RequestOK, Carries
    <2> QED
        BY <1>0, <1>1, <2>1, <2>2, QuietRows DEF TypeOK
<1>3. ASSUME NEW k \in DOMAIN made, AuthenticateBegin(r, k) PROVE RowsInv'
    <2>1. made[k] \in Wallets /\ k \in 0..MaxKeys /\ "texts" \in Changes
        BY <1>0 DEF TypeOK, Keys, Changes
    <2>2. Moves(r) /\ pc'[r] = "lookup" /\ req'[r] = About(made[k], "texts", k)
        BY <1>0, <1>3, <2>1, AboutTyped, BeginMoves DEF AuthenticateBegin, Places
    <2>3. RequestOK(r)'
        BY <1>1, <2>2 DEF RequestOK, Carries, About, MadeFor
    <2> QED
        BY <1>0, <1>1, <2>2, <2>3, QuietRows DEF TypeOK
<1>4. "texts" \in Changes /\ Asked \subseteq Changes
    BY AgentsAssumption DEF Changes
<1> QED
    BY <1>2, <1>3, <1>4 DEF RegisterBegin, ChangeBegin, Blank

LEMMA ReadRows ==
    ASSUME RowsInv, NEW r \in Requests,
           \/ AuthenticateLookup(r) \/ AuthenticateLoad(r) \/ Fail(r) \/ Publish(r)
           \/ (RegisterFind(r) \/ ChangeRead(r) \/ RegisterInsert(r)) /\ Finish(r) /\ UNCHANGED <<tables, keys>>
    PROVE  RowsInv'
<1> USE DEF tables, keys
<1>0. TypeOK /\ RequestOK(r)
    BY DEF RowsInv
<1>1. UNCHANGED <<rows, ideal, lost, made>> /\ Kept /\ Numbered'
    BY DEF AuthenticateLookup, AuthenticateLoad, Fail, Publish, Kept, RowsInv, Numbered
<1>2. CASE UNCHANGED <<tables, keys>> /\ Finish(r)
    BY <1>0, <1>1, <1>2, FinishMoves, DoneOK, QuietRows DEF TypeOK
<1>3. CASE Fail(r)
    <2>1. /\ stale' \in [Requests -> SUBSET Fields] /\ \A q \in Requests \ {r} : stale'[q] = stale[q]
          /\ cut' \subseteq Wallets /\ UNCHANGED <<cached, handed, retired>> /\ Finish(r)
        BY <1>0, <1>3 DEF TypeOK, Fail
    <2> QED
        BY <1>0, <1>1, <2>1, FinishMoves, DoneOK, QuietRows DEF TypeOK
<1>4. CASE Publish(r)
    <2>1. MadeFor(req[r].key, req[r].wallet) /\ (req[r].copy.key # 0 => req[r].copy.key \in DOMAIN made)
        BY <1>0, <1>4 DEF Publish, RequestOK, MadeFor
    <2>2. /\ cached' \subseteq DOMAIN made /\ handed' \subseteq DOMAIN made
          /\ retired' \subseteq DOMAIN made /\ cut' \subseteq Wallets /\ UNCHANGED stale /\ Finish(r)
        BY <1>0, <1>4, <2>1 DEF Publish, MadeFor, TypeOK
    <2> QED
        BY <1>0, <1>1, <2>2, FinishMoves, DoneOK, QuietRows DEF TypeOK
<1>5. CASE AuthenticateLookup(r) /\ Go(r, "load")
    <2>1. Moves(r) /\ pc'[r] = "load" /\ req'[r] = req[r] /\ UNCHANGED <<tables, keys>>
        BY <1>0, <1>5, GoMoves DEF Places, AuthenticateLookup
    <2>2. RequestOK(r)'
        BY <1>0, <1>5, <2>1 DEF RequestOK, Carries, AuthenticateLookup, MadeFor
    <2> QED
        BY <1>0, <1>1, <2>1, <2>2, QuietRows DEF TypeOK
<1>6. CASE AuthenticateLoad(r) /\ Go(r, "seen")
    <2>1. Moves(r) /\ pc'[r] = "seen" /\ req'[r] = req[r] /\ UNCHANGED <<tables, keys>>
        BY <1>0, <1>6, GoMoves DEF Places, AuthenticateLoad
    <2>2. RequestOK(r)'
        BY <1>0, <1>6, <2>1 DEF RequestOK, Carries, AuthenticateLoad, MadeFor
    <2> QED
        BY <1>0, <1>1, <2>1, <2>2, QuietRows DEF TypeOK
<1> QED
    BY <1>2, <1>3, <1>4, <1>5, <1>6 DEF AuthenticateLookup, AuthenticateLoad

\* register_agent and the read of a change: a new key, or a copy of the row.
LEMMA MakeRows ==
    ASSUME RowsInv, NEW r \in Requests, RegisterFind(r) \/ ChangeRead(r)
    PROVE  RowsInv'
<1> USE DEF tables, keys
<1> DEFINE w == req[r].wallet
<1>0. TypeOK /\ Numbered /\ w \in Wallets /\ req[r].change \in Changes
    BY DEF RowsInv, TypeOK
<1>1. CASE Finish(r) /\ UNCHANGED <<tables, keys>>
    BY <1>1, ReadRows
<1>2. ASSUME pc[r] = "find", NextKey <= MaxKeys, MakeKey(w), UNCHANGED <<cached, handed, retired, cut>>,
             Begin(r, "insert", About(w, "texts", NextKey)), UNCHANGED late, UNCHANGED tables
      PROVE  RowsInv'
    <2>1. /\ NextKey \in 1..MaxKeys /\ made'[NextKey] = w
          /\ DOMAIN made' = DOMAIN made \union {NextKey}
        BY <1>0, <1>2, MakeKeyMakes
    <2>2. Kept /\ Numbered' /\ DOMAIN made' \subseteq Keys /\ made' \in [DOMAIN made' -> Wallets]
        BY <1>0, <1>2, KeysKept
    <2>3. About(w, "texts", NextKey) \in Abouts
        BY <1>0, <2>1, AboutTyped, AgentsAssumption DEF Changes
    <2>4. Moves(r) /\ pc'[r] = "insert" /\ req'[r] = About(w, "texts", NextKey)
        BY <1>0, <1>2, <2>3, BeginMoves DEF Places
    <2>5. RequestOK(r)'
        BY <2>1, <2>4 DEF RequestOK, Carries, About, MadeFor, NoRow
    <2>6. /\ cached' \subseteq DOMAIN made' /\ handed' \subseteq DOMAIN made'
          /\ retired' \subseteq DOMAIN made' /\ cut' \subseteq Wallets
          /\ stale' \in [Requests -> SUBSET Fields]
        BY <1>0, <1>2, <2>1 DEF TypeOK
    <2> QED
        BY <1>2, <2>2, <2>4, <2>5, <2>6, QuietRows
<1>3. ASSUME pc[r] = "read", rows[w].key # 0, req[r].change = "key" => NextKey <= MaxKeys,
             IF req[r].change = "key" THEN MakeKey(w) /\ UNCHANGED <<cached, handed, retired, cut>>
                                      ELSE UNCHANGED keys,
             NEW k, k = IF req[r].change = "key" THEN NextKey ELSE 0,
             Begin(r, "write", [About(w, req[r].change, k) EXCEPT !.copy = rows[w]]), UNCHANGED late,
             stale' = [stale EXCEPT ![r] = {}], UNCHANGED <<rows, ideal, lost>>
      PROVE  RowsInv'
    <2> DEFINE what == [About(w, req[r].change, k) EXCEPT !.copy = rows[w]]
    <2>1. Kept /\ Numbered' /\ DOMAIN made' \subseteq Keys /\ made' \in [DOMAIN made' -> Wallets]
        BY <1>0, <1>3, KeysKept
    <2>2. k \in 0..MaxKeys /\ (req[r].change = "key" => k \in DOMAIN made' /\ made'[k] = w)
        <3>1. CASE req[r].change = "key"
            BY <1>0, <1>3, <3>1, MakeKeyMakes
        <3>2. CASE req[r].change # "key"
            BY <1>3, <3>2, AgentsAssumption
        <3> QED
            BY <3>1, <3>2
    <2>3. rows[w] \in Rows /\ MadeFor(rows[w].key, w)
        BY <1>0, <1>3 DEF TypeOK, MadeFor
    <2>4. /\ what \in Abouts /\ what.wallet = w /\ what.change = req[r].change
          /\ what.key = k /\ what.copy = rows[w]
        BY <1>0, <2>2, <2>3 DEF About, Abouts, NoRow
    <2> HIDE DEF what
    <2>5. Moves(r) /\ pc'[r] = "write" /\ req'[r] = what
        BY <1>0, <1>3, <2>4, BeginMoves DEF Places, what
    <2>6. rows[w].key \in DOMAIN made' /\ made'[rows[w].key] = w
        BY <1>3, <2>1, <2>3 DEF MadeFor, Kept
    <2>7. stale' \in [Requests -> SUBSET Fields] /\ stale'[r] = {}
          /\ \A q \in Requests \ {r} : stale'[q] = stale[q]
        BY <1>0, <1>3 DEF TypeOK
    <2>8. RequestOK(r)'
        BY <1>3, <2>2, <2>4, <2>5, <2>6, <2>7 DEF RequestOK, Carries, Agree, MadeFor
    <2>9. /\ cached' \subseteq DOMAIN made' /\ handed' \subseteq DOMAIN made'
          /\ retired' \subseteq DOMAIN made' /\ cut' \subseteq Wallets
        BY <1>0, <1>3, <2>1 DEF TypeOK, Kept
    <2> QED
        BY <1>3, <2>1, <2>5, <2>7, <2>8, <2>9, QuietRows
<1> QED
    BY <1>1, <1>2, <1>3 DEF RegisterFind, ChangeRead

\* create_agent: no other request has a copy of a row that was not there.
LEMMA InsertRows ==
    ASSUME RowsInv, NEW r \in Requests, RegisterInsert(r)
    PROVE  RowsInv'
<1> USE DEF tables
<1> DEFINE w == req[r].wallet
           row == [NoRow EXCEPT !.key = req[r].key]
<1>0. TypeOK /\ RequestOK(r) /\ w \in Wallets /\ req[r].key \in 0..MaxKeys
    BY DEF RowsInv, TypeOK
<1>1. CASE Finish(r) /\ UNCHANGED <<tables, keys>>
    BY <1>1, ReadRows DEF RegisterInsert
<1>2. CASE ~(Finish(r) /\ UNCHANGED <<tables, keys>>)
    <2>1. /\ pc[r] = "insert" /\ rows[w].key = 0 /\ Go(r, "publish")
          /\ rows' = [rows EXCEPT ![w] = row] /\ ideal' = [ideal EXCEPT ![w] = rows'[w]]
          /\ UNCHANGED <<lost, stale, keys>>
        BY <1>2 DEF RegisterInsert
    <2>2. row \in Rows /\ row.key = req[r].key /\ MadeFor(req[r].key, w)
        BY <1>0, <2>1, AgentsAssumption DEF NoRow, Rows, Statuses, RequestOK, Carries
    <2> HIDE DEF row
    <2>3. rows'[w] = row /\ ideal' = [ideal EXCEPT ![w] = row]
        BY <1>0, <2>1 DEF TypeOK
    <2>4. Moves(r) /\ pc'[r] = "publish" /\ req'[r] = req[r]
        BY <1>0, <2>1, GoMoves DEF Places
    <2>5. RequestOK(r)'
        BY <1>0, <2>1, <2>4 DEF RequestOK, Carries, MadeFor, keys
    <2>6. \A v \in Wallets : rows'[v].key # 0 => rows'[v].key \in DOMAIN made /\ made[rows'[v].key] = v
        BY <1>0, <2>1, <2>2, <2>3 DEF TypeOK, MadeFor
    <2>7. TypeOK'
        BY <1>0, <2>1, <2>2, <2>3, <2>4, <2>6 DEF TypeOK, keys, Moves, Places, Abouts
    <2>8. FieldsAreLostByOverlapOnly'
        BY <1>0, <2>1, <2>3 DEF RowsInv, FieldsAreLostByOverlapOnly, TypeOK
    <2>9. ASSUME NEW q \in Requests \ {r} PROVE RequestOK(q)'
        <3>1. RequestOK(q) /\ pc'[q] = pc[q] /\ req'[q] = req[q] /\ req[q].wallet \in Wallets
            BY <1>0, <2>4 DEF RowsInv, TypeOK, Moves
        <3>2. pc[q] = "write" => rows'[req[q].wallet] = rows[req[q].wallet]
            BY <1>0, <2>1, <3>1 DEF RequestOK, TypeOK
        <3> QED
            BY <2>1, <3>1, <3>2 DEF RequestOK, Carries, MadeFor, keys
    <2>10. Numbered'
        BY <2>1 DEF RowsInv, Numbered, keys
    <2> QED
        BY <2>5, <2>7, <2>8, <2>9, <2>10 DEF RowsInv
<1> QED
    BY <1>1, <1>2

\* The statement of update_agent: what is written over is lost only if it is stale.
LEMMA WriteRowRows ==
    ASSUME RowsInv, NEW r \in Requests, WriteRow(r)
    PROVE  RowsInv'
<1> DEFINE w == req[r].wallet
           change == req[r].change
           row == Changed(req[r].copy, change, req[r].key)
           is == Changed(ideal[w], change, req[r].key)
           about == Sets(change)
           back == stale[r] \ about
<1>0. TypeOK /\ RequestOK(r) /\ w \in Wallets /\ change \in Changes
      /\ req[r].key \in 0..MaxKeys /\ req[r].copy \in Rows /\ ideal[w] \in Rows
    BY DEF RowsInv, TypeOK
<1>1. /\ pc[r] = "write" /\ rows' = [rows EXCEPT ![w] = row] /\ ideal' = [ideal EXCEPT ![w] = is]
      /\ Written(r, w, about, back) /\ UNCHANGED keys
      /\ IF change = "key" THEN Go(r, "publish") ELSE Finish(r)
    BY DEF WriteRow
<1>2. /\ MadeFor(req[r].copy.key, w) /\ Agree(req[r].copy, rows[w], stale[r])
      /\ change = "key" => MadeFor(req[r].key, w)
    BY <1>0, <1>1 DEF RequestOK, Carries
<1>3. /\ about \subseteq Fields /\ back \subseteq Fields
      /\ (change \in {"active", "paused"} /\ about = {"status"}) \/ (change = "texts" /\ about = {})
         \/ (change = "key" /\ about = {"key"})
    BY <1>0 DEF Changes, Sets, Fields, TypeOK
<1>4. row \in Rows /\ is \in Rows
    BY <1>0 DEF Changed, Rows, Changes, Statuses
<1>5. Agree(row, req[r].copy, about) /\ Agree(is, ideal[w], about) /\ Agree(row, is, Fields \ about)
    BY <1>0, <1>3 DEF Agree, Changed, Rows, Fields
<1>6. row.key = IF change = "key" THEN req[r].key ELSE req[r].copy.key
    BY <1>0 DEF Changed, Rows
<1>7. MadeFor(row.key, w)
    BY <1>2, <1>6
<1> HIDE DEF row, is, about
<1>8. Agree(row, rows[w], about \union back)
    BY <1>2, <1>5 DEF Agree
<1>9. /\ lost' = [lost EXCEPT ![w] = (lost[w] \union back) \ about]
      /\ stale' \in [Requests -> SUBSET Fields]
      /\ \A q \in Requests \ {r} :
           stale'[q] = IF pc[q] = "write" /\ req[q].wallet = w THEN stale[q] \union about \union back
                                                             ELSE stale[q]
    BY <1>0, <1>1, <1>3 DEF Written, TypeOK
<1>10. RowWritten({r}, w, row, is, about, back)
    BY <1>1, <1>3, <1>4, <1>5, <1>7, <1>8, <1>9 DEF RowWritten
<1>11. Moves(r) /\ RequestOK(r)'
    <2>1. CASE change = "key"
        <3>1. Moves(r) /\ pc'[r] = "publish" /\ req'[r] = req[r]
            BY <1>0, <1>1, <2>1, GoMoves DEF Places
        <3> QED
            BY <1>1, <1>2, <2>1, <3>1 DEF RequestOK, Carries, MadeFor, keys
    <2>2. CASE change # "key"
        BY <1>0, <1>1, <2>2, FinishMoves, DoneOK
    <2> QED
        BY <2>1, <2>2
<1> QED
    BY <1>0, <1>10, <1>11, WriteRows DEF Moves

LEMMA SeenRows ==
    ASSUME RowsInv, NEW r \in Requests, AuthenticateSeen(r)
    PROVE  RowsInv'
<1> DEFINE w == req[r].wallet
           row == [rows[w] EXCEPT !.seen = TRUE]
           is == [ideal[w] EXCEPT !.seen = TRUE]
<1>0. TypeOK /\ w \in Wallets /\ rows[w] \in Rows /\ ideal[w] \in Rows
    BY DEF RowsInv, TypeOK
<1>1. /\ rows' = [rows EXCEPT ![w] = row] /\ ideal' = [ideal EXCEPT ![w] = is]
      /\ Written(r, w, {"seen"}, {}) /\ UNCHANGED keys /\ Finish(r)
    BY DEF AuthenticateSeen
<1>2. row \in Rows /\ is \in Rows /\ row.key = rows[w].key
    BY <1>0 DEF Rows
<1>3. Agree(row, rows[w], {"seen"}) /\ Agree(is, ideal[w], {"seen"}) /\ Agree(row, is, Fields \ {"seen"})
    BY <1>0 DEF Agree, Rows, Fields
<1> HIDE DEF row, is
<1>4. /\ lost' = [lost EXCEPT ![w] = (lost[w] \union {}) \ {"seen"}]
      /\ stale' \in [Requests -> SUBSET Fields]
      /\ \A q \in Requests \ {r} :
           stale'[q] = IF pc[q] = "write" /\ req[q].wallet = w THEN stale[q] \union {"seen"} \union {}
                                                             ELSE stale[q]
    BY <1>0, <1>1 DEF Written, TypeOK, Fields
<1>5. RowWritten({r}, w, row, is, {"seen"}, {})
    BY <1>1, <1>2, <1>3, <1>4 DEF RowWritten, Fields
<1>6. Moves(r) /\ RequestOK(r)'
    BY <1>0, <1>1, FinishMoves, DoneOK
<1> QED
    BY <1>0, <1>5, <1>6, WriteRows DEF Moves

LEMMA SuspendRows ==
    ASSUME RowsInv, NEW w \in Wallets, Suspend(w)
    PROVE  RowsInv'
<1> DEFINE row == [rows[w] EXCEPT !.status = "suspended"]
           is == [ideal[w] EXCEPT !.status = "suspended"]
<1>0. TypeOK /\ rows[w] \in Rows /\ ideal[w] \in Rows
    BY DEF RowsInv, TypeOK
<1>1. /\ rows' = [rows EXCEPT ![w] = row] /\ ideal' = [ideal EXCEPT ![w] = is]
      /\ UNCHANGED <<keys, pc, req, late>>
    BY DEF Suspend
<1>2. row \in Rows /\ is \in Rows /\ row.key = rows[w].key
    BY <1>0 DEF Rows, Statuses
<1>3. Agree(row, rows[w], {"status"}) /\ Agree(is, ideal[w], {"status"}) /\ Agree(row, is, Fields \ {"status"})
    BY <1>0 DEF Agree, Rows, Fields
<1> HIDE DEF row, is
<1>4. /\ lost' = [lost EXCEPT ![w] = (lost[w] \union {}) \ {"status"}]
      /\ stale' \in [Requests -> SUBSET Fields]
      /\ \A q \in Requests \ {} :
           stale'[q] = IF pc[q] = "write" /\ req[q].wallet = w THEN stale[q] \union {"status"} \union {}
                                                             ELSE stale[q]
    BY <1>0 DEF Suspend, TypeOK, Fields
<1>5. RowWritten({}, w, row, is, {"status"}, {})
    BY <1>1, <1>2, <1>3, <1>4 DEF RowWritten, Fields
<1>6. pc' \in [Requests -> Places] /\ req' \in [Requests -> Abouts] /\ late' \subseteq Requests
    BY <1>0, <1>1 DEF TypeOK, Places, Abouts
<1> QED
    BY <1>1, <1>5, <1>6, WriteRows

LEMMA RowsAlways == Spec => []RowsInv
<1>1. RowsInv /\ UNCHANGED vars => RowsInv'
    BY DEF vars, tables, keys, RowsInv, TypeOK, Numbered, FieldsAreLostByOverlapOnly, RequestOK, Carries,
           MadeFor, Agree
<1>2. RowsInv /\ [Next]_vars => RowsInv'
    BY <1>1, BeginRows, ReadRows, MakeRows, InsertRows, WriteRowRows, SeenRows, SuspendRows
       DEF Next, Handle
<1> QED
    BY <1>2, InitRows, PTL DEF Spec

\* Every variable keeps to its values, and the row of an agent is opened by a key that
\* was made for it, whatever copies are written back (agent_service.rs:216).
THEOREM TypeCorrect == Spec => []TypeOK
    BY RowsAlways, PTL DEF RowsInv

\* For any number of requests: the row shows what was last asked for in every field
\* that no overlapping request has put back.
THEOREM FieldsLost == Spec => []FieldsAreLostByOverlapOnly
    BY RowsAlways, PTL DEF RowsInv

----------------------------------------------------------------------------
(* The owner's key                                                         *)

\* The owner holds the key k of agent w and it is in the cache, or is about to, or
\* was cut off from it.
Open(w, k) ==
    \/ k \in handed \intersect cached \/ w \in cut
    \/ \E q \in Requests : pc[q] = "publish" /\ req[q].key = k

OwnerInv ==
    /\ \A w \in Wallets : rows[w].key # 0 => Open(w, rows[w].key)
    /\ \A r \in Requests : pc[r] = "write" => Open(req[r].wallet, req[r].copy.key)

\* A request that is to publish is left to, or publishes, or fails.
LEMMA PublishersStay ==
    ASSUME RowsInv, Next, NEW q \in Requests, pc[q] = "publish"
    PROVE  Publish(q) \/ Fail(q) \/ (pc'[q] = "publish" /\ req'[q] = req[q])
<1>0. TypeOK
    BY DEF RowsInv
<1>1. CASE \E w \in Wallets : Suspend(w)
    BY <1>1 DEF Suspend
<1>2. ASSUME NEW r \in Requests, Handle(r), r # q PROVE pc'[q] = "publish" /\ req'[q] = req[q]
    <2>1. \A at, what : Begin(r, at, what) => pc'[q] = pc[q] /\ req'[q] = req[q]
        BY <1>0, <1>2 DEF Begin, TypeOK
    <2>2. \A at : Go(r, at) => pc'[q] = pc[q] /\ req'[q] = req[q]
        BY <1>0, <1>2 DEF Go, TypeOK
    <2>3. Finish(r) => pc'[q] = pc[q] /\ req'[q] = req[q]
        BY <2>1 DEF Finish
    <2> QED
        BY <1>2, <2>1, <2>2, <2>3
           DEF Handle, RegisterBegin, ChangeBegin, AuthenticateBegin, RegisterFind, RegisterInsert, Publish,
               ChangeRead, WriteRow, AuthenticateLookup, AuthenticateLoad, AuthenticateSeen, Fail
<1>3. CASE Handle(q)
    BY <1>3 DEF Handle, RegisterBegin, ChangeBegin, AuthenticateBegin, RegisterFind, RegisterInsert,
                ChangeRead, WriteRow, AuthenticateLookup, AuthenticateLoad, AuthenticateSeen
<1> QED
    BY <1>1, <1>2, <1>3 DEF Next

\* A key that opens goes on to open.
LEMMA OpenStays ==
    ASSUME RowsInv, Next, NEW w, NEW k, MadeFor(k, w), Open(w, k)
    PROVE  Open(w, k)'
<1>0. TypeOK
    BY DEF RowsInv
<1>1. handed \subseteq handed' /\ cached \subseteq cached' /\ cut \subseteq cut'
    BY DEF Next, Handle, RegisterBegin, ChangeBegin, AuthenticateBegin, RegisterFind, RegisterInsert, Publish,
           ChangeRead, WriteRow, AuthenticateLookup, AuthenticateLoad, AuthenticateSeen, Fail, Suspend,
           keys, tables
<1>2. ASSUME NEW q \in Requests, pc[q] = "publish", req[q].key = k
      PROVE  Open(w, k)'
    <2>1. req[q].wallet = w
        BY <1>2 DEF RowsInv, RequestOK, MadeFor
    <2>2. Publish(q) => Open(w, k)'
        BY <1>2, <2>1 DEF Publish, Open
    <2>3. Fail(q) => Open(w, k)'
        BY <1>2, <2>1 DEF Fail, Open
    <2> QED
        BY <1>2, <2>2, <2>3, PublishersStay DEF Open
<1> QED
    BY <1>1, <1>2 DEF Open

\* Only create_agent and update_agent write the key of a row.
LEMMA KeyOfRow ==
    ASSUME RowsInv, Next, NEW w \in Wallets, rows'[w].key # rows[w].key
    PROVE  \E r \in Requests :
             /\ req[r].wallet = w
             /\ \/ /\ RegisterInsert(r) \/ (WriteRow(r) /\ req[r].change = "key")
                   /\ Carries(r) /\ pc'[r] = "publish" /\ req'[r] = req[r] /\ rows'[w].key = req[r].key
                \/ /\ WriteRow(r) /\ req[r].change # "key" /\ pc[r] = "write"
                   /\ rows'[w].key = req[r].copy.key
<1>0. TypeOK
    BY DEF RowsInv
<1>1. ASSUME NEW r \in Requests, RegisterInsert(r)
      PROVE  /\ req[r].wallet = w /\ Carries(r) /\ pc'[r] = "publish" /\ req'[r] = req[r]
             /\ rows'[w].key = req[r].key
    BY <1>0, <1>1 DEF RegisterInsert, Carries, Go, TypeOK, tables, NoRow
<1>2. ASSUME NEW r \in Requests, WriteRow(r)
      PROVE  /\ req[r].wallet = w /\ pc[r] = "write"
             /\ req[r].change = "key" => Carries(r) /\ pc'[r] = "publish" /\ req'[r] = req[r]
             /\ rows'[w].key = IF req[r].change = "key" THEN req[r].key ELSE req[r].copy.key
    <2>1. req[r].wallet \in Wallets /\ req[r].copy \in Rows
        BY <1>0 DEF TypeOK
    <2>2. Changed(req[r].copy, req[r].change, req[r].key).key
            = IF req[r].change = "key" THEN req[r].key ELSE req[r].copy.key
        BY <2>1 DEF Changed, Rows
    <2>3. /\ rows' = [rows EXCEPT ![req[r].wallet] = Changed(req[r].copy, req[r].change, req[r].key)]
          /\ pc[r] = "write" /\ (req[r].change = "key" => Go(r, "publish"))
        BY <1>2 DEF WriteRow
    <2>4. req[r].wallet = w
        BY <1>0, <2>3 DEF TypeOK
    <2>5. rows'[w].key = IF req[r].change = "key" THEN req[r].key ELSE req[r].copy.key
        BY <1>0, <2>2, <2>3, <2>4 DEF TypeOK
    <2>6. req[r].change = "key" => Carries(r) /\ pc'[r] = "publish" /\ req'[r] = req[r]
        BY <1>0, <2>3 DEF Go, Carries, TypeOK
    <2> QED
        BY <2>3, <2>4, <2>5, <2>6
<1>3. ASSUME NEW r \in Requests, AuthenticateSeen(r) PROVE FALSE
    <2>1. req[r].wallet \in Wallets /\ rows[req[r].wallet] \in Rows
        BY <1>0 DEF TypeOK
    <2> QED
        BY <1>0, <1>3, <2>1 DEF AuthenticateSeen, TypeOK, Rows
<1>4. ASSUME NEW v \in Wallets, Suspend(v) PROVE FALSE
    BY <1>0, <1>4 DEF Suspend, TypeOK, Rows
<1>5. ASSUME NEW r \in Requests, Handle(r), ~RegisterInsert(r), ~WriteRow(r), ~AuthenticateSeen(r) PROVE FALSE
    BY <1>5 DEF Handle, RegisterBegin, ChangeBegin, AuthenticateBegin, RegisterFind, Publish,
                ChangeRead, AuthenticateLookup, AuthenticateLoad, Fail, tables
<1> QED
    BY <1>1, <1>2, <1>3, <1>4, <1>5 DEF Next

\* A request that is to write either was, or has just read the row.
LEMMA CopyOfRow ==
    ASSUME RowsInv, Next, NEW r \in Requests, pc'[r] = "write"
    PROVE  \/ pc[r] = "write" /\ req'[r] = req[r]
           \/ /\ ChangeRead(r) /\ req'[r].wallet = req[r].wallet /\ rows[req[r].wallet].key # 0
              /\ req'[r].copy = rows[req[r].wallet]
              /\ req'[r].change = req[r].change /\ UNCHANGED rows
              /\ req[r].change = "key" => req'[r].key = NextKey /\ NextKey <= MaxKeys /\ MakeKey(req[r].wallet)
<1>0. TypeOK
    BY DEF RowsInv
<1>1. CASE \E w \in Wallets : Suspend(w)
    BY <1>1 DEF Suspend
<1>2. ASSUME NEW q \in Requests, Handle(q), q # r PROVE pc'[r] = pc[r] /\ req'[r] = req[r]
    <2>1. \A at, what : Begin(q, at, what) => pc'[r] = pc[r] /\ req'[r] = req[r]
        BY <1>0, <1>2 DEF Begin, TypeOK
    <2>2. \A at : Go(q, at) => pc'[r] = pc[r] /\ req'[r] = req[r]
        BY <1>0, <1>2 DEF Go, TypeOK
    <2>3. Finish(q) => pc'[r] = pc[r] /\ req'[r] = req[r]
        BY <2>1 DEF Finish
    <2> QED
        BY <1>2, <2>1, <2>2, <2>3
           DEF Handle, RegisterBegin, ChangeBegin, AuthenticateBegin, RegisterFind, RegisterInsert, Publish,
               ChangeRead, WriteRow, AuthenticateLookup, AuthenticateLoad, AuthenticateSeen, Fail
<1>3. CASE Handle(r)
    <2>1. \A at, what : Begin(r, at, what) => pc'[r] = at
        BY <1>0 DEF Begin, TypeOK
    <2>2. \A at : Go(r, at) => pc'[r] = at
        BY <1>0 DEF Go, TypeOK
    <2>3. Finish(r) => pc'[r] = "idle"
        BY <2>1 DEF Finish
    <2>4. ChangeRead(r)
        BY <1>3, <2>1, <2>2, <2>3
           DEF Handle, RegisterBegin, ChangeBegin, AuthenticateBegin, RegisterFind, RegisterInsert, Publish,
               WriteRow, AuthenticateLookup, AuthenticateLoad, AuthenticateSeen, Fail
    <2>5. ~Finish(r)
        BY <2>3
    <2> DEFINE w == req[r].wallet
               k == IF req[r].change = "key" THEN NextKey ELSE 0
               what == [About(w, req[r].change, k) EXCEPT !.copy = rows[w]]
    <2>6. /\ rows[w].key # 0 /\ UNCHANGED rows
          /\ req[r].change = "key" => NextKey <= MaxKeys /\ MakeKey(w)
          /\ Begin(r, "write", what)
        BY <2>4, <2>5 DEF ChangeRead
    <2> HIDE DEF k
    <2>7. what.wallet = w /\ what.change = req[r].change /\ what.key = k /\ what.copy = rows[w]
        BY DEF About
    <2> HIDE DEF what
    <2>8. req'[r] = what
        BY <1>0, <2>6 DEF Begin, TypeOK
    <2> QED
        BY <2>4, <2>6, <2>7, <2>8 DEF k
<1> QED
    BY <1>1, <1>2, <1>3 DEF Next

LEMMA OwnerStep == RowsInv /\ OwnerInv /\ [Next]_vars => OwnerInv'
<1> SUFFICES ASSUME RowsInv, OwnerInv, [Next]_vars PROVE OwnerInv'
    OBVIOUS
<1>0. TypeOK
    BY DEF RowsInv
<1>1. CASE UNCHANGED vars
    BY <1>1 DEF vars, tables, keys, OwnerInv, Open
<1>2. CASE Next
    <2>1. ASSUME NEW w \in Wallets, rows'[w].key # 0 PROVE Open(w, rows[w].key)'
        <3>1. CASE rows'[w].key = rows[w].key
            <4>1. MadeFor(rows[w].key, w) /\ Open(w, rows[w].key)
                BY <1>0, <2>1, <3>1 DEF OwnerInv, TypeOK, MadeFor
            <4>2. PICK k : k = rows[w].key
                OBVIOUS
            <4>3. Open(w, k)'
                BY <1>2, <4>1, <4>2, OpenStays
            <4> QED
                BY <3>1, <4>2, <4>3 DEF Open
        <3>2. CASE rows'[w].key # rows[w].key
            <4>1. PICK r \in Requests :
                     /\ req[r].wallet = w
                     /\ \/ pc'[r] = "publish" /\ req'[r] = req[r] /\ rows'[w].key = req[r].key
                        \/ pc[r] = "write" /\ rows'[w].key = req[r].copy.key
                BY <1>2, <3>2, KeyOfRow
            <4>2. CASE pc'[r] = "publish" /\ req'[r] = req[r] /\ rows'[w].key = req[r].key
                BY <4>2 DEF Open
            <4>3. CASE pc[r] = "write" /\ rows'[w].key = req[r].copy.key
                <5>1. PICK k : k = req[r].copy.key
                    OBVIOUS
                <5>2. MadeFor(k, w) /\ Open(w, k)
                    BY <4>1, <4>3, <5>1 DEF RowsInv, RequestOK, OwnerInv
                <5>3. Open(w, k)'
                    BY <1>2, <5>2, OpenStays
                <5> QED
                    BY <4>3, <5>1, <5>3 DEF Open
            <4> QED
                BY <4>1, <4>2, <4>3
        <3> QED
            BY <3>1, <3>2
    <2>2. ASSUME NEW r \in Requests, pc'[r] = "write" PROVE Open(req[r].wallet, req[r].copy.key)'
        <3>1. PICK w, k : w = req'[r].wallet /\ k = req'[r].copy.key
            OBVIOUS
        <3>2. MadeFor(k, w) /\ Open(w, k)
            <4>1. CASE pc[r] = "write" /\ req'[r] = req[r]
                BY <3>1, <4>1 DEF RowsInv, RequestOK, OwnerInv
            <4>2. CASE /\ req'[r].wallet = req[r].wallet /\ rows[req[r].wallet].key # 0
                       /\ req'[r].copy = rows[req[r].wallet]
                BY <1>0, <3>1, <4>2 DEF TypeOK, OwnerInv, MadeFor
            <4> QED
                BY <1>2, <2>2, <4>1, <4>2, CopyOfRow
        <3>3. Open(w, k)'
            BY <1>2, <3>2, OpenStays
        <3> QED
            BY <3>1, <3>3 DEF Open
    <2> QED
        BY <2>1, <2>2 DEF OwnerInv
<1> QED
    BY <1>1, <1>2

\* For any number of requests: an owner is locked out only by a request that failed
\* between its write and its answer.
THEOREM OwnerHasKey == Spec => []OwnerIsNotLockedOut
<1>1. Init => OwnerInv
    BY DEF Init, OwnerInv, NoRow
<1>2. OwnerInv => OwnerIsNotLockedOut
    BY DEF OwnerInv, OwnerIsNotLockedOut, Open
<1> QED
    BY <1>1, <1>2, RowsAlways, OwnerStep, PTL DEF Spec

----------------------------------------------------------------------------
(* Keys that were rotated out                                              *)

\* Keys that were seen outside the request that made them.
InUse == {rows[w].key : w \in Wallets} \union retired
         \union {req[r].copy.key : r \in {q \in Requests : pc[q] \in {"write", "publish"}}}

\* Keys that a rotation has replaced, or is about to have.
Old == retired \union ({req[r].copy.key : r \in {q \in Requests : pc[q] = "publish"}} \ {0})

\* A key that is in no row yet is known to its request only.
Fresh(r) ==
    /\ Carries(r) => /\ req[r].key \notin InUse
                     /\ \A q \in Requests \ {r} : Carries(q) => req[q].key # req[r].key
    /\ pc[r] = "insert" => req[r].copy.key = 0

\* The copy of r holds an old key only if the row does, or somebody has written it since.
OldIsStale(r) ==
    pc[r] = "write" /\ req[r].copy.key \in Old => "key" \in stale[r] \union lost[req[r].wallet]

LateIsRetired(r) ==
    r \in late => pc[r] \in {"lookup", "load", "seen"} /\ req[r].key \in retired

OldInv ==
    /\ \A w \in Wallets : rows[w].key \in Old => "key" \in lost[w]
    /\ \A r \in Requests : Fresh(r) /\ OldIsStale(r) /\ LateIsRetired(r)

\* No key was made twice, so the next one is not in use.
LEMMA NextKeyIsFresh ==
    ASSUME RowsInv, NEW k, k \notin DOMAIN made, k # 0
    PROVE  k \notin InUse /\ \A q \in Requests : Carries(q) => req[q].key # k
<1>1. \A w \in Wallets : rows[w].key # k
    BY DEF RowsInv, TypeOK
<1>2. k \notin retired
    BY DEF RowsInv, TypeOK
<1>3. \A r \in Requests : pc[r] \in {"write", "publish"} => req[r].copy.key # k
    BY DEF RowsInv, RequestOK, MadeFor
<1>4. \A q \in Requests : Carries(q) => req[q].key # k
    BY DEF RowsInv, RequestOK, MadeFor
<1> QED
    BY <1>1, <1>2, <1>3, <1>4 DEF InUse

\* A step of r after which it has nothing to write or to publish.
LEMMA QuietOld ==
    ASSUME RowsInv, OldInv, NEW r \in Requests, Moves(r), pc'[r] \notin {"insert", "write", "publish"},
           \A w \in Wallets : rows'[w].key = rows[w].key /\ ("key" \in lost[w] => "key" \in lost'[w]),
           \A q \in Requests \ {r} : "key" \in stale[q] => "key" \in stale'[q],
           retired \subseteq retired',
           \A k \in retired' \ retired : pc[r] = "publish" /\ k = req[r].copy.key /\ k # 0,
           LateIsRetired(r)'
    PROVE  OldInv'
<1>0. \A q \in Requests \ {r} : pc'[q] = pc[q] /\ req'[q] = req[q] /\ (q \in late' <=> q \in late)
    BY DEF Moves
<1>1. Old' \subseteq Old
    <2> SUFFICES ASSUME NEW k \in Old' PROVE k \in Old
        OBVIOUS
    <2>1. CASE k \in retired'
        BY <2>1 DEF Old
    <2>2. CASE k \notin retired'
        BY <1>0, <2>2 DEF Old
    <2> QED
        BY <2>1, <2>2
<1>2. InUse' \subseteq InUse
    <2> SUFFICES ASSUME NEW k \in InUse' PROVE k \in InUse
        OBVIOUS
    <2>1. CASE k \in retired'
        BY <2>1 DEF InUse
    <2>2. CASE \E w \in Wallets : k = rows'[w].key
        BY <2>2 DEF InUse
    <2>3. CASE \E q \in Requests : pc'[q] \in {"write", "publish"} /\ k = req'[q].copy.key
        BY <1>0, <2>3 DEF InUse
    <2> QED
        BY <2>1, <2>2, <2>3 DEF InUse
<1>3. \A w \in Wallets : rows'[w].key \in Old' => "key" \in lost'[w]
    BY <1>1 DEF OldInv
<1>4. ASSUME NEW q \in Requests \ {r} PROVE Fresh(q)' /\ OldIsStale(q)' /\ LateIsRetired(q)'
    <2>1. \A p \in Requests : Carries(p)' => Carries(p) /\ req'[p] = req[p]
        BY <1>0 DEF Carries
    <2>2. Fresh(q)'
        BY <1>0, <1>2, <2>1 DEF OldInv, Fresh, Carries
    <2>3. req[q].wallet \in Wallets
        BY DEF RowsInv, TypeOK
    <2>4. OldIsStale(q)'
        BY <1>0, <1>1, <2>3 DEF OldInv, OldIsStale
    <2>5. LateIsRetired(q)'
        BY <1>0 DEF OldInv, LateIsRetired
    <2> QED
        BY <2>2, <2>4, <2>5
<1>5. Fresh(r)' /\ OldIsStale(r)'
    BY DEF Fresh, OldIsStale, Carries
<1> QED
    BY <1>3, <1>4, <1>5 DEF OldInv

\* A request that has ended is late no more.
LEMMA NotLate ==
    ASSUME NEW r, r \notin late'
    PROVE  LateIsRetired(r)'
    BY DEF LateIsRetired

LEMMA FinishOld ==
    ASSUME RowsInv, OldInv, NEW r \in Requests, Finish(r), UNCHANGED <<rows, lost, retired>>,
           \A q \in Requests \ {r} : stale'[q] = stale[q]
    PROVE  OldInv'
<1>1. TypeOK
    BY DEF RowsInv
<1>2. Moves(r) /\ pc'[r] = "idle" /\ r \notin late'
    BY <1>1, FinishMoves
<1> QED
    BY <1>2, QuietOld, NotLate

\* A request begins.
LEMMA BeginOld ==
    ASSUME RowsInv, OldInv, NEW r \in Requests,
           \/ \E w \in Wallets : RegisterBegin(r, w) \/ \E change \in Asked : ChangeBegin(r, w, change)
           \/ \E k \in DOMAIN made : AuthenticateBegin(r, k)
    PROVE  OldInv'
<1>0. TypeOK
    BY DEF RowsInv
<1>1. ASSUME NEW w \in Wallets, RegisterBegin(r, w) PROVE OldInv'
    <2>1. Blank(w) \in Abouts
        BY AboutTyped, AgentsAssumption DEF Blank, Changes
    <2>2. Moves(r) /\ pc'[r] = "find"
        BY <1>0, <1>1, <2>1, BeginMoves DEF RegisterBegin, Places
    <2>3. pc[r] = "idle" /\ UNCHANGED <<tables, keys, late>>
        BY <1>1 DEF RegisterBegin
    <2>4. r \notin late'
        BY <2>3 DEF OldInv, LateIsRetired
    <2> QED
        BY <2>2, <2>3, <2>4, QuietOld, NotLate DEF tables, keys
<1>2. ASSUME NEW w \in Wallets, NEW change \in Asked, ChangeBegin(r, w, change) PROVE OldInv'
    <2>1. About(w, change, 0) \in Abouts
        BY AboutTyped, AgentsAssumption
    <2>2. Moves(r) /\ pc'[r] = "read"
        BY <1>0, <1>2, <2>1, BeginMoves DEF ChangeBegin, Places
    <2>3. pc[r] = "idle" /\ UNCHANGED <<tables, keys, late>>
        BY <1>2 DEF ChangeBegin
    <2>4. r \notin late'
        BY <2>3 DEF OldInv, LateIsRetired
    <2> QED
        BY <2>2, <2>3, <2>4, QuietOld, NotLate DEF tables, keys
<1>3. ASSUME NEW k \in DOMAIN made, AuthenticateBegin(r, k) PROVE OldInv'
    <2>1. k \in 0..MaxKeys /\ made[k] \in Wallets
        BY <1>0, AgentsAssumption DEF TypeOK, Keys
    <2>2. About(made[k], "texts", k) \in Abouts
        BY <2>1, AboutTyped DEF Changes
    <2>3. Moves(r) /\ pc'[r] = "lookup" /\ req'[r] = About(made[k], "texts", k)
        BY <1>0, <1>3, <2>2, BeginMoves DEF AuthenticateBegin, Places
    <2>4. /\ pc[r] = "idle" /\ UNCHANGED <<tables, keys>>
          /\ late' = IF k \in retired THEN late \union {r} ELSE late
        BY <1>3 DEF AuthenticateBegin
    <2>5. r \notin late /\ req'[r].key = k
        BY <2>3, <2>4 DEF OldInv, LateIsRetired, About
    <2>6. UNCHANGED <<rows, lost, stale, retired>>
        BY <2>4 DEF tables, keys
    <2>7. LateIsRetired(r)'
        BY <2>3, <2>4, <2>5, <2>6 DEF LateIsRetired
    <2> QED
        BY <2>3, <2>4, <2>6, <2>7, QuietOld
<1> QED
    BY <1>1, <1>2, <1>3

\* A key is made and no row written: register_agent and rotate_api_key.
LEMMA BornOld ==
    ASSUME RowsInv, OldInv, NEW r \in Requests, Moves(r), UNCHANGED <<rows, lost, retired>>,
           pc[r] \in {"find", "read"}, late' = late,
           \A q \in Requests \ {r} : stale'[q] = stale[q],
           \/ pc'[r] = "insert" /\ req'[r].copy.key = 0
           \/ /\ pc'[r] = "write" /\ req'[r].wallet \in Wallets
              /\ req'[r].copy.key = rows[req'[r].wallet].key,
           Carries(r)' => req'[r].key \notin DOMAIN made /\ req'[r].key # 0
    PROVE  OldInv'
<1>0. \A q \in Requests \ {r} : pc'[q] = pc[q] /\ req'[q] = req[q]
    BY DEF Moves
<1>1. Old' = Old
    BY <1>0 DEF Old
<1>2. InUse' \subseteq InUse
    <2> SUFFICES ASSUME NEW k \in InUse' PROVE k \in InUse
        OBVIOUS
    <2>1. CASE k \in retired \/ \E w \in Wallets : k = rows[w].key
        BY <2>1 DEF InUse
    <2>2. CASE \E q \in Requests : pc'[q] \in {"write", "publish"} /\ k = req'[q].copy.key
        BY <1>0, <2>2 DEF InUse
    <2> QED
        BY <2>1, <2>2 DEF InUse
<1>3. Carries(r)' => /\ req'[r].key \notin InUse
                     /\ \A q \in Requests : Carries(q) => req[q].key # req'[r].key
    BY NextKeyIsFresh
<1>4. \A q \in Requests \ {r} : Carries(q)' <=> Carries(q)
    BY <1>0 DEF Carries
<1>5. ASSUME NEW q \in Requests \ {r} PROVE Fresh(q)' /\ OldIsStale(q)' /\ LateIsRetired(q)'
    BY <1>0, <1>1, <1>2, <1>3, <1>4 DEF OldInv, Fresh, OldIsStale, LateIsRetired
<1>6. Fresh(r)'
    BY <1>0, <1>2, <1>3, <1>4 DEF Fresh
<1>7. OldIsStale(r)'
    BY <1>1 DEF OldInv, OldIsStale
<1>8. LateIsRetired(r)'
    BY DEF OldInv, LateIsRetired
<1>9. \A w \in Wallets : rows'[w].key \in Old' => "key" \in lost'[w]
    BY <1>1 DEF OldInv
<1> QED
    BY <1>5, <1>6, <1>7, <1>8, <1>9 DEF OldInv

\* register_agent and the read of a change.
LEMMA MakeOld ==
    ASSUME RowsInv, OldInv, NEW r \in Requests, RegisterFind(r) \/ ChangeRead(r)
    PROVE  OldInv'
<1> USE DEF tables, keys
<1> DEFINE w == req[r].wallet
<1>0. TypeOK /\ Numbered /\ w \in Wallets /\ req[r].change \in Changes
    BY DEF RowsInv, TypeOK
<1>1. CASE Finish(r)
    <2>1. UNCHANGED <<rows, lost, retired>> /\ \A q \in Requests \ {r} : stale'[q] = stale[q]
        BY <1>0 DEF RegisterFind, ChangeRead, TypeOK
    <2> QED
        BY <1>1, <2>1, FinishOld
<1>2. CASE RegisterFind(r) /\ ~Finish(r)
    <2>1. /\ pc[r] = "find" /\ NextKey <= MaxKeys /\ MakeKey(w) /\ UNCHANGED <<retired, late>>
          /\ Begin(r, "insert", About(w, "texts", NextKey)) /\ UNCHANGED tables
        BY <1>2 DEF RegisterFind
    <2>2. NextKey \in 1..MaxKeys /\ NextKey \notin DOMAIN made
        BY <1>0, <2>1, MakeKeyMakes
    <2>3. About(w, "texts", NextKey) \in Abouts
        BY <1>0, <2>2, AboutTyped, AgentsAssumption DEF Changes
    <2>4. Moves(r) /\ pc'[r] = "insert" /\ req'[r] = About(w, "texts", NextKey)
        BY <1>0, <2>1, <2>3, BeginMoves DEF Places
    <2>5. req'[r].copy.key = 0 /\ req'[r].key = NextKey
        BY <2>4 DEF About, NoRow
    <2> QED
        BY <2>1, <2>2, <2>4, <2>5, BornOld
<1>3. CASE ChangeRead(r) /\ ~Finish(r)
    <2> DEFINE k == IF req[r].change = "key" THEN NextKey ELSE 0
               what == [About(w, req[r].change, k) EXCEPT !.copy = rows[w]]
    <2>1. /\ pc[r] = "read" /\ rows[w].key # 0 /\ UNCHANGED <<rows, lost, retired, late>>
          /\ req[r].change = "key" => NextKey <= MaxKeys /\ MakeKey(w)
          /\ Begin(r, "write", what) /\ stale' = [stale EXCEPT ![r] = {}]
        BY <1>3 DEF ChangeRead
    <2>2. k \in 0..MaxKeys /\ (req[r].change = "key" => k \notin DOMAIN made /\ k # 0)
        <3>1. CASE req[r].change = "key"
            BY <1>0, <2>1, <3>1, MakeKeyMakes
        <3>2. CASE req[r].change # "key"
            BY <3>2, AgentsAssumption
        <3> QED
            BY <3>1, <3>2
    <2> HIDE DEF k
    <2>3. rows[w] \in Rows
        BY <1>0 DEF TypeOK
    <2>4. /\ what \in Abouts /\ what.wallet = w /\ what.change = req[r].change
          /\ what.key = k /\ what.copy = rows[w]
        BY <1>0, <2>2, <2>3 DEF About, Abouts, NoRow
    <2> HIDE DEF what
    <2>5. Moves(r) /\ pc'[r] = "write" /\ req'[r] = what
        BY <1>0, <2>1, <2>4, BeginMoves DEF Places
    <2>6. \A q \in Requests \ {r} : stale'[q] = stale[q]
        BY <1>0, <2>1 DEF TypeOK
    <2>7. Carries(r)' => req'[r].key \notin DOMAIN made /\ req'[r].key # 0
        BY <2>2, <2>4, <2>5 DEF Carries
    <2> QED
        BY <1>0, <2>1, <2>4, <2>5, <2>6, <2>7, BornOld
<1> QED
    BY <1>1, <1>2, <1>3

\* A key gets into its row: what it replaces is old when the request publishes.
LEMMA KeyWrittenOld ==
    ASSUME RowsInv, OldInv, NEW r \in Requests, Moves(r), Carries(r), pc'[r] = "publish", req'[r] = req[r],
           late' = late, retired' = retired, RequestOK(r),
           \A v \in Wallets : rows'[v].key = IF v = req[r].wallet THEN req[r].key ELSE rows[v].key,
           req[r].copy.key # 0 => MadeFor(req[r].copy.key, req[r].wallet),
           \A v \in Wallets \ {req[r].wallet} : "key" \in lost[v] => "key" \in lost'[v],
           \A q \in Requests \ {r} : "key" \in stale[q] => "key" \in stale'[q],
           req[r].copy.key # 0 =>
               \A q \in Requests \ {r} : pc[q] = "write" /\ req[q].wallet = req[r].wallet => "key" \in stale'[q],
           req[r].copy.key = 0 => lost' = lost
    PROVE  OldInv'
<1> DEFINE w == req[r].wallet
           k == req[r].key
           c == req[r].copy.key
<1>0. TypeOK /\ w \in Wallets
    BY DEF RowsInv, TypeOK
<1>1. \A q \in Requests \ {r} : pc'[q] = pc[q] /\ req'[q] = req[q]
    BY DEF Moves
<1>2. k \notin InUse /\ \A q \in Requests \ {r} : Carries(q) => req[q].key # k
    BY DEF OldInv, Fresh
<1>3. c # 0 => c \in InUse
    BY DEF OldInv, Fresh, Carries, InUse
<1>4. Old' \subseteq Old \union ({c} \ {0})
    BY <1>1 DEF Old
<1>5. Old \subseteq InUse
    BY DEF Old, InUse
<1>6. k \notin Old'
    BY <1>2, <1>3, <1>4, <1>5
<1>7. c \notin InUse => c = 0
    BY <1>3
<1>8. InUse' \subseteq InUse \union {k, 0}
    <2> SUFFICES ASSUME NEW i \in InUse' PROVE i \in InUse \/ i \in {k, 0}
        OBVIOUS
    <2>1. CASE i \in retired
        BY <2>1 DEF InUse
    <2>2. CASE \E v \in Wallets : i = rows'[v].key
        BY <2>2 DEF InUse
    <2>3. ASSUME NEW q \in Requests, pc'[q] \in {"write", "publish"}, i = req'[q].copy.key
          PROVE  i \in InUse \/ i \in {k, 0}
        <3>1. CASE q = r
            BY <1>3, <2>3, <3>1
        <3>2. CASE q # r
            BY <1>1, <2>3, <3>2 DEF InUse
        <3> QED
            BY <3>1, <3>2
    <2> QED
        BY <2>1, <2>2, <2>3 DEF InUse
<1>9. ASSUME NEW v \in Wallets, rows'[v].key \in Old' PROVE "key" \in lost'[v]
    <2>1. v # w /\ rows'[v].key = rows[v].key
        BY <1>6, <1>9
    <2>2. rows[v].key \in Old
        <3>1. CASE c # 0 /\ rows[v].key = c
            BY <1>0, <2>1, <3>1 DEF TypeOK, MadeFor
        <3> QED
            BY <1>4, <1>9, <2>1, <3>1
    <2> QED
        BY <2>1, <2>2 DEF OldInv
<1>10. ASSUME NEW q \in Requests \ {r} PROVE Fresh(q)' /\ OldIsStale(q)' /\ LateIsRetired(q)'
    <2>1. Carries(q)' <=> Carries(q)
        BY <1>1 DEF Carries
    <2>2. ~Carries(r)'
        BY DEF Carries
    <2>3. Carries(q) => req[q].key # 0
        BY <1>0 DEF RowsInv, RequestOK, MadeFor, TypeOK, Keys
    <2>4. Fresh(q)'
        <3>1. \A p \in Requests \ {q} : Carries(p)' => Carries(p) /\ req'[p] = req[p]
            BY <1>1, <2>2 DEF Carries
        <3>2. Fresh(q) /\ pc'[q] = pc[q] /\ req'[q] = req[q]
            BY <1>1 DEF OldInv
        <3>3. Carries(q) => req[q].key \notin InUse'
            BY <1>2, <1>8, <2>3, <3>2 DEF Fresh
        <3> QED
            BY <2>1, <3>1, <3>2, <3>3 DEF Fresh
    <2>5. OldIsStale(q)'
        <3> SUFFICES ASSUME pc[q] = "write", req[q].copy.key \in Old'
                     PROVE  "key" \in stale'[q] \union lost'[req[q].wallet]
            BY <1>1 DEF OldIsStale
        <3>1. MadeFor(req[q].copy.key, req[q].wallet) /\ req[q].wallet \in Wallets
            BY DEF RowsInv, RequestOK, TypeOK
        <3>2. CASE req[q].wallet = w /\ c # 0
            BY <3>2
        <3>3. CASE req[q].wallet # w \/ c = 0
            <4>1. req[q].copy.key \in Old
                BY <1>4, <3>1, <3>3 DEF MadeFor
            <4>2. "key" \in stale[q] \union lost[req[q].wallet]
                BY <4>1 DEF OldInv, OldIsStale
            <4> QED
                BY <3>1, <3>3, <4>2
        <3> QED
            BY <3>2, <3>3
    <2>6. LateIsRetired(q)'
        BY <1>1 DEF OldInv, LateIsRetired
    <2> QED
        BY <2>4, <2>5, <2>6
<1>11. Fresh(r)' /\ OldIsStale(r)'
    BY DEF Fresh, OldIsStale, Carries
<1>12. LateIsRetired(r)'
    BY DEF OldInv, LateIsRetired, Carries
<1> QED
    BY <1>9, <1>10, <1>11, <1>12 DEF OldInv

\* create_agent.
LEMMA InsertOld ==
    ASSUME RowsInv, OldInv, NEW r \in Requests, RegisterInsert(r)
    PROVE  OldInv'
<1> USE DEF tables, keys
<1> DEFINE w == req[r].wallet
<1>0. TypeOK /\ RequestOK(r) /\ w \in Wallets /\ req[r].key \in 0..MaxKeys /\ pc[r] = "insert"
    BY DEF RowsInv, TypeOK, RegisterInsert
<1>1. CASE Finish(r) /\ UNCHANGED <<tables, keys>>
    BY <1>1, FinishOld
<1>2. CASE ~(Finish(r) /\ UNCHANGED <<tables, keys>>)
    <2>1. /\ Go(r, "publish") /\ rows' = [rows EXCEPT ![w] = [NoRow EXCEPT !.key = req[r].key]]
          /\ UNCHANGED <<lost, stale, keys>>
        BY <1>2 DEF RegisterInsert
    <2>2. [NoRow EXCEPT !.key = req[r].key].key = req[r].key
        BY DEF NoRow
    <2>3. Moves(r) /\ pc'[r] = "publish" /\ req'[r] = req[r] /\ late' = late
        BY <1>0, <2>1, GoMoves DEF Places
    <2>4. req[r].copy.key = 0
        BY <1>0 DEF OldInv, Fresh
    <2>5. \A v \in Wallets : rows'[v].key = IF v = w THEN req[r].key ELSE rows[v].key
        BY <1>0, <2>1, <2>2 DEF TypeOK
    <2> QED
        BY <1>0, <2>1, <2>3, <2>4, <2>5, KeyWrittenOld DEF Carries
<1> QED
    BY <1>1, <1>2

\* A row is written, and its key is not what the write is about.
LEMMA RowWrittenOld ==
    ASSUME RowsInv, OldInv, NEW r \in Requests, Moves(r), pc[r] = "write", pc'[r] = "idle", r \notin late',
           retired' = retired,
           \A v \in Wallets : rows'[v].key = IF v = req[r].wallet THEN req[r].copy.key ELSE rows[v].key,
           \A v \in Wallets : "key" \in lost[v] => "key" \in lost'[v],
           "key" \in stale[r] => "key" \in lost'[req[r].wallet],
           \A q \in Requests \ {r} : "key" \in stale[q] => "key" \in stale'[q]
    PROVE  OldInv'
<1> DEFINE w == req[r].wallet
<1>0. TypeOK /\ w \in Wallets
    BY DEF RowsInv, TypeOK
<1>1. \A q \in Requests \ {r} : pc'[q] = pc[q] /\ req'[q] = req[q] /\ (q \in late' <=> q \in late)
    BY DEF Moves
<1>2. Old' = Old
    BY <1>1 DEF Old
<1>3. InUse' \subseteq InUse
    <2> SUFFICES ASSUME NEW i \in InUse' PROVE i \in InUse
        OBVIOUS
    <2>1. CASE i \in retired
        BY <2>1 DEF InUse
    <2>2. CASE \E v \in Wallets : i = rows'[v].key
        BY <2>2 DEF InUse
    <2>3. CASE \E q \in Requests : pc'[q] \in {"write", "publish"} /\ i = req'[q].copy.key
        BY <1>1, <2>3 DEF InUse
    <2> QED
        BY <2>1, <2>2, <2>3 DEF InUse
<1>4. ASSUME NEW v \in Wallets, rows'[v].key \in Old' PROVE "key" \in lost'[v]
    <2>1. CASE v = w
        BY <1>2, <1>4, <2>1 DEF OldInv, OldIsStale
    <2>2. CASE v # w
        BY <1>2, <1>4, <2>2 DEF OldInv
    <2> QED
        BY <2>1, <2>2
<1>5. ASSUME NEW q \in Requests \ {r} PROVE Fresh(q)' /\ OldIsStale(q)' /\ LateIsRetired(q)'
    <2>1. \A p \in Requests : Carries(p)' => Carries(p) /\ req'[p] = req[p]
        BY <1>1 DEF Carries
    <2>2. Fresh(q)'
        BY <1>1, <1>3, <2>1 DEF OldInv, Fresh, Carries
    <2>3. req[q].wallet \in Wallets
        BY <1>0 DEF TypeOK
    <2>4. OldIsStale(q)'
        BY <1>1, <1>2, <2>3 DEF OldInv, OldIsStale
    <2>5. LateIsRetired(q)'
        BY <1>1 DEF OldInv, LateIsRetired
    <2> QED
        BY <2>2, <2>4, <2>5
<1>6. Fresh(r)' /\ OldIsStale(r)' /\ LateIsRetired(r)'
    BY DEF Fresh, OldIsStale, LateIsRetired, Carries
<1> QED
    BY <1>4, <1>5, <1>6 DEF OldInv

\* The statement of update_agent.
LEMMA WriteOld ==
    ASSUME RowsInv, OldInv, NEW r \in Requests, WriteRow(r)
    PROVE  OldInv'
<1> DEFINE w == req[r].wallet
           change == req[r].change
           row == Changed(req[r].copy, change, req[r].key)
           about == Sets(change)
           back == stale[r] \ about
<1>0. TypeOK /\ RequestOK(r) /\ w \in Wallets /\ change \in Changes /\ req[r].copy \in Rows
    BY DEF RowsInv, TypeOK
<1>1. /\ pc[r] = "write" /\ rows' = [rows EXCEPT ![w] = row]
      /\ Written(r, w, about, back) /\ retired' = retired
      /\ IF change = "key" THEN Go(r, "publish") ELSE Finish(r)
    BY DEF WriteRow, keys
<1>2. MadeFor(req[r].copy.key, w)
    BY <1>0, <1>1 DEF RequestOK
<1>3. "key" \in about <=> change = "key"
    BY <1>0 DEF Changes, Sets
<1>4. row.key = IF change = "key" THEN req[r].key ELSE req[r].copy.key
    BY <1>0 DEF Changed, Rows
<1>5. /\ \A v \in Wallets : lost'[v] = IF v = w THEN (lost[v] \union back) \ about ELSE lost[v]
      /\ \A q \in Requests \ {r} :
           stale'[q] = IF pc[q] = "write" /\ req[q].wallet = w THEN stale[q] \union about \union back
                                                             ELSE stale[q]
    BY <1>0, <1>1 DEF Written, TypeOK
<1> HIDE DEF row, about
<1>6. \A v \in Wallets : rows'[v].key = IF v = w THEN row.key ELSE rows[v].key
    BY <1>0, <1>1 DEF TypeOK
<1>7. CASE change = "key"
    <2>1. Moves(r) /\ pc'[r] = "publish" /\ req'[r] = req[r] /\ late' = late
        BY <1>0, <1>1, <1>7, GoMoves DEF Places
    <2>2. req[r].copy.key # 0
        BY <1>0, <1>2 DEF MadeFor, TypeOK, Keys
    <2>3. /\ \A v \in Wallets \ {w} : "key" \in lost[v] => "key" \in lost'[v]
          /\ \A q \in Requests \ {r} : "key" \in stale[q] => "key" \in stale'[q]
          /\ \A q \in Requests \ {r} : pc[q] = "write" /\ req[q].wallet = w => "key" \in stale'[q]
        BY <1>3, <1>5, <1>7
    <2> QED
        BY <1>0, <1>1, <1>2, <1>4, <1>6, <1>7, <2>1, <2>2, <2>3, KeyWrittenOld DEF Carries
<1>8. CASE change # "key"
    <2>1. Moves(r) /\ pc'[r] = "idle" /\ r \notin late'
        BY <1>0, <1>1, <1>8, FinishMoves
    <2>2. /\ \A v \in Wallets : "key" \in lost[v] => "key" \in lost'[v]
          /\ "key" \in stale[r] => "key" \in lost'[w]
          /\ \A q \in Requests \ {r} : "key" \in stale[q] => "key" \in stale'[q]
        BY <1>0, <1>3, <1>5, <1>8
    <2> QED
        BY <1>1, <1>4, <1>6, <1>8, <2>1, <2>2, RowWrittenOld
<1> QED
    BY <1>7, <1>8

\* A key is used, or published, or a request fails.
LEMMA UseOld ==
    ASSUME RowsInv, OldInv, NEW r \in Requests,
           \/ AuthenticateLookup(r) \/ AuthenticateLoad(r) \/ AuthenticateSeen(r) \/ Publish(r) \/ Fail(r)
    PROVE  OldInv'
<1> USE DEF tables, keys
<1>0. TypeOK /\ req[r].wallet \in Wallets
    BY DEF RowsInv, TypeOK
<1>1. CASE Finish(r) /\ UNCHANGED <<tables, keys>>
    BY <1>1, FinishOld
<1>2. CASE AuthenticateLookup(r) /\ Go(r, "load")
    <2>1. Moves(r) /\ pc'[r] = "load" /\ req'[r] = req[r] /\ late' = late /\ UNCHANGED <<tables, keys>>
        BY <1>0, <1>2, GoMoves DEF Places, AuthenticateLookup
    <2>2. LateIsRetired(r)'
        BY <2>1 DEF OldInv, LateIsRetired
    <2> QED
        BY <2>1, <2>2, QuietOld
<1>3. CASE AuthenticateLoad(r) /\ Go(r, "seen")
    <2>1. Moves(r) /\ pc'[r] = "seen" /\ req'[r] = req[r] /\ late' = late /\ UNCHANGED <<tables, keys>>
        BY <1>0, <1>3, GoMoves DEF Places, AuthenticateLoad
    <2>2. LateIsRetired(r)'
        BY <2>1 DEF OldInv, LateIsRetired
    <2> QED
        BY <2>1, <2>2, QuietOld
<1>4. CASE AuthenticateSeen(r)
    <2>1. Moves(r) /\ pc'[r] = "idle" /\ r \notin late'
        BY <1>0, <1>4, FinishMoves DEF AuthenticateSeen
    <2>2. retired' = retired /\ \A v \in Wallets : rows'[v].key = rows[v].key
        <3>1. rows[req[r].wallet] \in Rows
            BY <1>0 DEF TypeOK
        <3> QED
            BY <1>0, <1>4, <3>1 DEF AuthenticateSeen, TypeOK, Rows
    <2>3. /\ \A v \in Wallets : "key" \in lost[v] => "key" \in lost'[v]
          /\ \A q \in Requests \ {r} : "key" \in stale[q] => "key" \in stale'[q]
        BY <1>0, <1>4 DEF AuthenticateSeen, Written, TypeOK
    <2> QED
        BY <2>1, <2>2, <2>3, QuietOld, NotLate
<1>5. CASE Publish(r)
    <2>1. Moves(r) /\ pc'[r] = "idle" /\ r \notin late'
        BY <1>0, <1>5, FinishMoves DEF Publish
    <2>2. /\ pc[r] = "publish" /\ UNCHANGED <<rows, lost, stale>> /\ retired \subseteq retired'
          /\ \A k \in retired' \ retired : k = req[r].copy.key /\ k # 0
        BY <1>5 DEF Publish
    <2> QED
        BY <2>1, <2>2, QuietOld, NotLate
<1>6. CASE Fail(r)
    <2>1. \A q \in Requests \ {r} : stale'[q] = stale[q]
        BY <1>0, <1>6 DEF Fail, TypeOK
    <2> QED
        BY <1>6, <2>1, FinishOld DEF Fail
<1> QED
    BY <1>1, <1>2, <1>3, <1>4, <1>5, <1>6 DEF AuthenticateLookup, AuthenticateLoad

LEMMA SuspendOld ==
    ASSUME RowsInv, OldInv, NEW w \in Wallets, Suspend(w)
    PROVE  OldInv'
<1>0. TypeOK /\ rows[w] \in Rows
    BY DEF RowsInv, TypeOK
<1>1. UNCHANGED <<keys, pc, req, late>>
    BY DEF Suspend
<1>2. /\ \A v \in Wallets : rows'[v].key = rows[v].key /\ ("key" \in lost[v] => "key" \in lost'[v])
      /\ \A q \in Requests : "key" \in stale[q] => "key" \in stale'[q]
    BY <1>0 DEF Suspend, TypeOK, Rows
<1>3. Old' = Old /\ InUse' = InUse /\ (\A q \in Requests : Carries(q)' <=> Carries(q))
    BY <1>1, <1>2 DEF Old, InUse, Carries, keys
<1>4. \A v \in Wallets : rows'[v].key \in Old' => "key" \in lost'[v]
    BY <1>2, <1>3 DEF OldInv
<1>5. ASSUME NEW q \in Requests PROVE Fresh(q)' /\ OldIsStale(q)' /\ LateIsRetired(q)'
    <2>1. req[q].wallet \in Wallets
        BY <1>0 DEF TypeOK
    <2> QED
        BY <1>1, <1>2, <1>3, <2>1 DEF OldInv, Fresh, OldIsStale, LateIsRetired, keys
<1> QED
    BY <1>4, <1>5 DEF OldInv

LEMMA OldStep == RowsInv /\ OldInv /\ [Next]_vars => OldInv'
<1>1. RowsInv /\ OldInv /\ UNCHANGED vars => OldInv'
    BY DEF vars, tables, keys, OldInv, Old, InUse, Fresh, OldIsStale, LateIsRetired, Carries
<1>2. ASSUME RowsInv, OldInv, NEW r \in Requests, Handle(r) PROVE OldInv'
    BY <1>2, BeginOld, MakeOld, InsertOld, WriteOld, UseOld DEF Handle
<1> QED
    BY <1>1, <1>2, SuspendOld DEF Next

\* A key is accepted by the step that finds it in the row.
LEMMA AcceptedIsInRow ==
    ASSUME RowsInv, Next, NEW r \in Requests, pc[r] = "load", pc'[r] = "seen"
    PROVE  rows[req[r].wallet].key = req[r].key
<1>0. TypeOK
    BY DEF RowsInv
<1>1. CASE \E w \in Wallets : Suspend(w)
    BY <1>1 DEF Suspend
<1>2. ASSUME NEW q \in Requests, Handle(q), q # r PROVE pc'[r] = pc[r]
    <2>1. \A at, what : Begin(q, at, what) => pc'[r] = pc[r]
        BY <1>0, <1>2 DEF Begin, TypeOK
    <2>2. \A at : Go(q, at) => pc'[r] = pc[r]
        BY <1>0, <1>2 DEF Go, TypeOK
    <2> QED
        BY <1>2, <2>1, <2>2
           DEF Finish, Handle, RegisterBegin, ChangeBegin, AuthenticateBegin, RegisterFind, RegisterInsert, Publish,
               ChangeRead, WriteRow, AuthenticateLookup, AuthenticateLoad, AuthenticateSeen, Fail
<1>3. CASE Handle(r)
    <2>1. \A at, what : Begin(r, at, what) => pc'[r] = at
        BY <1>0 DEF Begin, TypeOK
    <2>2. \A at : Go(r, at) => pc'[r] = at
        BY <1>0 DEF Go, TypeOK
    <2> QED
        BY <1>3, <2>1, <2>2
           DEF Finish, Handle, RegisterBegin, ChangeBegin, AuthenticateBegin, RegisterFind, RegisterInsert, Publish,
               ChangeRead, WriteRow, AuthenticateLookup, AuthenticateLoad, AuthenticateSeen, Fail
<1> QED
    BY <1>1, <1>2, <1>3 DEF Next

\* For any number of requests: a key that an answered rotation replaced opens nothing,
\* unless an overlapping request has put it back into the row.
THEOREM RotatedOutRefused == Spec => RotatedOutIsRefused
<1> DEFINE Refused == \A r \in Requests :
               pc[r] = "load" /\ pc'[r] = "seen" /\ r \in late => "key" \in lost[req[r].wallet]
<1>1. Init => OldInv
    BY DEF Init, OldInv, Old, InUse, Fresh, OldIsStale, LateIsRetired, Carries
<1>2. RowsInv /\ OldInv /\ [Next]_vars => [Refused]_vars
    <2> SUFFICES ASSUME RowsInv, OldInv, Next, NEW r \in Requests,
                        pc[r] = "load", pc'[r] = "seen", r \in late
                 PROVE  "key" \in lost[req[r].wallet]
        OBVIOUS
    <2>1. rows[req[r].wallet].key \in Old
        BY AcceptedIsInRow DEF OldInv, LateIsRetired, Old
    <2> QED
        BY <2>1 DEF OldInv, RowsInv, TypeOK
<1> QED
    BY <1>1, <1>2, RowsAlways, OldStep, PTL DEF Spec, RotatedOutIsRefused

============================================================================
