------------------------------- MODULE Agents -------------------------------
(***************************************************************************)
(* Agents and their API keys: agent_service.rs over the agents table and   *)
(* the agent_key:{prefix} entries in Redis.  Every await is an action.     *)
(* update_agent and rotate_api_key read a row, change their copy and write *)
(* the whole copy back; requests for one agent overlap and fail at any     *)
(* await.                                                                  *)
(*                                                                         *)
(* An agent is named by its wallet.  Keys are numbered as they are made; a *)
(* row keeps the key itself where the code keeps its bcrypt hash, prefixes *)
(* do not collide, and the owner is the only user (others are refused      *)
(* before anything is written).  What an update does to the name, the      *)
(* description and the webhook is left out; that it writes the row is not. *)
(***************************************************************************)
EXTENDS Naturals, FiniteSets

CONSTANTS
    Wallets,
    Requests,
    Asked,         \* what owners ask for: some of Changes
    MaxKeys        \* bound: keys made

VARIABLES
    rows,          \* the agents table; key 0 stands for no row
    made,          \* the wallet each key was made for, in order
    cached,        \* keys whose prefix leads to their agent
    handed,        \* keys that were answered to the owner
    pc, req,       \* each request: where it is, what it is about
    ideal,         \* ghost: the rows if each write only set what it is about
    lost,          \* ghost: fields of each row that a write put back
    stale,         \* ghost: fields of each request's copy written by others since
    retired,       \* ghost: keys that an answered rotation replaced
    late,          \* ghost: requests sent with a key that was retired
    cut            \* ghost: agents whose new key was written but never answered

tables == <<rows, ideal, lost, stale>>
keys == <<made, cached, handed, retired, cut>>
vars == <<tables, keys, pc, req, late>>

Keys == 1..MaxKeys
Fields == {"key", "status", "seen"}
Statuses == {"active", "paused", "suspended"}
Rows == [key : 0..MaxKeys, status : Statuses, seen : BOOLEAN]
NoRow == [key |-> 0, status |-> "active", seen |-> FALSE]
\* What a request may ask for: a new status, a change of the texts, a new key.
Changes == {"active", "paused", "texts", "key"}

ASSUME AgentsAssumption == Asked \subseteq Changes /\ MaxKeys \in Nat

\* The field that a change sets, and the row with it.
Sets(change) == CASE change \in {"active", "paused"} -> {"status"}
                   [] change = "texts" -> {}
                   [] change = "key" -> {"key"}
Changed(row, change, key) == [row EXCEPT !.status = IF change \in {"active", "paused"} THEN change ELSE @,
                                         !.key = IF change = "key" THEN key ELSE @]

\* What a request is about, before it has read anything.
About(w, change, key) == [wallet |-> w, change |-> change, key |-> key, copy |-> NoRow]
Blank(w) == About(w, "texts", 0)

TypeOK ==
    /\ rows \in [Wallets -> Rows] /\ ideal \in [Wallets -> Rows]
    /\ lost \in [Wallets -> SUBSET Fields] /\ stale \in [Requests -> SUBSET Fields]
    /\ DOMAIN made \subseteq Keys /\ made \in [DOMAIN made -> Wallets]
    /\ cached \subseteq DOMAIN made /\ handed \subseteq DOMAIN made
    /\ retired \subseteq DOMAIN made /\ cut \subseteq Wallets
    /\ pc \in [Requests -> {"idle", "find", "insert", "read", "write", "publish",
                            "lookup", "load", "seen"}]
    /\ req \in [Requests -> [wallet : Wallets, change : Changes,
                             key : 0..MaxKeys, copy : Rows]]
    /\ late \subseteq Requests
    \* a row is opened by a key made for its agent
    /\ \A w \in Wallets : rows[w].key # 0 => rows[w].key \in DOMAIN made /\ made[rows[w].key] = w

Init ==
    /\ rows = [w \in Wallets |-> NoRow] /\ ideal = rows
    /\ lost = [w \in Wallets |-> {}] /\ stale = [r \in Requests |-> {}]
    /\ made = <<>> /\ cached = {} /\ handed = {} /\ retired = {} /\ cut = {}
    /\ pc = [r \in Requests |-> "idle"] /\ late = {}
    /\ req \in [Requests -> {Blank(w) : w \in Wallets}]

Begin(r, at, what) == pc' = [pc EXCEPT ![r] = at] /\ req' = [req EXCEPT ![r] = what]
Go(r, at) == pc' = [pc EXCEPT ![r] = at] /\ UNCHANGED <<req, late>>
Finish(r) == Begin(r, "idle", Blank(req[r].wallet)) /\ late' = late \ {r}

NextKey == Cardinality(DOMAIN made) + 1
MakeKey(w) == made' = [k \in 1..NextKey |-> IF k = NextKey THEN w ELSE made[k]]

\* A write that is about the fields in about, and puts those in back as the
\* request read them: other requests with a copy have it stale in all of them.
Written(r, w, about, back) ==
    /\ lost' = [lost EXCEPT ![w] = (@ \union back) \ about]
    /\ stale' = [q \in Requests |-> IF q = r THEN {}
                                    ELSE IF pc[q] = "write" /\ req[q].wallet = w
                                         THEN stale[q] \union about \union back ELSE stale[q]]

----------------------------------------------------------------------------
(* register_agent                                                          *)

RegisterBegin(r, w) ==
    /\ pc[r] = "idle" /\ Begin(r, "find", Blank(w))
    /\ UNCHANGED <<tables, keys, late>>

\* Mutant: the key is counted before it is made.
RegisterFindEarly(r) ==
    LET w == req[r].wallet IN
    /\ pc[r] = "find"
    /\ \/ rows[w].key # 0 /\ Finish(r) /\ UNCHANGED keys
       \/ /\ rows[w].key = 0 /\ NextKey < MaxKeys
          /\ MakeKey(w) /\ UNCHANGED <<cached, handed, retired, cut>>
          /\ Begin(r, "insert", About(w, "texts", NextKey + 1)) /\ UNCHANGED late
    /\ UNCHANGED tables

\* get_agent_by_wallet, then a new key and its hash.
RegisterFind(r) ==
    LET w == req[r].wallet IN
    /\ pc[r] = "find"
    /\ \/ rows[w].key # 0 /\ Finish(r) /\ UNCHANGED keys
       \/ /\ rows[w].key = 0 /\ NextKey <= MaxKeys
          /\ MakeKey(w) /\ UNCHANGED <<cached, handed, retired, cut>>
          /\ Begin(r, "insert", About(w, "texts", NextKey)) /\ UNCHANGED late
    /\ UNCHANGED tables

\* create_agent; the wallet is unique.
RegisterInsert(r) ==
    LET w == req[r].wallet IN
    /\ pc[r] = "insert"
    /\ \/ /\ rows[w].key # 0 /\ Finish(r)
          /\ UNCHANGED <<tables, keys>>
       \/ /\ rows[w].key = 0 /\ Go(r, "publish")
          /\ rows' = [rows EXCEPT ![w] = [NoRow EXCEPT !.key = req[r].key]]
          /\ ideal' = [ideal EXCEPT ![w] = rows'[w]]
          /\ UNCHANGED <<lost, stale, keys>>

\* Mutant: the key is answered first and its prefix never set.
PublishUncached(r) ==
    LET k == req[r].key IN
    /\ pc[r] = "publish" /\ Finish(r)
    /\ handed' = handed \union {k}
    /\ retired' = retired \union ({req[r].copy.key} \ {0})
    /\ UNCHANGED <<tables, made, cached, cut>>

\* set_agent_key, the last call of register_agent and of rotate_api_key, and the
\* answer, unless the client has gone.
Publish(r) ==
    LET k == req[r].key IN
    /\ pc[r] = "publish" /\ Finish(r)
    /\ cached' = cached \union {k}
    /\ \/ /\ handed' = handed \union {k} /\ retired' = retired \union ({req[r].copy.key} \ {0})
          /\ UNCHANGED cut
       \/ cut' = cut \union {req[r].wallet} /\ UNCHANGED <<handed, retired>>
    /\ UNCHANGED <<tables, made>>

----------------------------------------------------------------------------
(* update_agent and rotate_api_key                                         *)

ChangeBegin(r, w, change) ==
    /\ pc[r] = "idle" /\ Begin(r, "read", About(w, change, 0))
    /\ UNCHANGED <<tables, keys, late>>

\* get_agent_by_id: the copy that will be written back, with a new key for a
\* rotation.
ChangeRead(r) ==
    LET w == req[r].wallet
        rotates == req[r].change = "key" IN
    /\ pc[r] = "read"
    /\ \/ rows[w].key = 0 /\ Finish(r) /\ UNCHANGED <<stale, keys>>
       \/ /\ rows[w].key # 0
          /\ rotates => NextKey <= MaxKeys
          /\ IF rotates THEN MakeKey(w) /\ UNCHANGED <<cached, handed, retired, cut>>
                        ELSE UNCHANGED keys
          /\ Begin(r, "write", [About(w, req[r].change, IF rotates THEN NextKey ELSE 0)
                                EXCEPT !.copy = rows[w]])
          /\ UNCHANGED late
          /\ stale' = [stale EXCEPT ![r] = {}]
    /\ UNCHANGED <<rows, ideal, lost>>

\* Mutant: every write starts from the row as it was registered.
WriteRowReset(r) ==
    LET w == req[r].wallet
        change == req[r].change IN
    /\ pc[r] = "write"
    /\ rows' = [rows EXCEPT ![w] = Changed([req[r].copy EXCEPT !.status = "active"], change, req[r].key)]
    /\ ideal' = [ideal EXCEPT ![w] = Changed(@, change, req[r].key)]
    /\ Written(r, w, Sets(change), stale[r] \ Sets(change))
    /\ IF change = "key" THEN Go(r, "publish") ELSE Finish(r)
    /\ UNCHANGED keys

\* The statement of update_agent sets every field.
WriteRow(r) ==
    LET w == req[r].wallet
        change == req[r].change IN
    /\ pc[r] = "write"
    /\ rows' = [rows EXCEPT ![w] = Changed(req[r].copy, change, req[r].key)]
    /\ ideal' = [ideal EXCEPT ![w] = Changed(@, change, req[r].key)]
    /\ Written(r, w, Sets(change), stale[r] \ Sets(change))
    /\ IF change = "key" THEN Go(r, "publish") ELSE Finish(r)
    /\ UNCHANGED keys

----------------------------------------------------------------------------
(* authenticate_agent_key                                                  *)

AuthenticateBegin(r, k) ==
    /\ pc[r] = "idle"
    /\ Begin(r, "lookup", About(made[k], "texts", k))
    /\ late' = IF k \in retired THEN late \union {r} ELSE late
    /\ UNCHANGED <<tables, keys>>

\* get_agent_by_key: the cache is the only way from a key to its agent.
AuthenticateLookup(r) ==
    /\ pc[r] = "lookup"
    /\ IF req[r].key \in cached THEN Go(r, "load") ELSE Finish(r)
    /\ UNCHANGED <<tables, keys>>

\* Mutant: the prefix alone is looked at.
AuthenticateLoadPrefix(r) ==
    LET row == rows[req[r].wallet] IN
    /\ pc[r] = "load"
    /\ IF row.status # "suspended" THEN Go(r, "seen") ELSE Finish(r)
    /\ UNCHANGED <<tables, keys>>

\* get_agent_by_id, the status and the hash.
AuthenticateLoad(r) ==
    LET row == rows[req[r].wallet] IN
    /\ pc[r] = "load"
    /\ IF row.status # "suspended" /\ row.key = req[r].key THEN Go(r, "seen") ELSE Finish(r)
    /\ UNCHANGED <<tables, keys>>

\* update_last_seen, and the request goes on as the agent's.
AuthenticateSeen(r) ==
    /\ pc[r] = "seen" /\ Finish(r)
    /\ rows' = [rows EXCEPT ![req[r].wallet].seen = TRUE]
    /\ ideal' = [ideal EXCEPT ![req[r].wallet].seen = TRUE]
    /\ Written(r, req[r].wallet, {"seen"}, {})
    /\ UNCHANGED keys

----------------------------------------------------------------------------
\* A call fails, or the client goes away; its write may have been done.
Fail(r) ==
    /\ pc[r] # "idle" /\ Finish(r)
    /\ cut' = IF pc[r] = "publish" THEN cut \union {req[r].wallet} ELSE cut
    /\ stale' = [stale EXCEPT ![r] = {}]
    /\ UNCHANGED <<rows, ideal, lost, made, cached, handed, retired>>

\* Nothing in src suspends an agent: it is done in the table.
Suspend(w) ==
    /\ rows[w].key # 0 /\ rows[w].status # "suspended"
    /\ rows' = [rows EXCEPT ![w].status = "suspended"]
    /\ ideal' = [ideal EXCEPT ![w].status = "suspended"]
    /\ lost' = [lost EXCEPT ![w] = @ \ {"status"}]
    /\ stale' = [q \in Requests |-> IF pc[q] = "write" /\ req[q].wallet = w
                                    THEN stale[q] \union {"status"} ELSE stale[q]]
    /\ UNCHANGED <<keys, pc, req, late>>

Handle(r) ==
    \/ \E w \in Wallets : RegisterBegin(r, w) \/ \E change \in Asked : ChangeBegin(r, w, change)
    \/ \E k \in DOMAIN made : AuthenticateBegin(r, k)
    \/ RegisterFind(r) \/ RegisterInsert(r) \/ Publish(r)
    \/ ChangeRead(r) \/ WriteRow(r)
    \/ AuthenticateLookup(r) \/ AuthenticateLoad(r) \/ AuthenticateSeen(r)
    \/ Fail(r)

Next == \/ \E r \in Requests : Handle(r)
        \/ \E w \in Wallets : Suspend(w)

Spec == Init /\ [][Next]_vars

----------------------------------------------------------------------------
(* Properties                                                              *)

\* A field of an agent's row shows what was last asked for, unless a request that
\* read the row before somebody else set that field has written it back since:
\* the key, the status and the time seen are lost in no other way
\* (agent_service.rs:216).
FieldsAreLostByOverlapOnly ==
    \A w \in Wallets : \A field \in Fields \ lost[w] : rows[w][field] = ideal[w][field]

\* Once a rotation was answered, the key it replaced is refused, unless a request
\* that overlapped with a rotation has put an old key back (agent_service.rs:250).
RotatedOutIsRefused ==
    [][\A r \in Requests :
         pc[r] = "load" /\ pc'[r] = "seen" /\ r \in late => "key" \in lost[req[r].wallet]]_vars

\* The owner holds a key that opens the row, and the cache leads to it: whatever
\* overlaps, an older key at worst, and only a request that failed between its
\* write and its answer locks the owner out (agent_service.rs:253).
OwnerIsNotLockedOut ==
    \A w \in Wallets : rows[w].key # 0 =>
        \/ rows[w].key \in handed \intersect cached
        \/ w \in cut
        \/ \E r \in Requests : pc[r] = "publish" /\ req[r].key = rows[w].key

=============================================================================
