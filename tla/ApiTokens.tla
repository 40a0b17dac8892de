------------------------------ MODULE ApiTokens ------------------------------
(***************************************************************************)
(* Personal access tokens (internal/domain/apitoken) and the job that      *)
(* purges dead ones (runHousekeepingPurge).  A call finds candidates by    *)
(* the token's prefix, compares hashes, which takes its time, and judges   *)
(* the row it read; the owner revokes and the purge deletes meanwhile.     *)
(* All tokens share their prefix, the most a lookup can have to tell       *)
(* apart.                                                                  *)
(***************************************************************************)
EXTENDS Integers, FiniteSets

CONSTANTS
    Ids,            \* token ids; a token's secret goes by its id
    ScopesOf,       \* the scopes each is minted with
    Calls,          \* calls and portal requests at once
    Grace,          \* a dead token is kept this long
    MaxTime, MaxCalls    \* bounds

VARIABLES
    date,
    tokens,         \* mxid_api_token
    minted,         \* ids used
    call,           \* per call: the statement it has come to
    calls,          \* calls so far
    purge,          \* the purge: its cutoff and the column it has come to
    early           \* history: tokens purged before their time

apiTokenVars == <<date, tokens, minted, call, calls, purge, early>>

Never == 0                              \* NULL in expires_at and revoked_at
NoPurge == [col |-> "none"]
Free == [op |-> "free"]

Init ==
    /\ date = 1 /\ tokens = {} /\ minted = {} /\ call = [c \in Calls |-> Free] /\ calls = 0
    /\ purge = NoPurge /\ early = {}

Row(id) == {t \in tokens : t.id = id}
Goto(c, r) == call' = [call EXCEPT ![c] = r]
Begin(c, r) == call[c] = Free /\ calls < MaxCalls /\ calls' = calls + 1 /\ Goto(c, r)

Tick == date < MaxTime /\ date' = date + 1 /\ UNCHANGED <<tokens, minted, call, calls, purge, early>>

\* The portal mints a token for the caller, with an expiry or without.
Create(id, expires) ==
    /\ id \notin minted /\ minted' = minted \cup {id}
    /\ tokens' = tokens \cup {[id |-> id, expires |-> expires, revoked |-> Never]}
    /\ UNCHANGED <<date, call, calls, purge, early>>

\* The row is read first: it has to be the caller's, and nothing is left to do where it
\* is revoked already.
Revoke(c, id) ==
    /\ \E t \in Row(id) : t.revoked = Never
    /\ Begin(c, [op |-> "revoke", id |-> id])
    /\ UNCHANGED <<date, tokens, minted, purge, early>>

\* The UPDATE sets revoked_at where it is still NULL.
SetRevoked(c) ==
    LET r == call[c] IN
    /\ r.op = "revoke" /\ Goto(c, Free)
    /\ tokens' = {IF t.id = r.id /\ t.revoked = Never THEN [t EXCEPT !.revoked = date] ELSE t : t \in tokens}
    /\ UNCHANGED <<date, minted, calls, purge, early>>

\* revoked_at IS NULL is part of the lookup.
GetByPrefix == {t \in tokens : t.revoked = Never}

\* The candidates, and for the history the tokens the call came too late for.
Authenticate(c, secret) ==
    /\ Begin(c, [op |-> "compare", secret |-> secret, rows |-> GetByPrefix,
                 dead |-> minted \ {t.id : t \in GetByPrefix}])
    /\ UNCHANGED <<date, tokens, minted, purge, early>>

IsActive(t) == t.revoked = Never /\ (t.expires = Never \/ date <= t.expires)

\* The hash of one candidate at a time; the row it matches is judged as it was read, by
\* the clock of the moment.
CompareHash(c) ==
    LET r == call[c] IN
    /\ r.op = "compare"
    /\ Goto(c, IF \E t \in r.rows : t.id = r.secret /\ IsActive(t)
               THEN [op |-> "touch", id |-> r.secret, dead |-> r.dead, at |-> date] ELSE Free)
    /\ UNCHANGED <<date, tokens, minted, calls, purge, early>>

\* TouchLastUsed changes no column modelled here and has no effect on a row that is
\* gone; the call goes on as the token's account, with its scopes.
AuthMiddleware(c) ==
    /\ call[c].op = "touch" /\ Goto(c, [call[c] EXCEPT !.op = "route"])
    /\ UNCHANGED <<date, tokens, minted, calls, purge, early>>

Allows(scopes, scope) == scopes \cap {"*", scope} # {}

\* The route's scope is the token's, or the call ends here.
RequireScope(c, scope) ==
    /\ call[c].op = "route"
    /\ Goto(c, IF Allows(ScopesOf[call[c].id], scope) THEN [call[c] EXCEPT !.op = "serve"] ELSE Free)
    /\ UNCHANGED <<date, tokens, minted, calls, purge, early>>

Answer(c) ==
    /\ call[c].op = "serve" /\ Goto(c, Free)
    /\ UNCHANGED <<date, tokens, minted, calls, purge, early>>

\* A pass deletes by expires_at, then by revoked_at, with one cutoff.
runHousekeepingPurge ==
    /\ purge = NoPurge
    /\ purge' = [col |-> "expires", cutoff |-> date - Grace]
    /\ UNCHANGED <<date, tokens, minted, call, calls, early>>

Before(at, cutoff) == at # Never /\ at < cutoff

\* One DELETE.
PurgeExpired ==
    LET due == {t \in tokens : Before(IF purge.col = "expires" THEN t.expires ELSE t.revoked, purge.cutoff)} IN
    /\ purge # NoPurge
    /\ tokens' = tokens \ due
    /\ early' = early \cup {t.id : t \in {x \in due : ~ Before(x.expires, date - Grace)
                                                      /\ ~ Before(x.revoked, date - Grace)}}
    /\ purge' = IF purge.col = "expires" THEN [purge EXCEPT !.col = "revoked"] ELSE NoPurge
    /\ UNCHANGED <<date, minted, call, calls>>

Next ==
    \/ Tick
    \/ \E id \in Ids, expires \in {Never, date, date + 1} : Create(id, expires)
    \/ \E c \in Calls :
          \/ \E id \in Ids : Revoke(c, id) \/ Authenticate(c, id)
          \/ SetRevoked(c) \/ CompareHash(c) \/ AuthMiddleware(c) \/ RequireScope(c, "read") \/ Answer(c)
    \/ runHousekeepingPurge \/ PurgeExpired

Spec == Init /\ [][Next]_apiTokenVars

-----------------------------------------------------------------------------

\* A call that began after a token's revocation had committed, or after its row was
\* purged, does not pass under it, nor does one whose token had run out when its hash
\* matched (GetByPrefix, IsActive, PurgeExpired).
DeadTokensRefused ==
    \A c \in Calls : call[c].op \in {"touch", "route", "serve"} =>
        /\ call[c].id \notin call[c].dead
        /\ \A t \in Row(call[c].id) : t.expires = Never \/ call[c].at <= t.expires

\* The purge takes no token that is usable or still within the grace period
\* (PurgeExpired, runHousekeepingPurge).
GraceKept == early = {}
=============================================================================
