------------------------------ MODULE OIDCFlow ------------------------------
(***************************************************************************)
(* The authorization code flow: the request CreateAuthRequest stores, the  *)
(* login bridge that has it confirmed or declined, the code saved for it   *)
(* and the exchange of that code for tokens; and the user's consent row.   *)
(* The request and the code are two Redis keys read and written by single  *)
(* commands, from concurrent HTTP requests.  The endpoints that call       *)
(* SaveAuthCode and exchange codes belong to the OpenID library: they are  *)
(* modelled by the order in which they call this storage.                  *)
(***************************************************************************)
EXTENDS Naturals, FiniteSets

CONSTANTS
    Ids,            \* authorization requests
    Codes, Scopes,
    pkceRequired,   \* the client demands PKCE
    Workers, None,
    MaxRequests     \* bound

Methods == {"none", "plain", "S256"}

VARIABLES
    auth,       \* request keys: id -> [done, idp, method] or None
    codes,      \* code keys: code -> id or None
    confirm,    \* unused confirmation tokens
    row,        \* consent row: [scopes, revoked] or None
    req, requests,
    used,       \* ids and codes that have existed
    tokens,     \* id -> exchanges that returned tokens
    declined,   \* ids whose user said no
    afterNo,    \* ids that were given a code, or tokens, after the user said no
    crossed,    \* ids on which two requests met halfway
    since,      \* scopes the user granted since the last revocation
    met         \* a grant and a revocation met halfway

flow == <<auth, codes, confirm, used, tokens, declined, afterNo, crossed>>
ledger == <<row, since, met>>
vars == <<flow, ledger, req, requests>>

Idle == [op |-> "idle"]

Init ==
    /\ auth = [i \in Ids |-> None] /\ codes = [c \in Codes |-> None]
    /\ confirm = 0 /\ row = None
    /\ req = [w \in Workers |-> Idle] /\ requests = 0
    /\ used = {} /\ tokens = [i \in Ids |-> 0]
    /\ declined = {} /\ afterNo = {} /\ crossed = {}
    /\ since = {} /\ met = FALSE

Start(w, r) ==
    /\ req[w] = Idle /\ requests < MaxRequests
    /\ requests' = requests + 1
    /\ req' = [req EXCEPT ![w] = r]

Goto(w, r) == req' = [req EXCEPT ![w] = r] /\ UNCHANGED requests

\* Another request holds a copy of authorization request i.
Held(w, i) == \E v \in Workers \ {w} : req[v].op # "idle" /\ req[v].id = i

-----------------------------------------------------------------------------

\* enforcePKCE: S256 or nothing, for a client that demands it.
enforcePKCE(method) == pkceRequired => method = "S256"

CreateAuthRequest(i) ==
    \E idp \in BOOLEAN, m \in Methods :
        /\ i \notin used /\ enforcePKCE(m) /\ requests < MaxRequests
        /\ auth' = [auth EXCEPT ![i] = [done |-> FALSE, idp |-> idp, method |-> m]]
        /\ used' = used \cup {i}
        /\ UNCHANGED <<codes, confirm, tokens, declined, afterNo, crossed, ledger, req, requests>>

\* The portal's confirmation page.
Issue ==
    /\ confirm < Cardinality(Ids) /\ confirm' = confirm + 1
    /\ UNCHANGED <<auth, codes, used, tokens, declined, afterNo, crossed, ledger, req, requests>>

\* Handle reads the request; without a session, or with access denied, it
\* redirects and nothing changes.
Handle(w, i) ==
    /\ auth[i] # None
    /\ Start(w, [op |-> "bridge", id |-> i, ar |-> auth[i]])
    /\ UNCHANGED <<flow, ledger>>

\* Mutant: the request stays after the answer.
LeaveRequest(i) == auth

\* DeleteAuthRequest; the code key is left to expire.
DeleteAuthRequest(i) == [auth EXCEPT ![i] = None]

\* A denial deletes the request before it answers.
AfterDenial(i) == [auth EXCEPT ![i] = None]

\* sso_deny=1.
denyAuthRequest(w) ==
    LET i == req[w].id
    IN  /\ req[w].op = "bridge" /\ ~ req[w].ar.idp
        /\ auth' = AfterDenial(i)
        /\ declined' = declined \cup {i}
        /\ crossed' = IF Held(w, i) \/ req[w].ar.done THEN crossed \cup {i} ELSE crossed
        /\ Goto(w, Idle)
        /\ UNCHANGED <<codes, confirm, used, tokens, afterNo, ledger>>

\* Portal-launched requests need no confirmation; without one the others
\* are sent to the confirmation page.
Confirm(w) ==
    /\ req[w].op = "bridge"
    /\ IF req[w].ar.idp THEN Goto(w, [req[w] EXCEPT !.op = "load"]) /\ UNCHANGED confirm
       ELSE IF confirm > 0 THEN Goto(w, [req[w] EXCEPT !.op = "load"]) /\ confirm' = confirm - 1
       ELSE Goto(w, Idle) /\ UNCHANGED confirm
    /\ UNCHANGED <<auth, codes, used, tokens, declined, afterNo, crossed, ledger>>

\* AuthRequestDone reads the request again and stores it as done.
LoadDone(w) ==
    LET i == req[w].id
    IN  /\ req[w].op = "load"
        /\ Goto(w, IF auth[i] = None THEN Idle
                   ELSE [req[w] EXCEPT !.op = "store", !.ar = auth[i]])
        /\ UNCHANGED <<flow, ledger>>

AuthRequestDone(w) ==
    LET i == req[w].id
    IN  /\ req[w].op = "store"
        /\ auth' = [auth EXCEPT ![i] = [req[w].ar EXCEPT !.done = TRUE]]
        /\ crossed' = IF auth[i] = None THEN crossed \cup {i} ELSE crossed
        /\ Goto(w, Idle)
        /\ UNCHANGED <<codes, confirm, used, tokens, declined, afterNo, ledger>>

\* The callback endpoint: a request that is done gets a code.
Callback(w, i) ==
    /\ auth[i] # None
    /\ auth[i].done
    /\ Start(w, [op |-> "code", id |-> i, ar |-> auth[i]])
    /\ UNCHANGED <<flow, ledger>>

SaveAuthCode(w, c) ==
    LET i == req[w].id
    IN  /\ req[w].op = "code" /\ c \notin used
        /\ codes' = [codes EXCEPT ![c] = i]
        /\ used' = used \cup {c}
        /\ afterNo' = IF i \in declined THEN afterNo \cup {i} ELSE afterNo
        /\ Goto(w, Idle)
        /\ UNCHANGED <<auth, confirm, tokens, declined, crossed, ledger>>

\* The token endpoint: AuthRequestByCode reads the code key, then the request.
AuthRequestByCode(w, c) ==
    /\ codes[c] # None
    /\ Start(w, [op |-> "byID", id |-> codes[c]])
    /\ UNCHANGED <<flow, ledger>>

AuthRequestByID(w) ==
    LET i == req[w].id
    IN  /\ req[w].op = "byID"
        /\ IF auth[i] = None THEN Goto(w, Idle)
           ELSE \/ Goto(w, [op |-> "issue", id |-> i])
                \/ Goto(w, Idle)                       \* client or verifier refused
        /\ UNCHANGED <<flow, ledger>>

\* The tokens are stored (CreateAccessAndRefreshTokens), then the request
\* is deleted.
IssueTokens(w) ==
    LET i == req[w].id
    IN  /\ req[w].op = "issue"
        /\ tokens' = [tokens EXCEPT ![i] = @ + 1]
        /\ afterNo' = IF i \in declined THEN afterNo \cup {i} ELSE afterNo
        /\ crossed' = IF Held(w, i) THEN crossed \cup {i} ELSE crossed
        /\ Goto(w, [op |-> "answered", id |-> i])
        /\ UNCHANGED <<auth, codes, confirm, used, declined, ledger>>

Answered(w) ==
    /\ req[w].op = "answered"
    /\ auth' = DeleteAuthRequest(req[w].id)
    /\ crossed' = IF Held(w, req[w].id) THEN crossed \cup {req[w].id} ELSE crossed
    /\ Goto(w, Idle)
    /\ UNCHANGED <<codes, confirm, used, tokens, declined, afterNo, ledger>>

\* The lifetimes of the two keys end.
ExpireRequest(i) ==
    /\ auth[i] # None /\ auth' = [auth EXCEPT ![i] = None]
    /\ UNCHANGED <<codes, confirm, used, tokens, declined, afterNo, crossed, ledger, req, requests>>

ExpireCode(c) ==
    /\ codes[c] # None /\ codes' = [codes EXCEPT ![c] = None]
    /\ UNCHANGED <<auth, confirm, used, tokens, declined, afterNo, crossed, ledger, req, requests>>

FlowNext ==
    \/ Issue
    \/ \E i \in Ids : CreateAuthRequest(i) \/ ExpireRequest(i)
    \/ \E c \in Codes : ExpireCode(c)
    \/ \E w \in Workers :
          \/ \E i \in Ids : Handle(w, i) \/ Callback(w, i)
          \/ \E c \in Codes : SaveAuthCode(w, c) \/ AuthRequestByCode(w, c)
          \/ denyAuthRequest(w) \/ Confirm(w) \/ LoadDone(w) \/ AuthRequestDone(w)
          \/ AuthRequestByID(w) \/ IssueTokens(w) \/ Answered(w)

-----------------------------------------------------------------------------
(* Consent.                                                                *)

\* Grant reads the row, revoked or not.
ReadConsent(w, asked) ==
    /\ Start(w, [op |-> "grant", id |-> None, row |-> row, asked |-> asked])
    /\ UNCHANGED <<flow, ledger>>

\* The scopes a grant starts from: none, when the row was revoked.
prior(r) == IF r = None THEN {} ELSE IF r.revoked THEN {} ELSE r.scopes

\* Create, on the unique (tenant, user, app), or Save of the row as read.
Grant(w) ==
    LET r == req[w]
        created == r.row = None
        ok == created => row = None
    IN  /\ r.op = "grant"
        /\ row' = IF ok THEN [scopes |-> prior(r.row) \cup r.asked, revoked |-> FALSE] ELSE row
        /\ since' = IF ok THEN since \cup r.asked ELSE since
        /\ Goto(w, Idle)
        /\ UNCHANGED <<flow, met>>

\* Revoke stamps the live row in one statement.
Revoke ==
    /\ row # None
    /\ ~ row.revoked
    /\ row' = [row EXCEPT !.revoked = TRUE]
    /\ since' = {}
    /\ met' = (met \/ \E w \in Workers : req[w].op = "grant")
    /\ UNCHANGED <<flow, req, requests>>

ConsentNext ==
    \/ Revoke
    \/ \E w \in Workers : Grant(w) \/ \E asked \in SUBSET Scopes \ {{}} : ReadConsent(w, asked)

Next == FlowNext \/ ConsentNext

Spec == Init /\ [][Next]_vars

-----------------------------------------------------------------------------

(***************************************************************************)
(* A request is answered once: however often its callback and its codes    *)
(* are presented, an authorization request yields tokens at most once,     *)
(* unless another request held a copy of it while it was answered (the     *)
(* code is read and the request deleted by separate commands, and          *)
(* AuthRequestDone writes back a request deleted since it was read).       *)
(***************************************************************************)
AnsweredOnce == \A i \in Ids \ crossed : tokens[i] <= 1

(***************************************************************************)
(* No means no: after the user declined a request no code is saved for it  *)
(* and no tokens are issued, unless the request had been confirmed before  *)
(* or another request held a copy of it then (denyAuthRequest).            *)
(***************************************************************************)
DeclinedStays == afterNo \subseteq crossed

(***************************************************************************)
(* A revoked consent does not come back: the scopes of the live row are    *)
(* ones the user granted since the last revocation, unless a grant had     *)
(* read the row when the revocation came (Grant, Revoke).                  *)
(***************************************************************************)
RevokedScopesGone ==
    IF row = None THEN TRUE ELSE row.revoked \/ met \/ row.scopes \subseteq since
=============================================================================
