-------------------------------- MODULE Apps --------------------------------
(***************************************************************************)
(* The registry's record of one application: its row with client secret,   *)
(* status and protocol_config, its signing certificates, and the tokens    *)
(* the client obtained, as far as the emergency revocation of a leaked     *)
(* secret has to find them.  Every request is a sequence of statements     *)
(* with no transaction around it, and Update and RotateClientSecret Save   *)
(* the whole row they read.                                                *)
(***************************************************************************)
EXTENDS Naturals, FiniteSets

CONSTANTS
    Workers, Users, None,
    Keys,                                       \* keys of protocol_config
    MaxSecrets, MaxCerts, MaxTokens, MaxRequests    \* bounds

VARIABLES
    row,        \* the application's row, or None
    certs,      \* its signing certificates: [id, active], inactive is "rotating"
    tokens,     \* live refresh tokens: [id, user, secret it was obtained with]
    forward,    \* the per-user index: ids of its tokens
    index,      \* the per-client index: users
    last,       \* last secret, certificate and token issued
    req, requests,
    contained,  \* secrets an emergency revocation reported dealt with
    excused     \* what went wrong of the things the properties except

vars == <<row, certs, tokens, forward, index, last, req, requests, contained, excused>>
grants == <<tokens, forward, index>>

Idle == [op |-> "idle"]

\* The application is created with its key, or is being created.
Init ==
    /\ row \in {None} \cup [secret : {0, 1}, enabled : {TRUE}, config : {{}}]
    /\ certs = IF row = None THEN {} ELSE {[id |-> 1, active |-> TRUE]}
    /\ tokens = {} /\ forward = [u \in Users |-> {}] /\ index = {}
    /\ last = [secret |-> 1, cert |-> 1, token |-> 0]
    /\ req = [w \in Workers |-> Idle] /\ requests = 0
    /\ contained = {} /\ excused = {}

Start(w, r) ==
    /\ req[w] = Idle /\ requests < MaxRequests
    /\ requests' = requests + 1
    /\ req' = [req EXCEPT ![w] = r]

Goto(w, r) == req' = [req EXCEPT ![w] = r] /\ UNCHANGED requests

Exists == row # None

\* Confidential clients have a secret, public ones 0.
needsClientSecret(r) == r.secret # 0

-----------------------------------------------------------------------------
(* Signing keys. *)

\* Create: the row first, for a protocol that signs ...
Create(w) ==
    /\ ~ Exists /\ requests = 0
    /\ row' \in [secret : {0, 1}, enabled : {TRUE}, config : {{}}]
    /\ Start(w, [op |-> "generate", then |-> "created"])
    /\ UNCHANGED <<certs, grants, last, contained, excused>>

\* ... then its key, and the row is deleted again when that fails.
GenerateFails(w) ==
    LET r == req[w]
    IN  /\ r.op = "generate"
        /\ IF r.then = "created" THEN row' = None /\ certs' = {} ELSE UNCHANGED <<row, certs>>
        /\ Goto(w, Idle)
        /\ UNCHANGED <<grants, last, contained, excused>>

\* RotateSigningKey and CreateCert: the application, then RotateForApp.
RotateSigningKey(w) ==
    /\ Exists
    /\ Start(w, [op |-> "generate", then |-> "demote"])
    /\ UNCHANGED <<row, certs, grants, last, contained, excused>>

\* GenerateForApp inserts an active certificate; the foreign key wants the row.
GenerateForApp(w) ==
    LET n == last.cert + 1
        r == req[w]
    IN  /\ r.op = "generate" /\ Exists /\ n <= MaxCerts
        /\ certs' = certs \cup {[id |-> n, active |-> TRUE]}
        /\ last' = [last EXCEPT !.cert = n]
        /\ Goto(w, IF r.then = "created" THEN Idle ELSE [op |-> "demote", cert |-> n])
        /\ UNCHANGED <<row, grants, contained, excused>>

Demoted(n) == {[c EXCEPT !.active = c.active /\ c.id = n] : c \in certs}

\* Certificates of rotations that have yet to demote.
Pending(w) == {req[v].cert : v \in {x \in Workers \ {w} : req[x].op = "demote"}}

\* RotateForApp's second statement, or the removal of the new certificate when
\* it fails.
RotateForApp(w) ==
    LET n == req[w].cert
    IN  /\ req[w].op = "demote"
        /\ \/ /\ certs' = Demoted(n)
              /\ excused' = excused \cup
                    IF \E c \in certs : c.active /\ c.id \in Pending(w) THEN {"rotations crossed"} ELSE {}
           \/ certs' = {c \in certs : c.id # n} /\ UNCHANGED excused
        /\ Goto(w, Idle)
        /\ UNCHANGED <<row, grants, last, contained>>

\* Of one certificate, whichever it is.
DeleteCert(c) ==
    /\ Exists /\ requests < MaxRequests /\ requests' = requests + 1
    /\ certs' = certs \ {c}
    /\ excused' = excused \cup {"certificate deleted"}
    /\ UNCHANGED <<row, grants, last, req, contained>>

\* LoadSigningKey finds the first active certificate.
LoadSigningKey == \E c \in certs : c.active

-----------------------------------------------------------------------------
(* The row. *)

\* A hard delete; the certificates cascade.
Delete ==
    /\ Exists /\ requests < MaxRequests /\ requests' = requests + 1
    /\ row' = None /\ certs' = {}
    /\ UNCHANGED <<grants, last, req, contained, excused>>

UpdateStatus ==
    /\ Exists /\ requests < MaxRequests /\ requests' = requests + 1
    /\ row' = [row EXCEPT !.enabled = ~ @]
    /\ UNCHANGED <<certs, grants, last, req, contained, excused>>

\* Update reads the row and edits what the request names ...
Update(w, config) ==
    /\ Exists
    /\ Start(w, [op |-> "save", read |-> row, then |-> "done",
                 row |-> IF config = None THEN row ELSE [row EXCEPT !.config = config]])
    /\ UNCHANGED <<row, certs, grants, last, contained, excused>>

\* Requests that hold a token or are about to.
Granting == {v \in Workers : req[v].op \in {"grant", "index"}}

\* ... and Saves all of it: over what others wrote since, and back into the table
\* when the row is gone.
Save(w) ==
    LET r == req[w]
    IN  /\ r.op = "save"
        /\ row' = r.row
        /\ excused' = excused
             \cup (IF row = None THEN {"row revived"}
                   ELSE IF row.secret # r.read.secret THEN {"secret restored"} ELSE {})
             \cup (IF r.row.secret # r.read.secret /\ Granting # {} THEN {"grant in flight"} ELSE {})
        /\ Goto(w, IF r.then = "done" THEN Idle ELSE [op |-> r.then, old |-> r.read.secret])
        /\ UNCHANGED <<certs, grants, last, contained>>

\* PatchProtocolConfig merges; a null deletes.
Merged(config, keys, del) == (config \cup keys) \ del

\* GetProtocolConfig, before a patch or, with what the metadata names, an import.
GetProtocolConfig(w, keys, del) ==
    /\ Exists
    /\ Start(w, [op |-> "config", config |-> Merged(row.config, keys, del)])
    /\ UNCHANGED <<row, certs, grants, last, contained, excused>>

\* UpdateProtocolConfig writes one column, of a row that is still there.
writeProtocolConfig(w) ==
    /\ req[w].op = "config"
    /\ row' = IF Exists THEN [row EXCEPT !.config = req[w].config] ELSE row
    /\ Goto(w, Idle)
    /\ UNCHANGED <<certs, grants, last, contained, excused>>

-----------------------------------------------------------------------------
(* The secret, the tokens it obtains, and the emergency. *)

\* RotateClientSecret reads the row and Saves it with a new secret.
ReadForRotation(then) ==
    [op |-> "save", read |-> row, then |-> then, row |-> [row EXCEPT !.secret = last.secret + 1]]

RotateClientSecret(w) ==
    /\ Exists /\ needsClientSecret(row) /\ last.secret < MaxSecrets
    /\ last' = [last EXCEPT !.secret = @ + 1]
    /\ Start(w, ReadForRotation("done"))
    /\ UNCHANGED <<row, certs, grants, contained, excused>>

\* VerifyClientSecret, at every grant and refresh of an enabled application.
VerifyClientSecret(w, u) ==
    /\ Exists /\ row.enabled
    /\ Start(w, [op |-> "grant", user |-> u, secret |-> row.secret])
    /\ UNCHANGED <<row, certs, grants, last, contained, excused>>

\* storeRefreshToken ...
storeToken(w) ==
    LET r == req[w]
        n == last.token + 1
    IN  /\ r.op = "grant" /\ n <= MaxTokens
        /\ tokens' = tokens \cup {[id |-> n, user |-> r.user, secret |-> r.secret]}
        /\ last' = [last EXCEPT !.token = n]
        /\ Goto(w, [op |-> "index", user |-> r.user, token |-> n])
        /\ UNCHANGED <<row, certs, forward, index, contained, excused>>

\* ... and indexAdd.
indexAdd(w) ==
    LET r == req[w]
    IN  /\ r.op = "index"
        /\ forward' = [forward EXCEPT ![r.user] = @ \cup {r.token}]
        /\ index' = index \cup {r.user}
        /\ Goto(w, Idle)
        /\ UNCHANGED <<row, certs, tokens, last, contained, excused>>

\* EmergencyRevoke: a confidential client's secret is rotated first.
EmergencyRevoke(w) ==
    /\ Exists
    /\ IF needsClientSecret(row)
       THEN last.secret < MaxSecrets /\ last' = [last EXCEPT !.secret = @ + 1] /\ Start(w, ReadForRotation("users"))
       ELSE Start(w, [op |-> "users", old |-> 0]) /\ UNCHANGED last
    /\ UNCHANGED <<row, certs, grants, contained, excused>>

\* Mutant: the client's index alone.
IndexOnly(w) == index

\* The union of the client's index and a scan of the per-user keys.
ClientUsers(w) == index \cup {u \in Users : forward[u] # {}}

RevokeAllForClient(w) ==
    /\ req[w].op = "users"
    /\ Goto(w, [op |-> "next", users |-> ClientUsers(w), failed |-> FALSE, old |-> req[w].old])
    /\ UNCHANGED <<row, certs, grants, last, contained, excused>>

\* TerminateSession: the user's index is read, or the call fails and the loop
\* goes on ...
TerminateSession(w, u) ==
    LET r == [req[w] EXCEPT !.users = @ \ {u}]
    IN  /\ req[w].op = "next" /\ u \in req[w].users
        /\ \/ Goto(w, [r EXCEPT !.failed = TRUE])
           \/ Goto(w, [op |-> "terminate", user |-> u, ids |-> forward[u], back |-> r])
        /\ UNCHANGED <<row, certs, grants, last, contained, excused>>

\* ... and what it named is deleted, then the index itself.
DeleteTokens(w) ==
    LET r == req[w]
    IN  /\ r.op = "terminate"
        /\ tokens' = {t \in tokens : t.id \notin r.ids}
        /\ forward' = [forward EXCEPT ![r.user] = {}]
        /\ excused' = excused \cup IF forward[r.user] # r.ids THEN {"index dropped"} ELSE {}
        /\ Goto(w, r.back)
        /\ UNCHANGED <<row, certs, index, last, contained>>

\* The client's index is dropped when nothing failed, and success reported.
Revoked(w) ==
    LET r == req[w]
    IN  /\ r.op = "next" /\ r.users = {}
        /\ IF r.failed THEN UNCHANGED <<index, contained>>
           ELSE index' = {} /\ contained' = contained \cup {r.old}
        /\ Goto(w, Idle)
        /\ UNCHANGED <<row, certs, tokens, forward, last, excused>>

-----------------------------------------------------------------------------

Next ==
    \/ Delete \/ UpdateStatus
    \/ \E c \in certs : DeleteCert(c)
    \/ \E w \in Workers :
          \/ Create(w) \/ GenerateFails(w) \/ RotateSigningKey(w) \/ GenerateForApp(w) \/ RotateForApp(w)
          \/ Save(w) \/ writeProtocolConfig(w)
          \/ \E c \in {None} \cup SUBSET Keys : Update(w, c)
          \/ \E k, d \in SUBSET Keys : GetProtocolConfig(w, k, d)
          \/ RotateClientSecret(w) \/ EmergencyRevoke(w) \/ RevokeAllForClient(w)
          \/ DeleteTokens(w) \/ Revoked(w) \/ storeToken(w) \/ indexAdd(w)
          \/ \E u \in Users : VerifyClientSecret(w, u) \/ TerminateSession(w, u)

Spec == Init /\ [][Next]_vars

-----------------------------------------------------------------------------

Creating == \E w \in Workers : req[w].op = "generate" /\ req[w].then = "created"

(***************************************************************************)
(* "We never leave a signed-protocol app without a key": outside its       *)
(* creation an application always has an active certificate to sign with,  *)
(* through failed creations and rotations and deletions, unless an         *)
(* administrator deleted a certificate, a stale Save brought a deleted row *)
(* back, or two rotations demoted each other's certificate.                *)
(***************************************************************************)
KeptSigningKey == Exists /\ ~ Creating /\ excused = {} => LoadSigningKey

(***************************************************************************)
(* Rotate, then revoke: once an emergency revocation reports success, no   *)
(* token obtained with the secret it retired is live, nor can one be       *)
(* obtained, whatever was granted, refreshed, patched or failed meanwhile; *)
(* unless a grant was in flight as the secret changed, a Save of a row     *)
(* read earlier restored the secret, or a token indexed while its user's   *)
(* index was being dropped.                                                *)
(***************************************************************************)
Contained ==
    excused = {} =>
        \A s \in contained \ {0} :
            /\ \A t \in tokens : t.secret # s
            /\ Exists => row.secret # s
=============================================================================
