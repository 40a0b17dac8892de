----------------------------- MODULE Identities -----------------------------
(***************************************************************************)
(* Bindings of external identities to accounts (user/external_login.go and *)
(* the identity part of user/service.go): signing in through an identity   *)
(* provider, binding, unbinding, restoring and taking over, while accounts *)
(* are deleted and restored.  The partial unique index on live bindings is *)
(* the one arbiter between requests; everything else is read, then write.  *)
(***************************************************************************)
EXTENDS Naturals, FiniteSets, FiniteSetsExt

CONSTANTS
    Users, Present, \* Present: accounts that exist at the start
    Externals,      \* external accounts of one provider
    Namesakes,      \* per external account: the users with the name it reports
    RowIds, Workers, None,
    MaxRequests     \* bound: requests

VARIABLES
    acct,           \* mxid_user: "absent", "live" or "deleted"
    bind,           \* mxid_user_identity: a function on the ids in use; gone is 0
                    \* for a live row and else tells the order of the unbinds
    req, requests,
    raced,          \* a write rested on a read that no longer held
    moved           \* a live binding of a live account changed hands

vars == <<acct, bind, req, requests, raced, moved>>

Free == [op |-> "idle"]

Init ==
    /\ acct = [u \in Users |-> IF u \in Present THEN "live" ELSE "absent"]
    /\ bind = [i \in {} |-> None]
    /\ req = [w \in Workers |-> Free] /\ requests = 0
    /\ raced = FALSE /\ moved = FALSE

Live(u) == acct[u] = "live"
LiveRows(x) == {i \in DOMAIN bind : bind[i].ext = x /\ bind[i].gone = 0}
Clock == Max({bind[i].gone : i \in DOMAIN bind} \cup {0}) + 1

Start(w, r) ==
    /\ req[w] = Free /\ requests < MaxRequests
    /\ requests' = requests + 1
    /\ req' = [req EXCEPT ![w] = r]
    /\ UNCHANGED <<acct, bind, raced, moved>>

Goto(w, r) == req' = [req EXCEPT ![w] = r] /\ UNCHANGED requests
Done(w) == Goto(w, Free)
Skip(w) == Done(w) /\ UNCHANGED <<acct, bind, raced, moved>>

\* GetAnyIdentityByExternal: the live row, else the one unbound last.
GetAnyIdentityByExternal(x) ==
    LET rows == {i \in DOMAIN bind : bind[i].ext = x}
        lastGone == Max({bind[i].gone : i \in rows})
    IN IF rows = {} THEN None
       ELSE IF LiveRows(x) # {} THEN CHOOSE i \in LiveRows(x) : TRUE
       ELSE CHOOSE i \in rows : bind[i].gone = lastGone

\* One write to the table, refused by uk_user_identity_external when another
\* row holds the external account.  seen is what the request had read.
Write(w, i, row, seen) ==
    LET was == IF i \in DOMAIN bind THEN bind[i] ELSE None
        ok == row.gone # 0 \/ LiveRows(row.ext) \subseteq {i}
    IN /\ Done(w)
       /\ IF ok
          THEN /\ bind' = [j \in DOMAIN bind \cup {i} |-> IF j = i THEN row ELSE bind[j]]
               /\ raced' = (raced \/ was # seen \/ (row.gone = 0 /\ ~ Live(row.owner))
                            \/ \E v \in Workers : req[v] = [op |-> "SoftDelete", u |-> row.owner])
               /\ moved' = (moved \/ (was # None /\ was.gone = 0
                                      /\ Live(was.owner) /\ row.owner # was.owner))
          ELSE UNCHANGED <<bind, raced, moved>>
       /\ UNCHANGED acct

NewRow(x, u) == [ext |-> x, owner |-> u, gone |-> 0]

(***************************************************************************)
(* Signing in.                                                             *)
(***************************************************************************)

\* ResolveExternalLogin: a live binding is refreshed before its account is
\* loaded; without one a former binding or a namesake stops the sign-in.
ResolveExternalLogin(w, x, auto) ==
    LET prior == GetAnyIdentityByExternal(x) IN
    IF LiveRows(x) # {}
    THEN Start(w, [op |-> "Refresh", row |-> prior, seen |-> bind[prior]])
    ELSE prior = None /\ Start(w, [op |-> "Candidate", ext |-> x, auto |-> auto])

\* UpdateIdentity is gorm's Save: the row as it was read, a live one.
UpdateIdentity(w) ==
    LET r == req[w] IN
    r.op = "Refresh" /\ Write(w, r.row, r.seen, r.seen)

\* findLinkCandidate: a namesake stops the sign-in (one without a binding is asked
\* to prove the account is theirs, which ends in BindExternalIdentity); without
\* any, a new account follows if the provider may create one.
findLinkCandidate(w) ==
    LET r == req[w]
        matches == {u \in Namesakes[r.ext] : Live(u)}
    IN /\ r.op = "Candidate"
       /\ IF matches = {} /\ r.auto
          THEN Goto(w, [op |-> "Provision", ext |-> r.ext])
          ELSE Done(w)
       /\ UNCHANGED <<acct, bind, raced, moved>>

\* CreateWithIdentity: account and binding in one transaction.
CreateWithIdentity(w) ==
    LET r == req[w] IN
    /\ r.op = "Provision"
    /\ \E u \in Users, i \in RowIds \ DOMAIN bind :
          /\ acct[u] = "absent"
          /\ Done(w)
          /\ IF LiveRows(r.ext) = {}
             THEN /\ acct' = [acct EXCEPT ![u] = "live"]
                  /\ bind' = [j \in DOMAIN bind \cup {i} |-> IF j = i THEN NewRow(r.ext, u) ELSE bind[j]]
             ELSE UNCHANGED <<acct, bind>>
    /\ UNCHANGED <<raced, moved>>

(***************************************************************************)
(* Binding.                                                                *)
(***************************************************************************)

\* BindExternalIdentity: the caller's account is read, then the row.
BindExternalIdentity(w, x, u) == Live(u) /\ Start(w, [op |-> "Bind", ext |-> x, u |-> u])

\* ErrExternalIDTaken: a live row whose owner is another live account.
Taken(row, u) == row.owner # u /\ row.gone = 0 /\ Live(row.owner)

\* Whose row it is decides: idempotent, refused, reclaimed or taken over, or new.
BindDecide(w) ==
    LET r == req[w]
        i == GetAnyIdentityByExternal(r.ext)
    IN /\ r.op = "Bind"
       /\ IF i = None
          THEN \E j \in RowIds \ DOMAIN bind :
                  Goto(w, [op |-> "Create", row |-> j, ext |-> r.ext, u |-> r.u])
          ELSE IF Taken(bind[i], r.u) \/ (bind[i].owner = r.u /\ bind[i].gone = 0)
          THEN Done(w)
          ELSE Goto(w, [op |-> "RestoreTo", row |-> i, seen |-> bind[i], u |-> r.u])
       /\ UNCHANGED <<acct, bind, raced, moved>>

CreateIdentity(w) ==
    LET r == req[w] IN
    r.op = "Create" /\ r.row \notin DOMAIN bind /\ Write(w, r.row, NewRow(r.ext, r.u), None)

\* RestoreIdentityTo (reclaimIdentity, takeOverIdentity): UPDATE ... WHERE id = ?,
\* whatever has become of the row.
RestoreIdentityTo(w) ==
    LET r == req[w] IN
    r.op = "RestoreTo" /\ Write(w, r.row, NewRow(r.seen.ext, r.u), r.seen)

(***************************************************************************)
(* Administration.                                                         *)
(***************************************************************************)

\* UnbindIdentity: one UPDATE, for a row that is live and the named user's.
UnbindIdentity(i) ==
    /\ i \in DOMAIN bind /\ bind[i].gone = 0 /\ requests < MaxRequests
    /\ requests' = requests + 1
    /\ bind' = [bind EXCEPT ![i].gone = Clock]
    /\ UNCHANGED <<acct, req, raced, moved>>

\* RestoreIdentity: the owner is loaded, the external account must be free.
RestoreIdentity(w, i) ==
    /\ i \in DOMAIN bind /\ bind[i].gone # 0
    /\ Live(bind[i].owner) /\ LiveRows(bind[i].ext) = {}
    /\ Start(w, [op |-> "Restore", row |-> i, seen |-> bind[i]])

\* Its UPDATE names the user and the row, not the row's state.
WriteRestored(w) ==
    LET r == req[w] IN
    /\ r.op = "Restore"
    /\ IF bind[r.row].owner = r.seen.owner
       THEN Write(w, r.row, [bind[r.row] EXCEPT !.gone = 0], r.seen)
       ELSE Skip(w)

\* SoftDeleteIdentitiesByUser.
Swept(u) == [i \in DOMAIN bind |-> IF bind[i].owner = u /\ bind[i].gone = 0
                                   THEN [bind[i] EXCEPT !.gone = Clock] ELSE bind[i]]

\* Delete: the bindings are swept first, the account follows.
Delete(w, u) ==
    /\ Live(u) /\ req[w] = Free /\ requests < MaxRequests
    /\ requests' = requests + 1
    /\ bind' = Swept(u)
    /\ req' = [req EXCEPT ![w] = [op |-> "SoftDelete", u |-> u]]
    /\ UNCHANGED <<acct, raced, moved>>

SoftDelete(w) ==
    /\ req[w].op = "SoftDelete"
    /\ acct' = [acct EXCEPT ![req[w].u] = "deleted"]
    /\ Done(w)
    /\ UNCHANGED <<bind, raced, moved>>

\* RestoreUser leaves the bindings unbound.
RestoreUser(u) ==
    /\ acct[u] = "deleted" /\ requests < MaxRequests
    /\ requests' = requests + 1
    /\ acct' = [acct EXCEPT ![u] = "live"]
    /\ UNCHANGED <<bind, req, raced, moved>>

Begin(w) ==
    \/ \E x \in Externals, auto \in BOOLEAN : ResolveExternalLogin(w, x, auto)
    \/ \E x \in Externals, u \in Users : BindExternalIdentity(w, x, u)
    \/ \E i \in RowIds : RestoreIdentity(w, i)
    \/ \E u \in Users : Delete(w, u)

Complete(w) ==
    \/ UpdateIdentity(w) \/ findLinkCandidate(w) \/ CreateWithIdentity(w) \/ BindDecide(w)
    \/ CreateIdentity(w) \/ RestoreIdentityTo(w) \/ WriteRestored(w) \/ SoftDelete(w)

Next ==
    \/ \E w \in Workers : Begin(w) \/ Complete(w)
    \/ \E i \in RowIds : UnbindIdentity(i)
    \/ \E u \in Users : RestoreUser(u)

Spec == Init /\ [][Next]_vars

(***************************************************************************)
(* Properties.                                                             *)
(***************************************************************************)

TypeOK ==
    /\ \A i \in DOMAIN bind : bind[i] \in [ext : Externals, owner : Users, gone : Nat]
    /\ \A u \in Users : acct[u] \in {"absent", "live", "deleted"}

\* Delete's sweep, and the owner checks of binding and restoring, "eliminate" the
\* live binding of a deleted account: there is none, unless a request wrote from
\* a read that an unbind, a delete or another bind had overtaken.
NoOrphan ==
    raced \/ \A i \in DOMAIN bind : bind[i].gone = 0 => acct[bind[i].owner] = "live"

\* BindExternalIdentity refuses "someone else's row, live, owner still live",
\* because taking it would move that user's login: no live binding of a live
\* account passes to another, unless two requests overtook each other.
NoTakeover == raced \/ ~ moved
=============================================================================
