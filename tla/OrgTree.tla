------------------------------ MODULE OrgTree -------------------------------
(***************************************************************************)
(* The organization tree (internal/domain/org).  A request runs on one of  *)
(* several workers and talks to the database in separate statements: what  *)
(* it reads first is what it writes from later.  A path is the sequence of *)
(* codes that the ltree column spells with dots.                           *)
(***************************************************************************)
EXTENDS Naturals, Sequences, FiniteSets

CONSTANTS
    OrgIds, RootOrgID,
    CodeOf,         \* the code an organization is created with
    ValidCodes,     \* codes that orgCodeRe accepts
    Users,
    Workers,
    None,
    MaxRequests     \* bound: requests started

VARIABLES
    orgs,           \* mxid_organization: a function on the ids that have a row
    userOrg,        \* mxid_user_org: pairs <<user, org>>
    live,           \* users whose row is not soft-deleted
    req,            \* per worker: the request it is in the middle of
    spent,          \* ids that have been given out, and the number of requests
    event,          \* what the latest step published
    torn            \* TRUE once a write was based on a row that had changed

orgVars == <<orgs, userOrg, live, req, spent, event, torn>>

Idle == [op |-> "idle"]

Row(o, parent, path) == [code |-> CodeOf[o], parent |-> parent, path |-> path]

Init ==
    /\ orgs = [o \in {RootOrgID} |-> Row(o, None, <<CodeOf[o]>>)]
    /\ userOrg = {}
    /\ live = Users
    /\ req = [w \in Workers |-> Idle]
    /\ spent = [ids |-> {RootOrgID}, requests |-> 0]
    /\ event = "none"
    /\ torn = FALSE

Exists(o) == o \in DOMAIN orgs

Start(w, r) ==
    /\ req[w] = Idle /\ spent.requests < MaxRequests
    /\ req' = [req EXCEPT ![w] = r]
    /\ spent' = [spent EXCEPT !.requests = @ + 1]
    /\ event' = "none"

Finish(w, published) ==
    /\ req' = [req EXCEPT ![w] = Idle]
    /\ event' = published

\* Answered with an error: nothing is written and nothing published.
Refuse(w) == Finish(w, "none") /\ UNCHANGED <<orgs, userOrg, live, spent, torn>>

\* fetchParentOrg: a request names no parent or one that exists.
fetchParentOrg(p) == p = None \/ Exists(p)

ChildPath(p, code) == IF p = None THEN <<code>> ELSE Append(orgs[p].path, code)

\* The row and its parent as the request saw them; compared at its write.
Seen(o, p) ==
    [org |-> IF Exists(o) THEN orgs[o] ELSE None,
     parent |-> IF p # None /\ Exists(p) THEN orgs[p] ELSE None]

Torn(o, p, seen) == torn' = (torn \/ Seen(o, p) # seen)

\* parent_id REFERENCES mxid_organization, UNIQUE (tenant_id, code).
ForeignKey(p) == p = None \/ Exists(p)

UniqueCode(o) == \A q \in DOMAIN orgs \ {o} : orgs[q].code # CodeOf[o]

\* Create: the code is checked, the parent's path read and the new path built.
Create(w, o, p) ==
    /\ o \notin spent.ids
    /\ CodeOf[o] \in ValidCodes
    /\ fetchParentOrg(p)
    /\ req[w] = Idle /\ spent.requests < MaxRequests
    /\ req' = [req EXCEPT ![w] =
          [op |-> "Create", id |-> o, parent |-> p,
           path |-> ChildPath(p, CodeOf[o]), seen |-> Seen(o, p)]]
    /\ spent' = [ids |-> spent.ids \cup {o}, requests |-> spent.requests + 1]
    /\ event' = "none"
    /\ UNCHANGED <<orgs, userOrg, live, torn>>

\* repository.Create: the constraints decide, not an earlier SELECT.
InsertOrg(w) ==
    LET r == req[w] IN
    /\ r.op = "Create"
    /\ IF ForeignKey(r.parent) /\ UniqueCode(r.id)
       THEN /\ orgs' = [o \in DOMAIN orgs \cup {r.id} |->
                          IF o = r.id THEN Row(o, r.parent, r.path) ELSE orgs[o]]
            /\ Torn(r.id, r.parent, r.seen)
            /\ Finish(w, "OrgCreated")
            /\ UNCHANGED <<userOrg, live, spent>>
       ELSE Refuse(w)

\* Update: name, order and status are set on the row as it was read.
Update(w, o) ==
    /\ Exists(o)
    /\ Start(w, [op |-> "Update", id |-> o, row |-> orgs[o],
                 seen |-> Seen(o, orgs[o].parent)])
    /\ UNCHANGED <<orgs, userOrg, live, torn>>

\* gorm's Save: every column of the row; a row that is gone is inserted again.
Save(o, row) ==
    orgs' = [q \in DOMAIN orgs \cup {o} |-> IF q = o THEN row ELSE orgs[q]]

SaveOrg(w) ==
    LET r == req[w] IN
    /\ r.op = "Update"
    /\ IF ForeignKey(r.row.parent) /\ UniqueCode(r.id)
       THEN /\ Save(r.id, r.row)
            /\ Torn(r.id, r.row.parent, r.seen)
            /\ Finish(w, "OrgUpdated")
            /\ UNCHANGED <<userOrg, live, spent>>
       ELSE Refuse(w)

GetChildren(o) == {q \in DOMAIN orgs : orgs[q].parent = o}

\* Delete: the seeded root and an organization with children are refused.
Delete(w, o) ==
    /\ o # RootOrgID
    /\ GetChildren(o) = {}
    /\ Start(w, [op |-> "Delete", id |-> o])
    /\ UNCHANGED <<orgs, userOrg, live, torn>>

\* repository.Delete: memberships cascade; a child that appeared since stops the
\* statement at its foreign key.  A row that is gone is no error.
DeleteOrg(w) ==
    LET r == req[w] IN
    /\ r.op = "Delete"
    /\ IF GetChildren(r.id) = {}
       THEN /\ orgs' = [o \in DOMAIN orgs \ {r.id} |-> orgs[o]]
            /\ userOrg' = {m \in userOrg : m[2] # r.id}
            /\ Finish(w, "OrgDeleted")
            /\ UNCHANGED <<live, spent, torn>>
       ELSE Refuse(w)

\* The path is q's, or a prefix of it that ends at a dot.
IsPrefixPath(p, q) == Len(p) <= Len(q) /\ SubSeq(q, 1, Len(p)) = p

\* The cycle guard of Move.
WouldCycle(o, p) == p # None /\ (p = o \/ IsPrefixPath(orgs[o].path, orgs[p].path))

\* Move: the organization and the new parent are read, the guard is evaluated.
Move(w, o, p) ==
    /\ Exists(o) /\ fetchParentOrg(p)
    /\ ~ WouldCycle(o, p)
    /\ Start(w, [op |-> "Move", id |-> o, parent |-> p,
                 path |-> ChildPath(p, orgs[o].code), seen |-> Seen(o, p)])
    /\ UNCHANGED <<orgs, userOrg, live, torn>>

\* Mutant: the descendants keep their paths.
NotRebased(old, new, q) == orgs[q].path

\* The descendants' paths with the old prefix replaced.  Codes are taken to hold
\* no underscore, which the statement's LIKE would read as a wildcard.
Rebased(old, new, q) ==
    IF Len(orgs[q].path) > Len(old) /\ IsPrefixPath(old, orgs[q].path)
    THEN new \o SubSeq(orgs[q].path, Len(old) + 1, Len(orgs[q].path))
    ELSE orgs[q].path

\* repository.Move: one transaction that reads the old path again.
MoveOrg(w) ==
    LET r == req[w] IN
    /\ r.op = "Move"
    /\ IF Exists(r.id) /\ ForeignKey(r.parent)
       THEN /\ orgs' = [q \in DOMAIN orgs |->
                 IF q = r.id THEN [orgs[q] EXCEPT !.parent = r.parent, !.path = r.path]
                 ELSE [orgs[q] EXCEPT !.path = Rebased(orgs[r.id].path, r.path, q)]]
            /\ Torn(r.id, r.parent, r.seen)
            /\ Finish(w, "OrgMoved")
            /\ UNCHANGED <<userOrg, live, spent>>
       ELSE Refuse(w)

\* requireUserInTenant: the injected validator sees live users only.
requireUserInTenant(u) == u \in live

AddMember(w, u, o) ==
    /\ Exists(o) /\ requireUserInTenant(u)
    /\ Start(w, [op |-> "AddMember", id |-> o, user |-> u])
    /\ UNCHANGED <<orgs, userOrg, live, torn>>

\* The membership's insert: its organization must exist and the pair be new.
InsertMember(w) ==
    LET r == req[w] IN
    /\ r.op = "AddMember"
    /\ IF Exists(r.id) /\ <<r.user, r.id>> \notin userOrg
       THEN /\ userOrg' = userOrg \cup {<<r.user, r.id>>}
            /\ Finish(w, "OrgMemberAdded")
            /\ UNCHANGED <<orgs, live, spent, torn>>
       ELSE Refuse(w)

\* RemoveMember: one DELETE, and an event even when nothing was removed.
RemoveMember(w, u, o) ==
    /\ req[w] = Idle /\ spent.requests < MaxRequests
    /\ Exists(o)
    /\ userOrg' = userOrg \ {<<u, o>>}
    /\ spent' = [spent EXCEPT !.requests = @ + 1]
    /\ event' = "OrgMemberRemoved"
    /\ UNCHANGED <<orgs, live, req, torn>>

Begin(w) ==
    \/ \E o \in OrgIds, p \in OrgIds \cup {None} : Create(w, o, p) \/ Move(w, o, p)
    \/ \E o \in OrgIds : Update(w, o) \/ Delete(w, o)
    \/ \E u \in Users, o \in OrgIds : AddMember(w, u, o) \/ RemoveMember(w, u, o)

Complete(w) ==
    InsertOrg(w) \/ SaveOrg(w) \/ DeleteOrg(w) \/ MoveOrg(w) \/ InsertMember(w)

Next == \E w \in Workers : Begin(w) \/ Complete(w)

Spec == Init /\ [][Next]_orgVars

(***************************************************************************)
(* What the rest of the system reads.                                      *)
(***************************************************************************)

\* IsAncestorOrSelf: desc.path <@ anc.path.
IsAncestorOrSelf(a, d) == Exists(a) /\ Exists(d) /\ IsPrefixPath(orgs[a].path, orgs[d].path)

\* AncestorIDsForUser: every organization above one the user is planted in.
AncestorIDsForUser(u) == {a \in DOMAIN orgs : \E m \in userOrg :
                              m[1] = u /\ IsAncestorOrSelf(a, m[2])}

\* GetMembers: the live members of the subtree.
GetMembers(o) == {u \in live : o \in AncestorIDsForUser(u)}

\* buildTree: an organization hangs below its parent when the parent is listed,
\* and is a root of the answer otherwise.
Roots == {o \in DOMAIN orgs : orgs[o].parent \notin DOMAIN orgs}

(***************************************************************************)
(* Properties.                                                             *)
(***************************************************************************)

OrgTypeOK ==
    /\ DOMAIN orgs \subseteq spent.ids \cap OrgIds
    /\ userOrg \subseteq Users \X DOMAIN orgs
    /\ live \subseteq Users
    /\ torn \in BOOLEAN

\* Until a write has been based on a row that changed meanwhile, every path is
\* its parent's path and the own code (so that <@ answers what following
\* parent_id would), whatever moves, deletes and inserts have interleaved.
PathsAgree ==
    ~ torn => \A o \in DOMAIN orgs :
        orgs[o].path = ChildPath(orgs[o].parent, orgs[o].code)

\* What parent_id alone says lies at or below an organization.
Subtree(o) == {q \in DOMAIN orgs : \A S \in SUBSET DOMAIN orgs :
    (o \in S /\ \A r \in S : GetChildren(r) \subseteq S) => q \in S}

\* GetMembers "lists the users of an org AND of every descendant org", matched on
\* paths, and buildTree hangs every organization below a root: until then a head
\* sees exactly the live members that following parent_id finds, and no
\* organization is missing from the tree (a cycle would have no root).
SubtreesAgree ==
    ~ torn => /\ \A o \in DOMAIN orgs : GetMembers(o) =
                   {u \in live : \E q \in Subtree(o) : <<u, q>> \in userOrg}
              /\ DOMAIN orgs = UNION {Subtree(r) : r \in Roots}
=============================================================================
