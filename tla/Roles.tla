------------------------------- MODULE Roles -------------------------------
(***************************************************************************)
(* Administrative roles: their permission catalog and members as super     *)
(* administrators and delegated administrators edit them, and the Casbin   *)
(* enforcer every pod keeps of the catalog.  A delegated administrator's   *)
(* request is checked against what they hold and then written; a change    *)
(* publishes an event on the pod that made it, which reloads the enforcer  *)
(* there and broadcasts to the others, and a ticker reloads it anyway.     *)
(***************************************************************************)
EXTENDS Naturals, FiniteSets

CONSTANTS
    RoleIds, SystemRoles,   \* roles; those that cannot be deleted
    Perms, Holders, Scopes, \* permission codes; users; org and group scopes
    Pods, Editors,
    MaxRequests, MaxLoadFaults  \* bounds

Global == "global"

VARIABLES
    roles,      \* roles that exist
    catalog,    \* role -> permissions, of those that exist
    members,    \* [role, user, scope]
    edits, requests, loadFaults,
    enforcer,   \* pod -> its policies: <<role, permission>>
    pending,    \* pod -> events whose handler has not loaded yet
    messages,   \* pod -> broadcasts it has yet to receive
    syncs,      \* loads that have yet to replace: [pod, kind, policies]
    authorised, \* <<permission, scope>> that super administrators gave to somebody
    crossed     \* a role grew between the check of an assignment and its insert

roleVars == <<roles, catalog, members, edits, requests, loadFaults, enforcer, pending, messages, syncs,
              authorised, crossed>>
engines == <<enforcer, pending, messages, syncs, loadFaults>>

NoEdit == [op |-> "idle"]
Everywhere == Scopes \cup {Global}

Policies == {x \in roles \X Perms : x[2] \in catalog[x[1]]}

InitRoles ==
    /\ roles = RoleIds
    /\ catalog \in [RoleIds -> SUBSET Perms]
    /\ \E u \in Holders, r \in RoleIds, s \in Everywhere :
          members = {[role |-> r, user |-> u, scope |-> s]}
    /\ edits = [w \in Editors |-> NoEdit] /\ requests = 0 /\ loadFaults = 0
    /\ enforcer = [pod \in Pods |-> Policies]
    /\ pending = [pod \in Pods |-> 0] /\ messages = [pod \in Pods |-> 0] /\ syncs = {}
    /\ authorised = UNION {{<<p, b.scope>> : p \in catalog[b.role]} : b \in members}
    /\ crossed = FALSE

Start(w, r) ==
    /\ edits[w] = NoEdit /\ requests < MaxRequests
    /\ requests' = requests + 1
    /\ edits' = [edits EXCEPT ![w] = r]

Goto(w, r) == edits' = [edits EXCEPT ![w] = r] /\ UNCHANGED requests
Request == requests < MaxRequests /\ requests' = requests + 1 /\ UNCHANGED edits

\* What a user's bindings add up to: PermissionsForUser, whatever the scope.
PermissionsForUser(u) == UNION {catalog[b.role] : b \in {x \in members : x.user = u}}

\* A binding covers a target when it is global or names it; with no target, whichever
\* it is.
scopeCovers(b, target) == b.scope = Global \/ target = Global \/ b.scope = target

\* Check: a binding that grants the permission and covers the target.
Check(u, p, target) ==
    \E b \in members : b.user = u /\ p \in catalog[b.role] /\ scopeCovers(b, target)

\* The event of a change, on the pod that served the request.
Publish == \E pod \in Pods : pending' = [pending EXCEPT ![pod] = @ + 1]

\* What everybody holds, after a super administrator's step.
Holdings(cat, binds) == UNION {{<<p, b.scope>> : p \in cat[b.role]} : b \in binds}

-----------------------------------------------------------------------------
(* A super administrator holds "*" and may do anything. *)

CreateRole(r) ==
    /\ r \notin roles /\ Request
    /\ roles' = roles \cup {r} /\ catalog' = [catalog EXCEPT ![r] = {}]
    /\ Publish
    /\ UNCHANGED <<members, loadFaults, enforcer, messages, syncs, authorised, crossed>>

\* DeleteRole is a hard delete: permissions and members cascade.
DeleteRole(r) ==
    /\ r \in roles \ SystemRoles /\ Request
    /\ roles' = roles \ {r} /\ catalog' = [catalog EXCEPT ![r] = {}]
    /\ members' = {b \in members : b.role # r}
    /\ Publish
    /\ UNCHANGED <<loadFaults, enforcer, messages, syncs, authorised, crossed>>

\* SetRolePermissions deletes and inserts in one transaction.
ReplacePermissions(r, S) ==
    /\ catalog' = [catalog EXCEPT ![r] = S]
    /\ Publish

SetRolePermissions(r, S) ==
    /\ r \in roles /\ Request
    /\ ReplacePermissions(r, S)
    /\ authorised' = authorised \cup Holdings(catalog', members)
    /\ UNCHANGED <<roles, members, loadFaults, enforcer, messages, syncs, crossed>>

AddRoleMember(r, u, s) ==
    /\ r \in roles /\ Request
    /\ members' = members \cup {[role |-> r, user |-> u, scope |-> s]}
    /\ authorised' = authorised \cup Holdings(catalog, members')
    /\ UNCHANGED <<roles, catalog, engines, crossed>>

RemoveRoleMember(b) ==
    /\ Request
    /\ members' = members \ {b}
    /\ UNCHANGED <<roles, catalog, engines, authorised, crossed>>

-----------------------------------------------------------------------------
(* A delegated administrator. *)

\* Mutant: holding one of the permissions is enough.
HoldsOne(u, S) == S \cap PermissionsForUser(u) # {}

HoldsAll(u, S) == S \subseteq PermissionsForUser(u)

\* checkSetPermissionsAllowed: only codes the caller holds ...
checkSetPermissionsAllowed(w, u, r, S) ==
    /\ r \in roles /\ HoldsAll(u, S)
    /\ Start(w, [op |-> "set", role |-> r, perms |-> S])
    /\ UNCHANGED <<roles, catalog, members, engines, authorised, crossed>>

SetPermissions(w) ==
    LET r == edits[w]
    IN  /\ r.op = "set" /\ r.role \in roles
        /\ ReplacePermissions(r.role, r.perms)
        /\ Goto(w, NoEdit)
        /\ UNCHANGED <<roles, members, loadFaults, enforcer, messages, syncs, authorised, crossed>>

\* checkAssignAllowed: the role's permissions as they are now, each of them held and
\* passing Check in the scope of the grant ...
checkAssignAllowed(w, u, r, v, s) ==
    /\ r \in roles /\ HoldsAll(u, catalog[r])
    /\ \A p \in catalog[r] : Check(u, p, s)
    /\ Start(w, [op |-> "assign", perms |-> catalog[r], row |-> [role |-> r, user |-> v, scope |-> s]])
    /\ UNCHANGED <<roles, catalog, members, engines, authorised, crossed>>

\* ... and the member is inserted.
Assign(w) ==
    LET r == edits[w]
    IN  /\ r.op = "assign" /\ r.row.role \in roles
        /\ members' = members \cup {r.row}
        /\ crossed' = (crossed \/ ~ (catalog[r.row.role] \subseteq r.perms))
        /\ Goto(w, NoEdit)
        /\ UNCHANGED <<roles, catalog, engines, authorised>>

\* The role was deleted in between: not found, or the foreign key refuses.
Refuse(w) ==
    /\ \/ edits[w].op = "set" /\ edits[w].role \notin roles
       \/ edits[w].op = "assign" /\ edits[w].row.role \notin roles
    /\ Goto(w, NoEdit)
    /\ UNCHANGED <<roles, catalog, members, engines, authorised, crossed>>

-----------------------------------------------------------------------------
(* The enforcers. *)

LoadFault == loadFaults < MaxLoadFaults /\ loadFaults' = loadFaults + 1

\* LoadPolicies, for an event's handler, a broadcast or a tick; an error leaves the
\* enforcer as it is.
LoadPolicies(pod, kind) ==
    \/ syncs' = syncs \cup {[pod |-> pod, kind |-> kind, policies |-> Policies]} /\ UNCHANGED loadFaults
    \/ LoadFault /\ UNCHANGED syncs

Loading(pod, kind) == \E s \in syncs : s.pod = pod /\ s.kind = kind

\* resync, the bus handler: each event has a goroutine of its own; the broadcast
\* goes out whether or not the load succeeded, and may be lost.
resync(pod) ==
    /\ pending[pod] > 0
    /\ pending' = [pending EXCEPT ![pod] = @ - 1]
    /\ LoadPolicies(pod, "event")
    /\ \/ messages' = [q \in Pods |-> messages[q] + 1]
       \/ UNCHANGED messages /\ MaxLoadFaults > 0
    /\ UNCHANGED <<roles, catalog, members, edits, requests, enforcer, authorised, crossed>>

\* startCasbinResyncSubscriber handles one message at a time.
casbinResyncSubscriber(pod) ==
    /\ messages[pod] > 0 /\ ~ Loading(pod, "peer")
    /\ messages' = [messages EXCEPT ![pod] = @ - 1]
    /\ LoadPolicies(pod, "peer")
    /\ UNCHANGED <<roles, catalog, members, edits, requests, enforcer, pending, authorised, crossed>>

runCasbinReconcile(pod) ==
    /\ ~ Loading(pod, "tick")
    /\ LoadPolicies(pod, "tick")
    /\ UNCHANGED <<roles, catalog, members, edits, requests, enforcer, pending, messages, authorised, crossed>>

\* Mutant: the loaded grants are added to the ones in force.
AddPolicies(old, new) == old \cup new

\* A new enforcer is built from the load.
Rebuilt(old, new) == new

\* ReplacePolicies swaps it in, in whatever order the loads come to it.
ReplacePolicies(s) ==
    /\ s \in syncs
    /\ syncs' = syncs \ {s}
    /\ enforcer' = [enforcer EXCEPT ![s.pod] = Rebuilt(@, s.policies)]
    /\ UNCHANGED <<roles, catalog, members, edits, requests, loadFaults, pending, messages, authorised, crossed>>

RoleHasPermission(pod, r, p) == <<r, p>> \in enforcer[pod]

-----------------------------------------------------------------------------

CatalogStep ==
    \E r \in RoleIds : CreateRole(r) \/ DeleteRole(r) \/ \E S \in SUBSET Perms : SetRolePermissions(r, S)

DelegationNext ==
    \/ CatalogStep
    \/ \E b \in members : RemoveRoleMember(b)
    \/ \E r \in RoleIds, u \in Holders, s \in Everywhere : AddRoleMember(r, u, s)
    \/ \E w \in Editors :
          \/ SetPermissions(w) \/ Assign(w) \/ Refuse(w)
          \/ \E u \in Holders, r \in RoleIds :
                \/ \E S \in SUBSET Perms : checkSetPermissionsAllowed(w, u, r, S)
                \/ \E v \in Holders, s \in Everywhere : checkAssignAllowed(w, u, r, v, s)

EngineStep(pod) ==
    \/ resync(pod) \/ casbinResyncSubscriber(pod) \/ runCasbinReconcile(pod)
    \/ \E s \in {x \in syncs : x.pod = pod} : ReplacePolicies(s)

EngineNext == CatalogStep \/ \E pod \in Pods : EngineStep(pod)

NextRoles == DelegationNext \/ EngineNext

\* The ticker goes on ticking, and what it loaded is put in force.
FairnessRoles ==
    \A pod \in Pods :
        /\ WF_roleVars(runCasbinReconcile(pod))
        /\ WF_roleVars(\E s \in syncs : s.pod = pod /\ s.kind = "tick" /\ ReplacePolicies(s))

SpecRoles == InitRoles /\ [][NextRoles]_roleVars /\ FairnessRoles

-----------------------------------------------------------------------------

(***************************************************************************)
(* "The caller may only grant codes they hold": no chain of delegated      *)
(* edits, of roles and of members, by any number of administrators, puts a *)
(* permission into anybody's hands that a super administrator had not      *)
(* given to somebody, unless a role grew between the check of an           *)
(* assignment and its insert.                                              *)
(***************************************************************************)
DelegationClosed ==
    crossed \/ \A h \in Holdings(catalog, members) : \E s \in Everywhere : <<h[1], s>> \in authorised

(***************************************************************************)
(* Every pod's enforcer comes to mirror the database and stays so once     *)
(* edits stop, although loads of one pod may be swapped in out of order,   *)
(* broadcasts lost and loads fail (resync, runCasbinReconcile).            *)
(***************************************************************************)
EnforcerConverges ==
    <>[](\A pod \in Pods, r \in RoleIds, p \in Perms :
            RoleHasPermission(pod, r, p) <=> <<r, p>> \in Policies)
=============================================================================
