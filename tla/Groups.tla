------------------------------- MODULE Groups -------------------------------
(***************************************************************************)
(* User groups (internal/domain/group) over the organization tree: static  *)
(* membership, membership rules, and the synchronisation that derives a    *)
(* dynamic group's members.  A synchronisation reads the matching users,   *)
(* reads the current members and writes the difference, each in its own    *)
(* statement, while organizations and users go on changing.  It is started *)
(* by a request, by a timer that domain events arm, and by a periodic      *)
(* sweep.                                                                  *)
(***************************************************************************)
EXTENDS Naturals, Sequences, FiniteSets

CONSTANTS
    OrgIds, RootOrgID, CodeOf, ValidCodes, Users, Workers, None, MaxRequests,
    Background,     \* workers that run timers and the sweep
    GroupIds,
    Exprs,          \* rule bodies that requests bring: sets of conditions
    TextMatches,    \* pairs <<user, condition>>: comparisons of text columns
    MaxCrashes      \* bound: process restarts

VARIABLES
    orgs, userOrg, live, req, spent, event, torn,
    status,         \* mxid_user.status: "active" or not
    purge,          \* deleted users whose UserDeleted event is in flight
    grp,            \* mxid_user_group: id -> type
    rule,           \* mxid_user_group_rule: group -> expression
    members,        \* mxid_user_group_member: pairs <<group, user>>
    timer,          \* a debounced resync is pending
    crashes

Org == INSTANCE OrgTree

groupVars == <<grp, rule, members, timer>>
userVars == <<status, purge>>
vars == <<orgs, userOrg, live, req, spent, event, torn, status, purge,
          grp, rule, members, timer, crashes>>

Init ==
    /\ Org!Init
    /\ status = [u \in Users |-> "active"] /\ purge = {}
    /\ grp = [g \in {} |-> "static"] /\ rule = [g \in {} |-> {}]
    /\ members = {} /\ timer = FALSE /\ crashes = 0

Idle == Org!Idle
Exists(g) == g \in DOMAIN grp

With(f, k, v) == [x \in DOMAIN f \cup {k} |-> IF x = k THEN v ELSE f[x]]
Without(f, k) == [x \in DOMAIN f \ {k} |-> f[x]]

orgPart == <<orgs, userOrg, live, userVars, crashes>>

(***************************************************************************)
(* Rules.                                                                  *)
(***************************************************************************)

\* ruleFields: the comparisons each column allows.
ruleFields(field) ==
    CASE field \in {"username", "email"} -> {"eq", "ne", "contains", "startswith", "endswith"}
      [] field = "display_name" -> {"eq", "contains", "startswith", "endswith"}
      [] field = "status" -> {"eq", "ne", "in"}
      [] field = "org_id" -> {"eq", "in", "in_subtree"}
      [] field \in {"detail.department", "detail.job_title"} -> {"eq", "ne", "contains"}
      [] field = "detail.employee_no" -> {"eq", "ne", "startswith"}
      [] OTHER -> {}

\* validateValue, validateScalar: an empty text would match everyone.
validateValue(c) == c.val # ""

ValidateRule(expr) ==
    expr # {} /\ \A c \in expr : c.cmp \in ruleFields(c.field) /\ validateValue(c)

\* compileCondition, for the user u joined with one of their memberships, o.
compileCondition(c, u, o) ==
    CASE c.field = "org_id" /\ c.cmp = "eq" -> o = c.val
      [] c.field = "org_id" /\ c.cmp = "in" -> o \in c.val
      [] c.field = "org_id" /\ c.cmp = "in_subtree" -> o # None /\ Org!IsAncestorOrSelf(c.val, o)
      [] c.field = "status" /\ c.cmp = "eq" -> status[u] = c.val
      [] c.field = "status" /\ c.cmp = "ne" -> status[u] # c.val
      [] c.field = "status" /\ c.cmp = "in" -> status[u] \in c.val
      [] OTHER -> <<u, c>> \in TextMatches

\* LEFT JOIN mxid_user_org: one row per membership, one without if there is none.
Joined(u) ==
    LET os == {o \in OrgIds : <<u, o>> \in userOrg} IN IF os = {} THEN {None} ELSE os

\* Compile: the conditions hold together, for one row of the join.
Compile(expr, u) == \E o \in Joined(u) : \A c \in expr : compileCondition(c, u, o)

\* EvaluateRule, buildEvaluateSQL: live users only.
EvaluateRule(expr) == {u \in live : Compile(expr, u)}

AllMemberIDs(g) == {u \in Users : <<g, u>> \in members}

CountMembers(g) == Cardinality(AllMemberIDs(g) \cap live)

(***************************************************************************)
(* Groups and static membership.                                           *)
(***************************************************************************)

\* Create: the code is unique per group id here; one INSERT decides.
Create(w, g) ==
    /\ g \notin spent.ids
    /\ req[w] = Idle /\ spent.requests < MaxRequests
    /\ grp' = With(grp, g, "static")
    /\ spent' = [ids |-> spent.ids \cup {g}, requests |-> spent.requests + 1]
    /\ event' = "GroupCreated"
    /\ UNCHANGED <<orgPart, req, torn, rule, members, timer>>

\* requireGroup, then a write in a later statement.
Read(w, r) ==
    /\ Exists(r.id)
    /\ Org!Start(w, r)
    /\ UNCHANGED <<orgPart, torn, groupVars>>

Update(w, g) == Exists(g) /\ Read(w, [op |-> "SaveGroup", id |-> g, type |-> grp[g]])

Changed(g, type) == ~ Exists(g) \/ (Exists(g) /\ grp[g] # type)

\* repository.Update is gorm's Save: the type goes back as it was read, and a
\* group that is gone is inserted again.
SaveGroup(w) ==
    LET r == req[w] IN
    /\ r.op = "SaveGroup"
    /\ grp' = With(grp, r.id, r.type)
    /\ torn' = (torn \/ Changed(r.id, r.type))
    /\ Org!Finish(w, "GroupUpdated")
    /\ UNCHANGED <<orgPart, spent, rule, members, timer>>

\* Delete: refused while it counts members, unless forced.
Delete(w, g, force) ==
    /\ Exists(g) /\ (force \/ CountMembers(g) = 0)
    /\ Read(w, [op |-> "DropGroup", id |-> g])

\* repository.Delete: members and rule cascade.
DropGroup(w) ==
    LET r == req[w] IN
    /\ r.op = "DropGroup"
    /\ grp' = Without(grp, r.id) /\ rule' = Without(rule, r.id)
    /\ members' = {m \in members : m[1] # r.id}
    /\ Org!Finish(w, "GroupDeleted")
    /\ UNCHANGED <<orgPart, spent, torn, timer>>

Editable(g) == Exists(g) /\ grp[g] = "static"

requireUsersInTenant(us) == us \subseteq live

AddMembers(w, g, us) ==
    /\ Editable(g) /\ requireUsersInTenant(us)
    /\ Read(w, [op |-> "InsertMembers", id |-> g, users |-> us])

AddMember(w, g, u) == AddMembers(w, g, {u})

\* repository.AddMembers: ON CONFLICT skip; the group's foreign key may refuse.
PutMembers(g, us) ==
    members' = IF Exists(g) THEN members \cup ({g} \X us) ELSE members

InsertMembers(w) ==
    LET r == req[w] IN
    /\ r.op = "InsertMembers"
    /\ PutMembers(r.id, r.users)
    /\ Org!Finish(w, IF Exists(r.id) THEN "GroupMemberAdded" ELSE "none")
    /\ UNCHANGED <<orgPart, spent, torn, grp, rule, timer>>

RemoveMember(w, g, u) ==
    /\ Editable(g)
    /\ Read(w, [op |-> "CutMembers", id |-> g, users |-> {u}])

\* RemoveMembers does not look at the group's type.
RemoveMembers(w, g, us) == Read(w, [op |-> "CutMembers", id |-> g, users |-> us])

CutMembers(w) ==
    LET r == req[w] IN
    /\ r.op = "CutMembers"
    /\ members' = members \ ({r.id} \X r.users)
    /\ Org!Finish(w, "GroupMemberRemoved")
    /\ UNCHANGED <<orgPart, spent, torn, grp, rule, timer>>

(***************************************************************************)
(* Rules and their synchronisation.                                        *)
(***************************************************************************)

\* UpsertRule: handler and service validate; three statements and a first
\* synchronisation follow.
UpsertRule(w, g, expr) ==
    /\ ValidateRule(expr) /\ Exists(g)
    /\ Read(w, [op |-> "PutRule", id |-> g, expr |-> expr, type |-> grp[g]])

\* repository.UpsertRule; the rule's foreign key refuses a group that is gone.
PutRule(w) ==
    LET r == req[w] IN
    /\ r.op = "PutRule"
    /\ rule' = IF Exists(r.id) THEN With(rule, r.id, r.expr) ELSE rule
    /\ req' = [req EXCEPT ![w] = IF Exists(r.id)
                  THEN [op |-> "Flip", id |-> r.id, type |-> r.type, to |-> "dynamic"]
                  ELSE Idle]
    /\ event' = "none"
    /\ UNCHANGED <<orgPart, spent, torn, grp, members, timer>>

DeleteRule(w, g) ==
    /\ Exists(g)
    /\ Read(w, [op |-> "CutRule", id |-> g, type |-> grp[g]])

\* repository.DeleteRule; the members are kept.
CutRule(w) ==
    LET r == req[w] IN
    /\ r.op = "CutRule"
    /\ rule' = Without(rule, r.id)
    /\ req' = [req EXCEPT ![w] = [op |-> "Flip", id |-> r.id, type |-> r.type, to |-> "static"]]
    /\ event' = "none"
    /\ UNCHANGED <<orgPart, spent, torn, grp, members, timer>>

TypeAfterFlip(r) == r.to

\* The type is saved only when the row read first had another; an UpsertRule
\* goes on to its first synchronisation, a DeleteRule is over.
Flip(w) ==
    LET r == req[w] IN
    /\ r.op = "Flip"
    /\ grp' = IF r.type = r.to THEN grp ELSE With(grp, r.id, TypeAfterFlip(r))
    /\ torn' = (torn \/ Changed(r.id, r.type) \/ ((r.id \in DOMAIN rule) # (r.to = "dynamic")))
    /\ req' = [req EXCEPT ![w] = IF r.to = "dynamic" THEN [op |-> "Evaluate", id |-> r.id, todo |-> {}]
                                 ELSE Idle]
    /\ event' = "none"
    /\ UNCHANGED <<orgPart, spent, rule, members, timer>>

SyncRule(w, g) == Read(w, [op |-> "Evaluate", id |-> g, todo |-> {}])

\* The next group of a tenant-wide resync, or the end.
NextGroup(todo) ==
    IF todo = {} THEN Idle
    ELSE LET g == CHOOSE x \in todo : TRUE
         IN [op |-> "Evaluate", id |-> g, todo |-> todo \ {g}]

\* syncRule, first half: group and rule are read and the rule is evaluated.
syncEvaluate(w) ==
    LET r == req[w] IN
    /\ r.op = "Evaluate"
    /\ req' = [req EXCEPT ![w] =
          IF Exists(r.id) /\ r.id \in DOMAIN rule
          THEN [op |-> "Diff", id |-> r.id, todo |-> r.todo, matched |-> EvaluateRule(rule[r.id])]
          ELSE NextGroup(r.todo)]
    /\ event' = "none"
    /\ UNCHANGED <<orgPart, spent, torn, groupVars>>

\* Mutant: members who no longer match stay.
diffAddOnly(matched, current) == [add |-> matched \ current, remove |-> {}]

diffMembers(matched, current) == [add |-> matched \ current, remove |-> current \ matched]

\* syncRule: the current members are read and the difference taken.
syncDiff(w) ==
    LET r == req[w] IN
    /\ r.op = "Diff"
    /\ req' = [req EXCEPT ![w] =
          [op |-> "Add", id |-> r.id, todo |-> r.todo,
           diff |-> diffMembers(r.matched, AllMemberIDs(r.id))]]
    /\ event' = "none"
    /\ UNCHANGED <<orgPart, spent, torn, groupVars>>

syncAdd(w) ==
    LET r == req[w] IN
    /\ r.op = "Add"
    /\ PutMembers(r.id, r.diff.add)
    /\ req' = [req EXCEPT ![w] =
          IF r.diff.add = {} \/ Exists(r.id)
          THEN [op |-> "Remove", id |-> r.id, todo |-> r.todo, users |-> r.diff.remove]
          ELSE NextGroup(r.todo)]
    /\ event' = "none"
    /\ UNCHANGED <<orgPart, spent, torn, grp, rule, timer>>

\* The removals, and MarkRuleSync; SyncRule then publishes.
syncRemove(w) ==
    LET r == req[w] IN
    /\ r.op = "Remove"
    /\ members' = members \ ({r.id} \X r.users)
    /\ req' = [req EXCEPT ![w] = NextGroup(r.todo)]
    /\ event' = "GroupRuleSynced"
    /\ UNCHANGED <<orgPart, spent, torn, grp, rule, timer>>

syncRule(w) == syncEvaluate(w) \/ syncDiff(w) \/ syncAdd(w) \/ syncRemove(w)

ListDynamicGroupIDs == {g \in DOMAIN grp : grp[g] = "dynamic"}

\* ResyncTenantDynamicGroups: the groups are listed, then synchronised in turn.
ResyncTenantDynamicGroups(w) ==
    /\ req[w] = Idle
    /\ req' = [req EXCEPT ![w] = NextGroup(ListDynamicGroupIDs)]
    /\ event' = "none"

\* The debounce timer fires and removes its own entry before it runs.
ResyncTimer(w) ==
    /\ timer /\ timer' = FALSE
    /\ ResyncTenantDynamicGroups(w)
    /\ UNCHANGED <<orgPart, spent, torn, grp, rule, members>>

\* runDynamicGroupReconcile, every thirty minutes.
runDynamicGroupReconcile(w) ==
    /\ ListDynamicGroupIDs # {}
    /\ ResyncTenantDynamicGroups(w)
    /\ UNCHANGED <<orgPart, spent, torn, groupVars>>

(***************************************************************************)
(* Events and users.                                                       *)
(***************************************************************************)

\* SubscribeEvents.
Subscribed == {"OrgMemberAdded", "OrgMemberRemoved", "OrgMoved", "UserUpdated"}

\* handleOrgMemberChange, scheduleResync: events arm or push out one timer.
scheduleResync == timer' = (timer \/ event' \in Subscribed)

OrgStep(w) ==
    /\ (w \notin Background /\ Org!Begin(w)) \/ Org!Complete(w)
    /\ scheduleResync
    /\ UNCHANGED <<userVars, grp, rule, members, crashes>>

UserRequest ==
    /\ spent.requests < MaxRequests
    /\ spent' = [spent EXCEPT !.requests = @ + 1]
    /\ UNCHANGED <<orgs, userOrg, req, torn, grp, rule, members, crashes>>

\* user.UpdateStatus publishes UserUpdated; LockUser and UnlockUser publish
\* events that no resync listens to.
UpdateStatus(u) ==
    /\ u \in live
    /\ status' = [status EXCEPT ![u] = IF @ = "active" THEN "disabled" ELSE "active"]
    /\ event' \in {"UserUpdated", "UserLocked"}
    /\ scheduleResync
    /\ UserRequest
    /\ UNCHANGED <<live, purge>>

\* user.Delete: a soft delete; its event reaches the subscribers later.
DeleteUser(u) ==
    /\ u \in live
    /\ live' = live \ {u} /\ purge' = purge \cup {u}
    /\ event' = "UserDeleted"
    /\ scheduleResync
    /\ UserRequest
    /\ UNCHANGED status

\* The UserDeleted subscriber drops memberships of groups and organizations.
PurgeUser(u) ==
    /\ u \in purge /\ purge' = purge \ {u}
    /\ members' = {m \in members : m[2] # u}
    /\ userOrg' = {m \in userOrg : m[1] # u}
    /\ event' = "none"
    /\ UNCHANGED <<orgs, live, req, spent, torn, status, grp, rule, timer, crashes>>

\* A restart loses requests, timers and events in flight; the sweep's first pass
\* follows.
Crash ==
    /\ crashes < MaxCrashes /\ crashes' = crashes + 1
    /\ req' = [w \in Workers |-> Idle] /\ timer' = FALSE /\ purge' = {}
    /\ torn' = (torn \/ \E w \in Workers : req[w].op = "Flip")
    /\ event' = "none"
    /\ UNCHANGED <<orgs, userOrg, live, spent, status, grp, rule, members>>

GroupRequest(w) ==
    \E g \in GroupIds :
        \/ Create(w, g) \/ Update(w, g) \/ SyncRule(w, g) \/ DeleteRule(w, g)
        \/ \E force \in BOOLEAN : Delete(w, g, force)
        \/ \E u \in Users : AddMember(w, g, u) \/ RemoveMember(w, g, u)
        \/ AddMembers(w, g, Users) \/ RemoveMembers(w, g, Users)
        \/ \E expr \in Exprs : UpsertRule(w, g, expr)

GroupStep(w) ==
    \/ SaveGroup(w) \/ DropGroup(w) \/ InsertMembers(w) \/ CutMembers(w)
    \/ PutRule(w) \/ CutRule(w) \/ Flip(w) \/ syncRule(w)

Next ==
    \/ \E w \in Workers : OrgStep(w) \/ GroupStep(w)
    \/ \E w \in Workers \ Background : GroupRequest(w)
    \/ \E w \in Background : ResyncTimer(w) \/ runDynamicGroupReconcile(w)
    \/ \E u \in Users : UpdateStatus(u) \/ DeleteUser(u) \/ PurgeUser(u)
    \/ Crash

\* The sweep comes round and goes on; requests need neither come nor finish.
Fairness ==
    \A w \in Background : WF_vars(GroupStep(w)) /\ WF_vars(runDynamicGroupReconcile(w))

Spec == Init /\ [][Next]_vars /\ Fairness

(***************************************************************************)
(* Properties.                                                             *)
(***************************************************************************)

TypeOK ==
    /\ Org!OrgTypeOK
    /\ members \subseteq GroupIds \X Users /\ purge \subseteq Users
    /\ DOMAIN rule \subseteq DOMAIN grp
    /\ \A g \in DOMAIN grp : grp[g] \in {"static", "dynamic"}

Quiet == \A w \in Workers : req[w] = Idle

\* UpsertRule and DeleteRule keep a group's type and its rule together: when no
\* request is under way, a group is dynamic exactly if it has a rule, unless a
\* Save wrote back a row that another request had changed or a restart fell
\* between a rule's write and the type's.
TypeFollowsRule ==
    (Quiet /\ ~ torn) => \A g \in DOMAIN grp : grp[g] = "dynamic" <=> g \in DOMAIN rule

\* Dynamic membership is eventually consistent (the comment on resyncDebounce
\* and on runDynamicGroupReconcile): once requests stop, every dynamic group
\* comes to hold exactly the live users its rule matches and keeps them,
\* whatever differences were computed from stale reads, whatever was removed by
\* hand, and whichever events and timers a restart lost.
RosterConverges ==
    <>[](\A g \in DOMAIN grp \cap DOMAIN rule :
            grp[g] = "dynamic" => AllMemberIDs(g) = EvaluateRule(rule[g]))
=============================================================================
