----------------------------- MODULE AppAccess -----------------------------
(***************************************************************************)
(* Who may open an application, and as what.  Access policies and the      *)
(* application's own roles hang off an application or an application group *)
(* and name a subject: a user, a group or organisation, a role, anyone.    *)
(* Subjects are checked when a row is written and have no foreign key; a   *)
(* subscriber to the deletion events removes the policies of a subject     *)
(* that is gone.  One user and one application, which may be in one group. *)
(***************************************************************************)
EXTENDS Naturals, FiniteSets

CONSTANTS
    Groups,     \* groups and organisations
    Roles,
    RoleIds,    \* application roles that may be created
    Workers,
    MaxRequests, MaxCrashes     \* bounds

Owners == {"app", "app group"}
Subjects == {"user", "public"} \cup Groups \cup Roles
Held == {"no", "active", "expired"}

VARIABLES
    alive,      \* subjects that exist
    member,     \* groups and organisations the user is in
    binding,    \* role -> how the user holds it
    rel,        \* the application is in the application group
    policies,   \* [target, subject, effect]
    events,     \* deletion events on the bus
    roles,      \* application roles: id -> [target, isDefault]
    assigned,   \* their bindings: [role, target, subject]
    req, requests, crashes,
    stray,      \* subjects whose cleanup was lost or crossed by an insert
    crossed     \* two transactions that set a default overlapped

vars == <<alive, member, binding, rel, policies, events, roles, assigned, req, requests, crashes,
          stray, crossed>>
facts == <<alive, member, binding>>
appRoles == <<roles, assigned, crossed>>

Idle == [op |-> "idle"]

Init ==
    /\ alive = Subjects
    /\ member \in SUBSET Groups /\ binding \in [Roles -> Held] /\ rel \in BOOLEAN
    /\ policies = {} /\ events = {}
    /\ roles = [i \in {} |-> {}] /\ assigned = {}
    /\ req = [w \in Workers |-> Idle] /\ requests = 0 /\ crashes = 0
    /\ stray = {} /\ crossed = FALSE

Start(w, r) ==
    /\ req[w] = Idle /\ requests < MaxRequests
    /\ requests' = requests + 1
    /\ req' = [req EXCEPT ![w] = r]

Goto(w, r) == req' = [req EXCEPT ![w] = r] /\ UNCHANGED requests

Request == requests < MaxRequests /\ requests' = requests + 1 /\ UNCHANGED req

-----------------------------------------------------------------------------
(* Policies. *)

validateSubject(s) == s \in alive

\* AddPolicy validates the parent and the subject, and AddPoliciesBatch does so
\* for one of its subjects after another, past those that have a rule ...
AddPolicy(w, t, s, e) ==
    /\ validateSubject(s)
    /\ Start(w, [op |-> "create", row |-> [target |-> t, subject |-> s, effect |-> e]])
    /\ UNCHANGED <<facts, rel, policies, events, appRoles, crashes, stray>>

Ruled(t, s) == \E p \in policies : p.target = t /\ p.subject = s

\* ... and inserts, under a unique index on target and subject.
CreatePolicy(w) ==
    LET p == req[w].row
    IN  /\ req[w].op = "create"
        /\ policies' = IF Ruled(p.target, p.subject) THEN policies ELSE policies \cup {p}
        /\ stray' = IF p.subject \in alive THEN stray ELSE stray \cup {p.subject}
        /\ Goto(w, Idle)
        /\ UNCHANGED <<facts, rel, events, appRoles, crashes>>

DeletePolicy(p) ==
    /\ Request
    /\ policies' = policies \ {p}
    /\ UNCHANGED <<facts, rel, events, appRoles, crashes, stray>>

\* A group, organisation or role is deleted for good, the user softly; members and
\* bindings cascade, and the event goes out.
DeleteSubject(s) ==
    /\ s \in alive \ {"public"} /\ Request
    /\ alive' = alive \ {s} /\ member' = member \ {s}
    /\ binding' = [r \in Roles |-> IF r = s THEN "no" ELSE binding[r]]
    /\ events' = events \cup {s}
    /\ UNCHANGED <<rel, policies, appRoles, crashes, stray>>

\* DeleteBySubject: on any target.
OfSubject(s) == {p \in policies : p.subject = s}

\* The handler on the bus, or its statement fails and is only logged.
cleanupSubject(s) ==
    /\ s \in events
    /\ events' = events \ {s}
    /\ \/ policies' = policies \ OfSubject(s) /\ UNCHANGED <<crashes, stray>>
       \/ /\ crashes < MaxCrashes /\ crashes' = crashes + 1
          /\ stray' = stray \cup {s} /\ UNCHANGED policies
    /\ UNCHANGED <<facts, rel, appRoles, req, requests>>

\* Membership, the binding's life and the application group move on their own.
Change ==
    /\ Request
    /\ \/ \E g \in Groups \cap alive :
             /\ member' = IF g \in member THEN member \ {g} ELSE member \cup {g}
             /\ UNCHANGED <<binding, rel>>
       \/ \E r \in Roles \cap alive, h \in Held :
             binding' = [binding EXCEPT ![r] = h] /\ UNCHANGED <<member, rel>>
       \/ rel' = ~ rel /\ UNCHANGED <<member, binding>>
    /\ UNCHANGED <<alive, policies, events, appRoles, crashes, stray>>

\* ListByApp: the application's own rules and those of its group.
ListByApp == {p \in policies : p.target = "app" \/ rel}

\* The launch gate's matcher: a role must be active and unexpired.
subjectMatches(p) ==
    \/ p.subject \in {"public", "user"}
    \/ p.subject \in Groups /\ p.subject \in member
    \/ p.subject \in Roles /\ binding[p.subject] = "active"

\* Mutant: any allow wins.
AllowWins(rows) == \E p \in rows : p.effect = "allow" /\ subjectMatches(p)

\* Deny short-circuits, then any allow.
Decide(rows) ==
    /\ ~ \E p \in rows : p.effect = "deny" /\ subjectMatches(p)
    /\ \E p \in rows : p.effect = "allow" /\ subjectMatches(p)

CanAccess == Decide(ListByApp)

\* The portal's list, in SQL: a role counts in whatever state its binding is.
Matching(e) ==
    {p \in policies :
        /\ p.effect = e
        /\ p.target = "app group" => rel
        /\ \/ p.subject \in {"public", "user"} \cup member
           \/ p.subject \in Roles /\ binding[p.subject] # "no"}

AppsForUser == Matching("allow") # {} /\ Matching("deny") = {}

-----------------------------------------------------------------------------
(* Application roles. *)

\* What the first statement clears: the defaults of the same parent it can see.
Cleared(t, i, d) == {j \in DOMAIN roles \ {i} : d /\ roles[j].target = t /\ roles[j].isDefault}

Setting == {w \in Workers : req[w].op = "role" /\ req[w].row.isDefault}

\* CreateRole and UpdateRole are transactions of two statements: clear the other
\* defaults, if the role is to be the default (of an update that does not say, as
\* the row was read) ...
ClearDefaults(w, i, t, d) ==
    /\ IF i \in DOMAIN roles THEN roles[i].target = t
       ELSE \A v \in Workers : req[v].op = "role" => req[v].id # i
    /\ crossed' = (crossed \/ (d /\ Setting # {}))
    /\ Start(w, [op |-> "role", id |-> i, row |-> [target |-> t, isDefault |-> d],
                 unset |-> Cleared(t, i, d)])
    /\ UNCHANGED <<facts, rel, policies, events, roles, assigned, crashes, stray>>

\* ... then insert the row or save it whole, and commit both.
CommitRole(w) ==
    LET r == req[w]
    IN  /\ r.op = "role"
        /\ roles' = [j \in DOMAIN roles \cup {r.id} |->
                        IF j = r.id THEN r.row
                        ELSE IF j \in r.unset THEN [roles[j] EXCEPT !.isDefault = FALSE] ELSE roles[j]]
        /\ Goto(w, Idle)
        /\ UNCHANGED <<facts, rel, policies, events, assigned, crossed, crashes, stray>>

\* DeleteRole: the bindings, then the role, in one transaction.
DeleteRole(i) ==
    /\ i \in DOMAIN roles /\ Request
    /\ roles' = [j \in DOMAIN roles \ {i} |-> roles[j]]
    /\ assigned' = {b \in assigned : b.role # i}
    /\ UNCHANGED <<facts, rel, policies, events, crossed, crashes, stray>>

validateAppRoleParent(i, t) == i \in DOMAIN roles /\ roles[i].target = t

\* AddBinding: the parent, the role under it, the subject; then the row, whose
\* foreign key wants the role.
AddBinding(w, i, t, s) ==
    /\ validateAppRoleParent(i, t) /\ validateSubject(s) /\ s # "public"
    /\ Start(w, [op |-> "bind", row |-> [role |-> i, target |-> t, subject |-> s]])
    /\ UNCHANGED <<facts, rel, policies, events, appRoles, crashes, stray>>

CreateBinding(w) ==
    LET b == req[w].row
    IN  /\ req[w].op = "bind"
        /\ assigned' = IF b.role \in DOMAIN roles THEN assigned \cup {b} ELSE assigned
        /\ Goto(w, Idle)
        /\ UNCHANGED <<facts, rel, policies, events, roles, crossed, crashes, stray>>

DeleteBinding(b) ==
    /\ Request
    /\ assigned' = assigned \ {b}
    /\ UNCHANGED <<facts, rel, policies, events, roles, crossed, crashes, stray>>

-----------------------------------------------------------------------------

PolicyNext ==
    \/ \E w \in Workers :
          CreatePolicy(w) \/ \E t \in Owners, s \in Subjects, e \in {"allow", "deny"} : AddPolicy(w, t, s, e)
    \/ \E p \in policies : DeletePolicy(p)
    \/ \E s \in Subjects : DeleteSubject(s) \/ cleanupSubject(s)
    \/ Change

RoleNext ==
    \/ \E w \in Workers :
          \/ CommitRole(w) \/ CreateBinding(w)
          \/ \E i \in RoleIds, t \in Owners :
                (\E d \in BOOLEAN : ClearDefaults(w, i, t, d)) \/ \E s \in alive : AddBinding(w, i, t, s)
    \/ \E i \in RoleIds : DeleteRole(i)
    \/ \E b \in assigned : DeleteBinding(b)
    \/ \E s \in Subjects : DeleteSubject(s)

Next == PolicyNext \/ RoleNext

Spec == Init /\ [][Next]_vars

-----------------------------------------------------------------------------

(***************************************************************************)
(* The subscriber "keeps the policy table referentially clean": when the   *)
(* deletion events have been handled, no rule names a subject that is      *)
(* gone, unless its cleanup failed or a rule was validated before the      *)
(* deletion and inserted after it.                                         *)
(***************************************************************************)
NoPhantomPolicy ==
    \A p \in policies : p.subject \in alive \cup events \cup stray

(***************************************************************************)
(* The portal shows the applications the launch gate opens: AppsForUser's  *)
(* two queries and CanAccess's two passes agree on every set of rules,     *)
(* memberships and group relations, unless a role binding has expired      *)
(* (the list does not look at its state).                                  *)
(***************************************************************************)
ListMatchesGate ==
    (\A r \in Roles : binding[r] # "expired") => (AppsForUser <=> CanAccess)

(***************************************************************************)
(* An application, and an application group, has at most one default role  *)
(* ("the app_role with is_default=true is emitted"), through creations and *)
(* whole-row updates, unless two transactions that set one overlapped.     *)
(***************************************************************************)
OneDefaultRole ==
    \A i, j \in DOMAIN roles :
        roles[i].isDefault /\ roles[j].isDefault /\ roles[i].target = roles[j].target => i = j \/ crossed
=============================================================================
