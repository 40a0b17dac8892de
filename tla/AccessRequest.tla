----------------------------- MODULE AccessRequest -----------------------------
(***************************************************************************)
(* JIT privileged access (internal/domain/access): an eligibility rule     *)
(* says who may ask for which role, a request goes through approval, and   *)
(* the approval materialises as a time-bound row of a binding table that   *)
(* is deleted again by a revocation or by the expiry sweeper.              *)
(*                                                                         *)
(* Workers are HTTP requests on any replica, Sweepers the replicas whose   *)
(* sweeper loop is running (two of them during a leadership hand-over).    *)
(* A handler reads a row, decides, and writes in a later statement; every  *)
(* database statement or transaction is one step here, so the handlers of  *)
(* different processes interleave between their reads and their writes.    *)
(***************************************************************************)
EXTENDS Integers, FiniteSets

CONSTANTS
    Requests,       \* ids of mxid_access_request rows
    Users,          \* requesters and approvers
    Targets,        \* what a binding grants: (role, scope) or (app, app role)
    AppTargets,     \* the targets with target_kind = 'app'
    Eligibilities,  \* ids of mxid_access_eligibility rows
    Rules,          \* bodies an administrator may submit for an eligibility
    SuperAdmins,    \* users with is_super_admin
    Workers,        \* HTTP handlers in flight
    Sweepers,       \* replicas running the expiry sweeper
    Unendable,      \* requests whose EndGrant transaction always errors
    MaxTTL,         \* maxEligibilityTTL
    None,           \* SQL NULL, and "no row yet"
    Deleted,        \* an eligibility row that was deleted; its id is not reused
    System,         \* approver id 0, the auto-approval path
    MaxTime,        \* bound: last instant of the clock
    MaxBindings,    \* bound: binding ids that are generated
    MaxFaults       \* bound: crashes and failed best-effort calls

Procs == Workers \cup Sweepers

Statuses == {"pending", "approved", "rejected", "cancelled", "expired", "revoked"}

\* The statuses EndGrant writes: the grant existed and is over.
Ended == {"expired", "revoked"}

Labels == {"idle", "approve", "scope", "grant", "reject", "cancel", "end",
           "invalidate", "invalidateEnd", "finish"}

\* subjects are the users a rule's subject columns resolve to
Eligibility ==
    [target : Targets, requesters : SUBSET Users, approvers : SUBSET Users,
     auto : BOOLEAN, durations : SUBSET Nat, max : Nat,
     stepup : BOOLEAN, justification : BOOLEAN]

RequestRow ==
    [id : Requests, requester : Users, elig : Eligibilities, target : Targets,
     secs : Nat, status : Statuses, approver : Users \cup {System, None},
     expiresAt : Nat \cup {None}, binding : Nat \cup {None}]

\* grant and expiresAt are None in a permanent binding
BindingRow ==
    [id : Nat, user : Users, target : Targets, grant : Requests \cup {None},
     expiresAt : Nat \cup {None}, created : Nat]

ASSUME AccessAssumption ==
    /\ AppTargets \subseteq Targets
    /\ SuperAdmins \subseteq Users
    /\ Unendable \subseteq Requests
    /\ Rules \subseteq Eligibility
    /\ Workers \cap Sweepers = {}
    /\ {MaxTTL, MaxTime, MaxBindings, MaxFaults} \subseteq Nat
    /\ None \notin Nat \cup Requests \cup Users \cup Eligibility \cup RequestRow
    /\ Deleted \notin Eligibility \cup {None}
    /\ System \notin Users \cup {None}

\* A handler or a sweep in progress: the *Request it has read, its caller, the
\* expires_at Approve computed, the user whose cached bindings it has to drop.
Process ==
    [pc : Labels, snap : RequestRow \cup {None}, actor : Users \cup {System, None},
     exp : Nat, owes : Users \cup {None}]

Idle == [pc |-> "idle", snap |-> None, actor |-> None, exp |-> 0, owes |-> None]

VARIABLES
    now,        \* the clock
    elig,       \* mxid_access_eligibility: id -> rule, None or Deleted
    req,        \* mxid_access_request: id -> row, None before it is created
    bindings,   \* mxid_role_binding and mxid_app_role_binding
    nextID,     \* the snowflake generator, for binding ids
    proc,       \* the processes
    due,        \* sweeper: rows of ListDueGrants not yet handled
    dirty,      \* users whose bindings changed after the last invalidation
    sessions,   \* downstream app sessions opened under a JIT grant
    expiredEvents, \* access.grant.expired events published per request
    lost,       \* users for whom a best-effort call was lost
    faults      \* faults injected so far

table == <<elig, req, bindings, nextID>>
effects == <<dirty, sessions, expiredEvents, lost, faults>>
vars == <<now, table, proc, due, effects>>

TypeOK ==
    /\ now \in Nat
    /\ elig \in [Eligibilities -> Rules \cup {None, Deleted}]
    /\ req \in [Requests -> RequestRow \cup {None}]
    /\ bindings \subseteq BindingRow
    /\ nextID \in Nat
    /\ proc \in [Procs -> Process]
    /\ due \in [Sweepers -> SUBSET RequestRow]
    /\ dirty \subseteq Users
    /\ sessions \subseteq [user : Users, target : AppTargets]
    /\ expiredEvents \in [Requests -> Nat]
    /\ lost \subseteq Users
    /\ faults \in Nat

Init ==
    /\ now = 0
    /\ elig = [e \in Eligibilities |-> None]
    /\ req = [r \in Requests |-> None]
    /\ bindings = {}
    /\ nextID = 1
    /\ proc = [p \in Procs |-> Idle]
    /\ due = [s \in Sweepers |-> {}]
    /\ dirty = {}
    /\ sessions = {}
    /\ expiredEvents = [r \in Requests |-> 0]
    /\ lost = {}
    /\ faults = 0

-------------------------------------------------------------------------------
(* Eligibility rules.                                                      *)

validateEligibilityRequest(rule) ==
    /\ rule.durations # {}
    /\ rule.max \in 1..MaxTTL
    /\ rule.durations \subseteq 1..rule.max

DurationAllowed(rule, d) == d \in rule.durations

ClampDuration(rule, d) == IF rule.max > 0 /\ d > rule.max THEN rule.max ELSE d

requesterEligible(u, rule) == u \in rule.requesters

approverAllowed(a, rule) ==
    a \in SuperAdmins \/ rule.auto \/ a \in rule.approvers

\* GetEligibility finds the row.
Exists(e) == elig[e] \notin {None, Deleted}

\* CreateEligibility and UpdateEligibility validate alike and store the whole
\* body; an update of a row deleted meanwhile touches no row.
WriteEligibility(e, rule) ==
    /\ validateEligibilityRequest(rule)
    /\ elig[e] \notin {rule, Deleted}
    /\ elig' = [elig EXCEPT ![e] = rule]
    /\ UNCHANGED <<now, req, bindings, nextID, proc, due, effects>>

DeleteEligibility(e) ==
    /\ Exists(e)
    /\ elig' = [elig EXCEPT ![e] = Deleted]
    /\ UNCHANGED <<now, req, bindings, nextID, proc, due, effects>>

-------------------------------------------------------------------------------
(* Requests and approval.                                                  *)

Begin(p, label, a, row) ==
    /\ proc[p].pc = "idle"
    /\ proc' = [proc EXCEPT ![p] = [Idle EXCEPT !.pc = label, !.actor = a, !.snap = row]]

Return(p) == proc' = [proc EXCEPT ![p] = Idle]

NewRequest(r, u, e, rule, d) ==
    [id |-> r, requester |-> u, elig |-> e, target |-> rule.target,
     secs |-> ClampDuration(rule, d), status |-> "pending", approver |-> None,
     expiresAt |-> None, binding |-> None]

\* The caller's rule is read and the row inserted; nothing between the two
\* depends on the request table. An auto rule continues into Approve as user 0.
CreateRequest(w, r, u, e, d, justified) ==
    /\ proc[w].pc = "idle"
    /\ req[r] = None
    /\ Exists(e)
    /\ requesterEligible(u, elig[e])
    /\ DurationAllowed(elig[e], d)
    /\ elig[e].justification => justified
    /\ LET row == NewRequest(r, u, e, elig[e], d) IN
       /\ req' = [req EXCEPT ![r] = row]
       /\ IF elig[e].auto THEN Begin(w, "approve", System, row) ELSE proc' = proc
    /\ UNCHANGED <<now, elig, bindings, nextID, due, effects>>

\* The HTTP handler's own read, which enforces require_stepup on the approver.
ApproveHandler(w, a, r, fresh) ==
    /\ req[r] # None
    /\ Exists(req[r].elig)
    /\ elig[req[r].elig].stepup => fresh
    /\ Begin(w, "approve", a, req[r])
    /\ UNCHANGED <<now, table, due, effects>>

\* Approve reads the request again: pending, and not the approver's own.
ApproveRead(w) ==
    /\ proc[w].pc = "approve"
    /\ LET row == req[proc[w].snap.id] IN
       IF row.status = "pending" /\ proc[w].actor # row.requester
       THEN proc' = [proc EXCEPT ![w] = [@ EXCEPT !.pc = "scope", !.snap = row]]
       ELSE Return(w)
    /\ UNCHANGED <<now, table, due, effects>>

\* Approve reads the eligibility as it is now and computes expires_at.
ApproveScope(w) ==
    /\ proc[w].pc = "scope"
    /\ LET row == proc[w].snap IN
       IF Exists(row.elig) /\ approverAllowed(proc[w].actor, elig[row.elig])
       THEN proc' = [proc EXCEPT ![w] = [@ EXCEPT !.pc = "grant", !.exp = now + row.secs]]
       ELSE Return(w)
    /\ UNCHANGED <<now, table, due, effects>>

\* Mutant: only the request's own older binding is superseded.
insertBindingBlind(row, id, expiresAt) ==
    {b \in bindings : b.grant # row.id}
      \cup {[id |-> id, user |-> row.requester, target |-> row.target,
             grant |-> row.id, expiresAt |-> expiresAt, created |-> now]}

\* The binding table after insertBindingTx: whatever the subject held for the
\* same target is deleted, a permanent binding included, then the row is added.
insertBindingTx(row, id, expiresAt) ==
    {b \in bindings : <<b.user, b.target>> # <<row.requester, row.target>>}
      \cup {[id |-> id, user |-> row.requester, target |-> row.target,
             grant |-> row.id, expiresAt |-> expiresAt, created |-> now]}

\* The authz cache holds console bindings; app roles are read from the table.
Staled(u, t) == IF t \in AppTargets THEN dirty ELSE dirty \cup {u}

\* Mutant: RowsAffected is not looked at.
UnguardedUpdate(row) == TRUE

\* The guarded UPDATE ... WHERE status = 'pending' of ApproveAndGrant.
StillPending(row) == req[row.id].status = "pending"

\* One transaction; zero rows updated rolls the binding back.
ApproveAndGrant(w) ==
    /\ proc[w].pc = "grant"
    /\ nextID <= MaxBindings
    /\ nextID' = nextID + 1
    /\ LET row == proc[w].snap IN
       IF StillPending(row)
       THEN /\ bindings' = insertBindingTx(row, nextID, proc[w].exp)
            /\ req' = [req EXCEPT ![row.id] =
                         [@ EXCEPT !.status = "approved", !.approver = proc[w].actor,
                                   !.expiresAt = proc[w].exp, !.binding = nextID]]
            /\ proc' = [proc EXCEPT ![w] =
                          [@ EXCEPT !.pc = "invalidate", !.owes = row.requester]]
            /\ dirty' = Staled(row.requester, row.target)
       ELSE /\ Return(w)
            /\ UNCHANGED <<bindings, req, dirty>>
    /\ UNCHANGED <<now, elig, due, sessions, expiredEvents, lost, faults>>

-------------------------------------------------------------------------------
(* Reject, Cancel and Revoke: a read that checks the status, then a write. *)

Reject(w, a, r) ==
    /\ req[r] # None
    /\ req[r].status = "pending"
    /\ Begin(w, "reject", a, req[r])
    /\ UNCHANGED <<now, table, due, effects>>

Cancel(w, u, r) ==
    /\ req[r] # None
    /\ req[r].requester = u
    /\ req[r].status = "pending"
    /\ Begin(w, "cancel", u, req[r])
    /\ UNCHANGED <<now, table, due, effects>>

\* The UPDATE names the row by id only: the status read earlier is not in its
\* WHERE clause. A cancellation passes no approver and keeps the column.
UpdateRequestStatus(w) ==
    /\ proc[w].pc \in {"reject", "cancel"}
    /\ LET r == proc[w].snap.id IN
       req' = IF proc[w].pc = "reject"
              THEN [req EXCEPT ![r] = [@ EXCEPT !.status = "rejected",
                                                !.approver = proc[w].actor]]
              ELSE [req EXCEPT ![r] = [@ EXCEPT !.status = "cancelled"]]
    /\ Return(w)
    /\ UNCHANGED <<now, elig, bindings, nextID, due, effects>>

Revoke(w, a, r) ==
    /\ req[r] # None
    /\ req[r].status = "approved"
    /\ Begin(w, "end", a, req[r])
    /\ UNCHANGED <<now, table, due, effects>>

-------------------------------------------------------------------------------
(* The sweeper, and the end of a grant.                                    *)

ListDueGrants ==
    {row \in {req[r] : r \in Requests} \ {None} :
        row.status = "approved" /\ row.expiresAt <= now}

SweepList(s) ==
    /\ proc[s].pc = "idle"
    /\ due[s] = {}
    /\ ListDueGrants # {}
    /\ due' = [due EXCEPT ![s] = ListDueGrants]
    /\ UNCHANGED <<now, table, proc, effects>>

\* svc.Expire on the next listed row; it does not read the row again.
SweepNext(s, row) ==
    /\ due' = [due EXCEPT ![s] = @ \ {row}]
    /\ Begin(s, "end", System, row)
    /\ UNCHANGED <<now, table, effects>>

finalStatus(p) == IF p \in Sweepers THEN "expired" ELSE "revoked"

\* Mutant: the DELETE also asks for an elapsed window.
endElapsedBinding(row) ==
    {b \in bindings : b.id # row.binding \/ b.expiresAt > now}

\* Mutant: the DELETE goes by subject and target.
endSubjectBinding(row) ==
    {b \in bindings : <<b.user, b.target>> # <<row.requester, row.target>>}

\* DELETE ... WHERE id = req.BindingID, of the row read earlier.
endBinding(row) == {b \in bindings : b.id # row.binding}

\* Mutant: the first error ends the pass.
sweepAborts(p) == due' = IF p \in Sweepers THEN [due EXCEPT ![p] = {}] ELSE due

\* A sweeper whose EndGrant failed logs the error and goes on with its list.
sweepError(p) == due' = due

\* A transaction that fails leaves the grant as it was.
EndGrant(p) ==
    /\ proc[p].pc = "end"
    /\ LET row == proc[p].snap IN
       IF row.id \in Unendable
       THEN /\ Return(p)
            /\ sweepError(p)
            /\ UNCHANGED <<bindings, req, dirty>>
       ELSE /\ bindings' = endBinding(row)
            /\ req' = [req EXCEPT ![row.id] = [@ EXCEPT !.status = finalStatus(p)]]
            /\ proc' = [proc EXCEPT ![p] =
                          [@ EXCEPT !.pc = "invalidateEnd", !.owes = row.requester]]
            /\ dirty' = Staled(row.requester, row.target)
            /\ due' = due
    /\ UNCHANGED <<now, elig, nextID, sessions, expiredEvents, lost, faults>>

\* A best-effort call of p succeeds, or fails and is only logged.
BestEffort(p, ok) ==
    /\ ok \/ faults < MaxFaults
    /\ faults' = IF ok THEN faults ELSE faults + 1
    /\ lost' = IF ok THEN lost ELSE lost \cup {proc[p].owes}

\* cache.Invalidate after an approval, and after a binding event.
Invalidate(p, ok) ==
    /\ proc[p].pc = "invalidate"
    /\ BestEffort(p, ok)
    /\ dirty' = IF ok THEN dirty \ {proc[p].owes} ELSE dirty
    /\ Return(p)
    /\ UNCHANGED <<now, table, due, sessions, expiredEvents>>

\* cache.Invalidate after EndGrant.
InvalidateEnded(p, ok) ==
    /\ proc[p].pc = "invalidateEnd"
    /\ BestEffort(p, ok)
    /\ dirty' = IF ok THEN dirty \ {proc[p].owes} ELSE dirty
    /\ proc' = [proc EXCEPT ![p] = [@ EXCEPT !.pc = "finish"]]
    /\ UNCHANGED <<now, table, due, sessions, expiredEvents>>

endsAppSession(row) == row.target \in AppTargets

\* Publishes the event and, for an app target, ends the user's app session;
\* the terminator never reports a failure.
terminateIfApp(p, ok) ==
    /\ proc[p].pc = "finish"
    /\ BestEffort(p, ok)
    /\ LET row == proc[p].snap IN
       /\ expiredEvents' = IF p \in Sweepers
                           THEN [expiredEvents EXCEPT ![row.id] = @ + 1]
                           ELSE expiredEvents
       /\ sessions' = IF ok /\ endsAppSession(row)
                      THEN sessions \ {[user |-> row.requester, target |-> row.target]}
                      ELSE sessions
    /\ Return(p)
    /\ UNCHANGED <<now, table, due, dirty>>

-------------------------------------------------------------------------------
(* The other writers of the binding tables, the apps, time and crashes.    *)

\* Mutant: nothing is subscribed to the event.
BindingEventUnheard(w, u, t) == dirty' = Staled(u, t) /\ proc' = proc

\* The event of a console binding change is handled by the cache invalidation
\* that is subscribed to it; an app-role change only refreshes open pages.
BindingEvent(w, u, t) ==
    /\ dirty' = Staled(u, t)
    /\ IF t \in AppTargets
       THEN proc' = proc
       ELSE proc' = [proc EXCEPT ![w] = [@ EXCEPT !.pc = "invalidate", !.owes = u]]

\* permission.AddMember and approle.AddBinding: a permanent binding, refused
\* by the unique index while the subject holds any row for the target.
AddMember(w, u, t) ==
    /\ proc[w].pc = "idle"
    /\ nextID <= MaxBindings
    /\ \A b \in bindings : <<b.user, b.target>> # <<u, t>>
    /\ bindings' = bindings \cup
         {[id |-> nextID, user |-> u, target |-> t, grant |-> None,
           expiresAt |-> None, created |-> now]}
    /\ nextID' = nextID + 1
    /\ BindingEvent(w, u, t)
    /\ UNCHANGED <<now, elig, req, due, sessions, expiredEvents, lost, faults>>

\* permission.RemoveMember and approle.DeleteBinding delete any row by id.
RemoveMember(w, b) ==
    /\ proc[w].pc = "idle"
    /\ bindings' = bindings \ {b}
    /\ BindingEvent(w, b.user, b.target)
    /\ UNCHANGED <<now, elig, req, nextID, due, sessions, expiredEvents, lost, faults>>

\* The resolvers' filter: expires_at IS NULL OR expires_at > NOW().
Effective(b) == b.expiresAt = None \/ b.expiresAt > now

\* A user signs in to an app while a JIT binding puts the role in app_roles.
AppLogin(b) ==
    /\ b.target \in AppTargets
    /\ b.grant # None
    /\ Effective(b)
    /\ sessions' = sessions \cup {[user |-> b.user, target |-> b.target]}
    /\ UNCHANGED <<now, table, proc, due, dirty, expiredEvents, lost, faults>>

Tick ==
    /\ now < MaxTime
    /\ now' = now + 1
    /\ UNCHANGED <<table, proc, due, effects>>

\* The process dies, or its request context is cancelled, between two steps.
Crash(p) ==
    /\ proc[p].pc # "idle"
    /\ faults < MaxFaults
    /\ faults' = faults + 1
    /\ Return(p)
    /\ due' = IF p \in Sweepers THEN [due EXCEPT ![p] = {}] ELSE due
    /\ lost' = lost \cup ({proc[p].owes} \ {None})
    /\ UNCHANGED <<now, table, dirty, sessions, expiredEvents>>

WorkerStep(w) ==
    \/ \E r \in Requests, u \in Users, e \in Eligibilities, d \in 0..MaxTime :
          \E justified \in BOOLEAN : CreateRequest(w, r, u, e, d, justified)
    \/ \E a \in Users, r \in Requests, fresh \in BOOLEAN :
          ApproveHandler(w, a, r, fresh)
    \/ ApproveRead(w)
    \/ ApproveScope(w)
    \/ ApproveAndGrant(w)
    \/ \E a \in Users, r \in Requests : Reject(w, a, r)
    \/ \E u \in Users, r \in Requests : Cancel(w, u, r)
    \/ UpdateRequestStatus(w)
    \/ \E a \in Users, r \in Requests : Revoke(w, a, r)
    \/ \E u \in Users, t \in Targets : AddMember(w, u, t)
    \/ \E b \in bindings : RemoveMember(w, b)
    \/ \E ok \in BOOLEAN : Invalidate(w, ok)

SweeperStep(s) ==
    \/ SweepList(s)
    \/ \E row \in due[s] : SweepNext(s, row)

EndStep(p) ==
    \/ EndGrant(p)
    \/ \E ok \in BOOLEAN : InvalidateEnded(p, ok)
    \/ \E ok \in BOOLEAN : terminateIfApp(p, ok)

Next ==
    \/ \E w \in Workers : WorkerStep(w)
    \/ \E s \in Sweepers : SweeperStep(s)
    \/ \E p \in Procs : EndStep(p)
    \/ \E p \in Procs : Crash(p)
    \/ \E e \in Eligibilities, rule \in Rules : WriteEligibility(e, rule)
    \/ \E e \in Eligibilities : DeleteEligibility(e)
    \/ \E b \in bindings : AppLogin(b)
    \/ Tick

Spec == Init /\ [][Next]_vars

\* The sweeper's ticker keeps firing and its loop keeps running; nothing is
\* assumed of callers.
Fairness ==
    /\ WF_vars(Tick)
    /\ \A s \in Sweepers :
          WF_vars(SweeperStep(s) \/ EndGrant(s) \/ InvalidateEnded(s, TRUE)
                  \/ terminateIfApp(s, TRUE))

FairSpec == Spec /\ Fairness

-------------------------------------------------------------------------------
(* Properties.                                                             *)

\* A grant that EndGrant has ended - revoked by an administrator or expired by
\* the sweeper - has no row left in the binding tables, whatever approvals,
\* rejections and second sweepers ran between its reads and its writes.
EndedGrantHasNoBinding ==
    \A r \in Requests :
        req[r] # None /\ req[r].status \in Ended =>
            \A b \in bindings : b.grant # r

\* A request is granted once: of two approvers (or a double submit) that both
\* read 'pending' one commits a binding, and a request that was approved and
\* then declined, revoked or expired is never granted a second window.
GrantedOnce ==
    [][\A r \in Requests :
          req[r] # None /\ req[r].binding # None =>
              req'[r].binding = req[r].binding]_vars

\* The unique indexes of the binding tables hold without relying on an error:
\* delete-then-insert leaves one row per subject and target.
OneBindingPerSubject ==
    \A b1, b2 \in bindings :
        <<b1.user, b1.target>> = <<b2.user, b2.target>> => b1 = b2

\* However a rule is edited while requests against it are pending, no JIT
\* binding outlives its activation by more than the 7-day hard ceiling.
WithinCeiling ==
    \A b \in bindings :
        b.grant # None => b.expiresAt # None /\ b.expiresAt <= b.created + MaxTTL

\* A committed change of a user's bindings is followed by an invalidation of
\* that user's cached bindings: it is done, or a process is about to do it, or
\* a crash or a failed best-effort call is on record.
NoSilentStaleness ==
    \A u \in dirty :
        \/ u \in lost
        \/ \E p \in Procs :
             proc[p].pc \in {"invalidate", "invalidateEnd"} /\ proc[p].owes = u

\* "the elevated role can't outlive the grant in the app's own session": an app
\* session with no effective binding behind it is still going to be ended, by a
\* process that has ended the grant or by the sweeper when the approved request
\* falls due; the exceptions are a lost best-effort call, and a request whose
\* approval was overwritten by a late rejection or cancellation.
SessionWillEnd ==
    \A x \in sessions :
        \/ \E b \in bindings : b.user = x.user /\ b.target = x.target /\ Effective(b)
        \/ x.user \in lost
        \/ \E p \in Procs : /\ proc[p].pc \in {"invalidateEnd", "finish"}
                            /\ proc[p].snap.requester = x.user
                            /\ proc[p].snap.target = x.target
        \/ \E r \in Requests :
             /\ req[r] # None
             /\ req[r].requester = x.user /\ req[r].target = x.target
             /\ \/ req[r].status = "approved"
                \/ req[r].status \in {"rejected", "cancelled"} /\ req[r].binding # None

\* A subject holds one binding of a target, no grant outlasts its rule's ceiling, and an
\* app session under a grant will be ended (insertBindingTx, validateEligibilityRequest,
\* terminateIfApp).
GrantsHold == TypeOK /\ OneBindingPerSubject /\ WithinCeiling /\ SessionWillEnd

\* Ending one grant never deletes the binding of another: a revocation or an
\* expiry working from a stale row leaves alone what superseded it.
EndGrantKeepsOthers ==
    [][\A p \in Procs : EndGrant(p) =>
          \A b \in bindings : b.grant # proc[p].snap.id => b \in bindings']_vars

\* An approved request whose window has passed.
Due(r) == req[r] # None /\ req[r].status = "approved" /\ req[r].expiresAt <= now

\* Every approved grant whose time has come is ended by the sweeper, also when
\* another grant's EndGrant fails on every pass ("one bad grant cannot block
\* the rest").
DueGrantEnds ==
    \A r \in Requests \ Unendable : Due(r) ~> ~Due(r)

\* Reject and Cancel are "flows that do not involve a binding": a rejected or
\* cancelled request has no binding.
DeclinedHasNoBinding ==
    \A r \in Requests :
        req[r] # None /\ req[r].status \in {"rejected", "cancelled"} =>
            \A b \in bindings : b.grant # r
===============================================================================
