---------------------------- MODULE Offboarding ----------------------------
(***************************************************************************)
(* Offboarding one user: the account is disabled, the sessions end, and a  *)
(* review task lists the applications the user could reach; a webhook and  *)
(* the downstream deprovisioning jobs go to the outbox.  Administrators    *)
(* then tick the items off.  Every statement is a step of its own and the  *)
(* process may crash between two; MarkItemDone is a READ COMMITTED         *)
(* transaction whose statements see what others have committed.  What      *)
(* disabling does to sessions is in Accounts, the logout fan-out in        *)
(* Federation, delivery in Outbox.                                         *)
(***************************************************************************)
EXTENDS Naturals, FiniteSets

CONSTANTS
    Apps, TaskIds, Workers, None,
    scimAvailable, webhookEnabled,
    MaxRequests, MaxCrashes     \* bounds

VARIABLES
    active,         \* the account's status
    provisioning,   \* app -> provisioning is enabled
    tasks,          \* id -> [items, done, resolved] or None; items: app -> [tier, done]
    outbox,         \* messages: [kind, task, app]
    req, requests, crashes,
    reached,        \* task -> the applications the user could reach
    blind,          \* tasks written without the footprint
    crossed         \* tasks on which two unfinished ticks met

vars == <<active, provisioning, tasks, outbox, req, requests, crashes, reached, blind, crossed>>
history == <<reached, blind, crossed>>

Idle == [op |-> "idle"]

Init ==
    /\ active = TRUE
    /\ provisioning \in [Apps -> BOOLEAN]
    /\ tasks = [t \in TaskIds |-> None] /\ outbox = {}
    /\ req = [w \in Workers |-> Idle] /\ requests = 0 /\ crashes = 0
    /\ reached = [t \in TaskIds |-> {}] /\ blind = {} /\ crossed = {}

Start(w, r) ==
    /\ req[w] = Idle /\ requests < MaxRequests
    /\ requests' = requests + 1
    /\ req' = [req EXCEPT ![w] = r]

Goto(w, r) == req' = [req EXCEPT ![w] = r] /\ UNCHANGED requests

-----------------------------------------------------------------------------
(* Offboard.                                                               *)

\* Put and Save of an application's provisioning configuration.
Save(a) ==
    /\ requests < MaxRequests
    /\ requests' = requests + 1
    /\ provisioning' = [provisioning EXCEPT ![a] = ~ @]
    /\ UNCHANGED <<active, tasks, outbox, req, crashes, history>>

\* Disable is the step that must succeed.
Disable(w) ==
    /\ Start(w, [op |-> "kill"])
    /\ active' = FALSE
    /\ UNCHANGED <<provisioning, tasks, outbox, crashes, history>>

\* NotifyLogout and KillAllByUser, best effort.
KillAllByUser(w) ==
    /\ req[w].op = "kill"
    /\ Goto(w, [op |-> "footprint"])
    /\ UNCHANGED <<active, provisioning, tasks, outbox, crashes, history>>

\* L2: provisioning is enabled and the SCIM connector can run.
L2(a) == scimAvailable /\ provisioning[a]

\* ForUser: the applications and their tiers; none, when the user or the
\* applications cannot be read.
ForUser(w) ==
    /\ req[w].op = "footprint"
    /\ \E reach \in SUBSET Apps : \E found \in {reach, {}} :
          Goto(w, [op |-> "task", reach |-> reach,
                   items |-> [a \in found |-> [tier |-> IF L2(a) THEN 2 ELSE 1, done |-> FALSE]]])
    /\ UNCHANGED <<active, provisioning, tasks, outbox, crashes, history>>

\* The L2 items are deprovisioned downstream.
Jobs(items) == {a \in DOMAIN items : items[a].tier = 2}

\* CreateTaskWithItems, one transaction; if it fails nothing is queued.
CreateTaskWithItems(w, t) ==
    LET r == req[w]
    IN  /\ r.op = "task" /\ tasks[t] = None
        /\ \/ /\ tasks' = [tasks EXCEPT ![t] = [items |-> r.items, done |-> 0,
                                                resolved |-> DOMAIN r.items = {}]]
              /\ reached' = [reached EXCEPT ![t] = r.reach]
              /\ blind' = IF DOMAIN r.items # r.reach THEN blind \cup {t} ELSE blind
              /\ Goto(w, [op |-> "webhook", task |-> t, left |-> Jobs(r.items)])
           \/ Goto(w, Idle) /\ UNCHANGED <<tasks, reached, blind>>
        /\ UNCHANGED <<active, provisioning, outbox, crashes, crossed>>

\* The webhook is queued, if it is on and the insert succeeds.
EnqueueWebhook(w) ==
    LET r == req[w]
        m == [kind |-> "webhook", task |-> r.task, app |-> None]
    IN  /\ r.op = "webhook"
        /\ outbox' \in IF webhookEnabled THEN {outbox, outbox \cup {m}} ELSE {outbox}
        /\ Goto(w, [r EXCEPT !.op = "deprovision"])
        /\ UNCHANGED <<active, provisioning, tasks, crashes, history>>

\* One job per L2 item, one after the other; each insert may fail.
EnqueueDeprovision(w) ==
    LET r == req[w]
    IN  /\ r.op = "deprovision"
        /\ \/ \E a \in r.left :
                /\ outbox' \in {outbox, outbox \cup {[kind |-> "scim", task |-> r.task, app |-> a]}}
                /\ Goto(w, [r EXCEPT !.left = @ \ {a}])
           \/ r.left = {} /\ Goto(w, Idle) /\ UNCHANGED outbox
        /\ UNCHANGED <<active, provisioning, tasks, crashes, history>>

\* The process stops with offboardings half done; open transactions roll back.
Crash ==
    /\ crashes < MaxCrashes /\ crashes' = crashes + 1
    /\ req' = [w \in Workers |-> Idle]
    /\ UNCHANGED <<active, provisioning, tasks, outbox, requests, history>>

-----------------------------------------------------------------------------
(* MarkItemDone: a transaction's own write shows in its request until it   *)
(* commits.                                                                *)

\* The item, if it is pending: one that is done ends the call.
ReadItem(w, t, a) ==
    /\ tasks[t] # None
    /\ a \in DOMAIN tasks[t].items
    /\ ~ tasks[t].items[a].done
    /\ Start(w, [op |-> "update", task |-> t, app |-> a])
    /\ UNCHANGED <<active, provisioning, tasks, outbox, crashes, history>>

\* A transaction that has written its item and not yet committed.
Open(v) == req[v].op \in {"count", "mark"}

\* The item row is written once no other transaction holds it.
UpdateItem(w) ==
    LET r == req[w]
    IN  /\ r.op = "update"
        /\ ~ \E v \in Workers : Open(v) /\ req[v].task = r.task /\ req[v].app = r.app
        /\ Goto(w, [r EXCEPT !.op = "count"])
        /\ UNCHANGED <<active, provisioning, tasks, outbox, crashes, history>>

\* Mutant: the tick itself is not counted.
CommittedDone(t, a) == Cardinality({b \in DOMAIN tasks[t].items : tasks[t].items[b].done})

\* The committed ticks and this transaction's own.
CountDone(t, a) == Cardinality({b \in DOMAIN tasks[t].items : tasks[t].items[b].done \/ b = a})

Count(w) ==
    LET r == req[w]
    IN  /\ r.op = "count"
        /\ Goto(w, [op |-> "mark", task |-> r.task, app |-> r.app, done |-> CountDone(r.task, r.app)])
        /\ crossed' = IF \E v \in Workers \ {w} : Open(v) /\ req[v].task = r.task
                      THEN crossed \cup {r.task} ELSE crossed
        /\ UNCHANGED <<active, provisioning, tasks, outbox, crashes, reached, blind>>

\* The task row is written and the transaction commits.
MarkItemDone(w) ==
    LET r == req[w]
        t == tasks[r.task]
    IN  /\ r.op = "mark"
        /\ tasks' = [tasks EXCEPT ![r.task] =
               [items |-> [t.items EXCEPT ![r.app].done = TRUE], done |-> r.done,
                resolved |-> r.done >= Cardinality(DOMAIN t.items)]]
        /\ Goto(w, Idle)
        /\ UNCHANGED <<active, provisioning, outbox, crashes, history>>

-----------------------------------------------------------------------------

Next ==
    \/ Crash
    \/ \E a \in Apps : Save(a)
    \/ \E w \in Workers :
          \/ Disable(w) \/ KillAllByUser(w) \/ ForUser(w)
          \/ EnqueueWebhook(w) \/ EnqueueDeprovision(w)
          \/ UpdateItem(w) \/ Count(w) \/ MarkItemDone(w)
          \/ \E t \in TaskIds : CreateTaskWithItems(w, t) \/ \E a \in Apps : ReadItem(w, t, a)

Spec == Init /\ [][Next]_vars

-----------------------------------------------------------------------------

Ticked(t) == {a \in DOMAIN tasks[t].items : tasks[t].items[a].done}

\* The progress a task shows is that of its items.
Accurate(t) ==
    /\ tasks[t].done = Cardinality(Ticked(t))
    /\ tasks[t].resolved <=> Ticked(t) = DOMAIN tasks[t].items

(***************************************************************************)
(* The checklist can be trusted: a task is resolved exactly when every     *)
(* application the user could reach has been ticked off, and its count is  *)
(* right, through crashes and concurrent ticks; unless two ticks of the    *)
(* task overlapped, or the applications could not be read when the task    *)
(* was written (Offboard, CreateTaskWithItems, MarkItemDone).              *)
(***************************************************************************)
ChecklistTrue ==
    \A t \in TaskIds : tasks[t] # None =>
        /\ t \notin crossed => Accurate(t)
        /\ t \notin crossed \cup blind /\ tasks[t].resolved => Ticked(t) = reached[t]

(***************************************************************************)
(* Nothing is queued without its record: a webhook or a deprovisioning job *)
(* in the outbox belongs to a written task of a disabled account, and a    *)
(* job to an item the checklist shows as deprovisioned downstream          *)
(* (Offboard).                                                             *)
(***************************************************************************)
QueuedIsRecorded ==
    \A m \in outbox :
        /\ ~ active /\ tasks[m.task] # None
        /\ m.kind = "scim" => tasks[m.task].items[m.app].tier = 2

=============================================================================
