----------------------------- MODULE AuditTrail -----------------------------
(***************************************************************************)
(* How an action reaches the audit trail                                   *)
(* (internal/domain/audit/{plugin,capture,service,bridge,middleware,       *)
(* project}.go, internal/domain/auditalert, pkg/auditsink).                *)
(*                                                                         *)
(* A write to an audited table is captured for the ledger in its own       *)
(* transaction by the ORM plugin.  The event the service publishes         *)
(* afterwards runs in a goroutine of its own, which is lost with the       *)
(* process: it writes the audit_log row, hands the row to the mirror's     *)
(* queue, raises an alert, and, for events with no audited table behind    *)
(* them, captures the event for the ledger itself.  One server process     *)
(* with its mirror worker, the alert gate in Redis, and the command line   *)
(* beside it.  From capture to chained entry the ledger is AuditChain's    *)
(* subject; here a captured event is an element of ledger.                 *)
(***************************************************************************)
EXTENDS Integers, Sequences, FiniteSets, SequencesExt, FiniteSetsExt

CONSTANTS
    Rows,           \* ids of an audited table, numbers
    AlertTypes,     \* AlertOnEventTypes of the audit policy
    QueueSize,      \* of the mirror
    Batch,          \* verifyBatchSize
    MaxEvents, MaxFaults, MaxTicks, MaxCrashes

VARIABLES
    n,              \* events so far, in the order their requests ran
    match,          \* rows of the table that the WHERE of its statements selects
    stmts,          \* statements between their snapshot and their execution
    changed,        \* committed changes of audited rows
    ledger,         \* the captured events in order
    tasks,          \* goroutines and requests inside createLog
    log,            \* mxid_audit_log
    fallback,       \* events a fallback log line stands in for, by the write that failed
    gate, counter,  \* the alert gate and its suppressed count, in Redis
    alerts,         \* what the enqueued alerts report, one number each
    queue, worker,  \* the mirror: its channel, and "run", "drain" or "returned"
    conn,           \* its connection: "none", "open" or "stale"
    mirror,         \* what became of the records handed to it, by outcome
    rebuild,        \* the cursor of a rebuild in progress, or Nil
    through,        \* ledger entries the rebuilds have projected
    faults, ticks, crashes,
    persisted,      \* history: events whose row was ever in the log
    matched, lost,  \* history: occurrences the policy selected, and those never to be reported
    batched,        \* history: changes a batch insert made beside its first row
    crossed,        \* history: changes of statements another one ran across
    purged          \* history: rows retention removed

tableVars == <<match, stmts, changed, batched, crossed>>
trailVars == <<n, tableVars, ledger, tasks, log, fallback>>
alertVars == <<gate, counter, alerts, matched, lost>>
sinkVars == <<queue, worker, conn, mirror>>
rebuildVars == <<rebuild, through, purged>>
vars == <<trailVars, alertVars, sinkVars, rebuildVars, faults, ticks, crashes, persisted>>

Nil == 0

Init ==
    /\ n = 0 /\ match = Rows /\ stmts = {} /\ changed = {} /\ batched = {} /\ crossed = {}
    /\ ledger = <<>> /\ tasks = {} /\ log = {}
    /\ fallback = [log |-> {}, chain |-> {}]
    /\ gate = FALSE /\ counter = 0 /\ alerts = <<>> /\ matched = 0 /\ lost = 0
    /\ queue = <<>> /\ worker = "run" /\ conn = "none"
    /\ mirror = [sent |-> {}, dropped |-> {}, failed |-> {}, late |-> {}]
    /\ rebuild = Nil /\ through = 0 /\ purged = {}
    /\ faults = 0 /\ ticks = 0 /\ crashes = 0 /\ persisted = {}

-----------------------------------------------------------------------------
\* Events.  An event carries the account its payload names and the caller its context
\* does, Nil for a job without a request.

\* The types that differ in what becomes of them, with the handler SubscribeEvents
\* gives each: a sign-in, a change of an audited table, a read of personal data, a
\* session ended, an application launched.
SubscribeEvents(type) ==
    CASE type = "login.failed" -> "session"
      [] type \in {"user.updated", "user.created", "user.pii_view"} -> "subject"
      [] type \in {"session.kicked", "app.launched"} -> "owned"

chainClassForEvent(type) ==
    CASE type \in {"login.failed", "session.kicked"} -> "auth"
      [] type = "user.pii_view" -> "sensitive_read"
      [] OTHER -> "none"

\* The row of a sign-in or a logout pins the account as its actor: these routes run
\* without the middleware that stamps a caller.
SessionRow(e) == [ev |-> e.ev, type |-> e.type, actor |-> e.user, kind |-> "user", about |-> Nil]

\* The row of a change names its resource and leaves the actor to enrich.
SubjectRow(e) == [ev |-> e.ev, type |-> e.type, actor |-> Nil, kind |-> "", about |-> e.user]

\* A launch names the account it is for, its kind is left to enrich as well.
OwnedRow(e) ==
    [ev |-> e.ev, type |-> e.type, kind |-> "", about |-> Nil,
     actor |-> IF e.type = "app.launched" THEN e.user ELSE Nil]

RowOf(e) ==
    CASE SubscribeEvents(e.type) = "session" -> SessionRow(e)
      [] SubscribeEvents(e.type) = "subject" -> SubjectRow(e)
      [] SubscribeEvents(e.type) = "owned" -> OwnedRow(e)

\* What the handler left open comes from the context; without a caller the row is the
\* system's.
enrich(row, caller) ==
    [row EXCEPT !.actor = IF @ = Nil THEN caller ELSE @,
                !.kind = IF @ # "" THEN @ ELSE IF caller # Nil THEN "user" ELSE "system"]

\* A statement fails at most MaxFaults times; faults is changed only by that.
Fails == faults < MaxFaults /\ faults' = faults + 1
Works == UNCHANGED faults

-----------------------------------------------------------------------------
\* The ORM plugin, and the request that writes.  A capture that fails aborts the
\* statement, so nothing of it is left.

Capture(evs) == ledger' = ledger \o evs

Entry(e, row, what) == [ev |-> e, row |-> row, class |-> what]

\* The request publishes its event once the statement has committed.
Publish(e) == tasks' = tasks \cup {[op |-> "create", cli |-> FALSE, row |-> RowOf(e), caller |-> e.caller]}

\* One event for each row of the snapshot.
captureUpdate(e, rows) == [i \in 1..Cardinality(rows) |-> Entry(e, SetToSortSeq(rows, <)[i], "updated")]

captureDelete(e, rows) == [i \in 1..Cardinality(rows) |-> Entry(e, SetToSortSeq(rows, <)[i], "deleted")]

\* The plugin reads the rows an UPDATE or a DELETE selects before the statement runs, in
\* its transaction but without a lock.
beforeSnapshot(what, rows, caller) ==
    /\ n < MaxEvents /\ rows # {}
    /\ n' = n + 1
    /\ stmts' = stmts \cup {[ev |-> n', what |-> what, rows |-> rows, seen |-> rows \cap match, caller |-> caller]}
    /\ UNCHANGED <<match, changed, batched, crossed, ledger, tasks, log, fallback, alertVars, sinkVars, rebuildVars,
                   faults, ticks, crashes, persisted>>

\* The statement changes the rows it selects now, and its captures commit with it; a
\* service publishes what changed something.
Execute(s) ==
    LET hit == s.rows \cap match
        Of(rows) == {[ev |-> s.ev, row |-> r] : r \in rows} IN
    /\ stmts' = stmts \ {s}
    /\ Capture(IF s.what = "update" THEN captureUpdate(s.ev, s.seen) ELSE captureDelete(s.ev, s.seen))
    /\ changed' = changed \cup Of(hit)
    /\ crossed' = crossed \cup Of((hit \ s.seen) \cup (s.seen \ hit))
    /\ match' = match \ hit
    /\ IF hit = {}
       THEN UNCHANGED tasks
       ELSE Publish([ev |-> s.ev, type |-> "user.updated", user |-> Min(hit), caller |-> s.caller])
    /\ UNCHANGED <<n, batched, log, fallback, alertVars, sinkVars, rebuildVars, faults, ticks, crashes, persisted>>

\* An insert is captured with its first row only, however many it has: modelToMap and
\* primaryKeyOf read element 0 of a batch.
captureCreate(e, rows) == <<Entry(e, Min(rows), "created")>>

CreateRows(rows, caller) ==
    /\ n < MaxEvents /\ rows # {} /\ rows \cap match = {}
    /\ n' = n + 1
    /\ Capture(captureCreate(n', rows))
    /\ match' = match \cup rows
    /\ changed' = changed \cup {[ev |-> n', row |-> r] : r \in rows}
    /\ batched' = batched \cup {[ev |-> n', row |-> r] : r \in rows \ {Min(rows)}}
    /\ Publish([ev |-> n', type |-> "user.created", user |-> Min(rows), caller |-> caller])
    /\ UNCHANGED <<stmts, crossed, log, fallback, alertVars, sinkVars, rebuildVars, faults, ticks, crashes, persisted>>

\* An event with no audited table behind it.  A sign-in has no caller and the view of
\* personal data puts the viewer where the others put the account they are about
\* (RecordPIIView).
PublishEvent(type, user, caller) ==
    /\ n < MaxEvents
    /\ type = "login.failed" => caller = Nil
    /\ type \in {"user.pii_view", "app.launched"} => caller = user
    /\ n' = n + 1
    /\ Publish([ev |-> n', type |-> type, user |-> user, caller |-> caller])
    /\ UNCHANGED <<tableVars, ledger, log, fallback, alertVars, sinkVars, rebuildVars, faults, ticks, crashes, persisted>>

\* The catch-all row of a finished request, written inside it.
RecordAPIRequest(caller) ==
    /\ n < MaxEvents
    /\ n' = n + 1
    /\ tasks' = tasks \cup {[op |-> "create", cli |-> FALSE, caller |-> caller,
                             row |-> [ev |-> n', type |-> "api.put", actor |-> Nil, kind |-> "", about |-> Nil]]}
    /\ UNCHANGED <<tableVars, ledger, log, fallback, alertVars, sinkVars, rebuildVars, faults, ticks, crashes, persisted>>

\* The command line's row: another process, with neither mirror nor alerts.
RecordOutOfBand(user) ==
    /\ n < MaxEvents
    /\ n' = n + 1
    /\ tasks' = tasks \cup {[op |-> "create", cli |-> TRUE, caller |-> Nil,
                             row |-> [ev |-> n', type |-> "user.updated", actor |-> Nil, kind |-> "cli",
                                      about |-> user]]}
    /\ UNCHANGED <<tableVars, ledger, log, fallback, alertVars, sinkVars, rebuildVars, faults, ticks, crashes, persisted>>

-----------------------------------------------------------------------------
\* createLog, statement by statement.

Step(t, op) == tasks' = (tasks \ {t}) \cup {[t EXCEPT !.op = op]}

\* A row that cannot be written is dropped, the error line stands in for it.
createLog(t) ==
    \/ /\ Works
       /\ log' = log \cup {enrich(t.row, t.caller)} /\ persisted' = persisted \cup {t.row.ev}
       /\ Step(t, IF t.cli THEN "bridge" ELSE "forward") /\ UNCHANGED fallback
    \/ /\ Fails
       /\ fallback' = [fallback EXCEPT !.log = @ \cup {t.row.ev}]
       /\ tasks' = tasks \ {t} /\ UNCHANGED <<log, persisted>>

CreateLog(t) ==
    /\ t.op = "create" /\ createLog(t)
    /\ UNCHANGED <<n, tableVars, ledger, alertVars, sinkVars, rebuildVars, ticks, crashes>>

\* Hand the record to the mirror's queue, or count it dropped: Forward never waits.  A
\* record queued after Close has no reader.
Forward(ev) ==
    IF Len(queue) < QueueSize
    THEN /\ queue' = Append(queue, ev)
         /\ mirror' = IF worker = "returned" THEN [mirror EXCEPT !.late = @ \cup {ev}] ELSE mirror
    ELSE /\ mirror' = [mirror EXCEPT !.dropped = @ \cup {ev}]
         /\ UNCHANGED queue

forward(t) ==
    /\ t.op = "forward" /\ Forward(t.row.ev) /\ Step(t, "alert")
    /\ UNCHANGED <<n, tableVars, ledger, log, fallback, alertVars, worker, conn, rebuildVars, faults, ticks, crashes, persisted>>

\* The policy is read; one that cannot be read sends nothing.
Dispatch(t) ==
    /\ t.op = "alert"
    /\ \/ /\ Works /\ t.row.type \in AlertTypes
          /\ matched' = matched + 1 /\ Step(t, "claim")
       \/ /\ (Works /\ t.row.type \notin AlertTypes) \/ Fails
          /\ Step(t, "bridge") /\ UNCHANGED matched
    /\ UNCHANGED <<n, tableVars, ledger, log, fallback, gate, counter, alerts, lost, sinkVars, rebuildVars, ticks,
                   crashes, persisted>>

\* The gate is set if it is not there; without Redis the alert goes out.
claim(t) ==
    /\ t.op = "claim"
    /\ \/ Works /\ ~ gate /\ gate' = TRUE /\ Step(t, "collect")
       \/ Works /\ gate /\ Step(t, "suppress") /\ UNCHANGED gate
       \/ Fails /\ Step(t, "enqueue0") /\ UNCHANGED gate
    /\ UNCHANGED <<n, tableVars, ledger, log, fallback, counter, alerts, matched, lost, sinkVars, rebuildVars, ticks,
                   crashes, persisted>>

\* Inside the window the occurrence is counted for the next alert, errors ignored.
claimSuppressed(t) ==
    /\ t.op = "suppress"
    /\ \/ Works /\ counter' = counter + 1 /\ UNCHANGED lost
       \/ Fails /\ lost' = lost + 1 /\ UNCHANGED counter
    /\ Step(t, "bridge")
    /\ UNCHANGED <<n, tableVars, ledger, log, fallback, gate, alerts, matched, sinkVars, rebuildVars, ticks, crashes, persisted>>

\* Mutant: the count is read and left in place.
GetCount == counter

\* GetDel takes the count away with the read.
GetDelCount == 0

\* The window's opener takes the count that built up under the previous one.
claimOpened(t) ==
    /\ t.op = "collect"
    /\ \/ /\ Works /\ counter' = GetDelCount
          /\ tasks' = (tasks \ {t}) \cup {[op |-> "enqueue", cli |-> FALSE, row |-> t.row, caller |-> t.caller,
                                           suppressed |-> counter]}
       \/ Fails /\ Step(t, "enqueue0") /\ UNCHANGED counter
    /\ UNCHANGED <<n, tableVars, ledger, log, fallback, gate, alerts, matched, lost, sinkVars, rebuildVars, ticks,
                   crashes, persisted>>

Suppressed(t) == IF t.op = "enqueue" THEN t.suppressed ELSE 0

\* The alert goes to the outbox, which does not lose it.
Enqueue(t) ==
    /\ t.op \in {"enqueue", "enqueue0"}
    /\ \/ Works /\ alerts' = Append(alerts, 1 + Suppressed(t)) /\ UNCHANGED lost
       \/ Fails /\ lost' = lost + 1 + Suppressed(t) /\ UNCHANGED alerts
    /\ tasks' = (tasks \ {t}) \cup {[op |-> "bridge", cli |-> FALSE, row |-> t.row, caller |-> t.caller]}
    /\ UNCHANGED <<n, tableVars, ledger, log, fallback, gate, counter, matched, sinkVars, rebuildVars, ticks, crashes, persisted>>

\* The last statement: capture for the ledger what no audited table captured.
bridgeToChain(t) ==
    /\ t.op = "bridge" /\ tasks' = tasks \ {t}
    /\ LET class == chainClassForEvent(t.row.type) IN
       \/ Works /\ class = "none" /\ UNCHANGED <<ledger, fallback>>
       \/ Works /\ class # "none" /\ Capture(<<[ev |-> t.row.ev, row |-> Nil, class |-> class]>>)
          /\ UNCHANGED fallback
       \/ /\ Fails /\ class # "none"
          /\ fallback' = [fallback EXCEPT !.chain = @ \cup {t.row.ev}]
          /\ UNCHANGED ledger
    /\ UNCHANGED <<n, tableVars, log, alertVars, sinkVars, rebuildVars, ticks, crashes, persisted>>

\* The gate's five minutes are over, or the counter's twenty, which start anew with
\* every suppressed occurrence: the gate is gone first.
GateExpires ==
    /\ ticks < MaxTicks /\ ticks' = ticks + 1
    /\ \/ gate /\ gate' = FALSE /\ UNCHANGED <<counter, lost>>
       \/ ~ gate /\ counter > 0 /\ lost' = lost + counter /\ counter' = 0 /\ UNCHANGED gate
    /\ UNCHANGED <<trailVars, alerts, matched, sinkVars, rebuildVars, faults, crashes, persisted>>

-----------------------------------------------------------------------------
\* The mirror's worker and its connection.

\* One write, with one reconnect if the connection had gone: sent, or failed.
write(ev) ==
    \/ /\ conn = "open" /\ mirror' = [mirror EXCEPT !.sent = @ \cup {ev}] /\ UNCHANGED <<conn, faults>>
    \/ /\ conn # "open" /\ Works
       /\ conn' = "open" /\ mirror' = [mirror EXCEPT !.sent = @ \cup {ev}]
    \/ /\ conn # "open" /\ Fails
       /\ conn' = "none" /\ mirror' = [mirror EXCEPT !.failed = @ \cup {ev}]

send ==
    /\ worker \in {"run", "drain"} /\ queue # <<>>
    /\ write(Head(queue)) /\ queue' = Tail(queue)
    /\ UNCHANGED <<trailVars, alertVars, worker, rebuildVars, ticks, crashes, persisted>>

\* It empties the queue first.
drain == worker' = "drain"

\* Shutdown has closed the stop channel; requests are still served meanwhile.
Close ==
    /\ worker = "run" /\ drain
    /\ UNCHANGED <<trailVars, alertVars, queue, conn, mirror, rebuildVars, faults, ticks, crashes, persisted>>

Drained ==
    /\ worker = "drain" /\ queue = <<>> /\ worker' = "returned"
    /\ UNCHANGED <<trailVars, alertVars, queue, conn, mirror, rebuildVars, faults, ticks, crashes, persisted>>

\* Close returns, drained or out of time, and closes the connection under a worker that
\* may still be sending.
CloseReturns ==
    /\ worker \in {"drain", "returned"} /\ conn # "none" /\ conn' = "none"
    /\ ticks < MaxTicks /\ ticks' = ticks + 1
    /\ UNCHANGED <<trailVars, alertVars, queue, worker, mirror, rebuildVars, faults, crashes, persisted>>

\* The collector restarts: the connection is dead, which only a write finds out.
CollectorRestarts ==
    /\ conn = "open" /\ conn' = "stale"
    /\ ticks < MaxTicks /\ ticks' = ticks + 1
    /\ UNCHANGED <<trailVars, alertVars, queue, worker, mirror, rebuildVars, faults, crashes, persisted>>

\* What a goroutine still holds of the occurrences to report.
Held(t) ==
    CASE t.op \in {"claim", "suppress", "collect", "enqueue0"} -> 1
      [] t.op = "enqueue" -> 1 + t.suppressed
      [] OTHER -> 0

\* The process dies, after a shutdown or without one, and starts again.
Crash ==
    /\ crashes < MaxCrashes /\ crashes' = crashes + 1
    /\ lost' = lost + MapThenSumSet(Held, {t \in tasks : ~ t.cli})
    /\ tasks' = {t \in tasks : t.cli}
    /\ fallback' = [fallback EXCEPT !.log = @ \cup {t.row.ev : t \in {u \in tasks : ~ u.cli /\ u.op = "create"}},
                                    !.chain = @ \cup {t.row.ev : t \in {u \in tasks : ~ u.cli}}]
    /\ queue' = <<>> /\ worker' = "run" /\ conn' = "none"
    /\ mirror' = [mirror EXCEPT !.late = @ \cup ToSet(queue)]
    /\ UNCHANGED <<n, tableVars, ledger, log, gate, counter, alerts, matched, rebuildVars, faults, ticks, persisted>>

-----------------------------------------------------------------------------
\* audit-rebuild, and the retention it repairs.

\* The log row an entry projects to: its id is the negated entry's, so that a second
\* pass finds it there.
projectEntry(i) == [ev |-> 0 - i, type |-> ledger[i].class, actor |-> Nil, kind |-> "", about |-> ledger[i].row]

cursorAfter(batch) == Max(batch)

Purge ==
    /\ log # {} /\ ticks < MaxTicks /\ ticks' = ticks + 1
    /\ \E row \in log : log' = log \ {row} /\ purged' = purged \cup {row.ev}
    /\ UNCHANGED <<n, tableVars, ledger, tasks, fallback, alertVars, sinkVars, rebuild, through, faults, crashes, persisted>>

runAuditRebuild ==
    /\ rebuild = Nil /\ ledger # <<>>
    /\ rebuild' = 1                         \* one more than the cursor, so that Nil is free
    /\ UNCHANGED <<trailVars, alertVars, sinkVars, through, purged, faults, ticks, crashes, persisted>>

\* The next batch after the cursor, or the end.
RebuildFromLedger ==
    /\ rebuild # Nil
    /\ LET batch == {i \in 1..Len(ledger) : rebuild <= i /\ i < rebuild + Batch} IN
       IF batch = {}
       THEN rebuild' = Nil /\ UNCHANGED <<log, through, purged>>
       ELSE /\ log' = log \cup {projectEntry(i) : i \in batch}
            /\ purged' = purged \ {0 - i : i \in batch}
            /\ rebuild' = cursorAfter(batch) + 1
            /\ through' = Max({through, Max(batch)})
    /\ UNCHANGED <<n, tableVars, ledger, tasks, fallback, alertVars, sinkVars, faults, ticks, crashes, persisted>>

-----------------------------------------------------------------------------

Handlers ==
    \E t \in tasks :
        CreateLog(t) \/ forward(t) \/ Dispatch(t) \/ claim(t) \/ claimSuppressed(t) \/ claimOpened(t)
        \/ Enqueue(t) \/ bridgeToChain(t)

\* Which requests come, and which of the surroundings move: the ledger and its rebuild,
\* the alerts of repeated failures, or the mirror.
LedgerNext ==
    \/ \E rows \in SUBSET Rows :
          beforeSnapshot("update", rows, 1) \/ beforeSnapshot("delete", rows, 1) \/ CreateRows(rows, 1)
    \/ \E s \in stmts : Execute(s)
    \/ \E type \in {"session.kicked", "user.pii_view", "app.launched"} : PublishEvent(type, 1, 1)
    \/ PublishEvent("session.kicked", 1, Nil) \/ RecordOutOfBand(2)
    \/ Handlers \/ Purge \/ runAuditRebuild \/ RebuildFromLedger

AlertNext == PublishEvent("login.failed", 1, Nil) \/ Handlers \/ GateExpires \/ Crash

MirrorNext ==
    \/ RecordAPIRequest(1) \/ PublishEvent("login.failed", 1, Nil) \/ Handlers
    \/ send \/ Close \/ Drained \/ CloseReturns \/ CollectorRestarts \/ Crash

Next == LedgerNext \/ AlertNext \/ MirrorNext

Spec == Init /\ [][Next]_vars

-----------------------------------------------------------------------------

\* How often an event, or one row's change under it, is in the ledger.
Captured(ev, row) == Cardinality({i \in 1..Len(ledger) : ledger[i].ev = ev /\ ledger[i].row = row})

\* Every committed change of an audited row is in the ledger exactly once and nothing else
\* is, but for the rows a batch insert has beside its first and for statements another
\* one ran across between the snapshot and the statement; an event with no table behind it is there
\* at most once, and once its handler is through unless an error line says otherwise
\* (captureUpdate, captureCreate, chainClassForEvent, bridgeToChain).
CapturedOnce ==
    /\ \A c \in changed \ (batched \cup crossed) : Captured(c.ev, c.row) = 1
    /\ \A i \in 1..Len(ledger) :
          ledger[i].row # Nil => [ev |-> ledger[i].ev, row |-> ledger[i].row] \in changed \cup crossed
    /\ \A c \in changed : Captured(c.ev, Nil) = 0
    /\ \A e \in persisted \ ({t.row.ev : t \in tasks} \cup fallback.chain \cup {c.ev : c \in changed}) :
          \A row \in log : row.ev = e /\ chainClassForEvent(row.type) # "none" => Captured(e, Nil) = 1

\* Whoever did it is the row's actor: the caller, or the account that signed in where
\* there is none, and only an event with neither is the system's (enrich, SessionRow).
Attributed ==
    \A row \in log :
        /\ row.kind = "system" => row.actor = Nil
        /\ row.type = "login.failed" => row.actor # Nil /\ row.kind = "user"
        /\ row.type \in {"api.put", "app.launched", "user.pii_view"} => row.actor # Nil

\* The mirror's outcomes are exclusive and cover every record once: queued, sent,
\* dropped, failed, or left behind by a stopping process; and it never holds a record
\* the database does not (createLog, Forward, send).
MirrorAccounted ==
    LET settled == mirror.sent \cup mirror.dropped \cup mirror.failed IN
    /\ ToSet(queue) \cap settled = {}
    /\ mirror.sent \cap mirror.dropped = {} /\ mirror.failed \cap (mirror.sent \cup mirror.dropped) = {}
    /\ ToSet(queue) \cup settled \cup mirror.late \subseteq persisted

\* A mirror that was closed in order leaves nothing it had accepted before
\* (run's drain loop).
DrainedAtClose == worker = "returned" => ToSet(queue) \subseteq mirror.late

\* Every occurrence the policy selects is reported by an alert, counted for the next
\* one, in the hands of a handler, or among those an error, a crash or the counter's
\* expiry lost; none is reported twice (claim, Dispatch).
AlertsAccounted ==
    matched = FoldLeft(LAMBDA a, b : a + b, 0, alerts) + counter + lost
              + MapThenSumSet(Held, {t \in tasks : ~ t.cli})

\* Every entry a rebuild has passed has its row again, unless retention took it since
\* (RebuildFromLedger).
RebuiltThrough == \A i \in 1..through : (\E row \in log : row.ev = 0 - i) \/ 0 - i \in purged
=============================================================================
