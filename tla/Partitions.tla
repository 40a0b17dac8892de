----------------------------- MODULE Partitions -----------------------------
(***************************************************************************)
(* The monthly partitions of mxid_audit_log (pkg/pgpartition) and the two  *)
(* jobs that keep them (app/run.go): runAuditPartitionMaintenance rolls    *)
(* partitions forward, runAuditRetention drops and purges what is past the *)
(* policy.  Either may run on two replicas during a failover.  An operator *)
(* adopts the rows the DEFAULT partition caught, and audit-rebuild inserts *)
(* rows of the past.  Time is counted in parts of a month.                 *)
(***************************************************************************)
EXTENDS Integers, FiniteSets, FiniteSetsExt

CONSTANTS
    Provisioners, Sweepers,     \* replicas that run the one job and the other
    MonthLen,       \* clock readings in a month
    Ahead,          \* months provisioned beyond the current one
    Retention,      \* of the audit policy, in clock readings
    MaxTime, MaxRows    \* bounds

VARIABLES
    clock,
    parts,          \* months with a partition attached
    backstop,       \* is the DEFAULT partition there
    logged,         \* rows of the table, with the partition each is in
    inserts,        \* rows inserted so far
    pass,           \* per replica: the maintenance pass
    sweep,          \* per replica: the retention pass
    provided,       \* history: the last month a pass found or made provided for
    taken           \* history: rows removed within the policy

partitionVars == <<clock, parts, backstop, logged, inserts, pass, sweep, provided, taken>>

Default == -1
Resting == [op |-> "idle"]
monthStart(t) == t \div MonthLen

\* The month of the installation has its partition, the backstop comes with the first
\* maintenance pass.
Init ==
    /\ clock = 0 /\ parts = {0} /\ backstop = FALSE /\ logged = {} /\ inserts = 0
    /\ pass = [r \in Provisioners |-> Resting] /\ sweep = [r \in Sweepers |-> Resting]
    /\ provided = 0 /\ taken = {}

In(p) == {row \in logged : row.in = p}

-----------------------------------------------------------------------------
\* Writing.

\* PostgreSQL routes a row by its time; with no partition for it the insert fails.
Insert(at) ==
    /\ inserts < MaxRows /\ inserts' = inserts + 1
    /\ LET into == IF monthStart(at) \in parts THEN monthStart(at) ELSE Default IN
       logged' = IF into = Default /\ ~ backstop THEN logged ELSE logged \cup {[id |-> inserts, at |-> at, in |-> into]}
    /\ UNCHANGED <<clock, parts, backstop, pass, sweep, provided, taken>>

Tick ==
    /\ clock < MaxTime /\ clock' = clock + 1
    /\ UNCHANGED <<parts, backstop, logged, inserts, pass, sweep, provided, taken>>

-----------------------------------------------------------------------------
\* Ensure, statement by statement.  A failing statement ends the pass.

To(r, p) == pass' = [pass EXCEPT ![r] = p]

relationExists(month) == month \in parts

\* ensureDefault looks for the backstop.
Ensure(r) ==
    /\ pass[r].op = "idle"
    /\ To(r, [op |-> IF backstop THEN "start" ELSE "default"])
    /\ UNCHANGED <<clock, parts, backstop, logged, inserts, sweep, provided, taken>>

\* It is created unless the other replica was faster.
ensureDefault(r) ==
    /\ pass[r].op = "default"
    /\ To(r, IF backstop THEN Resting ELSE [op |-> "start"])
    /\ backstop' = TRUE
    /\ UNCHANGED <<clock, parts, logged, inserts, sweep, provided, taken>>

\* The current month is read once for the whole pass.
EnsureFrom(r) ==
    /\ pass[r].op = "start"
    /\ To(r, [op |-> "month", from |-> monthStart(clock), i |-> 0])
    /\ UNCHANGED <<clock, parts, backstop, logged, inserts, sweep, provided, taken>>

Further(i) == i > Ahead

\* The next month of the pass, or its end.
EnsureMonth(r) ==
    LET p == pass[r] IN
    /\ p.op = "month"
    /\ \/ /\ Further(p.i)
          /\ To(r, Resting) /\ provided' = Max({provided, p.from + Ahead})
       \/ /\ ~ Further(p.i)
          /\ To(r, IF relationExists(p.from + p.i) THEN [p EXCEPT !.i = @ + 1] ELSE [p EXCEPT !.op = "create"])
          /\ UNCHANGED provided
    /\ UNCHANGED <<clock, parts, backstop, logged, inserts, sweep, taken>>

\* CREATE TABLE fails where the other replica made it, and where the backstop holds rows
\* of that month; the later months are then not looked at.
CreatePartition(r) ==
    LET p == pass[r]
        month == p.from + p.i IN
    /\ p.op = "create"
    /\ IF month \in parts \/ \E row \in In(Default) : monthStart(row.at) = month
       THEN To(r, Resting) /\ UNCHANGED parts
       ELSE To(r, [p EXCEPT !.op = "month", !.i = @ + 1]) /\ parts' = parts \cup {month}
    /\ UNCHANGED <<clock, backstop, logged, inserts, sweep, provided, taken>>

\* The month's rows move out of the backstop.
MoveRows(month) == {IF row.in = Default /\ monthStart(row.at) = month THEN [row EXCEPT !.in = month] ELSE row : row \in logged}

\* One transaction under an exclusive lock; refused where the partition is there.
Adopt(month) ==
    /\ backstop /\ ~ relationExists(month)
    /\ parts' = parts \cup {month} /\ logged' = MoveRows(month)
    /\ UNCHANGED <<clock, backstop, inserts, pass, sweep, provided, taken>>

-----------------------------------------------------------------------------
\* Retention.

SweepTo(r, s) == sweep' = [sweep EXCEPT ![r] = s]

\* Rows that go although the policy of the moment keeps them.
Early(rows) == {row.id : row \in {x \in rows : x.at >= clock - Retention}}

\* It goes once all of its range is.
WhollyBefore(month, cutoff) == (month + 1) * MonthLen <= cutoff

\* The attached partitions with the bounds the catalog has for them; DEFAULT has none.
List == parts

\* What the pass is going to drop, by the cutoff of its start.
runAuditRetention(r) ==
    /\ sweep[r].op = "idle"
    /\ LET cutoff == clock - Retention IN
       SweepTo(r, [op |-> "drop", cutoff |-> cutoff, list |-> {m \in List : WhollyBefore(m, cutoff)}])
    /\ UNCHANGED <<clock, parts, backstop, logged, inserts, pass, provided, taken>>

\* One DROP TABLE, the oldest first; one that another replica dropped ends the loop.
DropOlderThan(r) ==
    LET s == sweep[r] IN
    /\ s.op = "drop" /\ s.list # {}
    /\ LET month == Min(s.list) IN
       IF month \in parts
       THEN /\ parts' = parts \ {month} /\ logged' = logged \ In(month)
            /\ taken' = taken \cup Early(In(month))
            /\ SweepTo(r, [s EXCEPT !.list = @ \ {month}])
       ELSE SweepTo(r, [s EXCEPT !.list = {}]) /\ UNCHANGED <<parts, logged, taken>>
    /\ UNCHANGED <<clock, backstop, inserts, pass, provided>>

\* The rest by row, whether or not the drops went through.
PurgeOlderThan(r) ==
    LET s == sweep[r]
        old == {row \in logged : row.at < s.cutoff} IN
    /\ s.op = "drop" /\ s.list = {}
    /\ logged' = logged \ old /\ taken' = taken \cup Early(old)
    /\ SweepTo(r, Resting)
    /\ UNCHANGED <<clock, parts, backstop, inserts, pass, provided>>

TableStep ==
    \/ Tick
    \/ \E at \in {clock, 0} : Insert(at)
    \/ \E month \in 0..monthStart(clock) : Adopt(month)

ProvisionStep(r) == Ensure(r) \/ ensureDefault(r) \/ EnsureFrom(r) \/ EnsureMonth(r) \/ CreatePartition(r)

SweepStep(r) == runAuditRetention(r) \/ DropOlderThan(r) \/ PurgeOlderThan(r)

Next == TableStep \/ (\E r \in Provisioners : ProvisionStep(r)) \/ (\E r \in Sweepers : SweepStep(r))

Spec == Init /\ [][Next]_partitionVars

-----------------------------------------------------------------------------

\* A row is in the partition of its month, or in the backstop while that month has none:
\* nothing PostgreSQL would refuse, and no row a query of its month would miss
\* (CreatePartition, Adopt).
RowsPlaced ==
    \A row \in logged :
        IF row.in = Default THEN backstop /\ monthStart(row.at) \notin parts
        ELSE row.in = monthStart(row.at) /\ row.in \in parts

\* Retention takes no row the policy still keeps, whatever the list of partitions has
\* come to since it was read (DropOlderThan, PurgeOlderThan).
InPolicyKept == taken = {}

\* After a pass that ended well, writes have a partition of their own for as many months
\* as it promised (Ensure).
HeadroomHolds == monthStart(clock) <= provided => monthStart(clock) \in parts
=============================================================================
