------------------------------- MODULE Startup -------------------------------
(***************************************************************************)
(* A replica from its start to its stop (app/run.go Run,                   *)
(* internal/bootstrap/{app,migration,admin_credential}.go): migrations,    *)
(* the seeded administrator's password, the background workers, and the    *)
(* shutdown that waits for them.  Several replicas start at once against   *)
(* one database, in release mode, each with an initial password in its     *)
(* environment or without; an operator changes the password meanwhile.     *)
(***************************************************************************)
EXTENDS Naturals

CONSTANTS
    Pods,
    WithPassword,   \* the pods whose environment sets the initial password
    MaxStarts       \* bound

VARIABLES
    schema,         \* are the migrations applied
    admin,          \* the administrator's row
    pod,            \* per pod: how far its process has come
    worker,         \* per pod: its background worker
    connection,     \* per pod: the connections to the database and Redis
    operator,       \* the operator's change of the password
    starts,
    overtaken,      \* history: a pod wrote over a password somebody chose
    hurried         \* history: pods that gave up waiting for their worker

startupVars == <<schema, admin, pod, worker, connection, operator, starts, overtaken, hurried>>

Init ==
    /\ schema = FALSE /\ admin = [hash |-> "none", must |-> FALSE, status |-> "active"]
    /\ pod = [p \in Pods |-> "down"] /\ worker = [p \in Pods |-> "none"]
    /\ connection = [p \in Pods |-> "closed"]
    /\ operator = "idle" /\ starts = 0 /\ overtaken = FALSE /\ hurried = {}

To(p, at) == pod' = [pod EXCEPT ![p] = at]

-----------------------------------------------------------------------------
\* Starting.  Any statement may fail, which ends the process before it serves.

\* Configuration, database, Redis and keys, or exit.
NewApp(p) ==
    /\ pod[p] = "down" /\ starts < MaxStarts /\ starts' = starts + 1
    /\ To(p, "migrate") /\ connection' = [connection EXCEPT ![p] = "open"]
    /\ UNCHANGED <<schema, admin, worker, operator, overtaken, hurried>>

\* The first pod seeds the account; the migrations' lock makes the others find no change.
RunMigrations(p) ==
    /\ pod[p] = "migrate" /\ To(p, "secure")
    /\ schema' = TRUE
    /\ admin' = IF schema THEN admin ELSE [hash |-> "seeded", must |-> FALSE, status |-> "active"]
    /\ UNCHANGED <<worker, connection, operator, starts, overtaken, hurried>>

\* Is the seeded hash still there?
SecureSeededAdmin(p) ==
    /\ pod[p] = "secure"
    /\ To(p, IF admin.hash # "seeded" THEN "register" ELSE IF p \in WithPassword THEN "replace" ELSE "flag")
    /\ UNCHANGED <<schema, admin, worker, connection, operator, starts, overtaken, hurried>>

\* The write goes by the name alone.
AnyAdmin == TRUE
\* Every write is conditional on the seeded hash.
StillSeeded == admin.hash = "seeded"

\* The password of the environment, to be changed at the first sign-in; a lock is undone.
replaceSeededAdmin(p) ==
    /\ pod[p] = "replace" /\ To(p, "register")
    /\ IF StillSeeded
       THEN /\ admin' = [hash |-> "env", must |-> TRUE, status |-> "active"]
            /\ overtaken' = (overtaken \/ admin.hash = "own")
       ELSE UNCHANGED <<admin, overtaken>>
    /\ UNCHANGED <<schema, worker, connection, operator, starts, hurried>>

flagSeededAdmin(p) ==
    /\ pod[p] = "flag" /\ To(p, "register")
    /\ IF StillSeeded
       THEN /\ admin' = [admin EXCEPT !.must = TRUE, !.status = "active"]
            /\ overtaken' = (overtaken \/ admin.hash = "own")
       ELSE UNCHANGED <<admin, overtaken>>
    /\ UNCHANGED <<schema, worker, connection, operator, starts, hurried>>

\* registerModules starts the worker, then Run listens.
SpawnWorker(p) ==
    /\ pod[p] = "register" /\ To(p, "serve") /\ worker' = [worker EXCEPT ![p] = "running"]
    /\ UNCHANGED <<schema, admin, connection, operator, starts, overtaken, hurried>>

\* A statement of the start fails, or the process is killed at any time.
Exit(p) ==
    /\ pod[p] # "down" /\ To(p, "down")
    /\ worker' = [worker EXCEPT ![p] = "none"] /\ connection' = [connection EXCEPT ![p] = "closed"]
    /\ hurried' = hurried \ {p}
    /\ UNCHANGED <<schema, admin, operator, starts, overtaken>>

-----------------------------------------------------------------------------
\* Serving and stopping.

\* A panic ends the worker and not the process.
WorkerPanics(p) ==
    /\ worker[p] = "running" /\ pod[p] = "serve" /\ worker' = [worker EXCEPT ![p] = "none"]
    /\ UNCHANGED <<schema, admin, pod, connection, operator, starts, overtaken, hurried>>

\* SIGTERM cancels the workers' context and begins Shutdown.
Sigterm(p) ==
    /\ pod[p] = "serve" /\ To(p, "shutdown")
    /\ UNCHANGED <<schema, admin, worker, connection, operator, starts, overtaken, hurried>>

\* The worker notices between two ticks.
WorkerReturns(p) ==
    /\ worker[p] = "running" /\ pod[p] \in {"shutdown", "cleanup", "close"} /\ worker' = [worker EXCEPT ![p] = "none"]
    /\ UNCHANGED <<schema, admin, pod, connection, operator, starts, overtaken, hurried>>

\* The listeners are closed; requests that do not end in time make it an Exit.
Shutdown(p) ==
    /\ pod[p] = "shutdown" /\ To(p, "cleanup")
    /\ UNCHANGED <<schema, admin, worker, connection, operator, starts, overtaken, hurried>>

\* The wait ends with the workers or with its time.
Wait(p) ==
    /\ To(p, "close")
    /\ hurried' = IF worker[p] = "running" THEN hurried \cup {p} ELSE hurried

cleanup(p) ==
    /\ pod[p] = "cleanup" /\ Wait(p)
    /\ UNCHANGED <<schema, admin, worker, connection, operator, starts, overtaken>>

CloseConnections(p) ==
    /\ pod[p] = "close" /\ connection[p] = "open" /\ connection' = [connection EXCEPT ![p] = "closed"]
    /\ UNCHANGED <<schema, admin, pod, worker, operator, starts, overtaken, hurried>>

-----------------------------------------------------------------------------
\* The operator, through a pod that serves: the old password is proved, the new one
\* written later; the login limiter may lock the account.
ProvePassword ==
    /\ operator = "idle" /\ \E p \in Pods : pod[p] = "serve"
    /\ operator' = "proved"
    /\ UNCHANGED <<schema, admin, pod, worker, connection, starts, overtaken, hurried>>

ChangePassword ==
    /\ operator = "proved" /\ operator' = "idle"
    /\ admin' = [admin EXCEPT !.hash = "own", !.must = FALSE]
    /\ UNCHANGED <<schema, pod, worker, connection, starts, overtaken, hurried>>

LockUser ==
    /\ \E p \in Pods : pod[p] = "serve"
    /\ admin' = [admin EXCEPT !.status = "locked"]
    /\ UNCHANGED <<schema, pod, worker, connection, operator, starts, overtaken, hurried>>

Next ==
    \/ \E p \in Pods :
          \/ NewApp(p) \/ RunMigrations(p) \/ SecureSeededAdmin(p) \/ replaceSeededAdmin(p) \/ flagSeededAdmin(p)
          \/ SpawnWorker(p) \/ Exit(p) \/ WorkerPanics(p) \/ Sigterm(p) \/ WorkerReturns(p) \/ Shutdown(p)
          \/ cleanup(p) \/ CloseConnections(p)
    \/ ProvePassword \/ ChangePassword \/ LockUser

Spec == Init /\ [][Next]_startupVars

-----------------------------------------------------------------------------

\* "no release deployment serves with the seeded administrator credential": a pod that
\* serves has seen it replaced, or the account owes a change (SecureSeededAdmin).
NoSeededCredential == (\E p \in Pods : pod[p] = "serve") => admin.hash # "seeded" \/ admin.must

\* "Safe under concurrent startup": a start never touches a password somebody chose,
\* however long ago it looked (SecureSeededAdmin's conditional writes).
ChosenStays == ~ overtaken

\* The connections are not closed underneath a worker, unless it did not return in the
\* time cleanup waits (SpawnWorker, cleanup).
ClosedAfterWorkers ==
    \A p \in Pods : connection[p] = "closed" /\ worker[p] = "running" => p \in hurried
=============================================================================
