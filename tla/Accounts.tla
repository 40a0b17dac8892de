------------------------------ MODULE Accounts ------------------------------
(***************************************************************************)
(* User accounts (internal/domain/user) and the subscribers that cut an    *)
(* account's sessions (app/run.go).  Administrators and the account's      *)
(* owner act at once, each request reading the row in one statement and    *)
(* writing in a later one; events reach their subscribers in goroutines of *)
(* their own, in any order, and are lost with the process.                 *)
(***************************************************************************)
EXTENDS Naturals, FiniteSets

CONSTANTS
    Users, Admin,   \* Admin is the seeded super administrator
    Passwords, Initial, NoPassword,
    Ext,            \* stands for a session begun at an external provider
    Workers,
    UserCap,        \* the licence's cap, 0 for none
    HistoryCount,   \* of the password policy
    MaxRequests, MaxCrashes     \* bounds

VARIABLES
    users,          \* mxid_user; locked and disabled are both "blocked" here
    history,        \* mxid_user_password_history, newest first, per user
    sessions,       \* per user: what each live session was begun with
    events,         \* published and not yet handled: <<subscriber, user>>
    req,            \* per worker: the request it is in the middle of
    count,          \* requests and restarts so far
    torn,           \* users whose row was saved from a read that had gone stale
    excused,        \* users whose sessions escaped a cut-off, see CutOff
    waived          \* the last super administrator was given up, see KeepsSuperAdmin

vars == <<users, history, sessions, events, req, count, torn, excused, waived>>
ghosts == <<torn, excused, waived>>

Absent == [st |-> "absent", status |-> "active", pwd |-> NoPassword, sa |-> FALSE]
Free == [op |-> "idle"]

Init ==
    /\ users = [u \in Users |-> IF u = Admin
                  THEN [Absent EXCEPT !.st = "live", !.pwd = Initial, !.sa = TRUE] ELSE Absent]
    /\ history = [u \in Users |-> {}]
    /\ sessions = [u \in Users |-> {}]
    /\ events = {} /\ req = [w \in Workers |-> Free]
    /\ count = [requests |-> 0, crashes |-> 0]
    /\ torn = {} /\ excused = {} /\ waived = FALSE

Live(u) == users[u].st = "live"
Blocked(u) == ~ Live(u) \/ users[u].status # "active"

Start(w, r) ==
    /\ req[w] = Free /\ count.requests < MaxRequests
    /\ count' = [count EXCEPT !.requests = @ + 1]
    /\ req' = [req EXCEPT ![w] = r]

Finish(w) == req' = [req EXCEPT ![w] = Free] /\ UNCHANGED count

Once == count.requests < MaxRequests /\ count' = [count EXCEPT !.requests = @ + 1] /\ UNCHANGED req

Read(w, u, r) == Live(u) /\ Start(w, r)
                 /\ UNCHANGED <<users, history, sessions, events, ghosts>>

(***************************************************************************)
(* Creating and editing.                                                   *)
(***************************************************************************)

\* CountAll and the licence's cap: checked before the insert, in its own query.
licenseQuota == UserCap = 0 \/ Cardinality({u \in Users : Live(u)}) < UserCap

Create(w, u, p) ==
    /\ licenseQuota /\ users[u].st = "absent"
    /\ Start(w, [op |-> "Insert", u |-> u, pwd |-> p])
    /\ UNCHANGED <<users, history, sessions, events, ghosts>>

\* CreateWithProfile: user, detail and history in one transaction; the username's
\* unique index refuses the second of two.
CreateWithProfile(w) ==
    LET r == req[w] IN
    /\ r.op = "Insert"
    /\ Finish(w)
    /\ IF users[r.u].st = "absent"
       THEN /\ users' = [users EXCEPT ![r.u] = [Absent EXCEPT !.st = "live", !.pwd = r.pwd]]
            /\ history' = [history EXCEPT ![r.u] = {r.pwd} \ {NoPassword}]
       ELSE UNCHANGED <<users, history>>
    /\ UNCHANGED <<sessions, events, torn, excused, waived>>

\* Update: any column may be edited; the whole row is kept until it is saved.
Update(w, u, status) ==
    Read(w, u, [op |-> "Save", u |-> u, row |-> users[u], status |-> status])

\* gorm's Save: all columns as they were read, and deleted_at with them.
SaveUser(w) ==
    LET r == req[w] IN
    /\ r.op = "Save"
    /\ Finish(w)
    /\ users' = [users EXCEPT ![r.u] = [r.row EXCEPT !.status = r.status]]
    /\ torn' = IF users[r.u] = r.row THEN torn ELSE torn \cup {r.u}
    \* The event carries no status, so that no session is revoked.
    /\ excused' = IF r.status \notin {"active", r.row.status} THEN excused \cup {r.u} ELSE excused
    /\ waived' = (waived \/ users[r.u].sa # r.row.sa)
    /\ UNCHANGED <<history, sessions, events>>

\* Delete: the bindings are swept, then the row is soft-deleted.
Delete(u) ==
    /\ Live(u) /\ Once
    /\ users' = [users EXCEPT ![u].st = "deleted"]
    /\ events' = events \cup {<<"UserDeleted", u>>}
    /\ waived' = (waived \/ users[u].sa)
    /\ UNCHANGED <<history, sessions, torn, excused>>

RestoreUser(u) ==
    /\ users[u].st = "deleted" /\ Once
    /\ users' = [users EXCEPT ![u].st = "live"]
    /\ UNCHANGED <<history, sessions, events, ghosts>>

\* Mutant: the new status is not reported.
NoStatusEvent(u, s) == {}

\* What revokeOnAdminStatusChange acts on: locking and disabling report the status.
StatusEvent(u, s) == IF s = "active" THEN {} ELSE {<<"StatusChanged", u>>}

\* UpdateStatus, LockUser, UnlockUser: one UPDATE of the column, then the event.
UpdateStatus(u, s) ==
    /\ Live(u) /\ Once
    /\ users' = [users EXCEPT ![u].status = s]
    /\ events' = events \cup StatusEvent(u, s)
    /\ UNCHANGED <<history, sessions, ghosts>>

LockUser(u) == UpdateStatus(u, "blocked")
UnlockUser(u) == UpdateStatus(u, "active")

\* BatchAction disables, enables or deletes each user in turn; delete needs the
\* permission and a fresh step-up, which the request has or is refused.
BatchAction(u) == UpdateStatus(u, "blocked") \/ Delete(u)

(***************************************************************************)
(* Passwords.                                                              *)
(***************************************************************************)

\* checkPasswordHistory, for accounts with no more than HistoryCount passwords.
checkPasswordHistory(u, p) == HistoryCount = 0 \/ p \notin history[u]

\* ChangePassword: the owner proves the old password; history is checked.
ChangePassword(w, u, p) ==
    /\ users[u].pwd \in Passwords /\ checkPasswordHistory(u, p)
    /\ Read(w, u, [op |-> "SetPassword", u |-> u, pwd |-> p])

\* SetInitialPassword: only for an account without a usable password.
SetInitialPassword(w, u, p) ==
    /\ users[u].pwd = NoPassword /\ checkPasswordHistory(u, p)
    /\ Read(w, u, [op |-> "SetPassword", u |-> u, pwd |-> p])

\* The portal's changePassword ends the owner's sessions but the one it came with.
revokeOthers(u, p) == IF sessions[u] = {} THEN {} ELSE {p}

UpdatePassword(w) ==
    LET r == req[w] IN
    /\ r.op = "SetPassword"
    /\ IF Live(r.u)
       THEN /\ users' = [users EXCEPT ![r.u].pwd = r.pwd]
            /\ sessions' = [sessions EXCEPT ![r.u] = revokeOthers(r.u, r.pwd)]
            /\ req' = [req EXCEPT ![w] = [op |-> "History", u |-> r.u, pwd |-> r.pwd]]
       ELSE UNCHANGED <<users, sessions>> /\ req' = [req EXCEPT ![w] = Free]
    /\ UNCHANGED <<history, events, count, torn, excused, waived>>

\* CreatePasswordHistory, a statement of its own.
CreatePasswordHistory(w) ==
    LET r == req[w] IN
    /\ r.op = "History"
    /\ history' = [history EXCEPT ![r.u] = @ \cup {r.pwd}]
    /\ Finish(w)
    /\ UNCHANGED <<users, sessions, events, ghosts>>

ResetPassword(w, u, p) ==
    /\ checkPasswordHistory(u, p)
    /\ Read(w, u, [op |-> "Reset", u |-> u, pwd |-> p])

\* ResetPasswordTx: password and history together; then admin_reset.
ResetPasswordTx(w) ==
    LET r == req[w] IN
    /\ r.op = "Reset"
    /\ Finish(w)
    /\ IF Live(r.u)
       THEN /\ users' = [users EXCEPT ![r.u].pwd = r.pwd]
            /\ history' = [history EXCEPT ![r.u] = @ \cup {r.pwd}]
            /\ events' = events \cup {<<"PasswordReset", r.u>>}
       ELSE UNCHANGED <<users, history, events>>
    /\ UNCHANGED <<sessions, torn, excused, waived>>

\* `admin reset-password`, from a process that serves nothing, with the same
\* checks.
runResetPassword(w, u, p, unlock) ==
    /\ checkPasswordHistory(u, p)
    /\ Read(w, u, [op |-> "OutOfBand", u |-> u, pwd |-> p, unlock |-> unlock])

\* The reset; no subscriber lives in that process, so that the event revokes no session.
ResetOutOfBand(w) ==
    LET r == req[w] IN
    /\ r.op = "OutOfBand"
    /\ req' = [req EXCEPT ![w] = IF r.unlock /\ Live(r.u) THEN [op |-> "UnlockOutOfBand", u |-> r.u] ELSE Free]
    /\ IF Live(r.u)
       THEN /\ users' = [users EXCEPT ![r.u].pwd = r.pwd]
            /\ history' = [history EXCEPT ![r.u] = @ \cup {r.pwd}]
            /\ excused' = excused \cup {r.u}
       ELSE UNCHANGED <<users, history, excused>>
    /\ UNCHANGED <<sessions, events, count, torn, waived>>

\* With -unlock, the status afterwards.
UnlockOutOfBand(w) ==
    LET r == req[w] IN
    /\ r.op = "UnlockOutOfBand" /\ Finish(w)
    /\ users' = [users EXCEPT ![r.u].status = "active"]
    /\ UNCHANGED <<history, sessions, events, ghosts>>

(***************************************************************************)
(* Super administrators.                                                   *)
(***************************************************************************)

CountSuperAdmins == Cardinality({u \in Users : Live(u) /\ users[u].sa})

LastSuperAdmin == CountSuperAdmins <= 1

\* SetSuperAdmin: idempotent, and refuses to revoke the last one it counts.
SetSuperAdmin(w, u, make) ==
    /\ users[u].sa # make /\ (make \/ ~ LastSuperAdmin)
    /\ Read(w, u, [op |-> "SuperAdmin", u |-> u, make |-> make, n |-> CountSuperAdmins])

\* The UPDATE; waived when the count has changed since.
WriteSuperAdmin(w) ==
    LET r == req[w] IN
    /\ r.op = "SuperAdmin"
    /\ Finish(w)
    /\ users' = IF Live(r.u) THEN [users EXCEPT ![r.u].sa = r.make] ELSE users
    /\ waived' = (waived \/ CountSuperAdmins # r.n)
    /\ UNCHANGED <<history, sessions, events, torn, excused>>

(***************************************************************************)
(* Signing in, and the subscribers.                                        *)
(***************************************************************************)

\* The account is read and judged; a second factor may take its time.
Login(w, u, with) ==
    /\ ~ Blocked(u) /\ with \in {users[u].pwd, Ext} \cap (Passwords \cup {Ext})
    /\ Read(w, u, [op |-> "Login", u |-> u, with |-> with])

\* completeLogin does not look at the account again.
completeLogin(w) ==
    LET r == req[w] IN
    /\ r.op = "Login"
    /\ sessions' = [sessions EXCEPT ![r.u] = @ \cup {r.with}]
    /\ excused' = IF Blocked(r.u) \/ r.with \notin {users[r.u].pwd, Ext}
                  THEN excused \cup {r.u} ELSE excused
    /\ Finish(w)
    /\ UNCHANGED <<users, history, events, torn, waived>>

\* revokeUserSessions, for UserDeleted, an administrator's reset, a lock or a
\* disabling: every namespace of the user.
revokeUserSessions(e) ==
    /\ e \in events /\ events' = events \ {e}
    /\ sessions' = [sessions EXCEPT ![e[2]] = {}]
    /\ UNCHANGED <<users, history, req, count, ghosts>>

Crash ==
    /\ count.crashes < MaxCrashes
    /\ count' = [count EXCEPT !.crashes = @ + 1]
    /\ req' = [w \in Workers |-> Free]
    /\ excused' = excused \cup {e[2] : e \in events}
    /\ events' = {}
    /\ UNCHANGED <<users, history, sessions, torn, waived>>

Begin(w) == \E u \in Users :
    \/ \E p \in Passwords \cup {NoPassword} : Create(w, u, p)
    \/ \E s \in {users[u].status, "active", "blocked"} : Update(w, u, s)
    \/ \E p \in Passwords : ChangePassword(w, u, p) \/ SetInitialPassword(w, u, p) \/ ResetPassword(w, u, p)
    \/ \E p \in Passwords, unlock \in BOOLEAN : runResetPassword(w, u, p, unlock)
    \/ \E make \in BOOLEAN : SetSuperAdmin(w, u, make)
    \/ \E with \in Passwords \cup {Ext} : Login(w, u, with)

Complete(w) ==
    \/ CreateWithProfile(w) \/ SaveUser(w) \/ UpdatePassword(w) \/ CreatePasswordHistory(w)
    \/ ResetPasswordTx(w) \/ ResetOutOfBand(w) \/ UnlockOutOfBand(w) \/ WriteSuperAdmin(w) \/ completeLogin(w)

Next ==
    \/ \E w \in Workers : Begin(w) \/ Complete(w)
    \/ \E u \in Users : Delete(u) \/ RestoreUser(u) \/ LockUser(u) \/ UnlockUser(u) \/ BatchAction(u)
    \/ \E e \in events : revokeUserSessions(e)
    \/ Crash

Spec == Init /\ [][Next]_vars

(***************************************************************************)
(* Properties.                                                             *)
(***************************************************************************)

TypeOK ==
    /\ \A u \in Users : users[u].st \in {"absent", "live", "deleted"}
                        /\ sessions[u] \subseteq Passwords \cup {Ext}
    /\ \A e \in events : e[2] \in Users

\* "An administrator locking or disabling an account must cut the sessions it
\* already holds"; so must a delete and an administrator's reset.  Once the
\* events of an account have been handled, a blocked account has no session and
\* no session rests on a password that was reset, unless the status was edited
\* with the rest of the row (Update), the password was reset from the command
\* line, a sign-in that had passed its checks completed afterwards, the row was
\* saved from a stale read, or a restart lost the event.
CutOff ==
    \A u \in Users \ (excused \cup torn) :
        (\A e \in events : e[2] # u) =>
            sessions[u] \subseteq (IF Blocked(u) THEN {} ELSE {users[u].pwd, Ext})

\* "Every tenant must keep at least one super admin": one is left unless one was
\* deleted or written over with its row, or two revocations counted each other's
\* target.
KeepsSuperAdmin == waived \/ CountSuperAdmins >= 1
=============================================================================
