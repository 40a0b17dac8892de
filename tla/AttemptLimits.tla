--------------------------- MODULE AttemptLimits ----------------------------
(***************************************************************************)
(* The two counters that slow guessing down.  The login limiter            *)
(* (pkg/ratelimit, engine.go) counts in one Redis script per identifier;   *)
(* the second-factor limiter (mfa_ratelimit.go) issues its commands one by *)
(* one.  Both count against the user and against the client address.       *)
(* Expiry times are abstracted to the order the durations impose.          *)
(***************************************************************************)
EXTENDS Naturals, FiniteSets

CONSTANTS
    Users, IPs, Nobody,  \* Nobody: a username that matches no account
    Workers,
    MaxAttempts,         \* the login limiter's threshold
    CaptchaAfter,        \* failures from an address before a captcha is asked
    mfaFailThreshold, MaxLevel,
    MaxRequests, MaxCrashes   \* bounds

Scopes == Users \cup IPs

VARIABLES
    count, lock,         \* login limiter; lock: "none", "set", or "outlived" when
                         \* the counter that tripped it has expired
    fails, armed, level, locked,  \* second factor: counter, its expiry, escalation, lock
    req, spent, crashes,
    trips,               \* times a user's login lock was set
    told,                \* UserLocked events about a user whose lock had been set
    crossed              \* two requests for one lock overlapped

vars == <<count, lock, fails, armed, level, locked, req, spent, crashes, trips, told, crossed>>
login == <<count, lock, trips, told, crossed>>
mfa == <<fails, armed, level, locked>>

Idle == [op |-> "idle"]

Init ==
    /\ count = [k \in Scopes |-> 0] /\ lock = [k \in Scopes |-> "none"]
    /\ fails = [k \in Scopes |-> 0] /\ armed = [k \in Scopes |-> FALSE]
    /\ level = [k \in Scopes |-> 0] /\ locked = [k \in Scopes |-> FALSE]
    /\ req = [w \in Workers |-> Idle] /\ spent = 0 /\ crashes = 0
    /\ trips = 0 /\ told = 0 /\ crossed = FALSE

Start(w, r) ==
    /\ req[w] = Idle /\ spent < MaxRequests
    /\ spent' = spent + 1
    /\ req' = [req EXCEPT ![w] = r]
    /\ UNCHANGED crashes

Goto(w, r) == req' = [req EXCEPT ![w] = r] /\ UNCHANGED <<spent, crashes>>

(***************************************************************************)
(* pkg/ratelimit.                                                          *)
(***************************************************************************)

Check(k) == lock[k] = "none"

\* CheckMany over loginIdentifiers(userID, ip).
CheckMany(ids) == \A k \in ids : Check(k)

loginIdentifiers(u, ip) == (IF u = Nobody THEN {} ELSE {u}) \cup {ip}

Trips(c) == c >= MaxAttempts

\* recordScript: INCR, and SET NX of the lock at the threshold.  The answer says
\* whether the identifier is now locked.
RecordFailure(k) ==
    /\ count' = [count EXCEPT ![k] = @ + 1]
    /\ lock' = [lock EXCEPT ![k] = IF Trips(count[k] + 1) /\ @ = "none" THEN "set" ELSE @]
    /\ trips' = trips + (IF k \in Users /\ lock'[k] # lock[k] THEN 1 ELSE 0)

Reset(k) ==
    /\ count' = [count EXCEPT ![k] = 0]
    /\ lock' = [lock EXCEPT ![k] = "none"]

\* The counter's window ends.  It began before the lock it tripped was set and
\* is as long, so a lock ends only after that.
WindowEnds(k) ==
    /\ count[k] > 0
    /\ count' = [count EXCEPT ![k] = 0]
    /\ lock' = [lock EXCEPT ![k] = IF @ = "set" THEN "outlived" ELSE @]
    /\ UNCHANGED <<mfa, req, spent, crashes, trips, told, crossed>>

LockEnds(k) ==
    /\ lock[k] = "outlived"
    /\ lock' = [lock EXCEPT ![k] = "none"]
    /\ UNCHANGED <<mfa, count, req, spent, crashes, trips, told, crossed>>

(***************************************************************************)
(* The password login (handler.go, engine.go).                             *)
(***************************************************************************)

\* The captcha gate: below the threshold the request may come without one.
requireCaptcha(ip) == CaptchaAfter = 0 \/ count[ip] >= CaptchaAfter

\* checkLoginLock(ctx, 0, ip): before the account is known, the address only.
checkLoginLock(ip) == CheckMany(loginIdentifiers(Nobody, ip))

\* loginHandler up to Authenticate; captcha: the request carries a right one.
Login(w, u, ip, captcha, right) ==
    /\ requireCaptcha(ip) => captcha
    /\ checkLoginLock(ip)
    /\ right => u # Nobody
    /\ Start(w, [op |-> IF right THEN "succeed" ELSE "read", u |-> u, ip |-> ip])
    /\ UNCHANGED <<login, mfa>>

\* trackFailure: the lock state is read first.
trackFailure(w) ==
    LET r == req[w] IN
    /\ r.op = "read"
    /\ Goto(w, [op |-> "user", u |-> r.u, ip |-> r.ip, tripped |-> FALSE,
                free |-> CheckMany(loginIdentifiers(r.u, r.ip))])
    /\ crossed' = (crossed \/ \E v \in Workers \ {w} : req[v].op \in {"read", "user", "ip", "publish", "succeed", "clear"})
    /\ UNCHANGED <<mfa, count, lock, trips, told>>

\* RecordFailureMany, the user's identifier first.
RecordUser(w) ==
    LET r == req[w] IN
    /\ r.op = "user"
    /\ IF r.u = Nobody
       THEN UNCHANGED <<count, lock, trips>> /\ Goto(w, [r EXCEPT !.op = "ip"])
       ELSE RecordFailure(r.u) /\ Goto(w, [r EXCEPT !.op = "ip", !.tripped = Trips(count[r.u] + 1)])
    /\ UNCHANGED <<mfa, told, crossed>>

RecordIP(w) ==
    LET r == req[w] IN
    /\ r.op = "ip"
    /\ RecordFailure(r.ip)
    /\ Goto(w, [r EXCEPT !.op = "publish", !.tripped = @ \/ Trips(count[r.ip] + 1)])
    /\ UNCHANGED <<mfa, told, crossed>>

\* The transition, for a known account.
announces(r) == r.tripped /\ r.free /\ r.u # Nobody

PublishLocked(w) ==
    LET r == req[w] IN
    /\ r.op = "publish"
    /\ told' = told + (IF announces(r) /\ lock[r.u] # "none" THEN 1 ELSE 0)
    /\ Goto(w, Idle)
    /\ UNCHANGED <<mfa, count, lock, trips, crossed>>

\* AuthSuccess: clearFailureCountIP deletes the user's keys, then the address's.
clearFailureCountIP(w) ==
    LET r == req[w] IN
    /\ \/ /\ r.op = "succeed"
          /\ Reset(r.u) /\ Goto(w, [r EXCEPT !.op = "clear"])
       \/ /\ r.op = "clear"
          /\ Reset(r.ip) /\ Goto(w, Idle)
    /\ crossed' = (crossed \/ \E v \in Workers \ {w} : req[v].op \in {"user", "ip", "publish"})
    /\ UNCHANGED <<mfa, trips, told>>

(***************************************************************************)
(* The second factor (mfa_ratelimit.go).                                   *)
(***************************************************************************)

mayVerify(u, ip) == ~ locked[u] /\ ~ locked[ip]

\* Check, then a verification (VerifyStepUp, VerifyMFAChallenge, the portal's
\* security pages) that succeeds or is recorded; a reused code is neither.
Verify(w, u, ip, right) ==
    /\ mayVerify(u, ip)
    /\ Start(w, [op |-> IF right THEN "reset" ELSE "incr", keys |-> <<u, ip>>, n |-> 1])
    /\ UNCHANGED <<login, mfa>>

NextKey(r) == IF r.n = 1 THEN [op |-> "incr", keys |-> r.keys, n |-> 2] ELSE Idle

\* INCR of one counter.
RecordMFAFailure(w) ==
    LET r == req[w]
        k == r.keys[r.n]
        c == fails[k] + 1
    IN /\ r.op = "incr"
       /\ fails' = [fails EXCEPT ![k] = c]
       /\ Goto(w, [op |-> "expire", keys |-> r.keys, n |-> r.n, c |-> c])
       /\ UNCHANGED <<login, armed, level, locked>>

\* Mutant: the failure that starts the window is taken for the one before it.
none(c) == c = 0

first(c) == c = 1

\* EXPIRE on the first failure; at the threshold lock() begins with its INCR.
ArmOrLock(w) ==
    LET r == req[w]
        k == r.keys[r.n]
    IN /\ r.op = "expire"
       /\ armed' = [armed EXCEPT ![k] = @ \/ (first(r.c) /\ fails[k] > 0)]
       /\ IF r.c >= mfaFailThreshold
          THEN /\ level' = [level EXCEPT ![k] = IF @ < MaxLevel THEN @ + 1 ELSE @]
               /\ Goto(w, [op |-> "set", keys |-> r.keys, n |-> r.n])
          ELSE UNCHANGED level /\ Goto(w, NextKey(r))
       /\ UNCHANGED <<login, fails, locked>>

SetLocked(w) ==
    LET r == req[w] IN
    /\ r.op = "set"
    /\ locked' = [locked EXCEPT ![r.keys[r.n]] = TRUE]
    /\ Goto(w, [r EXCEPT !.op = "del"])
    /\ UNCHANGED <<login, fails, armed, level>>

\* "The counter is deleted along the way."
DelCounter(w) ==
    LET r == req[w] IN
    /\ r.op = "del"
    /\ fails' = [fails EXCEPT ![r.keys[r.n]] = 0]
    /\ armed' = [armed EXCEPT ![r.keys[r.n]] = FALSE]
    /\ Goto(w, NextKey(r))
    /\ UNCHANGED <<login, level, locked>>

\* Reset: one DEL of every key of the user and the address.
ResetMFA(w) ==
    LET r == req[w]
        off(f, v) == [k \in Scopes |-> IF k \in {r.keys[1], r.keys[2]} THEN v ELSE f[k]]
    IN /\ r.op = "reset"
       /\ fails' = off(fails, 0) /\ armed' = off(armed, FALSE)
       /\ level' = off(level, 0) /\ locked' = off(locked, FALSE)
       /\ Goto(w, Idle)
       /\ UNCHANGED login

\* ClearMFALockout (console): the user's keys, without an address.
ClearMFALockout(u) ==
    /\ fails[u] > 0 \/ locked[u]
    /\ fails' = [fails EXCEPT ![u] = 0] /\ armed' = [armed EXCEPT ![u] = FALSE]
    /\ level' = [level EXCEPT ![u] = 0] /\ locked' = [locked EXCEPT ![u] = FALSE]
    /\ UNCHANGED <<login, req, spent, crashes>>

MFAExpires(k) ==
    /\ \/ /\ armed[k]
          /\ fails' = [fails EXCEPT ![k] = 0] /\ armed' = [armed EXCEPT ![k] = FALSE]
          /\ UNCHANGED locked
       \/ locked[k] /\ locked' = [locked EXCEPT ![k] = FALSE] /\ UNCHANGED <<fails, armed>>
    /\ UNCHANGED <<login, level, req, spent, crashes>>

\* A process dies between two commands.
Crash(w) ==
    /\ req[w] # Idle /\ crashes < MaxCrashes
    /\ crashes' = crashes + 1
    /\ req' = [req EXCEPT ![w] = Idle]
    /\ UNCHANGED <<login, mfa, spent>>

LoginStep(w) ==
    trackFailure(w) \/ RecordUser(w) \/ RecordIP(w) \/ PublishLocked(w) \/ clearFailureCountIP(w)

MFAStep(w) == RecordMFAFailure(w) \/ ArmOrLock(w) \/ SetLocked(w) \/ DelCounter(w) \/ ResetMFA(w)

LoginNext ==
    \/ \E w \in Workers : LoginStep(w) \/ Crash(w)
    \/ \E w \in Workers, u \in Users \cup {Nobody}, ip \in IPs, c \in BOOLEAN, right \in BOOLEAN :
          Login(w, u, ip, c, right)
    \/ \E k \in Scopes : WindowEnds(k) \/ LockEnds(k)

MFANext ==
    \/ \E w \in Workers : MFAStep(w) \/ Crash(w)
    \/ \E w \in Workers, u \in Users, ip \in IPs, right \in BOOLEAN : Verify(w, u, ip, right)
    \/ \E k \in Scopes : MFAExpires(k)
    \/ \E u \in Users : ClearMFALockout(u)

\* The two limiters share no key.
Next == LoginNext \/ MFANext

Spec == Init /\ [][Next]_vars

(***************************************************************************)
(* Properties.                                                             *)
(***************************************************************************)

\* The atomic script "closes the check-then-act race that would otherwise let
\* concurrent requests slip past MaxAttempts": past the gate, failures against an
\* address exceed the threshold by the requests in flight and no more.  When those
\* outnumber MaxAttempts, the ones that passed the gate before a lock and fail after
\* its counter has expired count as the threshold.
GuessesBounded ==
    LET inFlight == Cardinality(Workers)
        threshold == IF inFlight > MaxAttempts THEN inFlight ELSE MaxAttempts
    IN  \A ip \in IPs : count[ip] < threshold + inFlight

\* trackFailure emits UserLocked "on the transition, not on every subsequent
\* attempt": never more events than locks set, unless two requests overlapped.
LockAnnouncedOnce == crossed \/ told <= trips

\* "Counters auto-expire after mfaFailWindow": a second-factor counter without an
\* expiry belongs to a request that is still about to set it or to delete the
\* counter, unless a process died between the two commands.
CounterDecays ==
    crashes > 0 \/ \A k \in Scopes :
        fails[k] > 0 /\ ~ armed[k] =>
            \E w \in Workers : req[w].op \in {"expire", "set", "del"} /\ req[w].keys[req[w].n] = k
=============================================================================
