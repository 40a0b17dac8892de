------------------------------- MODULE SignOn -------------------------------
(***************************************************************************)
(* One person's sign-ins and the two obligations that confine a session:   *)
(* choosing a new password and enrolling a second factor.  Sessions live   *)
(* in three namespaces; the obligations are decided when a session is      *)
(* created (session.Manager.Create), read by AuthMiddleware on every       *)
(* request and enforced by the two obligation gates.  Redis commands on    *)
(* one session are atomic here; module Session splits them.                *)
(***************************************************************************)
EXTENDS Naturals, FiniteSets

CONSTANTS
    Workers, None,
    required,                \* the MFA policy applies to this person
    admin,                   \* AdminChecker lets this person into the console
    MaxSessions, MaxResets   \* bounds

Console == "console"
Portal == "portal"
Protocol == "protocol"
SPA == {Console, Portal}
Ids == 1..MaxSessions

VARIABLES
    owes,      \* pwdChangeOwed
    factor,    \* a verified second factor is enrolled
    sess,      \* the stored sessions
    made,      \* sessions created so far
    req,
    resets,
    revokes,   \* revocations the event bus has not run yet
    indebted,  \* sessions decided while a password change was owed, not settled since
    served,    \* a business request was answered for one of them
    bridged    \* a login that owed the change was given a protocol session

vars == <<owes, factor, sess, made, req, resets, revokes, indebted, served, bridged>>
person == <<owes, factor, resets, revokes>>

Idle == [op |-> "idle"]

Init ==
    /\ owes \in BOOLEAN /\ factor \in BOOLEAN
    /\ sess = [i \in Ids |-> None] /\ made = 0
    /\ req = [w \in Workers |-> Idle] /\ resets = 0 /\ revokes = 0
    /\ indebted = {} /\ served = FALSE /\ bridged = FALSE

Live == {i \in Ids : sess[i] # None}
In(ns) == {i \in Live : sess[i].ns \in ns}
Goto(w, r) == req' = [req EXCEPT ![w] = r]

(***************************************************************************)
(* Session creation (pkg/session/manager.go).                              *)
(***************************************************************************)

\* Mutant: only the password handler would mark the session.
NoDecider(ns, mfa) == [ns |-> ns, pwd |-> FALSE, enroll |-> required /\ ~ factor, mfa |-> mfa]

\* EnrollDecider and PwdChangeDecider, consulted before the session is saved.
Decided(ns, mfa) == [ns |-> ns, pwd |-> owes, enroll |-> required /\ ~ factor, mfa |-> mfa]

\* Create: the deciders run, then save and the index; `then' is what the caller
\* does with the session.
Create(w, ns, mfa, then) ==
    /\ made < MaxSessions
    /\ made' = made + 1
    /\ indebted' = IF owes THEN indebted \cup {made + 1} ELSE indebted
    /\ Goto(w, [op |-> "save", id |-> made + 1, row |-> Decided(ns, mfa), then |-> then])
    /\ UNCHANGED <<person, sess, served, bridged>>

SaveSession(w) ==
    LET r == req[w] IN
    /\ r.op = "save"
    /\ sess' = [sess EXCEPT ![r.id] = r.row]
    /\ Goto(w, IF r.then = "done" THEN Idle ELSE [op |-> r.then, id |-> r.id, ns |-> r.row.ns])
    /\ UNCHANGED <<person, made, indebted, served, bridged>>

(***************************************************************************)
(* Ways in.                                                                *)
(***************************************************************************)

\* loginHandler: the password is right.  With a verified factor the session
\* waits for the challenge.
Login(w, ns) ==
    /\ req[w] = Idle
    /\ IF factor
       THEN Goto(w, [op |-> "challenge", ns |-> ns]) /\ UNCHANGED <<person, sess, made, indebted, served, bridged>>
       ELSE Create(w, ns, FALSE, "finalize")

\* verifyMFAHandler: the code was right (module SecondFactor).  The session is
\* stamped MFA-verified after the cookies are set.
verifyMFA(w) == req[w].op = "challenge" /\ Create(w, req[w].ns, FALSE, "finalizeMFA")

\* An unanswered or wrong challenge.
AbandonChallenge(w) ==
    /\ req[w].op = "challenge"
    /\ Goto(w, Idle)
    /\ UNCHANGED <<person, sess, made, indebted, served, bridged>>

\* SMS code and magic link open a portal session and nothing else.
passwordlessLogin(w) == req[w] = Idle /\ Create(w, Portal, FALSE, "done")

\* The login's own session is read back; a session that cannot be read does not
\* stop the bridge.
Bridges(i) == IF sess[i] = None THEN TRUE ELSE ~ sess[i].pwd

\* finalizeLoginCookies: the protocol session.
finalizeLoginCookies(w) ==
    LET r == req[w] IN
    /\ r.op \in {"finalize", "finalizeMFA"}
    /\ LET after == IF r.op = "finalize" THEN "flag" ELSE "stamp"
           rest == [op |-> after, id |-> r.id, ns |-> r.ns]
       IN IF Bridges(r.id) /\ made < MaxSessions
          THEN /\ made' = made + 1
               /\ sess' = [sess EXCEPT ![made + 1] = Decided(Protocol, FALSE)]
               /\ bridged' = (bridged \/ (r.id \in indebted /\ sess[r.id] # None))
               /\ Goto(w, rest)
          ELSE Goto(w, rest) /\ UNCHANGED <<sess, made, bridged>>
    /\ UNCHANGED <<person, indebted, served>>

\* Without a factor: mfaEnrollRequired, then SetEnrollPending.  With one:
\* MarkMFAVerified.  Both only if the session is still there.
FinishLogin(w) ==
    LET r == req[w] IN
    /\ r.op \in {"flag", "stamp"}
    /\ sess' = IF sess[r.id] = None THEN sess
               ELSE IF r.op = "stamp" THEN [sess EXCEPT ![r.id].mfa = TRUE]
               ELSE [sess EXCEPT ![r.id].enroll = @ \/ required]
    /\ Goto(w, Idle)
    /\ UNCHANGED <<person, made, indebted, served, bridged>>

\* ssoHandler: the sibling SPA session first, then the protocol session; the
\* step-up stamp is carried over.
ssoHandler(w, target) ==
    LET sibling == In(SPA \ {target})
        src == IF sibling # {} THEN sibling ELSE In({Protocol})
    IN /\ req[w] = Idle
       /\ target = Console => admin
       /\ \E i \in src : Create(w, target, sess[i].mfa, "done")

(***************************************************************************)
(* A request on a SPA session.                                             *)
(***************************************************************************)

\* AuthMiddleware puts the session's flags into the request.
AuthMiddleware(w, i, path) ==
    /\ req[w] = Idle /\ i \in In(SPA)
    /\ Goto(w, [op |-> "enroll", id |-> i, path |-> path, pwd |-> sess[i].pwd, enroll |-> sess[i].enroll])
    /\ UNCHANGED <<person, sess, made, indebted, served, bridged>>

\* Mutant: each gate lets through its own surface only.
OwnSurface(debt, path) == path = debt

\* isRemediationPath: /security/password or /security/mfa, whatever is owed.
isRemediationPath(debt, path) == path \in {"pwd", "enroll"}

\* stillOwes, against durable state.
stillOwes(debt) == IF debt = "pwd" THEN owes ELSE ~ factor

\* obligationGate.handler, for one debt: clear a settled flag, let the
\* remediation surfaces through, refuse the rest.
gate(w, debt, next) ==
    LET r == req[w]
        flagged == IF debt = "pwd" THEN r.pwd ELSE r.enroll
        settled == flagged /\ ~ stillOwes(debt)
    IN /\ r.op = debt
       /\ sess' = IF settled /\ sess[r.id] # None
                  THEN [sess EXCEPT ![r.id] = IF debt = "pwd" THEN [@ EXCEPT !.pwd = FALSE]
                                              ELSE [@ EXCEPT !.enroll = FALSE]]
                  ELSE sess
       /\ Goto(w, IF ~ flagged \/ settled \/ isRemediationPath(debt, r.path)
                  THEN [r EXCEPT !.op = next] ELSE Idle)
       /\ UNCHANGED <<person, made, indebted, served, bridged>>

EnrollGateMiddleware(w) == gate(w, "enroll", "pwd")
PwdGateMiddleware(w) == gate(w, "pwd", "serve")

\* A console DELETE or another high-risk write: StepUpMiddleware.
StepUpAllows(i) == required => IF sess[i] = None THEN FALSE ELSE factor /\ sess[i].mfa

ServeBusiness(w) ==
    LET r == req[w] IN
    /\ r.op = "serve" /\ r.path \in {"business", "highrisk"}
    /\ r.path = "highrisk" => StepUpAllows(r.id)
    /\ served' = (served \/ r.id \in indebted)
    /\ Goto(w, Idle)
    /\ UNCHANGED <<person, sess, made, indebted, bridged>>

RefuseHighRisk(w) ==
    LET r == req[w] IN
    /\ r.op = "serve" /\ r.path = "highrisk"
    /\ ~ StepUpAllows(r.id)
    /\ Goto(w, Idle)
    /\ UNCHANGED <<person, sess, made, indebted, served, bridged>>

\* changePassword: with an enrolled factor the session must be step-up fresh or
\* bring a code, which the person can always produce; the other SPA sessions go.
changePassword(w) ==
    LET r == req[w] IN
    /\ r.op = "serve" /\ r.path = "pwd"
    /\ owes' = FALSE /\ indebted' = {}
    /\ sess' = [i \in Ids |-> IF i \in In(SPA) \ {r.id} THEN None ELSE sess[i]]
    /\ Goto(w, Idle)
    /\ UNCHANGED <<factor, resets, revokes, made, served, bridged>>

\* verifyTOTP of the enrollment, which also counts as a step-up.
enrollFactor(w) ==
    LET r == req[w] IN
    /\ r.op = "serve" /\ r.path = "enroll"
    /\ factor' = TRUE
    /\ sess' = IF sess[r.id] = None THEN sess ELSE [sess EXCEPT ![r.id].mfa = TRUE]
    /\ Goto(w, Idle)
    /\ UNCHANGED <<owes, resets, revokes, made, indebted, served, bridged>>

\* stepUpHandler: a right code or, without a factor, the password.
stepUpHandler(i) ==
    /\ i \in In(SPA)
    /\ sess' = [sess EXCEPT ![i].mfa = TRUE]
    /\ UNCHANGED <<person, made, req, indebted, served, bridged>>

(***************************************************************************)
(* Debts arising, and sessions ending.                                     *)
(***************************************************************************)

\* ResetPassword by an administrator: must_change_pwd, and UserPasswordChanged
\* with admin_reset for the bus.
ResetPassword ==
    /\ resets < MaxResets
    /\ resets' = resets + 1
    /\ owes' = TRUE /\ revokes' = revokes + 1
    /\ UNCHANGED <<factor, sess, made, req, indebted, served, bridged>>

\* The password reaches its age limit: owed without a revocation.
PasswordExpires ==
    /\ resets < MaxResets /\ ~ owes
    /\ resets' = resets + 1
    /\ owes' = TRUE
    /\ UNCHANGED <<factor, revokes, sess, made, req, indebted, served, bridged>>

\* revokeUserSessions, all three namespaces.
revokeUserSessions ==
    /\ revokes > 0
    /\ revokes' = revokes - 1
    /\ sess' = [i \in Ids |-> None]
    /\ UNCHANGED <<owes, factor, resets, made, req, indebted, served, bridged>>

\* The cookies of one browser, which may lack some.
Cookies(i) == {i} \cup In({Console, Portal, Protocol})

\* logoutHandler: the session logged out of, then the other namespaces' cookies.
logoutHandler(i) ==
    /\ i \in In(SPA)
    /\ sess' = [j \in Ids |-> IF j \in Cookies(i) THEN None ELSE sess[j]]
    /\ UNCHANGED <<person, made, req, indebted, served, bridged>>

\* AdminSessionHandler.revokeOne.
revokeOne(i) ==
    /\ i \in Live
    /\ sess' = [sess EXCEPT ![i] = None]
    /\ UNCHANGED <<person, made, req, indebted, served, bridged>>

Step(w) ==
    \/ SaveSession(w) \/ verifyMFA(w) \/ finalizeLoginCookies(w) \/ FinishLogin(w)
    \/ EnrollGateMiddleware(w) \/ PwdGateMiddleware(w)
    \/ ServeBusiness(w) \/ RefuseHighRisk(w) \/ changePassword(w) \/ enrollFactor(w)

Next ==
    \/ ResetPassword \/ PasswordExpires \/ revokeUserSessions
    \/ \E i \in Ids : stepUpHandler(i) \/ logoutHandler(i) \/ revokeOne(i)
    \/ \E w \in Workers :
        \/ Step(w) \/ AbandonChallenge(w) \/ passwordlessLogin(w)
        \/ \E ns \in SPA : Login(w, ns) \/ ssoHandler(w, ns)
        \/ \E i \in Ids, path \in {"business", "highrisk", "pwd", "enroll"} : AuthMiddleware(w, i, path)

\* Requests in progress go on, the bus runs its handlers, and a person held at
\* the two blocking screens keeps using them.
Fairness ==
    /\ WF_vars(revokeUserSessions)
    /\ \A w \in Workers :
        /\ WF_vars(Step(w) \/ AbandonChallenge(w))
        /\ SF_vars(\E i \in Ids : AuthMiddleware(w, i, "pwd"))
        /\ SF_vars(\E i \in Ids : AuthMiddleware(w, i, "enroll"))

Spec == Init /\ [][Next]_vars /\ Fairness

(***************************************************************************)
(* Properties.                                                             *)
(***************************************************************************)

\* "EVERY login path" enforces the forced change: a session decided while a
\* password change was owed, however it was opened (password, challenge, SMS
\* code, magic link, switch between SPAs), is answered no business request
\* before the debt is settled, and its login gets no protocol session while
\* that session can be read back.
Confined == ~ served /\ ~ bridged

\* The gates share their remediation surfaces so that two debts do not lock each
\* other: once debts stop arising, a person with a session who keeps trying owes
\* neither a password nor a factor.
DebtsSettle == <>[](In(SPA) # {} => ~ owes /\ (required => factor))
=============================================================================
