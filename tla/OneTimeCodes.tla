---------------------------- MODULE OneTimeCodes ----------------------------
(***************************************************************************)
(* The links and codes the portal mails or texts: password reset, magic    *)
(* link, e-mail verification and the SMS code, with the throttle in front  *)
(* of them, and the profile edit that moves the e-mail address a link was  *)
(* sent to.  One account; what a link is good for (a new password, a       *)
(* session) is the business of modules Accounts and SignOn.                *)
(***************************************************************************)
EXTENDS Naturals, FiniteSets

CONSTANTS
    Workers, Emails, None,
    MaxSends,                           \* the throttle's MaxAttempts
    MaxTokens, MaxCodes, MaxRequests    \* bounds

ASSUME OneTimeCodesAssumption ==
    MaxTokens \in Nat /\ MaxSends \in Nat \ {0} /\ IsFiniteSet(Workers)

Mailed == {"reset", "magic"}   \* the two kinds that are throttled per address

VARIABLES
    user,       \* the account row: e-mail and whether it is verified
    tokens,     \* Redis: links not yet opened nor expired
    code,       \* Redis: the phone's SMS code, or None
    cooldown,   \* Redis: the phone's cooldown key
    count,      \* the throttle's counter for each mailed kind
    last,       \* last token and last code issued
    req, requests,
    mails,      \* mails sent in the throttle's current window
    honoured,                  \* links that were honoured
    proven,     \* addresses whose link was opened, and those an administrator set
    crossed     \* the address moved between a link's comparison and its effect

vars == <<user, tokens, code, cooldown, count, last, req, requests, mails, honoured,
          proven, crossed>>
links == <<tokens, honoured>>
sms == <<code, cooldown>>
account == <<user, proven, crossed>>

Idle == [op |-> "idle"]

Init ==
    /\ user \in [email : Emails, verified : {FALSE}]
    /\ tokens = {} /\ code = None /\ cooldown = FALSE
    /\ count = [k \in Mailed |-> 0] /\ mails = [k \in Mailed |-> 0]
    /\ last = [token |-> 0, code |-> 0]
    /\ req = [w \in Workers |-> Idle] /\ requests = 0
    /\ honoured = {} /\ proven = {} /\ crossed = FALSE

Start(w, r) ==
    /\ req[w] = Idle /\ requests < MaxRequests
    /\ requests' = requests + 1
    /\ req' = [req EXCEPT ![w] = r]

Goto(w, r) == req' = [req EXCEPT ![w] = r] /\ UNCHANGED requests

(***************************************************************************)
(* Sending a link.                                                         *)
(***************************************************************************)

\* rateLimited: refuses once the counter has tripped.
rateLimited(k) == count[k] >= MaxSends

\* forgot and magic-link send: the throttle is read ...
Send(w, k) ==
    /\ ~ rateLimited(k)
    /\ Start(w, [op |-> "record", kind |-> k, late |-> FALSE])
    /\ UNCHANGED <<links, sms, account, count, last, mails>>

Tripped(k) == count[k] + 1 >= MaxSends

\* ... and counted, before the address is looked up; tripping it refuses.
RecordSend(w) ==
    LET r == req[w] IN
    /\ r.op = "record"
    /\ count' = [count EXCEPT ![r.kind] = @ + 1]
    /\ Goto(w, IF Tripped(r.kind) THEN Idle ELSE [r EXCEPT !.op = "issue"])
    /\ UNCHANGED <<links, sms, account, last, mails>>

\* LookupByEmail finds the account: the token is stored, the mail goes out.  Whether
\* it arrives is the mail server's affair; the person may have it or not.
IssueToken(w) ==
    LET r == req[w] IN
    /\ r.op = "issue" /\ last.token < MaxTokens
    /\ last' = [last EXCEPT !.token = @ + 1]
    /\ tokens' = tokens \cup {[id |-> last.token + 1, kind |-> r.kind, email |-> user.email]}
    /\ mails' = [mails EXCEPT ![r.kind] = IF r.late THEN @ ELSE @ + 1]
    /\ Goto(w, Idle)
    /\ UNCHANGED <<sms, account, count, honoured>>

\* sendVerification: bound to the account and the address it has now.
sendVerification(w) ==
    /\ last.token < MaxTokens
    /\ requests < MaxRequests /\ requests' = requests + 1
    /\ last' = [last EXCEPT !.token = @ + 1]
    /\ tokens' = tokens \cup {[id |-> last.token + 1, kind |-> "verify", email |-> user.email]}
    /\ UNCHANGED <<sms, account, count, mails, req, honoured>>

(***************************************************************************)
(* Opening a link.                                                         *)
(***************************************************************************)

\* Mutant: GET now, DEL later (here: never).
GetOnly(t) == tokens

GetDel(t) == tokens \ {t}

Honour(t) == honoured' = honoured \cup {t.id}

\* consumeToken of reset, callback and verify.
consumeToken(w, t) ==
    /\ t \in tokens
    /\ tokens' = GetDel(t)
    /\ IF t.kind = "verify"
       THEN Start(w, [op |-> "compare", token |-> t]) /\ UNCHANGED honoured
       ELSE Honour(t) /\ requests < MaxRequests /\ requests' = requests + 1 /\ UNCHANGED req
    /\ UNCHANGED <<sms, account, count, last, mails>>

\* Mutant: the address the link was sent to is not compared.
AnyEmail(t) == TRUE

SameEmail(t) == user.email = t.email

\* verify: GetEmail against the token's address.
CompareEmail(w) ==
    LET r == req[w] IN
    /\ r.op = "compare"
    /\ Goto(w, IF SameEmail(r.token) THEN [op |-> "mark", token |-> r.token, seen |-> user.email] ELSE Idle)
    /\ UNCHANGED <<links, sms, account, count, last, mails>>

\* MarkEmailVerified: reads the row again ...
MarkEmailVerified(w) ==
    LET r == req[w] IN
    /\ r.op = "mark"
    /\ Honour(r.token)
    /\ proven' = proven \cup {r.token.email}
    /\ crossed' = (crossed \/ user.email # r.seen)
    /\ Goto(w, IF user.verified THEN Idle ELSE [op |-> "save", row |-> [user EXCEPT !.verified = TRUE]])
    /\ UNCHANGED <<tokens, sms, user, count, last, mails>>

\* ... and saves all of it, as UpdateProfile below does.
SaveUser(w) ==
    LET r == req[w] IN
    /\ r.op = "save"
    /\ user' = r.row
    /\ Goto(w, Idle)
    /\ UNCHANGED <<links, sms, proven, crossed, count, last, mails>>

\* A link's time runs out.
Expire(t) ==
    /\ t \in tokens
    /\ tokens' = tokens \ {t}
    /\ UNCHANGED <<sms, account, count, last, req, requests, mails, honoured>>

\* The throttle's window ends, and with it the lock; a mail counted in it may
\* still be on its way out.
WindowEnds(k) ==
    /\ count[k] > 0
    /\ count' = [count EXCEPT ![k] = 0] /\ mails' = [mails EXCEPT ![k] = 0]
    /\ req' = [w \in Workers |-> IF req[w].op # "issue" THEN req[w]
                                 ELSE [req[w] EXCEPT !.late = @ \/ req[w].kind = k]]
    /\ UNCHANGED <<links, sms, account, last, requests>>

(***************************************************************************)
(* The address moves.                                                      *)
(***************************************************************************)

\* UpdateProfile: a changed address is no longer verified.
Edited(e) == [email |-> e, verified |-> user.verified /\ user.email = e]

UpdateProfile(w, e) ==
    /\ Start(w, [op |-> "save", row |-> Edited(e)])
    /\ UNCHANGED <<links, sms, account, count, last, mails>>

\* user.Service.Update by an administrator keeps the flag; the administrator
\* stands for the address.
AdminUpdate(e) ==
    /\ requests < MaxRequests /\ requests' = requests + 1
    /\ user' = [user EXCEPT !.email = e]
    /\ proven' = proven \cup {e}
    /\ UNCHANGED <<links, sms, crossed, count, last, req, mails>>

(***************************************************************************)
(* The SMS code.                                                           *)
(***************************************************************************)

\* send: the cooldown key is looked for ...
SendSMS(w) ==
    /\ ~ cooldown
    /\ Start(w, [op |-> "sms"])
    /\ UNCHANGED <<links, sms, account, count, last, mails>>

\* ... the code stored over any earlier one, and the cooldown set.
StoreCode(w) ==
    /\ req[w].op = "sms" /\ last.code < MaxCodes
    /\ last' = [last EXCEPT !.code = @ + 1]
    /\ code' = last.code + 1 /\ cooldown' = TRUE
    /\ Goto(w, Idle)
    /\ UNCHANGED <<links, account, count, mails>>

\* login, consumeCode: GET and compare; a wrong code leaves it in place.
consumeCode(w, c) ==
    /\ code = c
    /\ Start(w, [op |-> "clear"])
    /\ UNCHANGED <<links, sms, account, count, last, mails>>

\* The DEL, and the session.
ClearCode(w) ==
    /\ req[w].op = "clear"
    /\ code' = None
    /\ Goto(w, Idle)
    /\ UNCHANGED <<links, account, cooldown, count, last, mails>>

ExpireSMS ==
    /\ \/ code # None /\ code' = None /\ UNCHANGED cooldown
       \/ cooldown /\ cooldown' = FALSE /\ UNCHANGED code
    /\ UNCHANGED <<links, account, count, last, req, requests, mails>>

Next ==
    \/ ExpireSMS
    \/ \E t \in tokens : Expire(t)
    \/ \E k \in Mailed : WindowEnds(k)
    \/ \E e \in Emails : AdminUpdate(e)
    \/ \E w \in Workers :
        \/ RecordSend(w) \/ IssueToken(w) \/ sendVerification(w) \/ CompareEmail(w)
        \/ MarkEmailVerified(w) \/ SaveUser(w) \/ SendSMS(w) \/ StoreCode(w) \/ ClearCode(w)
        \/ \E k \in Mailed : Send(w, k)
        \/ \E t \in tokens : consumeToken(w, t)
        \/ \E e \in Emails : UpdateProfile(w, e)
        \/ \E c \in 1..last.code : consumeCode(w, c)

Spec == Init /\ [][Next]_vars

(***************************************************************************)
(* Properties.                                                             *)
(***************************************************************************)

\* "One-shot has to mean one, including under a race": links are one-time tokens.
\* Whoever redeems one takes it out of the store first, a password is reset, a session
\* opened or an address verified at most once for it, and a verification that is
\* refused loses it.
OT == INSTANCE OneTime WITH
    Tokens   <- 1 .. MaxTokens,
    fresh    <- (last.token + 1) .. MaxTokens,
    live     <- {t.id : t \in tokens},
    taken    <- {req[w].token.id : w \in {v \in Workers : req[v].op \in {"compare", "mark"}}},
    honoured <- honoured

LinksAreOneTime == OT!Spec

\* A link is "only valid for the email it was issued for" and changing the address
\* "invalidates the in-flight link": an address marked verified is one whose own
\* link was opened or that an administrator set, however edits, links and the
\* whole-row saves interleave, unless the address moved between verify's
\* comparison and MarkEmailVerified's read.
VerifiedIsProven == user.verified => crossed \/ user.email \in proven

\* The throttle counts every send before the lookup "so repeated /password/forgot
\* calls can't spam": with any number of requests past the check at once, fewer
\* than MaxSends mails of a kind leave within a window.
SendsBounded == \A k \in Mailed : mails[k] < MaxSends

\* The two together: no link verifies an address it was not sent to, and no
\* interleaving gets a mail past the throttle.
MailHolds == VerifiedIsProven /\ SendsBounded
=============================================================================
