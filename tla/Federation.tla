----------------------------- MODULE Federation -----------------------------
(***************************************************************************)
(* One user signing on to SAML, CAS and OIDC applications, and the single  *)
(* logout that ends those sign-ons.  Every sign-on leaves a reference in   *)
(* Redis: OIDC under the protocol session it came from, SAML and CAS under *)
(* the application.  A logout reads the references, hands them to a        *)
(* detached sender and deletes them; reading and deleting are separate     *)
(* commands, so sign-ons run in between.  Each protocol session is one     *)
(* browser.  Applications are enabled; what an assertion says is left out. *)
(***************************************************************************)
EXTENDS Naturals, FiniteSets

CONSTANTS
    SAMLApps, CASApps, OIDCApps,
    SLOApps,            \* the SAML applications with a logout URL
    Sids,               \* protocol sessions
    Workers, None,
    MaxSignOns, MaxApprovals, MaxRequests   \* bounds

Apps == SAMLApps \cup CASApps \cup OIDCApps

VARIABLES
    proto,      \* live protocol sessions (mxid:session:protocol:*)
    portal,     \* the portal session is live
    confirm,    \* unused confirmation tokens: <<app, n>>
    refs,       \* references held: [app, sid, n]; sid is None but for OIDC
    listed,     \* the per-user index of SAML and CAS applications
    req, requests,
    signOns,    \* sign-ons so far; also names them
    approvals,  \* confirmation tokens ever issued
    held,       \* sign-ons an application was given
    released,   \* sign-ons given on the strength of a confirmation
    told,       \* sign-ons whose application was sent a logout
    excused     \* sign-ons a logout cannot find, for the reasons given at each step

vars == <<proto, portal, confirm, refs, listed, req, requests, signOns, approvals, held, released,
          told, excused>>
sessions == <<proto, portal>>
grants == <<confirm, approvals, released>>

Idle == [op |-> "idle"]

Init ==
    /\ proto = {} /\ portal = FALSE
    /\ confirm = {} /\ approvals = {} /\ released = [a \in Apps |-> 0]
    /\ refs = {} /\ listed = {}
    /\ req = [w \in Workers |-> Idle] /\ requests = 0
    /\ signOns = 0 /\ held = {} /\ told = {} /\ excused = {}

Start(w, r) ==
    /\ req[w] = Idle /\ requests < MaxRequests
    /\ requests' = requests + 1
    /\ req' = [req EXCEPT ![w] = r]

Goto(w, r) == req' = [req EXCEPT ![w] = r] /\ UNCHANGED requests

-----------------------------------------------------------------------------
(* Sessions.                                                               *)

\* finalizeLoginCookies bridges a portal sign-in to a protocol session.
finalizeLoginCookies(sid) ==
    /\ sid \notin proto /\ ~ \E r \in refs : r.sid = sid
    /\ ~ \E w \in Workers : req[w].op # "idle" /\ sid \in {req[w].sid, req[w].cookie}
    /\ \A s \in held : s.sid # sid
    /\ proto' = proto \cup {sid} /\ portal' = TRUE
    /\ UNCHANGED <<grants, refs, listed, req, requests, signOns, held, told, excused>>

\* The passwordless sign-ins create the portal session alone.
passwordlessLogin ==
    /\ ~ portal /\ portal' = TRUE
    /\ UNCHANGED <<proto, grants, refs, listed, req, requests, signOns, held, told, excused>>

\* The references a protocol session's end leaves behind: the logout finds
\* OIDC applications through live sessions only.
Stranded(gone) == {r \in refs : r.sid \in gone}

\* DeleteSSOSession, by slo of a SAML application or logout of a CAS one; an
\* administrator's revocation and the end of its lifetime do the same.
DeleteSSOSession(sid) ==
    /\ sid \in proto
    /\ proto' = proto \ {sid}
    /\ excused' = excused \cup Stranded({sid})
    /\ UNCHANGED <<portal, grants, refs, listed, req, requests, signOns, held, told>>

portalExpires ==
    /\ portal /\ portal' = FALSE
    /\ UNCHANGED <<proto, grants, refs, listed, req, requests, signOns, held, told, excused>>

-----------------------------------------------------------------------------
(* Signing on.                                                             *)

\* ConfirmStore.Issue, behind the portal's confirmation page.
Issue(a) ==
    /\ portal /\ Cardinality(approvals) < MaxApprovals
    /\ LET t == <<a, Cardinality(approvals)>>
       IN  approvals' = approvals \cup {t} /\ confirm' = confirm \cup {t}
    /\ UNCHANGED <<sessions, released, refs, listed, req, requests, signOns, held, told, excused>>

\* GetSSOSession with the protocol cookie, then with the portal cookie.
GetSSOSession(sid) == sid \in proto \/ portal

\* resolveSession of the OIDC bridge: the id tracked is never a portal one.
resolveSession(sid) == IF sid \in proto THEN sid ELSE None

\* Mutant: the token is read and left in place.
ConsumeGet(t) == confirm

Consume(t) == confirm \ {t}

SignOn(a, sid) == [app |-> a, sid |-> IF a \in OIDCApps THEN resolveSession(sid) ELSE None,
                   n |-> signOns + 1]

\* The gate of processSSO, CAS login and the OIDC bridge: a session, and
\* unless the portal launched the application a confirmation used up.
Gate(w, a, sid) ==
    /\ GetSSOSession(sid) /\ signOns < MaxSignOns
    /\ signOns' = signOns + 1
    /\ \/ UNCHANGED <<confirm, released>>
       \/ \E t \in confirm : /\ t[1] = a
                             /\ confirm' = Consume(t)
                             /\ released' = [released EXCEPT ![a] = @ + 1]
    /\ Start(w, [op |-> "access", sid |-> sid, cookie |-> sid, of |-> SignOn(a, sid)])
    /\ UNCHANGED <<sessions, approvals, refs, listed, held, told, excused>>

\* CheckAppAccess may deny, ResolveUser may fail, the CAS ticket may never
\* be validated: nothing is recorded.
Denied(w) ==
    /\ req[w].op = "access"
    /\ Goto(w, Idle)
    /\ UNCHANGED <<sessions, grants, refs, listed, signOns, held, told, excused>>

\* A logout that has read the references this one is filed with, and will
\* delete them, does not know this one.
Missed(r) ==
    \E w \in Workers : req[w].op = "drop"
        /\ IF r.app \in OIDCApps THEN r.sid = req[w].sid ELSE r.app = req[w].app

\* Record, RecordService and Track: best effort.  An OIDC sign-on through
\* the portal session alone is not tracked.
Record(w) ==
    LET r == req[w].of
        file == r.app \in OIDCApps => r.sid # None
    IN  /\ req[w].op = "access"
        /\ Goto(w, [req[w] EXCEPT !.op = "respond"])
        /\ \/ /\ file
              /\ refs' = refs \cup {r}
              /\ listed' = IF r.app \in OIDCApps THEN listed ELSE listed \cup {r.app}
              /\ excused' = IF Missed(r) \/ (r.sid # None /\ r.sid \notin proto)
                            THEN excused \cup {r} ELSE excused
           \/ excused' = excused \cup {r} /\ UNCHANGED <<refs, listed>>
        /\ UNCHANGED <<sessions, grants, signOns, held, told>>

\* The response reaches the application.
Respond(w) ==
    /\ req[w].op = "respond"
    /\ held' = held \cup {req[w].of}
    /\ Goto(w, Idle)
    /\ UNCHANGED <<sessions, grants, refs, listed, signOns, told, excused>>

-----------------------------------------------------------------------------
(* Logout.  A request record carries what it will do next: the sessions    *)
(* and applications still to visit, and what it found.                     *)

Fan(kind, cookie) ==
    [op |-> "sessions", kind |-> kind, sid |-> None, app |-> None, cookie |-> cookie,
     sids |-> {}, apps |-> {}, found |-> {}]

\* logoutHandler: with a live session the user's applications are told
\* first; without one only the sessions of the browser's cookies end.
logoutHandler(w, sid) ==
    /\ IF portal THEN /\ Start(w, Fan("user", sid))
                      /\ UNCHANGED <<proto, excused>>
       ELSE /\ sid \in proto
            /\ proto' = proto \ {sid} /\ excused' = excused \cup Stranded({sid})
            /\ UNCHANGED <<req, requests>>
    /\ UNCHANGED <<portal, grants, refs, listed, signOns, held, told>>

\* Offboard: the OIDC applications are told, then every session is killed.
Offboard(w) ==
    /\ Start(w, Fan("offboard", None))
    /\ UNCHANGED <<sessions, grants, refs, listed, signOns, held, told, excused>>

\* A just-in-time grant for one application ends: CompositeTerminator picks
\* the protocol's way.
TerminateApp(w, a) ==
    /\ IF a \in OIDCApps THEN Start(w, [Fan("app", None) EXCEPT !.app = a])
       ELSE Start(w, [Fan("app", None) EXCEPT !.op = "read", !.app = a])
    /\ UNCHANGED <<sessions, grants, refs, listed, signOns, held, told, excused>>

\* ListByUser, of LogoutUser and LogoutUserApp.
ListByUser(w) ==
    /\ req[w].op = "sessions"
    /\ Goto(w, [req[w] EXCEPT !.op = "index", !.sids = proto])
    /\ UNCHANGED <<sessions, grants, refs, listed, signOns, held, told, excused>>

\* List deletes the set it has read; Peek, for one application, keeps it.
Destructive(r) == r.kind # "app"

\* readMembers of one session's set.
readMembers(w, sid) ==
    LET r == req[w]
        members == {x \in refs : x.sid = sid}
    IN  /\ r.op = "index" /\ sid \in r.sids
        /\ Goto(w, [r EXCEPT !.op = IF Destructive(r) THEN "drop" ELSE "index", !.sid = sid,
                             !.sids = @ \ {sid},
                             !.found = @ \cup IF r.kind = "app"
                                              THEN {x \in members : x.app = r.app} ELSE members])
        /\ UNCHANGED <<sessions, grants, refs, listed, signOns, held, told, excused>>

\* The DEL that follows, of a session's set or an application's.
Drop(w) ==
    LET r == req[w]
        session == r.sid # None
    IN  /\ r.op = "drop"
        /\ refs' = {x \in refs : IF session THEN x.sid # r.sid ELSE x.app # r.app}
        /\ listed' = IF session THEN listed ELSE listed \ {r.app}
        /\ Goto(w, [r EXCEPT !.op = IF session THEN "index" ELSE "apps", !.sid = None])
        /\ UNCHANGED <<sessions, grants, signOns, held, told, excused>>

\* The sets are read: the detached sender has its list (sendLogout).
Dispatch(w) ==
    LET r == req[w]
    IN  /\ r.op = "index" /\ r.sids = {}
        /\ told' = told \cup r.found
        /\ Goto(w, IF r.kind = "app" THEN Idle
                   ELSE [r EXCEPT !.op = IF r.kind = "user" THEN "users" ELSE "kill", !.found = {}])
        /\ UNCHANGED <<sessions, grants, refs, listed, signOns, held, excused>>

\* AppsForUser, of SAML and of CAS.
AppsForUser(w) ==
    /\ req[w].op = "users"
    /\ Goto(w, [req[w] EXCEPT !.op = "apps", !.apps = listed])
    /\ UNCHANGED <<sessions, grants, refs, listed, signOns, held, told, excused>>

NextApp(w, a) ==
    /\ req[w].op = "apps" /\ a \in req[w].apps
    /\ Goto(w, [req[w] EXCEPT !.op = "read", !.app = a, !.apps = @ \ {a}])
    /\ UNCHANGED <<sessions, grants, refs, listed, signOns, held, told, excused>>

\* IdPInitiatedLogout and SingleLogout read the application's references and
\* hand them to the sender.  A SAML application without a logout URL is
\* dropped untold; one without references, or whose key cannot be loaded,
\* is left as it is.
ReadApp(w) ==
    LET r == req[w]
        mine == {x \in refs : x.app = r.app}
        send == r.app \in CASApps \cup SLOApps
    IN  /\ r.op = "read"
        /\ \/ /\ mine # {}
              /\ Goto(w, [r EXCEPT !.op = "drop", !.sid = None])
              /\ told' = IF send THEN told \cup mine ELSE told
              /\ excused' = IF send THEN excused ELSE excused \cup mine
           \/ /\ mine # {} => r.app \in SAMLApps
              /\ Goto(w, [r EXCEPT !.op = "apps"])
              /\ excused' = excused \cup mine /\ UNCHANGED told
        /\ UNCHANGED <<sessions, grants, refs, listed, signOns, held>>

\* The applications are told: the sessions of this browser end, or all of
\* them (KillAllByUser).
KillSessions(w) ==
    LET r == req[w]
        gone == IF r.kind = "user" THEN {r.cookie} \cap proto ELSE proto
    IN  /\ \/ r.op = "kill"
           \/ r.op = "apps" /\ r.apps = {}
        /\ IF r.kind = "app" THEN UNCHANGED <<sessions, excused>>
           ELSE /\ portal' = FALSE /\ proto' = proto \ gone
                /\ excused' = excused \cup Stranded(gone)
        /\ Goto(w, Idle)
        /\ UNCHANGED <<grants, refs, listed, signOns, held, told>>

-----------------------------------------------------------------------------

Next ==
    \/ passwordlessLogin \/ portalExpires
    \/ \E sid \in Sids : finalizeLoginCookies(sid) \/ DeleteSSOSession(sid)
    \/ \E a \in Apps : Issue(a)
    \/ \E w \in Workers :
          \/ \E a \in Apps, sid \in Sids : Gate(w, a, sid)
          \/ Denied(w) \/ Record(w) \/ Respond(w)
          \/ \E sid \in Sids : logoutHandler(w, sid) \/ readMembers(w, sid)
          \/ Offboard(w)
          \/ \E a \in Apps : TerminateApp(w, a) \/ NextApp(w, a)
          \/ ListByUser(w) \/ Drop(w) \/ Dispatch(w) \/ AppsForUser(w) \/ ReadApp(w)
          \/ KillSessions(w)

Spec == Init /\ [][Next]_vars

-----------------------------------------------------------------------------

\* A sign-on the next logout of the user will find.
Findable(s) == s \in refs /\ IF s.app \in OIDCApps THEN s.sid \in proto ELSE s.app \in listed

(***************************************************************************)
(* No sign-on is forgotten: each one an application holds was sent a       *)
(* logout, is on its way to the sender, or will be found by the next       *)
(* logout, whatever logouts, per-application logouts and sign-ons ran at   *)
(* once.  The exceptions are those the code leaves: a sign-on filed        *)
(* between a logout's read and its delete, one whose session ended without *)
(* a logout, one that could not be filed, an application with no logout    *)
(* URL (Index.List, Index.Peek, SessionIndexStore, ServiceRegistry).       *)
(***************************************************************************)
NoneForgotten ==
    \A s \in held \ excused :
        s \in told \/ Findable(s) \/ \E w \in Workers : req[w].op \in {"index", "drop"} /\ s \in req[w].found

(***************************************************************************)
(* A confirmation is good for one sign-on: sign-ons released on the        *)
(* strength of a confirmation and confirmations not yet used never         *)
(* outnumber the user's approvals (ConfirmStore.Consume).                  *)
(***************************************************************************)
EachConfirmed ==
    \A a \in Apps : LET ofApp(tokens) == Cardinality({t \in tokens : t[1] = a})
                    IN  released[a] + ofApp(confirm) <= ofApp(approvals)

=============================================================================
