--------------------------- MODULE RefreshTokens ----------------------------
(***************************************************************************)
(* Refresh tokens of one user at one client (internal/protocol/oidcop).    *)
(* Each code exchange opens a family; each refresh replaces the presented  *)
(* token by a new one of its family and leaves a consumed marker.  A spent *)
(* token that is presented again, or a disabled account, revokes the       *)
(* family; an operator, or a logout, revokes everything in the user's      *)
(* index.  Requests run concurrently and every step is one Redis command.  *)
(* An access token is named by the refresh token minted with it; natural   *)
(* expiry is left out.                                                     *)
(***************************************************************************)
EXTENDS Naturals, FiniteSets

CONSTANTS
    Tokens,         \* the refresh tokens ever minted
    Families,
    Procs,          \* requests that may run concurrently
    None,
    MaxRevokes      \* bound: operator revocations and logouts

VARIABLES
    refresh,        \* oidc:refresh:<token>: the family of a live token
    access,         \* oidc:token:<id>: the live access tokens
    consumed,       \* oidc:refresh consumed markers: the family of a spent token
    family,         \* the members listed under a family
    index,          \* oidc:utk:<user>:<client>: the keys listed for the user
    disabled,       \* the account is no longer active
    proc,
    minted,         \* token and family ids generated so far
    revokes,
    issued,         \* tokens returned to the client
    ancestors,      \* history: the tokens a token descends from
    crossed,        \* history: tokens whose minting overlapped a revocation
    dead            \* history: tokens issued before a revocation that has completed

store == <<refresh, access, consumed, family, index>>

history == <<issued, ancestors, crossed, dead>>

vars == <<store, disabled, proc, minted, revokes, history>>

Idle == [pc |-> "idle", cur |-> None, new |-> None, fam |-> None, todo |-> {}, scope |-> {}]

Init ==
    /\ refresh = [t \in Tokens |-> None]
    /\ access = {}
    /\ consumed = [t \in Tokens |-> None]
    /\ family = [f \in Families |-> {}]
    /\ index = {}
    /\ disabled = FALSE
    /\ proc = [p \in Procs |-> Idle]
    /\ minted = {}
    /\ revokes = 0
    /\ issued = {}
    /\ ancestors = [t \in Tokens |-> {}]
    /\ crossed = {}
    /\ dead = {}

Live == {t \in Tokens : refresh[t] # None}

At(p, label) == proc[p].pc = label

Go(p, label) == proc' = [proc EXCEPT ![p].pc = label]

Revoking == {p \in Procs : proc[p].pc \in {"each", "drop", "delete", "unindex"}}

\* A token minted while a revocation is under way overlaps it.
Mint(t) ==
    /\ t \notin minted
    /\ crossed' = IF Revoking = {} THEN crossed ELSE crossed \cup {t}

\* A revocation overlaps the exchanges under way.
RevocationStarts ==
    crossed' = crossed \cup ({proc[p].new : p \in Procs} \ {None})

-----------------------------------------------------------------------------

\* The code flow of CreateAccessAndRefreshTokens: new ids, a new family.
CodeExchange(p, t, f) ==
    /\ At(p, "idle")
    /\ Mint(t) /\ f \notin minted
    /\ minted' = minted \cup {t, f}
    /\ proc' = [proc EXCEPT ![p] = [Idle EXCEPT !.pc = "access", !.new = t, !.fam = f]]
    /\ UNCHANGED <<store, disabled, revokes, issued, ancestors, dead>>

\* TokenRequestByRefreshToken reads the token that the client presents.
TokenRequestByRefreshToken(p, t) ==
    /\ At(p, "idle")
    /\ t \in issued
    /\ proc' = [proc EXCEPT ![p] =
          [Idle EXCEPT !.pc = IF t \in Live THEN "user" ELSE "reuse", !.cur = t, !.fam = refresh[t]]]
    /\ UNCHANGED <<store, disabled, minted, revokes, history>>

Spent(t) == consumed[t] # None

\* checkReuse: the consumed marker of a token that is not live.
checkReuse(p) ==
    /\ At(p, "reuse")
    /\ proc' = [proc EXCEPT ![p] =
          IF Spent(@.cur) THEN [@ EXCEPT !.pc = "members", !.fam = consumed[proc[p].cur]]
          ELSE Idle]
    /\ UNCHANGED <<store, disabled, minted, revokes, history>>

\* IsUserActive: an inactive account, or a lookup that fails, revokes the
\* family; otherwise the new token's id is generated.
IsUserActive(p, t) ==
    /\ At(p, "user")
    /\ \/ /\ Go(p, "members")
          /\ UNCHANGED <<minted, crossed>>
       \/ /\ ~ disabled
          /\ Mint(t)
          /\ minted' = minted \cup {t}
          /\ proc' = [proc EXCEPT ![p].pc = "access", ![p].new = t]
    /\ UNCHANGED <<store, disabled, revokes, issued, ancestors, dead>>

storeAccessToken(p) ==
    /\ At(p, "access")
    /\ access' = access \cup {proc[p].new}
    /\ Go(p, "indexAccess")
    /\ UNCHANGED <<refresh, consumed, family, index, disabled, minted, revokes, history>>

\* indexAdd for the access token.
indexAccess(p) ==
    /\ At(p, "indexAccess")
    /\ index' = index \cup {<<"access", proc[p].new>>}
    /\ Go(p, IF proc[p].cur = None THEN "set" ELSE "renew")
    /\ UNCHANGED <<refresh, access, consumed, family, disabled, minted, revokes, history>>

\* renewRefreshToken reads the presented token again.
renewGet(p) ==
    /\ At(p, "renew")
    /\ Go(p, IF proc[p].cur \in Live THEN "del" ELSE "reuse")
    /\ UNCHANGED <<store, disabled, minted, revokes, history>>

\* Its DEL of the token and of the access token that belongs to it.
renewDel(p) ==
    /\ At(p, "del")
    /\ refresh' = [refresh EXCEPT ![proc[p].cur] = None]
    /\ access' = access \ {proc[p].cur}
    /\ Go(p, "mark")
    /\ UNCHANGED <<consumed, family, index, disabled, minted, revokes, history>>

Marked(p) == [consumed EXCEPT ![proc[p].cur] = proc[p].fam]

\* Its consumed marker.
renewMark(p) ==
    /\ At(p, "mark")
    /\ consumed' = Marked(p)
    /\ Go(p, "set")
    /\ UNCHANGED <<refresh, access, family, index, disabled, minted, revokes, history>>

\* The SET of the new token, by renewRefreshToken or storeRefreshToken.
setRefresh(p) ==
    LET cur == proc[p].cur
    IN  /\ At(p, "set")
        /\ refresh' = [refresh EXCEPT ![proc[p].new] = proc[p].fam]
        /\ ancestors' = [ancestors EXCEPT ![proc[p].new] =
                            IF cur = None THEN {} ELSE ancestors[cur] \cup {cur}]
        /\ Go(p, "indexRefresh")
        /\ UNCHANGED <<access, consumed, family, index, disabled, minted, revokes, issued, crossed, dead>>

\* indexAdd for the refresh token.
indexRefresh(p) ==
    /\ At(p, "indexRefresh")
    /\ index' = index \cup {<<"refresh", proc[p].new>>}
    /\ Go(p, "family")
    /\ UNCHANGED <<refresh, access, consumed, family, disabled, minted, revokes, history>>

\* Mutant: the successor is not listed.
RelistedNot(p) == family[proc[p].fam] \ {proc[p].cur}

Relisted(p) == (family[proc[p].fam] \ {proc[p].cur}) \cup {proc[p].new}

\* The family's list, and the response to the client.
familyAdd(p) ==
    /\ At(p, "family")
    /\ family' = [family EXCEPT ![proc[p].fam] = Relisted(p)]
    /\ issued' = issued \cup {proc[p].new}
    /\ proc' = [proc EXCEPT ![p] = Idle]
    /\ UNCHANGED <<refresh, access, consumed, index, disabled, minted, revokes, ancestors, crossed, dead>>

-----------------------------------------------------------------------------

\* revokeFamily: the members.
revokeFamily(p) ==
    /\ At(p, "members")
    /\ proc' = [proc EXCEPT ![p].pc = "each",
                            ![p].todo = family[proc[p].fam],
                            ![p].scope = {t \in issued : proc[p].fam \in {refresh[t], consumed[t]}}]
    /\ RevocationStarts
    /\ UNCHANGED <<store, disabled, minted, revokes, issued, ancestors, dead>>

\* Each member and the access token of a live one are deleted.
revokeMember(p, t) ==
    /\ At(p, "each")
    /\ t \in proc[p].todo
    /\ access' = IF t \in Live THEN access \ {t} ELSE access
    /\ refresh' = [refresh EXCEPT ![t] = None]
    /\ proc' = [proc EXCEPT ![p].todo = @ \ {t}]
    /\ UNCHANGED <<consumed, family, index, disabled, minted, revokes, history>>

revokeMembersDone(p) ==
    /\ At(p, "each")
    /\ proc[p].todo = {}
    /\ Go(p, "drop")
    /\ UNCHANGED <<store, disabled, minted, revokes, history>>

\* The family's list is deleted; the request is refused.
dropFamily(p) ==
    /\ At(p, "drop")
    /\ family' = [family EXCEPT ![proc[p].fam] = {}]
    /\ dead' = dead \cup proc[p].scope
    /\ proc' = [proc EXCEPT ![p] = Idle]
    /\ UNCHANGED <<refresh, access, consumed, index, disabled, minted, revokes, issued, ancestors,
                   crossed>>

\* RevokeAllForClient, or a logout: TerminateSession reads the user's index.
TerminateSession(p) ==
    /\ At(p, "idle")
    /\ revokes < MaxRevokes
    /\ revokes' = revokes + 1
    /\ proc' = [proc EXCEPT ![p] = [Idle EXCEPT !.pc = "delete", !.todo = index, !.scope = issued]]
    /\ RevocationStarts
    /\ UNCHANGED <<store, disabled, minted, issued, ancestors, dead>>

\* Its DEL of every member.
terminateDelete(p) ==
    /\ At(p, "delete")
    /\ refresh' = [t \in Tokens |-> IF <<"refresh", t>> \in proc[p].todo THEN None ELSE refresh[t]]
    /\ access' = {t \in access : <<"access", t>> \notin proc[p].todo}
    /\ Go(p, "unindex")
    /\ UNCHANGED <<consumed, family, index, disabled, minted, revokes, history>>

\* Its DEL of the index.
terminateUnindex(p) ==
    /\ At(p, "unindex")
    /\ index' = {}
    /\ dead' = dead \cup proc[p].scope
    /\ proc' = [proc EXCEPT ![p] = Idle]
    /\ UNCHANGED <<refresh, access, consumed, family, disabled, minted, revokes, issued, ancestors,
                   crossed>>

\* RevokeToken: an access token, or a live refresh token and its access token.
RevokeToken(t) ==
    /\ t \in issued
    /\ t \in access \cup Live
    /\ \/ refresh' = refresh
       \/ refresh' = [refresh EXCEPT ![t] = None]
    /\ access' = access \ {t}
    /\ UNCHANGED <<consumed, family, index, disabled, proc, minted, revokes, history>>

\* The account is disabled.
Disable ==
    /\ ~ disabled
    /\ disabled' = TRUE
    /\ UNCHANGED <<store, proc, minted, revokes, history>>

\* A replica stops in the middle of a request.
Crash(p) ==
    /\ ~ At(p, "idle")
    /\ proc' = [proc EXCEPT ![p] = Idle]
    /\ UNCHANGED <<store, disabled, minted, revokes, history>>

\* One Redis command of a request, or its end.
RequestStep(p) ==
    \/ \E t \in Tokens, f \in Families : CodeExchange(p, t, f)
    \/ \E t \in Tokens : TokenRequestByRefreshToken(p, t) \/ IsUserActive(p, t)
                         \/ revokeMember(p, t)
    \/ checkReuse(p) \/ storeAccessToken(p) \/ indexAccess(p)
    \/ renewGet(p) \/ renewDel(p) \/ renewMark(p)
    \/ setRefresh(p) \/ indexRefresh(p) \/ familyAdd(p)
    \/ revokeFamily(p) \/ revokeMembersDone(p) \/ dropFamily(p)
    \/ TerminateSession(p) \/ terminateDelete(p) \/ terminateUnindex(p)
    \/ Crash(p)

Next ==
    \/ \E p \in Procs : RequestStep(p)
    \/ \E t \in Tokens : RevokeToken(t)
    \/ Disable

Spec == Init /\ [][Next]_vars

-----------------------------------------------------------------------------

\* The types of the Redis keys, the locals and the history.
TypeOK ==
    /\ refresh \in [Tokens -> Families \cup {None}]
    /\ access \subseteq Tokens
    /\ consumed \in [Tokens -> Families \cup {None}]
    /\ family \in [Families -> SUBSET Tokens]
    /\ index \subseteq {"access", "refresh"} \X Tokens
    /\ disabled \in BOOLEAN
    /\ \A p \in Procs :
          /\ proc[p].pc \in {"idle", "user", "reuse", "access", "indexAccess", "renew", "del",
                              "mark", "set", "indexRefresh", "family", "members", "each", "drop",
                              "delete", "unindex"}
          /\ proc[p].cur \in Tokens \cup {None} /\ proc[p].new \in Tokens \cup {None}
          /\ proc[p].fam \in Families \cup {None} /\ proc[p].scope \subseteq Tokens
          /\ proc[p].pc \in {"del", "mark", "set", "family", "members", "each", "drop"} =>
                proc[p].fam # None
    /\ minted \subseteq Tokens \cup Families
    /\ issued \subseteq minted /\ Live \subseteq minted
    /\ revokes \in 0 .. MaxRevokes
    /\ ancestors \in [Tokens -> SUBSET Tokens]
    /\ crossed \subseteq Tokens /\ dead \subseteq issued

(***************************************************************************)
(* Presenting a spent token is recognised as long as it matters: every     *)
(* token that a live one descends from is gone and carries the consumed    *)
(* marker that checkReuse looks for, whichever refreshes ran at once and   *)
(* wherever a replica stopped in the middle of one.                        *)
(***************************************************************************)
AncestorsMarked ==
    \A t \in Live : \A a \in ancestors[t] : a \notin Live /\ consumed[a] = refresh[t]

\* The tokens in the client's hands that a completed revocation should have ended.
Survivors == {t \in Live \cap issued : (ancestors[t] \cup {t}) \cap dead # {}}

(***************************************************************************)
(* After revokeFamily or TerminateSession has finished, the tokens issued  *)
(* before it, and all that descend from them, are dead; except where an    *)
(* exchange that minted one of them ran at the same time as a revocation.  *)
(***************************************************************************)
RevokedUnlessCrossed ==
    \A t \in Survivors : (ancestors[t] \cup {t}) \cap crossed # {}

\* A completed revocation leaves no token of a family but those that crossed it, and
\* every spent token is marked with its family (revokeFamily, checkReuse).
FamiliesRevoked == TypeOK /\ RevokedUnlessCrossed /\ AncestorsMarked

(***************************************************************************)
(* "Refresh flow: rotate. Mint new refresh string + access, swap           *)
(* atomically" (CreateAccessAndRefreshTokens): a family has one live token.*)
(***************************************************************************)
OneLive == \A t, u \in Live \cap issued : refresh[t] = refresh[u] => t = u
=============================================================================
