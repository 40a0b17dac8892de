------------------------- MODULE RefreshTokens_proofs -------------------------
(***************************************************************************)
(* Proofs about RefreshTokens, for every number of tokens, families and    *)
(* concurrent requests.                                                    *)
(***************************************************************************)
EXTENDS RefreshTokens, TLAPS

\* Most leaves are first-order; the ones that need more name their prover.
USE Zenon

\* What the constants have to be: None is no token and no family, and a code
\* exchange has a family to open.
Names == None \notin Tokens \cup Families /\ Families # {} /\ MaxRevokes \in Nat

Labels == {"idle", "user", "reuse", "access", "indexAccess", "renew", "del", "mark", "set",
           "indexRefresh", "family", "members", "each", "drop", "delete", "unindex"}

Keys == {"access", "refresh"} \X Tokens

Request == [pc : Labels, cur : Tokens \cup {None}, new : Tokens \cup {None},
            fam : Families \cup {None}, todo : SUBSET (Tokens \cup Keys), scope : SUBSET Tokens]

\* The parts of a request that mint a token, before and after its SET.
Minting == {"access", "indexAccess", "renew", "del", "mark", "set", "indexRefresh", "family"}

\* The types, and what a request holds at each of its steps.
Shape ==
    /\ refresh \in [Tokens -> Families \cup {None}]
    /\ access \subseteq Tokens
    /\ consumed \in [Tokens -> Families \cup {None}]
    /\ family \in [Families -> SUBSET Tokens]
    /\ index \subseteq Keys
    /\ disabled \in BOOLEAN
    /\ proc \in [Procs -> Request]
    /\ minted \subseteq Tokens \cup Families
    /\ revokes \in 0 .. MaxRevokes
    /\ issued \subseteq Tokens
    /\ ancestors \in [Tokens -> SUBSET Tokens]
    /\ crossed \subseteq Tokens

Holds(x) ==
    /\ x.pc \in Minting => x.new # None
    /\ x.pc \in Minting \cup {"user", "members", "each", "drop"} => x.fam # None
    /\ x.pc \in {"user", "reuse", "renew", "del", "mark"} => x.cur # None
    /\ x.pc \in {"idle", "user", "delete", "unindex"} => x.new = None
    /\ x.pc \in {"each", "drop", "delete", "unindex"} => x.scope \subseteq issued
    /\ x.cur # None => x.cur \in issued
    /\ x.new # None => x.new \in minted \ issued

\* A request that has deleted the token it renews, up to its SET and after it.
Renewed(x) ==
    /\ x.pc \in {"mark", "set", "indexRefresh", "family"} /\ x.cur # None => x.cur \notin Live
    /\ x.pc = "set" /\ x.cur # None => consumed[x.cur] # None

\* New tokens are in the hands of one request; a spent token was issued; what a
\* token descends from is spent.
Lineage ==
    /\ \A p \in Procs : Holds(proc[p]) /\ Renewed(proc[p])
    /\ \A p, q \in Procs : proc[p].new # None /\ proc[p].new = proc[q].new => p = q
    /\ \A t \in Tokens : consumed[t] # None => t \in issued
    /\ \A t \in Tokens : \A a \in ancestors[t] :
          t \in minted /\ a \in issued /\ a \notin Live /\ consumed[a] # None
    /\ issued \subseteq minted /\ Live \subseteq minted /\ dead \subseteq issued

\* A request works on one family.
KinOf(F, x) ==
    /\ x.cur # None /\ x.fam # None => x.fam = F[x.cur]
    /\ x.new # None => x.fam = F[x.new]
    /\ x.pc \in {"each", "drop"} => \A a \in x.scope : F[a] = x.fam

\* F says which family a token was minted in.
Kinship(F) ==
    /\ \A t \in Tokens : refresh[t] # None => refresh[t] = F[t]
    /\ \A t \in Tokens : consumed[t] # None => consumed[t] = F[t]
    /\ \A t \in Tokens : \A a \in ancestors[t] : F[a] = F[t]
    /\ \A p \in Procs : KinOf(F, proc[p])

\* A token that a revocation did not overlap is in the lists the revocations
\* work from, until they have deleted it.
Crossing == \A q \in Revoking : \A p \in Procs : proc[p].new # None => proc[p].new \in crossed

Indexed ==
    \A t \in Live \ crossed :
        t \in issued \/ (\E p \in Procs : proc[p].pc = "family" /\ proc[p].new = t) =>
            /\ <<"refresh", t>> \in index
            /\ \A q \in Procs : /\ proc[q].pc = "delete" => <<"refresh", t>> \in proc[q].todo
                                /\ proc[q].pc # "unindex"

Listed(F) ==
    \A t \in (Live \cap issued) \ crossed :
        /\ t \in family[F[t]]
        /\ \A q \in Procs : proc[q].fam = F[t] =>
              (proc[q].pc = "each" => t \in proc[q].todo) /\ proc[q].pc # "drop"

\* t and what it descends from.
Chain(t) == ancestors[t] \cup {t}

Clean(S) == S \cap crossed = {} => S \cap dead = {}

\* No token of an uncrossed chain is dead: of an issued token, of one about to
\* be issued, and of the token that a request under way replaces.
Survival ==
    /\ \A t \in Live \cap issued : Clean(Chain(t))
    /\ \A p \in Procs : proc[p].pc \in {"indexRefresh", "family"} => Clean(Chain(proc[p].new))
    /\ \A p \in Procs : proc[p].pc \in {"del", "mark", "set"} /\ proc[p].cur # None =>
          Clean(Chain(proc[p].cur) \cup {proc[p].new})

RefreshInv ==
    /\ Shape /\ Lineage
    /\ \E F \in [Tokens -> Families] : Kinship(F) /\ Listed(F)
    /\ Crossing /\ Indexed /\ Survival

-------------------------------------------------------------------------------
(* The request after each step.                                            *)

\* Request p becomes x and the others stay as they are.
Becomes(p, x) ==
    /\ x \in Request /\ proc'[p] = x
    /\ \A q \in Procs \ {p} : proc'[q] = proc[q]
    /\ proc' \in [Procs -> Request]

LEMMA BecomesType ==
  ASSUME Shape, NEW p \in Procs, NEW x \in Request, proc' = [proc EXCEPT ![p] = x]
  PROVE  Becomes(p, x)
  BY DEF Shape, Becomes

LEMMA IdleType == Idle \in Request
  BY DEF Idle, Request, Labels

\* Go changes the label and nothing else.
LEMMA GoStep ==
  ASSUME Shape, NEW p \in Procs, NEW label \in Labels, Go(p, label)
  PROVE  \E x : /\ Becomes(p, x) /\ x.pc = label
                /\ x.cur = proc[p].cur /\ x.new = proc[p].new /\ x.fam = proc[p].fam
                /\ x.todo = proc[p].todo /\ x.scope = proc[p].scope
  <1>1. PICK x : x = [proc[p] EXCEPT !.pc = label]
    OBVIOUS
  <1>2. proc[p] \in Request
    BY DEF Shape
  <1>3. /\ x \in Request /\ x.pc = label
        /\ x.cur = proc[p].cur /\ x.new = proc[p].new /\ x.fam = proc[p].fam
        /\ x.todo = proc[p].todo /\ x.scope = proc[p].scope
    BY <1>1, <1>2 DEF Request
  <1>4. proc' = [proc EXCEPT ![p] = x]
    BY <1>1 DEF Go
  <1> QED BY <1>3, <1>4, BecomesType

LEMMA ReturnStep ==
  ASSUME Shape, NEW p \in Procs, proc' = [proc EXCEPT ![p] = Idle]
  PROVE  Becomes(p, Idle)
  BY IdleType, BecomesType

LEMMA CodeStep ==
  ASSUME Shape, NEW p \in Procs, NEW t \in Tokens, NEW f \in Families, CodeExchange(p, t, f)
  PROVE  \E x : /\ Becomes(p, x) /\ x.pc = "access" /\ x.cur = None /\ x.new = t
                /\ x.fam = f /\ x.todo = {} /\ x.scope = {}
  <1>1. PICK x : x = [Idle EXCEPT !.pc = "access", !.new = t, !.fam = f]
    OBVIOUS
  <1>2. /\ x \in Request /\ x.pc = "access" /\ x.cur = None /\ x.new = t
        /\ x.fam = f /\ x.todo = {} /\ x.scope = {}
    BY <1>1 DEF Idle, Request, Labels
  <1> QED BY <1>1, <1>2, BecomesType DEF CodeExchange

LEMMA PresentStep ==
  ASSUME Shape, NEW p \in Procs, NEW t \in Tokens, TokenRequestByRefreshToken(p, t)
  PROVE  \E x : /\ Becomes(p, x) /\ x.pc = (IF t \in Live THEN "user" ELSE "reuse")
                /\ x.cur = t /\ x.new = None /\ x.fam = refresh[t] /\ x.todo = {} /\ x.scope = {}
  <1>1. PICK x : x = [Idle EXCEPT !.pc = IF t \in Live THEN "user" ELSE "reuse",
                                  !.cur = t, !.fam = refresh[t]]
    OBVIOUS
  <1>2. /\ x \in Request /\ x.pc = (IF t \in Live THEN "user" ELSE "reuse")
        /\ x.cur = t /\ x.new = None /\ x.fam = refresh[t] /\ x.todo = {} /\ x.scope = {}
    BY <1>1 DEF Idle, Request, Labels, Shape
  <1> QED BY <1>1, <1>2, BecomesType DEF TokenRequestByRefreshToken

LEMMA ReuseStep ==
  ASSUME Shape, Lineage, NEW p \in Procs, checkReuse(p), Spent(proc[p].cur)
  PROVE  \E x : /\ Becomes(p, x) /\ x.pc = "members"
                /\ x.cur = proc[p].cur /\ x.new = proc[p].new
                /\ x.fam = consumed[proc[p].cur]
                /\ x.todo = proc[p].todo /\ x.scope = proc[p].scope
  <1>1. PICK x : x = [proc[p] EXCEPT !.pc = "members", !.fam = consumed[proc[p].cur]]
    OBVIOUS
  <1>2. proc[p] \in Request /\ proc[p].cur \in Tokens
    BY DEF Shape, Request, Lineage, Holds, checkReuse, At
  <1>3. /\ x \in Request /\ x.pc = "members"
        /\ x.cur = proc[p].cur /\ x.new = proc[p].new /\ x.fam = consumed[proc[p].cur]
        /\ x.todo = proc[p].todo /\ x.scope = proc[p].scope
    BY <1>1, <1>2 DEF Request, Labels, Shape
  <1>4. proc' = [proc EXCEPT ![p] = x]
    BY <1>1 DEF checkReuse
  <1> QED BY <1>3, <1>4, BecomesType

LEMMA ActiveStep ==
  ASSUME Shape, NEW p \in Procs, NEW t \in Tokens,
         proc' = [proc EXCEPT ![p].pc = "access", ![p].new = t]
  PROVE  \E x : /\ Becomes(p, x) /\ x.pc = "access" /\ x.new = t
                /\ x.cur = proc[p].cur /\ x.fam = proc[p].fam
                /\ x.todo = proc[p].todo /\ x.scope = proc[p].scope
  <1>1. PICK x : x = [proc[p] EXCEPT !.pc = "access", !.new = t]
    OBVIOUS
  <1>2. proc[p] \in Request
    BY DEF Shape
  <1>3. /\ x \in Request /\ x.pc = "access" /\ x.new = t
        /\ x.cur = proc[p].cur /\ x.fam = proc[p].fam
        /\ x.todo = proc[p].todo /\ x.scope = proc[p].scope
    BY <1>1, <1>2 DEF Request, Labels
  <1>4. proc' = [proc EXCEPT ![p] = x]
    BY <1>1 DEF Shape
  <1> QED BY <1>3, <1>4, BecomesType

LEMMA MembersStep ==
  ASSUME Shape, Lineage, NEW p \in Procs, revokeFamily(p)
  PROVE  \E x : /\ Becomes(p, x) /\ x.pc = "each"
                /\ x.cur = proc[p].cur /\ x.new = proc[p].new /\ x.fam = proc[p].fam
                /\ x.todo = family[proc[p].fam]
                /\ x.scope = {t \in issued : proc[p].fam \in {refresh[t], consumed[t]}}
  <1>0. PICK S : S = {t \in issued : proc[p].fam \in {refresh[t], consumed[t]}}
    OBVIOUS
  <1>1. PICK x : x = [proc[p] EXCEPT !.pc = "each", !.todo = family[proc[p].fam], !.scope = S]
    OBVIOUS
  <1>2. proc[p] \in Request /\ proc[p].fam \in Families /\ S \subseteq Tokens
    BY <1>0 DEF Shape, Request, Lineage, Holds, revokeFamily, At
  <1>3. /\ x \in Request /\ x.pc = "each"
        /\ x.cur = proc[p].cur /\ x.new = proc[p].new /\ x.fam = proc[p].fam
        /\ x.todo = family[proc[p].fam] /\ x.scope = S
    BY <1>1, <1>2 DEF Request, Labels, Shape
  <1>4. proc' = [proc EXCEPT ![p] = x]
    BY <1>0, <1>1 DEF revokeFamily, Shape
  <1> QED BY <1>0, <1>3, <1>4, BecomesType

LEMMA EachStep ==
  ASSUME Shape, NEW p \in Procs, NEW t \in Tokens, revokeMember(p, t)
  PROVE  \E x : /\ Becomes(p, x) /\ x.pc = "each"
                /\ x.cur = proc[p].cur /\ x.new = proc[p].new /\ x.fam = proc[p].fam
                /\ x.todo = proc[p].todo \ {t} /\ x.scope = proc[p].scope
  <1>1. PICK x : x = [proc[p] EXCEPT !.todo = @ \ {t}]
    OBVIOUS
  <1>2. proc[p] \in Request
    BY DEF Shape
  <1>3. /\ x \in Request /\ x.pc = "each"
        /\ x.cur = proc[p].cur /\ x.new = proc[p].new /\ x.fam = proc[p].fam
        /\ x.todo = proc[p].todo \ {t} /\ x.scope = proc[p].scope
    BY <1>1, <1>2 DEF Request, revokeMember, At
  <1>4. proc' = [proc EXCEPT ![p] = x]
    BY <1>1 DEF revokeMember
  <1> QED BY <1>3, <1>4, BecomesType

LEMMA TerminateStep ==
  ASSUME Shape, NEW p \in Procs, TerminateSession(p)
  PROVE  \E x : /\ Becomes(p, x) /\ x.pc = "delete" /\ x.cur = None /\ x.new = None
                /\ x.fam = None /\ x.todo = index /\ x.scope = issued
  <1>1. PICK x : x = [Idle EXCEPT !.pc = "delete", !.todo = index, !.scope = issued]
    OBVIOUS
  <1>2. /\ x \in Request /\ x.pc = "delete" /\ x.cur = None /\ x.new = None
        /\ x.fam = None /\ x.todo = index /\ x.scope = issued
    BY <1>1 DEF Idle, Request, Labels, Shape
  <1> QED BY <1>1, <1>2, BecomesType DEF TerminateSession

LEMMA NextProc ==
  ASSUME Names, Shape, Lineage, NEW p \in Procs, RequestStep(p)
  PROVE  proc' \in [Procs -> Request] /\ \A q \in Procs \ {p} : proc'[q] = proc[q]
  <1> DEFINE Goal == proc' \in [Procs -> Request] /\ \A q \in Procs \ {p} : proc'[q] = proc[q]
  <1> SUFFICES Goal
    OBVIOUS
  <1>1. ASSUME NEW x, Becomes(p, x) PROVE Goal
    BY <1>1 DEF Becomes
  <1> HIDE DEF Goal
  <1>2. ASSUME NEW label \in Labels, Go(p, label) PROVE Goal
    BY <1>1, <1>2, GoStep
  <1>3. CASE proc' = [proc EXCEPT ![p] = Idle]
    BY <1>1, <1>3, ReturnStep
  <1>4. ASSUME NEW t \in Tokens, NEW f \in Families, CodeExchange(p, t, f) PROVE Goal
    BY <1>1, <1>4, CodeStep
  <1>5. ASSUME NEW t \in Tokens, TokenRequestByRefreshToken(p, t) \/ revokeMember(p, t) PROVE Goal
    BY <1>1, <1>5, PresentStep, EachStep
  <1>6. ASSUME NEW t \in Tokens, IsUserActive(p, t) PROVE Goal
    <2>1. "members" \in Labels
      BY DEF Labels
    <2> QED BY <1>1, <1>2, <1>6, <2>1, ActiveStep DEF IsUserActive
  <1>7. CASE checkReuse(p)
    <2>1. CASE Spent(proc[p].cur)
      BY <1>1, <1>7, <2>1, ReuseStep
    <2>2. CASE ~ Spent(proc[p].cur)
      BY <1>3, <1>7, <2>2 DEF checkReuse
    <2> QED BY <2>1, <2>2
  <1>8. CASE revokeFamily(p) \/ TerminateSession(p)
    BY <1>1, <1>8, MembersStep, TerminateStep
  <1>9. CASE familyAdd(p) \/ dropFamily(p) \/ terminateUnindex(p) \/ Crash(p)
    BY <1>3, <1>9 DEF familyAdd, dropFamily, terminateUnindex, Crash
  <1>10. CASE \/ storeAccessToken(p) \/ indexAccess(p) \/ renewGet(p) \/ renewDel(p) \/ renewMark(p)
              \/ setRefresh(p) \/ indexRefresh(p) \/ revokeMembersDone(p) \/ terminateDelete(p)
    <2>1. \E label \in Labels : Go(p, label)
      BY <1>10 DEF storeAccessToken, indexAccess, renewGet, renewDel, renewMark, setRefresh,
         indexRefresh, revokeMembersDone, terminateDelete, Labels
    <2> QED BY <1>2, <2>1
  <1> QED BY <1>4, <1>5, <1>6, <1>7, <1>8, <1>9, <1>10 DEF RequestStep

\* What a request that has a given label is known to hold.
LEMMA HeldNames ==
  ASSUME Names, Shape, Lineage, NEW p \in Procs
  PROVE  /\ proc[p] \in Request /\ Holds(proc[p]) /\ Renewed(proc[p])
         /\ proc[p].pc \in Minting => proc[p].new \in Tokens /\ proc[p].new \in minted \ issued
         /\ proc[p].pc \in Minting \cup {"user", "members", "each", "drop"} => proc[p].fam \in Families
         /\ proc[p].pc \in {"user", "reuse", "renew", "del", "mark"} =>
               proc[p].cur \in Tokens /\ proc[p].cur \in issued
  <1>1. proc[p] \in Request /\ Holds(proc[p]) /\ Renewed(proc[p])
    BY DEF Shape, Lineage
  <1> QED BY <1>1 DEF Request, Holds, Names

LEMMA NextShape ==
  ASSUME Names, Shape, Lineage, [Next]_vars
  PROVE  Shape'
  <1>1. proc' \in [Procs -> Request]
    <2>1. CASE proc' = proc
      BY <2>1 DEF Shape
    <2> QED BY <2>1, NextProc DEF Next, RevokeToken, Disable, vars
  <1>2. CASE UNCHANGED vars
    BY <1>2 DEF Shape, vars, store, history
  <1>3. ASSUME NEW t \in Tokens, RevokeToken(t) PROVE Shape'
    BY <1>1, <1>3 DEF Shape, RevokeToken, history
  <1>4. CASE Disable
    BY <1>1, <1>4 DEF Shape, Disable, store, history
  <1>5. ASSUME NEW p \in Procs, NEW t \in Tokens,
               (\E f \in Families : CodeExchange(p, t, f)) \/ IsUserActive(p, t)
        PROVE  Shape'
    <2>1. UNCHANGED <<store, disabled, revokes, issued, ancestors, dead>>
      BY <1>5 DEF CodeExchange, IsUserActive
    <2>2. minted' \subseteq Tokens \cup Families /\ crossed' \subseteq Tokens
      BY <1>5 DEF CodeExchange, IsUserActive, Mint, Shape
    <2> QED BY <1>1, <2>1, <2>2 DEF Shape, store
  <1>6. ASSUME NEW p \in Procs, NEW t \in Tokens,
               TokenRequestByRefreshToken(p, t) \/ revokeMember(p, t)
        PROVE  Shape'
    BY <1>1, <1>6 DEF Shape, TokenRequestByRefreshToken, revokeMember, store, history
  <1>7. ASSUME NEW p \in Procs,
               \/ checkReuse(p) \/ storeAccessToken(p) \/ indexAccess(p) \/ renewGet(p)
               \/ indexRefresh(p) \/ revokeMembersDone(p) \/ Crash(p)
        PROVE  Shape'
    <2>1. At(p, "access") \/ At(p, "indexAccess") \/ At(p, "indexRefresh") => proc[p].new \in Tokens
      BY HeldNames DEF At, Minting
    <2>2. access' \subseteq Tokens /\ index' \subseteq Keys
      BY <1>7, <2>1, SMT DEF checkReuse, storeAccessToken, indexAccess, renewGet, indexRefresh,
         revokeMembersDone, Crash, store, Keys, Shape
    <2>3. UNCHANGED <<refresh, consumed, family, disabled, minted, revokes, issued, ancestors, crossed>>
      BY <1>7 DEF checkReuse, storeAccessToken, indexAccess, renewGet, indexRefresh,
         revokeMembersDone, Crash, store, history
    <2> QED BY <1>1, <2>2, <2>3 DEF Shape
  <1>8. ASSUME NEW p \in Procs, renewDel(p) \/ renewMark(p) PROVE Shape'
    <2>1. proc[p].cur \in Tokens /\ proc[p].fam \in Families
      BY <1>8, HeldNames DEF renewDel, renewMark, At, Minting
    <2> QED BY <1>1, <1>8, <2>1 DEF Shape, renewDel, renewMark, Marked, history
  <1>9. ASSUME NEW p \in Procs, setRefresh(p) PROVE Shape'
    <2>1. proc[p].new \in Tokens /\ proc[p].fam \in Families /\ proc[p].cur \in Tokens \cup {None}
      BY <1>9, HeldNames DEF setRefresh, At, Minting, Request
    <2>2. ancestors' \in [Tokens -> SUBSET Tokens]
      BY <1>9, <2>1 DEF setRefresh, Shape
    <2>3. refresh' \in [Tokens -> Families \cup {None}]
      BY <1>9, <2>1 DEF setRefresh, Shape
    <2> QED BY <1>1, <1>9, <2>2, <2>3 DEF Shape, setRefresh
  <1>10. ASSUME NEW p \in Procs, familyAdd(p) PROVE Shape'
    <2>1. proc[p].new \in Tokens /\ proc[p].fam \in Families
      BY <1>10, HeldNames DEF familyAdd, At, Minting
    <2> QED BY <1>1, <1>10, <2>1 DEF Shape, familyAdd, Relisted
  <1>11. ASSUME NEW p \in Procs, revokeFamily(p) \/ TerminateSession(p) PROVE Shape'
    <2>1. crossed' \subseteq Tokens
      BY <1>11, SMT DEF revokeFamily, TerminateSession, RevocationStarts, Shape, Request
    <2>2. revokes' \in 0 .. MaxRevokes
      BY <1>11, SMT DEF revokeFamily, TerminateSession, Shape, Names
    <2>3. UNCHANGED <<store, disabled, minted, issued, ancestors>>
      BY <1>11 DEF revokeFamily, TerminateSession
    <2> QED BY <1>1, <2>1, <2>2, <2>3 DEF Shape, store
  <1>12. ASSUME NEW p \in Procs, dropFamily(p) \/ terminateDelete(p) \/ terminateUnindex(p)
         PROVE  Shape'
    BY <1>1, <1>12 DEF Shape, dropFamily, terminateDelete, terminateUnindex, history
  <1> QED BY <1>2, <1>3, <1>4, <1>5, <1>6, <1>7, <1>8, <1>9, <1>10, <1>11, <1>12
          DEF Next, RequestStep

-------------------------------------------------------------------------------
(* Lineage.                                                                *)

\* What is left to show of a step of request p.
LEMMA LineageFrame ==
  ASSUME Names, Shape, Shape', Lineage, NEW p \in Procs,
         \A q \in Procs \ {p} : proc'[q] = proc[q],
         Holds(proc[p])', Renewed(proc[p])',
         proc'[p].new \in {None, proc[p].new} \/ proc'[p].new \notin minted,
         minted \subseteq minted',
         issued' = issued \/ (issued' = issued \cup {proc[p].new} /\ proc[p].new # None
                              /\ proc'[p].new = None),
         Live' \subseteq Live \cup {proc[p].new},
         \A t \in Tokens : consumed[t] # None => consumed'[t] # None,
         \A t \in Tokens : consumed'[t] # None => t \in issued,
         \A t \in Tokens : \A a \in ancestors'[t] :
            a \in ancestors[t] \/ (t \in minted /\ a \in issued /\ a \notin Live /\ consumed[a] # None),
         dead' \subseteq issued'
  PROVE  Lineage'
  <1>1. proc[p] \in Request /\ Holds(proc[p]) /\ Live' \subseteq Tokens
    BY HeldNames DEF Live
  <1>2. issued \subseteq issued' /\ issued' \subseteq minted /\ Live' \subseteq minted
    <2>1. proc[p].new # None => proc[p].new \in minted
      BY <1>1 DEF Holds
    <2> QED BY <1>1, <2>1, SMT DEF Lineage, Names
  <1>3. ASSUME NEW a \in issued, a \notin Live PROVE a \notin Live'
    BY <1>1, <1>3, SMT DEF Holds, Names, Shape
  <1>4. ASSUME NEW q \in Procs PROVE Holds(proc[q])' /\ Renewed(proc[q])'
    <2>1. CASE q = p
      BY <2>1
    <2>2. CASE q # p
      <3>1. proc'[q] = proc[q] /\ proc[q] \in Request /\ Holds(proc[q]) /\ Renewed(proc[q])
        BY <2>2, HeldNames
      <3>2. proc[q].new # None => proc[q].new # proc[p].new
        BY <2>2 DEF Lineage
      <3>3. Holds(proc[q])'
        BY <1>2, <3>1, <3>2, SMT DEF Holds
      <3>4. Renewed(proc[q])'
        BY <1>3, <3>1 DEF Renewed, Holds, Request
      <3> QED BY <3>3, <3>4
    <2> QED BY <2>1, <2>2
  <1>5. ASSUME NEW q \in Procs, NEW s \in Procs, proc'[q].new # None, proc'[q].new = proc'[s].new
        PROVE  q = s
    <2>1. \A r \in Procs \ {p} : proc[r].new # None => proc[r].new \in minted
      BY HeldNames DEF Holds
    <2> QED BY <1>5, <2>1, SMT DEF Lineage
  <1>6. \A t \in Tokens : consumed'[t] # None => t \in issued'
    BY <1>2
  <1>7. ASSUME NEW t \in Tokens, NEW a \in ancestors'[t]
        PROVE  t \in minted' /\ a \in issued' /\ a \notin Live' /\ consumed'[a] # None
    <2>1. t \in minted /\ a \in issued /\ a \notin Live /\ consumed[a] # None /\ a \in Tokens
      BY <1>7 DEF Lineage, Shape
    <2> QED BY <1>2, <1>3, <2>1
  <1>8. issued' \subseteq minted' /\ Live' \subseteq minted'
    BY <1>2
  <1> QED BY <1>4, <1>5, <1>6, <1>7, <1>8 DEF Lineage

\* Renewed depends on the live tokens and on the markers only.
LEMMA QuietLineage ==
  ASSUME Names, Shape, Shape', Lineage, proc' = proc, minted' = minted, issued' = issued,
         consumed' = consumed, ancestors' = ancestors, dead' = dead, Live' \subseteq Live
  PROVE  Lineage'
  <1>1. ASSUME NEW q \in Procs PROVE Holds(proc[q])' /\ Renewed(proc[q])'
    <2>1. Holds(proc[q]) /\ Renewed(proc[q])
      BY DEF Lineage
    <2>2. Holds(proc[q])'
      BY <2>1 DEF Holds
    <2>3. Renewed(proc[q])'
      BY <2>1 DEF Renewed
    <2> QED BY <2>2, <2>3
  <1>2. /\ \A q, s \in Procs : proc'[q].new # None /\ proc'[q].new = proc'[s].new => q = s
        /\ \A t \in Tokens : consumed'[t] # None => t \in issued'
        /\ \A t \in Tokens : \A a \in ancestors'[t] :
              t \in minted' /\ a \in issued' /\ a \notin Live' /\ consumed'[a] # None
        /\ issued' \subseteq minted' /\ Live' \subseteq minted' /\ dead' \subseteq issued'
    BY DEF Lineage
  <1> QED BY <1>1, <1>2 DEF Lineage

\* A step that mints.
LEMMA MintLineage ==
  ASSUME Names, Shape, Shape', Lineage, NEW p \in Procs, NEW t \in Tokens,
         \/ \E f \in Families : CodeExchange(p, t, f)
         \/ IsUserActive(p, t)
  PROVE  Lineage'
  <1>1. \A q \in Procs \ {p} : proc'[q] = proc[q]
    BY NextProc DEF RequestStep
  <1>2. /\ UNCHANGED <<refresh, consumed, issued, ancestors, dead>> /\ minted \subseteq minted'
        /\ dead \subseteq issued
    BY DEF CodeExchange, IsUserActive, store, Lineage
  <1>3. Live' = Live /\ \A a \in Tokens : consumed[a] # None => a \in issued
    BY <1>2 DEF Live, Lineage
  <1>4. proc[p] \in Request /\ Holds(proc[p]) /\ Renewed(proc[p])
    BY HeldNames
  <1>5. ASSUME NEW f \in Families, CodeExchange(p, t, f) PROVE Lineage'
    <2>1. PICK x : /\ Becomes(p, x) /\ x.pc = "access" /\ x.cur = None /\ x.new = t
                   /\ x.fam = f /\ x.todo = {} /\ x.scope = {}
      BY <1>5, CodeStep, SMT
    <2>2. proc'[p] = x /\ t \notin minted /\ t \in minted' /\ t \notin issued
      BY <1>5, <2>1 DEF Becomes, CodeExchange, Mint, Lineage
    <2>3. Holds(proc[p])'
      BY <1>2, <2>1, <2>2 DEF Holds, Minting, Names
    <2>4. Renewed(proc[p])'
      BY <2>1, <2>2 DEF Renewed
    <2>5. proc'[p].new \notin minted
      BY <2>1, <2>2
    <2> QED BY <1>1, <1>2, <1>3, <2>3, <2>4, <2>5, LineageFrame
  <1>6. CASE Go(p, "members") /\ At(p, "user") /\ minted' = minted
    <2>1. PICK x : /\ Becomes(p, x) /\ x.pc = "members"
                   /\ x.cur = proc[p].cur /\ x.new = proc[p].new /\ x.fam = proc[p].fam
                   /\ x.todo = proc[p].todo /\ x.scope = proc[p].scope
      BY <1>6, GoStep DEF Labels
    <2>2. proc'[p] = x
      BY <2>1 DEF Becomes
    <2>3. Holds(proc[p])'
      BY <1>2, <1>4, <1>6, <2>1, <2>2 DEF Holds, Minting, At
    <2>4. Renewed(proc[p])'
      BY <2>1, <2>2 DEF Renewed
    <2>5. proc'[p].new = proc[p].new
      BY <2>1, <2>2
    <2> QED BY <1>1, <1>2, <1>3, <2>3, <2>4, <2>5, LineageFrame
  <1>7. CASE /\ proc' = [proc EXCEPT ![p].pc = "access", ![p].new = t] /\ At(p, "user")
             /\ Mint(t) /\ minted' = minted \cup {t}
    <2>1. PICK x : /\ Becomes(p, x) /\ x.pc = "access" /\ x.new = t
                   /\ x.cur = proc[p].cur /\ x.fam = proc[p].fam
                   /\ x.todo = proc[p].todo /\ x.scope = proc[p].scope
      BY <1>7, ActiveStep
    <2>2. proc'[p] = x /\ t \notin minted /\ t \in minted' /\ t \notin issued
      BY <1>7, <2>1 DEF Becomes, Mint, Lineage
    <2>3. Holds(proc[p])'
      <3>1. /\ proc[p].pc = "user" /\ proc[p].cur # None /\ proc[p].cur \in issued
            /\ proc[p].fam # None /\ t # None
        BY <1>4, <1>7 DEF At, Holds, Names
      <3> QED BY <1>2, <2>1, <2>2, <3>1 DEF Holds, Minting
    <2>4. Renewed(proc[p])'
      BY <2>1, <2>2 DEF Renewed
    <2>5. proc'[p].new \notin minted
      BY <2>1, <2>2
    <2> QED BY <1>1, <1>2, <1>3, <2>3, <2>4, <2>5, LineageFrame
  <1> QED BY <1>5, <1>6, <1>7 DEF IsUserActive

\* A step of Go, with what it may change besides the label.
LEMMA GoLineage ==
  ASSUME Names, Shape, Shape', Lineage, NEW p \in Procs,
         \/ storeAccessToken(p) \/ indexAccess(p) \/ renewGet(p) \/ renewDel(p) \/ renewMark(p)
         \/ setRefresh(p) \/ indexRefresh(p) \/ revokeMembersDone(p) \/ terminateDelete(p)
  PROVE  Lineage'
  <1>1. proc[p] \in Request /\ Holds(proc[p]) /\ Renewed(proc[p])
    BY HeldNames
  <1>2. PICK label \in Labels :
           /\ Go(p, label)
           /\ \/ storeAccessToken(p) /\ label = "indexAccess"
              \/ indexAccess(p) /\ label = (IF proc[p].cur = None THEN "set" ELSE "renew")
              \/ renewGet(p) /\ label \in {"del", "reuse"}
              \/ renewDel(p) /\ label = "mark"
              \/ renewMark(p) /\ label = "set"
              \/ setRefresh(p) /\ label = "indexRefresh"
              \/ indexRefresh(p) /\ label = "family"
              \/ revokeMembersDone(p) /\ label = "drop"
              \/ terminateDelete(p) /\ label = "unindex"
    <2> USE DEF Labels
    <2>1. CASE storeAccessToken(p) \/ indexAccess(p) \/ renewGet(p)
      BY <2>1 DEF storeAccessToken, indexAccess, renewGet
    <2>2. CASE renewDel(p) \/ renewMark(p) \/ setRefresh(p)
      BY <2>2 DEF renewDel, renewMark, setRefresh
    <2>3. CASE indexRefresh(p) \/ revokeMembersDone(p) \/ terminateDelete(p)
      BY <2>3 DEF indexRefresh, revokeMembersDone, terminateDelete
    <2> QED BY <2>1, <2>2, <2>3
  <1>3. PICK x : /\ Becomes(p, x) /\ x.pc = label
                 /\ x.cur = proc[p].cur /\ x.new = proc[p].new /\ x.fam = proc[p].fam
                 /\ x.todo = proc[p].todo /\ x.scope = proc[p].scope
    BY <1>2, GoStep
  <1>4. proc'[p] = x /\ \A q \in Procs \ {p} : proc'[q] = proc[q]
    BY <1>3 DEF Becomes
  <1>5. UNCHANGED <<minted, issued, dead>> /\ dead \subseteq issued
    BY DEF storeAccessToken, indexAccess, renewGet, renewDel, renewMark, setRefresh,
       indexRefresh, revokeMembersDone, terminateDelete, history, Lineage
  <1>6. Live' \subseteq Live \cup {proc[p].new}
    <2>1. CASE refresh' = refresh
      BY <2>1 DEF Live
    <2>2. CASE renewDel(p) \/ setRefresh(p) \/ terminateDelete(p)
      <3>1. \A t \in Tokens : refresh'[t] # None => refresh[t] # None \/ t = proc[p].new
        BY <2>2 DEF renewDel, setRefresh, terminateDelete, Shape
      <3> QED BY <3>1 DEF Live
    <2> QED BY <2>1, <2>2 DEF storeAccessToken, indexAccess, renewGet, renewMark, indexRefresh,
            revokeMembersDone, store
  <1>7. /\ \A t \in Tokens : consumed[t] # None => consumed'[t] # None
        /\ \A t \in Tokens : consumed'[t] # None => t \in issued
    <2>1. CASE consumed' = consumed
      BY <2>1 DEF Lineage
    <2>2. CASE renewMark(p)
      <3>1. proc[p].cur \in issued /\ proc[p].cur \in Tokens /\ proc[p].fam # None
        BY <2>2, HeldNames DEF renewMark, At, Minting, Names
      <3> QED BY <2>2, <3>1 DEF renewMark, Marked, Lineage, Shape
    <2> QED BY <2>1, <2>2 DEF storeAccessToken, indexAccess, renewGet, renewDel, setRefresh,
            indexRefresh, revokeMembersDone, terminateDelete, store
  <1>8. \A t \in Tokens : \A a \in ancestors'[t] :
            a \in ancestors[t] \/ (t \in minted /\ a \in issued /\ a \notin Live /\ consumed[a] # None)
    <2>1. CASE ancestors' = ancestors
      BY <2>1
    <2>2. CASE setRefresh(p)
      <3>1. proc[p].new \in minted /\ proc[p].new \in Tokens
        BY <2>2, HeldNames DEF setRefresh, At, Minting
      <3>2. proc[p].cur # None => /\ proc[p].cur \in issued /\ proc[p].cur \notin Live
                                  /\ consumed[proc[p].cur] # None /\ proc[p].cur \in Tokens
        BY <1>1, <2>2 DEF setRefresh, At, Holds, Renewed, Request
      <3>3. \A t \in Tokens \ {proc[p].new} : ancestors'[t] = ancestors[t]
        BY <2>2 DEF setRefresh, Shape
      <3>4. ancestors'[proc[p].new] = IF proc[p].cur = None THEN {}
                                      ELSE ancestors[proc[p].cur] \cup {proc[p].cur}
        BY <2>2, <3>1 DEF setRefresh, Shape
      <3> QED BY <3>1, <3>2, <3>3, <3>4, SMT DEF Lineage
    <2> QED BY <2>1, <2>2 DEF storeAccessToken, indexAccess, renewGet, renewDel, renewMark,
            indexRefresh, revokeMembersDone, terminateDelete, history
  <1>9. Holds(proc[p])'
    <2>1. /\ label \in Minting => proc[p].pc \in Minting
          /\ label \in {"members", "each", "drop"} => proc[p].pc = "each"
          /\ label \in {"user", "reuse", "renew", "del", "mark"} =>
                proc[p].pc \in {"renew", "del"} \/ proc[p].cur # None
          /\ label \notin {"idle", "user", "delete", "each"}
          /\ label = "unindex" => proc[p].pc = "delete"
      BY <1>2 DEF storeAccessToken, indexAccess, renewGet, renewDel, renewMark,
         setRefresh, indexRefresh, revokeMembersDone, terminateDelete, Minting, At
    <2> QED BY <1>1, <1>3, <1>4, <1>5, <2>1 DEF Holds, Minting
  <1>10. Renewed(proc[p])'
    <2>1. CASE renewDel(p) /\ label = "mark"
      <3>1. proc[p].cur \in Tokens
        BY <2>1, HeldNames DEF renewDel, At
      <3>2. x.cur \notin Live'
        BY <1>3, <2>1, <3>1 DEF renewDel, Live, Shape
      <3> QED BY <1>3, <1>4, <2>1, <3>2 DEF Renewed
    <2>2. CASE renewMark(p) /\ label = "set"
      <3>1. proc[p].cur \in Tokens /\ proc[p].cur # None /\ proc[p].fam \in Families
        BY <2>2, HeldNames DEF renewMark, At, Minting, Names
      <3>2. consumed'[x.cur] # None
        BY <1>3, <2>2, <3>1 DEF renewMark, Marked, Shape, Names
      <3>3. x.cur \notin Live'
        BY <1>1, <1>3, <2>2, <3>1 DEF renewMark, Live, Renewed, At
      <3> QED BY <1>3, <1>4, <3>2, <3>3 DEF Renewed
    <2>3. CASE (setRefresh(p) /\ label = "indexRefresh") \/ (indexRefresh(p) /\ label = "family")
      <3>1. proc[p].pc \in {"set", "indexRefresh"}
        BY <2>3 DEF setRefresh, indexRefresh, At
      <3>2. x.cur # None => x.cur \notin Live /\ x.cur # proc[p].new /\ x.cur \in Tokens
        BY <1>1, <1>3, <3>1 DEF Renewed, Holds, Minting, Request
      <3>3. x.cur # None => x.cur \notin Live'
        BY <1>6, <3>2
      <3> QED BY <1>3, <1>4, <2>3, <3>3 DEF Renewed
    <2>4. CASE label \notin {"mark", "set", "indexRefresh", "family"}
      BY <1>3, <1>4, <2>4 DEF Renewed
    <2>5. CASE label = "set" /\ proc[p].cur = None
      BY <1>3, <1>4, <2>5 DEF Renewed
    <2> QED BY <1>2, <2>1, <2>2, <2>3, <2>4, <2>5
  <1>11. proc'[p].new = proc[p].new
    BY <1>3, <1>4
  <1> QED BY <1>4, <1>5, <1>6, <1>7, <1>8, <1>9, <1>10, <1>11, LineageFrame

\* The steps that begin or end a request or a revocation.
LEMMA OtherLineage ==
  ASSUME Names, Shape, Shape', Lineage, NEW p \in Procs,
         \/ \E t \in Tokens : TokenRequestByRefreshToken(p, t) \/ revokeMember(p, t)
         \/ checkReuse(p) \/ familyAdd(p) \/ revokeFamily(p) \/ dropFamily(p)
         \/ TerminateSession(p) \/ terminateUnindex(p) \/ Crash(p)
  PROVE  Lineage'
  <1>1. \A q \in Procs \ {p} : proc'[q] = proc[q]
    BY NextProc DEF RequestStep
  <1>2. proc[p] \in Request /\ Holds(proc[p]) /\ Renewed(proc[p])
    BY HeldNames
  <1>3. UNCHANGED <<consumed, minted, ancestors>> /\ Live' \subseteq Live
    <2>1. CASE refresh' = refresh
      BY <2>1 DEF Live, TokenRequestByRefreshToken, revokeMember, checkReuse, familyAdd,
         revokeFamily, dropFamily, TerminateSession, terminateUnindex, Crash, store, history
    <2>2. ASSUME NEW t \in Tokens, revokeMember(p, t)
          PROVE  UNCHANGED <<consumed, minted, ancestors>> /\ Live' \subseteq Live
      BY <2>2 DEF revokeMember, history, Live, Shape
    <2> QED BY <2>1, <2>2 DEF TokenRequestByRefreshToken, checkReuse, familyAdd,
            revokeFamily, dropFamily, TerminateSession, terminateUnindex, Crash, store
  <1>4. \A a \in Tokens : consumed[a] # None => a \in issued
    BY DEF Lineage
  <1>5. dead' \subseteq issued'
    <2>1. CASE dead' = dead
      BY <2>1 DEF Lineage, TokenRequestByRefreshToken, revokeMember, checkReuse, familyAdd,
         revokeFamily, dropFamily, TerminateSession, terminateUnindex, Crash, history
    <2>2. CASE dropFamily(p) \/ terminateUnindex(p)
      BY <1>2, <2>2 DEF dropFamily, terminateUnindex, Holds, At, Lineage
    <2> QED BY <2>1, <2>2 DEF TokenRequestByRefreshToken, revokeMember, checkReuse, familyAdd,
            revokeFamily, TerminateSession, Crash, history
  <1>6. CASE proc'[p] = Idle
    <2>1. Holds(proc[p])' /\ Renewed(proc[p])' /\ proc'[p].new = None
      BY <1>6, SMT DEF Holds, Renewed, Idle, Minting
    <2>2. \/ issued' = issued
          \/ issued' = issued \cup {proc[p].new} /\ proc[p].new # None
      <3>1. CASE familyAdd(p)
        BY <1>2, <3>1 DEF familyAdd, Holds, Minting, At
      <3> QED BY <3>1 DEF TokenRequestByRefreshToken, revokeMember, checkReuse,
              revokeFamily, dropFamily, TerminateSession, terminateUnindex, Crash, history
    <2> QED BY <1>1, <1>3, <1>4, <1>5, <2>1, <2>2, LineageFrame
  <1>7. ASSUME issued' = issued, Holds(proc[p])', proc'[p].new \in {None, proc[p].new},
               proc'[p].pc \notin {"mark", "set", "indexRefresh", "family"}
        PROVE  Lineage'
    <2>1. Renewed(proc[p])'
      BY <1>7 DEF Renewed
    <2> QED BY <1>1, <1>3, <1>4, <1>5, <1>7, <2>1, LineageFrame
  <1>8. ASSUME NEW t \in Tokens, TokenRequestByRefreshToken(p, t) PROVE Lineage'
    <2>1. PICK x : /\ Becomes(p, x) /\ x.pc = (IF t \in Live THEN "user" ELSE "reuse")
                   /\ x.cur = t /\ x.new = None /\ x.fam = refresh[t] /\ x.todo = {} /\ x.scope = {}
      BY <1>8, PresentStep, SMT
    <2>2. proc'[p] = x /\ t \in issued /\ issued' = issued
      BY <1>8, <2>1 DEF Becomes, TokenRequestByRefreshToken, history
    <2>3. Holds(proc[p])'
      BY <2>1, <2>2 DEF Holds, Minting, Names, Live
    <2> QED BY <1>7, <2>1, <2>2, <2>3
  <1>9. ASSUME NEW t \in Tokens, revokeMember(p, t) PROVE Lineage'
    <2>1. PICK x : /\ Becomes(p, x) /\ x.pc = "each"
                   /\ x.cur = proc[p].cur /\ x.new = proc[p].new /\ x.fam = proc[p].fam
                   /\ x.todo = proc[p].todo \ {t} /\ x.scope = proc[p].scope
      BY <1>9, EachStep
    <2>2. proc'[p] = x /\ issued' = issued /\ minted' = minted /\ proc[p].pc = "each"
      BY <1>9, <2>1 DEF Becomes, revokeMember, history, At
    <2>3. Holds(proc[p])'
      BY <1>2, <2>1, <2>2 DEF Holds, Minting
    <2> QED BY <1>7, <2>1, <2>2, <2>3
  <1>10. CASE checkReuse(p)
    <2>1. CASE Spent(proc[p].cur)
      <3>1. PICK x : /\ Becomes(p, x) /\ x.pc = "members"
                     /\ x.cur = proc[p].cur /\ x.new = proc[p].new
                     /\ x.fam = consumed[proc[p].cur]
                     /\ x.todo = proc[p].todo /\ x.scope = proc[p].scope
        BY <1>10, <2>1, ReuseStep
      <3>2. proc'[p] = x /\ issued' = issued /\ minted' = minted /\ x.fam # None
        BY <1>10, <2>1, <3>1 DEF Becomes, checkReuse, history, Spent
      <3>3. Holds(proc[p])'
        BY <1>2, <3>1, <3>2 DEF Holds, Minting
      <3> QED BY <1>7, <3>1, <3>2, <3>3
    <2>2. CASE ~ Spent(proc[p].cur)
      BY <1>6, <1>10, <2>2 DEF checkReuse, Shape
    <2> QED BY <2>1, <2>2
  <1>11. CASE revokeFamily(p)
    <2>1. PICK x : /\ Becomes(p, x) /\ x.pc = "each"
                   /\ x.cur = proc[p].cur /\ x.new = proc[p].new /\ x.fam = proc[p].fam
                   /\ x.scope = {t \in issued : proc[p].fam \in {refresh[t], consumed[t]}}
      BY <1>11, MembersStep
    <2>2. /\ proc'[p] = x /\ issued' = issued /\ minted' = minted /\ x.scope \subseteq issued
          /\ proc[p].pc = "members"
      BY <1>11, <2>1 DEF Becomes, revokeFamily, At
    <2>3. Holds(proc[p])'
      BY <1>2, <2>1, <2>2 DEF Holds, Minting
    <2> QED BY <1>7, <2>1, <2>2, <2>3
  <1>12. CASE TerminateSession(p)
    <2>1. PICK x : /\ Becomes(p, x) /\ x.pc = "delete" /\ x.cur = None /\ x.new = None
                   /\ x.fam = None /\ x.todo = index /\ x.scope = issued
      BY <1>12, TerminateStep
    <2>2. proc'[p] = x /\ issued' = issued
      BY <1>12, <2>1 DEF Becomes, TerminateSession
    <2>3. Holds(proc[p])'
      BY <2>1, <2>2 DEF Holds, Minting
    <2> QED BY <1>7, <2>1, <2>2, <2>3
  <1>13. CASE familyAdd(p) \/ dropFamily(p) \/ terminateUnindex(p) \/ Crash(p)
    BY <1>6, <1>13 DEF familyAdd, dropFamily, terminateUnindex, Crash, Shape
  <1> QED BY <1>8, <1>9, <1>10, <1>11, <1>12, <1>13

LEMMA NextLineage ==
  ASSUME Names, Shape, Lineage, [Next]_vars
  PROVE  Lineage'
  <1>1. Shape'
    BY NextShape
  <1>2. ASSUME NEW p \in Procs, RequestStep(p) PROVE Lineage'
    BY <1>1, <1>2, MintLineage, GoLineage, OtherLineage DEF RequestStep
  <1>3. ASSUME NEW t \in Tokens, RevokeToken(t) PROVE Lineage'
    <2>1. Live' \subseteq Live
      BY <1>3 DEF RevokeToken, Live, Shape
    <2> QED BY <1>1, <1>3, <2>1, QuietLineage DEF RevokeToken, history
  <1>4. CASE Disable \/ UNCHANGED vars
    <2>1. Live' = Live
      BY <1>4 DEF Disable, vars, store, Live
    <2> QED BY <1>1, <1>4, <2>1, QuietLineage DEF Disable, vars, store, history
  <1> QED BY <1>2, <1>3, <1>4 DEF Next

-------------------------------------------------------------------------------
(* Families.                                                               *)

LEMMA KinFrame ==
  ASSUME Names, Shape, Shape', Lineage, NEW F \in [Tokens -> Families], Kinship(F),
         NEW p \in Procs, \A q \in Procs \ {p} : proc'[q] = proc[q], KinOf(F, proc[p])',
         \A t \in Tokens : \/ refresh'[t] \in {None, refresh[t]}
                           \/ t = proc[p].new /\ refresh'[t] = proc[p].fam,
         \A t \in Tokens : \/ consumed'[t] = consumed[t]
                           \/ t = proc[p].cur /\ consumed'[t] = proc[p].fam,
         \A t \in Tokens : \/ ancestors'[t] = ancestors[t]
                           \/ /\ t = proc[p].new
                              /\ ancestors'[t] = IF proc[p].cur = None THEN {}
                                                 ELSE ancestors[proc[p].cur] \cup {proc[p].cur}
  PROVE  Kinship(F)'
  <1>1. KinOf(F, proc[p]) /\ proc[p] \in Request
    BY DEF Kinship, Shape
  <1>2. ASSUME NEW t \in Tokens, refresh'[t] # None PROVE refresh'[t] = F[t]
    BY <1>1, <1>2, SMT DEF KinOf, Kinship, Names
  <1>3. ASSUME NEW t \in Tokens, consumed'[t] # None PROVE consumed'[t] = F[t]
    BY <1>1, <1>3, SMT DEF KinOf, Kinship, Names
  <1>4. ASSUME NEW t \in Tokens, NEW a \in ancestors'[t] PROVE F[a] = F[t]
    <2>1. CASE ancestors'[t] = ancestors[t]
      BY <1>4, <2>1 DEF Kinship
    <2>2. CASE t = proc[p].new /\ ancestors'[t] # ancestors[t]
      <3>1. proc[p].cur # None /\ a \in ancestors[proc[p].cur] \cup {proc[p].cur}
        BY <1>4, <2>2
      <3>2. proc[p].fam = F[t] /\ proc[p].fam # None /\ proc[p].cur \in Tokens
        BY <1>1, <2>2, <3>1, SMT DEF KinOf, Names, Request
      <3>3. F[proc[p].cur] = F[t]
        BY <1>1, <3>1, <3>2 DEF KinOf
      <3> QED BY <3>1, <3>2, <3>3 DEF Kinship
    <2> QED BY <2>1, <2>2
  <1>5. ASSUME NEW q \in Procs PROVE KinOf(F, proc[q])'
    <2>1. CASE q = p
      BY <2>1
    <2>2. CASE q # p
      <3>1. proc'[q] = proc[q] /\ KinOf(F, proc[q])
        BY <2>2 DEF Kinship
      <3> QED BY <3>1 DEF KinOf
    <2> QED BY <2>1, <2>2
  <1> QED BY <1>2, <1>3, <1>4, <1>5 DEF Kinship

\* Every step but the minting of a token.
LEMMA KinStep ==
  ASSUME Names, Shape, Shape', Lineage, NEW F \in [Tokens -> Families], Kinship(F),
         NEW p \in Procs, RequestStep(p), minted' = minted
  PROVE  Kinship(F)'
  <1>0. KinOf(F, proc[p]) /\ proc[p] \in Request /\ Holds(proc[p])
    BY DEF Kinship, Shape, Lineage
  <1>1. /\ \A q \in Procs \ {p} : proc'[q] = proc[q]
        /\ ~\E t \in Tokens, f \in Families : CodeExchange(p, t, f)
    <2>1. ASSUME NEW t \in Tokens, NEW f \in Families, CodeExchange(p, t, f) PROVE FALSE
      BY <2>1 DEF CodeExchange, Mint
    <2> QED BY <2>1, NextProc
  <1>2. \A t \in Tokens : \/ refresh'[t] \in {None, refresh[t]}
                          \/ t = proc[p].new /\ refresh'[t] = proc[p].fam
    <2>1. CASE refresh' = refresh
      BY <2>1
    <2>2. CASE setRefresh(p)
      BY <2>2 DEF setRefresh, Shape
    <2>3. CASE renewDel(p) \/ terminateDelete(p) \/ \E t \in Tokens : revokeMember(p, t)
      BY <2>3 DEF renewDel, terminateDelete, revokeMember, Shape
    <2> QED BY <1>1, <2>1, <2>2, <2>3 DEF RequestStep, TokenRequestByRefreshToken, IsUserActive,
            checkReuse, storeAccessToken, indexAccess, renewGet, renewMark, indexRefresh, familyAdd,
            revokeFamily, revokeMembersDone, dropFamily, TerminateSession, terminateUnindex, Crash,
            store
  <1>3. \A t \in Tokens : \/ consumed'[t] = consumed[t]
                          \/ t = proc[p].cur /\ consumed'[t] = proc[p].fam
    <2>1. CASE consumed' = consumed
      BY <2>1
    <2>2. CASE renewMark(p)
      BY <2>2 DEF renewMark, Marked, Shape
    <2> QED BY <1>1, <2>1, <2>2 DEF RequestStep, TokenRequestByRefreshToken, IsUserActive,
            checkReuse, storeAccessToken, indexAccess, renewGet, renewDel, setRefresh,
            indexRefresh, familyAdd, revokeFamily, revokeMember, revokeMembersDone, dropFamily,
            TerminateSession, terminateDelete, terminateUnindex, Crash, store
  <1>4. \A t \in Tokens : \/ ancestors'[t] = ancestors[t]
                          \/ /\ t = proc[p].new
                             /\ ancestors'[t] = IF proc[p].cur = None THEN {}
                                                ELSE ancestors[proc[p].cur] \cup {proc[p].cur}
    <2>1. CASE ancestors' = ancestors
      BY <2>1
    <2>2. CASE setRefresh(p)
      BY <2>2 DEF setRefresh, Shape
    <2> QED BY <1>1, <2>1, <2>2 DEF RequestStep, TokenRequestByRefreshToken, IsUserActive,
            checkReuse, storeAccessToken, indexAccess, renewGet, renewDel, renewMark,
            indexRefresh, familyAdd, revokeFamily, revokeMember, revokeMembersDone, dropFamily,
            TerminateSession, terminateDelete, terminateUnindex, Crash, history
  <1>5. KinOf(F, proc[p])'
    <2>1. CASE proc'[p] = Idle
      BY <2>1, SMT DEF KinOf, Idle
    <2>2. ASSUME NEW label \in Labels \ {"each"}, Go(p, label), label = "drop" => proc[p].pc = "each"
          PROVE  KinOf(F, proc[p])'
      <3>1. PICK x : /\ Becomes(p, x) /\ x.pc = label
                     /\ x.cur = proc[p].cur /\ x.new = proc[p].new /\ x.fam = proc[p].fam
                     /\ x.todo = proc[p].todo /\ x.scope = proc[p].scope
        BY <2>2, GoStep
      <3> QED BY <1>0, <2>2, <3>1 DEF KinOf, Becomes
    <2>3. CASE \/ storeAccessToken(p) \/ indexAccess(p) \/ renewGet(p) \/ renewDel(p) \/ renewMark(p)
               \/ setRefresh(p) \/ indexRefresh(p) \/ revokeMembersDone(p) \/ terminateDelete(p)
      <3>1. \E label \in Labels \ {"each"} : Go(p, label) /\ (label = "drop" => proc[p].pc = "each")
        BY <2>3, SMT DEF storeAccessToken, indexAccess, renewGet, renewDel, renewMark, setRefresh,
           indexRefresh, revokeMembersDone, terminateDelete, Labels, At
      <3> QED BY <2>2, <3>1
    <2>4. ASSUME NEW t \in Tokens, IsUserActive(p, t) PROVE KinOf(F, proc[p])'
      <3>1. Go(p, "members")
        BY <2>4 DEF IsUserActive, Mint
      <3> QED BY <2>2, <3>1 DEF Labels
    <2>5. ASSUME NEW t \in Tokens, TokenRequestByRefreshToken(p, t) PROVE KinOf(F, proc[p])'
      <3>1. PICK x : /\ Becomes(p, x) /\ x.pc = (IF t \in Live THEN "user" ELSE "reuse")
                     /\ x.cur = t /\ x.new = None /\ x.fam = refresh[t] /\ x.todo = {} /\ x.scope = {}
        BY <2>5, PresentStep, SMT
      <3> QED BY <3>1 DEF KinOf, Becomes, Kinship
    <2>6. ASSUME NEW t \in Tokens, revokeMember(p, t) PROVE KinOf(F, proc[p])'
      <3>1. PICK x : /\ Becomes(p, x) /\ x.pc = "each"
                     /\ x.cur = proc[p].cur /\ x.new = proc[p].new /\ x.fam = proc[p].fam
                     /\ x.todo = proc[p].todo \ {t} /\ x.scope = proc[p].scope
        BY <2>6, EachStep
      <3> QED BY <1>0, <2>6, <3>1 DEF KinOf, Becomes, revokeMember, At
    <2>7. CASE checkReuse(p)
      <3>1. CASE Spent(proc[p].cur)
        <4>1. PICK x : /\ Becomes(p, x) /\ x.pc = "members"
                       /\ x.cur = proc[p].cur /\ x.new = proc[p].new
                       /\ x.fam = consumed[proc[p].cur]
                       /\ x.todo = proc[p].todo /\ x.scope = proc[p].scope
          BY <2>7, <3>1, ReuseStep
        <4>2. proc[p].cur \in Tokens /\ x.fam = F[proc[p].cur]
          BY <2>7, <3>1, <4>1, HeldNames DEF checkReuse, At, Spent, Kinship
        <4>3. proc[p].new # None => proc[p].fam = F[proc[p].cur] /\ proc[p].fam = F[proc[p].new]
          BY <1>0, <4>2, SMT DEF KinOf, Request, Names
        <4> QED BY <4>1, <4>2, <4>3 DEF KinOf, Becomes
      <3>2. CASE ~ Spent(proc[p].cur)
        BY <2>1, <2>7, <3>2 DEF checkReuse, Shape
      <3> QED BY <3>1, <3>2
    <2>8. CASE revokeFamily(p)
      <3>1. PICK x : /\ Becomes(p, x) /\ x.pc = "each"
                     /\ x.cur = proc[p].cur /\ x.new = proc[p].new /\ x.fam = proc[p].fam
                     /\ x.scope = {t \in issued : proc[p].fam \in {refresh[t], consumed[t]}}
        BY <2>8, MembersStep
      <3>2. proc[p].fam # None /\ issued \subseteq Tokens
        BY <2>8, HeldNames, SMT DEF revokeFamily, At, Names, Shape
      <3>3. \A a \in x.scope : F[a] = proc[p].fam
        BY <3>1, <3>2 DEF Kinship
      <3> QED BY <1>0, <3>1, <3>3 DEF KinOf, Becomes
    <2>9. CASE TerminateSession(p)
      <3>1. PICK x : /\ Becomes(p, x) /\ x.pc = "delete" /\ x.cur = None /\ x.new = None
        BY <2>9, TerminateStep
      <3> QED BY <3>1 DEF KinOf, Becomes
    <2>10. CASE familyAdd(p) \/ dropFamily(p) \/ terminateUnindex(p) \/ Crash(p)
      BY <2>1, <2>10 DEF familyAdd, dropFamily, terminateUnindex, Crash, Shape
    <2> QED BY <1>1, <2>3, <2>4, <2>5, <2>6, <2>7, <2>8, <2>9, <2>10 DEF RequestStep
  <1> QED BY <1>1, <1>2, <1>3, <1>4, <1>5, KinFrame

\* A new token is put in the family of the request that mints it; no other
\* token changes family.
LEMMA MintKin ==
  ASSUME Names, Shape, Shape', Lineage, NEW F \in [Tokens -> Families], Kinship(F),
         NEW p \in Procs, \A q \in Procs \ {p} : proc'[q] = proc[q],
         NEW t \in Tokens, t \notin minted, NEW f \in Families,
         proc'[p].new = t, proc'[p].fam = f, proc'[p].pc = "access",
         proc'[p].cur = None \/ (proc'[p].cur = proc[p].cur /\ proc[p].fam = f),
         UNCHANGED <<refresh, consumed, ancestors>>,
         NEW G \in [Tokens -> Families], G[t] = f, \A u \in Tokens \ {t} : G[u] = F[u]
  PROVE  Kinship(G)'
  <1>1. G \in [Tokens -> Families] /\ G[t] = f /\ \A u \in Tokens \ {t} : G[u] = F[u]
    OBVIOUS
  <1>2. \A u \in Tokens \cap minted : G[u] = F[u]
    BY <1>1
  <1>3. issued \subseteq Tokens \cap minted /\ Live \subseteq Tokens \cap minted
    BY DEF Lineage, Live, Shape
  <1>4. \A u \in Tokens : refresh'[u] # None => refresh'[u] = G[u]
    BY <1>2, <1>3 DEF Kinship, Live
  <1>5. \A u \in Tokens : consumed'[u] # None => consumed'[u] = G[u]
    BY <1>2, <1>3 DEF Kinship, Lineage
  <1>6. \A u \in Tokens : \A a \in ancestors'[u] : G[a] = G[u]
    BY <1>2, <1>3, SMT DEF Kinship, Lineage
  <1>7. ASSUME NEW q \in Procs PROVE KinOf(G, proc[q])'
    <2>0. proc[q] \in Request /\ Holds(proc[q]) /\ KinOf(F, proc[q])
      BY HeldNames DEF Kinship
    <2>1. CASE q = p
      <3>1. proc[p].cur # None => proc[p].cur \in issued
        BY <2>0, <2>1 DEF Holds
      <3>2. proc'[p].cur # None => f = G[proc'[p].cur]
        BY <1>2, <1>3, <2>0, <2>1, <3>1 DEF KinOf, Names
      <3> QED BY <1>1, <2>1, <3>2 DEF KinOf
    <2>2. CASE q # p
      <3>1. proc'[q] = proc[q]
        BY <2>2
      <3>2. /\ proc[q].cur # None => G[proc[q].cur] = F[proc[q].cur]
            /\ proc[q].new # None => G[proc[q].new] = F[proc[q].new]
            /\ proc[q].pc \in {"each", "drop"} => \A a \in proc[q].scope : G[a] = F[a]
        BY <1>2, <1>3, <2>0 DEF Holds, Request
      <3> QED BY <2>0, <3>1, <3>2 DEF KinOf
    <2> QED BY <2>1, <2>2
  <1> QED BY <1>1, <1>2, <1>4, <1>5, <1>6, <1>7 DEF Kinship

-------------------------------------------------------------------------------
(* Revocations and the tokens they overlap.                                *)

\* Revoking, by label.
RevokeLabels == {"each", "drop", "delete", "unindex"}

LEMMA CrossedGrows ==
  ASSUME [Next]_vars
  PROVE  crossed \subseteq crossed'
  <1>1. CASE crossed' = crossed
    BY <1>1
  <1>2. ASSUME NEW p \in Procs, NEW t \in Tokens,
               (\E f \in Families : CodeExchange(p, t, f)) \/ IsUserActive(p, t)
        PROVE  crossed \subseteq crossed'
    BY <1>2 DEF CodeExchange, IsUserActive, Mint
  <1>3. ASSUME NEW p \in Procs, revokeFamily(p) \/ TerminateSession(p)
        PROVE  crossed \subseteq crossed'
    BY <1>3 DEF revokeFamily, TerminateSession, RevocationStarts
  <1>4. ASSUME NEW p \in Procs, RequestStep(p) PROVE crossed \subseteq crossed'
    BY <1>1, <1>2, <1>3, <1>4 DEF RequestStep, TokenRequestByRefreshToken,
       checkReuse, storeAccessToken, indexAccess, renewGet, renewDel, renewMark, setRefresh,
       indexRefresh, familyAdd, revokeMember, revokeMembersDone, dropFamily,
       terminateDelete, terminateUnindex, Crash, history
  <1> QED BY <1>1, <1>4 DEF Next, RevokeToken, Disable, vars, history

LEMMA CrossingFrame ==
  ASSUME Crossing, crossed \subseteq crossed', NEW p \in Procs,
         \A q \in Procs \ {p} : proc'[q] = proc[q],
         proc'[p].pc \in RevokeLabels => proc[p].pc \in RevokeLabels,
         proc'[p].new \in {None, proc[p].new}
  PROVE  Crossing'
  <1>1. SUFFICES ASSUME NEW q \in Procs, proc'[q].pc \in RevokeLabels, NEW r \in Procs,
                        proc'[r].new # None
                 PROVE  proc'[r].new \in crossed'
    BY DEF Crossing, Revoking, RevokeLabels
  <1>2. proc[q].pc \in RevokeLabels /\ proc[r].new # None /\ proc'[r].new = proc[r].new
    BY <1>1
  <1>3. q \in Revoking
    BY <1>2 DEF Revoking, RevokeLabels
  <1> QED BY <1>2, <1>3 DEF Crossing

LEMMA NextCrossing ==
  ASSUME Names, Shape, Lineage, Crossing, [Next]_vars
  PROVE  Crossing'
  <1>1. crossed \subseteq crossed'
    BY CrossedGrows
  <1>2. CASE proc' = proc
    BY <1>1, <1>2 DEF Crossing, Revoking
  <1>3. ASSUME NEW p \in Procs, RequestStep(p) PROVE Crossing'
    <2>1. \A q \in Procs \ {p} : proc'[q] = proc[q]
      BY <1>3, NextProc
    <2>2. CASE proc'[p] = Idle
      <3>1. proc'[p].pc \notin RevokeLabels /\ proc'[p].new = None
        BY <2>2, SMT DEF Idle, RevokeLabels
      <3> QED BY <1>1, <2>1, <3>1, CrossingFrame
    <2>3. ASSUME NEW label \in Labels, Go(p, label),
                 label \in RevokeLabels => proc[p].pc \in RevokeLabels
          PROVE  Crossing'
      <3>1. PICK x : Becomes(p, x) /\ x.pc = label /\ x.new = proc[p].new
        BY <2>3, GoStep, SMT
      <3> QED BY <1>1, <2>1, <2>3, <3>1, CrossingFrame DEF Becomes
    <2>4. CASE \/ storeAccessToken(p) \/ indexAccess(p) \/ renewGet(p) \/ renewDel(p) \/ renewMark(p)
               \/ setRefresh(p) \/ indexRefresh(p) \/ revokeMembersDone(p) \/ terminateDelete(p)
      <3>1. \E label \in Labels : Go(p, label) /\ (label \in RevokeLabels => proc[p].pc \in RevokeLabels)
        BY <2>4 DEF storeAccessToken, indexAccess, renewGet, renewDel, renewMark, setRefresh,
           indexRefresh, revokeMembersDone, terminateDelete, Labels, At, RevokeLabels
      <3> QED BY <2>3, <3>1
    <2>5. ASSUME NEW t \in Tokens, Mint(t), NEW x, Becomes(p, x), x.pc = "access", x.new = t
          PROVE  Crossing'
      <3>1. SUFFICES ASSUME NEW q \in Procs, proc'[q].pc \in RevokeLabels, NEW r \in Procs,
                            proc'[r].new # None
                     PROVE  proc'[r].new \in crossed'
        BY DEF Crossing, Revoking, RevokeLabels
      <3>2. q # p /\ q \in Revoking
        BY <2>1, <2>5, <3>1 DEF Becomes, RevokeLabels, Revoking
      <3>3. crossed' = crossed \cup {t}
        BY <2>5, <3>2 DEF Mint
      <3> QED BY <2>1, <2>5, <3>1, <3>2, <3>3 DEF Becomes, Crossing
    <2>6. ASSUME NEW t \in Tokens, NEW f \in Families, CodeExchange(p, t, f) PROVE Crossing'
      BY <2>5, <2>6, CodeStep DEF CodeExchange
    <2>7. ASSUME NEW t \in Tokens, IsUserActive(p, t) PROVE Crossing'
      <3>1. CASE Go(p, "members")
        BY <2>3, <3>1 DEF Labels, RevokeLabels
      <3> QED BY <2>5, <2>7, <3>1, ActiveStep DEF IsUserActive
    <2>8. ASSUME NEW t \in Tokens, TokenRequestByRefreshToken(p, t) PROVE Crossing'
      <3>1. PICK x : /\ Becomes(p, x) /\ x.pc = (IF t \in Live THEN "user" ELSE "reuse")
                     /\ x.new = None
        BY <2>8, PresentStep, SMT
      <3> QED BY <1>1, <2>1, <3>1, CrossingFrame DEF Becomes, RevokeLabels
    <2>9. ASSUME NEW t \in Tokens, revokeMember(p, t) PROVE Crossing'
      <3>1. PICK x : Becomes(p, x) /\ x.pc = "each" /\ x.new = proc[p].new
        BY <2>9, EachStep
      <3> QED BY <1>1, <2>1, <2>9, <3>1, CrossingFrame DEF Becomes, RevokeLabels, revokeMember, At
    <2>10. CASE checkReuse(p)
      <3>1. CASE Spent(proc[p].cur)
        <4>1. PICK x : Becomes(p, x) /\ x.pc = "members" /\ x.new = proc[p].new
          BY <2>10, <3>1, ReuseStep
        <4> QED BY <1>1, <2>1, <4>1, CrossingFrame DEF Becomes, RevokeLabels
      <3>2. CASE ~ Spent(proc[p].cur)
        BY <2>2, <2>10, <3>2 DEF checkReuse, Shape
      <3> QED BY <3>1, <3>2
    <2>11. CASE revokeFamily(p) \/ TerminateSession(p)
      <3>1. PICK x : Becomes(p, x) /\ x.new \in {None, proc[p].new}
        BY <2>11, MembersStep, TerminateStep
      <3>2. \A r \in Procs : proc'[r].new \in {None, proc[r].new}
        BY <2>1, <3>1 DEF Becomes
      <3>3. \A r \in Procs : proc[r].new # None => proc[r].new \in crossed'
        BY <2>11 DEF revokeFamily, TerminateSession, RevocationStarts
      <3> QED BY <3>2, <3>3 DEF Crossing
    <2>12. CASE familyAdd(p) \/ dropFamily(p) \/ terminateUnindex(p) \/ Crash(p)
      BY <2>2, <2>12 DEF familyAdd, dropFamily, terminateUnindex, Crash, Shape
    <2> QED BY <1>3, <2>4, <2>6, <2>7, <2>8, <2>9, <2>10, <2>11, <2>12 DEF RequestStep
  <1> QED BY <1>2, <1>3 DEF Next, RevokeToken, Disable, vars

-------------------------------------------------------------------------------
(* The lists a revocation works from.                                      *)

\* The steps of a request that neither store a token nor revoke one's family.
Quiet(p) ==
    \/ \E t \in Tokens : \/ \E f \in Families : CodeExchange(p, t, f)
                         \/ TokenRequestByRefreshToken(p, t) \/ IsUserActive(p, t)
    \/ checkReuse(p) \/ storeAccessToken(p) \/ indexAccess(p)
    \/ renewGet(p) \/ renewDel(p) \/ renewMark(p)
    \/ Crash(p)

QuietLabels == {"idle", "user", "reuse", "members", "access", "indexAccess", "renew", "del", "mark", "set"}

LEMMA QuietFacts ==
  ASSUME Names, Shape, Lineage, NEW p \in Procs, Quiet(p)
  PROVE  /\ proc'[p].pc \in QuietLabels
         /\ Live' \subseteq Live /\ index \subseteq index'
         /\ UNCHANGED <<family, issued, ancestors, dead>>
  <1>1. proc'[p].pc \in QuietLabels
    <2>1. ASSUME NEW t \in Tokens, NEW f \in Families, CodeExchange(p, t, f)
          PROVE  proc'[p].pc \in QuietLabels
      BY <2>1, CodeStep, SMT DEF Becomes, QuietLabels
    <2>2. ASSUME NEW t \in Tokens, TokenRequestByRefreshToken(p, t)
          PROVE  proc'[p].pc \in QuietLabels
      BY <2>2, PresentStep, SMT DEF Becomes, QuietLabels
    <2>3. ASSUME NEW label \in Labels, label \in QuietLabels, Go(p, label)
          PROVE  proc'[p].pc \in QuietLabels
      BY <2>3, GoStep, SMT DEF Becomes
    <2>4. ASSUME NEW t \in Tokens, IsUserActive(p, t) PROVE proc'[p].pc \in QuietLabels
      <3>1. "members" \in Labels \cap QuietLabels
        BY DEF Labels, QuietLabels
      <3>2. CASE proc' = [proc EXCEPT ![p].pc = "access", ![p].new = t]
        <4>1. PICK x : /\ Becomes(p, x) /\ x.pc = "access" /\ x.new = t
                       /\ x.cur = proc[p].cur /\ x.fam = proc[p].fam
                       /\ x.todo = proc[p].todo /\ x.scope = proc[p].scope
          BY <3>2, ActiveStep
        <4> QED BY <4>1 DEF Becomes, QuietLabels
      <3> QED BY <2>3, <2>4, <3>1, <3>2 DEF IsUserActive
    <2>5. CASE proc' = [proc EXCEPT ![p] = Idle]
      BY <2>5, ReturnStep DEF Becomes, Idle, QuietLabels
    <2>6. CASE checkReuse(p)
      <3>1. CASE Spent(proc[p].cur)
        BY <2>6, <3>1, ReuseStep DEF Becomes, QuietLabels
      <3>2. CASE ~ Spent(proc[p].cur)
        BY <2>5, <2>6, <3>2 DEF checkReuse
      <3> QED BY <3>1, <3>2
    <2>7. CASE storeAccessToken(p) \/ indexAccess(p) \/ renewGet(p) \/ renewDel(p) \/ renewMark(p)
      <3>1. \E label \in Labels : label \in QuietLabels /\ Go(p, label)
        BY <2>7 DEF storeAccessToken, indexAccess, renewGet, renewDel, renewMark, Labels, QuietLabels
      <3> QED BY <2>3, <3>1
    <2>8. CASE Crash(p)
      BY <2>5, <2>8 DEF Crash
    <2> QED BY <2>1, <2>2, <2>4, <2>6, <2>7, <2>8 DEF Quiet
  <1>2. UNCHANGED <<family, issued, ancestors, dead>>
    BY DEF Quiet, CodeExchange, TokenRequestByRefreshToken, IsUserActive, checkReuse,
       storeAccessToken, indexAccess, renewGet, renewDel, renewMark, Crash, store, history
  <1>3. index \subseteq index'
    BY DEF Quiet, CodeExchange, TokenRequestByRefreshToken, IsUserActive, checkReuse,
       storeAccessToken, indexAccess, renewGet, renewDel, renewMark, Crash, store
  <1>4. Live' \subseteq Live
    <2>1. CASE renewDel(p)
      BY <2>1 DEF renewDel, Live, Shape
    <2>2. CASE refresh' = refresh
      BY <2>2 DEF Live
    <2> QED BY <2>1, <2>2 DEF Quiet, CodeExchange, TokenRequestByRefreshToken, IsUserActive,
               checkReuse, storeAccessToken, indexAccess, renewGet, renewMark, Crash, store
  <1> QED BY <1>1, <1>2, <1>3, <1>4

\* A token that the client has, or that is all but its own.
Offered(t) == t \in issued \/ (\E p \in Procs : proc[p].pc = "family" /\ proc[p].new = t)

LEMMA IndexedFrame ==
  ASSUME Indexed, NEW p \in Procs, \A q \in Procs \ {p} : proc'[q] = proc[q],
         crossed \subseteq crossed', index \subseteq index',
         proc'[p].pc \notin {"delete", "unindex"},
         \A t \in Live' \ crossed' : Offered(t)' => t \in Live /\ Offered(t)
  PROVE  Indexed'
  <1>1. SUFFICES ASSUME NEW t, t \in Live' \ crossed', Offered(t)'
                 PROVE  /\ <<"refresh", t>> \in index'
                        /\ \A q \in Procs : /\ proc'[q].pc = "delete" => <<"refresh", t>> \in proc'[q].todo
                                            /\ proc'[q].pc # "unindex"
    BY DEF Indexed, Offered
  <1>2. t \in Live \ crossed /\ Offered(t)
    BY <1>1
  <1>3. /\ <<"refresh", t>> \in index
        /\ \A q \in Procs : /\ proc[q].pc = "delete" => <<"refresh", t>> \in proc[q].todo
                            /\ proc[q].pc # "unindex"
    BY <1>2 DEF Indexed, Offered
  <1> QED BY <1>3

\* Nothing new is offered.
LEMMA OfferedFrame ==
  ASSUME NEW p \in Procs, \A q \in Procs \ {p} : proc'[q] = proc[q],
         issued' = issued, proc'[p].pc # "family", NEW t, Offered(t)'
  PROVE  Offered(t)
  <1>1. CASE t \in issued'
    BY <1>1 DEF Offered
  <1>2. ASSUME NEW q \in Procs, proc'[q].pc = "family", proc'[q].new = t PROVE Offered(t)
    BY <1>2 DEF Offered
  <1> QED BY <1>1, <1>2 DEF Offered

LEMMA IndexedStep ==
  ASSUME Names, Shape, Shape', Lineage, Crossing, Indexed, NEW p \in Procs, RequestStep(p)
  PROVE  Indexed'
  <1>1. crossed \subseteq crossed' /\ \A q \in Procs \ {p} : proc'[q] = proc[q]
    BY CrossedGrows, NextProc DEF Next
  <1>2. ASSUME Live' \subseteq Live, issued' = issued, index \subseteq index',
               proc'[p].pc \notin {"family", "delete", "unindex"}
        PROVE  Indexed'
    BY <1>1, <1>2, OfferedFrame, IndexedFrame
  <1>3. CASE Quiet(p)
    BY <1>2, <1>3, QuietFacts DEF QuietLabels
  <1>4. CASE revokeFamily(p)
    <2>1. proc'[p].pc = "each" /\ Live' = Live /\ issued' = issued /\ index' = index
      BY <1>4, MembersStep DEF Becomes, revokeFamily, store, Live
    <2> QED BY <1>2, <2>1
  <1>5. ASSUME NEW t \in Tokens, revokeMember(p, t) PROVE Indexed'
    <2>1. proc'[p].pc = "each" /\ issued' = issued /\ index' = index
      BY <1>5, EachStep DEF Becomes, revokeMember, history
    <2>2. Live' \subseteq Live
      BY <1>5 DEF revokeMember, Live, Shape
    <2> QED BY <1>2, <2>1, <2>2
  <1>6. CASE revokeMembersDone(p)
    <2>1. "drop" \in Labels
      BY DEF Labels
    <2>2. proc'[p].pc = "drop" /\ Live' = Live /\ issued' = issued /\ index' = index
      BY <1>6, <2>1, GoStep, SMT DEF Becomes, revokeMembersDone, store, history, Live
    <2> QED BY <1>2, <2>2
  <1>7. CASE dropFamily(p)
    <2>1. proc'[p].pc = "idle" /\ Live' = Live /\ issued' = issued /\ index' = index
      BY <1>7, ReturnStep DEF Becomes, dropFamily, Live, Idle
    <2> QED BY <1>2, <2>1
  <1>8. CASE setRefresh(p)
    <2>1. PICK x : Becomes(p, x) /\ x.pc = "indexRefresh"
      BY <1>8, GoStep, SMT DEF setRefresh, Labels
    <2>2. /\ proc[p].pc = "set" /\ proc[p].new \in Tokens /\ proc[p].new \notin issued
      BY <1>8, HeldNames DEF setRefresh, At, Minting
    <2>3. Live' \subseteq Live \cup {proc[p].new} /\ issued' = issued /\ index' = index
      BY <1>8, <2>2, SMT DEF setRefresh, Live, Shape
    <2>4. ~ Offered(proc[p].new)
      <3>1. SUFFICES ASSUME NEW q \in Procs, proc[q].pc = "family", proc[q].new = proc[p].new
                     PROVE  FALSE
        BY <2>2 DEF Offered
      <3>2. q = p
        BY <2>2, <3>1 DEF Lineage, Names
      <3> QED BY <2>2, <3>1, <3>2
    <2>5. \A t \in Live' \ crossed' : Offered(t)' => t \in Live /\ Offered(t)
      BY <1>1, <2>1, <2>3, <2>4, OfferedFrame DEF Becomes
    <2> QED BY <1>1, <2>1, <2>3, <2>5, IndexedFrame DEF Becomes
  <1>9. CASE familyAdd(p)
    <2>1. proc'[p] = Idle /\ proc[p].pc = "family"
      BY <1>9, ReturnStep DEF familyAdd, Becomes, At
    <2>2. Live' = Live /\ index' = index /\ issued' = issued \cup {proc[p].new}
      BY <1>9 DEF familyAdd, Live
    <2>3. ASSUME NEW t, Offered(t)' PROVE Offered(t)
      <3>1. CASE t \in issued'
        BY <2>1, <2>2, <3>1 DEF Offered
      <3>2. ASSUME NEW q \in Procs, proc'[q].pc = "family", proc'[q].new = t PROVE Offered(t)
        BY <1>1, <2>1, <3>2, SMT DEF Offered, Idle
      <3> QED BY <2>3, <3>1, <3>2 DEF Offered
    <2> QED BY <1>1, <2>1, <2>2, <2>3, IndexedFrame, SMT DEF Idle
  <1>10. CASE indexRefresh(p)
    <2>1. PICK x : Becomes(p, x) /\ x.pc = "family" /\ x.new = proc[p].new
      BY <1>10, GoStep, SMT DEF indexRefresh, Labels
    <2>2. proc[p].new \in Tokens
      BY <1>10, HeldNames DEF indexRefresh, At, Minting
    <2>3. /\ Live' = Live /\ issued' = issued /\ crossed' = crossed
          /\ index' = index \cup {<<"refresh", proc[p].new>>}
      BY <1>10 DEF indexRefresh, Live, history
    <2>4. ASSUME NEW t, t # proc[p].new, Offered(t)' PROVE Offered(t)
      <3>1. CASE t \in issued'
        BY <2>3, <3>1 DEF Offered
      <3>2. ASSUME NEW q \in Procs, proc'[q].pc = "family", proc'[q].new = t PROVE Offered(t)
        BY <1>1, <2>1, <2>4, <3>2 DEF Offered, Becomes
      <3> QED BY <2>4, <3>1, <3>2 DEF Offered
    <2>5. CASE proc[p].new \in crossed
      <3>1. \A t \in Live' \ crossed' : Offered(t)' => t \in Live /\ Offered(t)
        BY <2>3, <2>4, <2>5
      <3> QED BY <1>1, <2>1, <2>3, <3>1, IndexedFrame DEF Becomes
    <2>6. CASE proc[p].new \notin crossed
      <3>1. \A q \in Procs : proc[q].pc \notin {"delete", "unindex"}
        BY <2>2, <2>6 DEF Crossing, Revoking, Names
      <3>2. \A q \in Procs : proc'[q].pc \notin {"delete", "unindex"}
        BY <1>1, <2>1, <3>1 DEF Becomes
      <3>3. ASSUME NEW t, t \in Live' \ crossed', Offered(t)' PROVE <<"refresh", t>> \in index'
        <4>1. CASE t = proc[p].new
          BY <2>3, <4>1
        <4>2. CASE t # proc[p].new
          BY <2>3, <2>4, <3>3, <4>2 DEF Indexed, Offered
        <4> QED BY <4>1, <4>2
      <3> QED BY <3>2, <3>3 DEF Indexed, Offered
    <2> QED BY <2>5, <2>6
  <1>11. CASE TerminateSession(p)
    <2>1. PICK x : Becomes(p, x) /\ x.pc = "delete" /\ x.todo = index
      BY <1>11, TerminateStep
    <2>2. Live' = Live /\ issued' = issued /\ index' = index
      BY <1>11 DEF TerminateSession, store, Live
    <2>3. ASSUME NEW t, t \in Live' \ crossed', Offered(t)'
          PROVE  /\ <<"refresh", t>> \in index'
                 /\ \A q \in Procs : /\ proc'[q].pc = "delete" => <<"refresh", t>> \in proc'[q].todo
                                     /\ proc'[q].pc # "unindex"
      <3>1. t \in Live \ crossed /\ Offered(t)
        BY <1>1, <2>1, <2>2, <2>3, OfferedFrame DEF Becomes
      <3>2. /\ <<"refresh", t>> \in index
            /\ \A q \in Procs : /\ proc[q].pc = "delete" => <<"refresh", t>> \in proc[q].todo
                                /\ proc[q].pc # "unindex"
        BY <3>1 DEF Indexed, Offered
      <3> QED BY <1>1, <2>1, <2>2, <3>2 DEF Becomes
    <2> QED BY <2>3 DEF Indexed, Offered
  <1>12. ASSUME issued' = issued, proc'[p].pc # "family",
                \A t \in Live' \ crossed' : Offered(t) => FALSE
         PROVE  Indexed'
    BY <1>1, <1>12, OfferedFrame DEF Indexed, Offered
  <1>13. CASE terminateDelete(p)
    <2>1. PICK x : Becomes(p, x) /\ x.pc = "unindex"
      BY <1>13, GoStep, SMT DEF terminateDelete, Labels
    <2>2. issued' = issued /\ crossed' = crossed /\ proc[p].pc = "delete"
      BY <1>13 DEF terminateDelete, history, At
    <2>3. ASSUME NEW t, t \in Live' \ crossed', Offered(t) PROVE FALSE
      <3>1. t \in Live /\ <<"refresh", t>> \notin proc[p].todo
        BY <1>13, <2>3 DEF terminateDelete, Live
      <3> QED BY <2>2, <2>3, <3>1 DEF Indexed, Offered
    <2> QED BY <1>12, <2>1, <2>2, <2>3 DEF Becomes
  <1>14. CASE terminateUnindex(p)
    <2>1. proc'[p].pc = "idle" /\ proc[p].pc = "unindex" /\ Live' = Live /\ issued' = issued
          /\ crossed' = crossed
      BY <1>14, ReturnStep DEF terminateUnindex, Becomes, Idle, Live, At
    <2>2. ASSUME NEW t, t \in Live' \ crossed', Offered(t) PROVE FALSE
      BY <2>1, <2>2 DEF Indexed, Offered
    <2> QED BY <1>12, <2>1, <2>2
  <1> QED BY <1>3, <1>4, <1>5, <1>6, <1>7, <1>8, <1>9, <1>10, <1>11, <1>13, <1>14
          DEF RequestStep, Quiet

\* A token in its family's list stays in it while it lives.
LEMMA ListedFrame ==
  ASSUME NEW F, Listed(F), NEW p \in Procs, \A q \in Procs \ {p} : proc'[q] = proc[q],
         crossed \subseteq crossed',
         \A t \in (Live' \cap issued') \ crossed' :
            t \in Live \cap issued /\ (t \in family[F[t]] => t \in family'[F[t]]),
         \/ proc'[p].pc \notin {"each", "drop"}
         \/ /\ proc[p].pc = "each" /\ proc'[p].pc = "each" /\ proc'[p].fam = proc[p].fam
            /\ \A t \in Live' : t \in proc[p].todo => t \in proc'[p].todo
  PROVE  Listed(F)'
  <1>1. SUFFICES ASSUME NEW t \in (Live' \cap issued') \ crossed'
                 PROVE  /\ t \in family'[F[t]]
                        /\ \A q \in Procs : proc'[q].fam = F[t] =>
                              (proc'[q].pc = "each" => t \in proc'[q].todo) /\ proc'[q].pc # "drop"
    BY DEF Listed
  <1>2. t \in (Live \cap issued) \ crossed
    BY <1>1
  <1>3. /\ t \in family[F[t]]
        /\ \A q \in Procs : proc[q].fam = F[t] =>
              (proc[q].pc = "each" => t \in proc[q].todo) /\ proc[q].pc # "drop"
    BY <1>2 DEF Listed
  <1>4. t \in family'[F[t]]
    BY <1>1, <1>3
  <1>5. ASSUME NEW q \in Procs, proc'[q].fam = F[t]
        PROVE  (proc'[q].pc = "each" => t \in proc'[q].todo) /\ proc'[q].pc # "drop"
    <2>1. CASE q # p
      BY <1>3, <1>5, <2>1
    <2>2. CASE q = p
      BY <1>1, <1>3, <1>5, <2>2
    <2> QED BY <2>1, <2>2
  <1> QED BY <1>4, <1>5

LEMMA ListedStep ==
  ASSUME Names, Shape, Shape', Lineage, Crossing, NEW F \in [Tokens -> Families],
         Kinship(F), Listed(F), NEW p \in Procs, RequestStep(p)
  PROVE  Listed(F)'
  <1>1. crossed \subseteq crossed' /\ \A q \in Procs \ {p} : proc'[q] = proc[q]
    BY CrossedGrows, NextProc DEF Next
  <1>2. ASSUME Live' \cap issued' \subseteq Live \cap issued, family' = family,
               proc'[p].pc \notin {"each", "drop"}
        PROVE  Listed(F)'
    BY <1>1, <1>2, ListedFrame
  <1>3. CASE Quiet(p)
    BY <1>2, <1>3, QuietFacts DEF QuietLabels
  <1>4. CASE setRefresh(p)
    <2>1. PICK x : Becomes(p, x) /\ x.pc = "indexRefresh"
      BY <1>4, GoStep, SMT DEF setRefresh, Labels
    <2>2. /\ proc[p].new \in Tokens /\ proc[p].new \notin issued
      BY <1>4, HeldNames DEF setRefresh, At, Minting
    <2>3. Live' \subseteq Live \cup {proc[p].new} /\ issued' = issued /\ family' = family
      BY <1>4, <2>2, SMT DEF setRefresh, Live, Shape
    <2> QED BY <1>2, <2>1, <2>2, <2>3 DEF Becomes
  <1>5. CASE indexRefresh(p)
    <2>1. PICK x : Becomes(p, x) /\ x.pc = "family"
      BY <1>5, GoStep, SMT DEF indexRefresh, Labels
    <2>2. Live' = Live /\ issued' = issued /\ family' = family
      BY <1>5 DEF indexRefresh, Live, history
    <2> QED BY <1>2, <2>1, <2>2 DEF Becomes
  <1>6. CASE TerminateSession(p)
    <2>1. PICK x : Becomes(p, x) /\ x.pc = "delete"
      BY <1>6, TerminateStep
    <2>2. Live' = Live /\ issued' = issued /\ family' = family
      BY <1>6 DEF TerminateSession, Live, store
    <2> QED BY <1>2, <2>1, <2>2 DEF Becomes
  <1>7. CASE terminateDelete(p)
    <2>1. PICK x : Becomes(p, x) /\ x.pc = "unindex"
      BY <1>7, GoStep, SMT DEF terminateDelete, Labels
    <2>2. Live' \subseteq Live /\ issued' = issued /\ family' = family
      BY <1>7 DEF terminateDelete, Live, history
    <2> QED BY <1>2, <2>1, <2>2 DEF Becomes
  <1>8. CASE terminateUnindex(p)
    <2>1. proc'[p].pc = "idle" /\ Live' = Live /\ issued' = issued /\ family' = family
      BY <1>8, ReturnStep DEF terminateUnindex, Becomes, Idle, Live
    <2> QED BY <1>2, <2>1
  <1>9. CASE revokeFamily(p)
    <2>1. PICK x : Becomes(p, x) /\ x.pc = "each" /\ x.fam = proc[p].fam
                   /\ x.todo = family[proc[p].fam]
      BY <1>9, MembersStep
    <2>2. Live' = Live /\ issued' = issued /\ family' = family
      BY <1>9 DEF revokeFamily, Live, store
    <2>3. ASSUME NEW t \in (Live' \cap issued') \ crossed'
          PROVE  /\ t \in family'[F[t]]
                 /\ \A q \in Procs : proc'[q].fam = F[t] =>
                       (proc'[q].pc = "each" => t \in proc'[q].todo) /\ proc'[q].pc # "drop"
      <3>1. t \in (Live \cap issued) \ crossed
        BY <1>1, <2>2, <2>3
      <3>2. /\ t \in family[F[t]]
            /\ \A q \in Procs : proc[q].fam = F[t] =>
                  (proc[q].pc = "each" => t \in proc[q].todo) /\ proc[q].pc # "drop"
        BY <3>1 DEF Listed
      <3> QED BY <1>1, <2>1, <2>2, <3>2 DEF Becomes
    <2> QED BY <2>3 DEF Listed
  <1>10. ASSUME NEW u \in Tokens, revokeMember(p, u) PROVE Listed(F)'
    <2>1. PICK x : Becomes(p, x) /\ x.pc = "each" /\ x.fam = proc[p].fam
                   /\ x.todo = proc[p].todo \ {u}
      BY <1>10, EachStep, SMT
    <2>2. issued' = issued /\ family' = family /\ proc[p].pc = "each"
      BY <1>10 DEF revokeMember, history, At
    <2>3. Live' \subseteq Live \ {u}
      BY <1>10 DEF revokeMember, Live, Shape
    <2>4. \A t \in Live' : t \in proc[p].todo => t \in proc'[p].todo
      BY <2>1, <2>3 DEF Becomes
    <2> QED BY <1>1, <2>1, <2>2, <2>3, <2>4, ListedFrame DEF Becomes
  <1>11. CASE revokeMembersDone(p)
    <2>1. PICK x : Becomes(p, x) /\ x.pc = "drop" /\ x.fam = proc[p].fam
      BY <1>11, GoStep, SMT DEF revokeMembersDone, Labels
    <2>2. /\ Live' = Live /\ issued' = issued /\ family' = family /\ crossed' = crossed
          /\ proc[p].pc = "each" /\ proc[p].todo = {}
      BY <1>11 DEF revokeMembersDone, Live, store, history, At
    <2>3. ASSUME NEW t \in (Live' \cap issued') \ crossed'
          PROVE  /\ t \in family'[F[t]]
                 /\ \A q \in Procs : proc'[q].fam = F[t] =>
                       (proc'[q].pc = "each" => t \in proc'[q].todo) /\ proc'[q].pc # "drop"
      <3>1. /\ t \in family[F[t]]
            /\ \A q \in Procs : proc[q].fam = F[t] =>
                  (proc[q].pc = "each" => t \in proc[q].todo) /\ proc[q].pc # "drop"
        BY <2>2, <2>3 DEF Listed
      <3>2. proc[p].fam # F[t]
        BY <2>2, <3>1
      <3> QED BY <1>1, <2>1, <2>2, <3>1, <3>2 DEF Becomes
    <2> QED BY <2>3 DEF Listed
  <1>12. CASE dropFamily(p)
    <2>1. /\ proc'[p].pc = "idle" /\ Live' = Live /\ issued' = issued /\ proc[p].pc = "drop"
          /\ crossed' = crossed /\ family' = [family EXCEPT ![proc[p].fam] = {}]
      BY <1>12, ReturnStep DEF dropFamily, Becomes, Idle, Live, At
    <2>2. ASSUME NEW t \in (Live' \cap issued') \ crossed'
          PROVE  t \in Live \cap issued /\ (t \in family[F[t]] => t \in family'[F[t]])
      <3>1. proc[p].fam # F[t]
        BY <2>1, <2>2 DEF Listed
      <3>2. F[t] \in Families
        BY <2>1, <2>2 DEF Live
      <3> QED BY <2>1, <2>2, <3>1, <3>2 DEF Shape
    <2> QED BY <1>1, <2>1, <2>2, ListedFrame
  <1>13. CASE familyAdd(p)
    <2>1. proc'[p] = Idle /\ proc[p].pc = "family"
      BY <1>13, ReturnStep DEF familyAdd, Becomes, At
    <2>2. /\ proc[p].new \in Tokens /\ proc[p].fam \in Families /\ Renewed(proc[p])
          /\ proc[p].fam = F[proc[p].new]
      BY <2>1, HeldNames DEF Minting, Kinship, KinOf, Names
    <2>3. /\ Live' = Live /\ issued' = issued \cup {proc[p].new} /\ crossed' = crossed
          /\ family'[proc[p].fam] = (family[proc[p].fam] \ {proc[p].cur}) \cup {proc[p].new}
          /\ \A f \in Families \ {proc[p].fam} : family'[f] = family[f]
      BY <1>13, <2>2 DEF familyAdd, Live, Relisted, Shape
    <2>4. proc[p].cur \notin Live
      BY <2>1, <2>2 DEF Renewed, Live, Names
    <2>5. ASSUME NEW t \in (Live' \cap issued') \ crossed'
          PROVE  /\ t \in family'[F[t]]
                 /\ \A q \in Procs : proc'[q].fam = F[t] =>
                       (proc'[q].pc = "each" => t \in proc'[q].todo) /\ proc'[q].pc # "drop"
      <3>1. CASE t = proc[p].new
        <4>1. \A q \in Procs : proc[q].pc \notin {"each", "drop"}
          BY <2>2, <2>3, <2>5, <3>1 DEF Crossing, Revoking, Names
        <4>2. \A q \in Procs : proc'[q].pc \notin {"each", "drop"}
          BY <1>1, <2>1, <4>1, SMT DEF Idle
        <4> QED BY <2>2, <2>3, <3>1, <4>2
      <3>2. CASE t # proc[p].new
        <4>1. t \in (Live \cap issued) \ crossed /\ t # proc[p].cur
          BY <2>3, <2>4, <2>5, <3>2
        <4>2. /\ t \in family[F[t]]
              /\ \A q \in Procs : proc[q].fam = F[t] =>
                    (proc[q].pc = "each" => t \in proc[q].todo) /\ proc[q].pc # "drop"
          BY <4>1 DEF Listed
        <4>3. F[t] \in Families
          BY <4>1 DEF Live
        <4>4. t \in family'[F[t]]
          BY <2>3, <4>1, <4>2, <4>3
        <4>5. \A q \in Procs : proc'[q].fam = F[t] =>
                 (proc'[q].pc = "each" => t \in proc'[q].todo) /\ proc'[q].pc # "drop"
          BY <1>1, <2>1, <4>2, SMT DEF Idle
        <4> QED BY <4>4, <4>5
      <3> QED BY <3>1, <3>2
    <2> QED BY <2>5 DEF Listed
  <1> QED BY <1>3, <1>4, <1>5, <1>6, <1>7, <1>8, <1>9, <1>10, <1>11, <1>12, <1>13
          DEF RequestStep, Quiet

-------------------------------------------------------------------------------
(* What survives a revocation.                                             *)

\* Chains, revocations and the tokens in hand stay as they are.
LEMMA SurvivalFrame ==
  ASSUME Survival, NEW p \in Procs, \A q \in Procs \ {p} : proc'[q] = proc[q],
         crossed \subseteq crossed', dead' = dead, ancestors' = ancestors,
         Live' \cap issued' \subseteq Live \cap issued,
         proc'[p].pc \in {"indexRefresh", "family"} =>
            proc[p].pc \in {"indexRefresh", "family"} /\ proc'[p].new = proc[p].new,
         proc'[p].pc \in {"del", "mark", "set"} /\ proc'[p].cur # None =>
            proc[p].pc \in {"del", "mark", "set"} /\ proc'[p].cur = proc[p].cur
            /\ proc'[p].new = proc[p].new
  PROVE  Survival'
  <1>1. ASSUME NEW t \in Live' \cap issued' PROVE Clean(Chain(t))'
    <2>1. Clean(Chain(t)) /\ Chain(t)' = Chain(t)
      BY <1>1 DEF Survival, Chain
    <2> QED BY <2>1 DEF Clean
  <1>2. ASSUME NEW q \in Procs, proc'[q].pc \in {"indexRefresh", "family"}
        PROVE  Clean(Chain(proc[q].new))'
    <2>1. proc[q].pc \in {"indexRefresh", "family"} /\ proc'[q].new = proc[q].new
      BY <1>2
    <2>2. Clean(Chain(proc[q].new)) /\ Chain(proc[q].new)' = Chain(proc[q].new)
      BY <2>1 DEF Survival, Chain
    <2> QED BY <2>2 DEF Clean
  <1>3. ASSUME NEW q \in Procs, proc'[q].pc \in {"del", "mark", "set"}, proc'[q].cur # None
        PROVE  Clean(Chain(proc[q].cur) \cup {proc[q].new})'
    <2>1. /\ proc[q].pc \in {"del", "mark", "set"} /\ proc'[q].cur = proc[q].cur
          /\ proc'[q].new = proc[q].new
      BY <1>3
    <2>2. /\ Clean(Chain(proc[q].cur) \cup {proc[q].new})
          /\ (Chain(proc[q].cur) \cup {proc[q].new})' = Chain(proc[q].cur) \cup {proc[q].new}
      BY <1>3, <2>1 DEF Survival, Chain
    <2> QED BY <2>2 DEF Clean
  <1> QED BY <1>1, <1>2, <1>3 DEF Survival

\* A revocation completes: the exchanges under way overlapped it, and no other
\* token it should have ended is left.
LEMMA DeadGrows ==
  ASSUME Names, Shape, Lineage, Crossing, Survival, NEW p \in Procs, p \in Revoking,
         \A q \in Procs \ {p} : proc'[q] = proc[q], proc'[p] = Idle,
         dead' = dead \cup proc[p].scope, crossed' = crossed, ancestors' = ancestors,
         Live' = Live, issued' = issued,
         \A t \in Live \cap issued : Chain(t) \cap crossed = {} => Chain(t) \cap proc[p].scope = {}
  PROVE  Survival'
  <1>1. ASSUME NEW t \in Live' \cap issued' PROVE Clean(Chain(t))'
    <2>1. Clean(Chain(t)) /\ Chain(t)' = Chain(t)
      BY <1>1 DEF Survival, Chain
    <2>2. Chain(t) \cap crossed = {} => Chain(t) \cap proc[p].scope = {}
      BY <1>1
    <2> QED BY <2>1, <2>2 DEF Clean
  <1>2. ASSUME NEW q \in Procs, proc'[q].pc \in {"indexRefresh", "family", "del", "mark", "set"}
        PROVE  proc'[q].new \in crossed'
    <2>1. q # p /\ proc'[q] = proc[q]
      BY <1>2, SMT DEF Idle
    <2>2. proc[q].new # None
      BY <1>2, <2>1, HeldNames DEF Minting, Names
    <2> QED BY <2>1, <2>2 DEF Crossing
  <1>3. ASSUME NEW q \in Procs, proc'[q].pc \in {"indexRefresh", "family"}
        PROVE  Clean(Chain(proc[q].new))'
    <2>1. proc'[q].new \in crossed' /\ proc'[q].new \in Chain(proc[q].new)'
      BY <1>2, <1>3 DEF Chain
    <2> QED BY <2>1 DEF Clean
  <1>4. ASSUME NEW q \in Procs, proc'[q].pc \in {"del", "mark", "set"}
        PROVE  Clean(Chain(proc[q].cur) \cup {proc[q].new})'
    <2>1. proc'[q].new \in crossed'
      BY <1>2, <1>4
    <2> QED BY <2>1 DEF Clean
  <1> QED BY <1>1, <1>3, <1>4 DEF Survival

LEMMA SurvivalStep ==
  ASSUME Names, Shape, Shape', Lineage, Crossing, Indexed, Survival,
         NEW F \in [Tokens -> Families], Kinship(F), Listed(F), NEW p \in Procs, RequestStep(p)
  PROVE  Survival'
  <1>1. crossed \subseteq crossed' /\ \A q \in Procs \ {p} : proc'[q] = proc[q]
    BY CrossedGrows, NextProc DEF Next
  <1>2. ASSUME Live' \cap issued' \subseteq Live \cap issued, dead' = dead, ancestors' = ancestors,
               proc'[p].pc \notin {"indexRefresh", "family"},
               proc'[p].pc \notin {"del", "mark", "set"} \/ proc'[p].cur = None
        PROVE  Survival'
    BY <1>1, <1>2, SurvivalFrame
  <1>3. CASE Quiet(p)
    <2>1. /\ Live' \subseteq Live /\ UNCHANGED <<issued, dead, ancestors>>
          /\ proc'[p].pc \notin {"indexRefresh", "family"}
      BY <1>3, QuietFacts DEF QuietLabels
    <2>2. ASSUME proc'[p].pc \notin {"del", "mark", "set"} PROVE Survival'
      BY <1>2, <2>1, <2>2
    <2>3. CASE renewGet(p)
      <3>1. PICK label \in Labels : /\ Go(p, label)
                                    /\ label = IF proc[p].cur \in Live THEN "del" ELSE "reuse"
        BY <2>3 DEF renewGet, Labels
      <3>2. PICK x : Becomes(p, x) /\ x.pc = label /\ x.cur = proc[p].cur /\ x.new = proc[p].new
        BY <3>1, GoStep, SMT
      <3>3. CASE label = "reuse"
        BY <2>2, <3>2, <3>3 DEF Becomes
      <3>4. CASE label = "del"
        <4>1. proc[p].cur \in Live \cap issued /\ proc[p].new \notin dead
          BY <2>3, <3>1, <3>4, HeldNames DEF renewGet, At, Minting, Lineage
        <4>2. Clean(Chain(proc[p].cur) \cup {proc[p].new})
          BY <4>1 DEF Survival, Clean
        <4>3. (Chain(proc[p].cur) \cup {proc[p].new})' = Chain(proc[p].cur) \cup {proc[p].new}
          BY <2>1, <3>2 DEF Chain, Becomes
        <4>4. Clean(Chain(proc[p].cur) \cup {proc[p].new})'
          BY <1>1, <2>1, <4>2, <4>3 DEF Clean
        <4>5. ASSUME NEW t \in Live' \cap issued' PROVE Clean(Chain(t))'
          <5>1. Clean(Chain(t)) /\ Chain(t)' = Chain(t)
            BY <2>1, <4>5 DEF Survival, Chain
          <5> QED BY <1>1, <2>1, <5>1 DEF Clean
        <4>6. ASSUME NEW q \in Procs, proc'[q].pc \in {"indexRefresh", "family"}
              PROVE  Clean(Chain(proc[q].new))'
          <5>1. proc'[q] = proc[q]
            BY <1>1, <2>1, <4>6
          <5>2. Clean(Chain(proc[q].new)) /\ Chain(proc[q].new)' = Chain(proc[q].new)
            BY <2>1, <4>6, <5>1 DEF Survival, Chain
          <5> QED BY <1>1, <2>1, <5>2 DEF Clean
        <4>7. ASSUME NEW q \in Procs, q # p, proc'[q].pc \in {"del", "mark", "set"},
                     proc'[q].cur # None
              PROVE  Clean(Chain(proc[q].cur) \cup {proc[q].new})'
          <5>1. proc'[q] = proc[q]
            BY <1>1, <4>7
          <5>2. /\ Clean(Chain(proc[q].cur) \cup {proc[q].new})
                /\ (Chain(proc[q].cur) \cup {proc[q].new})' = Chain(proc[q].cur) \cup {proc[q].new}
            BY <2>1, <4>7, <5>1 DEF Survival, Chain
          <5> QED BY <1>1, <2>1, <5>2 DEF Clean
        <4> QED BY <4>4, <4>5, <4>6, <4>7 DEF Survival
      <3> QED BY <3>1, <3>3, <3>4
    <2>4. CASE renewDel(p) \/ renewMark(p)
      <3>1. PICK label \in Labels : Go(p, label)
        BY <2>4 DEF renewDel, renewMark, Labels
      <3>2. PICK x : Becomes(p, x) /\ x.cur = proc[p].cur /\ x.new = proc[p].new
        BY <3>1, GoStep
      <3>3. proc[p].pc \in {"del", "mark", "set"}
        BY <2>4 DEF renewDel, renewMark, At
      <3> QED BY <1>1, <2>1, <3>2, <3>3, SurvivalFrame DEF Becomes
    <2>5. CASE storeAccessToken(p) \/ indexAccess(p)
      <3>1. PICK label \in Labels : /\ Go(p, label)
                                    /\ label \notin {"del", "mark"}
                                    /\ label = "set" => proc[p].cur = None
        BY <2>5 DEF storeAccessToken, indexAccess, Labels
      <3>2. PICK x : Becomes(p, x) /\ x.pc = label /\ x.cur = proc[p].cur
        BY <3>1, GoStep, SMT
      <3> QED BY <1>2, <2>1, <3>1, <3>2 DEF Becomes
    <2>6. ASSUME NEW t \in Tokens, NEW f \in Families, CodeExchange(p, t, f) PROVE Survival'
      BY <2>2, <2>6, CodeStep DEF Becomes
    <2>7. ASSUME NEW t \in Tokens, TokenRequestByRefreshToken(p, t) PROVE Survival'
      BY <2>2, <2>7, PresentStep DEF Becomes
    <2>8. ASSUME NEW t \in Tokens, IsUserActive(p, t) PROVE Survival'
      <3>1. CASE Go(p, "members")
        <4>1. "members" \in Labels
          BY DEF Labels
        <4> QED BY <2>2, <3>1, <4>1, GoStep DEF Becomes
      <3>2. CASE proc' = [proc EXCEPT ![p].pc = "access", ![p].new = t]
        BY <2>2, <3>2, ActiveStep DEF Becomes
      <3> QED BY <2>8, <3>1, <3>2 DEF IsUserActive
    <2>9. CASE proc' = [proc EXCEPT ![p] = Idle]
      BY <2>2, <2>9, ReturnStep DEF Becomes, Idle
    <2>10. CASE checkReuse(p)
      <3>1. CASE Spent(proc[p].cur)
        BY <2>2, <2>10, <3>1, ReuseStep DEF Becomes
      <3>2. CASE ~ Spent(proc[p].cur)
        BY <2>9, <2>10, <3>2 DEF checkReuse
      <3> QED BY <3>1, <3>2
    <2>11. CASE Crash(p)
      BY <2>9, <2>11 DEF Crash
    <2> QED BY <1>3, <2>3, <2>4, <2>5, <2>6, <2>7, <2>8, <2>10, <2>11 DEF Quiet
  <1>4. CASE setRefresh(p)
    <2>1. PICK x : Becomes(p, x) /\ x.pc = "indexRefresh" /\ x.new = proc[p].new
      BY <1>4, GoStep, SMT DEF setRefresh, Labels
    <2>2. /\ proc[p].pc = "set" /\ proc[p].new \in Tokens
          /\ proc[p].new \notin issued /\ proc[p].new \notin dead
      BY <1>4, HeldNames DEF setRefresh, At, Minting, Lineage
    <2>3. /\ Live' \subseteq Live \cup {proc[p].new}
          /\ issued' = issued /\ dead' = dead /\ crossed' = crossed
          /\ \A t \in Tokens \ {proc[p].new} : ancestors'[t] = ancestors[t]
          /\ ancestors'[proc[p].new] = IF proc[p].cur = None THEN {} ELSE Chain(proc[p].cur)
      BY <1>4, <2>2, SMT DEF setRefresh, Live, Shape, Chain
    <2>4. ASSUME NEW t \in Tokens, t # proc[p].new PROVE Chain(t)' = Chain(t)
      BY <2>3, <2>4 DEF Chain
    <2>5. ASSUME NEW t \in Live' \cap issued' PROVE Clean(Chain(t))'
      <3>1. t \in Live \cap issued /\ t # proc[p].new /\ t \in Tokens
        BY <2>2, <2>3, <2>5 DEF Live
      <3>2. Clean(Chain(t)) /\ Chain(t)' = Chain(t)
        BY <2>4, <3>1 DEF Survival
      <3> QED BY <2>3, <3>2 DEF Clean
    <2>6. ASSUME NEW q \in Procs, q # p, proc'[q].pc \in {"indexRefresh", "family"}
          PROVE  Clean(Chain(proc[q].new))'
      <3>1. proc'[q] = proc[q]
        BY <1>1, <2>6
      <3>2. PICK u : u = proc[q].new
        OBVIOUS
      <3>3. u \in Tokens /\ u # proc[p].new
        BY <2>2, <2>6, <3>1, <3>2, HeldNames DEF Minting, Lineage, Names
      <3>4. Clean(Chain(u)) /\ Chain(u)' = Chain(u)
        BY <2>4, <2>6, <3>1, <3>2, <3>3 DEF Survival
      <3> QED BY <2>3, <3>1, <3>2, <3>4 DEF Clean, Chain
    <2>7. Clean(Chain(proc[p].new))'
      <3>1. PICK u : u = proc[p].new
        OBVIOUS
      <3>2. proc'[p].new = u
        BY <2>1, <3>1 DEF Becomes
      <3>3. Clean(Chain(u))'
        <4>1. CASE proc[p].cur = None
          <5>1. Chain(u)' = {u}
            BY <2>3, <3>1, <4>1 DEF Chain
          <5> QED BY <2>2, <2>3, <3>1, <5>1 DEF Clean
        <4>2. CASE proc[p].cur # None
          <5>1. Chain(u)' = Chain(proc[p].cur) \cup {u}
            BY <2>3, <3>1, <4>2 DEF Chain
          <5>2. Clean(Chain(proc[p].cur) \cup {u})
            BY <2>2, <3>1, <4>2 DEF Survival
          <5> QED BY <2>3, <5>1, <5>2 DEF Clean
        <4> QED BY <4>1, <4>2
      <3> QED BY <3>2, <3>3 DEF Clean, Chain
    <2>8. ASSUME NEW q \in Procs, proc'[q].pc \in {"del", "mark", "set"}, proc'[q].cur # None
          PROVE  Clean(Chain(proc[q].cur) \cup {proc[q].new})'
      <3>1. proc'[q] = proc[q]
        BY <1>1, <2>1, <2>8 DEF Becomes
      <3>2. PICK u : u = proc[q].cur
        OBVIOUS
      <3>3. u \in issued /\ u \in Tokens
        BY <2>8, <3>1, <3>2, HeldNames DEF Holds, Shape
      <3>4. Chain(u)' = Chain(u)
        BY <2>2, <2>4, <3>3
      <3>5. Clean(Chain(u) \cup {proc[q].new})
        BY <2>8, <3>1, <3>2 DEF Survival
      <3> QED BY <2>3, <3>1, <3>2, <3>4, <3>5 DEF Clean, Chain
    <2> QED BY <2>5, <2>6, <2>7, <2>8 DEF Survival
  <1>5. CASE indexRefresh(p)
    <2>1. PICK x : Becomes(p, x) /\ x.pc = "family" /\ x.new = proc[p].new
      BY <1>5, GoStep, SMT DEF indexRefresh, Labels
    <2>2. /\ Live' = Live /\ UNCHANGED <<issued, dead, ancestors>> /\ proc[p].pc = "indexRefresh"
      BY <1>5 DEF indexRefresh, Live, history, At
    <2> QED BY <1>1, <2>1, <2>2, SurvivalFrame DEF Becomes
  <1>6. CASE familyAdd(p)
    <2>1. proc'[p] = Idle /\ proc[p].pc = "family"
      BY <1>6, ReturnStep DEF familyAdd, Becomes, At
    <2>2. /\ Live' = Live /\ issued' = issued \cup {proc[p].new}
          /\ UNCHANGED <<ancestors, crossed, dead>>
      BY <1>6 DEF familyAdd, Live
    <2>3. ASSUME NEW t \in Live' \cap issued' PROVE Clean(Chain(t))'
      <3>1. Clean(Chain(t)) /\ Chain(t)' = Chain(t)
        BY <2>1, <2>2, <2>3 DEF Survival, Chain
      <3> QED BY <2>2, <3>1 DEF Clean
    <2>4. ASSUME NEW q \in Procs, proc'[q].pc \in {"indexRefresh", "family"}
          PROVE  Clean(Chain(proc[q].new))'
      <3>1. proc'[q] = proc[q]
        BY <1>1, <2>1, <2>4, SMT DEF Idle
      <3>2. Clean(Chain(proc[q].new)) /\ Chain(proc[q].new)' = Chain(proc[q].new)
        BY <2>2, <2>4, <3>1 DEF Survival, Chain
      <3> QED BY <2>2, <3>2 DEF Clean
    <2>5. ASSUME NEW q \in Procs, proc'[q].pc \in {"del", "mark", "set"}, proc'[q].cur # None
          PROVE  Clean(Chain(proc[q].cur) \cup {proc[q].new})'
      <3>1. proc'[q] = proc[q]
        BY <1>1, <2>1, <2>5, SMT DEF Idle
      <3>2. /\ Clean(Chain(proc[q].cur) \cup {proc[q].new})
            /\ (Chain(proc[q].cur) \cup {proc[q].new})' = Chain(proc[q].cur) \cup {proc[q].new}
        BY <2>2, <2>5, <3>1 DEF Survival, Chain
      <3> QED BY <2>2, <3>2 DEF Clean
    <2> QED BY <2>3, <2>4, <2>5 DEF Survival
  <1>7. CASE revokeFamily(p)
    <2>1. proc'[p].pc = "each" /\ Live' = Live /\ UNCHANGED <<issued, dead, ancestors>>
      BY <1>7, MembersStep DEF Becomes, revokeFamily, store, Live
    <2> QED BY <1>2, <2>1
  <1>8. ASSUME NEW t \in Tokens, revokeMember(p, t) PROVE Survival'
    <2>1. proc'[p].pc = "each" /\ UNCHANGED <<issued, dead, ancestors>>
      BY <1>8, EachStep DEF Becomes, revokeMember, history
    <2>2. Live' \subseteq Live
      BY <1>8 DEF revokeMember, Live, Shape
    <2> QED BY <1>2, <2>1, <2>2
  <1>9. CASE revokeMembersDone(p)
    <2>1. PICK x : Becomes(p, x) /\ x.pc = "drop"
      BY <1>9, GoStep, SMT DEF revokeMembersDone, Labels
    <2>2. Live' = Live /\ UNCHANGED <<issued, dead, ancestors>>
      BY <1>9 DEF revokeMembersDone, store, history, Live
    <2> QED BY <1>2, <2>1, <2>2 DEF Becomes
  <1>10. CASE TerminateSession(p)
    <2>1. PICK x : Becomes(p, x) /\ x.pc = "delete"
      BY <1>10, TerminateStep
    <2>2. Live' = Live /\ UNCHANGED <<issued, dead, ancestors>>
      BY <1>10 DEF TerminateSession, store, Live
    <2> QED BY <1>2, <2>1, <2>2 DEF Becomes
  <1>11. CASE terminateDelete(p)
    <2>1. PICK x : Becomes(p, x) /\ x.pc = "unindex"
      BY <1>11, GoStep, SMT DEF terminateDelete, Labels
    <2>2. Live' \subseteq Live /\ UNCHANGED <<issued, dead, ancestors>>
      BY <1>11 DEF terminateDelete, history, Live
    <2> QED BY <1>2, <2>1, <2>2 DEF Becomes
  <1>12. CASE dropFamily(p)
    <2>1. /\ proc'[p] = Idle /\ proc[p].pc = "drop" /\ Live' = Live
          /\ dead' = dead \cup proc[p].scope /\ UNCHANGED <<issued, crossed, ancestors>>
      BY <1>12, ReturnStep DEF dropFamily, Becomes, Live, At
    <2>2. ASSUME NEW t \in Live \cap issued, Chain(t) \cap crossed = {}, NEW a \in Chain(t),
                 a \in proc[p].scope
          PROVE  FALSE
      <3>1. t \in Tokens /\ F[a] = F[t]
        BY <2>2 DEF Live, Chain, Kinship
      <3>2. F[a] = proc[p].fam
        BY <2>1, <2>2 DEF Kinship, KinOf
      <3>3. t \notin crossed
        BY <2>2 DEF Chain
      <3> QED BY <2>1, <2>2, <3>1, <3>2, <3>3 DEF Listed
    <2>3. p \in Revoking
      BY <2>1 DEF Revoking
    <2> QED BY <1>1, <2>1, <2>2, <2>3, DeadGrows
  <1>13. CASE terminateUnindex(p)
    <2>1. /\ proc'[p] = Idle /\ proc[p].pc = "unindex" /\ Live' = Live
          /\ dead' = dead \cup proc[p].scope /\ UNCHANGED <<issued, crossed, ancestors>>
      BY <1>13, ReturnStep DEF terminateUnindex, Becomes, Live, At
    <2>2. ASSUME NEW t \in Live \cap issued, Chain(t) \cap crossed = {} PROVE FALSE
      <3>1. t \in Live \ crossed
        BY <2>2 DEF Chain
      <3> QED BY <2>1, <2>2, <3>1 DEF Indexed
    <2>3. p \in Revoking
      BY <2>1 DEF Revoking
    <2> QED BY <1>1, <2>1, <2>2, <2>3, DeadGrows
  <1> QED BY <1>3, <1>4, <1>5, <1>6, <1>7, <1>8, <1>9, <1>10, <1>11, <1>12, <1>13
          DEF RequestStep, Quiet

-------------------------------------------------------------------------------
(* The invariant.                                                          *)

\* A step outside the requests only deletes tokens.
LEMMA OutsideStep ==
  ASSUME Shape, NEW F, Kinship(F), Listed(F), Indexed, Survival,
         Live' \subseteq Live, \A t \in Tokens : refresh'[t] \in {None, refresh[t]},
         UNCHANGED <<consumed, family, index, proc, issued, ancestors, crossed, dead>>
  PROVE  Kinship(F)' /\ Listed(F)' /\ Indexed' /\ Survival'
  <1>1. Kinship(F)'
    BY DEF Kinship, KinOf
  <1>2. Listed(F)'
    BY DEF Listed
  <1>3. Indexed'
    BY DEF Indexed
  <1>4. Survival'
    BY DEF Survival, Clean, Chain
  <1> QED BY <1>1, <1>2, <1>3, <1>4

LEMMA FamilyStep ==
  ASSUME Names, Shape, Shape', Lineage, Crossing, NEW F \in [Tokens -> Families],
         Kinship(F), Listed(F), NEW p \in Procs, RequestStep(p)
  PROVE  \E G \in [Tokens -> Families] : Kinship(G)' /\ Listed(G)'
  <1>1. Listed(F)' /\ \A q \in Procs \ {p} : proc'[q] = proc[q]
    BY ListedStep, NextProc
  <1>2. CASE minted' = minted
    BY <1>1, <1>2, KinStep
  <1>3. ASSUME NEW t \in Tokens, t \notin minted, NEW f \in Families,
               proc'[p].new = t, proc'[p].fam = f, proc'[p].pc = "access",
               proc'[p].cur = None \/ (proc'[p].cur = proc[p].cur /\ proc[p].fam = f),
               UNCHANGED <<refresh, consumed, ancestors, issued, family>>
        PROVE  \E G \in [Tokens -> Families] : Kinship(G)' /\ Listed(G)'
    <2>1. PICK G : G = [F EXCEPT ![t] = f]
      OBVIOUS
    <2>2. /\ G \in [Tokens -> Families] /\ G[t] = f /\ \A u \in Tokens \ {t} : G[u] = F[u]
      BY <1>3, <2>1
    <2>3. Kinship(G)'
      <3>1. UNCHANGED <<refresh, consumed, ancestors>>
        BY <1>3
      <3> QED BY <1>1, <1>3, <2>2, <3>1, MintKin, SMT
    <2>4. \A u \in Live' \cap issued' : G[u] = F[u]
      BY <1>3, <2>2 DEF Lineage, Live
    <2>5. Listed(G)'
      BY <1>1, <2>4, SMT DEF Listed
    <2> QED BY <2>2, <2>3, <2>5
  <1>4. ASSUME NEW t \in Tokens, NEW f \in Families, CodeExchange(p, t, f)
        PROVE  \E G \in [Tokens -> Families] : Kinship(G)' /\ Listed(G)'
    <2>1. PICK x : Becomes(p, x) /\ x.pc = "access" /\ x.cur = None /\ x.new = t /\ x.fam = f
      BY <1>4, CodeStep, SMT
    <2>2. t \notin minted /\ UNCHANGED <<refresh, consumed, ancestors, issued, family>>
      BY <1>4 DEF CodeExchange, Mint, store
    <2> QED BY <1>3, <2>1, <2>2 DEF Becomes
  <1>5. ASSUME NEW t \in Tokens, IsUserActive(p, t)
        PROVE  \E G \in [Tokens -> Families] : Kinship(G)' /\ Listed(G)'
    <2>1. CASE minted' # minted
      <3>1. /\ t \notin minted /\ UNCHANGED <<refresh, consumed, ancestors, issued, family>>
            /\ proc' = [proc EXCEPT ![p].pc = "access", ![p].new = t] /\ proc[p].pc = "user"
        BY <1>5, <2>1 DEF IsUserActive, Mint, store, At
      <3>0. proc' = [proc EXCEPT ![p].pc = "access", ![p].new = t]
        BY <3>1
      <3>2. PICK x : /\ Becomes(p, x) /\ x.pc = "access" /\ x.new = t
                     /\ x.cur = proc[p].cur /\ x.fam = proc[p].fam
                     /\ x.todo = proc[p].todo /\ x.scope = proc[p].scope
        BY <1>5, <3>0, ActiveStep
      <3>3. proc[p].fam \in Families
        BY <3>1, HeldNames
      <3> QED BY <1>3, <3>1, <3>2, <3>3 DEF Becomes
    <2> QED BY <1>2, <2>1
  <1>6. CASE ~ (\E t \in Tokens : IsUserActive(p, t) \/ \E f \in Families : CodeExchange(p, t, f))
    <2>1. minted' = minted
      BY <1>6 DEF RequestStep, TokenRequestByRefreshToken, checkReuse, storeAccessToken,
         indexAccess, renewGet, renewDel, renewMark, setRefresh, indexRefresh, familyAdd,
         revokeFamily, revokeMember, revokeMembersDone, dropFamily, TerminateSession,
         terminateDelete, terminateUnindex, Crash
    <2> QED BY <1>2, <2>1
  <1> QED BY <1>4, <1>5, <1>6

LEMMA RefreshNext ==
  ASSUME Names, RefreshInv, [Next]_vars
  PROVE  RefreshInv'
  <1>1. /\ Shape /\ Lineage /\ Crossing /\ Indexed /\ Survival
    BY DEF RefreshInv
  <1>2. PICK F \in [Tokens -> Families] : Kinship(F) /\ Listed(F)
    BY DEF RefreshInv
  <1>3. Shape' /\ Lineage' /\ Crossing'
    BY <1>1, NextShape, NextLineage, NextCrossing
  <1>4. ASSUME NEW p \in Procs, RequestStep(p) PROVE RefreshInv'
    <2>1. Indexed'
      BY <1>1, <1>3, <1>4, IndexedStep
    <2>2. Survival'
      BY <1>1, <1>2, <1>3, <1>4, SurvivalStep
    <2>3. \E G \in [Tokens -> Families] : Kinship(G)' /\ Listed(G)'
      BY <1>1, <1>2, <1>3, <1>4, FamilyStep
    <2> QED BY <1>3, <2>1, <2>2, <2>3 DEF RefreshInv
  <1>5. ASSUME \A t \in Tokens : refresh'[t] \in {None, refresh[t]},
               UNCHANGED <<consumed, family, index, proc, issued, ancestors, crossed, dead>>
        PROVE  RefreshInv'
    <2>1. Live' \subseteq Live
      BY <1>5 DEF Live
    <2>2. Kinship(F)' /\ Listed(F)' /\ Indexed' /\ Survival'
      BY <1>1, <1>2, <1>5, <2>1, OutsideStep
    <2> QED BY <1>2, <1>3, <2>2 DEF RefreshInv
  <1>6. ASSUME NEW t \in Tokens, RevokeToken(t) PROVE RefreshInv'
    <2>1. \A u \in Tokens : refresh'[u] \in {None, refresh[u]}
      BY <1>1, <1>6 DEF RevokeToken, Shape
    <2> QED BY <1>5, <1>6, <2>1 DEF RevokeToken, history
  <1>7. CASE Disable \/ UNCHANGED vars
    BY <1>5, <1>7 DEF Disable, vars, store, history
  <1> QED BY <1>4, <1>6, <1>7 DEF Next

LEMMA RefreshInit ==
  ASSUME Names, Init
  PROVE  RefreshInv
  <1>1. Shape
    <2>1. proc \in [Procs -> Request]
      BY IdleType DEF Init
    <2>2. revokes \in 0 .. MaxRevokes
      BY SMT DEF Names, Init
    <2>3. index \subseteq Keys
      BY DEF Init
    <2> QED BY <2>1, <2>2, <2>3 DEF Init, Shape
  <1>2. Lineage
    BY DEF Names, Init, Lineage, Holds, Renewed, Idle, Minting, Live
  <1>3. Crossing /\ Indexed /\ Survival
    BY DEF Init, Crossing, Revoking, Indexed, Survival, Idle, Live
  <1>4. \E F \in [Tokens -> Families] : Kinship(F) /\ Listed(F)
    <2>1. PICK f \in Families : TRUE
      BY DEF Names
    <2>2. PICK F \in [Tokens -> Families] : F = [t \in Tokens |-> f]
      OBVIOUS
    <2>3. Kinship(F) /\ Listed(F)
      BY DEF Init, Kinship, KinOf, Listed, Live, Idle
    <2> QED BY <2>3
  <1> QED BY <1>1, <1>2, <1>3, <1>4 DEF RefreshInv

\* What the invariant says of revoked families.
LEMMA RefreshImplies ==
  ASSUME Names, RefreshInv
  PROVE  FamiliesRevoked
  <1>1. /\ Shape /\ Lineage /\ Crossing /\ Indexed /\ Survival
    BY DEF RefreshInv
  <1>2. PICK F \in [Tokens -> Families] : Kinship(F) /\ Listed(F)
    BY DEF RefreshInv
  <1>3. TypeOK
    <2>1. ASSUME NEW p \in Procs
          PROVE  /\ proc[p].pc \in Labels
                 /\ proc[p].cur \in Tokens \cup {None} /\ proc[p].new \in Tokens \cup {None}
                 /\ proc[p].fam \in Families \cup {None} /\ proc[p].scope \subseteq Tokens
                 /\ proc[p].pc \in {"del", "mark", "set", "family", "members", "each", "drop"} =>
                       proc[p].fam # None
      BY <1>1, HeldNames DEF Request, Holds, Minting
    <2>2. issued \subseteq minted /\ Live \subseteq minted /\ dead \subseteq issued
      BY <1>1 DEF Lineage
    <2> QED BY <1>1, <2>1, <2>2 DEF Shape, TypeOK, Labels, Keys
  <1>4. RevokedUnlessCrossed
    BY <1>1 DEF RevokedUnlessCrossed, Survivors, Survival, Clean, Chain
  <1>5. AncestorsMarked
    <2>1. ASSUME NEW t \in Live, NEW a \in ancestors[t]
          PROVE  a \notin Live /\ consumed[a] = refresh[t]
      <3>1. t \in Tokens /\ refresh[t] = F[t] /\ F[a] = F[t]
        BY <1>2 DEF Live, Kinship
      <3>2. a \in Tokens /\ a \notin Live /\ consumed[a] # None
        BY <1>1, <3>1 DEF Lineage, Shape
      <3> QED BY <1>2, <3>1, <3>2 DEF Kinship
    <2> QED BY <2>1 DEF AncestorsMarked
  <1> QED BY <1>3, <1>4, <1>5 DEF FamiliesRevoked

(***************************************************************************)
(* Once revokeFamily or TerminateSession has finished, what was issued     *)
(* before it is dead, with all that descends from it, unless the exchange  *)
(* that minted it overlapped a revocation; and a token that was replaced   *)
(* is always recognised by checkReuse.  For any number of tokens, families *)
(* and requests, wherever a replica stops.                                 *)
(***************************************************************************)
THEOREM FamiliesRevokedTheorem ==
  ASSUME Names
  PROVE  Spec => []FamiliesRevoked
  <1>1. Init => RefreshInv
    BY RefreshInit
  <1>2. RefreshInv /\ [Next]_vars => RefreshInv'
    BY RefreshNext
  <1>3. RefreshInv => FamiliesRevoked
    BY RefreshImplies
  <1> QED BY <1>1, <1>2, <1>3, PTL DEF Spec
================================================================================
