------------------------------ MODULE Session ------------------------------
(***************************************************************************)
(* The sessions of one user in one namespace (pkg/session): a Redis value  *)
(* per session, a Redis set that lists them, and the requests that create, *)
(* use, refresh and revoke them.  Every Redis command is a step, so the    *)
(* read-modify-write updates of one session interleave.                    *)
(***************************************************************************)
EXTENDS Integers, FiniteSets

CONSTANTS
    Sessions,       \* session ids, each minted once
    Procs,          \* concurrent requests
    None,
    Idle,           \* idle timeout
    Absolutes,      \* the absolute timeouts that the policy takes in turn
    MaxFlight,      \* bound: how long one request takes
    MaxTime,        \* bound: clock
    MaxKills        \* bound: calls of DeleteAllByUser

ASSUME SessionAssumption ==
    /\ None \notin Sessions
    /\ Idle \in Nat /\ MaxFlight \in Nat /\ MaxTime \in Nat /\ MaxKills \in Nat
    /\ Absolutes \subseteq Nat \ {0}

VARIABLES
    now,
    absolute,       \* the policy's absolute timeout
    store,          \* namespace:<id>: per session its value or None
    index,          \* namespace:user:<uid>: listed ids, and the key's expiry
    proc,           \* per request: its label and locals
    minted,         \* ids whose Create has saved the value
    ready,          \* ids whose Create has returned
    proofs,         \* moments at which the user passed a second factor
    used,           \* per session: its creation or the last request that touched it
    strayed,        \* sessions that outlived the user's set or that a DEL of it left out
    killed,         \* sessions that a finished DeleteAllByUser should have removed
    kills

vars == <<now, absolute, store, index, proc, minted, ready, proofs, used, strayed, killed, kills>>

\* revived marks a value that was read before a DEL of its key and saved after.
Value == [expires : Nat, last : Nat, mfa : Nat \cup {None}, revived : BOOLEAN]

ASSUME NoneAssumption == None \notin Value

Free == [pc |-> "free"]

Init ==
    /\ now = 0
    /\ absolute \in Absolutes
    /\ store = [s \in Sessions |-> None]
    /\ index = [ids |-> {}, exp |-> 0]
    /\ proc = [p \in Procs |-> Free]
    /\ minted = {} /\ ready = {} /\ proofs = {} /\ strayed = {} /\ killed = {}
    /\ used = [s \in Sessions |-> 0]
    /\ kills = 0

Go(p, locals) == proc' = [proc EXCEPT ![p] = locals]

At(p, label) == proc[p].pc = label

\* Get's test of the value it has read.
expired(v) == now > v.expires \/ now > v.last + Idle

\* The session that a request would be served under.
Valid(s) == store[s] # None /\ ~ expired(store[s])

\* DEL of session keys: requests that hold a value of one write it back later.
Del(p, ids, locals) ==
    /\ store' = [s \in Sessions |-> IF s \in ids THEN None ELSE store[s]]
    /\ proc' = [q \in Procs |->
                  IF q = p THEN locals
                  ELSE IF At(q, "set") /\ proc[q].s \in ids THEN [proc[q] EXCEPT !.value.revived = TRUE]
                  ELSE proc[q]]

-----------------------------------------------------------------------------
(* Create.                                                                 *)

\* A login, with or without a second factor, or an SSO bridge from a valid
\* session, whose step-up time the new session will inherit.
Login(p, s) ==
    /\ At(p, "free")
    /\ s \notin minted
    /\ \E op \in {"none", "mark"} :
          /\ proofs' = IF op = "mark" THEN proofs \cup {now} ELSE proofs
          /\ Go(p, [pc |-> "save", s |-> s, start |-> now, op |-> op, at |-> None])
    /\ UNCHANGED <<now, absolute, store, index, minted, ready, used, strayed, killed, kills>>

ssoHandler(p, s, src) ==
    /\ At(p, "free")
    /\ s \notin minted
    /\ Valid(src)
    /\ Go(p, [pc |-> "save", s |-> s, start |-> now, at |-> store[src].mfa,
              op |-> IF store[src].mfa = None THEN "none" ELSE "carry"])
    /\ UNCHANGED <<now, absolute, store, index, minted, ready, proofs, used, strayed, killed, kills>>

CreateSave(p) ==
    /\ At(p, "save")
    /\ proc[p].s \notin minted
    /\ store' = [store EXCEPT ![proc[p].s] =
                    [expires |-> now + absolute, last |-> now, mfa |-> None, revived |-> FALSE]]
    /\ minted' = minted \cup {proc[p].s}
    /\ used' = [used EXCEPT ![proc[p].s] = now]
    /\ Go(p, [pc |-> "sadd", s |-> proc[p].s, start |-> proc[p].start, at |-> proc[p].at,
              op |-> proc[p].op, abs |-> absolute])
    /\ UNCHANGED <<now, absolute, index, ready, proofs, strayed, killed, kills>>

SAdd(c) == [ids |-> index.ids \cup {c.s}, exp |-> now + c.abs]

\* SADD and EXPIRE of the user's set; errors are not looked at.
CreateIndex(p) ==
    /\ At(p, "sadd")
    /\ index' = SAdd(proc[p])
    /\ ready' = ready \cup {proc[p].s}
    /\ Go(p, IF proc[p].op = "none" THEN Free
             ELSE [pc |-> "get", s |-> proc[p].s, start |-> proc[p].start,
                   op |-> proc[p].op, at |-> proc[p].at])
    /\ UNCHANGED <<now, absolute, store, minted, proofs, used, strayed, killed, kills>>

-----------------------------------------------------------------------------
(* Requests under a session.                                               *)

Request(p, s, op) ==
    Go(p, [pc |-> "get", s |-> s, start |-> now, op |-> op, at |-> None])

\* AuthMiddleware: Get accepts the session, Touch follows.
AuthMiddleware(p, s) ==
    /\ At(p, "free")
    /\ Valid(s)
    /\ Request(p, s, "touch")
    /\ used' = [used EXCEPT ![s] = now]
    /\ UNCHANGED <<now, absolute, store, index, minted, ready, proofs, strayed, killed, kills>>

\* The touch of the protocol-namespace session named by the proto cookie; no
\* Get comes first, so an idle session that Redis still holds is touched too.
TouchProto(p, s) ==
    /\ At(p, "free")
    /\ s \in ready
    /\ Request(p, s, "touch")
    /\ used' = [used EXCEPT ![s] = now]
    /\ UNCHANGED <<now, absolute, store, index, minted, ready, proofs, strayed, killed, kills>>

\* Get finds the session expired and will delete it.
GetExpired(p, s) ==
    /\ At(p, "free")
    /\ store[s] # None /\ expired(store[s])
    /\ Go(p, [pc |-> "reap", s |-> s, start |-> now])
    /\ UNCHANGED <<now, absolute, store, index, minted, ready, proofs, used, strayed, killed, kills>>

Reap(p) ==
    /\ At(p, "reap")
    /\ Del(p, {proc[p].s}, Free)
    /\ UNCHANGED <<now, absolute, index, minted, ready, proofs, used, strayed, killed, kills>>

\* stepUpHandler: a valid session and a verified code.
stepUpHandler(p, s) ==
    /\ At(p, "free")
    /\ Valid(s)
    /\ proofs' = proofs \cup {now}
    /\ Request(p, s, "mark")
    /\ UNCHANGED <<now, absolute, store, index, minted, ready, used, strayed, killed, kills>>

\* Touch, MarkMFAVerified, CarryMFAVerifiedAt.
Update(v, op, at) ==
    CASE op = "touch" -> [v EXCEPT !.last = now]
      [] op = "mark"  -> [v EXCEPT !.mfa = now]
      [] op = "carry" -> [v EXCEPT !.mfa = at]

\* The GET of an update; no session, nothing to do.
UpdateGet(p) ==
    /\ At(p, "get")
    /\ LET c == proc[p] IN
       Go(p, IF store[c.s] = None THEN Free
             ELSE [pc |-> "set", s |-> c.s, start |-> c.start, op |-> c.op,
                   value |-> Update(store[c.s], c.op, c.at)])
    /\ UNCHANGED <<now, absolute, store, index, minted, ready, proofs, used, strayed, killed, kills>>

\* Mutant: save without looking at the time that is left.
saveAlways(v) == TRUE

\* save: nothing when no time is left.
saves(v) == now < v.expires

UpdateSet(p) ==
    /\ At(p, "set")
    /\ LET c == proc[p] IN
       store' = IF saves(c.value) THEN [store EXCEPT ![c.s] = c.value] ELSE store
    /\ Go(p, Free)
    /\ UNCHANGED <<now, absolute, index, minted, ready, proofs, used, strayed, killed, kills>>

\* Logout, or one session revoked by its user or an administrator.
Delete(p, s) ==
    /\ At(p, "free")
    /\ s \in ready
    /\ Del(p, {s}, Free)
    /\ UNCHANGED <<now, absolute, index, minted, ready, proofs, used, strayed, killed, kills>>

-----------------------------------------------------------------------------
(* DeleteAllByUser, and DeleteAllByUserExcept with a session to keep.      *)

Listing(p, todo, found) == [proc[p] EXCEPT !.pc = "list", !.todo = todo, !.found = found]

\* SMEMBERS.  goal: the sessions whose removal is the task.
ListByUser(p, keep) ==
    /\ At(p, "free")
    /\ kills < MaxKills
    /\ kills' = kills + 1
    /\ Go(p, [pc |-> "list", s |-> None, start |-> now, keep |-> keep,
              listed |-> index.ids, todo |-> index.ids, found |-> {},
              goal |-> {s \in ready \ strayed : store[s] # None} \ {keep}])
    /\ UNCHANGED <<now, absolute, store, index, minted, ready, proofs, used, strayed, killed>>

\* Get one of the listed ids.
ListGet(p, s) ==
    /\ At(p, "list")
    /\ LET c == proc[p] IN
       /\ s \in c.todo
       /\ Go(p, IF Valid(s) THEN Listing(p, c.todo \ {s}, c.found \cup {s})
                ELSE [c EXCEPT !.pc = IF store[s] = None THEN "srem" ELSE "listReap", !.s = s])
    /\ UNCHANGED <<now, absolute, store, index, minted, ready, proofs, used, strayed, killed, kills>>

ListReap(p) ==
    /\ At(p, "listReap")
    /\ Del(p, {proc[p].s}, [proc[p] EXCEPT !.pc = "srem"])
    /\ UNCHANGED <<now, absolute, index, minted, ready, proofs, used, strayed, killed, kills>>

ListRem(p) ==
    /\ At(p, "srem")
    /\ index' = [index EXCEPT !.ids = @ \ {proc[p].s}]
    /\ Go(p, Listing(p, proc[p].todo \ {proc[p].s}, proc[p].found))
    /\ UNCHANGED <<now, absolute, store, minted, ready, proofs, used, strayed, killed, kills>>

\* Mutant: the loop stops short of the last session.
VictimsButOne(c) == IF Cardinality(c.found) < 2 THEN {} ELSE c.found \ {c.keep}

Victims(c) == c.found \ {c.keep}

\* Delete one of the sessions found.
KillOne(p, s) ==
    /\ At(p, "list")
    /\ proc[p].todo = {}
    /\ s \in Victims(proc[p])
    /\ Del(p, {s}, [proc[p] EXCEPT !.found = @ \ {s}])
    /\ UNCHANGED <<now, absolute, index, minted, ready, proofs, used, strayed, killed, kills>>

\* DEL of the user's set ends DeleteAllByUser.  A session created since SMEMBERS is
\* listed no more.
KillEnds(p) ==
    /\ At(p, "list")
    /\ proc[p].todo = {} /\ Victims(proc[p]) = {}
    /\ IF proc[p].keep = None
       THEN /\ index' = [index EXCEPT !.ids = {}]
            /\ strayed' = strayed \cup (index.ids \ proc[p].listed)
       ELSE UNCHANGED <<index, strayed>>
    /\ killed' = killed \cup proc[p].goal
    /\ Go(p, Free)
    /\ UNCHANGED <<now, absolute, store, minted, ready, proofs, used, kills>>

-----------------------------------------------------------------------------

\* An administrator saves another session policy.
SetPolicy(a) ==
    /\ a # absolute
    /\ absolute' = a
    /\ UNCHANGED <<now, store, index, proc, minted, ready, proofs, used, strayed, killed, kills>>

\* A session that expires after the user's set: a later login, under a shorter policy,
\* has set the EXPIRE anew.
Outlives(s) == store[s] # None /\ store[s].expires > index.exp

\* Time passes, and Redis drops the keys whose TTL has run out.
Tick ==
    /\ now < MaxTime
    /\ \A p \in Procs : proc[p] # Free => now < proc[p].start + MaxFlight
    /\ now' = now + 1
    /\ store' = [s \in Sessions |->
                    IF store[s] # None /\ store[s].expires = now + 1 THEN None ELSE store[s]]
    /\ IF index.exp <= now + 1
       THEN /\ index' = [index EXCEPT !.ids = {}]
            /\ strayed' = strayed \cup {s \in index.ids : Outlives(s)}
       ELSE UNCHANGED <<index, strayed>>
    /\ UNCHANGED <<absolute, proc, minted, ready, proofs, used, killed, kills>>

Next ==
    \/ \E p \in Procs, s \in Sessions :
          \/ Login(p, s) \/ AuthMiddleware(p, s) \/ TouchProto(p, s) \/ GetExpired(p, s)
          \/ stepUpHandler(p, s) \/ Delete(p, s)
          \/ ListGet(p, s) \/ KillOne(p, s)
          \/ \E src \in Sessions : ssoHandler(p, s, src)
    \/ \E p \in Procs :
          \/ CreateSave(p) \/ CreateIndex(p) \/ Reap(p) \/ UpdateGet(p) \/ UpdateSet(p)
          \/ ListReap(p) \/ ListRem(p) \/ KillEnds(p)
          \/ \E keep \in Sessions \cup {None} : ListByUser(p, keep)
    \/ \E a \in Absolutes : SetPolicy(a)
    \/ Tick

Spec == Init /\ [][Next]_vars

-----------------------------------------------------------------------------

\* The types of the session values and of the index.
TypeOK ==
    /\ now \in 0..MaxTime
    /\ absolute \in Absolutes
    /\ store \in [Sessions -> Value \cup {None}]
    /\ index.ids \subseteq minted
    /\ ready \subseteq minted
    /\ minted \subseteq Sessions
    /\ \A p \in Procs : At(p, "set") => proc[p].value \in Value
    /\ kills \in 0..MaxKills

(***************************************************************************)
(* No session value outlives the absolute timeout it was created with,     *)
(* though an update may read the value before the expiry and save it       *)
(* after: save computes the remaining time anew and writes nothing when    *)
(* there is none.                                                          *)
(***************************************************************************)
AbsoluteCap == \A s \in minted : store[s] # None => now < store[s].expires

(***************************************************************************)
(* A session's step-up time is a moment at which the user passed a second  *)
(* factor, up to the duration of the request that recorded it: an SSO      *)
(* bridge "inherits - without extending" it, and no update invents one.    *)
(***************************************************************************)
StepUpHonest ==
    \A s \in minted :
        store[s] # None /\ store[s].mfa # None =>
            \E t \in proofs : t <= store[s].mfa /\ store[s].mfa <= t + MaxFlight

(***************************************************************************)
(* A session that DeleteAllByUser was to remove is gone when it returns,   *)
(* and exists later only if an update had read it before the DEL and saved *)
(* it after.  It was to remove those that were alive when it started and   *)
(* had not strayed from the user's set.                                    *)
(***************************************************************************)
RevokedUnlessCrossed ==
    \A s \in killed : store[s] # None => store[s].revived

(***************************************************************************)
(* The user's set lists every session that is alive, on which              *)
(* DeleteAllByUser and the session lists depend, but for three kinds: one  *)
(* that an update saved after its deletion; one that outlived the set,     *)
(* whose life a login under a shorter policy has cut; and one created      *)
(* while a DeleteAllByUser was between its SMEMBERS and its DEL.           *)
(***************************************************************************)
Listed ==
    \A s \in ready : store[s] # None /\ ~ store[s].revived => s \in index.ids \cup strayed

(***************************************************************************)
(* A session that no request has carried or touched for longer than the    *)
(* idle timeout (and the time one request takes) is not served again,      *)
(* however stale the values that concurrent updates write back: they carry *)
(* the last use that they have read.                                       *)
(***************************************************************************)
IdleOut == \A s \in minted : Valid(s) => now <= used[s] + Idle + MaxFlight

\* No session outlives its absolute or its idle timeout (save, Valid, Touch).
Lapses == AbsoluteCap /\ IdleOut

\* A revoked session stays gone unless an update crossed the revocation, every live
\* session is listed for it, and a step-up time is a moment at which the user passed a
\* second factor (DeleteAllByUser, ListByUser, Create, stepUpHandler, ssoHandler).
Revoked == RevokedUnlessCrossed /\ Listed /\ StepUpHonest
=============================================================================
