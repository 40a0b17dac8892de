----------------------------- MODULE AuthzCache -----------------------------
(***************************************************************************)
(* CachedBindingProvider (pkg/authz/cache.go): the effective bindings of a *)
(* user, cached in every pod's memory (L1) and in Redis (L2), invalidated  *)
(* by a delete and a pub/sub broadcast.  A user's bindings are a version   *)
(* number, which every mutation of a binding, role or membership raises.   *)
(* Every Redis command and every lock-protected map access is one step.    *)
(***************************************************************************)
EXTENDS Integers, Sequences, FiniteSets, TLC

CONSTANTS
    Pods,           \* server processes, each with an L1 and a subscriber
    Users,          \* cache keys
    Readers,        \* permission checks that may run concurrently
    Writers,        \* mutations that may run concurrently
    Modes,          \* {"one"}: Invalidate, {"all"}: InvalidateAll, or both
    None,
    L1TTL, L2TTL,
    MaxFlight,      \* bound: how long one permission check may take
    MaxTime,        \* bound: clock
    MaxVersion,     \* bound: mutations of one user's bindings
    MaxFaults       \* bound: failed Redis commands and lost broadcasts

\* crossed marks a value read before an invalidation and stored after it.
Entry == [ver : Nat, exp : Nat, crossed : BOOLEAN]

ASSUME CacheAssumption ==
    /\ None \notin Entry
    /\ L1TTL \in Nat /\ L2TTL \in Nat /\ MaxFlight \in Nat
    /\ MaxTime \in Nat /\ MaxVersion \in Nat /\ MaxFaults \in Nat
    /\ Modes \subseteq {"one", "all"}

VARIABLES
    now,
    version,        \* per user: the version the database holds
    retired,        \* per user: when each older version was superseded
    l1,             \* per pod and user: cached entry
    l2,             \* per user: cached entry
    inbox,          \* per pod: broadcasts on their way to its subscriber
    seen,           \* per pod and user: version of the newest broadcast handled
    reader, writer,
    purging,        \* per writer: keys its purgeL2 goroutine has yet to unlink
    faults

caches == <<l1, l2>>
vars == <<now, version, retired, l1, l2, inbox, seen, reader, writer, purging, faults>>

Idle == [pc |-> "idle"]

\* A reader's locals: the key, when it started, and the value it holds.
NoCheck == [pc |-> "idle", pod |-> None, user |-> None, start |-> 0,
            ver |-> 0, crossed |-> FALSE, source |-> "db"]

Init ==
    /\ now = 0
    /\ version = [u \in Users |-> 0]
    /\ retired = [u \in Users |-> <<>>]
    /\ l1 = [p \in Pods |-> [u \in Users |-> None]]
    /\ l2 = [u \in Users |-> None]
    /\ inbox = [p \in Pods |-> <<>>]
    /\ seen = [p \in Pods |-> [u \in Users |-> 0]]
    /\ reader = [r \in Readers |-> NoCheck]
    /\ writer = [w \in Writers |-> Idle]
    /\ purging = [w \in Writers |-> {}]
    /\ faults = 0

Fault == faults < MaxFaults /\ faults' = faults + 1

-----------------------------------------------------------------------------
(* EffectiveBindingsForUser.                                               *)

ReaderGo(r, locals) == reader' = [reader EXCEPT ![r] = locals]

Holding(r) == reader[r].pc \in {"fillL1", "fillL2"}

\* A check starts; an L1 entry would answer it at once.
l1Get(r, p, u) ==
    /\ reader[r].pc = "idle"
    /\ l1[p][u] = None
    /\ ReaderGo(r, [NoCheck EXCEPT !.pc = "l2Get", !.pod = p, !.user = u, !.start = now])
    /\ UNCHANGED <<now, version, retired, caches, inbox, seen, writer, purging, faults>>

Loaded(r, ver, crossed, source) ==
    [reader[r] EXCEPT !.pc = "fillL1", !.ver = ver, !.crossed = crossed, !.source = source]

\* A Redis hit, or a miss or an error, both of which go to the database.
l2Get(r) ==
    /\ reader[r].pc = "l2Get"
    /\ LET u == reader[r].user IN
       \/ /\ l2[u] # None
          /\ ReaderGo(r, Loaded(r, l2[u].ver, l2[u].crossed, "l2"))
          /\ faults' = faults
       \/ /\ l2[u] = None
          /\ ReaderGo(r, [reader[r] EXCEPT !.pc = "load"])
          /\ faults' = faults
       \/ /\ l2[u] # None
          /\ Fault
          /\ ReaderGo(r, [reader[r] EXCEPT !.pc = "load"])
    /\ UNCHANGED <<now, version, retired, caches, inbox, seen, writer, purging>>

\* The inner provider; its error ends the check with nothing cached.
Load(r) ==
    /\ reader[r].pc = "load"
    /\ \/ /\ ReaderGo(r, Loaded(r, version[reader[r].user], FALSE, "db"))
          /\ faults' = faults
       \/ /\ Fault
          /\ ReaderGo(r, NoCheck)
    /\ UNCHANGED <<now, version, retired, caches, inbox, seen, writer, purging>>

\* Mutant: the two TTLs are added up.
StoredLong(r, ttl) ==
    [ver |-> reader[r].ver, exp |-> now + L1TTL + L2TTL, crossed |-> reader[r].crossed]

Stored(r, ttl) == [ver |-> reader[r].ver, exp |-> now + ttl, crossed |-> reader[r].crossed]

l1Set(r) ==
    /\ reader[r].pc = "fillL1"
    /\ l1' = [l1 EXCEPT ![reader[r].pod][reader[r].user] = Stored(r, L1TTL)]
    /\ ReaderGo(r, IF reader[r].source = "db" THEN [reader[r] EXCEPT !.pc = "fillL2"] ELSE NoCheck)
    /\ UNCHANGED <<now, version, retired, l2, inbox, seen, writer, purging, faults>>

\* Best effort: a failed SET is ignored.
l2Set(r) ==
    /\ reader[r].pc = "fillL2"
    /\ \/ /\ l2' = [l2 EXCEPT ![reader[r].user] = Stored(r, L2TTL)]
          /\ faults' = faults
       \/ /\ Fault
          /\ l2' = l2
    /\ ReaderGo(r, NoCheck)
    /\ UNCHANGED <<now, version, retired, l1, inbox, seen, writer, purging>>

-----------------------------------------------------------------------------
(* A mutation commits, and its handler on pod p invalidates.               *)

WriterGo(w, locals) == writer' = [writer EXCEPT ![w] = locals]

\* A change of one user's bindings, or of a role that any user may hold.
Mutate(w, p, mode, users) ==
    /\ writer[w] = Idle
    /\ purging[w] = {}
    /\ IF mode = "one" THEN \E u \in Users : users = {u} ELSE users = Users
    /\ \A u \in users : version[u] < MaxVersion
    /\ version' = [u \in Users |-> IF u \in users THEN version[u] + 1 ELSE version[u]]
    /\ retired' = [u \in Users |-> IF u \in users THEN Append(retired[u], now) ELSE retired[u]]
    /\ WriterGo(w, [pc |-> mode, pod |-> p, vers |-> [u \in users |-> version[u] + 1]])
    /\ UNCHANGED <<now, caches, inbox, seen, reader, purging, faults>>

\* The readers that hold a value of the keys, on the pods, are overtaken.
Cross(pods, users) ==
    reader' = [r \in Readers |->
        IF Holding(r) /\ reader[r].pod \in pods /\ reader[r].user \in users
        THEN [reader[r] EXCEPT !.crossed = TRUE] ELSE reader[r]]

Keys(w) == DOMAIN writer[w].vers

Without(entries, users) == [u \in Users |-> IF u \in users THEN None ELSE entries[u]]

\* Mutant: broadcast first, delete from Redis afterwards.
DelLate(w) ==
    /\ writer[w].pc = "del"
    /\ inbox' = [p \in Pods |-> Append(inbox[p], writer[w].vers)]
    /\ purging' = [purging EXCEPT ![w] = Keys(w)]
    /\ WriterGo(w, Idle)
    /\ UNCHANGED <<now, version, retired, caches, seen, reader, faults>>

l1Delete(w) ==
    /\ writer[w].pc = "one"
    /\ l1' = [l1 EXCEPT ![writer[w].pod] = Without(@, Keys(w))]
    /\ Cross({writer[w].pod}, Keys(w))
    /\ WriterGo(w, [writer[w] EXCEPT !.pc = "del"])
    /\ UNCHANGED <<now, version, retired, l2, inbox, seen, purging, faults>>

\* DEL; an error returns before the broadcast.
Del(w) ==
    /\ writer[w].pc = "del"
    /\ \/ /\ l2' = Without(l2, Keys(w))
          /\ Cross(Pods, Keys(w))
          /\ WriterGo(w, [writer[w] EXCEPT !.pc = "publish"])
          /\ faults' = faults
       \/ /\ Fault
          /\ WriterGo(w, Idle)
          /\ UNCHANGED <<l2, reader>>
    /\ UNCHANGED <<now, version, retired, l1, inbox, seen, purging>>

\* The message names the keys; it carries the version it announces along.
Broadcast(w) == inbox' = [p \in Pods |-> Append(inbox[p], writer[w].vers)]

Publish(w) ==
    /\ writer[w].pc = "publish"
    /\ \/ Broadcast(w) /\ faults' = faults
       \/ Fault /\ inbox' = inbox
    /\ WriterGo(w, Idle)
    /\ UNCHANGED <<now, version, retired, caches, seen, reader, purging>>

\* InvalidateAll: clear the own L1 and start the purge goroutine.
l1Clear(w) ==
    /\ writer[w].pc = "all"
    /\ l1' = [l1 EXCEPT ![writer[w].pod] = Without(@, Users)]
    /\ Cross({writer[w].pod}, Users)
    /\ purging' = [purging EXCEPT ![w] = Users]
    /\ WriterGo(w, [writer[w] EXCEPT !.pc = "sentinel"])
    /\ UNCHANGED <<now, version, retired, l2, inbox, seen, faults>>

\* The sentinel names every key; as the purge may still be running, it does
\* not announce the version.
Sentinel == [u \in Users |-> 0]

PublishAll(w) ==
    /\ writer[w].pc = "sentinel"
    /\ \/ inbox' = [p \in Pods |-> Append(inbox[p], Sentinel)] /\ faults' = faults
       \/ Fault /\ inbox' = inbox
    /\ WriterGo(w, Idle)
    /\ UNCHANGED <<now, version, retired, caches, seen, reader, purging>>

\* SCAN and UNLINK reach the keys in any order; a SCAN error ends the purge.
purgeL2(w) ==
    /\ \/ \E u \in purging[w] :
             /\ l2' = Without(l2, {u})
             /\ Cross(Pods, {u})
             /\ purging' = [purging EXCEPT ![w] = @ \ {u}]
             /\ faults' = faults
       \/ /\ purging[w] # {}
          /\ Fault
          /\ purging' = [purging EXCEPT ![w] = {}]
          /\ UNCHANGED <<l2, reader>>
    /\ UNCHANGED <<now, version, retired, l1, inbox, seen, writer>>

\* The subscriber handles a broadcast.
Subscriber(p) ==
    /\ inbox[p] # <<>>
    /\ LET msg == Head(inbox[p]) IN
       /\ l1' = [l1 EXCEPT ![p] = Without(@, DOMAIN msg)]
       /\ Cross({p}, DOMAIN msg)
       /\ seen' = [seen EXCEPT ![p] = [u \in Users |->
                      IF u \in DOMAIN msg /\ msg[u] > @[u] THEN msg[u] ELSE @[u]]]
    /\ inbox' = [inbox EXCEPT ![p] = Tail(@)]
    /\ UNCHANGED <<now, version, retired, l2, writer, purging, faults>>

\* Pub/sub is at most once: a broadcast to a disconnected subscriber is gone.
LoseBroadcast(p) ==
    /\ inbox[p] # <<>>
    /\ Fault
    /\ inbox' = [inbox EXCEPT ![p] = Tail(@)]
    /\ UNCHANGED <<now, version, retired, caches, seen, reader, writer, purging>>

\* Redis drops a key when its TTL has run out; l1Get serves an entry up to and
\* including its expiry instant, and never again.
Expire(entries, last) ==
    [u \in Users |-> IF entries[u] # None /\ entries[u].exp < last THEN None ELSE entries[u]]

\* Time passes, except beyond what one check may take.
Tick ==
    /\ now < MaxTime
    /\ \A r \in Readers : reader[r].pc # "idle" => now < reader[r].start + MaxFlight
    /\ now' = now + 1
    /\ l1' = [p \in Pods |-> Expire(l1[p], now + 1)]
    /\ l2' = Expire(l2, now + 2)
    /\ UNCHANGED <<version, retired, inbox, seen, reader, writer, purging, faults>>

Next ==
    \/ \E r \in Readers :
          \/ \E p \in Pods, u \in Users : l1Get(r, p, u)
          \/ l2Get(r) \/ Load(r) \/ l1Set(r) \/ l2Set(r)
    \/ \E w \in Writers :
          \/ \E p \in Pods, mode \in Modes, users \in SUBSET Users : Mutate(w, p, mode, users)
          \/ l1Delete(w) \/ Del(w) \/ Publish(w)
          \/ l1Clear(w) \/ PublishAll(w) \/ purgeL2(w)
    \/ \E p \in Pods : Subscriber(p) \/ LoseBroadcast(p)
    \/ Tick

Spec == Init /\ [][Next]_vars

\* Pods, and permission checks, are interchangeable.
Symmetry == Permutations(Pods) \cup Permutations(Readers)

-----------------------------------------------------------------------------

\* The version was the current one at some moment no longer ago than age.
CurrentWithin(u, ver, age) ==
    ver < version[u] => now - retired[u][ver + 1] <= age

(***************************************************************************)
(* The TTLs are a backstop, as the comment on CachedBindingProvider says:  *)
(* whatever broadcasts and deletes are lost or overtaken by a read, a      *)
(* permission check answered from memory uses bindings that were current   *)
(* within the two TTLs and the duration of two checks, the one that filled *)
(* Redis and the one that copied the value into L1.                        *)
(***************************************************************************)
BoundedStaleness ==
    \A p \in Pods, u \in Users :
        l1[p][u] # None => CurrentWithin(u, l1[p][u].ver, L1TTL + L2TTL + 2 * MaxFlight)

(***************************************************************************)
(* Once a pod has handled the broadcast of an Invalidate, it caches        *)
(* bindings from before the mutation only if a read was under way across   *)
(* the invalidation: Invalidate deletes from Redis before it broadcasts,   *)
(* so no later read can pick the old value up.  (InvalidateAll broadcasts  *)
(* before its purge and makes no such promise.)                            *)
(***************************************************************************)
InvalidationHolds ==
    \A p \in Pods, u \in Users :
        l1[p][u] # None /\ l1[p][u].ver < seen[p][u] => l1[p][u].crossed
=============================================================================
