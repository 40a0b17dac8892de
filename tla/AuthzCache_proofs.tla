-------------------------- MODULE AuthzCache_proofs -------------------------
(***************************************************************************)
(* Proof that the TTLs bound how stale a permission check can be, for any  *)
(* pods, users, concurrent checks and mutations, TTLs and faults.          *)
(***************************************************************************)
EXTENDS AuthzCache, TLAPS

\* Most leaves are first-order; the ones that need more name their prover.
USE Zenon

USE CacheAssumption

ReaderType ==
    [pc : {"idle", "l2Get", "load", "fillL1", "fillL2"}, pod : Pods \cup {None},
     user : Users \cup {None}, start : Nat, ver : Nat, crossed : BOOLEAN, source : {"l2", "db"}]

\* The version was current at time t or later.
Fresh(u, ver, t) == ver < version[u] => retired[u][ver + 1] >= t

ClockInv ==
    /\ now \in Nat
    /\ version \in [Users -> Nat]
    /\ retired \in [Users -> Seq(Nat)]
    /\ \A u \in Users : Len(retired[u]) = version[u]
    /\ l1 \in [Pods -> [Users -> Entry \cup {None}]]
    /\ l2 \in [Users -> Entry \cup {None}]
    /\ reader \in [Readers -> ReaderType]

\* A check has not been running for longer than MaxFlight, and the value that
\* it holds was current when it started or when an earlier check filled Redis.
ReaderOK(r) ==
    reader[r].pc # "idle" =>
      /\ reader[r].user \in Users /\ reader[r].pod \in Pods
      /\ reader[r].start <= now /\ now <= reader[r].start + MaxFlight
      /\ Holding(r) =>
           /\ Fresh(reader[r].user, reader[r].ver, reader[r].start - L2TTL - MaxFlight)
           /\ reader[r].source = "db" => Fresh(reader[r].user, reader[r].ver, reader[r].start)
      /\ reader[r].pc = "fillL2" => reader[r].source = "db"

\* An entry that is still there was current not long before it was stored.
EntryOK(e, u, ttl, age) ==
    e # None => /\ now <= e.exp /\ e.exp <= now + ttl
                /\ Fresh(u, e.ver, e.exp - ttl - age)

L1Age == L2TTL + 2 * MaxFlight

CacheInv ==
    /\ ClockInv
    /\ \A r \in Readers : ReaderOK(r)
    /\ \A u \in Users : EntryOK(l2[u], u, L2TTL, MaxFlight)
    /\ \A p \in Pods, u \in Users : EntryOK(l1[p][u], u, L1TTL, L1Age)

CachesOK ==
    /\ l1 \in [Pods -> [Users -> Entry \cup {None}]]
    /\ l2 \in [Users -> Entry \cup {None}]
    /\ \A u \in Users : EntryOK(l2[u], u, L2TTL, MaxFlight)
    /\ \A p \in Pods, u \in Users : EntryOK(l1[p][u], u, L1TTL, L1Age)

-----------------------------------------------------------------------------

(***************************************************************************)
(* A step that leaves clock and versions alone, only removes entries and   *)
(* changes no reader except for its crossed mark keeps the invariant.      *)
(***************************************************************************)
LEMMA RemovalKeeps ==
  ASSUME CacheInv, UNCHANGED <<now, version, retired>>,
         l1' \in [Pods -> [Users -> Entry \cup {None}]],
         \A p \in Pods, u \in Users : l1'[p][u] \in {l1[p][u], None},
         l2' \in [Users -> Entry \cup {None}],
         \A u \in Users : l2'[u] \in {l2[u], None},
         reader' \in [Readers -> ReaderType],
         \A r \in Readers : \/ reader'[r].pc = "idle"
                            \/ /\ reader'[r].pc = reader[r].pc
                               /\ reader'[r].pod = reader[r].pod
                               /\ reader'[r].user = reader[r].user
                               /\ reader'[r].start = reader[r].start
                               /\ reader'[r].ver = reader[r].ver
                               /\ reader'[r].source = reader[r].source
  PROVE  CacheInv'
<1>1. ClockInv'
  BY DEF CacheInv, ClockInv
<1>2. \A r \in Readers : ReaderOK(r)'
  BY SMT DEF CacheInv, ReaderOK, Holding, Fresh
<1>3. \A u \in Users : EntryOK(l2[u], u, L2TTL, MaxFlight)'
  BY DEF CacheInv, EntryOK, Fresh
<1>4. \A p \in Pods, u \in Users : EntryOK(l1[p][u], u, L1TTL, L1Age)'
  BY SMT DEF CacheInv, EntryOK, Fresh, L1Age
<1> QED
  BY <1>1, <1>2, <1>3, <1>4 DEF CacheInv

(***************************************************************************)
(* Marking the readers that an invalidation overtakes changes nothing else.*)
(***************************************************************************)
LEMMA CrossEffect ==
  ASSUME ClockInv, NEW pods, NEW users, Cross(pods, users)
  PROVE  /\ reader' \in [Readers -> ReaderType]
         /\ \A r \in Readers : /\ reader'[r].pc = reader[r].pc
                               /\ reader'[r].pod = reader[r].pod
                               /\ reader'[r].user = reader[r].user
                               /\ reader'[r].start = reader[r].start
                               /\ reader'[r].ver = reader[r].ver
                               /\ reader'[r].source = reader[r].source
<1>1. \A r \in Readers : reader[r] \in ReaderType
  BY DEF ClockInv
<1>2. \A r \in Readers : reader'[r] \in {reader[r], [reader[r] EXCEPT !.crossed = TRUE]}
  BY DEF Cross
<1>3. \A x \in ReaderType : LET y == [x EXCEPT !.crossed = TRUE] IN
          /\ y \in ReaderType /\ y.pc = x.pc /\ y.pod = x.pod /\ y.user = x.user
          /\ y.start = x.start /\ y.ver = x.ver /\ y.source = x.source
  BY DEF ReaderType
<1>4. \A r \in Readers : reader'[r] \in ReaderType
  BY <1>1, <1>2, <1>3
<1>5. reader' \in [Readers -> ReaderType]
  BY <1>4 DEF Cross
<1> QED
  BY <1>1, <1>2, <1>3, <1>5

(***************************************************************************)
(* Removing keys from a cache leaves entries of the old cache.             *)
(***************************************************************************)
LEMMA WithoutEffect ==
  ASSUME NEW entries \in [Users -> Entry \cup {None}], NEW users
  PROVE  /\ Without(entries, users) \in [Users -> Entry \cup {None}]
         /\ \A u \in Users : Without(entries, users)[u] \in {entries[u], None}
BY DEF Without

(***************************************************************************)
(* A mutation supersedes a version now, which is no earlier than any t.    *)
(***************************************************************************)
LEMMA FreshKept ==
  ASSUME ClockInv, NEW w, NEW p, NEW mode, NEW users, Mutate(w, p, mode, users),
         NEW u \in Users, NEW ver \in Nat, NEW t \in Int, t <= now, Fresh(u, ver, t)
  PROVE  Fresh(u, ver, t)'
<1>1. version[u] \in Nat /\ retired[u] \in Seq(Nat) /\ Len(retired[u]) = version[u] /\ now \in Nat
  BY DEF ClockInv
<1>2. CASE u \in users
  <2>1. version'[u] = version[u] + 1 /\ retired'[u] = Append(retired[u], now)
    BY <1>2 DEF Mutate
  <2>2. CASE ver < version[u]
    <3>1. ver + 1 \in 1..Len(retired[u])
      BY <1>1, <2>2, SMT
    <3>2. retired'[u][ver + 1] = retired[u][ver + 1]
      BY <1>1, <2>1, <3>1, SMT
    <3> QED
      BY <2>2, <3>2 DEF Fresh
  <2>3. CASE ver = version[u]
    <3>1. retired'[u][ver + 1] = now
      BY <1>1, <2>1, <2>3, SMT
    <3> QED
      BY <3>1 DEF Fresh
  <2>4. CASE ver > version[u]
    BY <1>1, <2>1, <2>4, SMT DEF Fresh
  <2> QED
    BY <1>1, <2>2, <2>3, <2>4, SMT
<1>3. CASE u \notin users
  BY <1>3 DEF Mutate, Fresh
<1> QED
  BY <1>2, <1>3

(***************************************************************************)
(* What was current at t was current at an earlier time or later.          *)
(***************************************************************************)
LEMMA FreshEarlier ==
  ASSUME ClockInv, NEW u \in Users, NEW ver \in Nat, NEW t \in Int, NEW s \in Int,
         s <= t, Fresh(u, ver, t)
  PROVE  Fresh(u, ver, s)
<1> SUFFICES ASSUME ver < version[u] PROVE retired[u][ver + 1] >= s
  BY DEF Fresh
<1>1. version[u] \in Nat /\ retired[u] \in Seq(Nat) /\ Len(retired[u]) = version[u]
  BY DEF ClockInv
<1>2. ver + 1 \in 1..Len(retired[u])
  BY <1>1, SMT
<1>3. PICK x \in Nat : x = retired[u][ver + 1]
  BY <1>1, <1>2, SMT
<1>4. x >= t
  BY <1>3 DEF Fresh
<1> QED
  BY <1>3, <1>4, SMT

(***************************************************************************)
(* A mutation keeps the invariant: what is cached was current until now.   *)
(***************************************************************************)
LEMMA MutateKeeps ==
  ASSUME CacheInv, NEW w \in Writers, NEW p \in Pods, NEW mode, NEW users \in SUBSET Users,
         Mutate(w, p, mode, users)
  PROVE  CacheInv'
<1>1. UNCHANGED <<now, l1, l2, reader>>
  BY DEF Mutate, caches
<1>2. ClockInv
  BY DEF CacheInv
<1>3. ClockInv'
  <2>1. version' \in [Users -> Nat]
    BY <1>2, SMT DEF Mutate, ClockInv
  <2>2. \A u \in Users : /\ retired'[u] \in Seq(Nat)
                         /\ Len(retired'[u]) = version'[u]
    BY <1>2, SMT DEF Mutate, ClockInv
  <2>3. retired' \in [Users -> Seq(Nat)]
    BY <2>2 DEF Mutate
  <2> QED
    BY <1>1, <1>2, <2>1, <2>2, <2>3 DEF ClockInv
<1>4. \A r \in Readers : ReaderOK(r)'
  <2> SUFFICES ASSUME NEW r \in Readers PROVE ReaderOK(r)'
    OBVIOUS
  <2>1. CASE Holding(r)
    <3> DEFINE u == reader[r].user
               v == reader[r].ver
               s == reader[r].start
    <3>1. /\ u \in Users /\ v \in Nat /\ s \in Nat /\ s <= now /\ now \in Nat
          /\ Fresh(u, v, s - L2TTL - MaxFlight)
          /\ reader[r].source = "db" => Fresh(u, v, s)
      BY <1>2, <2>1 DEF CacheInv, ReaderOK, Holding, ClockInv, ReaderType
    <3> HIDE DEF u, v, s
    <3>2. Fresh(u, v, s - L2TTL - MaxFlight)'
          /\ (reader[r].source = "db" => Fresh(u, v, s)')
      <4>1. s - L2TTL - MaxFlight \in Int /\ s - L2TTL - MaxFlight <= now /\ s \in Int
        BY <3>1, SMT
      <4>2. u' = u /\ v' = v /\ s' = s
        BY <1>1 DEF u, v, s
      <4> QED
        BY <1>2, <3>1, <4>1, <4>2, FreshKept DEF Fresh
    <3> QED
      BY <1>1, <2>1, <3>2 DEF CacheInv, ReaderOK, Holding, u, v, s
  <2>2. CASE ~ Holding(r)
    BY <1>1, <2>2 DEF CacheInv, ReaderOK, Holding
  <2> QED
    BY <2>1, <2>2
<1>5. ASSUME NEW u \in Users, NEW e \in Entry \cup {None}, NEW ttl \in Nat, NEW age \in Nat,
             EntryOK(e, u, ttl, age)
      PROVE  e # None => /\ now <= e.exp /\ e.exp <= now + ttl
                         /\ (e.ver < version'[u] => retired'[u][e.ver + 1] >= e.exp - ttl - age)
  <2> SUFFICES ASSUME e # None PROVE e.ver < version'[u] => retired'[u][e.ver + 1] >= e.exp - ttl - age
    BY <1>5 DEF EntryOK
  <2>1. e.ver \in Nat /\ e.exp \in Nat /\ e.exp - ttl - age \in Int
    BY SMT DEF Entry
  <2>2. e.exp - ttl - age <= now /\ Fresh(u, e.ver, e.exp - ttl - age)
    BY <1>2, <1>5, <2>1, SMT DEF EntryOK, ClockInv
  <2>3. PICK v \in Nat, t \in Int : v = e.ver /\ t = e.exp - ttl - age
    BY <2>1
  <2>4. v < version'[u] => retired'[u][v + 1] >= t
    BY <1>2, <2>2, <2>3, FreshKept DEF Fresh
  <2> QED
    BY <2>3, <2>4
<1>6. \A u \in Users : EntryOK(l2[u], u, L2TTL, MaxFlight)'
  BY <1>1, <1>2, <1>5 DEF CacheInv, EntryOK, Fresh, ClockInv
<1>7. \A q \in Pods, u \in Users : EntryOK(l1[q][u], u, L1TTL, L1Age)'
  <2>1. L1Age \in Nat
    BY SMT DEF L1Age
  <2> SUFFICES ASSUME NEW q \in Pods, NEW u \in Users PROVE EntryOK(l1[q][u], u, L1TTL, L1Age)'
    OBVIOUS
  <2>2. PICK e \in Entry \cup {None} : e = l1[q][u] /\ EntryOK(e, u, L1TTL, L1Age)
    BY <1>2, SMT DEF CacheInv, ClockInv
  <2>3. PICK a \in Nat : a = L1Age
    BY <2>1
  <2>4. e # None => /\ now <= e.exp /\ e.exp <= now + L1TTL
                    /\ (e.ver < version'[u] => retired'[u][e.ver + 1] >= e.exp - L1TTL - a)
    BY <1>5, <2>2, <2>3
  <2>5. a = L1Age'
    BY <2>3 DEF L1Age
  <2> QED
    BY <1>1, <2>2, <2>4, <2>5 DEF EntryOK, Fresh
<1> QED
  BY <1>3, <1>4, <1>6, <1>7 DEF CacheInv

(***************************************************************************)
(* The steps of a permission check keep the invariant.                     *)
(***************************************************************************)
LEMMA ReaderKeeps ==
  ASSUME CacheInv, NEW r \in Readers,
         \/ \E p \in Pods, u \in Users : l1Get(r, p, u)
         \/ l2Get(r) \/ Load(r) \/ l1Set(r) \/ l2Set(r)
  PROVE  CacheInv'
<1>0. ClockInv /\ reader[r] \in ReaderType /\ UNCHANGED <<now, version, retired>>
  BY DEF CacheInv, ClockInv, l1Get, l2Get, Load, l1Set, l2Set
<1>a. UNCHANGED <<l1, l2>> => CachesOK'
  BY <1>0 DEF CacheInv, CachesOK, ClockInv, EntryOK, Fresh, L1Age
\* What the reader's new locals must satisfy.
<1>1. ASSUME NEW x \in ReaderType, reader' = [reader EXCEPT ![r] = x], CachesOK',
             x.pc # "idle" =>
               /\ x.user \in Users /\ x.pod \in Pods
               /\ x.start <= now /\ now <= x.start + MaxFlight
               /\ x.pc \in {"fillL1", "fillL2"} =>
                    /\ Fresh(x.user, x.ver, x.start - L2TTL - MaxFlight)
                    /\ x.source = "db" => Fresh(x.user, x.ver, x.start)
               /\ x.pc = "fillL2" => x.source = "db"
      PROVE  CacheInv'
  <2>1. ClockInv'
    BY <1>0, <1>1 DEF ClockInv, CachesOK
  <2>2. \A q \in Readers : reader'[q] = IF q = r THEN x ELSE reader[q]
    BY <1>0, <1>1 DEF ClockInv
  <2>3. ReaderOK(r)'
    BY <1>0, <1>1, <2>2 DEF ReaderOK, Holding, Fresh
  <2>4. \A q \in Readers : q # r => ReaderOK(q)'
    BY <1>0, <2>2 DEF CacheInv, ReaderOK, Holding, Fresh
  <2> QED
    BY <1>1, <2>1, <2>3, <2>4 DEF CacheInv, CachesOK
<1> DEFINE u0 == reader[r].user
           p0 == reader[r].pod
           s0 == reader[r].start
           v0 == reader[r].ver
<1>2. reader[r].pc # "idle" =>
        /\ u0 \in Users /\ p0 \in Pods /\ s0 \in Nat /\ v0 \in Nat
        /\ s0 <= now /\ now <= s0 + MaxFlight
        /\ reader[r].pc \in {"fillL1", "fillL2"} =>
             /\ Fresh(u0, v0, s0 - L2TTL - MaxFlight)
             /\ reader[r].source = "db" => Fresh(u0, v0, s0)
        /\ reader[r].pc = "fillL2" => reader[r].source = "db"
  BY <1>0 DEF CacheInv, ReaderOK, Holding, ReaderType
<1>3. NoCheck \in ReaderType /\ NoCheck.pc = "idle"
  BY DEF NoCheck, ReaderType
<1>4. ASSUME NEW p \in Pods, NEW u \in Users, l1Get(r, p, u) PROVE CacheInv'
  <2>1. PICK x : x = [NoCheck EXCEPT !.pc = "l2Get", !.pod = p, !.user = u, !.start = now]
    OBVIOUS
  <2>2. x \in ReaderType /\ x.pc = "l2Get" /\ x.pod = p /\ x.user = u /\ x.start = now
    BY <1>0, <2>1 DEF NoCheck, ReaderType, ClockInv
  <2>3. reader' = [reader EXCEPT ![r] = x] /\ UNCHANGED <<l1, l2>>
    BY <1>4, <2>1 DEF l1Get, ReaderGo, caches
  <2>4. now <= now + MaxFlight /\ now <= now
    BY <1>0, SMT DEF ClockInv
  <2> QED
    BY <1>1, <1>a, <2>2, <2>3, <2>4
<1>5. ASSUME reader[r].pc # "idle", ReaderGo(r, [reader[r] EXCEPT !.pc = "load"]), UNCHANGED <<l1, l2>>
      PROVE  CacheInv'
  <2>1. PICK x : x = [reader[r] EXCEPT !.pc = "load"]
    OBVIOUS
  <2>2. x \in ReaderType /\ x.pc = "load" /\ x.pod = p0 /\ x.user = u0 /\ x.start = s0
    BY <1>0, <2>1 DEF ReaderType
  <2> QED
    BY <1>1, <1>a, <1>2, <1>5, <2>1, <2>2 DEF ReaderGo
<1>6. ASSUME reader[r].pc # "idle", NEW ver \in Nat, NEW crossed \in BOOLEAN, NEW source \in {"l2", "db"},
             ReaderGo(r, Loaded(r, ver, crossed, source)), UNCHANGED <<l1, l2>>,
             Fresh(u0, ver, s0 - L2TTL - MaxFlight),
             source = "db" => Fresh(u0, ver, s0)
      PROVE  CacheInv'
  <2>1. PICK x : x = [reader[r] EXCEPT !.pc = "fillL1", !.ver = ver, !.crossed = crossed,
                                        !.source = source]
    OBVIOUS
  <2>2. x \in ReaderType /\ x.pc = "fillL1" /\ x.pod = p0 /\ x.user = u0 /\ x.start = s0
        /\ x.ver = ver /\ x.source = source
    BY <1>0, <2>1 DEF ReaderType
  <2>3. reader' = [reader EXCEPT ![r] = x]
    BY <1>6, <2>1 DEF ReaderGo, Loaded
  <2> QED
    BY <1>1, <1>a, <1>2, <1>6, <2>2, <2>3
<1>7. CASE l2Get(r)
  <2>1. reader[r].pc = "l2Get" /\ UNCHANGED <<l1, l2>>
    BY <1>7 DEF l2Get, caches
  <2>2. CASE l2[u0] # None /\ ReaderGo(r, Loaded(r, l2[u0].ver, l2[u0].crossed, "l2"))
    <3>1. l2[u0] \in Entry /\ l2[u0].ver \in Nat /\ l2[u0].crossed \in BOOLEAN /\ l2[u0].exp \in Nat
      BY <1>0, <1>2, <2>1, <2>2 DEF ClockInv, Entry
    <3>2. now <= l2[u0].exp /\ Fresh(u0, l2[u0].ver, l2[u0].exp - L2TTL - MaxFlight)
      BY <1>2, <2>1, <2>2 DEF CacheInv, EntryOK
    <3>a. s0 \in Nat /\ s0 <= now /\ now \in Nat
      BY <1>0, <1>2, <2>1 DEF ClockInv
    <3>b. s0 <= l2[u0].exp
      BY <3>1, <3>2, <3>a, SMT
    <3>c. /\ l2[u0].exp - L2TTL - MaxFlight \in Int /\ s0 - L2TTL - MaxFlight \in Int
          /\ s0 - L2TTL - MaxFlight <= l2[u0].exp - L2TTL - MaxFlight
      BY <3>1, <3>a, <3>b, SMT
    <3>3. PICK v \in Nat, t \in Int, q \in Int :
            /\ v = l2[u0].ver /\ t = l2[u0].exp - L2TTL - MaxFlight
            /\ q = s0 - L2TTL - MaxFlight /\ q <= t
      BY <3>1, <3>c
    <3>4. Fresh(u0, l2[u0].ver, s0 - L2TTL - MaxFlight)
      <4>1. u0 \in Users /\ Fresh(u0, v, t)
        BY <1>2, <2>1, <3>2, <3>3
      <4>2. Fresh(u0, v, q)
        BY <1>0, <3>3, <4>1, FreshEarlier
      <4> QED
        BY <3>3, <4>2
    <3> QED
      BY <1>6, <2>1, <2>2, <3>1, <3>4
  <2>3. CASE ReaderGo(r, [reader[r] EXCEPT !.pc = "load"])
    BY <1>5, <2>1, <2>3
  <2> QED
    BY <1>7, <2>2, <2>3 DEF l2Get
<1>8. CASE Load(r)
  <2>1. reader[r].pc = "load" /\ UNCHANGED <<l1, l2>>
    BY <1>8 DEF Load, caches
  <2>2. CASE ReaderGo(r, Loaded(r, version[u0], FALSE, "db"))
    <3>1. version[u0] \in Nat /\ \A t : Fresh(u0, version[u0], t)
      BY <1>0, <1>2, <2>1, SMT DEF ClockInv, Fresh
    <3> QED
      BY <1>6, <2>1, <2>2, <3>1
  <2>3. CASE ReaderGo(r, NoCheck)
    BY <1>1, <1>a, <1>3, <2>1, <2>3 DEF ReaderGo
  <2> QED
    BY <1>8, <2>2, <2>3 DEF Load
<1>9. CASE l1Set(r)
  <2>1. reader[r].pc = "fillL1" /\ l2' = l2
        /\ l1' = [l1 EXCEPT ![p0][u0] = Stored(r, L1TTL)]
    BY <1>9 DEF l1Set
  <2>2. PICK e \in Entry : e = Stored(r, L1TTL) /\ e.ver = v0 /\ e.exp = now + L1TTL
    <3>1. v0 \in Nat /\ reader[r].crossed \in BOOLEAN /\ now + L1TTL \in Nat
      BY <1>0, SMT DEF ReaderType, ClockInv
    <3>2. PICK x : x = Stored(r, L1TTL)
      OBVIOUS
    <3>3. x = [ver |-> v0, exp |-> now + L1TTL, crossed |-> reader[r].crossed]
      BY <3>2 DEF Stored
    <3>4. x \in Entry /\ x.ver = v0 /\ x.exp = now + L1TTL
      BY <3>1, <3>3 DEF Entry
    <3> QED
      BY <3>2, <3>4
  <2>3. PICK t \in Int, q \in Int : t = s0 - L2TTL - MaxFlight /\ q = e.exp - L1TTL - L1Age /\ q <= t
    BY <1>0, <1>2, <2>1, <2>2, SMT DEF ClockInv, L1Age
  <2>4. Fresh(u0, v0, t) /\ u0 \in Users /\ v0 \in Nat /\ p0 \in Pods
    BY <1>2, <2>1, <2>3
  <2>5. Fresh(u0, v0, q)
    BY <1>0, <2>3, <2>4, FreshEarlier
  <2>6. EntryOK(e, u0, L1TTL, L1Age)
    BY <1>0, <2>2, <2>3, <2>5, SMT DEF EntryOK, ClockInv
  <2>7. \A p \in Pods, u \in Users : l1'[p][u] = IF p = p0 /\ u = u0 THEN e ELSE l1[p][u]
    BY <1>0, <2>1, <2>2, <2>4 DEF ClockInv
  <2>8. l1' \in [Pods -> [Users -> Entry \cup {None}]]
    BY <1>0, <2>1, <2>2, <2>4 DEF ClockInv
  <2>9. ASSUME NEW p \in Pods, NEW u \in Users
        PROVE  EntryOK(l1[p][u], u, L1TTL, L1Age)'
    <3>1. CASE p = p0 /\ u = u0
      <4>1. l1'[p][u] = e
        BY <2>7, <3>1
      <4> QED
        BY <1>0, <2>6, <3>1, <4>1 DEF EntryOK, Fresh, L1Age
    <3>2. CASE ~ (p = p0 /\ u = u0)
      <4>1. l1'[p][u] = l1[p][u]
        BY <2>7, <3>2
      <4>2. EntryOK(l1[p][u], u, L1TTL, L1Age)
        BY DEF CacheInv
      <4> QED
        BY <1>0, <4>1, <4>2 DEF EntryOK, Fresh, L1Age
    <3> QED
      BY <3>1, <3>2
  <2>10. CachesOK'
    BY <1>0, <2>1, <2>8, <2>9 DEF CachesOK, CacheInv, ClockInv, EntryOK, Fresh
  <2>11. CASE reader[r].source = "db"
    <3>1. PICK x : x = [reader[r] EXCEPT !.pc = "fillL2"]
      OBVIOUS
    <3>2. x \in ReaderType /\ x.pc = "fillL2" /\ x.pod = p0 /\ x.user = u0 /\ x.start = s0
          /\ x.ver = v0 /\ x.source = "db"
      BY <1>0, <2>11, <3>1 DEF ReaderType
    <3>3. reader' = [reader EXCEPT ![r] = x]
      BY <1>9, <2>11, <3>1 DEF l1Set, ReaderGo
    <3> QED
      BY <1>1, <1>2, <2>1, <2>10, <2>11, <3>2, <3>3
  <2>12. CASE reader[r].source # "db"
    <3>1. reader' = [reader EXCEPT ![r] = NoCheck]
      BY <1>9, <2>12 DEF l1Set, ReaderGo
    <3> QED
      BY <1>1, <1>3, <2>10, <3>1
  <2> QED
    BY <2>11, <2>12
<1>10. CASE l2Set(r)
  <2>1. reader[r].pc = "fillL2" /\ l1' = l1 /\ reader' = [reader EXCEPT ![r] = NoCheck]
    BY <1>10 DEF l2Set, ReaderGo
  <2>2. CASE l2' = l2
    BY <1>1, <1>a, <1>3, <2>1, <2>2
  <2>3. CASE l2' = [l2 EXCEPT ![u0] = Stored(r, L2TTL)]
    <3>1. PICK e \in Entry : e = Stored(r, L2TTL) /\ e.ver = v0 /\ e.exp = now + L2TTL
      <4>1. v0 \in Nat /\ reader[r].crossed \in BOOLEAN /\ now + L2TTL \in Nat
        BY <1>0, SMT DEF ReaderType, ClockInv
      <4>2. PICK x : x = Stored(r, L2TTL)
        OBVIOUS
      <4>3. x = [ver |-> v0, exp |-> now + L2TTL, crossed |-> reader[r].crossed]
        BY <4>2 DEF Stored
      <4>4. x \in Entry /\ x.ver = v0 /\ x.exp = now + L2TTL
        BY <4>1, <4>3 DEF Entry
      <4> QED
        BY <4>2, <4>4
    <3>2. PICK t \in Int, q \in Int : t = s0 /\ q = e.exp - L2TTL - MaxFlight /\ q <= t
      BY <1>0, <1>2, <2>1, <3>1, SMT DEF ClockInv
    <3>3. Fresh(u0, v0, t) /\ u0 \in Users /\ v0 \in Nat
      BY <1>2, <2>1, <3>2
    <3>4. Fresh(u0, v0, q)
      BY <1>0, <3>2, <3>3, FreshEarlier
    <3>5. EntryOK(e, u0, L2TTL, MaxFlight)
      BY <1>0, <3>1, <3>2, <3>4, SMT DEF EntryOK, ClockInv
    <3>6. l2' \in [Users -> Entry \cup {None}]
          /\ \A u \in Users : l2'[u] = IF u = u0 THEN e ELSE l2[u]
      BY <1>0, <2>3, <3>1, <3>3 DEF ClockInv
    <3>7. \A u \in Users : EntryOK(l2[u], u, L2TTL, MaxFlight)'
      BY <1>0, <3>5, <3>6 DEF CacheInv, EntryOK, Fresh
    <3>8. CachesOK'
      BY <1>0, <2>1, <3>6, <3>7 DEF CachesOK, CacheInv, ClockInv, EntryOK, Fresh, L1Age
    <3> QED
      BY <1>1, <1>3, <2>1, <3>8
  <2> QED
    BY <1>10, <2>2, <2>3 DEF l2Set
<1> QED
  BY <1>4, <1>7, <1>8, <1>9, <1>10

(***************************************************************************)
(* Invalidation, whether it succeeds, fails or is lost, and the broadcasts *)
(* keep the invariant: they only remove.                                   *)
(***************************************************************************)
LEMMA InvalidationKeeps ==
  ASSUME CacheInv,
         \/ \E w \in Writers : \/ l1Delete(w) \/ Del(w) \/ Publish(w)
                               \/ l1Clear(w) \/ PublishAll(w) \/ purgeL2(w)
         \/ \E p \in Pods : Subscriber(p) \/ LoseBroadcast(p)
  PROVE  CacheInv'
<1>1. ClockInv
  BY DEF CacheInv
<1>2. UNCHANGED <<now, version, retired>>
  BY DEF l1Delete, Del, Publish, l1Clear, PublishAll, purgeL2, Subscriber, LoseBroadcast
<1>3. reader' = reader \/ \E pods, users : Cross(pods, users)
  BY DEF l1Delete, Del, Publish, l1Clear, PublishAll, purgeL2, Subscriber, LoseBroadcast
<1>4. /\ reader' \in [Readers -> ReaderType]
      /\ \A r \in Readers : /\ reader'[r].pc = reader[r].pc
                            /\ reader'[r].pod = reader[r].pod
                            /\ reader'[r].user = reader[r].user
                            /\ reader'[r].start = reader[r].start
                            /\ reader'[r].ver = reader[r].ver
                            /\ reader'[r].source = reader[r].source
  <2>1. CASE reader' = reader
    BY <1>1, <2>1 DEF ClockInv
  <2>2. CASE \E pods, users : Cross(pods, users)
    BY <1>1, <2>2, CrossEffect
  <2> QED
    BY <1>3, <2>1, <2>2
<1>5. l2' = l2 \/ \E users : l2' = Without(l2, users)
  BY DEF l1Delete, Del, Publish, l1Clear, PublishAll, purgeL2, Subscriber, LoseBroadcast, caches
<1>6. l2' \in [Users -> Entry \cup {None}] /\ \A u \in Users : l2'[u] \in {l2[u], None}
  BY <1>1, <1>5, WithoutEffect DEF ClockInv
<1>7. l1' = l1 \/ \E p, users : l1' = [l1 EXCEPT ![p] = Without(l1[p], users)]
  BY DEF l1Delete, Del, Publish, l1Clear, PublishAll, purgeL2, Subscriber, LoseBroadcast, caches
<1>8. /\ l1' \in [Pods -> [Users -> Entry \cup {None}]]
      /\ \A p \in Pods, u \in Users : l1'[p][u] \in {l1[p][u], None}
  <2>1. CASE l1' = l1
    BY <1>1, <2>1 DEF ClockInv
  <2>2. ASSUME NEW p, NEW users, l1' = [l1 EXCEPT ![p] = Without(l1[p], users)]
        PROVE  /\ l1' \in [Pods -> [Users -> Entry \cup {None}]]
               /\ \A q \in Pods, u \in Users : l1'[q][u] \in {l1[q][u], None}
    <3>1. \A q \in Pods : l1'[q] \in {l1[q], Without(l1[q], users)}
      BY <1>1, <2>2 DEF ClockInv
    <3>2. \A q \in Pods : /\ l1'[q] \in [Users -> Entry \cup {None}]
                          /\ \A u \in Users : l1'[q][u] \in {l1[q][u], None}
      <4> SUFFICES ASSUME NEW q \in Pods
                   PROVE  /\ l1'[q] \in [Users -> Entry \cup {None}]
                          /\ \A u \in Users : l1'[q][u] \in {l1[q][u], None}
        OBVIOUS
      <4>1. PICK old \in [Users -> Entry \cup {None}] : old = l1[q]
        BY <1>1 DEF ClockInv
      <4> QED
        BY <3>1, <4>1, WithoutEffect, SMT
    <3> QED
      BY <1>1, <2>2, <3>2 DEF ClockInv
  <2> QED
    BY <1>7, <2>1, <2>2
<1> QED
  BY <1>2, <1>4, <1>6, <1>8, RemovalKeeps

(***************************************************************************)
(* The clock moves; what has expired is gone.                              *)
(***************************************************************************)
LEMMA TickKeeps ==
  ASSUME CacheInv, Tick
  PROVE  CacheInv'
<1>1. ClockInv /\ UNCHANGED <<version, retired, reader>> /\ now' = now + 1
  BY DEF CacheInv, Tick
<1>2. ASSUME NEW entries \in [Users -> Entry \cup {None}], NEW last \in Nat, last >= now + 1
      PROVE  /\ Expire(entries, last) \in [Users -> Entry \cup {None}]
             /\ \A u \in Users : LET e == Expire(entries, last)[u] IN
                   e # None => e = entries[u] /\ e \in Entry /\ now + 1 <= e.exp
  <2>1. \A u \in Users : entries[u] # None => entries[u] \in Entry /\ entries[u].exp \in Nat
    BY <1>2 DEF Entry
  <2> QED
    BY <1>1, <1>2, <2>1, SMT DEF Expire, ClockInv
<1>3. l2' \in [Users -> Entry \cup {None}]
      /\ \A u \in Users : l2'[u] # None => l2'[u] = l2[u] /\ l2[u] \in Entry /\ now + 1 <= l2[u].exp
  <2>1. l2' = Expire(l2, now + 2) /\ now + 2 \in Nat /\ now + 2 >= now + 1
    BY <1>1, SMT DEF Tick, ClockInv
  <2> QED
    BY <1>1, <1>2, <2>1 DEF ClockInv
<1>4. l1' \in [Pods -> [Users -> Entry \cup {None}]]
      /\ \A p \in Pods, u \in Users :
            l1'[p][u] # None => l1'[p][u] = l1[p][u] /\ l1[p][u] \in Entry /\ now + 1 <= l1[p][u].exp
  <2>1. l1' = [p \in Pods |-> Expire(l1[p], now + 1)] /\ now + 1 \in Nat /\ now + 1 >= now + 1
    BY <1>1, SMT DEF Tick, ClockInv
  <2>2. ASSUME NEW p \in Pods
        PROVE  /\ l1'[p] \in [Users -> Entry \cup {None}]
               /\ \A u \in Users : l1'[p][u] # None =>
                     l1'[p][u] = l1[p][u] /\ l1[p][u] \in Entry /\ now + 1 <= l1[p][u].exp
    <3>1. PICK old \in [Users -> Entry \cup {None}] : old = l1[p]
      BY <1>1 DEF ClockInv
    <3>2. l1'[p] = Expire(old, now + 1)
      BY <2>1, <3>1
    <3> QED
      BY <1>2, <2>1, <3>1, <3>2, SMT
  <2> QED
    BY <2>1, <2>2
<1>5. ClockInv'
  BY <1>1, <1>3, <1>4, SMT DEF ClockInv
<1>6. \A r \in Readers : ReaderOK(r)'
  <2> SUFFICES ASSUME NEW r \in Readers, reader[r].pc # "idle" PROVE ReaderOK(r)'
    BY <1>1 DEF ReaderOK
  <2>1. reader[r].start \in Nat /\ now < reader[r].start + MaxFlight /\ now \in Nat
    BY <1>1 DEF Tick, ClockInv, ReaderType
  <2>2. reader[r].start <= now + 1 /\ now + 1 <= reader[r].start + MaxFlight
    BY <2>1, SMT DEF CacheInv, ReaderOK
  <2> QED
    BY <1>1, <2>2 DEF CacheInv, ReaderOK, Holding, Fresh
<1>7. \A u \in Users : EntryOK(l2[u], u, L2TTL, MaxFlight)'
  BY <1>1, <1>3, SMT DEF CacheInv, EntryOK, Fresh, ClockInv, Entry
<1>8. \A p \in Pods, u \in Users : EntryOK(l1[p][u], u, L1TTL, L1Age)'
  BY <1>1, <1>4, SMT DEF CacheInv, EntryOK, Fresh, ClockInv, Entry, L1Age
<1> QED
  BY <1>5, <1>6, <1>7, <1>8 DEF CacheInv

(***************************************************************************)
(* The invariant holds in every state, whatever fails: nothing in it       *)
(* depends on an invalidation being delivered.                             *)
(***************************************************************************)
LEMMA CacheInvariant == Spec => []CacheInv
<1>1. Init => CacheInv
  BY SMT DEF Init, CacheInv, ClockInv, ReaderOK, EntryOK, NoCheck, ReaderType
<1>2. CacheInv /\ [Next]_vars => CacheInv'
  <2> SUFFICES ASSUME CacheInv, [Next]_vars PROVE CacheInv'
    OBVIOUS
  <2>1. CASE UNCHANGED vars
    BY <2>1 DEF vars, caches, CacheInv, ClockInv, ReaderOK, Holding, EntryOK, Fresh, L1Age
  <2>2. CASE Next
    BY <2>2, ReaderKeeps, MutateKeeps, InvalidationKeeps, TickKeeps DEF Next
  <2> QED
    BY <2>1, <2>2
<1> QED
  BY <1>1, <1>2, PTL DEF Spec

(***************************************************************************)
(* The comment on CachedBindingProvider holds: however many deletes and    *)
(* broadcasts are lost or overtaken, a permission check answered from a    *)
(* pod's memory uses bindings that were current within both TTLs and the   *)
(* duration of two checks.                                                 *)
(***************************************************************************)
THEOREM BoundedStalenessTheorem == Spec => []BoundedStaleness
<1>1. CacheInv => BoundedStaleness
  <2> SUFFICES ASSUME CacheInv, NEW p \in Pods, NEW u \in Users, l1[p][u] # None,
                      l1[p][u].ver < version[u]
               PROVE  now - retired[u][l1[p][u].ver + 1] <= L1TTL + L2TTL + 2 * MaxFlight
    BY DEF BoundedStaleness, CurrentWithin
  <2>1. PICK e \in Entry : e = l1[p][u]
    BY DEF CacheInv, ClockInv
  <2>2. e.ver \in Nat /\ e.exp \in Nat /\ now \in Nat /\ e.ver < version[u]
    BY <2>1 DEF Entry, CacheInv, ClockInv
  <2>3. e.ver + 1 \in 1..Len(retired[u]) /\ retired[u] \in Seq(Nat)
    BY <2>2, SMT DEF CacheInv, ClockInv
  <2>4. PICK x \in Nat : x = retired[u][e.ver + 1]
    BY <2>3, SMT
  <2>5. now <= e.exp /\ x >= e.exp - L1TTL - L1Age
    BY <2>1, <2>2, <2>4 DEF CacheInv, EntryOK, Fresh
  <2>6. now - x <= L1TTL + L2TTL + 2 * MaxFlight
    BY <2>2, <2>4, <2>5, SMT DEF L1Age
  <2> QED
    BY <2>1, <2>4, <2>6
<1> QED
  BY <1>1, CacheInvariant, PTL

-----------------------------------------------------------------------------
(* Invalidation.                                                           *)

Messages == UNION {[S -> Nat] : S \in SUBSET Users}

WriterType ==
    {Idle} \cup [pc : {"one", "del", "publish", "all", "sentinel"}, pod : Pods, vers : Messages]

QueueInv ==
    /\ inbox \in [Pods -> Seq(Messages)]
    /\ seen \in [Pods -> [Users -> Nat]]
    /\ writer \in [Writers -> WriterType]

\* Version n of the user's bindings has been announced with effect: what is older is
\* neither in the database, nor in Redis, nor in the hands of a check, unless it was
\* overtaken there.
Floor(u, n) ==
    /\ n <= version[u]
    /\ l2[u] # None /\ ~ l2[u].crossed => n <= l2[u].ver
    /\ \A r \in Readers :
          Holding(r) /\ reader[r].user = u /\ ~ reader[r].crossed => n <= reader[r].ver

\* Every broadcast that is sent, on its way or handled announces such a version.
AnnounceInv ==
    /\ \A w \in Writers : writer[w] # Idle =>
          \A u \in DOMAIN writer[w].vers :
             /\ writer[w].vers[u] <= version[u]
             /\ writer[w].pc = "publish" => Floor(u, writer[w].vers[u])
    /\ \A p \in Pods : \A i \in 1..Len(inbox[p]) :
          \A u \in DOMAIN inbox[p][i] : Floor(u, inbox[p][i][u])
    /\ \A p \in Pods, u \in Users : Floor(u, seen[p][u])

InvalidationInv == CacheInv /\ QueueInv /\ AnnounceInv /\ InvalidationHolds

(***************************************************************************)
(* A reader that is overtaken is marked, and no reader becomes unmarked.   *)
(***************************************************************************)
LEMMA CrossMarks ==
  ASSUME ClockInv, NEW pods, NEW users, Cross(pods, users), NEW r \in Readers
  PROVE  /\ reader[r].crossed => reader'[r].crossed
         /\ Holding(r) /\ reader[r].pod \in pods /\ reader[r].user \in users => reader'[r].crossed
<1>1. reader[r] \in ReaderType
  BY DEF ClockInv
<1>2. reader'[r] = IF Holding(r) /\ reader[r].pod \in pods /\ reader[r].user \in users
                   THEN [reader[r] EXCEPT !.crossed = TRUE] ELSE reader[r]
  BY DEF Cross
<1> QED
  BY <1>1, <1>2 DEF ReaderType

(***************************************************************************)
(* What an invalidation removes leaves the announced versions as they are. *)
(***************************************************************************)
LEMMA FloorKept ==
  ASSUME CacheInv, NEW u \in Users, NEW n \in Nat, Floor(u, n),
         \/ \E w \in Writers : \/ l1Delete(w) \/ Del(w) \/ Publish(w)
                               \/ l1Clear(w) \/ PublishAll(w) \/ purgeL2(w)
         \/ \E p \in Pods : Subscriber(p) \/ LoseBroadcast(p)
  PROVE  Floor(u, n)'
<1>1. ClockInv
  BY DEF CacheInv
<1>2. version' = version
  BY DEF l1Delete, Del, Publish, l1Clear, PublishAll, purgeL2, Subscriber, LoseBroadcast
<1>3. reader' = reader \/ \E pods, users : Cross(pods, users)
  BY DEF l1Delete, Del, Publish, l1Clear, PublishAll, purgeL2, Subscriber, LoseBroadcast
<1>4. \A r \in Readers : /\ reader'[r].pc = reader[r].pc
                         /\ reader'[r].user = reader[r].user
                         /\ reader'[r].ver = reader[r].ver
                         /\ reader[r].crossed => reader'[r].crossed
  BY <1>1, <1>3, CrossEffect, CrossMarks
<1>5. l2' = l2 \/ \E users : l2' = Without(l2, users)
  BY DEF l1Delete, Del, Publish, l1Clear, PublishAll, purgeL2, Subscriber, LoseBroadcast, caches
<1>6. l2'[u] \in {l2[u], None}
  BY <1>1, <1>5, WithoutEffect DEF ClockInv
<1> QED
  BY <1>2, <1>4, <1>6 DEF Floor, Holding

(***************************************************************************)
(* Checks load what is current or what Redis holds, and store what they    *)
(* hold, so an announced version stays one.                                *)
(***************************************************************************)
LEMMA FloorRead ==
  ASSUME CacheInv, NEW u \in Users, NEW n \in Nat, Floor(u, n), NEW r \in Readers,
         \/ \E p \in Pods, v \in Users : l1Get(r, p, v)
         \/ l2Get(r) \/ Load(r) \/ l1Set(r) \/ l2Set(r)
  PROVE  Floor(u, n)'
<1>1. ClockInv /\ reader[r] \in ReaderType /\ version' = version
  BY DEF CacheInv, ClockInv, l1Get, l2Get, Load, l1Set, l2Set
<1>2. ASSUME NEW x, reader' = [reader EXCEPT ![r] = x], l2' = l2,
             x.pc \in {"fillL1", "fillL2"} /\ x.user = u /\ ~ x.crossed => n <= x.ver
      PROVE  Floor(u, n)'
  <2>1. \A q \in Readers : reader'[q] = IF q = r THEN x ELSE reader[q]
    BY <1>1, <1>2 DEF ClockInv
  <2> QED
    BY <1>1, <1>2, <2>1 DEF Floor, Holding
<1>3. NoCheck.pc = "idle"
  BY DEF NoCheck
<1>4. ASSUME NEW p \in Pods, NEW v \in Users, l1Get(r, p, v) PROVE Floor(u, n)'
  <2>1. PICK x : x = [NoCheck EXCEPT !.pc = "l2Get", !.pod = p, !.user = v, !.start = now]
    OBVIOUS
  <2>2. x.pc = "l2Get"
    BY <2>1 DEF NoCheck
  <2> QED
    BY <1>2, <1>4, <2>1, <2>2 DEF l1Get, ReaderGo, caches
<1>5. ASSUME ReaderGo(r, [reader[r] EXCEPT !.pc = "load"]), l2' = l2 PROVE Floor(u, n)'
  <2>1. PICK x : x = [reader[r] EXCEPT !.pc = "load"]
    OBVIOUS
  <2>2. x.pc = "load"
    BY <1>1, <2>1 DEF ReaderType
  <2> QED
    BY <1>2, <1>5, <2>1, <2>2 DEF ReaderGo
<1>6. ASSUME NEW ver, NEW crossed, NEW source, ReaderGo(r, Loaded(r, ver, crossed, source)), l2' = l2,
             reader[r].user = u /\ ~ crossed => n <= ver
      PROVE  Floor(u, n)'
  <2>1. PICK x : x = Loaded(r, ver, crossed, source)
    OBVIOUS
  <2>2. x.user = reader[r].user /\ x.ver = ver /\ x.crossed = crossed
    BY <1>1, <2>1 DEF Loaded, ReaderType
  <2> QED
    BY <1>2, <1>6, <2>1, <2>2 DEF ReaderGo
<1>7. ASSUME ReaderGo(r, NoCheck), l2' = l2 PROVE Floor(u, n)'
  BY <1>2, <1>3, <1>7 DEF ReaderGo
<1>8. CASE l2Get(r)
  <2>1. CASE l2[reader[r].user] # None
             /\ ReaderGo(r, Loaded(r, l2[reader[r].user].ver, l2[reader[r].user].crossed, "l2"))
    BY <1>6, <1>8, <2>1 DEF Floor, l2Get, caches
  <2>2. CASE ReaderGo(r, [reader[r] EXCEPT !.pc = "load"])
    BY <1>5, <1>8, <2>2 DEF l2Get, caches
  <2> QED
    BY <1>8, <2>1, <2>2 DEF l2Get
<1>9. CASE Load(r)
  <2>1. CASE ReaderGo(r, Loaded(r, version[reader[r].user], FALSE, "db"))
    BY <1>6, <1>9, <2>1 DEF Floor, Load, caches
  <2>2. CASE ReaderGo(r, NoCheck)
    BY <1>7, <1>9, <2>2 DEF Load, caches
  <2> QED
    BY <1>9, <2>1, <2>2 DEF Load
<1>10. CASE l1Set(r)
  <2>1. CASE reader[r].source = "db"
    <3>1. PICK x : x = [reader[r] EXCEPT !.pc = "fillL2"]
      OBVIOUS
    <3>2. x.user = reader[r].user /\ x.ver = reader[r].ver /\ x.crossed = reader[r].crossed
      BY <1>1, <3>1 DEF ReaderType
    <3> QED
      BY <1>2, <1>10, <2>1, <3>1, <3>2 DEF l1Set, ReaderGo, Floor, Holding
  <2>2. CASE reader[r].source # "db"
    BY <1>7, <1>10, <2>2 DEF l1Set
  <2> QED
    BY <2>1, <2>2
<1>11. CASE l2Set(r)
  <2>1. CASE l2' = l2
    BY <1>7, <1>11, <2>1 DEF l2Set
  <2>2. CASE l2' = [l2 EXCEPT ![reader[r].user] = Stored(r, L2TTL)]
    <3>1. PICK e : e = Stored(r, L2TTL)
      OBVIOUS
    <3>2. e.ver = reader[r].ver /\ e.crossed = reader[r].crossed
      BY <3>1 DEF Stored
    <3>3. l2'[u] # None /\ ~ l2'[u].crossed => n <= l2'[u].ver
      BY <1>1, <1>11, <2>2, <3>1, <3>2 DEF ClockInv, Floor, l2Set, Holding
    <3>4. \A q \in Readers : reader'[q] = IF q = r THEN NoCheck ELSE reader[q]
      BY <1>1, <1>11 DEF ClockInv, l2Set, ReaderGo
    <3> QED
      BY <1>1, <1>3, <3>3, <3>4 DEF Floor, Holding
  <2> QED
    BY <1>11, <2>1, <2>2 DEF l2Set
<1> QED
  BY <1>4, <1>8, <1>9, <1>10, <1>11

(***************************************************************************)
(* No step takes an announced version back.                                *)
(***************************************************************************)
LEMMA FloorStep ==
  ASSUME CacheInv, [Next]_vars, NEW u \in Users, NEW n \in Nat, Floor(u, n)
  PROVE  Floor(u, n)'
<1>1. CASE UNCHANGED vars
  BY <1>1 DEF vars, Floor, Holding
<1>2. ASSUME NEW w \in Writers, NEW p \in Pods, NEW mode, NEW users, Mutate(w, p, mode, users)
      PROVE  Floor(u, n)'
  <2>1. version[u] \in Nat /\ version'[u] \in {version[u], version[u] + 1}
    BY <1>2 DEF Mutate, CacheInv, ClockInv
  <2> QED
    BY <1>2, <2>1, SMT DEF Mutate, Floor, Holding, caches
<1>3. CASE Tick
  BY <1>3 DEF Tick, Floor, Holding, Expire
<1> QED
  BY <1>1, <1>2, <1>3, FloorKept, FloorRead DEF Next

(***************************************************************************)
(* A broadcast names users and the versions it announces.                  *)
(***************************************************************************)
LEMMA MessageDef ==
  /\ \A m \in Messages : DOMAIN m \subseteq Users /\ \A u \in DOMAIN m : m[u] \in Nat
  /\ \A S \in SUBSET Users : \A m \in [S -> Nat] : m \in Messages
  /\ Sentinel \in Messages
BY SMT DEF Messages, Sentinel

(***************************************************************************)
(* A writer goes from one step of an invalidation to the next.             *)
(***************************************************************************)
LEMMA WriterStep ==
  ASSUME CacheInv, QueueInv, [Next]_vars, NEW w \in Writers
  PROVE  \/ writer'[w] \in {writer[w], Idle}
         \/ /\ writer'[w] \in WriterType /\ writer'[w] # Idle
            /\ \/ /\ \E p \in Pods, mode \in Modes, users \in SUBSET Users : Mutate(w, p, mode, users)
                  /\ writer'[w].pc # "publish"
                  /\ \A u \in DOMAIN writer'[w].vers : writer'[w].vers[u] = version'[u]
               \/ /\ writer[w] # Idle /\ writer'[w].vers = writer[w].vers
                  /\ writer'[w].pc = "publish" => l2' = Without(l2, Keys(w)) /\ Cross(Pods, Keys(w))
<1> DEFINE Goal == \/ writer'[w] \in {writer[w], Idle}
                   \/ /\ writer'[w] \in WriterType /\ writer'[w] # Idle
                      /\ \/ /\ \E p \in Pods, mode \in Modes, users \in SUBSET Users :
                                  Mutate(w, p, mode, users)
                            /\ writer'[w].pc # "publish"
                            /\ \A u \in DOMAIN writer'[w].vers : writer'[w].vers[u] = version'[u]
                         \/ /\ writer[w] # Idle /\ writer'[w].vers = writer[w].vers
                            /\ writer'[w].pc = "publish" =>
                                  l2' = Without(l2, Keys(w)) /\ Cross(Pods, Keys(w))
<1> SUFFICES Goal
  OBVIOUS
<1>1. writer \in [Writers -> WriterType] /\ writer[w] \in WriterType
  BY DEF QueueInv
<1>2. ASSUME NEW v \in Writers, NEW x, WriterGo(v, x)
      PROVE  writer'[w] = IF v = w THEN x ELSE writer[w]
  BY <1>1, <1>2 DEF WriterGo
<1>3. ASSUME NEW p \in Pods, NEW mode \in Modes, NEW users \in SUBSET Users, NEW v \in Writers,
             Mutate(v, p, mode, users)
      PROVE  Goal
  <2>1. PICK m : m = [u \in users |-> version[u] + 1]
    OBVIOUS
  <2>2. m \in [users -> Nat] /\ \A u \in users : m[u] = version'[u]
    BY <1>3, <2>1, SMT DEF Mutate, CacheInv, ClockInv
  <2>3. m \in Messages
    BY <2>2, MessageDef
  <2>4. PICK x : x = [pc |-> mode, pod |-> p, vers |-> m]
    OBVIOUS
  <2>5. x \in WriterType /\ x # Idle /\ x.pc # "publish" /\ x.vers = m
    BY <2>3, <2>4 DEF WriterType, Idle
  <2>6. writer'[w] = IF v = w THEN x ELSE writer[w]
    BY <1>2, <1>3, <2>1, <2>4 DEF Mutate
  <2> QED
    BY <1>3, <2>2, <2>5, <2>6
<1>4. ASSUME NEW v \in Writers, NEW pc \in {"del", "publish", "sentinel"}, writer[v].pc # "idle",
             WriterGo(v, [writer[v] EXCEPT !.pc = pc]),
             pc = "publish" => l2' = Without(l2, Keys(v)) /\ Cross(Pods, Keys(v))
      PROVE  Goal
  <2>1. PICK x : x = [writer[v] EXCEPT !.pc = pc]
    OBVIOUS
  <2>2. writer[v] \in WriterType /\ writer[v] # Idle
    BY <1>1, <1>4, SMT DEF Idle
  <2>3. x \in WriterType /\ x # Idle /\ x.pc = pc /\ x.vers = writer[v].vers
    BY <2>1, <2>2 DEF WriterType, Idle
  <2> QED
    BY <1>2, <1>4, <2>1, <2>2, <2>3
<1>5. ASSUME NEW v \in Writers, WriterGo(v, Idle) PROVE Goal
  BY <1>2, <1>5
<1>6. CASE writer' = writer
  BY <1>6
<1>7. ASSUME NEW v \in Writers, l1Delete(v) \/ l1Clear(v) \/ Publish(v) \/ PublishAll(v) PROVE Goal
  BY <1>4, <1>5, <1>7 DEF l1Delete, l1Clear, Publish, PublishAll
<1>8. ASSUME NEW v \in Writers, Del(v) PROVE Goal
  BY <1>4, <1>5, <1>8 DEF Del
<1>9. ASSUME \/ \E r \in Readers :
                  \/ \E p \in Pods, u \in Users : l1Get(r, p, u)
                  \/ l2Get(r) \/ Load(r) \/ l1Set(r) \/ l2Set(r)
             \/ \E p \in Pods : Subscriber(p) \/ LoseBroadcast(p)
             \/ Tick \/ UNCHANGED vars \/ \E v \in Writers : purgeL2(v)
      PROVE  Goal
  BY <1>6, <1>9 DEF l1Get, l2Get, Load, l1Set, l2Set, Subscriber, LoseBroadcast, Tick, vars, purgeL2
<1> HIDE DEF Goal
<1> QED
  BY <1>3, <1>7, <1>8, <1>9 DEF Next

(***************************************************************************)
(* What is in a queue was there, or a writer has just sent it.             *)
(***************************************************************************)
LEMMA InboxStep ==
  ASSUME QueueInv, [Next]_vars
  PROVE  /\ inbox' \in [Pods -> Seq(Messages)]
         /\ \A p \in Pods : \A i \in 1..Len(inbox'[p]) :
               \/ \E j \in 1..Len(inbox[p]) : inbox'[p][i] = inbox[p][j]
               \/ inbox'[p][i] = Sentinel
               \/ \E w \in Writers : writer[w].pc = "publish" /\ inbox'[p][i] = writer[w].vers
<1> DEFINE Goal ==
         /\ inbox' \in [Pods -> Seq(Messages)]
         /\ \A p \in Pods : \A i \in 1..Len(inbox'[p]) :
               \/ \E j \in 1..Len(inbox[p]) : inbox'[p][i] = inbox[p][j]
               \/ inbox'[p][i] = Sentinel
               \/ \E w \in Writers : writer[w].pc = "publish" /\ inbox'[p][i] = writer[w].vers
<1> SUFFICES Goal
  OBVIOUS
<1>1. inbox \in [Pods -> Seq(Messages)]
  BY DEF QueueInv
<1>2. CASE inbox' = inbox
  BY <1>1, <1>2
<1>3. ASSUME NEW m \in Messages, inbox' = [p \in Pods |-> Append(inbox[p], m)],
             \/ m = Sentinel
             \/ \E w \in Writers : writer[w].pc = "publish" /\ m = writer[w].vers
      PROVE  Goal
  <2>1. ASSUME NEW p \in Pods
        PROVE  /\ inbox'[p] \in Seq(Messages)
               /\ \A i \in 1..Len(inbox'[p]) :
                     (\E j \in 1..Len(inbox[p]) : inbox'[p][i] = inbox[p][j]) \/ inbox'[p][i] = m
    <3>1. PICK s \in Seq(Messages) : s = inbox[p]
      BY <1>1
    <3>2. inbox'[p] = Append(s, m)
      BY <1>3, <3>1
    <3> QED
      BY <3>1, <3>2, SMT
  <2> QED
    BY <1>3, <2>1
<1>4. ASSUME NEW p \in Pods, inbox[p] # <<>>, inbox' = [inbox EXCEPT ![p] = Tail(@)] PROVE Goal
  <2>1. PICK s \in Seq(Messages) : s = inbox[p]
    BY <1>1
  <2>2. /\ Tail(s) \in Seq(Messages)
        /\ \A i \in 1..Len(Tail(s)) : i + 1 \in 1..Len(s) /\ Tail(s)[i] = s[i + 1]
    BY <1>4, <2>1, SMT
  <2>3. \A q \in Pods : inbox'[q] = IF q = p THEN Tail(s) ELSE inbox[q]
    BY <1>1, <1>4, <2>1
  <2>4. ASSUME NEW q \in Pods
        PROVE  /\ inbox'[q] \in Seq(Messages)
               /\ \A i \in 1..Len(inbox'[q]) : \E j \in 1..Len(inbox[q]) : inbox'[q][i] = inbox[q][j]
    <3>1. CASE q = p
      BY <2>1, <2>2, <2>3, <3>1
    <3>2. CASE q # p
      BY <1>1, <2>3, <3>2
    <3> QED
      BY <3>1, <3>2
  <2>5. inbox' \in [Pods -> Seq(Messages)]
    BY <1>1, <1>4, <2>4
  <2> QED
    BY <2>4, <2>5
<1>5. ASSUME NEW w \in Writers, Publish(w) PROVE Goal
  <2>1. writer[w].pc = "publish" /\ writer[w] \in WriterType
    BY <1>5 DEF Publish, QueueInv
  <2>2. writer[w].vers \in Messages
    BY <2>1, SMT DEF WriterType, Idle
  <2> QED
    BY <1>2, <1>3, <1>5, <2>1, <2>2 DEF Publish, Broadcast
<1>6. ASSUME NEW w \in Writers, PublishAll(w) PROVE Goal
  BY <1>2, <1>3, <1>6, MessageDef DEF PublishAll
<1>7. ASSUME NEW p \in Pods, Subscriber(p) \/ LoseBroadcast(p) PROVE Goal
  BY <1>4, <1>7 DEF Subscriber, LoseBroadcast
<1>8. ASSUME \/ \E r \in Readers :
                  \/ \E p \in Pods, u \in Users : l1Get(r, p, u)
                  \/ l2Get(r) \/ Load(r) \/ l1Set(r) \/ l2Set(r)
             \/ \E w \in Writers :
                  \/ \E p \in Pods, mode \in Modes, users \in SUBSET Users : Mutate(w, p, mode, users)
                  \/ l1Delete(w) \/ Del(w) \/ l1Clear(w) \/ purgeL2(w)
             \/ Tick \/ UNCHANGED vars
      PROVE  inbox' = inbox
  BY <1>8 DEF l1Get, l2Get, Load, l1Set, l2Set, Mutate, l1Delete, Del, l1Clear, purgeL2, Tick, vars
<1> HIDE DEF Goal
<1> QED
  BY <1>2, <1>5, <1>6, <1>7, <1>8 DEF Next

(***************************************************************************)
(* The queues, the writers and what the pods have seen keep their types,   *)
(* and a pod has seen what was in its queue.                               *)
(***************************************************************************)
LEMMA SeenStep ==
  ASSUME QueueInv, [Next]_vars
  PROVE  /\ seen' \in [Pods -> [Users -> Nat]]
         /\ \A p \in Pods, u \in Users :
               \/ seen'[p][u] = seen[p][u]
               \/ \E i \in 1..Len(inbox[p]) : u \in DOMAIN inbox[p][i] /\ seen'[p][u] = inbox[p][i][u]
<1> DEFINE Goal ==
         /\ seen' \in [Pods -> [Users -> Nat]]
         /\ \A p \in Pods, u \in Users :
               \/ seen'[p][u] = seen[p][u]
               \/ \E i \in 1..Len(inbox[p]) : u \in DOMAIN inbox[p][i] /\ seen'[p][u] = inbox[p][i][u]
<1> SUFFICES Goal
  OBVIOUS
<1>1. CASE seen' = seen
  BY <1>1 DEF QueueInv
<1>2. ASSUME NEW p \in Pods, Subscriber(p) PROVE Goal
  <2>1. PICK m : m = Head(inbox[p])
    OBVIOUS
  <2>2. 1 \in 1..Len(inbox[p]) /\ m = inbox[p][1] /\ m \in Messages
    BY <1>2, <2>1, SMT DEF Subscriber, QueueInv
  <2>3. PICK s \in [Users -> Nat] : s = seen[p]
    BY DEF QueueInv
  <2>4. PICK t : t = [u \in Users |-> IF u \in DOMAIN m /\ m[u] > s[u] THEN m[u] ELSE s[u]]
    OBVIOUS
  <2>5. t \in [Users -> Nat]
    BY <2>2, <2>3, <2>4, MessageDef
  <2>6. seen' = [seen EXCEPT ![p] = t]
    BY <1>2, <2>1, <2>3, <2>4 DEF Subscriber
  <2>7. \A q \in Pods : seen'[q] = IF q = p THEN t ELSE seen[q]
    BY <2>6 DEF QueueInv
  <2>8. seen' \in [Pods -> [Users -> Nat]]
    BY <2>5, <2>6 DEF QueueInv
  <2>9. \A u \in Users : t[u] = s[u] \/ (u \in DOMAIN m /\ t[u] = m[u])
    BY <2>4
  <2> QED
    BY <2>2, <2>3, <2>7, <2>8, <2>9
<1>3. ASSUME \/ \E r \in Readers :
                  \/ \E p \in Pods, u \in Users : l1Get(r, p, u)
                  \/ l2Get(r) \/ Load(r) \/ l1Set(r) \/ l2Set(r)
             \/ \E w \in Writers :
                  \/ \E p \in Pods, mode \in Modes, users \in SUBSET Users : Mutate(w, p, mode, users)
                  \/ l1Delete(w) \/ Del(w) \/ Publish(w)
                  \/ l1Clear(w) \/ PublishAll(w) \/ purgeL2(w)
             \/ \E p \in Pods : LoseBroadcast(p)
             \/ Tick \/ UNCHANGED vars
      PROVE  seen' = seen
  BY <1>3 DEF l1Get, l2Get, Load, l1Set, l2Set, Mutate, l1Delete, Del, Publish, l1Clear, PublishAll,
     purgeL2, LoseBroadcast, Tick, vars
<1> HIDE DEF Goal
<1> QED
  BY <1>1, <1>2, <1>3 DEF Next

(***************************************************************************)
(* Every step keeps the types of the queues and the writers.               *)
(***************************************************************************)
LEMMA QueueStep ==
  ASSUME CacheInv, QueueInv, [Next]_vars
  PROVE  QueueInv'
<1>1. writer' \in [Writers -> WriterType]
  <2>1. \A w \in Writers : writer'[w] \in WriterType
    BY WriterStep DEF QueueInv, WriterType
  <2>2. writer' = writer \/ \E w, x : writer' = [writer EXCEPT ![w] = x]
    BY DEF Next, l1Get, l2Get, Load, l1Set, l2Set, Mutate, l1Delete, Del, Publish, l1Clear, PublishAll,
       purgeL2, Subscriber, LoseBroadcast, Tick, vars, WriterGo
  <2> QED
    BY <2>1, <2>2 DEF QueueInv
<1> QED
  BY <1>1, InboxStep, SeenStep DEF QueueInv

(***************************************************************************)
(* A DEL that succeeds makes its version an announced one: no check holds, *)
(* and Redis no longer serves, what is older.                              *)
(***************************************************************************)
LEMMA DelFloor ==
  ASSUME CacheInv, NEW users, l2' = Without(l2, users), Cross(Pods, users), version' = version,
         NEW u \in Users, u \in users, NEW n \in Nat, n <= version[u]
  PROVE  Floor(u, n)'
<1>1. ClockInv
  BY DEF CacheInv
<1>2. l2'[u] = None
  BY DEF Without
<1>3. ASSUME NEW r \in Readers, reader'[r].pc \in {"fillL1", "fillL2"}, reader'[r].user = u
      PROVE  reader'[r].crossed
  <2>1. reader'[r].pc = reader[r].pc /\ reader'[r].user = reader[r].user
    BY <1>1, CrossEffect
  <2>2. Holding(r) /\ reader[r].pod \in Pods
    BY <1>3, <2>1 DEF Holding, CacheInv, ReaderOK
  <2> QED
    BY <1>1, <1>3, <2>1, <2>2, CrossMarks
<1> QED
  BY <1>2, <1>3 DEF Floor, Holding

(***************************************************************************)
(* Every step keeps the announcements true.                                *)
(***************************************************************************)
LEMMA AnnounceStep ==
  ASSUME CacheInv, QueueInv, AnnounceInv, [Next]_vars
  PROVE  AnnounceInv'
<1>1. ASSUME NEW u \in Users PROVE version[u] \in Nat /\ version'[u] \in Nat /\ version[u] <= version'[u]
  <2>1. version[u] \in Nat
    BY DEF CacheInv, ClockInv
  <2>2. version'[u] \in {version[u], version[u] + 1}
    <3>1. version' = version \/ \E w, p, mode, users : Mutate(w, p, mode, users)
      BY DEF Next, l1Get, l2Get, Load, l1Set, l2Set, l1Delete, Del, Publish, l1Clear, PublishAll,
         purgeL2, Subscriber, LoseBroadcast, Tick, vars
    <3> QED
      BY <3>1 DEF Mutate
  <2> QED
    BY <2>1, <2>2, SMT
<1>2. ASSUME NEW w \in Writers, writer'[w] # Idle, NEW u \in DOMAIN writer'[w].vers
      PROVE  /\ writer'[w].vers[u] <= version'[u]
             /\ writer'[w].pc = "publish" => Floor(u, writer[w].vers[u])'
  <2>1. PICK x : x = writer'[w]
    OBVIOUS
  <2>2. x \in WriterType /\ x # Idle
    BY <1>2, <2>1, QueueStep DEF QueueInv
  <2>3. u \in Users /\ x.vers[u] \in Nat
    BY <1>2, <2>1, <2>2, MessageDef DEF WriterType
  <2>4. PICK n \in Nat : n = x.vers[u]
    BY <2>3
  <2>5. SUFFICES n <= version'[u] /\ (x.pc = "publish" => Floor(u, n)')
    BY <2>1, <2>4 DEF Floor
  <2>6. CASE x = writer[w]
    <3>1. n <= version[u] /\ (x.pc = "publish" => Floor(u, n))
      BY <1>2, <2>1, <2>2, <2>4, <2>6 DEF AnnounceInv
    <3> QED
      BY <1>1, <2>3, <3>1, FloorStep, SMT
  <2>7. CASE x.pc # "publish" /\ \A v \in DOMAIN x.vers : x.vers[v] = version'[v]
    BY <1>1, <1>2, <2>1, <2>3, <2>4, <2>7, SMT
  <2>8. CASE /\ writer[w] # Idle /\ x.vers = writer[w].vers
             /\ x.pc = "publish" => l2' = Without(l2, Keys(w)) /\ Cross(Pods, Keys(w))
    <3>1. n <= version[u] /\ u \in Keys(w)
      BY <1>2, <2>1, <2>4, <2>8 DEF AnnounceInv, Keys
    <3>2. n <= version'[u]
      BY <1>1, <2>3, <3>1, SMT
    <3>3. CASE x.pc = "publish"
      <4>1. CASE version' = version
        BY <2>3, <2>8, <3>1, <3>3, <4>1, DelFloor
      <4>2. CASE \E v, p, mode, users : Mutate(v, p, mode, users)
        <5>1. l2' = l2 /\ reader' = reader
          BY <4>2 DEF Mutate, caches
        <5>2. l2[u] = None
          BY <2>3, <2>8, <3>1, <3>3, <5>1 DEF Without
        <5>3. \A r \in Readers : Holding(r) /\ reader[r].user = u => reader[r].crossed
          BY <2>3, <2>8, <3>1, <3>3, <5>1, CrossMarks DEF CacheInv, ReaderOK, Holding
        <5>4. Floor(u, n)
          BY <3>1, <5>2, <5>3 DEF Floor
        <5> QED
          BY <2>3, <3>2, <5>4, FloorStep
      <4>3. version' = version \/ \E v, p, mode, users : Mutate(v, p, mode, users)
        BY DEF Next, l1Get, l2Get, Load, l1Set, l2Set, l1Delete, Del, Publish, l1Clear, PublishAll,
           purgeL2, Subscriber, LoseBroadcast, Tick, vars
      <4> QED
        BY <3>2, <4>1, <4>2, <4>3
    <3> QED
      BY <3>2, <3>3
  <2> QED
    BY <1>2, <2>1, <2>6, <2>7, <2>8, WriterStep
<1>3. ASSUME NEW p \in Pods, NEW i \in 1..Len(inbox'[p]), NEW u \in DOMAIN inbox'[p][i]
      PROVE  Floor(u, inbox[p][i][u])'
  <2>1. PICK m : m = inbox'[p][i]
    OBVIOUS
  <2>2. m \in Messages /\ u \in DOMAIN m
    BY <1>3, <2>1, InboxStep, SMT
  <2>3. u \in Users /\ m[u] \in Nat
    BY <2>2, MessageDef
  <2>4. PICK n \in Nat : n = m[u]
    BY <2>3
  <2>5. Floor(u, n)
    <3>1. CASE \E j \in 1..Len(inbox[p]) : m = inbox[p][j]
      BY <2>2, <2>4, <3>1 DEF AnnounceInv
    <3>2. CASE m = Sentinel
      <4>1. n = 0 /\ version[u] \in Nat
        BY <2>3, <2>4, <3>2 DEF Sentinel, CacheInv, ClockInv
      <4>2. l2[u] # None => l2[u].ver \in Nat
        BY <2>3 DEF CacheInv, ClockInv, Entry
      <4>3. \A r \in Readers : reader[r].ver \in Nat
        BY DEF CacheInv, ClockInv, ReaderType
      <4> QED
        BY <4>1, <4>2, <4>3, SMT DEF Floor
    <3>3. CASE \E w \in Writers : writer[w].pc = "publish" /\ m = writer[w].vers
      BY <2>2, <2>4, <3>3, SMT DEF AnnounceInv, Idle
    <3> QED
      BY <2>1, <3>1, <3>2, <3>3, InboxStep
  <2>6. Floor(u, n)'
    BY <2>3, <2>5, FloorStep
  <2> QED
    BY <2>1, <2>4, <2>6 DEF Floor
<1>4. ASSUME NEW p \in Pods, NEW u \in Users PROVE Floor(u, seen[p][u])'
  <2>1. PICK n \in Nat : n = seen'[p][u]
    BY SeenStep
  <2>2. Floor(u, n)
    BY <2>1, SeenStep, SMT DEF AnnounceInv
  <2>3. Floor(u, n)'
    BY <2>2, FloorStep
  <2> QED
    BY <2>1, <2>3 DEF Floor
<1> QED
  BY <1>2, <1>3, <1>4 DEF AnnounceInv, Floor

(***************************************************************************)
(* What a pod has in memory was there, or a check has just stored it; and  *)
(* of the users whose announcement it handles it keeps nothing.            *)
(***************************************************************************)
LEMMA MemoryStep ==
  ASSUME CacheInv, QueueInv, [Next]_vars, NEW p \in Pods, NEW u \in Users, l1'[p][u] # None
  PROVE  /\ seen'[p][u] = seen[p][u]
         /\ \/ l1'[p][u] = l1[p][u]
            \/ \E r \in Readers : /\ Holding(r) /\ reader[r].user = u
                                  /\ l1'[p][u].ver = reader[r].ver
                                  /\ l1'[p][u].crossed = reader[r].crossed
<1> DEFINE Goal ==
         /\ seen'[p][u] = seen[p][u]
         /\ \/ l1'[p][u] = l1[p][u]
            \/ \E r \in Readers : /\ Holding(r) /\ reader[r].user = u
                                  /\ l1'[p][u].ver = reader[r].ver
                                  /\ l1'[p][u].crossed = reader[r].crossed
<1> SUFFICES Goal
  OBVIOUS
<1>1. ClockInv
  BY DEF CacheInv
<1>2. CASE seen' = seen /\ l1' = l1
  BY <1>2
<1>3. ASSUME NEW q \in Pods, NEW users, l1' = [l1 EXCEPT ![q] = Without(@, users)]
      PROVE  l1'[p][u] = l1[p][u] /\ ~ (q = p /\ u \in users)
  BY <1>1, <1>3 DEF ClockInv, Without
<1>4. ASSUME NEW w \in Writers, l1Delete(w) \/ l1Clear(w) PROVE Goal
  <2>1. writer[w] \in WriterType /\ writer[w] # Idle
    BY <1>4, SMT DEF l1Delete, l1Clear, QueueInv, Idle
  <2>2. writer[w].pod \in Pods
    BY <2>1 DEF WriterType
  <2> QED
    BY <1>3, <1>4, <2>2 DEF l1Delete, l1Clear
<1>5. ASSUME NEW q \in Pods, Subscriber(q) PROVE Goal
  <2>1. PICK m : m = Head(inbox[q])
    OBVIOUS
  <2>2. l1'[p][u] = l1[p][u] /\ ~ (q = p /\ u \in DOMAIN m)
    BY <1>3, <1>5, <2>1 DEF Subscriber
  <2>3. seen'[p][u] = seen[p][u]
    BY <1>5, <2>1, <2>2 DEF Subscriber, QueueInv
  <2> QED
    BY <2>2, <2>3
<1>6. ASSUME NEW r \in Readers, l1Set(r) PROVE Goal
  <2>1. reader[r].pod \in Pods /\ reader[r].user \in Users /\ Holding(r) /\ seen' = seen
    BY <1>6 DEF l1Set, CacheInv, ReaderOK, Holding
  <2>2. PICK e : e = Stored(r, L1TTL)
    OBVIOUS
  <2>3. e.ver = reader[r].ver /\ e.crossed = reader[r].crossed
    BY <2>2 DEF Stored
  <2>4. l1'[p][u] = IF p = reader[r].pod /\ u = reader[r].user THEN e ELSE l1[p][u]
    BY <1>1, <1>6, <2>1, <2>2 DEF l1Set, ClockInv
  <2> QED
    BY <2>1, <2>3, <2>4
<1>7. CASE Tick
  BY <1>7 DEF Tick, Expire
<1>8. ASSUME \/ \E r \in Readers :
                  \/ \E q \in Pods, v \in Users : l1Get(r, q, v)
                  \/ l2Get(r) \/ Load(r) \/ l2Set(r)
             \/ \E w \in Writers :
                  \/ \E q \in Pods, mode \in Modes, users \in SUBSET Users : Mutate(w, q, mode, users)
                  \/ Del(w) \/ Publish(w) \/ PublishAll(w) \/ purgeL2(w)
             \/ \E q \in Pods : LoseBroadcast(q)
             \/ UNCHANGED vars
      PROVE  seen' = seen /\ l1' = l1
  BY <1>8 DEF l1Get, l2Get, Load, l2Set, Mutate, Del, Publish, PublishAll, purgeL2, LoseBroadcast, vars,
     caches
<1> HIDE DEF Goal
<1> QED
  BY <1>2, <1>4, <1>5, <1>6, <1>7, <1>8 DEF Next

(***************************************************************************)
(* Once a pod has handled the broadcast of an Invalidate, it caches older  *)
(* bindings only if a read was under way across the invalidation, for any  *)
(* number of pods, checks, mutations and lost broadcasts: the DEL comes    *)
(* before the broadcast.                                                   *)
(***************************************************************************)
THEOREM InvalidationTheorem == Spec => []InvalidationHolds
<1>1. Init => InvalidationInv
  <2> SUFFICES ASSUME Init PROVE InvalidationInv
    OBVIOUS
  <2>1. CacheInv
    BY SMT DEF Init, CacheInv, ClockInv, ReaderOK, EntryOK, NoCheck, ReaderType
  <2>2. QueueInv
    BY SMT DEF Init, QueueInv, WriterType
  <2>3. \A u \in Users : Floor(u, 0)
    BY SMT DEF Init, Floor, Holding, NoCheck
  <2>4. AnnounceInv /\ InvalidationHolds
    BY <2>3, SMT DEF Init, AnnounceInv, InvalidationHolds
  <2> QED
    BY <2>1, <2>2, <2>4 DEF InvalidationInv
<1>2. InvalidationInv /\ CacheInv' /\ [Next]_vars => InvalidationInv'
  <2> SUFFICES ASSUME CacheInv, QueueInv, AnnounceInv, InvalidationHolds, CacheInv', [Next]_vars
               PROVE  InvalidationInv'
    BY DEF InvalidationInv
  <2>1. ASSUME NEW p \in Pods, NEW u \in Users, l1'[p][u] # None, l1'[p][u].ver < seen'[p][u]
        PROVE  l1'[p][u].crossed
    <3>1. seen'[p][u] = seen[p][u]
      BY <2>1, MemoryStep
    <3>2. CASE l1'[p][u] = l1[p][u]
      BY <2>1, <3>1, <3>2 DEF InvalidationHolds
    <3>3. ASSUME NEW r \in Readers, Holding(r), reader[r].user = u, l1'[p][u].ver = reader[r].ver,
                 l1'[p][u].crossed = reader[r].crossed, ~ reader[r].crossed
          PROVE  FALSE
      <4>1. Floor(u, seen[p][u]) /\ seen[p][u] \in Nat /\ reader[r].ver \in Nat
        BY SMT DEF AnnounceInv, QueueInv, CacheInv, ClockInv, ReaderType
      <4>2. seen[p][u] <= reader[r].ver
        BY <3>3, <4>1 DEF Floor
      <4> QED
        BY <2>1, <3>1, <3>3, <4>1, <4>2, SMT
    <3> QED
      BY <2>1, <3>2, <3>3, MemoryStep, SMT
  <2>2. InvalidationHolds'
    BY <2>1 DEF InvalidationHolds
  <2> QED
    BY <2>2, QueueStep, AnnounceStep DEF InvalidationInv
<1>3. InvalidationInv => InvalidationHolds
  BY DEF InvalidationInv
<1> QED
  BY <1>1, <1>2, <1>3, CacheInvariant, PTL DEF Spec
=============================================================================
