------------------------------ MODULE Settings ------------------------------
(***************************************************************************)
(* Runtime settings, read through a cache in every pod's memory (60 s TTL, *)
(* evicted by a Redis broadcast), and the licence, which every pod holds   *)
(* in memory and reloads on a broadcast.  One setting that carries a       *)
(* secret stands for all: mail, SMS and the offboarding webhook keep the   *)
(* stored secret when a save leaves it blank, which they find by a read    *)
(* through the cache of the pod that serves the save.                      *)
(***************************************************************************)
EXTENDS Naturals, FiniteSets

CONSTANTS
    Pods, Workers, None,
    Secrets,
    cacheTTL,
    MaxFlight,                          \* bound: how long one read may take
    MaxTime, MaxVersion, MaxFaults, MaxRequests     \* bounds

VARIABLES
    now,
    row,        \* the stored row: [ver, secret], version 0 when absent
    retired,    \* version -> when it was superseded
    cache,      \* per pod: [row, exp] or None
    inbox,      \* per pod: cache keys broadcast and not yet handled
    licence,    \* the licence stored in platform_config
    current,    \* per pod: the licence in force (license.SetCurrent)
    reloads,    \* per pod: licence broadcasts not yet handled
    reloading,  \* per pod: what the subscriber has read, or None
    req, requests, faults,
    late,       \* a read returned a version superseded too long before it
    kept        \* no blank save changed the secret but for the reasons below

store == <<now, row, retired, cache, inbox, late, kept>>
edition == <<licence, current, reloads, reloading>>
vars == <<store, edition, req, requests, faults>>

Idle == [op |-> "idle"]

Init ==
    /\ now = 0 /\ retired = [v \in {} |-> 0]
    /\ row \in {[ver |-> 0, secret |-> None]} \cup [ver : {1}, secret : Secrets]
    /\ cache = [p \in Pods |-> None] /\ inbox = [p \in Pods |-> 0]
    /\ licence = 0 /\ current = [p \in Pods |-> 0]
    /\ reloads = [p \in Pods |-> 0] /\ reloading = [p \in Pods |-> None]
    /\ req = [w \in Workers |-> Idle] /\ requests = 0 /\ faults = 0
    /\ late = FALSE /\ kept = TRUE

Start(w, r) ==
    /\ req[w] = Idle /\ requests < MaxRequests
    /\ requests' = requests + 1
    /\ req' = [req EXCEPT ![w] = r]

Goto(w, r) == req' = [req EXCEPT ![w] = r] /\ UNCHANGED requests

\* A read in flight does not take longer than MaxFlight.
Tick ==
    /\ now < MaxTime
    /\ \A w \in Workers : req[w].op \in {"lookup", "query", "fill"} => now < req[w].start + MaxFlight
    /\ now' = now + 1
    /\ UNCHANGED <<row, retired, cache, inbox, late, kept, edition, req, requests, faults>>

-----------------------------------------------------------------------------
(* Reading.                                                                *)

\* Mutant: an entry never runs out.
Forever(p) == cache[p] # None

\* An entry the pod may still answer from.
Fresh(p) == IF cache[p] = None THEN FALSE ELSE now < cache[p].exp

\* What a read is for: it answers a caller, or a save with a blank secret.
\* The save's read fails silently and leaves the default, no secret.
Done(w, r, found) ==
    IF r.for = "get" THEN Idle
    ELSE [op |-> "upsert", pod |-> r.pod, blank |-> TRUE, secret |-> found.secret, ver |-> found.ver]

\* A read that started at start may not return version v.
TooOld(v, start) == IF v \in DOMAIN retired THEN start > retired[v] + cacheTTL + MaxFlight ELSE FALSE

Get(w, p, for) ==
    /\ Start(w, [op |-> "lookup", pod |-> p, for |-> for, start |-> now])
    /\ UNCHANGED <<store, edition, faults>>

\* getRaw: the cache ...
getRaw(w) ==
    LET r == req[w]
    IN  /\ r.op = "lookup"
        /\ IF Fresh(r.pod)
           THEN /\ Goto(w, Done(w, r, cache[r.pod].row))
                /\ late' = (late \/ TooOld(cache[r.pod].row.ver, r.start))
           ELSE Goto(w, [r EXCEPT !.op = "query"]) /\ UNCHANGED late
        /\ UNCHANGED <<now, row, retired, cache, inbox, kept, edition, faults>>

\* ... the row, without which the default is served and nothing cached ...
QueryRow(w) ==
    LET r == req[w]
        none == [ver |-> 0, secret |-> None]
    IN  /\ r.op = "query"
        /\ \/ /\ Goto(w, IF row.ver = 0 THEN Done(w, r, none)
                         ELSE [op |-> "fill", pod |-> r.pod, for |-> r.for, start |-> r.start, row |-> row])
              /\ UNCHANGED faults
           \/ /\ faults < MaxFaults /\ faults' = faults + 1       \* the query fails
              /\ Goto(w, Done(w, r, none))
        /\ UNCHANGED <<store, edition>>

\* ... and the entry, whatever happened to the row meanwhile.
Fill(w) ==
    LET r == req[w]
    IN  /\ r.op = "fill"
        /\ cache' = [cache EXCEPT ![r.pod] = [row |-> r.row, exp |-> now + cacheTTL]]
        /\ late' = (late \/ TooOld(r.row.ver, r.start))
        /\ Goto(w, Done(w, r, r.row))
        /\ UNCHANGED <<now, row, retired, inbox, kept, edition, faults>>

-----------------------------------------------------------------------------
(* Writing.                                                                *)

\* A save that brings its secret: putSMS, putMailSMTP, putOffboardingWebhook.
Put(w, p, s) ==
    /\ Start(w, [op |-> "upsert", pod |-> p, blank |-> FALSE, secret |-> s, ver |-> row.ver])
    /\ UNCHANGED <<store, edition, faults>>

\* The secret that is stored.
SecretOf(r) == r.secret

\* Upsert.  A blank save is excused when what it read was not the row.
Upsert(w) ==
    LET r == req[w]
    IN  /\ r.op = "upsert" /\ row.ver < MaxVersion
        /\ row' = [ver |-> row.ver + 1, secret |-> SecretOf(r)]
        /\ retired' = [v \in DOMAIN retired \cup {row.ver} |-> IF v = row.ver THEN now ELSE retired[v]]
        /\ kept' = (kept /\ (r.blank /\ r.ver = row.ver => row'.secret = row.secret))
        /\ Goto(w, [op |-> "evict", pod |-> r.pod])
        /\ UNCHANGED <<now, cache, inbox, late, edition, faults>>

deleteLocal(p) == [cache EXCEPT ![p] = None]

\* invalidate: the local entry ...
invalidate(w) ==
    /\ req[w].op = "evict"
    /\ cache' = deleteLocal(req[w].pod)
    /\ Goto(w, [op |-> "publish"])
    /\ UNCHANGED <<now, row, retired, inbox, late, kept, edition, faults>>

\* ... and the broadcast, which may fail.
Broadcast(w) ==
    /\ req[w].op = "publish"
    /\ \/ inbox' = [p \in Pods |-> inbox[p] + 1] /\ UNCHANGED faults
       \/ faults < MaxFaults /\ faults' = faults + 1 /\ UNCHANGED inbox
    /\ Goto(w, Idle)
    /\ UNCHANGED <<now, row, retired, cache, late, kept, edition>>

\* SetRedisInvalidation's subscriber.
Evict(p) ==
    /\ inbox[p] > 0
    /\ inbox' = [inbox EXCEPT ![p] = @ - 1]
    /\ cache' = deleteLocal(p)
    /\ UNCHANGED <<now, row, retired, late, kept, edition, req, requests, faults>>

SettingNext ==
    \/ Tick
    \/ \E p \in Pods : Evict(p)
    \/ \E w \in Workers :
          \/ \E p \in Pods : Get(w, p, "get") \/ Get(w, p, "blank") \/ \E s \in Secrets : Put(w, p, s)
          \/ getRaw(w) \/ QueryRow(w) \/ Fill(w) \/ Upsert(w) \/ invalidate(w) \/ Broadcast(w)

-----------------------------------------------------------------------------
(* The licence.                                                            *)

\* putLicense stores the new token ...
putLicense(w, p) ==
    /\ Start(w, [op |-> "install", pod |-> p, lic |-> licence + 1])
    /\ licence' = licence + 1
    /\ UNCHANGED <<store, current, reloads, reloading, faults>>

\* SetCurrent comes first, the broadcast second.
Order(r) == IF r.op = "install" THEN "set" ELSE "announce"

\* ... puts it in force here, and tells every pod, this one included.
SetCurrent(w) ==
    LET r == req[w]
        half == r.op = "install"
    IN  /\ r.op \in {"install", "second"}
        /\ IF Order(r) = "set"
           THEN current' = [current EXCEPT ![r.pod] = r.lic] /\ UNCHANGED <<reloads, faults>>
           ELSE /\ \/ reloads' = [p \in Pods |-> reloads[p] + 1] /\ UNCHANGED faults
                   \/ faults < MaxFaults /\ faults' = faults + 1 /\ UNCHANGED reloads
                /\ UNCHANGED current
        /\ Goto(w, IF half THEN [r EXCEPT !.op = "second"] ELSE Idle)
        /\ UNCHANGED <<store, licence, reloading>>

\* The subscriber handles one broadcast at a time: reloadLicense reads the
\* stored licence and installs it.
reloadLicense(p) ==
    /\ \/ /\ reloading[p] = None /\ reloads[p] > 0
          /\ reloading' = [reloading EXCEPT ![p] = licence]
          /\ reloads' = [reloads EXCEPT ![p] = @ - 1]
          /\ UNCHANGED current
       \/ /\ reloading[p] # None
          /\ current' = [current EXCEPT ![p] = reloading[p]]
          /\ reloading' = [reloading EXCEPT ![p] = None]
          /\ UNCHANGED reloads
    /\ UNCHANGED <<store, licence, req, requests, faults>>

LicenceNext ==
    \/ \E p \in Pods : reloadLicense(p)
    \/ \E w \in Workers : SetCurrent(w) \/ \E p \in Pods : putLicense(w, p)

Next == SettingNext \/ LicenceNext

Spec == Init /\ [][Next]_vars

-----------------------------------------------------------------------------

(***************************************************************************)
(* No pod acts on an old setting for long: the version a read returns was  *)
(* current at most the cache's lifetime and one read's duration before,    *)
(* even when broadcasts are lost and an entry is filled after the eviction *)
(* meant for it (getRaw, invalidate).                                      *)
(***************************************************************************)
SettingStaleness == ~ late

(***************************************************************************)
(* A blank secret means unchanged: a save that leaves the secret blank     *)
(* stores the secret the row had, unless the row was not the one its read  *)
(* returned: a stale entry, a failed read, another save in between.        *)
(***************************************************************************)
SecretKept == kept

(***************************************************************************)
(* Every pod ends on the stored licence: once the saves are over and the   *)
(* broadcasts handled, all have in force what platform_config holds,       *)
(* however saves on several pods and reloads interleaved, unless a         *)
(* broadcast failed (putLicense, reloadLicense).                           *)
(***************************************************************************)
LicenceConverges ==
    /\ \A w \in Workers : req[w].op = "idle"
    /\ \A p \in Pods : reloads[p] = 0 /\ reloading[p] = None
    /\ faults = 0
    => \A p \in Pods : current[p] = licence
=============================================================================
