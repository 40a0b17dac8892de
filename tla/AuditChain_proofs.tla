------------------------- MODULE AuditChain_proofs -------------------------
(***************************************************************************)
(* Proofs about leader election and the audit ledger that runs under it,   *)
(* for any replicas, events, batch sizes, crashes and failing statements:  *)
(* who may run a job, that the chain verifies and only grows, and that the *)
(* anchors, the sink and verify-audit agree with it.                       *)
(***************************************************************************)
EXTENDS AuditChain, FiniteSetTheorems, TLAPS

\* Most leaves are first-order; the ones that need more name their prover.
USE Zenon

USE DlockAssumption

\* A session whose client is gone keeps its lock, and nobody leads over it.
SeveredInv ==
    \A k \in Jobs : severed[k] => lock[k] # None /\ \A r \in Replicas : ~ Healthy(r, k)

LeaderInv == TypeOKDlock /\ OneHealthyLeader /\ SeveredInv

\* Until a connection breaks, no phase that follows a break is reached.
Unbroken ==
    breaks = 0 =>
        \A k \in Jobs, r \in Replicas : phase[k][r] \in {"idle", "leading", "stopping"}

(***************************************************************************)
(* A change of one replica's phase for one job leaves the others alone.    *)
(***************************************************************************)
LEMMA SetPhaseEffect ==
  ASSUME TypeOKDlock, NEW r \in Replicas, NEW k \in Jobs, NEW p \in Phases, SetPhase(r, k, p)
  PROVE  /\ phase' \in [Jobs -> [Replicas -> Phases]]
         /\ \A j \in Jobs, q \in Replicas :
               phase'[j][q] = IF j = k /\ q = r THEN p ELSE phase[j][q]
BY DEF TypeOKDlock, SetPhase

(***************************************************************************)
(* Every step keeps the lock in the hands of the healthy leader.           *)
(***************************************************************************)
LEMMA NextLeader == LeaderInv /\ [NextDlock]_dlockVars => LeaderInv'
<1> SUFFICES ASSUME LeaderInv, [NextDlock]_dlockVars PROVE LeaderInv'
  OBVIOUS
<1> USE DEF LeaderInv, OneHealthyLeader, SeveredInv, Healthy
<1>1. ASSUME NEW r \in Replicas, NEW k \in Jobs, leadOnce(r, k) PROVE LeaderInv'
  <2>1. /\ phase' \in [Jobs -> [Replicas -> Phases]]
        /\ \A j \in Jobs, q \in Replicas :
              phase'[j][q] = IF j = k /\ q = r THEN "leading" ELSE phase[j][q]
    BY <1>1, SetPhaseEffect, SMT DEF leadOnce, Phases
  <2>2. TypeOKDlock'
    BY <1>1, <2>1 DEF leadOnce, TypeOKDlock
  <2>3. \A j \in Jobs : lock'[j] = IF j = k THEN r ELSE lock[j]
    BY <1>1 DEF leadOnce, TypeOKDlock
  <2> QED
    BY <1>1, <2>1, <2>2, <2>3, SMT DEF leadOnce
<1>2. ASSUME NEW r \in Replicas, NEW k \in Jobs, ConnectionBreaks(r, k) PROVE LeaderInv'
  <2> DEFINE p == IF phase[k][r] = "leading" THEN "deaf" ELSE "stepping"
  <2>1. /\ phase' \in [Jobs -> [Replicas -> Phases]]
        /\ \A j \in Jobs, q \in Replicas :
              phase'[j][q] = IF j = k /\ q = r THEN p ELSE phase[j][q]
    BY <1>2, SetPhaseEffect, SMT DEF ConnectionBreaks, Phases
  <2>2. TypeOKDlock'
    <3>1. breaks' \in 0..MaxBreaks
      BY <1>2, SMT DEF ConnectionBreaks, TypeOKDlock
    <3>2. severed' \in [Jobs -> BOOLEAN]
      BY <1>2 DEF ConnectionBreaks, TypeOKDlock
    <3> QED
      BY <1>2, <2>1, <3>1, <3>2 DEF ConnectionBreaks, TypeOKDlock
  <2>3. \A j \in Jobs : severed'[j] => severed[j] \/ j = k
    BY <1>2 DEF ConnectionBreaks, TypeOKDlock
  <2>4. lock' = lock /\ lock[k] = r
    BY <1>2 DEF ConnectionBreaks
  <2>5. p \notin {"leading", "stopping"}
    OBVIOUS
  <2> HIDE DEF p
  <2>6. OneHealthyLeader'
    BY <2>1, <2>4, <2>5, SMT
  <2>7. SeveredInv'
    BY <2>1, <2>3, <2>4, <2>5, SMT
  <2> QED
    BY <2>2, <2>6, <2>7
<1>3. ASSUME NEW r \in Replicas, NEW k \in Jobs, PingFails(r, k) PROVE LeaderInv'
  <2>1. /\ phase' \in [Jobs -> [Replicas -> Phases]]
        /\ \A j \in Jobs, q \in Replicas :
              phase'[j][q] = IF j = k /\ q = r THEN "stepping" ELSE phase[j][q]
    BY <1>3, SetPhaseEffect, SMT DEF PingFails, Phases
  <2>2. TypeOKDlock'
    BY <1>3, <2>1 DEF PingFails, TypeOKDlock
  <2> QED
    BY <1>3, <2>1, <2>2, SMT DEF PingFails
<1>4. ASSUME NEW r \in Replicas, NEW k \in Jobs, runReturns(r, k) PROVE LeaderInv'
  <2>1. /\ phase' \in [Jobs -> [Replicas -> Phases]]
        /\ \A j \in Jobs, q \in Replicas :
              phase'[j][q] = IF j = k /\ q = r THEN "idle" ELSE phase[j][q]
    BY <1>4, SetPhaseEffect, SMT DEF runReturns, Phases
  <2>2. TypeOKDlock'
    BY <1>4, <2>1 DEF runReturns, TypeOKDlock
  <2>3. CASE Healthy(r, k)
    <3>1. \A j \in Jobs : lock'[j] = IF j = k THEN None ELSE lock[j]
      BY <1>4, <2>3 DEF runReturns, TypeOKDlock
    <3>2. lock[k] = r /\ ~ severed[k]
      BY <2>3
    <3> QED
      BY <1>4, <2>1, <2>2, <3>1, <3>2, SMT DEF runReturns
  <2>4. CASE ~ Healthy(r, k)
    BY <1>4, <2>1, <2>2, <2>4, SMT DEF runReturns
  <2> QED
    BY <2>3, <2>4
<1>5. ASSUME NEW k \in Jobs, SessionEnds(k) PROVE LeaderInv'
  <2>1. \A j \in Jobs : lock'[j] = IF j = k THEN None ELSE lock[j]
    BY <1>5 DEF SessionEnds, TypeOKDlock
  <2>2. \A j \in Jobs : severed'[j] => severed[j] /\ j # k
    BY <1>5 DEF SessionEnds, TypeOKDlock
  <2>3. TypeOKDlock'
    BY <1>5 DEF SessionEnds, TypeOKDlock
  <2> QED
    BY <1>5, <2>1, <2>2, <2>3 DEF SessionEnds
<1>6. ASSUME NEW r \in Replicas, Shutdown(r) PROVE LeaderInv'
  <2>1. \A j \in Jobs, q \in Replicas :
            phase'[j][q] = IF q # r THEN phase[j][q]
                           ELSE CASE phase[j][r] = "leading" -> "stopping"
                                  [] phase[j][r] = "deaf" -> "stepping"
                                  [] OTHER -> phase[j][r]
    BY <1>6 DEF Shutdown, TypeOKDlock
  <2>2. TypeOKDlock'
    BY <1>6, SMT DEF Shutdown, TypeOKDlock, Phases
  <2>3. \A j \in Jobs, q \in Replicas : Healthy(q, j)' <=> Healthy(q, j)
    BY <2>1, SMT DEF TypeOKDlock, Phases
  <2> QED
    BY <1>6, <2>2, <2>3 DEF Shutdown
<1>7. ASSUME NEW r \in Replicas, Crash(r) PROVE LeaderInv'
  <2>1. \A j \in Jobs, q \in Replicas : phase'[j][q] = IF q = r THEN "idle" ELSE phase[j][q]
    BY <1>7 DEF Crash, TypeOKDlock
  <2>2. TypeOKDlock'
    <3>1. phase' \in [Jobs -> [Replicas -> Phases]] /\ crashes' \in 0..MaxCrashes
      BY <1>7, SMT DEF Crash, TypeOKDlock, Phases
    <3>2. severed' \in [Jobs -> BOOLEAN]
      BY <1>7 DEF Crash, TypeOKDlock
    <3> QED
      BY <1>7, <3>1, <3>2 DEF Crash, TypeOKDlock
  <2>3. \A j \in Jobs : severed'[j] => severed[j] \/ lock[j] = r
    BY <1>7 DEF Crash
  <2> QED
    BY <1>7, <2>1, <2>2, <2>3, SMT DEF Crash
<1>8. CASE UNCHANGED dlockVars
  BY <1>8 DEF dlockVars, TypeOKDlock
<1> QED
  BY <1>1, <1>2, <1>3, <1>4, <1>5, <1>6, <1>7, <1>8 DEF NextDlock

(***************************************************************************)
(* Nobody leads at first.                                                  *)
(***************************************************************************)
LEMMA InitLeader == InitDlock => LeaderInv
BY SMT DEF InitDlock, LeaderInv, TypeOKDlock, OneHealthyLeader, SeveredInv, Healthy, Phases

(***************************************************************************)
(* A replica that leads over a working connection holds the advisory lock, *)
(* however sessions end, connections break and processes crash.            *)
(***************************************************************************)
THEOREM OneHealthyLeaderTheorem == SpecDlock => [](TypeOKDlock /\ OneHealthyLeader)
<1>1. LeaderInv => TypeOKDlock /\ OneHealthyLeader
  BY DEF LeaderInv
<1> QED
  BY <1>1, InitLeader, NextLeader, PTL DEF SpecDlock

(***************************************************************************)
(* A set without two elements has at most one.                             *)
(***************************************************************************)
LEMMA AtMostOne ==
  ASSUME NEW S, \A x, y \in S : x = y
  PROVE  Cardinality(S) <= 1
<1>1. CASE S = {}
  BY <1>1, FS_EmptySet, SMT
<1>2. CASE S # {}
  <2>1. PICK x : x \in S
    BY <1>2
  <2>2. S = {x}
    BY <2>1
  <2>3. Cardinality({x}) = 1
    BY FS_Singleton
  <2> QED
    BY <2>2, <2>3, SMT
<1> QED
  BY <1>1, <1>2

(***************************************************************************)
(* Only a broken connection makes a leader deaf to the end of its lock.    *)
(***************************************************************************)
LEMMA UnbrokenOn == LeaderInv /\ Unbroken /\ [NextDlock]_dlockVars => Unbroken'
<1> SUFFICES ASSUME LeaderInv, Unbroken, [NextDlock]_dlockVars PROVE Unbroken'
  OBVIOUS
<1>0. TypeOKDlock
  BY DEF LeaderInv
<1>1. ASSUME NEW r \in Replicas, NEW k \in Jobs, leadOnce(r, k) \/ runReturns(r, k)
      PROVE  Unbroken'
  BY <1>0, <1>1, SetPhaseEffect, SMT DEF leadOnce, runReturns, Unbroken, Phases
<1>2. ASSUME NEW r \in Replicas, NEW k \in Jobs, ConnectionBreaks(r, k) \/ PingFails(r, k)
      PROVE  Unbroken'
  BY <1>0, <1>2, SMT DEF ConnectionBreaks, PingFails, Unbroken, TypeOKDlock
<1>3. ASSUME NEW r \in Replicas, Shutdown(r) PROVE Unbroken'
  BY <1>0, <1>3 DEF Shutdown, Unbroken, TypeOKDlock
<1>4. ASSUME NEW r \in Replicas, Crash(r) PROVE Unbroken'
  BY <1>0, <1>4 DEF Crash, Unbroken, TypeOKDlock
<1>5. ASSUME NEW k \in Jobs, SessionEnds(k) PROVE Unbroken'
  BY <1>5 DEF SessionEnds, Unbroken
<1>6. CASE UNCHANGED dlockVars
  BY <1>6 DEF dlockVars, Unbroken
<1> QED
  BY <1>1, <1>2, <1>3, <1>4, <1>5, <1>6 DEF NextDlock

(***************************************************************************)
(* "a single-writer background job runs on exactly one replica at a time": *)
(* true, through crashes and shutdowns, until a lock connection breaks     *)
(* under a live leader.                                                    *)
(***************************************************************************)
THEOREM RunsOnOneReplicaTheorem == SpecDlock => []RunsOnOneReplica
<1>1. InitDlock => Unbroken
  BY SMT DEF InitDlock, Unbroken
<1>3. LeaderInv /\ Unbroken => RunsOnOneReplica
  <2> SUFFICES ASSUME LeaderInv, Unbroken, breaks = 0, NEW k \in Jobs
               PROVE  Cardinality(Running(k)) <= 1
    BY DEF RunsOnOneReplica
  <2>1. \A q, r \in Running(k) : q = r
    BY SMT DEF LeaderInv, Unbroken, OneHealthyLeader, Healthy, Running
  <2> QED
    BY <2>1, AtMostOne
<1> QED
  BY <1>1, <1>3, InitLeader, NextLeader, UnbrokenOn, PTL DEF SpecDlock

-----------------------------------------------------------------------------
(* The ledger.                                                             *)

\* What a hash commits to is the whole chain up to it, so every hash of a row, a
\* checkpoint or a pass is a prefix of the head's.
Links == Nat \X Events

Prefix(h, n) == [i \in 1..n |-> h[i]]

CaptureInv == captured \subseteq Events /\ pending \subseteq captured /\ faults \in 0..MaxFaults

ChainInv ==
    /\ head \in [seq : Nat, hash : Seq(Links)]
    /\ Len(head.hash) = head.seq
    /\ \A s \in 1..head.seq : head.hash[s][1] = s
    /\ floor.seq \in 0..head.seq
    /\ floor.prev = Prefix(head.hash, floor.seq)
    /\ DOMAIN entries = (floor.seq + 1)..head.seq
    /\ \A s \in DOMAIN entries :
          /\ entries[s].prev = Prefix(head.hash, s - 1)
          /\ entries[s].hash = Prefix(head.hash, s)
          /\ entries[s].payload = head.hash[s][2]

Labels ==
    [chainer |-> {"idle", "head", "insert", "commit"},
     anchorer |-> {"idle", "entries", "prev", "put", "commit"},
     pruner |-> {"idle", "boundary", "commit"}]

\* The locals that are passed on with another label.
Shaped(c) ==
    /\ c.pc = "insert" => c = [pc |-> "insert", batch |-> c.batch, head |-> c.head]
    /\ c.pc = "put" => c = [pc |-> "put", anchor |-> c.anchor]

\* Only a replica that leads is in the middle of a pass.
JobInv ==
    /\ job = [k \in Jobs |-> [r \in Replicas |-> job[k][r]]]
    /\ \A k \in Jobs, r \in Replicas :
          /\ job[k][r].pc \in Labels[k] /\ Shaped(job[k][r])
          /\ job[k][r].pc # "idle" => phase[k][r] # "idle"

IsBatch(b) ==
    /\ b \in Seq(Events) /\ b # <<>>
    /\ \A i, j \in 1..Len(b) : b[i] = b[j] => i = j

\* The locals of a chaining pass.  Its head was the chain's once, and still is when it
\* has inserted its first row.
ChainerPass(r) ==
    LET c == job["chainer"][r] IN
    /\ c.pc # "idle" => IsBatch(c.batch)
    /\ c.pc \in {"insert", "commit"} =>
          /\ c.head = [seq |-> c.head.seq, hash |-> Prefix(head.hash, c.head.seq)]
          /\ c.head.seq \in floor.seq..head.seq
    /\ c.pc = "commit" =>
          /\ c.head.seq = head.seq
          /\ \A q \in Replicas : At(q, "chainer", "commit") => q = r

ChainerInv == "chainer" \in Jobs => \A r \in Replicas : ChainerPass(r)

\* What is pruned has been chained, and nobody is about to insert below it.
PruneSafe ==
    \A r \in Replicas :
        At(r, "pruner", "commit") =>
            LET p == job["pruner"][r] IN
            /\ p.through \in floor.seq..head.seq
            /\ p.prev = Prefix(head.hash, p.through)
            /\ \A q \in Replicas :
                  At(q, "chainer", "insert") => p.through <= job["chainer"][q].head.seq

-----------------------------------------------------------------------------
(* While each job runs on one replica.                                     *)

Payloads == {head.hash[i][2] : i \in 1..head.seq}

\* The batch of the one chainer is still pending, and the head it read still the head.
Draining(c) ==
    /\ c.pc # "idle" => Range(c.batch) \subseteq pending
    /\ c.pc = "insert" => c.head.seq = head.seq

EventsInv ==
    /\ Payloads \subseteq captured
    /\ pending = captured \ Payloads
    /\ \A i, j \in 1..head.seq : head.hash[i][2] = head.hash[j][2] => i = j
    /\ "chainer" \in Jobs => \A r \in Replicas : Draining(job["chainer"][r])

\* A span of the chain with the hashes of its entries.
Spans(a) ==
    /\ a.from \in 1..head.seq
    /\ a.to \in a.from..head.seq
    /\ a.root = [i \in 1..(a.to - a.from + 1) |-> Prefix(head.hash, a.from + i - 1)]

\* It starts the chain of anchors, or continues one.
Follows(a) ==
    a.from = 1 \/ \E b \in anchors : b.to + 1 = a.from /\ a.prev = AnchorHash(b)

AnchorInv ==
    /\ \A a \in anchors \cup sink : Spans(a)
    /\ \A a \in anchors : Follows(a)
    /\ \A a, b \in anchors : a = b \/ a.to < b.from \/ b.to < a.from
    /\ \E t \in {0} \cup {a.to : a \in anchors} : \A a \in anchors : a.to <= t
    /\ floor.seq = 0 \/ \E b \in anchors : b.to = floor.seq

\* At least as wide as what an earlier pass may have left in the sink.
Widest(a) == \A b \in sink : b.from = LastTo + 1 => b.to <= a.to

\* The locals of an anchoring pass: the next anchor, as far as it is known.
Anchoring(c) ==
    /\ c.pc = "entries" => c.last = LastTo
    /\ c.pc = "prev" => Spans(c) /\ c.from = LastTo + 1 /\ Widest(c)
    /\ c.pc \in {"put", "commit"} =>
          /\ Spans(c.anchor) /\ c.anchor.from = LastTo + 1 /\ Widest(c.anchor)
          /\ Follows(c.anchor)
    /\ c.pc = "commit" /\ SinkOn => c.anchor \in sink

\* A pruning pass cuts at the end of an anchor, above the floor.
Pruning(p) ==
    /\ p.pc = "boundary" => \E a \in anchors : a.to = p.cutoff
    /\ p.pc = "commit" =>
          /\ \E a \in anchors : a.to = p.through
          /\ p.through > floor.seq
          /\ p.prev = Prefix(head.hash, p.through)

PassInv ==
    /\ "anchorer" \in Jobs => \A r \in Replicas : Anchoring(job["anchorer"][r])
    /\ "pruner" \in Jobs => \A r \in Replicas : Pruning(job["pruner"][r])

\* Every anchor a verification has left to visit is preceded by another or is next.
Walk(w) ==
    /\ w.from \in Nat
    /\ w.left \subseteq anchors
    /\ \A a \in w.left : /\ w.from <= a.from /\ floor.seq < a.from
                         /\ a.from = w.from \/ \E b \in w.left : b.to + 1 = a.from
    /\ w.prev = NoHash \/ \E b \in anchors : b.to + 1 = w.from /\ w.prev = AnchorHash(b)

\* Until something is pruned behind its back a verification meets what it expects.
Verifying(w) ==
    /\ w.pc \in {"chain", "anchors", "ranges"} => w.floor \in 0..floor.seq
    /\ w.pc = "chain" =>
          w = [pc |-> w.pc, floor |-> w.floor, cursor |-> w.cursor, prev |-> w.prev]
    /\ w.pc = "chain" /\ w.floor = floor.seq =>
          w.cursor \in floor.seq..head.seq /\ w.prev = Prefix(head.hash, w.cursor)
    /\ w.pc = "ranges" =>
          w = [pc |-> w.pc, floor |-> w.floor, from |-> w.from, prev |-> w.prev, left |-> w.left]
    /\ w.pc = "ranges" /\ w.floor = floor.seq => Walk(w)
    /\ w.pc = "database" => SinkOn
    /\ w.pc = "sink" \/ (w.pc = "alarm" /\ w.check = "sink") =>
          /\ w.anchors \subseteq anchors /\ w.anchors \subseteq sink
          /\ \A a \in sink : covers(w.anchors, a) \/ \A b \in w.anchors : a.from > b.to
    /\ w.pc = "alarm" /\ w.check # "sink" => w.floor \in Nat /\ w.floor < floor.seq
    /\ w.pc \in {"idle", "chain", "anchors", "ranges", "database", "sink", "ok", "alarm"}

VerifierInv == verifier = [v \in Verifiers |-> verifier[v]] /\ \A v \in Verifiers : Verifying(verifier[v])

SoleInv == EventsInv /\ AnchorInv /\ SinkReconciles /\ PassInv /\ VerifierInv

\* The inductive invariant.  Two pruners, or a chainer and a pruner of different ages,
\* could undo what the chain's own keys protect, so what follows the chain needs them alone.
LedgerInv ==
    /\ LeaderInv /\ Unbroken /\ JobInv /\ CaptureInv
    /\ breaks = 0 \/ "pruner" \notin Jobs => ChainInv /\ ChainerInv
    /\ breaks = 0 => SoleInv

-----------------------------------------------------------------------------
(* Jobs and replicas.                                                      *)

(***************************************************************************)
(* A step of the ledger is a step of the election, or leaves it alone.     *)
(***************************************************************************)
LEMMA NextElects == [Next]_vars => [NextDlock]_dlockVars
<1> SUFFICES ASSUME [Next]_vars PROVE NextDlock \/ UNCHANGED dlockVars
  OBVIOUS
<1>1. ASSUME NEW e \in Events, Capture(e) PROVE UNCHANGED dlockVars
  BY <1>1 DEF Capture
<1>2. ASSUME NEW r \in Replicas, ChainerStep(r) PROVE UNCHANGED dlockVars
  BY <1>2 DEF ChainerStep, ChainerSelect, ChainerHead, ChainerInsert, ProcessBatch
<1>3. ASSUME NEW r \in Replicas, AnchorerStep(r) PROVE UNCHANGED dlockVars
  BY <1>3 DEF AnchorerStep, AnchorLast, AnchorEntries, AnchorPrev, SinkPut, AnchorCreate
<1>4. ASSUME NEW r \in Replicas, PrunerStep(r) PROVE UNCHANGED dlockVars
  BY <1>4 DEF PrunerStep, PruneChainsBefore, PruneBoundary, PruneChain
<1>5. ASSUME NEW v \in Verifiers, VerifierStep(v) PROVE UNCHANGED dlockVars
  BY <1>5 DEF VerifierStep, LoadCheckpoint, VerifyChainFrom, VerifyAnchorsList, VerifyAnchorsFrom,
              VerifySinkDatabase, VerifyAnchorsWithSinkFrom, VerifierOnly
<1>6. ASSUME NEW r \in Replicas, NEW k \in Jobs, PassFails(r, k) PROVE UNCHANGED dlockVars
  BY <1>6 DEF PassFails
<1>7. ASSUME NEW r \in Replicas, CrashReplica(r) PROVE NextDlock
  BY <1>7 DEF CrashReplica, NextDlock
<1>8. CASE Election
  BY <1>8 DEF Election, NextDlock
<1>9. CASE UNCHANGED vars
  BY <1>9 DEF vars
<1> QED
  BY <1>1, <1>2, <1>3, <1>4, <1>5, <1>6, <1>7, <1>8, <1>9 DEF Next

(***************************************************************************)
(* A pass moves on one replica and for one job.                            *)
(***************************************************************************)
LEMMA GoEffect ==
  ASSUME JobInv, NEW r \in Replicas, NEW k \in Jobs, NEW locals, Go(r, k, locals)
  PROVE  /\ job' = [j \in Jobs |-> [q \in Replicas |-> job'[j][q]]]
         /\ \A j \in Jobs, q \in Replicas :
               job'[j][q] = IF j = k /\ q = r THEN locals ELSE job[j][q]
<1> DEFINE J == [j \in Jobs |-> [q \in Replicas |-> job[j][q]]]
<1>1. job = J
  BY DEF JobInv
<1>2. job' = [J EXCEPT ![k] = [J[k] EXCEPT ![r] = locals]]
  BY <1>1 DEF Go
<1> QED
  BY <1>1, <1>2

(***************************************************************************)
(* A pass goes on only where it has begun, or under a live context.        *)
(***************************************************************************)
LEMMA GoKeepsJobs ==
  ASSUME JobInv, NEW r \in Replicas, NEW k \in Jobs, NEW locals, Go(r, k, locals),
         locals.pc \in Labels[k], Shaped(locals), locals.pc = "idle" \/ phase[k][r] # "idle", UNCHANGED dlockVars
  PROVE  JobInv'
<1>1. phase' = phase
  BY DEF dlockVars
<1> QED
  BY <1>1, GoEffect, SMT DEF JobInv

(***************************************************************************)
(* A replica at work leads, as far as it knows.                            *)
(***************************************************************************)
LEMMA AtWork ==
  ASSUME JobInv, NEW r \in Replicas, NEW k \in Jobs, NEW l
  PROVE  /\ Begins(r, k) => phase[k][r] # "idle"
         /\ At(r, k, l) /\ l # "idle" => phase[k][r] # "idle"
         /\ Proceeds(r, k, l) => At(r, k, l)
BY DEF JobInv, Begins, Live, At, Proceeds

(***************************************************************************)
(* The jobs and the labels of their passes.                                *)
(***************************************************************************)
LEMMA KnownJobs ==
  ASSUME NEW k \in Jobs
  PROVE  /\ Labels[k] = CASE k = "chainer" -> {"idle", "head", "insert", "commit"}
                          [] k = "anchorer" -> {"idle", "entries", "prev", "put", "commit"}
                          [] k = "pruner" -> {"idle", "boundary", "commit"}
         /\ Idle.pc = "idle" /\ Idle.pc \in Labels[k] /\ Shaped(Idle)
BY AuditAssumption, SMT DEF Labels, Idle, Shaped

(***************************************************************************)
(* Passes keep their labels, and only a replica that leads is in one.      *)
(***************************************************************************)
LEMMA NextJobs ==
  ASSUME LeaderInv, JobInv, [Next]_vars
  PROVE  JobInv'
<1> USE DEF dlockVars
<1>0. TypeOKDlock
  BY DEF LeaderInv
<1>1. ASSUME NEW e \in Events, Capture(e) PROVE JobInv'
  BY <1>1 DEF Capture, JobInv
<1>2. ASSUME NEW r \in Replicas, ChainerStep(r) PROVE JobInv'
  <2>0. "chainer" \in Jobs
    BY <1>2 DEF ChainerStep, ChainerSelect, ChainerHead, ChainerInsert, ProcessBatch, Begins, Proceeds, At
  <2>1. CASE ChainerSelect(r)
    <3>1. PICK b : Go(r, "chainer", [pc |-> "head", batch |-> b])
      BY <2>1 DEF ChainerSelect
    <3> QED
      BY <2>0, <2>1, <3>1, AtWork, KnownJobs, GoKeepsJobs DEF ChainerSelect, Shaped
  <2>2. CASE ChainerHead(r)
    BY <2>0, <2>2, AtWork, KnownJobs, GoKeepsJobs DEF ChainerHead, Shaped
  <2>3. CASE ChainerInsert(r)
    <3> DEFINE c == job["chainer"][r]
    <3>1. CASE Go(r, "chainer", Idle)
      BY <2>0, <2>3, <3>1, KnownJobs, GoKeepsJobs DEF ChainerInsert
    <3>2. CASE Go(r, "chainer", [c EXCEPT !.pc = "commit"])
      <4>1. phase["chainer"][r] # "idle" /\ c.pc = "insert" /\ Shaped(c)
        BY <2>0, <2>3, AtWork DEF ChainerInsert, At, JobInv
      <4>2. [c EXCEPT !.pc = "commit"].pc = "commit"
        BY <4>1 DEF Shaped
      <4> QED
        BY <2>0, <2>3, <3>2, <4>1, <4>2, KnownJobs, GoKeepsJobs DEF ChainerInsert, Shaped
    <3> QED
      BY <2>3, <3>1, <3>2 DEF ChainerInsert
  <2>4. CASE ProcessBatch(r)
    BY <2>0, <2>4, KnownJobs, GoKeepsJobs DEF ProcessBatch
  <2> QED
    BY <1>2, <2>1, <2>2, <2>3, <2>4 DEF ChainerStep
<1>3. ASSUME NEW r \in Replicas, AnchorerStep(r) PROVE JobInv'
  <2>0. "anchorer" \in Jobs
    BY <1>3 DEF AnchorerStep, AnchorLast, AnchorEntries, AnchorPrev, SinkPut, AnchorCreate, Begins, Proceeds, At
  <2>1. CASE AnchorLast(r)
    BY <2>0, <2>1, AtWork, KnownJobs, GoKeepsJobs DEF AnchorLast, Shaped
  <2>2. CASE AnchorEntries(r)
    <3>1. phase["anchorer"][r] # "idle"
      BY <2>0, <2>2, AtWork DEF AnchorEntries
    <3>2. CASE Go(r, "anchorer", Idle)
      BY <2>0, <2>2, <3>2, KnownJobs, GoKeepsJobs DEF AnchorEntries
    <3>3. CASE \E f, t, h : Go(r, "anchorer", [pc |-> "prev", from |-> f, to |-> t, root |-> h])
      <4>1. PICK f, t, h : Go(r, "anchorer", [pc |-> "prev", from |-> f, to |-> t, root |-> h])
        BY <3>3
      <4> QED
        BY <2>0, <2>2, <3>1, <4>1, KnownJobs, GoKeepsJobs DEF AnchorEntries, Shaped
    <3> QED
      BY <2>2, <3>2, <3>3 DEF AnchorEntries
  <2>3. CASE AnchorPrev(r)
    <3>1. PICK a : Go(r, "anchorer", [pc |-> "put", anchor |-> a])
      BY <2>3 DEF AnchorPrev
    <3> QED
      BY <2>0, <2>3, <3>1, AtWork, KnownJobs, GoKeepsJobs DEF AnchorPrev, Shaped
  <2>4. CASE SinkPut(r)
    <3> DEFINE c == job["anchorer"][r]
    <3>1. phase["anchorer"][r] # "idle" /\ c.pc = "put" /\ Shaped(c)
      BY <2>0, <2>4, AtWork DEF SinkPut, At, JobInv
    <3>2. [c EXCEPT !.pc = "commit"].pc = "commit"
      BY <3>1 DEF Shaped
    <3> QED
      BY <2>0, <2>4, <3>1, <3>2, KnownJobs, GoKeepsJobs DEF SinkPut, Shaped
  <2>5. CASE AnchorCreate(r)
    BY <2>0, <2>5, KnownJobs, GoKeepsJobs DEF AnchorCreate
  <2> QED
    BY <1>3, <2>1, <2>2, <2>3, <2>4, <2>5 DEF AnchorerStep
<1>4. ASSUME NEW r \in Replicas, PrunerStep(r) PROVE JobInv'
  <2>0. "pruner" \in Jobs
    BY <1>4 DEF PrunerStep, PruneChainsBefore, PruneBoundary, PruneChain, Begins, Proceeds, At
  <2>1. CASE PruneChainsBefore(r)
    <3>1. PICK t : Go(r, "pruner", [pc |-> "boundary", cutoff |-> t])
      BY <2>1 DEF PruneChainsBefore
    <3> QED
      BY <2>0, <2>1, <3>1, AtWork, KnownJobs, GoKeepsJobs DEF PruneChainsBefore, Shaped
  <2>2. CASE PruneBoundary(r)
    <3>1. PICK t : Go(r, "pruner", Boundary(t))
      BY <2>2 DEF PruneBoundary
    <3>2. Boundary(t) = Idle \/ \E p : Boundary(t) = [pc |-> "commit", through |-> t, prev |-> p]
      BY DEF Boundary
    <3> QED
      BY <2>0, <2>2, <3>1, <3>2, AtWork, KnownJobs, GoKeepsJobs, SMT DEF PruneBoundary, Shaped
  <2>3. CASE PruneChain(r)
    BY <2>0, <2>3, KnownJobs, GoKeepsJobs DEF PruneChain
  <2> QED
    BY <1>4, <2>1, <2>2, <2>3 DEF PrunerStep
<1>5. ASSUME NEW v \in Verifiers, VerifierStep(v) PROVE JobInv'
  <2>1. UNCHANGED <<dlockVars, job>>
    BY <1>5 DEF VerifierStep, LoadCheckpoint, VerifyChainFrom, VerifyAnchorsList, VerifyAnchorsFrom,
                VerifySinkDatabase, VerifyAnchorsWithSinkFrom, VerifierOnly
  <2> QED
    BY <2>1 DEF JobInv
<1>6. ASSUME NEW r \in Replicas, NEW k \in Jobs, PassFails(r, k) PROVE JobInv'
  BY <1>6, KnownJobs, GoKeepsJobs DEF PassFails
<1>7. ASSUME NEW r \in Replicas, CrashReplica(r) PROVE JobInv'
  <2>1. \A k \in Jobs, q \in Replicas :
            /\ phase'[k][q] = IF q = r THEN "idle" ELSE phase[k][q]
            /\ job'[k][q] = IF q = r THEN Idle ELSE job[k][q]
    BY <1>0, <1>7 DEF CrashReplica, Crash, TypeOKDlock, JobInv
  <2>2. job' = [k \in Jobs |-> [q \in Replicas |-> job'[k][q]]]
    BY <1>7 DEF CrashReplica, JobInv
  <2> QED
    BY <2>1, <2>2, KnownJobs, SMT DEF JobInv
<1>8. CASE Election
  <2>0. job' = job
    BY <1>8 DEF Election, auditVars
  <2>1. \A k \in Jobs, q \in Replicas :
            phase[k][q] # "idle" => phase'[k][q] # "idle" \/ job[k][q].pc = "idle"
    <3>1. ASSUME NEW r \in Replicas, NEW k \in Jobs,
                 leadOnce(r, k) \/ ConnectionBreaks(r, k) \/ PingFails(r, k)
          PROVE  \A j \in Jobs, q \in Replicas : phase[j][q] # "idle" => phase'[j][q] # "idle"
      BY <1>0, <3>1, SMT DEF leadOnce, ConnectionBreaks, PingFails, SetPhase, TypeOKDlock
    <3>2. ASSUME NEW r \in Replicas, NEW k \in Jobs, At(r, k, "idle"), runReturns(r, k)
          PROVE  \A j \in Jobs, q \in Replicas :
                     phase[j][q] # "idle" => phase'[j][q] # "idle" \/ job[j][q].pc = "idle"
      BY <1>0, <3>2 DEF runReturns, SetPhase, TypeOKDlock, At
    <3>3. ASSUME NEW k \in Jobs, SessionEnds(k) PROVE phase' = phase
      BY <3>3 DEF SessionEnds
    <3>4. ASSUME NEW r \in Replicas, Shutdown(r)
          PROVE  \A j \in Jobs, q \in Replicas : phase[j][q] # "idle" => phase'[j][q] # "idle"
      BY <1>0, <3>4 DEF Shutdown, TypeOKDlock
    <3> QED
      BY <1>8, <3>1, <3>2, <3>3, <3>4 DEF Election
  <2> QED
    BY <2>0, <2>1 DEF JobInv
<1>9. CASE UNCHANGED vars
  BY <1>9 DEF vars, auditVars, JobInv
<1> QED
  BY <1>1, <1>2, <1>3, <1>4, <1>5, <1>6, <1>7, <1>8, <1>9 DEF Next

(***************************************************************************)
(* Until a connection breaks, a job is at work on one replica.             *)
(***************************************************************************)
LEMMA Alone ==
  ASSUME LeaderInv, Unbroken, JobInv, breaks = 0, NEW k \in Jobs, NEW q \in Replicas, NEW r \in Replicas,
         job[k][q].pc # "idle", phase[k][r] # "idle"
  PROVE  q = r
<1>1. Healthy(q, k) /\ Healthy(r, k)
  BY DEF JobInv, Unbroken, Healthy
<1> QED
  BY <1>1 DEF LeaderInv, OneHealthyLeader

-----------------------------------------------------------------------------
(* Hashes of the chain.                                                    *)

(***************************************************************************)
(* A prefix of a chain is a chain, and the whole chain is its own prefix.  *)
(***************************************************************************)
LEMMA PrefixFacts ==
  ASSUME NEW h \in Seq(Links), NEW n \in 0..Len(h)
  PROVE  /\ Prefix(h, n) \in Seq(Links)
         /\ Len(Prefix(h, n)) = n
         /\ \A i \in 1..n : Prefix(h, n)[i] = h[i]
         /\ n = Len(h) => Prefix(h, n) = h
<1>1. Prefix(h, n) \in [1..n -> Links]
  BY SMT DEF Prefix
<1> QED
  BY <1>1, SMT DEF Prefix

(***************************************************************************)
(* The hash of an entry commits to the one before it and to its payload.   *)
(***************************************************************************)
LEMMA PrefixEntry ==
  ASSUME NEW h \in Seq(Links), NEW s \in 1..Len(h), h[s][1] = s
  PROVE  ComputeEntryHash(s, Prefix(h, s - 1), h[s][2]) = Prefix(h, s)
<1>1. h[s] = <<s, h[s][2]>> /\ h[s] \in Links
  BY SMT DEF Links
<1>2. /\ Prefix(h, s - 1) \in Seq(Links) /\ Len(Prefix(h, s - 1)) = s - 1
      /\ \A i \in 1..(s - 1) : Prefix(h, s - 1)[i] = h[i]
  BY PrefixFacts, SMT
<1>3. /\ Prefix(h, s) \in Seq(Links) /\ Len(Prefix(h, s)) = s
      /\ \A i \in 1..s : Prefix(h, s)[i] = h[i]
  BY PrefixFacts, SMT
<1> DEFINE A == Append(Prefix(h, s - 1), <<s, h[s][2]>>)
<1>4. A \in Seq(Links) /\ Len(A) = s
  BY <1>1, <1>2, SMT
<1>5. \A i \in 1..s : A[i] = h[i]
  BY <1>1, <1>2, SMT
<1>6. A = Prefix(h, s)
  BY <1>3, <1>4, <1>5, SMT
<1> QED
  BY <1>6 DEF ComputeEntryHash

(***************************************************************************)
(* Chains of one length with the same links are the same prefix.           *)
(***************************************************************************)
LEMMA SamePrefix ==
  ASSUME NEW h \in Seq(Links), NEW n \in 0..Len(h), NEW g \in Seq(Links), Len(g) = n,
         \A s \in 1..n : g[s] = h[s]
  PROVE  g = Prefix(h, n)
BY PrefixFacts, SMT

(***************************************************************************)
(* A chain and its extension.                                              *)
(***************************************************************************)
LEMMA Extended ==
  ASSUME NEW h \in Seq(Links), NEW E \in Seq(Links)
  PROVE  /\ h \o E \in Seq(Links)
         /\ Len(h \o E) = Len(h) + Len(E)
         /\ \A s \in 1..(Len(h) + Len(E)) :
               (h \o E)[s] = IF s <= Len(h) THEN h[s] ELSE E[s - Len(h)]
BY SMT

(***************************************************************************)
(* What ProcessBatch commits: chainOne extends the chain by the batch, one *)
(* row at a time, so that the old chain is a prefix of the new one, and    *)
(* every new row carries the prefixes that end in it.                      *)
(***************************************************************************)
LEMMA ChainedRows ==
  ASSUME NEW c, c.head.hash \in Seq(Links), Len(c.head.hash) = c.head.seq,
         c.batch \in Seq(Events), c.batch # <<>>
  PROVE  LET n == c.head.seq
             m == Len(c.batch)
             rows == chainOne(c)
             H == HashAfter(c, m)
         IN /\ Len(rows) = m
            /\ ChainedHead(c, rows) = [seq |-> n + m, hash |-> H]
            /\ H \in Seq(Links) /\ Len(H) = n + m
            /\ \A s \in 1..n : H[s] = c.head.hash[s]
            /\ \A s \in (n + 1)..(n + m) : H[s] = <<s, c.batch[s - n]>>
            /\ \A i \in 1..m : /\ rows[i].prev = Prefix(H, n + i - 1)
                               /\ rows[i].hash = Prefix(H, n + i)
                               /\ rows[i].payload = c.batch[i]
            /\ \A s \in 0..n : Prefix(H, s) = Prefix(c.head.hash, s)
<1>a. PICK h \in Seq(Links) : h = c.head.hash
  OBVIOUS
<1>b. PICK b \in Seq(Events) : b = c.batch
  OBVIOUS
<1>c. PICK n \in Nat : n = c.head.seq /\ Len(h) = n
  BY <1>a, SMT
<1>d. PICK m \in Nat \ {0} : m = Len(b)
  BY <1>b, SMT
<1> DEFINE rows == chainOne(c)
           A(i) == h \o [j \in 1..i |-> <<n + j, b[j]>>]
<1>1. \A i : HashAfter(c, i) = A(i)
  BY <1>a, <1>b, <1>c DEF HashAfter
<1>2. \A i \in 0..m :
          /\ A(i) \in Seq(Links) /\ Len(A(i)) = n + i
          /\ \A s \in 1..(n + i) : A(i)[s] = IF s <= n THEN h[s] ELSE <<s, b[s - n]>>
  <2>1. ASSUME NEW i \in 0..m
        PROVE  /\ A(i) \in Seq(Links) /\ Len(A(i)) = n + i
               /\ \A s \in 1..(n + i) : A(i)[s] = IF s <= n THEN h[s] ELSE <<s, b[s - n]>>
    <3>0. PICK E : E = [j \in 1..i |-> <<n + j, b[j]>>]
      OBVIOUS
    <3>1. \A j \in 1..i : j \in Nat /\ b[j] \in Events
      BY <1>d, SMT
    <3>2. E \in [1..i -> Links]
      BY <3>0, <3>1, SMT DEF Links
    <3>3. E \in Seq(Links) /\ Len(E) = i /\ \A j \in 1..i : E[j] = <<n + j, b[j]>>
      BY <3>0, <3>2, SMT
    <3>4. A(i) = h \o E
      BY <3>0
    <3> HIDE DEF A
    <3>5. h \o E \in Seq(Links) /\ Len(h \o E) = n + i
      BY <1>c, <3>3, Extended
    <3>6. ASSUME NEW s \in 1..(n + i)
          PROVE  (h \o E)[s] = IF s <= n THEN h[s] ELSE <<s, b[s - n]>>
      <4>0. E \in Seq(Links) /\ s \in 1..(Len(h) + Len(E))
        BY <1>c, <3>3
      <4>1. (h \o E)[s] = IF s <= Len(h) THEN h[s] ELSE E[s - Len(h)]
        BY <4>0, Extended
      <4>2. ~ (s <= n) => s - n \in 1..i /\ n + (s - n) = s
        BY SMT
      <4> QED
        BY <1>c, <3>3, <4>1, <4>2
    <3> QED
      BY <3>4, <3>5, <3>6
  <2> QED
    BY <2>1
<1>3. rows = [i \in 1..m |->
                [prev |-> A(i - 1), payload |-> b[i], hash |-> ComputeEntryHash(n + i, A(i - 1), b[i])]]
  BY <1>1, <1>b, <1>c, <1>d DEF chainOne
<1>4. Len(rows) = m
  BY <1>3, SMT
<1> DEFINE H == A(m)
<1>5. /\ H \in Seq(Links) /\ Len(H) = n + m
      /\ \A s \in 1..(n + m) : H[s] = IF s <= n THEN h[s] ELSE <<s, b[s - n]>>
  <2>1. m \in 0..m
    BY SMT
  <2> QED
    BY <1>2, <2>1
<1> HIDE DEF A, H
<1>6. ASSUME NEW i \in 0..m PROVE A(i) = Prefix(H, n + i)
  <2> DEFINE G == A(i)
  <2>1. /\ G \in Seq(Links) /\ Len(G) = n + i
        /\ \A s \in 1..(n + i) : G[s] = IF s <= n THEN h[s] ELSE <<s, b[s - n]>>
    BY <1>2
  <2> HIDE DEF G
  <2>2. n + i \in 0..Len(H) /\ \A s \in 1..(n + i) : s \in 1..(n + m)
    BY <1>5, SMT
  <2>3. \A s \in 1..(n + i) : G[s] = H[s]
    BY <1>5, <2>1, <2>2
  <2>4. G = Prefix(H, n + i)
    BY <1>5, <2>1, <2>2, <2>3, SamePrefix
  <2> QED
    BY <2>4 DEF G
<1>7. ASSUME NEW i \in 1..m
      PROVE  /\ rows[i].prev = Prefix(H, n + i - 1)
             /\ rows[i].hash = Prefix(H, n + i)
             /\ rows[i].payload = b[i]
  <2>1. rows[i] = [prev |-> A(i - 1), payload |-> b[i], hash |-> ComputeEntryHash(n + i, A(i - 1), b[i])]
    BY <1>3
  <2>2. A(i - 1) = Prefix(H, n + i - 1)
    <3>1. i - 1 \in 0..m /\ n + (i - 1) = n + i - 1
      BY SMT
    <3> QED
      BY <1>6, <3>1
  <2>3. n + i \in 1..Len(H) /\ H[n + i] = <<n + i, b[i]>>
    <3>1. n + i \in 1..(n + m) /\ ~ (n + i <= n) /\ (n + i) - n = i
      BY SMT
    <3> QED
      BY <1>5, <3>1
  <2>4. ComputeEntryHash(n + i, Prefix(H, n + i - 1), b[i]) = Prefix(H, n + i)
    <3> DEFINE t == n + i
    <3>1. H \in Seq(Links) /\ t \in 1..Len(H) /\ H[t][1] = t /\ H[t][2] = b[i]
      BY <1>5, <2>3, SMT
    <3> HIDE DEF t
    <3>2. ComputeEntryHash(t, Prefix(H, t - 1), b[i]) = Prefix(H, t)
      BY <3>1, PrefixEntry
    <3> QED
      BY <3>2, SMT DEF t
  <2> QED
    BY <2>1, <2>2, <2>4, SMT
<1>8. ChainedHead(c, rows) = [seq |-> n + m, hash |-> H]
  <2>1. rows[m].hash = Prefix(H, n + m)
    BY <1>7, SMT
  <2>2. Prefix(H, n + m) = H
    BY <1>5, PrefixFacts, SMT
  <2> QED
    BY <1>c, <1>4, <2>1, <2>2 DEF ChainedHead
<1>9. \A s \in 0..n : Prefix(H, s) = Prefix(h, s)
  <2>1. ASSUME NEW s \in 0..n PROVE Prefix(H, s) = Prefix(h, s)
    <3>1. \A i \in 1..s : i \in 1..(n + m) /\ i <= n
      BY SMT
    <3>2. \A i \in 1..s : H[i] = h[i]
      BY <1>5, <3>1
    <3> QED
      BY <3>2 DEF Prefix
  <2> QED
    BY <2>1
<1>10. HashAfter(c, m) = H
  BY <1>1 DEF H
<1>11. \A s \in 1..n : H[s] = h[s]
  BY <1>5, SMT
<1>12. \A s \in (n + 1)..(n + m) : H[s] = <<s, b[s - n]>>
  BY <1>5, SMT
<1> HIDE DEF rows
<1>13. /\ Len(rows) = m
       /\ ChainedHead(c, rows) = [seq |-> n + m, hash |-> H]
       /\ H \in Seq(Links) /\ Len(H) = n + m
       /\ \A s \in 1..n : H[s] = h[s]
       /\ \A s \in (n + 1)..(n + m) : H[s] = <<s, b[s - n]>>
       /\ \A i \in 1..m : /\ rows[i].prev = Prefix(H, n + i - 1)
                          /\ rows[i].hash = Prefix(H, n + i)
                          /\ rows[i].payload = b[i]
       /\ \A s \in 0..n : Prefix(H, s) = Prefix(h, s)
  BY <1>4, <1>5, <1>7, <1>8, <1>9, <1>11, <1>12
<1> QED
  BY <1>10, <1>13, <1>a, <1>b, <1>c, <1>d DEF rows

-----------------------------------------------------------------------------
(* Steps, by what they leave alone.                                        *)

\* No pass of the job moves on, though some may end.
Rests(k) ==
    k \in Jobs => \A r \in Replicas : job'[k][r] = job[k][r] \/ job'[k][r].pc = "idle"

\* Elections, crashes and failing statements.
Quiet == UNCHANGED <<ledgerVars, verifier>> /\ \A k \in Jobs : Rests(k)

\* The chain only grows.
Extends ==
    /\ head.seq <= head'.seq
    /\ \A n \in 0..head.seq : Prefix(head'.hash, n) = Prefix(head.hash, n)

(***************************************************************************)
(* A pass that moves leaves the other jobs alone; one that ends, all.      *)
(***************************************************************************)
LEMMA GoRests ==
  ASSUME JobInv, NEW r \in Replicas, NEW k \in Jobs, NEW locals, Go(r, k, locals)
  PROVE  /\ \A j \in Jobs \ {k} : Rests(j)
         /\ locals.pc = "idle" => Rests(k)
BY GoEffect, SMT DEF Rests

(***************************************************************************)
(* A step is quiet, captures an event, or moves one job or one             *)
(* verification.                                                           *)
(***************************************************************************)
LEMMA NextCases ==
  ASSUME JobInv, [Next]_vars
  PROVE  \/ Quiet
         \/ \E e \in Events : Capture(e)
         \/ \E r \in Replicas : ChainerStep(r) \/ AnchorerStep(r) \/ PrunerStep(r)
         \/ \E v \in Verifiers : VerifierStep(v)
<1>1. ASSUME NEW r \in Replicas, NEW k \in Jobs, PassFails(r, k) PROVE Quiet
  BY <1>1, GoRests, SMT DEF PassFails, Quiet, Idle
<1>2. ASSUME NEW r \in Replicas, CrashReplica(r) PROVE Quiet
  <2>1. \A k \in Jobs, q \in Replicas : job'[k][q] = IF q = r THEN Idle ELSE job[k][q]
    BY <1>2, SMT DEF CrashReplica, JobInv
  <2> QED
    BY <1>2, <2>1, SMT DEF CrashReplica, Quiet, Rests, Idle
<1>3. CASE Election
  BY <1>3 DEF Election, auditVars, Quiet, Rests
<1>4. CASE UNCHANGED vars
  BY <1>4 DEF vars, auditVars, Quiet, Rests
<1> QED
  BY <1>1, <1>2, <1>3, <1>4 DEF Next

(***************************************************************************)
(* What is pending has been captured.                                      *)
(***************************************************************************)
LEMMA NextCapture ==
  ASSUME CaptureInv, [Next]_vars
  PROVE  CaptureInv'
<1> USE DEF CaptureInv, ledgerVars
<1>0. MaxFaults \in Nat
  BY AuditAssumption
<1>1. ASSUME NEW e \in Events, Capture(e) PROVE CaptureInv'
  BY <1>1 DEF Capture
<1>2. ASSUME NEW r \in Replicas, ChainerStep(r) PROVE CaptureInv'
  BY <1>2 DEF ChainerStep, ChainerSelect, ChainerHead, ChainerInsert, ProcessBatch, Unconsumed
<1>3. ASSUME NEW r \in Replicas, AnchorerStep(r) PROVE CaptureInv'
  BY <1>3 DEF AnchorerStep, AnchorLast, AnchorEntries, AnchorPrev, SinkPut, AnchorCreate
<1>4. ASSUME NEW r \in Replicas, PrunerStep(r) PROVE CaptureInv'
  BY <1>4 DEF PrunerStep, PruneChainsBefore, PruneBoundary, PruneChain
<1>5. ASSUME NEW v \in Verifiers, VerifierStep(v) PROVE CaptureInv'
  BY <1>5 DEF VerifierStep, LoadCheckpoint, VerifyChainFrom, VerifyAnchorsList, VerifyAnchorsFrom,
              VerifySinkDatabase, VerifyAnchorsWithSinkFrom, VerifierOnly
<1>6. ASSUME NEW r \in Replicas, NEW k \in Jobs, PassFails(r, k) PROVE CaptureInv'
  BY <1>0, <1>6, SMT DEF PassFails
<1>7. ASSUME NEW r \in Replicas, CrashReplica(r) PROVE CaptureInv'
  BY <1>7 DEF CrashReplica
<1>8. CASE Election
  BY <1>8 DEF Election, auditVars
<1>9. CASE UNCHANGED vars
  BY <1>9 DEF vars, auditVars
<1> QED
  BY <1>1, <1>2, <1>3, <1>4, <1>5, <1>6, <1>7, <1>8, <1>9 DEF Next

-----------------------------------------------------------------------------
(* The chain.                                                              *)

(***************************************************************************)
(* A selected batch is not empty and repeats nothing.                      *)
(***************************************************************************)
LEMMA Selected ==
  ASSUME CaptureInv, pending # {}, NEW batch \in [1..Min({Cardinality(pending), BatchLimit}) -> pending],
         FirstByID(batch, Min({Cardinality(pending), BatchLimit}))
  PROVE  IsBatch(batch) /\ Range(batch) \subseteq pending
<1> DEFINE n == Min({Cardinality(pending), BatchLimit})
<1>1. Cardinality(pending) \in Nat \ {0}
  <2>1. IsFiniteSet(pending)
    BY AuditAssumption, FS_Subset DEF CaptureInv
  <2> QED
    BY <2>1, FS_CardinalityType, FS_EmptySet
<1>2. n \in Nat \ {0}
  <2> DEFINE S == {Cardinality(pending), BatchLimit}
  <2>1. S \subseteq Nat \ {0} /\ \E x \in S : \A y \in S : x <= y
    BY <1>1, AuditAssumption, SMT
  <2> HIDE DEF S
  <2>2. Min(S) \in S
    BY <2>1 DEF Min
  <2> QED
    BY <2>1, <2>2 DEF S
<1> HIDE DEF n
<1>3. batch \in [1..n -> pending] /\ \A i, j \in 1..n : i < j => batch[i] < batch[j]
  BY DEF n, FirstByID
<1>4. pending \subseteq Events /\ pending \subseteq Nat
  BY AuditAssumption DEF CaptureInv
<1>5. batch \in Seq(pending) /\ Len(batch) = n /\ batch \in Seq(Events)
  <2>1. batch \in [1..n -> Events]
    BY <1>3, <1>4
  <2>2. batch \in Seq(Events) /\ Len(batch) = n
    BY <1>2, <2>1, SMT
  <2>3. batch \in Seq(pending)
    BY <1>2, <1>3, SMT
  <2> QED
    BY <2>2, <2>3
<1>6. ASSUME NEW i \in 1..n, NEW j \in 1..n, batch[i] = batch[j] PROVE i = j
  <2>1. batch[i] \in Nat /\ batch[j] \in Nat
    BY <1>3, <1>4
  <2>2. (i < j => batch[i] < batch[j]) /\ (j < i => batch[j] < batch[i])
    BY <1>3
  <2>3. i < j \/ j < i \/ i = j
    BY <1>2, SMT
  <2> QED
    BY <1>6, <2>1, <2>2, <2>3, SMT
<1>7. Range(batch) \subseteq pending
  BY <1>5 DEF Range
<1>8. batch # <<>>
  BY <1>2, <1>5
<1> QED
  BY <1>5, <1>6, <1>7, <1>8 DEF IsBatch

(***************************************************************************)
(* ProcessBatch extends the chain it read, entry by entry, and rewrites    *)
(* nothing.                                                                *)
(***************************************************************************)
LEMMA BatchCommits ==
  ASSUME JobInv, ChainInv, ChainerInv, NEW r \in Replicas, ProcessBatch(r)
  PROVE  LET b == job["chainer"][r].batch
         IN /\ IsBatch(b)
            /\ head'.seq = head.seq + Len(b)
            /\ \A s \in 1..head.seq : head'.hash[s] = head.hash[s]
            /\ \A s \in (head.seq + 1)..head'.seq : head'.hash[s] = <<s, b[s - head.seq]>>
            /\ Extends
            /\ \A s \in DOMAIN entries : s \in DOMAIN entries' /\ entries'[s] = entries[s]
            /\ ChainInv'
<1> DEFINE c == job["chainer"][r]
           b == c.batch
           h == head.hash
           n == head.seq
           m == Len(b)
           f == floor.seq
<1>0. /\ "chainer" \in Jobs /\ c.pc = "commit"
      /\ IsBatch(b) /\ c.head.seq = n /\ c.head.hash = Prefix(h, n)
  <2>1. "chainer" \in Jobs /\ c.pc = "commit"
    BY DEF ProcessBatch, At
  <2>2. IsBatch(b) /\ c.head.seq = n /\ c.head.hash = [seq |-> c.head.seq, hash |-> Prefix(h, c.head.seq)].hash
    BY <2>1 DEF ChainerInv, ChainerPass
  <2> QED
    BY <2>1, <2>2
<1>1. /\ h \in Seq(Links) /\ n \in Nat /\ Len(h) = n /\ \A s \in 1..n : h[s][1] = s
      /\ f \in 0..n /\ floor.prev = Prefix(h, f)
      /\ DOMAIN entries = (f + 1)..n
  BY DEF ChainInv
<1>2. b \in Seq(Events) /\ b # <<>> /\ m \in Nat \ {0} /\ c.head.hash = h
  <2>1. b \in Seq(Events) /\ b # <<>>
    BY <1>0 DEF IsBatch
  <2>2. Prefix(h, n) = h
    BY <1>1, PrefixFacts, SMT
  <2> QED
    BY <1>0, <2>1, <2>2, SMT
<1> DEFINE rows == chainOne(c)
           H == HashAfter(c, m)
<1>a. c.head.hash \in Seq(Links) /\ Len(c.head.hash) = c.head.seq
  BY <1>0, <1>1, <1>2
<1>3. /\ Len(rows) = m
      /\ ChainedHead(c, rows) = [seq |-> n + m, hash |-> H]
      /\ H \in Seq(Links) /\ Len(H) = n + m
      /\ \A s \in 1..n : H[s] = h[s]
      /\ \A s \in (n + 1)..(n + m) : H[s] = <<s, b[s - n]>>
      /\ \A i \in 1..m : /\ rows[i].prev = Prefix(H, n + i - 1)
                         /\ rows[i].hash = Prefix(H, n + i)
                         /\ rows[i].payload = b[i]
      /\ \A s \in 0..n : Prefix(H, s) = Prefix(h, s)
  <2>1. b \in Seq(Events) /\ b # <<>> /\ c.head.seq = n /\ c.head.hash = h
    BY <1>0, <1>2
  <2> HIDE DEF c, n, h
  <2> QED
    BY <2>1, <1>a, ChainedRows
<1>4. head' = [seq |-> n + m, hash |-> H] /\ floor' = floor
  BY <1>3 DEF ProcessBatch
<1>5. /\ DOMAIN entries' = DOMAIN entries \cup ((n + 1)..(n + m))
      /\ \A s \in DOMAIN entries' :
            entries'[s] = IF s \in (n + 1)..(n + m) THEN rows[s - n] ELSE entries[s]
  <2>1. entries' = [s \in DOMAIN entries \cup ((n + 1)..(n + m)) |->
                       IF s \in (n + 1)..(n + m) THEN rows[s - n] ELSE entries[s]]
    BY <1>0, <1>3 DEF ProcessBatch
  <2> HIDE DEF rows, n, m
  <2> QED
    BY <2>1
<1> HIDE DEF rows, H, m, b, c
<1>6. DOMAIN entries' = (f + 1)..(n + m)
  <2>1. (f + 1)..n \cup ((n + 1)..(n + m)) = (f + 1)..(n + m)
    BY <1>1, <1>2, SMT
  <2> QED
    BY <1>1, <1>5, <2>1
<1>7. \A s \in DOMAIN entries : s \in DOMAIN entries' /\ entries'[s] = entries[s]
  <2>1. \A s \in DOMAIN entries : s \notin (n + 1)..(n + m)
    BY <1>1, <1>2, SMT
  <2> QED
    BY <1>5, <2>1
<1>8. Extends
  BY <1>1, <1>2, <1>3, <1>4, SMT DEF Extends
<1>9. \A s \in 1..(n + m) : H[s][1] = s
  <2>1. ASSUME NEW s \in 1..(n + m) PROVE H[s][1] = s
    <3>1. s \in 1..n \/ s \in (n + 1)..(n + m)
      BY <1>1, <1>2, SMT
    <3>2. CASE s \in 1..n
      BY <1>1, <1>3, <3>2
    <3>3. CASE s \in (n + 1)..(n + m)
      <4>1. H[s] = <<s, b[s - n]>>
        BY <1>3, <3>3
      <4> QED
        BY <4>1, SMT
    <3> QED
      BY <3>1, <3>2, <3>3
  <2> QED
    BY <2>1
<1>10. ASSUME NEW s \in DOMAIN entries'
       PROVE  /\ entries'[s].prev = Prefix(H, s - 1)
              /\ entries'[s].hash = Prefix(H, s)
              /\ entries'[s].payload = H[s][2]
  <2>0. s \in (f + 1)..(n + m) /\ s \in 1..(n + m)
    BY <1>1, <1>2, <1>6, SMT
  <2>1. CASE s <= n
    <3>1. s \in DOMAIN entries /\ entries'[s] = entries[s] /\ s \in 0..n /\ s - 1 \in 0..n
      BY <1>1, <1>2, <1>7, <2>0, <2>1, SMT
    <3>2. entries[s].prev = Prefix(h, s - 1) /\ entries[s].hash = Prefix(h, s) /\ entries[s].payload = h[s][2]
      BY <3>1 DEF ChainInv
    <3>3. H[s] = h[s]
      BY <1>1, <1>3, <2>0, <2>1, SMT
    <3> QED
      BY <1>3, <3>1, <3>2, <3>3
  <2>2. CASE ~ (s <= n)
    <3>0. n \in Nat /\ m \in Nat /\ f \in Nat
      BY <1>1, <1>2, SMT
    <3>1. s \in (n + 1)..(n + m) /\ s - n \in 1..m /\ n + (s - n) = s /\ n + (s - n) - 1 = s - 1
      BY <2>0, <2>2, <3>0, SMT
    <3>2. entries'[s] = rows[s - n]
      BY <1>5, <3>1
    <3>3. H[s] = <<s, b[s - n]>>
      BY <1>3, <3>1
    <3> QED
      BY <1>3, <3>1, <3>2, <3>3, SMT
  <2> QED
    BY <2>1, <2>2
<1>11. ChainInv'
  <2>1. head' \in [seq : Nat, hash : Seq(Links)] /\ Len(head'.hash) = head'.seq
    BY <1>1, <1>2, <1>3, <1>4, SMT
  <2>2. \A s \in 1..head'.seq : head'.hash[s][1] = s
    BY <1>4, <1>9
  <2>3. floor'.seq \in 0..head'.seq /\ floor'.prev = Prefix(head'.hash, floor'.seq)
    BY <1>1, <1>2, <1>3, <1>4, SMT
  <2>4. DOMAIN entries' = (floor'.seq + 1)..head'.seq
    BY <1>4, <1>6
  <2> QED
    BY <1>4, <1>10, <2>1, <2>2, <2>3, <2>4 DEF ChainInv
<1> QED
  BY <1>0, <1>3, <1>4, <1>7, <1>8, <1>11 DEF b, c, m

AppendStep ==
    \A s \in DOMAIN entries : s > floor'.seq => s \in DOMAIN entries' /\ entries'[s] = entries[s]

(***************************************************************************)
(* Chaining passes that do not move, on a chain that does not either.      *)
(***************************************************************************)
LEMMA ChainerRests ==
  ASSUME ChainerInv, Rests("chainer"), UNCHANGED <<head, floor>>
  PROVE  ChainerInv'
<1> SUFFICES ASSUME "chainer" \in Jobs, NEW r \in Replicas PROVE ChainerPass(r)'
  BY DEF ChainerInv
<1>1. ChainerPass(r)
  BY DEF ChainerInv
<1>2. \A q \in Replicas : At(q, "chainer", "commit")' => At(q, "chainer", "commit")
  BY DEF Rests, At
<1>3. CASE job'["chainer"][r] = job["chainer"][r]
  BY <1>1, <1>2, <1>3 DEF ChainerPass
<1>4. CASE job'["chainer"][r].pc = "idle"
  BY <1>4 DEF ChainerPass
<1> QED
  BY <1>3, <1>4 DEF Rests

(***************************************************************************)
(* One chaining pass moves.                                                *)
(***************************************************************************)
LEMMA ChainerMoves ==
  ASSUME JobInv, ChainerInv, UNCHANGED <<head, floor>>, "chainer" \in Jobs,
         NEW r \in Replicas, NEW c, Go(r, "chainer", c),
         IsBatch(c.batch),
         c.pc \in {"insert", "commit"} =>
             /\ c.head = [seq |-> c.head.seq, hash |-> Prefix(head.hash, c.head.seq)]
             /\ c.head.seq \in floor.seq..head.seq,
         c.pc = "commit" =>
             /\ c.head.seq = head.seq
             /\ \A q \in Replicas : ~ At(q, "chainer", "commit")
  PROVE  ChainerInv'
<1>1. \A q \in Replicas : job'["chainer"][q] = IF q = r THEN c ELSE job["chainer"][q]
  BY GoEffect, SMT
<1>2. ASSUME NEW q \in Replicas, q # r PROVE ChainerPass(q)'
  <2>1. ChainerPass(q) /\ job'["chainer"][q] = job["chainer"][q]
    BY <1>1, <1>2 DEF ChainerInv
  <2>2. job'["chainer"][q].pc = "commit" =>
            \A p \in Replicas : At(p, "chainer", "commit")' => p = q
    <3> SUFFICES ASSUME job["chainer"][q].pc = "commit", NEW p \in Replicas, At(p, "chainer", "commit")'
                 PROVE  p = q
      BY <2>1
    <3>1. At(q, "chainer", "commit")
      BY DEF At
    <3>2. p # r
      BY <1>1, <3>1 DEF At
    <3>3. At(p, "chainer", "commit")
      BY <1>1, <3>2 DEF At
    <3> QED
      BY <2>1, <3>3 DEF ChainerPass
  <2> QED
    BY <2>1, <2>2 DEF ChainerPass
<1>3. ChainerPass(r)'
  <2>1. job'["chainer"][r] = c
    BY <1>1
  <2>2. c.pc = "commit" => \A p \in Replicas : At(p, "chainer", "commit")' => p = r
    BY <1>1 DEF At
  <2> QED
    BY <2>1, <2>2 DEF ChainerPass
<1> QED
  BY <1>2, <1>3 DEF ChainerInv

(***************************************************************************)
(* The chain under every step: it grows by what a chainer commits, and is  *)
(* cut from below where a safe prune commits.  Two chainers cannot both    *)
(* insert the row after the head, and the one that comes late gives up.    *)
(***************************************************************************)
LEMMA NextChain ==
  ASSUME JobInv, CaptureInv, ChainInv, ChainerInv, PruneSafe, [Next]_vars
  PROVE  ChainInv' /\ ChainerInv' /\ Extends /\ AppendStep
<1> USE DEF ledgerVars
<1>0. ASSUME UNCHANGED <<head, floor, entries>> PROVE ChainInv' /\ Extends /\ AppendStep
  <2>1. head.seq \in Nat
    BY DEF ChainInv
  <2> QED
    BY <1>0, <2>1, SMT DEF ChainInv, Extends, AppendStep
<1>1. CASE Quiet
  <2>1. "chainer" \in Jobs => Rests("chainer")
    BY <1>1 DEF Quiet
  <2>2. Rests("chainer")
    BY <2>1 DEF Rests
  <2> QED
    BY <1>0, <1>1, <2>2, ChainerRests DEF Quiet
<1>2. ASSUME NEW e \in Events, Capture(e) PROVE ChainInv' /\ ChainerInv' /\ Extends /\ AppendStep
  <2>1. Rests("chainer")
    BY <1>2 DEF Capture, Rests
  <2> QED
    BY <1>0, <1>2, <2>1, ChainerRests DEF Capture
<1>3. ASSUME NEW r \in Replicas, ChainerStep(r) PROVE ChainInv' /\ ChainerInv' /\ Extends /\ AppendStep
  <2> DEFINE c == job["chainer"][r]
  <2>0. "chainer" \in Jobs /\ ChainerPass(r)
    BY <1>3 DEF ChainerStep, ChainerSelect, ChainerHead, ChainerInsert, ProcessBatch, Begins, Proceeds, At,
                ChainerInv
  <2>1. CASE ChainerSelect(r)
    <3>1. PICK batch : /\ Go(r, "chainer", [pc |-> "head", batch |-> batch])
                       /\ IsBatch(batch)
      BY <2>1, Selected DEF ChainerSelect
    <3> DEFINE d == [pc |-> "head", batch |-> batch]
    <3>2. d.pc = "head" /\ IsBatch(d.batch) /\ Go(r, "chainer", d) /\ UNCHANGED <<head, floor>>
      BY <2>1, <3>1 DEF ChainerSelect
    <3> HIDE DEF d
    <3>3. ChainerInv'
      BY <2>0, <3>2, ChainerMoves
    <3> QED
      BY <1>0, <2>1, <3>3 DEF ChainerSelect
  <2>2. CASE ChainerHead(r)
    <3> DEFINE d == [pc |-> "insert", batch |-> c.batch, head |-> head]
    <3>1. IsBatch(c.batch)
      BY <2>0, <2>2 DEF ChainerHead, Proceeds, At, ChainerPass
    <3>2. d.head = [seq |-> d.head.seq, hash |-> Prefix(head.hash, d.head.seq)]
      <4>1. head.hash = Prefix(head.hash, head.seq)
        BY PrefixFacts, SMT DEF ChainInv
      <4>2. head = [seq |-> head.seq, hash |-> head.hash]
        BY DEF ChainInv
      <4> QED
        BY <4>1, <4>2
    <3>3. d.head.seq \in floor.seq..head.seq
      BY SMT DEF ChainInv
    <3>4. ChainerInv'
      BY <2>0, <2>2, <3>1, <3>2, <3>3, ChainerMoves, SMT DEF ChainerHead
    <3> QED
      BY <1>0, <2>2, <3>4 DEF ChainerHead
  <2>3. CASE ChainerInsert(r)
    <3>1. CASE Go(r, "chainer", Idle)
      <4>1. Rests("chainer")
        BY <2>0, <3>1, GoRests, SMT DEF Idle
      <4> QED
        BY <1>0, <2>3, <4>1, ChainerRests DEF ChainerInsert
    <3>2. CASE /\ c.head.seq + 1 \notin DOMAIN entries
               /\ \A q \in Replicas : ~ At(q, "chainer", "commit")
               /\ Go(r, "chainer", [c EXCEPT !.pc = "commit"])
      <4>1. c.pc = "insert" /\ Shaped(c)
        BY <2>0, <2>3 DEF ChainerInsert, Proceeds, At, JobInv
      <4>2. [c EXCEPT !.pc = "commit"] = [pc |-> "commit", batch |-> c.batch, head |-> c.head]
        BY <4>1, SMT DEF Shaped
      <4>3. /\ IsBatch(c.batch)
            /\ c.head = [seq |-> c.head.seq, hash |-> Prefix(head.hash, c.head.seq)]
            /\ c.head.seq \in floor.seq..head.seq
        BY <2>0, <4>1 DEF ChainerPass
      <4>4. c.head.seq = head.seq
        <5>1. floor.seq \in Nat /\ head.seq \in Nat /\ DOMAIN entries = (floor.seq + 1)..head.seq
          BY SMT DEF ChainInv
        <5> QED
          BY <3>2, <4>3, <5>1, SMT
      <4>5. ChainerInv'
        BY <2>0, <2>3, <3>2, <4>2, <4>3, <4>4, ChainerMoves DEF ChainerInsert
      <4> QED
        BY <1>0, <2>3, <4>5 DEF ChainerInsert
    <3> QED
      BY <2>3, <3>1, <3>2 DEF ChainerInsert
  <2>4. CASE ProcessBatch(r)
    <3>1. ChainInv' /\ Extends /\ AppendStep
      BY <2>4, BatchCommits DEF AppendStep
    <3>2. \A q \in Replicas : job'["chainer"][q] = IF q = r THEN Idle ELSE job["chainer"][q]
      BY <2>0, <2>4, GoEffect, SMT DEF ProcessBatch
    <3>3. ASSUME NEW q \in Replicas PROVE ChainerPass(q)'
      <4>1. CASE q = r
        BY <3>2, <4>1, SMT DEF ChainerPass, Idle
      <4>2. CASE q # r
        <5>1. job'["chainer"][q] = job["chainer"][q] /\ ChainerPass(q) /\ ~ At(q, "chainer", "commit")
          BY <2>0, <2>4, <3>2, <4>2 DEF ProcessBatch, ChainerInv, ChainerPass, At
        <5>2. floor' = floor
          BY <2>4 DEF ProcessBatch
        <5>3. floor.seq \in Nat /\ head.seq \in Nat /\ head'.seq \in Nat
          BY <3>1, SMT DEF ChainInv
        <5>4. \A n \in floor.seq..head.seq : n \in floor.seq..head'.seq /\ Prefix(head'.hash, n) = Prefix(head.hash, n)
          BY <3>1, <5>3, SMT DEF Extends
        <5> QED
          BY <2>0, <5>1, <5>2, <5>4 DEF ChainerPass, At
      <4> QED
        BY <4>1, <4>2
    <3> QED
      BY <3>1, <3>3 DEF ChainerInv
  <2> QED
    BY <1>3, <2>1, <2>2, <2>3, <2>4 DEF ChainerStep
<1>4. ASSUME NEW r \in Replicas, AnchorerStep(r) PROVE ChainInv' /\ ChainerInv' /\ Extends /\ AppendStep
  <2>1. "anchorer" \in Jobs /\ (\E c : Go(r, "anchorer", c)) /\ UNCHANGED <<head, floor, entries>>
    BY <1>4 DEF AnchorerStep, AnchorLast, AnchorEntries, AnchorPrev, SinkPut, AnchorCreate, Begins, Proceeds, At
  <2>2. Rests("chainer")
    BY <2>1, GoRests, SMT DEF Rests
  <2> QED
    BY <1>0, <2>1, <2>2, ChainerRests
<1>5. ASSUME NEW r \in Replicas, PrunerStep(r) PROVE ChainInv' /\ ChainerInv' /\ Extends /\ AppendStep
  <2>1. "pruner" \in Jobs /\ (\E c : Go(r, "pruner", c))
    BY <1>5 DEF PrunerStep, PruneChainsBefore, PruneBoundary, PruneChain, Begins, Proceeds, At
  <2>2. Rests("chainer")
    BY <2>1, GoRests, SMT DEF Rests
  <2>3. CASE UNCHANGED <<head, floor, entries>>
    BY <1>0, <2>2, <2>3, ChainerRests
  <2>4. CASE PruneChain(r)
    <3> DEFINE p == job["pruner"][r]
               t == p.through
               h == head.hash
               n == head.seq
               f == floor.seq
    <3>1. /\ t \in f..n /\ p.prev = Prefix(h, t)
          /\ \A q \in Replicas : At(q, "chainer", "insert") => t <= job["chainer"][q].head.seq
      BY <2>4 DEF PruneChain, PruneSafe
    <3>2. /\ floor' = [seq |-> t, prev |-> p.prev] /\ head' = head
          /\ entries' = [s \in {s \in DOMAIN entries : s > t} |-> entries[s]]
      BY <2>4 DEF PruneChain
    <3>3. f \in Nat /\ n \in Nat /\ f <= n /\ DOMAIN entries = (f + 1)..n
      BY SMT DEF ChainInv
    <3>4. DOMAIN entries' = (t + 1)..n /\ \A s \in (t + 1)..n : s \in DOMAIN entries /\ entries'[s] = entries[s]
      <4>1. {s \in DOMAIN entries : s > t} = (t + 1)..n
        BY <3>1, <3>3, SMT
      <4> HIDE DEF t
      <4> QED
        BY <3>2, <4>1
    <3>5. floor'.seq = t /\ floor'.prev = Prefix(h, t) /\ t \in 0..n
      BY <3>1, <3>2, <3>3, SMT
    <3>6. ChainInv'
      <4>1. ASSUME NEW s \in DOMAIN entries'
            PROVE  /\ entries'[s].prev = Prefix(h, s - 1)
                   /\ entries'[s].hash = Prefix(h, s)
                   /\ entries'[s].payload = h[s][2]
        BY <3>4, <4>1, SMT DEF ChainInv
      <4> QED
        BY <3>2, <3>4, <3>5, <4>1 DEF ChainInv
    <3>7. Extends /\ AppendStep
      BY <3>2, <3>3, <3>4, <3>5, SMT DEF Extends, AppendStep
    <3>8. ASSUME "chainer" \in Jobs, NEW q \in Replicas PROVE ChainerPass(q)'
      <4>0. ChainerPass(q) /\ (job'["chainer"][q] = job["chainer"][q] \/ job'["chainer"][q].pc = "idle")
        BY <2>2, <3>8 DEF ChainerInv, Rests
      <4>1. \A s \in Replicas : At(s, "chainer", "commit")' => At(s, "chainer", "commit")
        BY <2>2, <3>8 DEF Rests, At
      <4>2. CASE job'["chainer"][q].pc = "idle"
        BY <4>2 DEF ChainerPass
      <4>3. CASE job'["chainer"][q] = job["chainer"][q]
        <5> DEFINE c == job["chainer"][q]
        <5>1. c.pc \in {"insert", "commit"} => c.head.seq \in t..n
          <6>1. c.pc \in {"insert", "commit"} => c.head.seq \in f..n
            BY <4>0 DEF ChainerPass
          <6>2. c.pc = "insert" => t <= c.head.seq
            BY <3>1, <3>8 DEF At
          <6>3. c.pc = "commit" => c.head.seq = n
            BY <4>0 DEF ChainerPass
          <6> HIDE DEF c, t, n, f
          <6> QED
            BY <3>1, <3>3, <6>1, <6>2, <6>3, SMT
        <5> HIDE DEF t
        <5> QED
          BY <3>2, <3>5, <4>0, <4>1, <4>3, <5>1 DEF ChainerPass
      <4> QED
        BY <4>0, <4>2, <4>3
    <3> QED
      BY <3>6, <3>7, <3>8 DEF ChainerInv
  <2> QED
    BY <1>5, <2>3, <2>4 DEF PrunerStep, PruneChainsBefore, PruneBoundary
<1>6. ASSUME NEW v \in Verifiers, VerifierStep(v) PROVE ChainInv' /\ ChainerInv' /\ Extends /\ AppendStep
  <2>1. UNCHANGED <<ledgerVars, job>>
    BY <1>6 DEF VerifierStep, LoadCheckpoint, VerifyChainFrom, VerifyAnchorsList, VerifyAnchorsFrom,
                VerifySinkDatabase, VerifyAnchorsWithSinkFrom, VerifierOnly
  <2>2. Rests("chainer")
    BY <2>1 DEF Rests
  <2> QED
    BY <1>0, <2>1, <2>2, ChainerRests
<1> QED
  BY <1>1, <1>2, <1>3, <1>4, <1>5, <1>6, NextCases

(***************************************************************************)
(* Consecutive rows from a cursor on are linked, and continue the chain up *)
(* to the cursor.                                                          *)
(***************************************************************************)
LEMMA Linked ==
  ASSUME ChainInv, NEW S \in SUBSET DOMAIN entries, NEW c \in floor.seq..head.seq,
         \A s \in S : s > c /\ (s = c + 1 \/ s - 1 \in S)
  PROVE  Continues(S, c, Prefix(head.hash, c))
<1> DEFINE h == head.hash
           n == head.seq
<1>1. /\ h \in Seq(Links) /\ n \in Nat /\ Len(h) = n /\ floor.seq \in 0..n
      /\ DOMAIN entries = (floor.seq + 1)..n
  BY DEF ChainInv
<1>2. ASSUME NEW s \in S
      PROVE  /\ s = c + 1 \/ s - 1 \in S
             /\ entries[s].prev = IF s = c + 1 THEN Prefix(h, c) ELSE entries[s - 1].hash
             /\ entries[s].hash = ComputeEntryHash(s, entries[s].prev, entries[s].payload)
  <2>1. s \in 1..n /\ s \in DOMAIN entries /\ (s = c + 1 \/ s - 1 \in DOMAIN entries)
    BY <1>1, SMT
  <2>2. /\ entries[s].prev = Prefix(h, s - 1) /\ entries[s].hash = Prefix(h, s)
        /\ entries[s].payload = h[s][2] /\ h[s][1] = s
    BY <2>1 DEF ChainInv
  <2>3. s # c + 1 => entries[s - 1].hash = Prefix(h, s - 1)
    BY <2>1 DEF ChainInv
  <2>4. s = c + 1 => s - 1 = c
    BY <1>1, SMT
  <2>5. ComputeEntryHash(s, Prefix(h, s - 1), h[s][2]) = Prefix(h, s)
    <3> HIDE DEF h, n
    <3> QED
      BY <1>1, <2>1, <2>2, PrefixEntry
  <2>6. s = c + 1 \/ s - 1 \in S
    OBVIOUS
  <2> QED
    BY <2>2, <2>3, <2>4, <2>5, <2>6
<1> QED
  BY <1>2 DEF Continues

(***************************************************************************)
(* What the invariant says is what VerifyChainFrom checks.                 *)
(***************************************************************************)
LEMMA ChainIsVerified == ChainInv => ChainVerifies
<1> SUFFICES ASSUME ChainInv PROVE ChainVerifies
  OBVIOUS
<1> DEFINE h == head.hash
           n == head.seq
           f == floor.seq
           S == {s \in DOMAIN entries : s > f}
<1>1. /\ h \in Seq(Links) /\ n \in Nat /\ Len(h) = n /\ f \in 0..n /\ floor.prev = Prefix(h, f)
      /\ DOMAIN entries = (f + 1)..n
  BY DEF ChainInv
<1>2. Continues(S, f, Prefix(h, f))
  <2>1. S \in SUBSET DOMAIN entries /\ f \in floor.seq..head.seq
    BY <1>1, SMT
  <2>2. \A s \in S : s > f /\ (s = f + 1 \/ s - 1 \in S)
    BY <1>1, SMT
  <2> QED
    BY <2>1, <2>2, Linked
<1>4. h = Prefix(h, n)
  BY <1>1, PrefixFacts, SMT
<1>5. n \in DOMAIN entries \/ n = f
  BY <1>1, SMT
<1>6. h = IF n \in DOMAIN entries THEN entries[n].hash ELSE floor.prev
  <2>1. n \in DOMAIN entries => entries[n].hash = Prefix(h, n)
    BY DEF ChainInv
  <2> QED
    BY <1>1, <1>4, <1>5, <2>1
<1> QED
  BY <1>1, <1>2, <1>5, <1>6 DEF ChainVerifies

-----------------------------------------------------------------------------
(* Anchors, and the sink.                                                  *)

(***************************************************************************)
(* The ends of a span are numbers of the chain.                            *)
(***************************************************************************)
LEMMA SpanBounds ==
  ASSUME ChainInv, NEW a, Spans(a)
  PROVE  /\ head.seq \in Nat
         /\ a.from \in 1..head.seq /\ a.to \in 1..head.seq /\ a.from <= a.to
<1>1. head.seq \in Nat
  BY DEF ChainInv
<1>2. a.from \in 1..head.seq /\ a.to \in a.from..head.seq
  BY DEF Spans
<1> QED
  BY <1>1, <1>2, SMT

(***************************************************************************)
(* SELECT MAX(to_seq): the end of the last anchor, or zero.                *)
(***************************************************************************)
LEMMA LastAnchor ==
  ASSUME ChainInv, AnchorInv
  PROVE  /\ LastTo \in 0..head.seq
         /\ \A a \in anchors : a.to <= LastTo
         /\ LastTo = 0 \/ \E a \in anchors : a.to = LastTo
         /\ LastTo = 0 => anchors = {}
         /\ floor.seq <= LastTo
<1> DEFINE S == {0} \cup {a.to : a \in anchors}
<1>0. head.seq \in Nat /\ \A a \in anchors : a.to \in 1..head.seq
  <2>1. \A a \in anchors : Spans(a)
    BY DEF AnchorInv
  <2> QED
    BY <2>1, SpanBounds DEF ChainInv
<1>1. S \subseteq Nat /\ \E t \in S : \A x \in S : t >= x
  BY <1>0, SMT DEF AnchorInv
<1> HIDE DEF S
<1>2. Max(S) \in S /\ \A x \in S : Max(S) >= x
  BY <1>1 DEF Max
<1>3. LastTo \in S /\ \A x \in S : LastTo >= x
  BY <1>2 DEF LastTo, S
<1> USE DEF S
<1>4. \A a \in anchors : a.to <= LastTo
  BY <1>0, <1>1, <1>3
<1>5. LastTo \in 0..head.seq
  BY <1>0, <1>3, SMT
<1>6. floor.seq <= LastTo
  BY <1>4, <1>5, SMT DEF AnchorInv
<1> QED
  BY <1>0, <1>3, <1>4, <1>5, <1>6, SMT

(***************************************************************************)
(* Where the anchors end depends on the anchors alone.                     *)
(***************************************************************************)
LEMMA LastToAgain ==
  ASSUME UNCHANGED anchors
  PROVE  LastTo' = LastTo
BY DEF LastTo

(***************************************************************************)
(* A span of the chain remains one while the chain grows.                  *)
(***************************************************************************)
LEMMA SpansOn ==
  ASSUME ChainInv, ChainInv', Extends, NEW a, Spans(a)
  PROVE  Spans(a)'
<1> DEFINE n == head.seq
<1>1. n \in Nat /\ head'.seq \in Nat /\ n <= head'.seq
  BY DEF ChainInv, Extends
<1>2. a.from \in 1..n /\ a.to \in a.from..n
  BY DEF Spans
<1>3. a.from \in 1..head'.seq /\ a.to \in a.from..head'.seq
  BY <1>1, <1>2, SMT
<1>4. \A i \in 1..(a.to - a.from + 1) :
          Prefix(head'.hash, a.from + i - 1) = Prefix(head.hash, a.from + i - 1)
  <2>1. \A i \in 1..(a.to - a.from + 1) : a.from + i - 1 \in 0..n
    BY <1>1, <1>2, SMT
  <2> QED
    BY <2>1 DEF Extends
<1>5. [i \in 1..(a.to - a.from + 1) |-> Prefix(head'.hash, a.from + i - 1)]
        = [i \in 1..(a.to - a.from + 1) |-> Prefix(head.hash, a.from + i - 1)]
  BY <1>4
<1> QED
  BY <1>3, <1>5 DEF Spans

AnchorsHold == AnchorInv /\ SinkReconciles /\ PassInv

(***************************************************************************)
(* A step that neither anchors nor prunes.                                 *)
(***************************************************************************)
LEMMA AnchorsRest ==
  ASSUME ChainInv, ChainInv', Extends, AnchorsHold,
         Rests("anchorer"), Rests("pruner"), UNCHANGED <<anchors, sink, floor>>
  PROVE  AnchorsHold'
<1>0. LastTo' = LastTo
  BY LastToAgain
<1>1. \A a : Spans(a) => Spans(a)'
  BY SpansOn
<1>2. \A a : Follows(a)' = Follows(a)
  BY DEF Follows
<1>3. \A a : Widest(a)' = Widest(a)
  BY <1>0 DEF Widest
<1>4. AnchorInv'
  BY <1>1, <1>2 DEF AnchorsHold, AnchorInv
<1>5. SinkReconciles'
  <2>1. \A a \in sink : a.to <= head.seq => a.to <= head'.seq
    <3>1. \A a \in sink : Spans(a)
      BY DEF AnchorsHold, AnchorInv
    <3>2. \A a \in sink : a.to \in 1..head.seq
      BY <3>1, SpanBounds
    <3>3. head.seq \in Nat /\ head'.seq \in Nat /\ head.seq <= head'.seq
      BY DEF ChainInv, Extends
    <3> QED
      BY <3>2, <3>3, SMT
  <2> QED
    BY <1>0, <2>1 DEF AnchorsHold, SinkReconciles, covers
<1>6. ASSUME "anchorer" \in Jobs, NEW r \in Replicas PROVE Anchoring(job["anchorer"][r])'
  <2>1. Anchoring(job["anchorer"][r]) /\ (job'["anchorer"][r] = job["anchorer"][r] \/ job'["anchorer"][r].pc = "idle")
    BY <1>6 DEF AnchorsHold, PassInv, Rests
  <2> QED
    BY <1>0, <1>1, <1>2, <1>3, <2>1 DEF Anchoring
<1>7. ASSUME "pruner" \in Jobs, NEW r \in Replicas PROVE Pruning(job["pruner"][r])'
  <2>1. Pruning(job["pruner"][r]) /\ (job'["pruner"][r] = job["pruner"][r] \/ job'["pruner"][r].pc = "idle")
    BY <1>7 DEF AnchorsHold, PassInv, Rests
  <2>2. ASSUME NEW t, \E a \in anchors : a.to = t PROVE Prefix(head'.hash, t) = Prefix(head.hash, t)
    <3>1. t \in 0..head.seq
      <4>1. PICK a \in anchors : a.to = t
        BY <2>2
      <4>2. Spans(a)
        BY DEF AnchorsHold, AnchorInv
      <4> QED
        BY <4>1, <4>2, SpanBounds, SMT
    <3> QED
      BY <3>1 DEF Extends
  <2> QED
    BY <2>1, <2>2 DEF Pruning
<1> QED
  BY <1>4, <1>5, <1>6, <1>7 DEF AnchorsHold, PassInv

(***************************************************************************)
(* The least and the greatest of a set of numbers.                         *)
(***************************************************************************)
LEMMA MinIs ==
  ASSUME NEW S \in SUBSET Int, NEW x \in S, \A y \in S : x <= y
  PROVE  Min(S) = x
<1>1. PICK m \in S : m = Min(S) /\ \A y \in S : m <= y
  BY DEF Min
<1>2. m \in Int /\ x \in Int /\ m <= x /\ x <= m
  BY <1>1
<1> QED
  BY <1>1, <1>2, SMT

(***************************************************************************)
(* The maximum of a set of integers.                                       *)
(***************************************************************************)
LEMMA MaxIs ==
  ASSUME NEW S \in SUBSET Int, NEW x \in S, \A y \in S : x >= y
  PROVE  Max(S) = x
<1>1. PICK m \in S : m = Max(S) /\ \A y \in S : m >= y
  BY DEF Max
<1>2. m \in Int /\ x \in Int /\ m >= x /\ x >= m
  BY <1>1
<1> QED
  BY <1>1, <1>2, SMT

(***************************************************************************)
(* An anchoring pass reads.                                                *)
(***************************************************************************)
LEMMA AnchorerMoves ==
  ASSUME JobInv, AnchorsHold, "anchorer" \in Jobs, NEW r \in Replicas, NEW c,
         Go(r, "anchorer", c), Anchoring(c), UNCHANGED <<head, anchors, sink, floor>>
  PROVE  AnchorsHold'
<1>0. LastTo' = LastTo
  BY LastToAgain
<1>1. AnchorInv' /\ SinkReconciles'
  BY <1>0, SMT DEF AnchorsHold, AnchorInv, SinkReconciles, Spans, Follows
<1>2. \A d : Anchoring(d) => Anchoring(d)'
  BY <1>0, SMT DEF Anchoring, Spans, Widest, Follows
<1>3. \A q \in Replicas : job'["anchorer"][q] = IF q = r THEN c ELSE job["anchorer"][q]
  BY GoEffect, SMT
<1>4. \A q \in Replicas : Anchoring(job["anchorer"][q])'
  BY <1>2, <1>3 DEF AnchorsHold, PassInv
<1>5. "pruner" \in Jobs => \A q \in Replicas : Pruning(job["pruner"][q])'
  BY GoEffect, SMT DEF AnchorsHold, PassInv, Pruning
<1> QED
  BY <1>1, <1>4, <1>5 DEF AnchorsHold, PassInv

(***************************************************************************)
(* Anchoring passes that have all ended.                                   *)
(***************************************************************************)
LEMMA AnchorerEnded ==
  ASSUME NEW c, c.pc = "idle"
  PROVE  Anchoring(c)
BY DEF Anchoring

(***************************************************************************)
(* AnchorChain seals the tail: the next anchor starts where the last one   *)
(* ends and covers every entry read, and reaches the sink before the       *)
(* database.                                                               *)
(***************************************************************************)
LEMMA AnchorerKeeps ==
  ASSUME LeaderInv, Unbroken, JobInv, breaks = 0, ChainInv, AnchorsHold,
         NEW r \in Replicas, AnchorerStep(r)
  PROVE  AnchorsHold' /\ (\A a \in sink' \ sink : a.from = LastTo + 1) /\ sink \subseteq sink' /\ anchors \subseteq anchors'
<1> USE DEF ledgerVars
<1> DEFINE c == job["anchorer"][r]
           n == head.seq
           f == floor.seq
<1>0. "anchorer" \in Jobs /\ Anchoring(c) /\ AnchorInv
  BY DEF AnchorerStep, AnchorLast, AnchorEntries, AnchorPrev, SinkPut, AnchorCreate, Begins, Proceeds, At,
         AnchorsHold, PassInv
<1>1. /\ LastTo \in 0..n /\ n \in Nat /\ f \in Nat /\ f <= LastTo
      /\ \A a \in anchors : a.to <= LastTo
      /\ LastTo = 0 \/ \E a \in anchors : a.to = LastTo
      /\ LastTo = 0 => anchors = {}
  BY <1>0, LastAnchor, SMT DEF ChainInv
<1>2. \A a \in anchors \cup sink : Spans(a) /\ a.from \in 1..n /\ a.to \in 1..n /\ a.from <= a.to
  BY <1>0, SpanBounds DEF AnchorInv
<1>3. CASE AnchorLast(r)
  <2> DEFINE d == [pc |-> "entries", last |-> LastTo]
  <2>1. Anchoring(d)
    BY DEF Anchoring
  <2>2. Go(r, "anchorer", d) /\ UNCHANGED <<head, anchors, sink, floor>>
    BY <1>3 DEF AnchorLast
  <2> QED
    BY <1>0, <2>1, <2>2, AnchorerMoves
<1>4. CASE AnchorEntries(r)
  <2> DEFINE S == {s \in DOMAIN entries : s > c.last}
             d == [pc |-> "prev", from |-> Min(S), to |-> Max(S),
                   root |-> MerkleRoot([i \in 1..(Max(S) - Min(S) + 1) |-> entries[Min(S) + i - 1].hash])]
  <2>0. UNCHANGED <<head, anchors, sink, floor>>
    BY <1>4 DEF AnchorEntries
  <2>1. CASE S = {}
    <3>1. Go(r, "anchorer", Idle) /\ Anchoring(Idle)
      BY <1>4, <2>1, AnchorerEnded DEF AnchorEntries, Idle
    <3> QED
      BY <1>0, <2>0, <3>1, AnchorerMoves
  <2>2. CASE S # {}
    <3>1. Go(r, "anchorer", d)
      BY <1>4, <2>2 DEF AnchorEntries
    <3>2. c.last = LastTo
      <4>1. c.pc = "entries"
        BY <1>4 DEF AnchorEntries, Proceeds, At
      <4> QED
        BY <1>0, <4>1 DEF Anchoring
    <3>3. S = (LastTo + 1)..n
      BY <1>1, <3>2, SMT DEF ChainInv
    <3>4. Min(S) = LastTo + 1 /\ Max(S) = n /\ LastTo + 1 \in 1..n
      <4>1. LastTo + 1 \in 1..n
        BY <1>1, <2>2, <3>3, SMT
      <4>2. LastTo + 1 \in S /\ n \in S /\ \A x \in S : LastTo + 1 <= x /\ n >= x
        BY <1>1, <3>3, <4>1, SMT
      <4>3. S \in SUBSET Int
        BY <1>1, <3>3, SMT
      <4> HIDE DEF S
      <4> QED
        BY <4>1, <4>2, <4>3, MinIs, MaxIs
    <3> HIDE DEF S
    <3>5. d.pc = "prev" /\ d.from = LastTo + 1 /\ d.to = n
      BY <3>4
    <3>6. d.root = [i \in 1..(n - (LastTo + 1) + 1) |-> Prefix(head.hash, (LastTo + 1) + i - 1)]
      <4>1. d.root = [i \in 1..(n - (LastTo + 1) + 1) |-> entries[(LastTo + 1) + i - 1].hash]
        BY <3>4 DEF MerkleRoot
      <4>2. ASSUME NEW i \in 1..(n - (LastTo + 1) + 1)
            PROVE  entries[(LastTo + 1) + i - 1].hash = Prefix(head.hash, (LastTo + 1) + i - 1)
        <5>1. (LastTo + 1) + i - 1 \in (f + 1)..n
          BY <1>1, SMT
        <5> QED
          BY <5>1 DEF ChainInv
      <4> HIDE DEF d
      <4> QED
        BY <4>1, <4>2
    <3> HIDE DEF d
    <3>7. Spans(d)
      BY <1>1, <3>4, <3>5, <3>6, SMT DEF Spans
    <3>8. Widest(d)
      BY <1>2, <3>5, SMT DEF Widest
    <3>9. Anchoring(d)
      BY <3>5, <3>7, <3>8 DEF Anchoring
    <3> QED
      BY <1>0, <2>0, <3>1, <3>9, AnchorerMoves
  <2> QED
    BY <2>1, <2>2
<1>5. CASE AnchorPrev(r)
  <2>1. PICK prev \in (IF anchors = {} THEN {NoHash} ELSE {AnchorHash(b) : b \in LastAnchors}) :
            Go(r, "anchorer", [pc |-> "put", anchor |-> Sealed(c, prev)])
    BY <1>5 DEF AnchorPrev
  <2> DEFINE a == Sealed(c, prev)
             d == [pc |-> "put", anchor |-> a]
  <2>2. Spans(c) /\ c.from = LastTo + 1 /\ Widest(c)
    BY <1>0, <1>5 DEF AnchorPrev, Proceeds, At, Anchoring
  <2>3. a.from = c.from /\ a.to = c.to /\ a.root = c.root /\ a.prev = prev
    BY DEF Sealed
  <2>4. Spans(a) /\ a.from = LastTo + 1 /\ Widest(a)
    BY <2>2, <2>3 DEF Spans, Widest
  <2>5. Follows(a)
    <3>1. CASE anchors = {}
      BY <1>1, <2>4, <3>1, SMT DEF Follows
    <3>2. CASE anchors # {}
      <4>1. PICK b \in LastAnchors : prev = AnchorHash(b)
        BY <2>1, <3>2
      <4> QED
        BY <2>3, <2>4, <4>1 DEF Follows, LastAnchors
    <3> QED
      BY <3>1, <3>2
  <2>6. d.pc = "put" /\ d.anchor = a
    OBVIOUS
  <2>7. Go(r, "anchorer", d) /\ UNCHANGED <<head, anchors, sink, floor>>
    BY <1>5, <2>1 DEF AnchorPrev
  <2> HIDE DEF a, d
  <2>8. Anchoring(d)
    BY <2>4, <2>5, <2>6 DEF Anchoring
  <2> QED
    BY <1>0, <2>7, <2>8, AnchorerMoves
<1>6. ASSUME phase["anchorer"][r] # "idle", NEW q \in Replicas, q # r PROVE job["anchorer"][q].pc = "idle"
  BY <1>0, <1>6, Alone
<1>7. CASE SinkPut(r)
  <2>0. c.pc = "put" /\ Shaped(c) /\ phase["anchorer"][r] # "idle"
    BY <1>0, <1>7 DEF SinkPut, Proceeds, At, JobInv
  <2>1. PICK a : a = c.anchor
    OBVIOUS
  <2>a. PICK d : d = [pc |-> "commit", anchor |-> a]
    OBVIOUS
  <2>b. [c EXCEPT !.pc = "commit"] = d
    BY <2>0, <2>1, <2>a, SMT DEF Shaped
  <2>2. /\ UNCHANGED <<head, anchors, floor>> /\ Go(r, "anchorer", d)
        /\ sink' = IF SinkOn THEN sink \cup {a} ELSE sink
    BY <1>7, <2>1, <2>b DEF SinkPut
  <2>3. Spans(a) /\ a.from = LastTo + 1 /\ Widest(a) /\ Follows(a)
    BY <1>0, <2>0, <2>1 DEF Anchoring
  <2>4. LastTo' = LastTo
    BY <2>2, LastToAgain
  <2>5. d.pc = "commit" /\ d.anchor = a
    BY <2>a
  <2>6. /\ \A q \in Replicas : job'["anchorer"][q] = IF q = r THEN d ELSE job["anchorer"][q]
        /\ "pruner" \in Jobs => \A q \in Replicas : job'["pruner"][q] = job["pruner"][q]
    BY <1>0, <2>2, GoEffect, SMT
  <2>7. a.from \in 1..n /\ a.to \in 1..n
    BY <2>3, SpanBounds
  <2>c. sink' \subseteq sink \cup {a} /\ sink \subseteq sink' /\ (SinkOn => a \in sink')
    BY <2>2
  <2>8. AnchorInv'
    <3>1. \A b : (Spans(b)' <=> Spans(b)) /\ (Follows(b)' <=> Follows(b))
      BY <2>2 DEF Spans, Follows
    <3> QED
      BY <1>0, <2>2, <2>c, <2>3, <3>1 DEF AnchorInv
  <2>9. SinkReconciles'
    BY <2>2, <2>c, <2>3, <2>4, <2>7, SMT DEF AnchorsHold, SinkReconciles
  <2>10. Anchoring(d)'
    <3>1. Spans(a)' /\ Follows(a)' /\ a.from = LastTo' + 1
      BY <2>2, <2>3, <2>4 DEF Spans, Follows
    <3>2. Widest(a)'
      BY <2>c, <2>3, <2>4, <2>7, SMT DEF Widest
    <3> QED
      BY <2>5, <2>c, <3>1, <3>2 DEF Anchoring
  <2>11. \A q \in Replicas : Anchoring(job["anchorer"][q])'
    <3> SUFFICES ASSUME NEW q \in Replicas PROVE Anchoring(job["anchorer"][q])'
      OBVIOUS
    <3>1. CASE q = r
      BY <2>6, <2>10, <3>1
    <3>2. CASE q # r
      <4>1. job'["anchorer"][q].pc = "idle"
        BY <1>6, <2>0, <2>6, <3>2
      <4> QED
        BY <4>1 DEF Anchoring
    <3> QED
      BY <3>1, <3>2
  <2>12. "pruner" \in Jobs => \A q \in Replicas : Pruning(job["pruner"][q])'
    BY <2>2, <2>6, SMT DEF AnchorsHold, PassInv, Pruning
  <2>13. AnchorsHold'
    BY <2>8, <2>9, <2>11, <2>12 DEF AnchorsHold, PassInv
  <2> QED
    BY <2>2, <2>c, <2>3, <2>13
<1>8. CASE AnchorCreate(r)
  <2>a. PICK a : a = c.anchor
    OBVIOUS
  <2>0. c.pc = "commit" /\ phase["anchorer"][r] # "idle"
    BY <1>0, <1>8 DEF AnchorCreate, At, JobInv
  <2>1. Spans(a) /\ a.from = LastTo + 1 /\ Widest(a) /\ Follows(a) /\ (SinkOn => a \in sink)
    BY <1>0, <2>0, <2>a DEF Anchoring
  <2>2. a.from \in 1..n /\ a.to \in 1..n /\ a.from <= a.to
    BY <2>1, SpanBounds
  <2>3. ~ \E b \in anchors : b.from = a.from /\ b.to = a.to
    BY <1>1, <1>2, <2>1, SMT
  <2>4. /\ UNCHANGED <<head, sink, floor>> /\ Go(r, "anchorer", Idle)
        /\ anchors' = anchors \cup {a}
    BY <1>8, <2>a, <2>3 DEF AnchorCreate
  <2>5. /\ \A q \in Replicas : job'["anchorer"][q] = IF q = r THEN Idle ELSE job["anchorer"][q]
        /\ "pruner" \in Jobs => \A q \in Replicas : job'["pruner"][q] = job["pruner"][q]
    BY <1>0, <2>4, GoEffect, SMT
  <2>6. AnchorInv'
    <3>1. ASSUME NEW b \in anchors' \cup sink'
          PROVE  Spans(b)'
      <4>1. Spans(b)
        BY <1>2, <2>1, <2>4
      <4> QED
        BY <2>4, <4>1 DEF Spans
    <3>2. \A b \in anchors' : Follows(b)'
      BY <1>0, <2>1, <2>4 DEF AnchorInv, Follows
    <3>3. \A b \in anchors : b.to < a.from
      BY <1>1, <1>2, <2>1, SMT
    <3>4. \A b, d \in anchors' : b = d \/ b.to < d.from \/ d.to < b.from
      BY <1>0, <2>4, <3>3 DEF AnchorInv
    <3>5. \A b \in anchors' : b.to <= a.to
      BY <1>1, <1>2, <2>1, <2>2, <2>4, SMT
    <3>6. floor'.seq = 0 \/ \E b \in anchors' : b.to = floor'.seq
      BY <1>0, <2>4 DEF AnchorInv
    <3> QED
      BY <2>4, <3>1, <3>2, <3>4, <3>5, <3>6 DEF AnchorInv
  <2>7. SinkReconciles'
    <3> SUFFICES ASSUME SinkOn PROVE anchors' \subseteq sink' /\ \A b \in sink' : covers(anchors', b)
      BY DEF SinkReconciles
    <3>1. anchors' \subseteq sink'
      BY <2>1, <2>4 DEF AnchorsHold, SinkReconciles
    <3>2. ASSUME NEW b \in sink PROVE covers(anchors', b)
      <4>1. CASE covers(anchors, b)
        BY <2>4, <4>1 DEF covers
      <4>2. CASE b.from = LastTo + 1
        <5>1. b.from = a.from /\ a.to >= b.to
          BY <1>2, <2>1, <2>2, <4>2 DEF Widest
        <5> QED
          BY <2>4, <5>1 DEF covers
      <4> QED
        BY <4>1, <4>2 DEF AnchorsHold, SinkReconciles
    <3> QED
      BY <2>4, <3>1, <3>2
  <2>8. \A q \in Replicas : Anchoring(job["anchorer"][q])'
    <3> SUFFICES ASSUME NEW q \in Replicas PROVE Anchoring(job["anchorer"][q])'
      OBVIOUS
    <3>1. job'["anchorer"][q].pc = "idle"
      BY <1>6, <2>0, <2>5, SMT DEF Idle
    <3> QED
      BY <3>1 DEF Anchoring
  <2>9. "pruner" \in Jobs => \A q \in Replicas : Pruning(job["pruner"][q])'
    BY <2>4, <2>5, SMT DEF AnchorsHold, PassInv, Pruning
  <2>10. AnchorsHold'
    BY <2>6, <2>7, <2>8, <2>9 DEF AnchorsHold, PassInv
  <2> QED
    BY <2>4, <2>10
<1> QED
  BY <1>3, <1>4, <1>5, <1>7, <1>8 DEF AnchorerStep, AnchorLast, AnchorEntries, AnchorPrev

(***************************************************************************)
(* PruneChain cuts at the end of an anchor, so that no anchor is split,    *)
(* and never moves the floor back.                                         *)
(***************************************************************************)
LEMMA PrunerKeeps ==
  ASSUME LeaderInv, Unbroken, JobInv, breaks = 0, ChainInv, AnchorsHold,
         NEW r \in Replicas, PrunerStep(r)
  PROVE  /\ AnchorsHold' /\ UNCHANGED <<anchors, sink>>
         /\ floor' = floor \/ floor.seq < floor'.seq
<1> USE DEF ledgerVars
<1> DEFINE p == job["pruner"][r]
<1>0. "pruner" \in Jobs /\ Pruning(p) /\ AnchorInv
  BY DEF PrunerStep, PruneChainsBefore, PruneBoundary, PruneChain, Begins, Proceeds, At, AnchorsHold, PassInv
<1>1. UNCHANGED <<head, anchors, sink>>
  BY DEF PrunerStep, PruneChainsBefore, PruneBoundary, PruneChain
<1>2. LastTo' = LastTo
  BY <1>1, LastToAgain
<1>3. \A a : (Spans(a)' <=> Spans(a)) /\ (Follows(a)' <=> Follows(a)) /\ (Widest(a)' <=> Widest(a))
  BY <1>1, <1>2 DEF Spans, Follows, Widest
<1>4. SinkReconciles'
  BY <1>1, <1>2 DEF AnchorsHold, SinkReconciles
<1>5. ASSUME NEW c, Go(r, "pruner", c)
      PROVE  /\ "anchorer" \in Jobs => \A q \in Replicas : Anchoring(job["anchorer"][q])'
             /\ \A q \in Replicas : job'["pruner"][q] = IF q = r THEN c ELSE job["pruner"][q]
  <2>1. "anchorer" \in Jobs => \A q \in Replicas : job'["anchorer"][q] = job["anchorer"][q]
    BY <1>0, <1>5, GoEffect, SMT
  <2>2. "anchorer" \in Jobs => \A q \in Replicas : Anchoring(job["anchorer"][q])
    BY DEF AnchorsHold, PassInv
  <2> QED
    BY <1>0, <1>1, <1>2, <1>3, <1>5, <2>1, <2>2, GoEffect, SMT DEF Anchoring
<1>6. ASSUME NEW c, Go(r, "pruner", c), Pruning(c), floor' = floor PROVE AnchorsHold'
  <2>1. AnchorInv'
    BY <1>0, <1>1, <1>3, <1>6 DEF AnchorInv
  <2>2. \A d : Pruning(d) => Pruning(d)'
    BY <1>1, <1>6 DEF Pruning
  <2>3. \A q \in Replicas : Pruning(job["pruner"][q])'
    BY <1>0, <1>5, <1>6, <2>2 DEF AnchorsHold, PassInv
  <2> QED
    BY <1>4, <1>5, <1>6, <2>1, <2>3 DEF AnchorsHold, PassInv
<1>7. CASE PruneChainsBefore(r)
  <2>1. PICK a \in anchors : Go(r, "pruner", [pc |-> "boundary", cutoff |-> a.to])
    BY <1>7 DEF PruneChainsBefore
  <2> DEFINE d == [pc |-> "boundary", cutoff |-> a.to]
  <2>2. d.pc = "boundary" /\ d.cutoff = a.to
    OBVIOUS
  <2> HIDE DEF d
  <2>3. Pruning(d)
    BY <2>2 DEF Pruning
  <2> QED
    BY <1>1, <1>6, <1>7, <2>1, <2>3 DEF PruneChainsBefore, d
<1>8. CASE PruneBoundary(r)
  <2>0. floor' = floor /\ Go(r, "pruner", Boundary(pruneThrough(p.cutoff)))
    BY <1>8 DEF PruneBoundary
  <2>1. PICK a \in anchors : a.to = p.cutoff
    BY <1>0, <1>8 DEF PruneBoundary, Proceeds, At, Pruning
  <2>2. pruneThrough(p.cutoff) = a.to
    <3>1. LastTo \in Int /\ a.to \in Int /\ a.to <= LastTo
      <4>1. Spans(a)
        BY <1>0 DEF AnchorInv
      <4> QED
        BY <1>0, <4>1, LastAnchor, SpanBounds, SMT
    <3> DEFINE S == {LastTo, a.to}
    <3>2. S \in SUBSET Int /\ a.to \in S /\ \A y \in S : a.to <= y
      BY <3>1, SMT
    <3> HIDE DEF S
    <3>3. Min(S) = a.to
      BY <3>2, MinIs
    <3> QED
      BY <2>1, <3>3 DEF pruneThrough, S
  <2> DEFINE d == Boundary(a.to)
  <2>3. Pruning(d)
    <3>1. CASE a.to \in DOMAIN entries
      <4>1. d = [pc |-> "commit", through |-> a.to, prev |-> entries[a.to].hash]
        BY <3>1 DEF Boundary
      <4>2. d.pc = "commit" /\ d.through = a.to /\ d.prev = Prefix(head.hash, a.to)
        BY <3>1, <4>1, SMT DEF ChainInv
      <4>3. a.to > floor.seq
        BY <3>1, SMT DEF ChainInv
      <4> HIDE DEF d
      <4> QED
        BY <4>2, <4>3 DEF Pruning
    <3>2. CASE a.to \notin DOMAIN entries
      BY <3>2 DEF Boundary, Idle, Pruning
    <3> QED
      BY <3>1, <3>2
  <2> QED
    BY <1>1, <1>6, <2>0, <2>2, <2>3
<1>9. CASE PruneChain(r)
  <2>1. PICK t : t = p.through
    OBVIOUS
  <2>2. p.pc = "commit" /\ phase["pruner"][r] # "idle"
    BY <1>0, <1>9 DEF PruneChain, At, JobInv
  <2>3. (\E a \in anchors : a.to = t) /\ t > floor.seq
    BY <1>0, <2>1, <2>2 DEF Pruning
  <2>4. floor'.seq = t /\ Go(r, "pruner", Idle)
    BY <1>9, <2>1 DEF PruneChain
  <2>5. floor.seq < floor'.seq
    <3>1. t \in Nat /\ floor.seq \in Nat
      <4>1. PICK a \in anchors : a.to = t
        BY <2>3
      <4>2. Spans(a)
        BY <1>0 DEF AnchorInv
      <4> QED
        BY <4>1, <4>2, SpanBounds, SMT DEF ChainInv
    <3> QED
      BY <2>3, <2>4, <3>1
  <2>6. AnchorInv'
    BY <1>0, <1>1, <1>3, <2>3, <2>4 DEF AnchorInv
  <2>7. \A q \in Replicas : Pruning(job["pruner"][q])'
    <3> SUFFICES ASSUME NEW q \in Replicas PROVE Pruning(job["pruner"][q])'
      OBVIOUS
    <3>1. job'["pruner"][q].pc = "idle"
      <4>1. CASE q = r
        BY <1>5, <2>4, <4>1, SMT DEF Idle
      <4>2. CASE q # r
        BY <1>0, <1>5, <2>2, <2>4, <4>2, Alone, SMT
      <4> QED
        BY <4>1, <4>2
    <3> QED
      BY <3>1 DEF Pruning
  <2> QED
    BY <1>1, <1>4, <1>5, <2>4, <2>5, <2>6, <2>7 DEF AnchorsHold, PassInv
<1> QED
  BY <1>7, <1>8, <1>9 DEF PrunerStep

(***************************************************************************)
(* Passes that commit prunes are safe: what they cut is anchored, and the  *)
(* chainer inserts at the head.                                            *)
(***************************************************************************)
LEMMA PrunesSafely == ASSUME ChainInv, EventsInv, AnchorsHold PROVE PruneSafe
<1> SUFFICES ASSUME NEW r \in Replicas, At(r, "pruner", "commit")
             PROVE  /\ job["pruner"][r].through \in floor.seq..head.seq
                    /\ job["pruner"][r].prev = Prefix(head.hash, job["pruner"][r].through)
                    /\ \A q \in Replicas : At(q, "chainer", "insert") =>
                          job["pruner"][r].through <= job["chainer"][q].head.seq
  BY DEF PruneSafe
<1>1. PICK t : t = job["pruner"][r].through
  OBVIOUS
<1>2. (\E a \in anchors : a.to = t) /\ t > floor.seq /\ job["pruner"][r].prev = Prefix(head.hash, t)
  BY <1>1 DEF AnchorsHold, PassInv, Pruning, At
<1>3. t \in 1..head.seq /\ floor.seq \in Nat /\ head.seq \in Nat
  <2>1. PICK a \in anchors : a.to = t
    BY <1>2
  <2>2. Spans(a)
    BY DEF AnchorsHold, AnchorInv
  <2> QED
    BY <2>1, <2>2, SpanBounds, SMT DEF ChainInv
<1>4. \A q \in Replicas : At(q, "chainer", "insert") => job["chainer"][q].head.seq = head.seq
  BY DEF EventsInv, Draining, At
<1> QED
  BY <1>1, <1>2, <1>3, <1>4, SMT

-----------------------------------------------------------------------------
(* Events.                                                                 *)

(***************************************************************************)
(* A step that neither captures nor chains.                                *)
(***************************************************************************)
LEMMA EventsRest ==
  ASSUME EventsInv, Rests("chainer"), UNCHANGED <<pending, captured, head>>
  PROVE  EventsInv'
<1>1. Payloads' = Payloads
  BY DEF Payloads
<1>2. ASSUME "chainer" \in Jobs, NEW r \in Replicas PROVE Draining(job["chainer"][r])'
  BY <1>2 DEF EventsInv, Draining, Rests
<1> QED
  BY <1>1, <1>2 DEF EventsInv

(***************************************************************************)
(* A chaining pass that does not commit leaves its batch pending.          *)
(***************************************************************************)
LEMMA ChainerDrains ==
  ASSUME JobInv, EventsInv, UNCHANGED <<pending, captured, head>>, "chainer" \in Jobs,
         NEW r \in Replicas, NEW c, Go(r, "chainer", c), Draining(c)
  PROVE  EventsInv'
<1>1. Payloads' = Payloads
  BY DEF Payloads
<1>2. ASSUME NEW q \in Replicas PROVE Draining(job["chainer"][q])'
  <2>1. job'["chainer"][q] = IF q = r THEN c ELSE job["chainer"][q]
    BY GoEffect, SMT
  <2>2. Draining(job["chainer"][q])
    BY DEF EventsInv
  <2> QED
    BY <2>1, <2>2 DEF Draining
<1> QED
  BY <1>1, <1>2 DEF EventsInv

(***************************************************************************)
(* ProcessBatch moves its rows from pending to the chain, once.            *)
(***************************************************************************)
LEMMA BatchDrains ==
  ASSUME LeaderInv, Unbroken, JobInv, breaks = 0, CaptureInv, ChainInv, ChainerInv, EventsInv,
         NEW r \in Replicas, ProcessBatch(r)
  PROVE  EventsInv'
<1>0. PICK b : b = job["chainer"][r].batch
  OBVIOUS
<1> DEFINE n == head.seq
           m == Len(b)
<1>1. "chainer" \in Jobs /\ job["chainer"][r].pc = "commit" /\ phase["chainer"][r] # "idle"
  BY DEF ProcessBatch, At, JobInv
<1>2. /\ IsBatch(b) /\ head'.seq = n + m /\ n \in Nat
      /\ \A s \in 1..n : head'.hash[s] = head.hash[s]
      /\ \A s \in (n + 1)..head'.seq : head'.hash[s] = <<s, b[s - n]>>
  BY <1>0, BatchCommits DEF ChainInv
<1>3. b \in Seq(Events) /\ m \in Nat /\ \A i, j \in 1..m : b[i] = b[j] => i = j
  BY <1>2, SMT DEF IsBatch
<1>4. captured' = captured /\ pending' = pending \ Range(b)
  BY <1>0 DEF ProcessBatch, Unconsumed
<1>5. Range(b) \subseteq pending /\ pending = captured \ Payloads /\ Payloads \subseteq captured
  BY <1>0, <1>1 DEF EventsInv, Draining
<1>6. Range(b) = {b[i] : i \in 1..m}
  BY <1>3, SMT DEF Range
<1>7. ASSUME NEW s \in 1..(n + m)
      PROVE  \/ s \in 1..n /\ head'.hash[s][2] = head.hash[s][2] /\ head'.hash[s][2] \in Payloads
             \/ s - n \in 1..m /\ head'.hash[s][2] = b[s - n] /\ head'.hash[s][2] \in Range(b)
  <2>1. CASE s <= n
    <3>1. s \in 1..n
      BY <1>2, <1>3, <2>1, SMT
    <3> QED
      BY <1>2, <3>1 DEF Payloads
  <2>2. CASE ~ (s <= n)
    <3>1. s \in (n + 1)..(n + m) /\ s - n \in 1..m
      BY <1>2, <1>3, <2>2, SMT
    <3>2. head'.hash[s] = <<s, b[s - n]>>
      BY <1>2, <3>1
    <3> QED
      BY <1>6, <3>1, <3>2, SMT
  <2> QED
    BY <2>1, <2>2
<1>8. Payloads' = Payloads \cup Range(b)
  <2>1. Payloads' = {head'.hash[i][2] : i \in 1..(n + m)}
    BY <1>2 DEF Payloads
  <2>2. Payloads' \subseteq Payloads \cup Range(b)
    BY <1>7, <2>1
  <2>3. Payloads \subseteq Payloads'
    <3>1. \A i \in 1..n : i \in 1..(n + m) /\ head'.hash[i][2] = head.hash[i][2]
      BY <1>2, <1>3, SMT
    <3> QED
      BY <2>1, <3>1 DEF Payloads
  <2>4. Range(b) \subseteq Payloads'
    <3>1. ASSUME NEW i \in 1..m PROVE b[i] \in Payloads'
      <4>1. n + i \in (n + 1)..(n + m) /\ n + i \in 1..(n + m) /\ (n + i) - n = i
        BY <1>2, <1>3, SMT
      <4>2. head'.hash[n + i] = <<n + i, b[i]>>
        BY <1>2, <4>1
      <4> QED
        BY <2>1, <4>1, <4>2, SMT
    <3> QED
      BY <1>6, <3>1
  <2> QED
    BY <2>2, <2>3, <2>4
<1>9. ASSUME NEW i \in 1..head'.seq, NEW j \in 1..head'.seq, head'.hash[i][2] = head'.hash[j][2]
      PROVE  i = j
  <2>0. i \in 1..(n + m) /\ j \in 1..(n + m) /\ Range(b) \cap Payloads = {}
    BY <1>2, <1>5
  <2>1. CASE i \in 1..n /\ j \in 1..n
    BY <1>2, <1>9, <2>1 DEF EventsInv
  <2>2. CASE i - n \in 1..m /\ j - n \in 1..m /\ head'.hash[i][2] = b[i - n] /\ head'.hash[j][2] = b[j - n]
    <3>1. i - n = j - n
      BY <1>3, <1>9, <2>2
    <3> QED
      BY <1>2, <3>1, SMT
  <2> HIDE DEF n, m
  <2>3. /\ \/ i \in 1..n /\ head'.hash[i][2] \in Payloads
           \/ i - n \in 1..m /\ head'.hash[i][2] = b[i - n] /\ head'.hash[i][2] \in Range(b)
        /\ \/ j \in 1..n /\ head'.hash[j][2] \in Payloads
           \/ j - n \in 1..m /\ head'.hash[j][2] = b[j - n] /\ head'.hash[j][2] \in Range(b)
    BY <1>7, <2>0
  <2> QED
    BY <1>9, <2>0, <2>1, <2>2, <2>3
<1>10. ASSUME NEW q \in Replicas PROVE Draining(job["chainer"][q])'
  <2>1. job'["chainer"][q] = IF q = r THEN Idle ELSE job["chainer"][q]
    BY <1>1, GoEffect, SMT DEF ProcessBatch
  <2>2. q # r => job["chainer"][q].pc = "idle"
    BY <1>1, Alone
  <2>3. job'["chainer"][q].pc = "idle"
    BY <2>1, <2>2, SMT DEF Idle
  <2> QED
    BY <2>3 DEF Draining
<1> QED
  BY <1>4, <1>5, <1>8, <1>9, <1>10 DEF EventsInv

(***************************************************************************)
(* Every step of the one chainer keeps each event pending or chained once. *)
(***************************************************************************)
LEMMA ChainerEvents ==
  ASSUME LeaderInv, Unbroken, JobInv, breaks = 0, CaptureInv, ChainInv, ChainerInv, EventsInv,
         NEW r \in Replicas, ChainerStep(r)
  PROVE  EventsInv'
<1> USE DEF ledgerVars
<1> DEFINE c == job["chainer"][r]
<1>0. "chainer" \in Jobs /\ Draining(c)
  BY DEF ChainerStep, ChainerSelect, ChainerHead, ChainerInsert, ProcessBatch, Begins, Proceeds, At, EventsInv
<1>1. CASE ChainerSelect(r)
  <2>1. PICK batch : /\ Go(r, "chainer", [pc |-> "head", batch |-> batch])
                     /\ Range(batch) \subseteq pending
    BY <1>1, Selected DEF ChainerSelect
  <2> DEFINE d == [pc |-> "head", batch |-> batch]
  <2>2. d.pc = "head" /\ d.batch = batch
    OBVIOUS
  <2> HIDE DEF d
  <2>3. Draining(d)
    BY <2>1, <2>2 DEF Draining
  <2> QED
    BY <1>0, <1>1, <2>1, <2>3, ChainerDrains DEF ChainerSelect, d
<1>2. CASE ChainerHead(r)
  <2> DEFINE d == [pc |-> "insert", batch |-> c.batch, head |-> head]
  <2>1. d.pc = "insert" /\ d.batch = c.batch /\ d.head = head
    OBVIOUS
  <2>2. Range(c.batch) \subseteq pending
    BY <1>0, <1>2 DEF ChainerHead, Proceeds, At, Draining
  <2>3. Go(r, "chainer", d) /\ UNCHANGED <<pending, captured, head>>
    BY <1>2 DEF ChainerHead
  <2> HIDE DEF d
  <2>4. Draining(d)
    BY <2>1, <2>2 DEF Draining
  <2> QED
    BY <1>0, <2>3, <2>4, ChainerDrains
<1>3. CASE ChainerInsert(r)
  <2>1. UNCHANGED <<pending, captured, head>>
    BY <1>3 DEF ChainerInsert
  <2>2. CASE Go(r, "chainer", Idle)
    BY <1>0, <2>1, <2>2, GoRests, EventsRest, SMT DEF Idle
  <2>3. CASE Go(r, "chainer", [c EXCEPT !.pc = "commit"])
    <3>1. c.pc = "insert" /\ Shaped(c)
      BY <1>0, <1>3 DEF ChainerInsert, Proceeds, At, JobInv
    <3> DEFINE d == [c EXCEPT !.pc = "commit"]
    <3>2. d.pc = "commit" /\ d.batch = c.batch
      BY <3>1 DEF Shaped
    <3> HIDE DEF d
    <3>3. Draining(d)
      BY <1>0, <3>1, <3>2 DEF Draining
    <3> QED
      BY <1>0, <2>1, <2>3, <3>3, ChainerDrains DEF d
  <2> QED
    BY <1>3, <2>2, <2>3 DEF ChainerInsert
<1>4. CASE ProcessBatch(r)
  BY <1>4, BatchDrains
<1> QED
  BY <1>1, <1>2, <1>3, <1>4 DEF ChainerStep

-----------------------------------------------------------------------------
(* verify-audit.                                                           *)

(***************************************************************************)
(* What a verification has read stays true, or a prune explains it.        *)
(***************************************************************************)
LEMMA VerifyingOn ==
  ASSUME ChainInv, ChainInv', Extends, AnchorInv,
         anchors \subseteq anchors', sink \subseteq sink', \A a \in sink' \ sink : a.from = LastTo + 1,
         floor' = floor \/ floor.seq < floor'.seq,
         NEW w, Verifying(w)
  PROVE  Verifying(w)'
<1>0. /\ floor.seq \in Nat /\ floor'.seq \in Nat /\ head.seq \in Nat /\ head'.seq \in Nat
      /\ head.seq <= head'.seq /\ floor.seq <= head.seq
  <2>1. head.seq \in Nat /\ floor.seq \in 0..head.seq
    BY SMT DEF ChainInv
  <2>2. head'.seq \in Nat /\ floor'.seq \in 0..head'.seq
    BY SMT DEF ChainInv
  <2> QED
    BY <2>1, <2>2, SMT DEF Extends
<1>1. w.pc \in {"chain", "anchors", "ranges"} =>
          w.floor \in 0..floor'.seq /\ (w.floor = floor'.seq => floor' = floor /\ w.floor = floor.seq)
  BY <1>0, SMT DEF Verifying
<1>2. w.pc = "chain" /\ w.floor = floor'.seq =>
          w.cursor \in floor'.seq..head'.seq /\ w.prev = Prefix(head'.hash, w.cursor)
  <2> SUFFICES ASSUME w.pc = "chain", w.floor = floor'.seq
               PROVE  w.cursor \in floor'.seq..head'.seq /\ w.prev = Prefix(head'.hash, w.cursor)
    OBVIOUS
  <2>1. floor' = floor /\ w.cursor \in floor.seq..head.seq /\ w.prev = Prefix(head.hash, w.cursor)
    BY <1>1 DEF Verifying
  <2>2. w.cursor \in 0..head.seq /\ w.cursor \in floor'.seq..head'.seq
    BY <1>0, <2>1, SMT
  <2> QED
    BY <2>1, <2>2 DEF Extends
<1>3. w.pc = "ranges" /\ w.floor = floor'.seq => Walk(w)'
  <2> SUFFICES ASSUME w.pc = "ranges", w.floor = floor'.seq PROVE Walk(w)'
    OBVIOUS
  <2>1. floor' = floor /\ Walk(w)
    BY <1>1 DEF Verifying
  <2> QED
    BY <2>1 DEF Walk
<1>4. w.pc = "sink" \/ (w.pc = "alarm" /\ w.check = "sink") =>
          /\ w.anchors \subseteq anchors' /\ w.anchors \subseteq sink'
          /\ \A a \in sink' : covers(w.anchors, a) \/ \A b \in w.anchors : a.from > b.to
  <2> SUFFICES ASSUME w.pc = "sink" \/ (w.pc = "alarm" /\ w.check = "sink")
               PROVE  /\ w.anchors \subseteq anchors' /\ w.anchors \subseteq sink'
                      /\ \A a \in sink' : covers(w.anchors, a) \/ \A b \in w.anchors : a.from > b.to
    OBVIOUS
  <2>1. /\ w.anchors \subseteq anchors /\ w.anchors \subseteq sink
        /\ \A a \in sink : covers(w.anchors, a) \/ \A b \in w.anchors : a.from > b.to
    BY DEF Verifying
  <2>2. ASSUME NEW a \in sink' \ sink, NEW b \in w.anchors PROVE a.from > b.to
    <3>1. b \in anchors /\ Spans(b)
      BY <2>1 DEF AnchorInv
    <3>2. LastTo \in Nat /\ b.to \in Nat /\ b.to <= LastTo
      BY <3>1, LastAnchor, SpanBounds, SMT
    <3> QED
      BY <3>2, SMT
  <2> QED
    BY <2>1, <2>2
<1>5. w.pc = "alarm" /\ w.check # "sink" => w.floor \in Nat /\ w.floor < floor'.seq
  <2> SUFFICES ASSUME w.pc = "alarm", w.check # "sink" PROVE w.floor \in Nat /\ w.floor < floor'.seq
    OBVIOUS
  <2>1. w.floor \in Nat /\ w.floor < floor.seq
    BY DEF Verifying
  <2> QED
    BY <1>0, <2>1, SMT
<1> QED
  BY <1>1, <1>2, <1>3, <1>4, <1>5, SMT DEF Verifying

(***************************************************************************)
(* A verification that moves leaves the ledger and the others alone.       *)
(***************************************************************************)
LEMMA VerifierMoves ==
  ASSUME VerifierInv, VerifierOnly, NEW v \in Verifiers, NEW w, VGo(v, w), Verifying(w)
  PROVE  VerifierInv'
<1> DEFINE V == [u \in Verifiers |-> verifier[u]]
<1>1. verifier = V
  BY DEF VerifierInv
<1>2. verifier' = [V EXCEPT ![v] = w]
  BY <1>1 DEF VGo
<1>3. \A u \in Verifiers : verifier'[u] = IF u = v THEN w ELSE verifier[u]
  BY <1>2
<1>4. verifier' = [u \in Verifiers |-> verifier'[u]]
  BY <1>2
<1>5. LastTo' = LastTo
  BY LastToAgain, SMT DEF VerifierOnly, ledgerVars
<1>6. \A x : Verifying(x) => Verifying(x)'
  BY SMT DEF VerifierOnly, ledgerVars, Verifying, Walk
<1> QED
  BY <1>3, <1>4, <1>6 DEF VerifierInv

\* The first k numbers above c, and the batch a query with LIMIT VerifyBatchSize returns.
FirstNumbers(c, n, k) == {s \in (c + 1)..n : s - 1 - c < k}

Beyond(D, c) == {s \in D : s > c}

BatchOf(D, c) == {s \in Beyond(D, c) : Cardinality({t \in Beyond(D, c) : t < s}) < VerifyBatchSize}

(***************************************************************************)
(* The first k numbers above c are consecutive and have a last one.        *)
(***************************************************************************)
LEMMA FirstNumbersFollow ==
  ASSUME NEW n \in Nat, NEW c \in 0..n, NEW k \in Nat \ {0}
  PROVE  LET batch == FirstNumbers(c, n, k)
         IN /\ batch \subseteq (c + 1)..n
            /\ \A s \in batch : s = c + 1 \/ s - 1 \in batch
            /\ batch # {} => \E m \in batch : \A s \in batch : m >= s
<1> DEFINE batch == FirstNumbers(c, n, k)
<1>0. \A s : s \in batch <=> s \in (c + 1)..n /\ s - 1 - c < k
  BY DEF FirstNumbers
<1> HIDE DEF batch
<1>1. \A s \in batch : s = c + 1 \/ s - 1 \in batch
  BY <1>0, SMT
<1>2. ASSUME batch # {} PROVE \E m \in batch : \A s \in batch : m >= s
  <2>1. CASE n - 1 - c < k
    <3>1. n \in batch /\ \A s \in batch : n >= s
      BY <1>0, <1>2, <2>1, SMT
    <3> QED
      BY <3>1
  <2>2. CASE ~ (n - 1 - c < k)
    <3>1. c + k \in batch /\ \A s \in batch : c + k >= s
      BY <1>0, <2>2, SMT
    <3> QED
      BY <3>1
  <2> QED
    BY <2>1, <2>2
<1> QED
  BY <1>0, <1>1, <1>2 DEF batch

(***************************************************************************)
(* A batch of VerifyChainFrom: the next rows of the chain.                 *)
(***************************************************************************)
LEMMA NextRows ==
  ASSUME NEW f \in Nat, NEW n \in Nat, NEW c \in f..n
  PROVE  BatchOf((f + 1)..n, c) = FirstNumbers(c, n, VerifyBatchSize)
<1> DEFINE beyond == Beyond((f + 1)..n, c)
<1>1. beyond = (c + 1)..n
  BY SMT DEF Beyond
<1> HIDE DEF beyond
<1>2. ASSUME NEW s \in beyond PROVE Cardinality({t \in beyond : t < s}) = s - 1 - c
  <2>1. {t \in beyond : t < s} = (c + 1)..(s - 1)
    BY <1>1, SMT
  <2>2. Cardinality((c + 1)..(s - 1)) = IF c + 1 > s - 1 THEN 0 ELSE (s - 1) - (c + 1) + 1
    BY <1>1, FS_Interval, SMT
  <2>3. s \in Int /\ s >= c + 1 /\ c \in Int
    BY <1>1, SMT
  <2>4. (IF c + 1 > s - 1 THEN 0 ELSE (s - 1) - (c + 1) + 1) = s - 1 - c
    BY <2>3, SMT
  <2> QED
    BY <2>1, <2>2, <2>4
<1>3. {s \in beyond : Cardinality({t \in beyond : t < s}) < VerifyBatchSize}
        = {s \in (c + 1)..n : s - 1 - c < VerifyBatchSize}
  BY <1>1, <1>2
<1> QED
  BY <1>3 DEF BatchOf, FirstNumbers, beyond

(***************************************************************************)
(* A batch of VerifyChainFrom finds the links it expects unless a prune    *)
(* has moved the floor since the checkpoint was loaded.                    *)
(***************************************************************************)
LEMMA VerifiesChain ==
  ASSUME ChainInv, VerifierInv, NEW v \in Verifiers, VerifyChainFrom(v)
  PROVE  VerifierInv'
<1> DEFINE w == verifier[v]
           beyond == {s \in DOMAIN entries : s > w.cursor}
           batch == {s \in beyond : Cardinality({t \in beyond : t < s}) < VerifyBatchSize}
           answer == CASE batch = {} -> [pc |-> "anchors", floor |-> w.floor]
                       [] batch # {} /\ Continues(batch, w.cursor, w.prev) -> Resume(w, batch)
                       [] OTHER -> Alarm("chain", w, {})
<1>1. w.pc = "chain" /\ VGo(v, answer) /\ VerifierOnly
  BY DEF VerifyChainFrom
<1>2. /\ Verifying(w) /\ w.floor \in 0..floor.seq
      /\ w = [pc |-> w.pc, floor |-> w.floor, cursor |-> w.cursor, prev |-> w.prev]
  BY <1>1 DEF VerifierInv, Verifying
<1>3. /\ floor.seq \in Nat /\ head.seq \in Nat /\ floor.seq <= head.seq
      /\ DOMAIN entries = (floor.seq + 1)..head.seq
  BY SMT DEF ChainInv
<1>4. ASSUME w.floor = floor.seq
      PROVE  /\ Continues(batch, w.cursor, w.prev)
             /\ batch # {} => /\ Max(batch) \in floor.seq..head.seq
                              /\ entries[Max(batch)].hash = Prefix(head.hash, Max(batch))
  <2>1. w.cursor \in floor.seq..head.seq /\ w.prev = Prefix(head.hash, w.cursor)
    BY <1>1, <1>2, <1>4 DEF Verifying
  <2>2. PICK f, n, c, p : f = floor.seq /\ n = head.seq /\ c = w.cursor /\ p = w.prev
    OBVIOUS
  <2>3. f \in Nat /\ n \in Nat /\ c \in f..n /\ DOMAIN entries = (f + 1)..n
    BY <1>3, <2>1, <2>2
  <2>0. batch = BatchOf(DOMAIN entries, w.cursor)
    <3>1. beyond = Beyond(DOMAIN entries, w.cursor)
      BY DEF Beyond
    <3> HIDE DEF beyond, w
    <3> QED
      BY <3>1 DEF BatchOf
  <2> HIDE DEF beyond, batch
  <2>4. /\ batch \subseteq (c + 1)..n
        /\ \A s \in batch : s = c + 1 \/ s - 1 \in batch
        /\ batch # {} => \E m \in batch : \A s \in batch : m >= s
    <3>1. batch = FirstNumbers(c, n, VerifyBatchSize)
      <4>1. batch = BatchOf((f + 1)..n, c) /\ f \in Nat /\ n \in Nat /\ c \in f..n
        BY <2>0, <2>2, <2>3
      <4> QED
        BY <4>1, NextRows
    <3>2. VerifyBatchSize \in Nat \ {0} /\ c \in 0..n
      BY <2>3, AuditAssumption, SMT
    <3> QED
      BY <2>3, <3>1, <3>2, FirstNumbersFollow
  <2>5. batch \in SUBSET DOMAIN entries /\ \A s \in batch : s > c /\ (s = c + 1 \/ s - 1 \in batch)
    BY <2>3, <2>4, SMT
  <2>6. Continues(batch, c, Prefix(head.hash, c))
    BY <2>1, <2>2, <2>5, Linked
  <2>7. ASSUME batch # {}
        PROVE  /\ Max(batch) \in floor.seq..head.seq
               /\ entries[Max(batch)].hash = Prefix(head.hash, Max(batch))
    <3>1. PICK m \in batch : \A s \in batch : m >= s
      BY <2>4, <2>7
    <3>2. batch \in SUBSET Int
      BY <2>3, <2>4, SMT
    <3>3. Max(batch) = m
      BY <3>1, <3>2, MaxIs
    <3>4. m \in DOMAIN entries /\ m \in floor.seq..head.seq
      BY <1>3, <2>5, SMT
    <3> QED
      BY <3>3, <3>4 DEF ChainInv
  <2> QED
    BY <2>1, <2>2, <2>6, <2>7
<1>5. Verifying(answer)
  <2> HIDE DEF batch
  <2>1. CASE batch = {}
    <3>1. PICK d : d = [pc |-> "anchors", floor |-> w.floor]
      OBVIOUS
    <3>2. d.pc = "anchors" /\ d.floor = w.floor /\ answer = d
      BY <2>1, <3>1
    <3> QED
      BY <1>2, <3>2 DEF Verifying
  <2>2. CASE batch # {} /\ Continues(batch, w.cursor, w.prev)
    <3>1. PICK d : d = Resume(w, batch)
      OBVIOUS
    <3>2. d = [pc |-> "chain", floor |-> w.floor, cursor |-> Max(batch), prev |-> entries[Max(batch)].hash]
      BY <1>1, <1>2, <3>1 DEF Resume
    <3>3. /\ d.pc = "chain" /\ d.floor = w.floor /\ d.cursor = Max(batch)
          /\ d.prev = entries[Max(batch)].hash /\ answer = d
      BY <2>2, <3>1, <3>2, SMT
    <3> QED
      BY <1>2, <1>4, <2>2, <3>2, <3>3 DEF Verifying
  <2>3. CASE batch # {} /\ ~ Continues(batch, w.cursor, w.prev)
    <3>1. PICK d : d = Alarm("chain", w, {})
      OBVIOUS
    <3>2. d.pc = "alarm" /\ d.check = "chain" /\ d.floor = w.floor /\ answer = d
      BY <2>3, <3>1 DEF Alarm
    <3>3. w.floor \in Nat /\ w.floor < floor.seq
      BY <1>2, <1>3, <1>4, <2>3, SMT
    <3> QED
      BY <3>2, <3>3 DEF Verifying
  <2> QED
    BY <2>1, <2>2, <2>3
<1> HIDE DEF answer
<1> QED
  BY <1>1, <1>5, VerifierMoves

(***************************************************************************)
(* The other steps of a verification.  A walk over the anchors meets each  *)
(* one where the last ended: they are disjoint, each follows one, and the  *)
(* floor is the end of one.                                                *)
(***************************************************************************)
LEMMA AnchorsFollow ==
  ASSUME ChainInv, AnchorInv
  PROVE  \A a \in anchors : a.to > floor.seq =>
            /\ floor.seq < a.from
            /\ a.from = floor.seq + 1 \/
               \E b \in anchors : b.to > floor.seq /\ b.to + 1 = a.from /\ a.prev = AnchorHash(b)
<1> SUFFICES ASSUME NEW a \in anchors, a.to > floor.seq
             PROVE  /\ floor.seq < a.from
                    /\ a.from = floor.seq + 1 \/
                       \E b \in anchors : b.to > floor.seq /\ b.to + 1 = a.from /\ a.prev = AnchorHash(b)
  OBVIOUS
<1>0. floor.seq \in Nat /\ head.seq \in Nat
  BY SMT DEF ChainInv
<1>1. \A b \in anchors : b.from \in 1..head.seq /\ b.to \in 1..head.seq /\ b.from <= b.to
  BY SpanBounds DEF AnchorInv
<1>2. floor.seq < a.from
  <2>1. CASE floor.seq = 0
    BY <1>1, <2>1, SMT
  <2>2. CASE floor.seq # 0
    <3>1. PICK b \in anchors : b.to = floor.seq
      BY <2>2 DEF AnchorInv
    <3>2. a = b \/ a.to < b.from \/ b.to < a.from
      BY DEF AnchorInv
    <3> QED
      BY <1>0, <1>1, <3>1, <3>2, SMT
  <2> QED
    BY <2>1, <2>2
<1>3. ASSUME a.from # floor.seq + 1
      PROVE  \E b \in anchors : b.to > floor.seq /\ b.to + 1 = a.from /\ a.prev = AnchorHash(b)
  <2>1. a.from # 1
    BY <1>0, <1>1, <1>2, <1>3, SMT
  <2>2. PICK b \in anchors : b.to + 1 = a.from /\ a.prev = AnchorHash(b)
    BY <2>1 DEF AnchorInv, Follows
  <2>3. b.to > floor.seq
    BY <1>0, <1>1, <1>2, <1>3, <2>2, SMT
  <2> QED
    BY <2>2, <2>3
<1> QED
  BY <1>2, <1>3

(***************************************************************************)
(* The entries an anchor above the floor covers hash to its root.          *)
(***************************************************************************)
LEMMA SpanMatches ==
  ASSUME ChainInv, NEW a, Spans(a), floor.seq < a.from
  PROVE  RootMatches(a)
<1>0. /\ floor.seq \in Nat /\ head.seq \in Nat /\ a.from \in 1..head.seq /\ a.to \in a.from..head.seq
      /\ DOMAIN entries = (floor.seq + 1)..head.seq
  BY SMT DEF ChainInv, Spans
<1>1. a.from..a.to \subseteq DOMAIN entries
  BY <1>0, SMT
<1>2. ASSUME NEW i \in 1..(a.to - a.from + 1)
      PROVE  entries[a.from + i - 1].hash = Prefix(head.hash, a.from + i - 1)
  <2>1. a.from + i - 1 \in DOMAIN entries
    BY <1>0, SMT
  <2> QED
    BY <2>1 DEF ChainInv
<1>3. [i \in 1..(a.to - a.from + 1) |-> entries[a.from + i - 1].hash] = a.root
  BY <1>2 DEF Spans
<1> QED
  BY <1>1, <1>3 DEF RootMatches, MerkleRoot

(***************************************************************************)
(* The next anchor of a walk starts where the last one ended, names it,    *)
(* and matches the entries it covers.                                      *)
(***************************************************************************)
LEMMA NextAnchorFits ==
  ASSUME ChainInv, AnchorInv, NEW w, Walk(w), NEW a \in w.left, \A b \in w.left : a.from <= b.from
  PROVE  /\ a.from = w.from /\ (w.prev = NoHash \/ a.prev = w.prev) /\ RootMatches(a)
         /\ \A b \in w.left \ {a} :
                a.to + 1 <= b.from /\ (b.from = a.to + 1 \/ \E e \in w.left \ {a} : e.to + 1 = b.from)
<1>0. PICK L, x : L = w.left /\ x = w.from
  OBVIOUS
<1>1. /\ a \in L /\ L \subseteq anchors /\ x \in Nat
      /\ \A b \in L : a.from <= b.from
      /\ \A b \in L : b.from = x \/ \E e \in L : e.to + 1 = b.from
      /\ \A b \in L : floor.seq < b.from
  BY <1>0 DEF Walk
<1>2. \A b \in anchors : b.from \in Nat /\ b.to \in Nat /\ b.from <= b.to /\ b.from > 0
  <2>1. \A b \in anchors : Spans(b)
    BY DEF AnchorInv
  <2>2. ASSUME NEW b \in anchors
        PROVE  /\ head.seq \in Nat
               /\ b.from \in 1..head.seq /\ b.to \in 1..head.seq /\ b.from <= b.to
    BY <2>1, SpanBounds
  <2> QED
    BY <2>2, SMT
<1>3. \A b, e \in anchors : b = e \/ b.to < e.from \/ e.to < b.from
  BY DEF AnchorInv
<1>4. a \in anchors /\ a.from \in Nat /\ a.to \in Nat /\ a.from <= a.to /\ a.from > 0
  BY <1>1, <1>2
<1>5. a.from = x
  <2> SUFFICES ASSUME a.from # x PROVE FALSE
    OBVIOUS
  <2>1. PICK e \in L : e.to + 1 = a.from
    BY <1>1
  <2>2. a.from <= e.from /\ e \in anchors
    BY <1>1
  <2>3. e.from \in Nat /\ e.to \in Nat /\ e.from <= e.to
    BY <1>2, <2>2
  <2> QED
    BY <1>4, <2>1, <2>2, <2>3, SMT
<1>6. w.prev = NoHash \/ a.prev = w.prev
  <2> SUFFICES ASSUME w.prev # NoHash PROVE a.prev = w.prev
    OBVIOUS
  <2>1. PICK b \in anchors : b.to + 1 = x /\ w.prev = AnchorHash(b)
    BY <1>0 DEF Walk
  <2>2. b.to \in Nat /\ b.from \in Nat /\ b.from <= b.to /\ b.from > 0
    BY <1>2
  <2>3. a.from # 1
    BY <1>5, <2>1, <2>2, SMT
  <2>4. PICK e \in anchors : e.to + 1 = a.from /\ a.prev = AnchorHash(e)
    BY <1>4, <2>3 DEF AnchorInv, Follows
  <2>5. e.to \in Nat /\ e.from \in Nat /\ e.from <= e.to
    BY <1>2
  <2>6. e = b \/ e.to < b.from \/ b.to < e.from
    BY <1>3
  <2>7. e = b
    BY <1>5, <2>1, <2>2, <2>4, <2>5, <2>6, SMT
  <2> QED
    BY <2>1, <2>4, <2>7
<1>7. RootMatches(a)
  <2>1. Spans(a) /\ floor.seq < a.from
    BY <1>1, <1>4 DEF AnchorInv
  <2> QED
    BY <2>1, SpanMatches
<1>8. ASSUME NEW b \in L \ {a}
      PROVE  a.to + 1 <= b.from /\ (b.from = a.to + 1 \/ \E e \in L \ {a} : e.to + 1 = b.from)
  <2>1. b \in L /\ b \in anchors /\ b # a /\ a.from <= b.from
    BY <1>1
  <2>2. b.from \in Nat /\ b.to \in Nat /\ b.from <= b.to
    BY <1>2, <2>1
  <2>3. a.to < b.from \/ b.to < a.from
    BY <1>3, <1>4, <2>1
  <2>4. a.to + 1 <= b.from /\ b.from # x
    BY <1>4, <1>5, <2>1, <2>2, <2>3, SMT
  <2>5. PICK e \in L : e.to + 1 = b.from
    BY <1>1, <2>1, <2>4
  <2> QED
    BY <2>4, <2>5
<1> QED
  BY <1>0, <1>5, <1>6, <1>7, <1>8

(***************************************************************************)
(* A step of VerifyAnchorsFrom goes on to the next anchor unless a prune   *)
(* has moved the floor since the checkpoint was loaded.                    *)
(***************************************************************************)
LEMMA VerifiesAnchors ==
  ASSUME ChainInv, AnchorInv, VerifierInv, NEW v \in Verifiers, VerifyAnchorsFrom(v)
  PROVE  VerifierInv'
<1> DEFINE w == verifier[v]
           fits(a) == a.from = w.from /\ (w.prev = NoHash \/ a.prev = w.prev) /\ RootMatches(a)
           on(a) == [w EXCEPT !.from = a.to + 1, !.prev = AnchorHash(a), !.left = w.left \ {a}]
<1>1. /\ w.pc = "ranges" /\ VerifierOnly
      /\ \/ w.left = {} /\ VGo(v, [pc |-> IF SinkOn THEN "database" ELSE "ok", floor |-> w.floor])
         \/ \E a \in w.left : /\ \A b \in w.left : a.from <= b.from
                             /\ VGo(v, IF fits(a) THEN on(a) ELSE Alarm("anchors", w, {}))
  BY DEF VerifyAnchorsFrom
<1>2. /\ Verifying(w) /\ w.floor \in 0..floor.seq
      /\ w = [pc |-> w.pc, floor |-> w.floor, from |-> w.from, prev |-> w.prev, left |-> w.left]
      /\ w.floor = floor.seq => Walk(w)
  BY <1>1 DEF VerifierInv, Verifying
<1>3. floor.seq \in Nat
  BY SMT DEF ChainInv
<1>4. CASE w.left = {} /\ VGo(v, [pc |-> IF SinkOn THEN "database" ELSE "ok", floor |-> w.floor])
  <2>1. PICK d : d = [pc |-> IF SinkOn THEN "database" ELSE "ok", floor |-> w.floor]
    OBVIOUS
  <2>2. d.pc = IF SinkOn THEN "database" ELSE "ok"
    BY <2>1
  <2>3. Verifying(d)
    BY <2>2 DEF Verifying
  <2> QED
    BY <1>1, <1>4, <2>1, <2>3, VerifierMoves
<1>5. CASE \E a \in w.left : /\ \A b \in w.left : a.from <= b.from
                            /\ VGo(v, IF fits(a) THEN on(a) ELSE Alarm("anchors", w, {}))
  <2>1. PICK a \in w.left : /\ \A b \in w.left : a.from <= b.from
                            /\ VGo(v, IF fits(a) THEN on(a) ELSE Alarm("anchors", w, {}))
    BY <1>5
  <2>2. ASSUME w.floor = floor.seq
        PROVE  /\ fits(a)
               /\ \A b \in w.left \ {a} :
                      a.to + 1 <= b.from /\ (b.from = a.to + 1 \/ \E e \in w.left \ {a} : e.to + 1 = b.from)
    <3>1. Walk(w)
      BY <1>2, <2>2
    <3>2. PICK x : x = w
      OBVIOUS
    <3>3. Walk(x) /\ a \in x.left /\ \A b \in x.left : a.from <= b.from
      BY <2>1, <3>1, <3>2
    <3>4. /\ a.from = x.from /\ (x.prev = NoHash \/ a.prev = x.prev) /\ RootMatches(a)
          /\ \A b \in x.left \ {a} :
                 a.to + 1 <= b.from /\ (b.from = a.to + 1 \/ \E e \in x.left \ {a} : e.to + 1 = b.from)
      <4> HIDE DEF w
      <4> QED
        BY <3>3, NextAnchorFits, SMT
    <3> QED
      BY <3>2, <3>4
  <2>3. CASE fits(a)
    <3>1. PICK d : d = on(a)
      OBVIOUS
    <3>2. d = [pc |-> "ranges", floor |-> w.floor, from |-> a.to + 1, prev |-> AnchorHash(a),
               left |-> w.left \ {a}]
      BY <1>1, <1>2, <3>1
    <3>3. d.pc = "ranges" /\ d.floor = w.floor /\ d.from = a.to + 1 /\ d.prev = AnchorHash(a)
          /\ d.left = w.left \ {a}
      BY <3>2
    <3>4. ASSUME w.floor = floor.seq PROVE Walk(d)
      <4>1. Walk(w)
        BY <1>2, <3>4
      <4>2. w.left \subseteq anchors /\ a \in anchors /\ \A b \in w.left : floor.seq < b.from
        BY <4>1 DEF Walk
      <4>3. a.to + 1 \in Nat
        BY <4>2, SpanBounds, SMT DEF AnchorInv
      <4>4. PICK L : L = w.left \ {a}
        OBVIOUS
      <4>5. /\ L \subseteq anchors
            /\ \A b \in L : /\ a.to + 1 <= b.from /\ floor.seq < b.from
                            /\ b.from = a.to + 1 \/ \E e \in L : e.to + 1 = b.from
        BY <2>2, <3>4, <4>2, <4>4
      <4>6. d.left = L
        BY <3>3, <4>4
      <4> HIDE DEF w, on
      <4> QED
        BY <3>3, <4>2, <4>3, <4>5, <4>6 DEF Walk
    <3>5. Verifying(d)
      BY <1>2, <3>2, <3>3, <3>4 DEF Verifying
    <3> QED
      BY <1>1, <2>1, <2>3, <3>1, <3>5, VerifierMoves
  <2>4. CASE ~ fits(a)
    <3>1. PICK d : d = Alarm("anchors", w, {})
      OBVIOUS
    <3>2. d.pc = "alarm" /\ d.check = "anchors" /\ d.floor = w.floor
      BY <3>1 DEF Alarm
    <3>3. w.floor \in Nat /\ w.floor < floor.seq
      BY <1>2, <1>3, <2>2, <2>4, SMT
    <3>4. Verifying(d)
      BY <3>2, <3>3 DEF Verifying
    <3> QED
      BY <1>1, <2>1, <2>4, <3>1, <3>4, VerifierMoves
  <2> QED
    BY <2>3, <2>4
<1> QED
  BY <1>1, <1>4, <1>5

(***************************************************************************)
(* Every step of verify-audit, on a ledger that only the jobs write.       *)
(***************************************************************************)
LEMMA VerifierKeeps ==
  ASSUME ChainInv, AnchorsHold, VerifierInv, NEW v \in Verifiers, VerifierStep(v)
  PROVE  VerifierInv' /\ UNCHANGED <<ledgerVars, job>>
<1> DEFINE w == verifier[v]
<1>0. AnchorInv /\ SinkReconciles /\ Verifying(w)
  BY DEF AnchorsHold, VerifierInv
<1>1. floor.seq \in Nat /\ head.seq \in Nat /\ floor.seq \in 0..head.seq
  BY SMT DEF ChainInv
<1>2. ASSUME LoadCheckpoint(v) PROVE VerifierInv'
  <2>1. PICK d : d = [pc |-> "chain", floor |-> floor.seq, cursor |-> floor.seq, prev |-> floor.prev]
    OBVIOUS
  <2>2. d.pc = "chain" /\ d.floor = floor.seq /\ d.cursor = floor.seq /\ d.prev = floor.prev
    BY <2>1
  <2>3. floor.seq \in 0..floor.seq /\ floor.seq \in floor.seq..head.seq /\ floor.prev = Prefix(head.hash, floor.seq)
    BY <1>1, SMT DEF ChainInv
  <2>4. Verifying(d)
    BY <2>1, <2>2, <2>3 DEF Verifying
  <2>5. VGo(v, d) /\ VerifierOnly
    BY <1>2, <2>1 DEF VGo, LoadCheckpoint
  <2> QED
    BY <2>4, <2>5, VerifierMoves
<1>3. ASSUME VerifyChainFrom(v) PROVE VerifierInv'
  BY <1>3, VerifiesChain
<1>4. ASSUME VerifyAnchorsList(v) PROVE VerifierInv'
  <2>1. PICK d : d = [pc |-> "ranges", floor |-> w.floor, from |-> w.floor + 1, prev |-> NoHash,
                      left |-> {a \in anchors : a.to > w.floor}]
    OBVIOUS
  <2>2. /\ d.pc = "ranges" /\ d.floor = w.floor /\ d.from = w.floor + 1 /\ d.prev = NoHash
        /\ d.left = {a \in anchors : a.to > w.floor}
    BY <2>1
  <2>3. w.pc = "anchors" /\ w.floor \in 0..floor.seq
    BY <1>0, <1>4 DEF VerifyAnchorsList, Verifying
  <2>4. ASSUME w.floor = floor.seq PROVE Walk(d)
    <3>1. PICK L : L = {a \in anchors : a.to > floor.seq}
      OBVIOUS
    <3>2. \A a \in L : /\ a \in anchors /\ floor.seq < a.from
                       /\ a.from = floor.seq + 1 \/ \E b \in L : b.to + 1 = a.from
      BY <1>0, <3>1, AnchorsFollow
    <3>3. \A a \in anchors : a.from \in Nat
      BY <1>0, SpanBounds, SMT DEF AnchorInv
    <3>4. \A a \in L : floor.seq + 1 <= a.from
      BY <1>1, <3>2, <3>3, SMT
    <3>5. d.left = L /\ d.from = floor.seq + 1 /\ d.from \in Nat
      BY <1>1, <2>2, <2>4, <3>1, SMT
    <3> QED
      BY <2>2, <3>2, <3>4, <3>5 DEF Walk
  <2>5. Verifying(d)
    BY <2>1, <2>2, <2>3, <2>4 DEF Verifying
  <2>6. VGo(v, d) /\ VerifierOnly
    BY <1>4, <2>1 DEF VGo, VerifyAnchorsList
  <2> QED
    BY <2>5, <2>6, VerifierMoves
<1>5. ASSUME VerifyAnchorsFrom(v) PROVE VerifierInv'
  BY <1>0, <1>5, VerifiesAnchors
<1>6. ASSUME VerifySinkDatabase(v) PROVE VerifierInv'
  <2>1. PICK d : d = [pc |-> "sink", floor |-> w.floor, anchors |-> anchors]
    OBVIOUS
  <2>2. d.pc = "sink" /\ d.anchors = anchors
    BY <2>1
  <2>3. SinkOn
    BY <1>0, <1>6 DEF VerifySinkDatabase, Verifying
  <2>4. ASSUME NEW a \in sink, ~ covers(anchors, a), NEW b \in anchors PROVE a.from > b.to
    <3>1. a.from = LastTo + 1
      BY <1>0, <2>3, <2>4 DEF SinkReconciles
    <3>2. LastTo \in 0..head.seq /\ b.to <= LastTo
      BY <1>0, LastAnchor
    <3>3. b.to \in Nat
      BY <1>0, SpanBounds, SMT DEF AnchorInv
    <3> QED
      BY <1>1, <3>1, <3>2, <3>3, SMT
  <2>5. anchors \subseteq sink
    BY <1>0, <2>3 DEF SinkReconciles
  <2>6. Verifying(d)
    BY <2>2, <2>4, <2>5 DEF Verifying
  <2>7. VGo(v, d) /\ VerifierOnly
    BY <1>6, <2>1 DEF VGo, VerifySinkDatabase
  <2> QED
    BY <2>6, <2>7, VerifierMoves
<1>7. ASSUME VerifyAnchorsWithSinkFrom(v) PROVE VerifierInv'
  <2> DEFINE good == w.anchors \subseteq sink /\ \A a \in sink : covers(w.anchors, a)
  <2>0. /\ w.pc = "sink" /\ VerifierOnly
        /\ VGo(v, IF good THEN [pc |-> "ok"] ELSE Alarm("sink", w, w.anchors))
    BY <1>7 DEF VerifyAnchorsWithSinkFrom
  <2>1. CASE good
    <3>1. PICK d : d = [pc |-> "ok"]
      OBVIOUS
    <3>2. d.pc = "ok"
      BY <3>1
    <3>3. Verifying(d)
      BY <3>2 DEF Verifying
    <3>4. VGo(v, d)
      BY <2>0, <2>1, <3>1
    <3> QED
      BY <2>0, <3>3, <3>4, VerifierMoves
  <2>2. CASE ~ good
    <3>1. PICK d : d = Alarm("sink", w, w.anchors)
      OBVIOUS
    <3>2. d.pc = "alarm" /\ d.check = "sink" /\ d.anchors = w.anchors
      BY <3>1 DEF Alarm
    <3>3. Verifying(d)
      BY <1>0, <2>0, <3>2 DEF Verifying
    <3>4. VGo(v, d)
      BY <2>0, <2>2, <3>1
    <3> QED
      BY <2>0, <3>3, <3>4, VerifierMoves
  <2> QED
    BY <2>1, <2>2
<1>8. VerifierOnly
  BY DEF VerifierStep, LoadCheckpoint, VerifyChainFrom, VerifyAnchorsList, VerifyAnchorsFrom,
         VerifySinkDatabase, VerifyAnchorsWithSinkFrom
<1>9. UNCHANGED <<ledgerVars, job>>
  BY <1>8 DEF VerifierOnly
<1> QED
  BY <1>2, <1>3, <1>4, <1>5, <1>6, <1>7, <1>9 DEF VerifierStep

-----------------------------------------------------------------------------
(* Every step.                                                             *)

(***************************************************************************)
(* The election's invariant under the jobs, and broken connections stay    *)
(* counted.                                                                *)
(***************************************************************************)
LEMMA NextUnbroken ==
  ASSUME LeaderInv, Unbroken, [Next]_vars
  PROVE  LeaderInv' /\ Unbroken' /\ (breaks' = 0 => breaks = 0)
<1>1. [NextDlock]_dlockVars
  BY NextElects
<1>2. LeaderInv' /\ Unbroken'
  BY <1>1, NextLeader, UnbrokenOn
<1>3. breaks \in Nat
  BY SMT DEF LeaderInv, TypeOKDlock
<1>4. breaks' = breaks \/ breaks' = breaks + 1
  BY <1>1 DEF NextDlock, leadOnce, ConnectionBreaks, PingFails, runReturns, SessionEnds, Shutdown, Crash, dlockVars
<1> QED
  BY <1>2, <1>3, <1>4, SMT

(***************************************************************************)
(* A captured event is new to the chain.                                   *)
(***************************************************************************)
LEMMA CaptureEvents ==
  ASSUME EventsInv, NEW e \in Events, Capture(e)
  PROVE  EventsInv'
<1>1. /\ e \notin captured /\ captured' = captured \cup {e} /\ pending' = pending \cup {e}
      /\ UNCHANGED <<head, job>>
  BY DEF Capture
<1>2. Payloads' = Payloads
  BY <1>1 DEF Payloads
<1>3. Payloads \subseteq captured /\ pending = captured \ Payloads
  BY DEF EventsInv
<1>4. Payloads' \subseteq captured' /\ pending' = captured' \ Payloads'
  BY <1>1, <1>2, <1>3
<1>5. "chainer" \in Jobs => \A r \in Replicas : Draining(job["chainer"][r])'
  BY <1>1 DEF EventsInv, Draining
<1> QED
  BY <1>1, <1>4, <1>5 DEF EventsInv

(***************************************************************************)
(* Who moves which job: a step of one leaves the others where they are.    *)
(***************************************************************************)
LEMMA OtherJobsRest ==
  ASSUME JobInv, NEW r \in Replicas
  PROVE  /\ ChainerStep(r) => Rests("anchorer") /\ Rests("pruner")
                              /\ UNCHANGED <<captured, anchors, sink, floor, verifier>>
         /\ AnchorerStep(r) => Rests("chainer") /\ Rests("pruner")
                               /\ UNCHANGED <<pending, captured, entries, head, floor, verifier>>
         /\ PrunerStep(r) => Rests("chainer") /\ Rests("anchorer")
                             /\ UNCHANGED <<pending, captured, head, verifier>>
<1>1. ASSUME NEW k \in Jobs, NEW j, j # k, NEW c, Go(r, k, c) PROVE Rests(j)
  BY <1>1, GoRests, SMT DEF Rests
<1>2. ASSUME ChainerStep(r)
      PROVE  /\ Rests("anchorer") /\ Rests("pruner")
             /\ UNCHANGED <<captured, anchors, sink, floor, verifier>>
  <2>1. "chainer" \in Jobs /\ \E c : Go(r, "chainer", c)
    BY <1>2 DEF ChainerStep, ChainerSelect, ChainerHead, ChainerInsert, ProcessBatch, Begins, Proceeds, At
  <2>2. UNCHANGED <<captured, anchors, sink, floor, verifier>>
    BY <1>2 DEF ChainerStep, ChainerSelect, ChainerHead, ChainerInsert, ProcessBatch, ledgerVars
  <2> QED
    BY <1>1, <2>1, <2>2
<1>3. ASSUME AnchorerStep(r)
      PROVE  /\ Rests("chainer") /\ Rests("pruner")
             /\ UNCHANGED <<pending, captured, entries, head, floor, verifier>>
  <2>1. "anchorer" \in Jobs /\ \E c : Go(r, "anchorer", c)
    BY <1>3 DEF AnchorerStep, AnchorLast, AnchorEntries, AnchorPrev, SinkPut, AnchorCreate, Begins, Proceeds, At
  <2>2. UNCHANGED <<pending, captured, entries, head, floor, verifier>>
    BY <1>3 DEF AnchorerStep, AnchorLast, AnchorEntries, AnchorPrev, SinkPut, AnchorCreate, ledgerVars
  <2> QED
    BY <1>1, <2>1, <2>2
<1>4. ASSUME PrunerStep(r)
      PROVE  Rests("chainer") /\ Rests("anchorer") /\ UNCHANGED <<pending, captured, head, verifier>>
  <2>1. "pruner" \in Jobs /\ \E c : Go(r, "pruner", c)
    BY <1>4 DEF PrunerStep, PruneChainsBefore, PruneBoundary, PruneChain, Begins, Proceeds, At
  <2>2. UNCHANGED <<pending, captured, head, verifier>>
    BY <1>4 DEF PrunerStep, PruneChainsBefore, PruneBoundary, PruneChain, ledgerVars
  <2> QED
    BY <1>1, <2>1, <2>2
<1> QED
  BY <1>2, <1>3, <1>4

(***************************************************************************)
(* Verifications that do not move while the ledger does.                   *)
(***************************************************************************)
LEMMA VerifiersRest ==
  ASSUME ChainInv, ChainInv', Extends, AnchorInv, VerifierInv,
         anchors \subseteq anchors', sink \subseteq sink', \A a \in sink' \ sink : a.from = LastTo + 1,
         floor' = floor \/ floor.seq < floor'.seq, UNCHANGED verifier
  PROVE  VerifierInv'
<1>1. ASSUME NEW w, Verifying(w) PROVE Verifying(w)'
  BY <1>1, VerifyingOn
<1> QED
  BY <1>1 DEF VerifierInv

(***************************************************************************)
(* While no connection has broken, every step keeps what follows the       *)
(* chain.                                                                  *)
(***************************************************************************)
LEMMA NextSole ==
  ASSUME LeaderInv, Unbroken, JobInv, breaks = 0, CaptureInv, ChainInv, ChainerInv, SoleInv, [Next]_vars,
         ChainInv', Extends
  PROVE  SoleInv'
<1>0. EventsInv /\ AnchorsHold /\ AnchorInv /\ VerifierInv
  BY DEF SoleInv, AnchorsHold
<1>1. SUFFICES EventsInv' /\ AnchorsHold' /\ VerifierInv'
  BY DEF SoleInv, AnchorsHold
<1>2. CASE Quiet
  <2>1. /\ Rests("chainer") /\ Rests("anchorer") /\ Rests("pruner")
        /\ UNCHANGED <<pending, captured, head, anchors, sink, floor, verifier>>
    BY <1>2 DEF Quiet, Rests, ledgerVars
  <2> QED
    BY <1>0, <2>1, EventsRest, AnchorsRest, VerifiersRest
<1>3. ASSUME NEW e \in Events, Capture(e) PROVE EventsInv' /\ AnchorsHold' /\ VerifierInv'
  <2>1. UNCHANGED <<anchors, sink, floor, verifier>> /\ Rests("anchorer") /\ Rests("pruner")
    BY <1>3 DEF Capture, Rests
  <2> QED
    BY <1>0, <1>3, <2>1, CaptureEvents, AnchorsRest, VerifiersRest
<1>4. ASSUME NEW r \in Replicas, ChainerStep(r) PROVE EventsInv' /\ AnchorsHold' /\ VerifierInv'
  <2>1. EventsInv'
    BY <1>0, <1>4, ChainerEvents
  <2>2. UNCHANGED <<anchors, sink, floor, verifier>> /\ Rests("anchorer") /\ Rests("pruner")
    BY <1>4, OtherJobsRest
  <2> QED
    BY <1>0, <2>1, <2>2, AnchorsRest, VerifiersRest
<1>5. ASSUME NEW r \in Replicas, AnchorerStep(r) PROVE EventsInv' /\ AnchorsHold' /\ VerifierInv'
  <2>1. /\ AnchorsHold' /\ \A a \in sink' \ sink : a.from = LastTo + 1
        /\ sink \subseteq sink' /\ anchors \subseteq anchors'
    BY <1>0, <1>5, AnchorerKeeps
  <2>2. UNCHANGED <<pending, captured, head, floor, verifier>> /\ Rests("chainer")
    BY <1>5, OtherJobsRest
  <2> QED
    BY <1>0, <2>1, <2>2, EventsRest, VerifiersRest
<1>6. ASSUME NEW r \in Replicas, PrunerStep(r) PROVE EventsInv' /\ AnchorsHold' /\ VerifierInv'
  <2>1. /\ AnchorsHold' /\ UNCHANGED <<anchors, sink>>
        /\ floor' = floor \/ floor.seq < floor'.seq
    BY <1>0, <1>6, PrunerKeeps
  <2>2. UNCHANGED <<pending, captured, head, verifier>> /\ Rests("chainer")
    BY <1>6, OtherJobsRest
  <2> QED
    BY <1>0, <2>1, <2>2, EventsRest, VerifiersRest
<1>7. ASSUME NEW v \in Verifiers, VerifierStep(v) PROVE EventsInv' /\ AnchorsHold' /\ VerifierInv'
  <2>1. VerifierInv' /\ UNCHANGED <<ledgerVars, job>>
    BY <1>0, <1>7, VerifierKeeps
  <2>2. /\ UNCHANGED <<pending, captured, head, anchors, sink, floor>>
        /\ Rests("chainer") /\ Rests("anchorer") /\ Rests("pruner")
    BY <2>1 DEF ledgerVars, Rests
  <2> QED
    BY <1>0, <2>1, <2>2, EventsRest, AnchorsRest
<1> QED
  BY <1>2, <1>3, <1>4, <1>5, <1>6, <1>7, NextCases

(***************************************************************************)
(* The invariant is inductive.                                             *)
(***************************************************************************)
LEMMA InitLedger == InitAudit => LedgerInv
<1> SUFFICES ASSUME InitAudit PROVE LedgerInv
  OBVIOUS
<1>1. LeaderInv /\ Unbroken
  BY InitLeader DEF InitAudit, InitDlock, Unbroken
<1>2. JobInv
  BY KnownJobs DEF InitAudit, JobInv, Idle
<1>3. CaptureInv
  BY AuditAssumption, SMT DEF InitAudit, CaptureInv
<1>4. /\ head.seq = 0 /\ head.hash = <<>> /\ floor.seq = 0 /\ floor.prev = <<>>
      /\ head = [seq |-> 0, hash |-> <<>>]
      /\ entries = <<>> /\ anchors = {} /\ sink = {} /\ pending = {} /\ captured = {}
  BY DEF InitAudit, GenesisPrevHash
<1>5. ChainInv
  <2>1. head \in [seq : Nat, hash : Seq(Links)] /\ Len(head.hash) = 0
    BY <1>4, SMT
  <2>2. floor.prev = Prefix(head.hash, floor.seq)
    BY <1>4, SMT DEF Prefix
  <2>3. DOMAIN entries = {} /\ DOMAIN entries = (floor.seq + 1)..head.seq
    BY <1>4, SMT
  <2> QED
    BY <1>4, <2>1, <2>2, <2>3, SMT DEF ChainInv
<1>6. \A k \in Jobs, r \in Replicas : job[k][r] = Idle /\ job[k][r].pc = "idle"
  BY DEF InitAudit, Idle
<1>7. ChainerInv
  BY <1>6 DEF ChainerInv, ChainerPass
<1>8. EventsInv
  <2>1. Payloads = {}
    BY <1>4, SMT DEF Payloads
  <2>2. "chainer" \in Jobs => \A r \in Replicas : Draining(job["chainer"][r])
    BY <1>6 DEF Draining
  <2> QED
    BY <1>4, <2>1, <2>2, SMT DEF EventsInv
<1>9. AnchorInv /\ SinkReconciles
  BY <1>4 DEF AnchorInv, SinkReconciles
<1>10. PassInv
  BY <1>6 DEF PassInv, Anchoring, Pruning
<1>11. VerifierInv
  <2>1. verifier = [v \in Verifiers |-> Idle] /\ Idle.pc = "idle"
    BY DEF InitAudit, Idle
  <2>2. Verifying(Idle)
    BY <2>1 DEF Verifying
  <2> QED
    BY <2>1, <2>2 DEF VerifierInv
<1> QED
  BY <1>1, <1>2, <1>3, <1>5, <1>7, <1>8, <1>9, <1>10, <1>11 DEF LedgerInv, SoleInv

(***************************************************************************)
(* Every step keeps the invariant, and the rows of the chain with it.      *)
(***************************************************************************)
LEMMA NextLedger ==
  ASSUME LedgerInv, [Next]_vars
  PROVE  /\ LedgerInv'
         /\ breaks' = 0 \/ "pruner" \notin Jobs => AppendStep
<1>0. LeaderInv /\ Unbroken /\ JobInv /\ CaptureInv
  BY DEF LedgerInv
<1>1. /\ LeaderInv' /\ Unbroken' /\ (breaks' = 0 => breaks = 0)
      /\ JobInv' /\ CaptureInv'
  BY <1>0, NextUnbroken, NextJobs, NextCapture
<1>2. ASSUME breaks' = 0 \/ "pruner" \notin Jobs
      PROVE  ChainInv' /\ ChainerInv' /\ Extends /\ AppendStep
  <2>1. ChainInv /\ ChainerInv
    BY <1>1, <1>2 DEF LedgerInv
  <2>2. CASE "pruner" \notin Jobs
    <3>1. PruneSafe
      BY <2>2 DEF PruneSafe, At
    <3> QED
      BY <1>0, <2>1, <3>1, NextChain
  <2>3. CASE breaks' = 0
    <3>1. EventsInv /\ AnchorsHold
      BY <1>1, <2>3 DEF LedgerInv, SoleInv, AnchorsHold
    <3>2. PruneSafe
      BY <2>1, <3>1, PrunesSafely
    <3> QED
      BY <1>0, <2>1, <3>2, NextChain
  <2> QED
    BY <1>2, <2>2, <2>3
<1>3. ASSUME breaks' = 0 PROVE SoleInv'
  <2>1. breaks = 0 /\ ChainInv /\ ChainerInv /\ SoleInv
    BY <1>1, <1>3 DEF LedgerInv
  <2>2. ChainInv' /\ Extends
    BY <1>2, <1>3
  <2> QED
    BY <1>0, <2>1, <2>2, NextSole
<1> QED
  BY <1>1, <1>2, <1>3 DEF LedgerInv

(***************************************************************************)
(* What the invariant says of the tables is what the checks look for.      *)
(***************************************************************************)
LEMMA LedgerIsTyped ==
  ASSUME LedgerInv, breaks = 0
  PROVE  TypeOK
<1>0. /\ TypeOKDlock /\ JobInv /\ CaptureInv /\ ChainInv /\ AnchorInv /\ EventsInv
  BY DEF LedgerInv, LeaderInv, SoleInv
<1>1. /\ head.seq \in Nat /\ floor.seq \in 0..head.seq /\ DOMAIN entries = (floor.seq + 1)..head.seq
      /\ head.hash \in Seq(Links) /\ Len(head.hash) = head.seq
  BY <1>0 DEF ChainInv
<1>2. ASSUME NEW s \in DOMAIN entries PROVE entries[s].payload \in Events
  <2>1. s \in 1..Len(head.hash) /\ entries[s].payload = head.hash[s][2]
    BY <1>0, <1>1, SMT DEF ChainInv
  <2>2. head.hash[s] \in Links
    BY <1>1, <2>1, SMT
  <2> QED
    BY <2>1, <2>2 DEF Links
<1>3. \A a \in anchors \cup sink : a.from \in Nat /\ a.to \in Nat /\ a.from <= a.to
  <2>1. \A a \in anchors \cup sink : Spans(a)
    BY <1>0 DEF AnchorInv
  <2>2. ASSUME NEW a \in anchors \cup sink
        PROVE  a.from \in 1..head.seq /\ a.to \in 1..head.seq /\ a.from <= a.to
    BY <1>0, <2>1, SpanBounds
  <2> QED
    BY <1>1, <2>2, SMT
<1>4. ASSUME NEW k \in Jobs, NEW r \in Replicas
      PROVE  job[k][r].pc \in {"idle", "head", "insert", "entries", "prev", "put", "boundary", "commit"}
  BY <1>0, KnownJobs, AuditAssumption, SMT DEF JobInv
<1>5. floor.seq \in Nat /\ DOMAIN entries \subseteq 1..head.seq
  BY <1>1, SMT
<1>6. pending \subseteq captured /\ captured \subseteq Events /\ faults \in 0..MaxFaults
  BY <1>0 DEF CaptureInv
<1> QED
  BY <1>0, <1>1, <1>2, <1>3, <1>4, <1>5, <1>6 DEF TypeOK

(***************************************************************************)
(* What the invariant says of the events is what ChainedOnce asks.         *)
(***************************************************************************)
LEMMA EventsAreChainedOnce ==
  ASSUME ChainInv, EventsInv
  PROVE  ChainedOnce
<1>1. Len(head.hash) = head.seq /\ head.seq \in Nat
  BY DEF ChainInv
<1>2. Chained = [i \in 1..head.seq |-> head.hash[i][2]]
  BY <1>1 DEF Chained
<1>3. DOMAIN Chained = 1..head.seq /\ \A i \in 1..head.seq : Chained[i] = head.hash[i][2]
  BY <1>2
<1>4. Range(Chained) = Payloads
  BY <1>3 DEF Range, Payloads
<1>5. Len(Chained) = head.seq
  BY <1>1, <1>2, SMT
<1> QED
  BY <1>3, <1>4, <1>5 DEF ChainedOnce, EventsInv

(***************************************************************************)
(* What the invariant says of the anchors is what VerifyAnchorsFrom        *)
(* checks.                                                                 *)
(***************************************************************************)
LEMMA AnchorsAreVerified ==
  ASSUME ChainInv, AnchorInv
  PROVE  AnchorsVerify
<1> DEFINE live == {a \in anchors : a.to > floor.seq}
<1>1. ASSUME NEW a \in live PROVE RootMatches(a)
  <2>1. floor.seq < a.from
    BY AnchorsFollow
  <2>2. Spans(a)
    BY DEF AnchorInv
  <2> QED
    BY <2>1, <2>2, SpanMatches
<1>2. ASSUME NEW a \in live, NEW b \in live, a.from = b.from PROVE a = b
  <2>1. a = b \/ a.to < b.from \/ b.to < a.from
    BY DEF AnchorInv
  <2>2. a.from \in Nat /\ a.to \in Nat /\ a.from <= a.to /\ b.from \in Nat /\ b.to \in Nat /\ b.from <= b.to
    BY SpanBounds, SMT DEF AnchorInv
  <2> QED
    BY <1>2, <2>1, <2>2, SMT
<1>3. ASSUME NEW a \in live
      PROVE  a.from = floor.seq + 1 \/ \E b \in live : b.to + 1 = a.from /\ a.prev = AnchorHash(b)
  BY AnchorsFollow
<1> QED
  BY <1>1, <1>2, <1>3 DEF AnchorsVerify

(***************************************************************************)
(* An alarm that a verification raised has its reason.                     *)
(***************************************************************************)
LEMMA AlarmsAreExplained ==
  ASSUME ChainInv, VerifierInv
  PROVE  AlarmExplained
<1> SUFFICES ASSUME NEW v \in Verifiers, verifier[v].pc = "alarm"
             PROVE  LET w == verifier[v] IN
                    \/ w.check # "sink" /\ floor.seq # w.floor
                    \/ /\ w.check = "sink"
                       /\ w.anchors \subseteq sink
                       /\ \A a \in sink : covers(w.anchors, a) \/ \A b \in w.anchors : a.from > b.to
  BY DEF AlarmExplained
<1>1. Verifying(verifier[v])
  BY DEF VerifierInv
<1>2. CASE verifier[v].check = "sink"
  BY <1>1, <1>2 DEF Verifying
<1>3. CASE verifier[v].check # "sink"
  <2>1. floor.seq \in Nat
    BY SMT DEF ChainInv
  <2>2. verifier[v].floor \in Nat /\ verifier[v].floor < floor.seq
    BY <1>1, <1>3 DEF Verifying
  <2>3. floor.seq # verifier[v].floor
    BY <2>1, <2>2, SMT
  <2> QED
    BY <1>3, <2>3
<1> QED
  BY <1>2, <1>3

-----------------------------------------------------------------------------

(***************************************************************************)
(* The election is the same with the jobs that run under it: a replica     *)
(* that leads over a working connection holds the advisory lock, and until *)
(* a connection breaks no two replicas run the same audit job.             *)
(***************************************************************************)
THEOREM AuditElectsTheorem == Spec => SpecDlock
<1>1. InitAudit => InitDlock
  BY DEF InitAudit
<1> QED
  BY <1>1, NextElects, PTL DEF Spec, SpecDlock

(***************************************************************************)
(* Without retention the chain verifies in every state and its rows never  *)
(* change, however many replicas believe that they lead: the primary key   *)
(* on seq and the row lock on the head make ProcessBatch safe without the  *)
(* election.  With retention as well, until a lock connection breaks.      *)
(***************************************************************************)
THEOREM ChainHoldsTheorem == ASSUME "pruner" \notin Jobs PROVE Spec => ChainHolds
<1>1. LedgerInv => ChainVerifies
  BY ChainIsVerified DEF LedgerInv
<1>2. LedgerInv /\ [Next]_vars =>
          LedgerInv' /\ [AppendOnly]_vars
  BY NextLedger DEF AppendStep, AppendOnly
<1> QED
  BY <1>1, <1>2, InitLedger, PTL DEF Spec, ChainHolds

(***************************************************************************)
(* Until a lock connection breaks, for any replicas, events, batch sizes,  *)
(* crashes and failing statements: the entries verify from the checkpoint, *)
(* every captured event is chained once or still pending, the anchors      *)
(* cover the chain from the checkpoint on, the sink reconciles with them,  *)
(* and verify-audit, reading all this one statement at a time, raises no   *)
(* alarm that a prune or an anchoring pass meanwhile does not explain.     *)
(***************************************************************************)
THEOREM LedgerTheorem == Spec => []LedgerVerifies
<1>1. LedgerInv => LedgerVerifies
  <2> SUFFICES ASSUME LedgerInv, breaks = 0
               PROVE  /\ TypeOK /\ ChainVerifies /\ ChainedOnce
                      /\ AnchorsVerify /\ SinkReconciles /\ AlarmExplained
    BY DEF LedgerVerifies
  <2>1. ChainInv /\ EventsInv /\ AnchorInv /\ SinkReconciles /\ VerifierInv
    BY DEF LedgerInv, SoleInv
  <2> QED
    BY <2>1, LedgerIsTyped, ChainIsVerified, EventsAreChainedOnce, AnchorsAreVerified, AlarmsAreExplained
<1>2. LedgerInv /\ [Next]_vars => LedgerInv'
  BY NextLedger
<1> QED
  BY <1>1, <1>2, InitLedger, PTL DEF Spec

=============================================================================
