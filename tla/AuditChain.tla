----------------------------- MODULE AuditChain -----------------------------
(***************************************************************************)
(* The tamper-evident audit ledger (internal/domain/audit) of one          *)
(* (tenant, chain class), under the leader election of Dlock.              *)
(*                                                                         *)
(* A business transaction captures an event into mxid_audit_pending; the   *)
(* chainer drains pending rows into a hash chain of entries; the anchorer  *)
(* seals the unsealed tail under a signed Merkle root, in an external sink *)
(* and then in the database; the pruner deletes sealed history and leaves  *)
(* a signed checkpoint at the new floor; verify-audit walks the chain, the *)
(* anchors and the sink.  Every statement outside a transaction is a step  *)
(* of its own, and a transaction takes effect at its commit.               *)
(***************************************************************************)
EXTENDS Dlock, Sequences, FiniteSetsExt

CONSTANTS
    Events,         \* the pending rows' ids, in the order they are generated
    BatchLimit,     \* ProcessBatch's limit
    SinkOn,         \* audit.anchor_sink_path is set
    Verifiers,      \* runs of the verify-audit command
    VerifyBatchSize,
    MaxFaults       \* bound: statements that fail under a live context

ASSUME AuditAssumption ==
    /\ Events \subseteq Nat
    /\ IsFiniteSet(Events)
    /\ Jobs \subseteq {"chainer", "anchorer", "pruner"}
    /\ BatchLimit \in Nat \ {0}
    /\ VerifyBatchSize \in Nat \ {0}
    /\ SinkOn \in BOOLEAN
    /\ MaxFaults \in Nat

VARIABLES
    pending,        \* mxid_audit_pending: ids of captured, unchained events
    captured,       \* every event whose business transaction committed
    entries,        \* mxid_audit_entry: seq -> row
    head,           \* mxid_audit_chain_head
    anchors,        \* mxid_audit_anchor
    sink,           \* the external AnchorSink
    floor,          \* mxid_audit_checkpoint
    job,            \* per job and replica: locals of its current pass
    verifier,       \* per verify-audit run: its locals
    faults

ledgerVars == <<pending, captured, entries, head, anchors, sink, floor>>
auditVars == <<ledgerVars, job, verifier, faults>>
vars == <<dlockVars, auditVars>>

-----------------------------------------------------------------------------
(* Hashes are the values they commit to, which makes them injective.       *)

GenesisPrevHash == <<>>

ComputeEntryHash(seq, prev, payload) == Append(prev, <<seq, payload>>)

MerkleRoot(leaves) == leaves

\* The preimage covers the span, the root and the preceding anchor.
AnchorHash(a) == Append(a.prev, <<a.from, a.to, a.root>>)

NoHash == <<>>

LastTo == Max({0} \cup {a.to : a \in anchors})

\* ORDER BY to_seq DESC, first row.  Rows that tie on to_seq come in any order.
LastAnchors == {a \in anchors : a.to = LastTo}

-----------------------------------------------------------------------------
(* A pass of a job, and what it has read so far.                           *)

Idle == [pc |-> "idle"]

InitAudit ==
    /\ InitDlock
    /\ pending = {}
    /\ captured = {}
    /\ entries = <<>>
    /\ head = [seq |-> 0, hash |-> GenesisPrevHash]
    /\ anchors = {}
    /\ sink = {}
    /\ floor = [seq |-> 0, prev |-> GenesisPrevHash]
    /\ job = [k \in Jobs |-> [r \in Replicas |-> Idle]]
    /\ verifier = [v \in Verifiers |-> Idle]
    /\ faults = 0

At(r, k, label) == k \in Jobs /\ job[k][r].pc = label

Go(r, k, locals) == job' = [job EXCEPT ![k][r] = locals]

Begins(r, k) == At(r, k, "idle") /\ Live(r, k)

\* Statements of a pass run under leaderCtx, except the pruner's.
Proceeds(r, k, label) == At(r, k, label) /\ (Live(r, k) \/ k = "pruner")

-----------------------------------------------------------------------------
(* Capture: the pending row commits with the caller's state change.  Ids   *)
(* are generated before the commit, so rows appear in any order.           *)

Capture(e) ==
    /\ e \notin captured
    /\ captured' = captured \cup {e}
    /\ pending' = pending \cup {e}
    /\ UNCHANGED <<dlockVars, entries, head, anchors, sink, floor, job, verifier, faults>>

-----------------------------------------------------------------------------
(* Chainer.ProcessBatch: one transaction at READ COMMITTED.                *)

\* The first n ids of pending, in order.
FirstByID(batch, n) ==
    /\ \A i, j \in 1..n : i < j => batch[i] < batch[j]
    /\ \A e \in pending \ Range(batch), i \in 1..n : batch[i] < e

\* SELECT pending ORDER BY id LIMIT limit.
ChainerSelect(r) ==
    /\ Begins(r, "chainer")
    /\ pending # {}
    /\ LET n == Min({Cardinality(pending), BatchLimit}) IN
       \E batch \in [1..n -> pending] :
          /\ FirstByID(batch, n)
          /\ Go(r, "chainer", [pc |-> "head", batch |-> batch])
    /\ UNCHANGED <<dlockVars, ledgerVars, verifier, faults>>

\* The first chainOne reads the committed head.
ChainerHead(r) ==
    /\ Proceeds(r, "chainer", "head")
    /\ Go(r, "chainer", [pc |-> "insert", batch |-> job["chainer"][r].batch, head |-> head])
    /\ UNCHANGED <<dlockVars, ledgerVars, verifier, faults>>

\* The first INSERT of an entry.  It waits for a transaction that holds an
\* uncommitted entry, and the primary key refuses a seq that is taken.
ChainerInsert(r) ==
    /\ Proceeds(r, "chainer", "insert")
    /\ LET c == job["chainer"][r] IN
       \/ /\ c.head.seq + 1 \in DOMAIN entries
          /\ Go(r, "chainer", Idle)
       \/ /\ c.head.seq + 1 \notin DOMAIN entries
          /\ \A q \in Replicas : ~ At(q, "chainer", "commit")
          /\ Go(r, "chainer", [c EXCEPT !.pc = "commit"])
    /\ UNCHANGED <<dlockVars, ledgerVars, verifier, faults>>

\* Mutant: every row of the batch is linked to the head read at the start.
chainAllToHead(c) ==
    [i \in 1..Len(c.batch) |->
        [prev |-> c.head.hash, payload |-> c.batch[i],
         hash |-> ComputeEntryHash(c.head.seq + i, c.head.hash, c.batch[i])]]

\* The head's hash after i rows of the batch: it commits to them too.
HashAfter(c, i) == c.head.hash \o [j \in 1..i |-> <<c.head.seq + j, c.batch[j]>>]

\* chainOne for each row of the batch: row i links to the head that row i - 1 left.
chainOne(c) ==
    [i \in 1..Len(c.batch) |->
        [prev |-> HashAfter(c, i - 1), payload |-> c.batch[i],
         hash |-> ComputeEntryHash(c.head.seq + i, HashAfter(c, i - 1), c.batch[i])]]

ChainedHead(c, rows) == [seq |-> c.head.seq + Len(rows), hash |-> rows[Len(rows)].hash]

Unconsumed(c) == pending \ Range(c.batch)

\* COMMIT: the entries, the head and the deletions appear together.
ProcessBatch(r) ==
    /\ At(r, "chainer", "commit")
    /\ LET c == job["chainer"][r]
           rows == chainOne(c)
           new == (c.head.seq + 1)..(c.head.seq + Len(rows))
       IN /\ entries' = [s \in DOMAIN entries \cup new |->
                            IF s \in new THEN rows[s - c.head.seq] ELSE entries[s]]
          /\ head' = ChainedHead(c, rows)
          /\ pending' = Unconsumed(c)
    /\ Go(r, "chainer", Idle)
    /\ UNCHANGED <<dlockVars, captured, anchors, sink, floor, verifier, faults>>

-----------------------------------------------------------------------------
(* Anchorer.AnchorChain: five statements, no transaction.                  *)

\* SELECT COALESCE(MAX(to_seq), 0).  AnchorAll only visits chains with a head.
AnchorLast(r) ==
    /\ Begins(r, "anchorer")
    /\ head.seq > 0
    /\ Go(r, "anchorer", [pc |-> "entries", last |-> LastTo])
    /\ UNCHANGED <<dlockVars, ledgerVars, verifier, faults>>

\* The entries beyond the last anchor; nothing new ends the pass.
AnchorEntries(r) ==
    /\ Proceeds(r, "anchorer", "entries")
    /\ LET seqs == {s \in DOMAIN entries : s > job["anchorer"][r].last}
           from == Min(seqs)
           to == Max(seqs)
       IN Go(r, "anchorer",
             IF seqs = {} THEN Idle
             ELSE [pc |-> "prev", from |-> from, to |-> to,
                   root |-> MerkleRoot([i \in 1..(to - from + 1) |-> entries[from + i - 1].hash])])
    /\ UNCHANGED <<dlockVars, ledgerVars, verifier, faults>>

Sealed(a, prev) == [from |-> a.from, to |-> a.to, root |-> a.root, prev |-> prev]

\* The preceding anchor, whose hash the new one commits to.
AnchorPrev(r) ==
    /\ Proceeds(r, "anchorer", "prev")
    /\ \E prev \in IF anchors = {} THEN {NoHash} ELSE {AnchorHash(b) : b \in LastAnchors} :
          Go(r, "anchorer", [pc |-> "put", anchor |-> Sealed(job["anchorer"][r], prev)])
    /\ UNCHANGED <<dlockVars, ledgerVars, verifier, faults>>

\* Sink first; without a sink the statement is not there.
SinkPut(r) ==
    /\ Proceeds(r, "anchorer", "put")
    /\ sink' = IF SinkOn THEN sink \cup {job["anchorer"][r].anchor} ELSE sink
    /\ Go(r, "anchorer", [job["anchorer"][r] EXCEPT !.pc = "commit"])
    /\ UNCHANGED <<dlockVars, pending, captured, entries, head, anchors, floor, verifier, faults>>

\* INSERT the anchor; uq_audit_anchor_span turns an exact repeat into a no-op.
AnchorCreate(r) ==
    /\ At(r, "anchorer", "commit")
    /\ LET a == job["anchorer"][r].anchor IN
       anchors' = IF \E b \in anchors : b.from = a.from /\ b.to = a.to
                  THEN anchors ELSE anchors \cup {a}
    /\ Go(r, "anchorer", Idle)
    /\ UNCHANGED <<dlockVars, pending, captured, entries, head, sink, floor, verifier, faults>>

-----------------------------------------------------------------------------
(* Pruner.PruneChainsBefore and PruneChain.  The pass runs under a system  *)
(* context, so losing leadership does not interrupt it.                    *)

\* The newest anchor older than the cutoff: any anchor, as ages go.
PruneChainsBefore(r) ==
    /\ Begins(r, "pruner")
    /\ \E a \in anchors : Go(r, "pruner", [pc |-> "boundary", cutoff |-> a.to])
    /\ UNCHANGED <<dlockVars, ledgerVars, verifier, faults>>

\* Mutant: retention decides alone, and the anchor line is not looked at.
pruneThroughHead(cutoff) == head.seq

pruneThrough(cutoff) == Min({LastTo, cutoff})

\* The entry at the boundary; a missing one ends the pass.
Boundary(through) ==
    IF through \in DOMAIN entries
    THEN [pc |-> "commit", through |-> through, prev |-> entries[through].hash]
    ELSE Idle

PruneBoundary(r) ==
    /\ Proceeds(r, "pruner", "boundary")
    /\ Go(r, "pruner", Boundary(pruneThrough(job["pruner"][r].cutoff)))
    /\ UNCHANGED <<dlockVars, ledgerVars, verifier, faults>>

\* One transaction: upsert the checkpoint, delete the entries below it.
PruneChain(r) ==
    /\ At(r, "pruner", "commit")
    /\ LET p == job["pruner"][r] IN
       /\ floor' = [seq |-> p.through, prev |-> p.prev]
       /\ entries' = [s \in {s \in DOMAIN entries : s > p.through} |-> entries[s]]
    /\ Go(r, "pruner", Idle)
    /\ UNCHANGED <<dlockVars, pending, captured, head, anchors, sink, verifier, faults>>

-----------------------------------------------------------------------------
(* runVerifyAudit.                                                         *)

VGo(v, locals) == verifier' = [verifier EXCEPT ![v] = locals]

\* The run reports a failed check; floor and anchors are what it had read.
Alarm(check, w, as) == [pc |-> "alarm", check |-> check, floor |-> w.floor, anchors |-> as]

VerifierOnly == UNCHANGED <<dlockVars, ledgerVars, job, faults>>

\* Rows seqs, read beyond cursor, continue a chain that ends in prev.
Continues(seqs, cursor, prev) ==
    \A s \in seqs :
        /\ s = cursor + 1 \/ s - 1 \in seqs
        /\ entries[s].prev = IF s = cursor + 1 THEN prev ELSE entries[s - 1].hash
        /\ entries[s].hash = ComputeEntryHash(s, entries[s].prev, entries[s].payload)

LoadCheckpoint(v) ==
    /\ verifier[v].pc = "idle"
    /\ head.seq > 0
    /\ VGo(v, [pc |-> "chain", floor |-> floor.seq, cursor |-> floor.seq, prev |-> floor.prev])
    /\ VerifierOnly

Resume(w, batch) == [w EXCEPT !.cursor = Max(batch), !.prev = entries[Max(batch)].hash]

\* One batch of VerifyChainFrom.
VerifyChainFrom(v) ==
    /\ verifier[v].pc = "chain"
    /\ LET w == verifier[v]
           beyond == {s \in DOMAIN entries : s > w.cursor}
           batch == {s \in beyond : Cardinality({t \in beyond : t < s}) < VerifyBatchSize}
       IN VGo(v, CASE batch = {} -> [pc |-> "anchors", floor |-> w.floor]
                   [] batch # {} /\ Continues(batch, w.cursor, w.prev) -> Resume(w, batch)
                   [] OTHER -> Alarm("chain", w, {}))
    /\ VerifierOnly

\* The anchors from the checkpoint on.
VerifyAnchorsList(v) ==
    /\ verifier[v].pc = "anchors"
    /\ LET w == verifier[v] IN
       VGo(v, [pc |-> "ranges", floor |-> w.floor, from |-> w.floor + 1, prev |-> NoHash,
               left |-> {a \in anchors : a.to > w.floor}])
    /\ VerifierOnly

\* The entries of an anchor are all there and hash to its root.
RootMatches(a) ==
    /\ a.from..a.to \subseteq DOMAIN entries
    /\ MerkleRoot([i \in 1..(a.to - a.from + 1) |-> entries[a.from + i - 1].hash]) = a.root

\* The next anchor of the walk, in from_seq order, against the entries it covers.
VerifyAnchorsFrom(v) ==
    /\ verifier[v].pc = "ranges"
    /\ LET w == verifier[v] IN
       \/ /\ w.left = {}
          /\ VGo(v, [pc |-> IF SinkOn THEN "database" ELSE "ok", floor |-> w.floor])
       \/ \E a \in w.left :
             /\ \A b \in w.left : a.from <= b.from
             /\ VGo(v, IF /\ a.from = w.from
                          /\ w.prev = NoHash \/ a.prev = w.prev
                          /\ RootMatches(a)
                       THEN [w EXCEPT !.from = a.to + 1, !.prev = AnchorHash(a), !.left = w.left \ {a}]
                       ELSE Alarm("anchors", w, {}))
    /\ VerifierOnly

VerifySinkDatabase(v) ==
    /\ verifier[v].pc = "database"
    /\ VGo(v, [pc |-> "sink", floor |-> verifier[v].floor, anchors |-> anchors])
    /\ VerifierOnly

\* A database anchor at the record's from_seq that is at least as wide.
covers(as, a) == \E b \in as : b.from = a.from /\ b.to >= a.to

VerifyAnchorsWithSinkFrom(v) ==
    /\ verifier[v].pc = "sink"
    /\ LET as == verifier[v].anchors IN
       VGo(v, IF as \subseteq sink /\ \A a \in sink : covers(as, a)
              THEN [pc |-> "ok"] ELSE Alarm("sink", verifier[v], as))
    /\ VerifierOnly

-----------------------------------------------------------------------------
(* Failures.                                                               *)

\* A statement fails, or its context was cancelled: the pass ends, and an
\* open transaction rolls back.
PassFails(r, k) ==
    /\ job[k][r].pc # "idle"
    /\ \/ /\ ~ Live(r, k)
          /\ k # "pruner"
          /\ faults' = faults
       \/ /\ faults < MaxFaults
          /\ faults' = faults + 1
    /\ Go(r, k, Idle)
    /\ UNCHANGED <<dlockVars, ledgerVars, verifier>>

\* A crash of the replica ends all its passes where they are.
CrashReplica(r) ==
    /\ Crash(r)
    /\ job' = [k \in Jobs |-> [job[k] EXCEPT ![r] = Idle]]
    /\ UNCHANGED <<ledgerVars, verifier, faults>>

Election ==
    /\ \/ \E r \in Replicas, k \in Jobs :
             \/ leadOnce(r, k)
             \/ ConnectionBreaks(r, k)
             \/ PingFails(r, k)
             \/ At(r, k, "idle") /\ runReturns(r, k)
       \/ \E k \in Jobs : SessionEnds(k)
       \/ \E r \in Replicas : Shutdown(r)
    /\ UNCHANGED auditVars

ChainerStep(r) == ChainerSelect(r) \/ ChainerHead(r) \/ ChainerInsert(r) \/ ProcessBatch(r)

AnchorerStep(r) ==
    \/ AnchorLast(r) \/ AnchorEntries(r) \/ AnchorPrev(r) \/ SinkPut(r) \/ AnchorCreate(r)

PrunerStep(r) == PruneChainsBefore(r) \/ PruneBoundary(r) \/ PruneChain(r)

VerifierStep(v) ==
    \/ LoadCheckpoint(v) \/ VerifyChainFrom(v) \/ VerifyAnchorsList(v)
    \/ VerifyAnchorsFrom(v) \/ VerifySinkDatabase(v) \/ VerifyAnchorsWithSinkFrom(v)

Next ==
    \/ \E e \in Events : Capture(e)
    \/ \E r \in Replicas : ChainerStep(r) \/ AnchorerStep(r) \/ PrunerStep(r)
    \/ \E v \in Verifiers : VerifierStep(v)
    \/ \E r \in Replicas, k \in Jobs : PassFails(r, k)
    \/ \E r \in Replicas : CrashReplica(r)
    \/ Election

Spec == InitAudit /\ [][Next]_vars

(***************************************************************************)
(* The election's: the retry loop campaigns every five seconds, the ping   *)
(* loop probes every five seconds with a deadline, the server reaps dead   *)
(* sessions, and a cancelled job returns.  And the jobs': on a leading     *)
(* replica the ticker fires, and a statement that can run runs.            *)
(***************************************************************************)
Fairness ==
    /\ \A r \in Replicas :
          /\ WF_vars(ChainerStep(r))
          /\ WF_vars(AnchorerStep(r))
    /\ \A r \in Replicas, k \in Jobs :
          /\ WF_vars(leadOnce(r, k) /\ UNCHANGED auditVars)
          /\ WF_vars(PingFails(r, k) /\ UNCHANGED auditVars)
          /\ WF_vars(At(r, k, "idle") /\ runReturns(r, k) /\ UNCHANGED auditVars)
          /\ WF_vars(PassFails(r, k) /\ ~ Live(r, k))
    /\ \A k \in Jobs : WF_vars(SessionEnds(k) /\ UNCHANGED auditVars)

FairSpec == Spec /\ Fairness

-----------------------------------------------------------------------------

\* The types of the ledger's tables; a pass's locals are typed by its label.
TypeOK ==
    /\ TypeOKDlock
    /\ pending \subseteq captured
    /\ captured \subseteq Events
    /\ head.seq \in Nat
    /\ floor.seq \in Nat
    /\ DOMAIN entries \subseteq 1..head.seq
    /\ \A s \in DOMAIN entries : entries[s].payload \in Events
    /\ \A a \in anchors \cup sink : a.from \in Nat /\ a.to \in Nat /\ a.from <= a.to
    /\ \A k \in Jobs, r \in Replicas : job[k][r].pc \in
          {"idle", "head", "insert", "entries", "prev", "put", "boundary", "commit"}
    /\ faults \in 0..MaxFaults

(***************************************************************************)
(* In every state the chain verifies from its checkpoint: what             *)
(* VerifyChainFrom would answer if it read the whole table now.  The rows  *)
(* above the floor are consecutive, each linked to its predecessor, the    *)
(* first to the hash the checkpoint attests to, and the last is the head's.*)
(***************************************************************************)
ChainVerifies ==
    /\ Continues({s \in DOMAIN entries : s > floor.seq}, floor.seq, floor.prev)
    /\ head.hash = IF head.seq \in DOMAIN entries THEN entries[head.seq].hash ELSE floor.prev
    /\ head.seq \in DOMAIN entries \/ head.seq = floor.seq

(***************************************************************************)
(* In every state the anchors verify from the checkpoint: what             *)
(* VerifyAnchorsFrom would answer.  They are a contiguous cover from the   *)
(* floor, each links to its predecessor, and the entries they cover are    *)
(* there and hash to their roots; so pruning never cuts an anchor in two.  *)
(***************************************************************************)
AnchorsVerify ==
    LET live == {a \in anchors : a.to > floor.seq} IN
    /\ \A a \in live : RootMatches(a)
    /\ \A a, b \in live : a.from = b.from => a = b
    /\ \A a \in live :
          \/ a.from = floor.seq + 1
          \/ \E b \in live : b.to + 1 = a.from /\ a.prev = AnchorHash(b)

(***************************************************************************)
(* The sink and the database reconcile, as VerifyAnchorsWithSinkFrom reads *)
(* them: every database anchor is in the sink, and a sink record without   *)
(* its database row is covered by one at least as wide, or starts where    *)
(* the next pass will start, so that this pass covers it.                  *)
(***************************************************************************)
SinkReconciles ==
    SinkOn =>
        /\ anchors \subseteq sink
        /\ \A a \in sink :
              \/ covers(anchors, a)
              \/ a.from = LastTo + 1 /\ a.to <= head.seq

\* The events of the chain, pruned ones included: the head's hash commits to them.
Chained == [i \in 1..Len(head.hash) |-> head.hash[i][2]]

(***************************************************************************)
(* The chainer consumes a pending row exactly once: every captured event   *)
(* is either pending or in the chain, and is in it once, through failed    *)
(* transactions, crashes and failovers.                                    *)
(***************************************************************************)
ChainedOnce ==
    /\ pending = captured \ Range(Chained)
    /\ \A i, j \in 1..Len(Chained) : Chained[i] = Chained[j] => i = j

(***************************************************************************)
(* The ledger is append-only: a step never rewrites an entry, and removes  *)
(* one only below the floor that the same step claims.                     *)
(***************************************************************************)
AppendOnly ==
    \A s \in DOMAIN entries :
        s > floor'.seq => s \in DOMAIN entries' /\ entries'[s] = entries[s]

(***************************************************************************)
(* However many chainers run at once, the chain verifies at first and      *)
(* after every step, and no step rewrites an entry (ChainerInsert,         *)
(* chainOne).                                                              *)
(***************************************************************************)
ChainHolds == ChainVerifies /\ [][ChainVerifies' /\ AppendOnly]_vars

(***************************************************************************)
(* A captured event is eventually in the chain, whatever transactions fail *)
(* or collide and however leadership moves on the way, as long as failures *)
(* end.                                                                    *)
(***************************************************************************)
EventuallyChained ==
    \A e \in Events : e \in captured ~> e \in Range(Chained)

(***************************************************************************)
(* verify-audit reads checkpoint, entries, anchors and sink one statement  *)
(* at a time while the jobs run.  What it reports of a ledger that only    *)
(* this code has written is explained by what ran meanwhile: an alarm on   *)
(* the chain or the anchors by a prune since the checkpoint was loaded, an *)
(* alarm on the sink by records past the last anchor it read, and never by *)
(* an anchor that the sink lacks.                                          *)
(***************************************************************************)
AlarmExplained ==
    \A v \in Verifiers :
        LET w == verifier[v] IN
        w.pc = "alarm" =>
            \/ w.check # "sink" /\ floor.seq # w.floor
            \/ /\ w.check = "sink"
               /\ w.anchors \subseteq sink
               /\ \A a \in sink : covers(w.anchors, a) \/ \A b \in w.anchors : a.from > b.to

(***************************************************************************)
(* As long as no lock connection breaks, so that each job runs on one      *)
(* replica: the ledger verifies in every state, from the entries to the    *)
(* sink, covers every event once, and verify-audit raises no alarm without *)
(* a reason (ProcessBatch, AnchorChain, PruneChain, runVerifyAudit).       *)
(***************************************************************************)
LedgerVerifies ==
    breaks = 0 =>
        /\ TypeOK
        /\ ChainVerifies /\ ChainedOnce
        /\ AnchorsVerify /\ SinkReconciles
        /\ AlarmExplained
=============================================================================
