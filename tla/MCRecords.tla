------------------------------ MODULE MCRecords ------------------------------
(***************************************************************************)
(* What the server writes down and is held to: the audit ledger, with all  *)
(* its jobs and a verification; how an action reaches it, the mirror and   *)
(* the alerts; the partitions of the log; settings and the licence on two  *)
(* pods.  They share no state, so a behaviour exercises one part while the *)
(* others stay in an initial state.                                        *)
(***************************************************************************)
EXTENDS AuditChain, TLC

CONSTANTS p1, p2, r1, v1

VARIABLES
    part,                                   \* the one that moves
    req, requests,
    now, row, retired, cache, inbox, licence, current, reloads, reloading, late, kept,
    n, match, stmts, changed, ledger, tasks, log, fallback, gate, counter, alerts, queue, worker, conn, mirror,
    rebuild, through, ticks, persisted, matched, lost, batched, crossed, purged, stops,
    clock, parts, backstop, logged, inserts, pass, sweep, provided, taken

ThreeEvents == 1..3
Handlers == {"w1", "w2"}
PodNames == {p1, p2}

S == INSTANCE Settings WITH
    Pods <- PodNames, Workers <- Handlers, Secrets <- {"s1"}, cacheTTL <- 1, MaxFlight <- 1,
    MaxTime <- 3, MaxVersion <- 3, MaxRequests <- 3

\* The ledger's capture and rebuild, the alerts of three failures, and the mirror.
L == INSTANCE AuditTrail WITH
    Rows <- {1, 2}, AlertTypes <- {}, QueueSize <- 1, Batch <- 1, MaxEvents <- 2, MaxFaults <- 1, MaxTicks <- 1,
    MaxCrashes <- 0, crashes <- stops

W == INSTANCE AuditTrail WITH
    Rows <- {1, 2}, AlertTypes <- {"login.failed"}, QueueSize <- 1, Batch <- 1, MaxEvents <- 3, MaxFaults <- 1,
    MaxTicks <- 2, MaxCrashes <- 1, crashes <- stops

M == INSTANCE AuditTrail WITH
    Rows <- {1, 2}, AlertTypes <- {}, QueueSize <- 1, Batch <- 1, MaxEvents <- 2, MaxFaults <- 1, MaxTicks <- 2,
    MaxCrashes <- 1, crashes <- stops

\* Half-month steps; two replicas provision during a failover, or two sweep.
P == INSTANCE Partitions WITH
    Provisioners <- PodNames, Sweepers <- PodNames, MonthLen <- 2, Ahead <- 1, Retention <- 2, MaxTime <- 5,
    MaxRows <- 1

-----------------------------------------------------------------------------

chainVars == <<dlockVars, ledgerVars, job, verifier>>
settingVars == <<now, row, retired, cache, inbox, licence, current, reloads, reloading, late, kept>>
trailVars == <<n, match, stmts, changed, ledger, tasks, log, fallback, gate, counter, alerts, queue, worker, conn,
               mirror, rebuild, through, ticks, persisted, matched, lost, batched, crossed, purged, stops>>
partitionVars == <<clock, parts, backstop, logged, inserts, pass, sweep, provided, taken>>
otherVars == <<req, requests, settingVars>>
allVars == <<part, faults, chainVars, otherVars, trailVars, partitionVars>>

AllInit ==
    /\ part \in {"ledger", "settings", "licence", "capture", "alerts", "mirror", "provision", "sweep"}
    /\ InitAudit /\ S!Init /\ L!Init /\ P!Init
    /\ part # "settings" => row.ver = 0

\* One replica is enough for the job that is not at issue.
Alone(r) == r = p1

AllNext ==
    /\ UNCHANGED part
    /\ \/ /\ part = "ledger" /\ Next
          /\ UNCHANGED <<otherVars, trailVars, partitionVars>>
       \/ /\ part = "settings" /\ S!SettingNext
          /\ UNCHANGED <<chainVars, trailVars, partitionVars>>
       \/ /\ part = "licence" /\ S!LicenceNext
          /\ UNCHANGED <<chainVars, trailVars, partitionVars>>
       \/ /\ part \in {"capture", "alerts", "mirror"}
          /\ UNCHANGED <<chainVars, otherVars, partitionVars>>
          /\ \/ part = "capture" /\ L!LedgerNext
             \/ part = "alerts" /\ W!AlertNext
             \/ part = "mirror" /\ M!MirrorNext
       \/ /\ part \in {"provision", "sweep"}
          /\ UNCHANGED <<faults, chainVars, otherVars, trailVars>>
          /\ \/ P!TableStep
             \/ \E r \in PodNames : (part = "provision" \/ Alone(r)) /\ P!ProvisionStep(r)
             \/ \E r \in PodNames : (part = "sweep" \/ Alone(r)) /\ P!SweepStep(r)

AllSpec == AllInit /\ [][AllNext]_allVars

Symmetry == Permutations(PodNames)

-----------------------------------------------------------------------------

\* Every change reaches the ledger once, alerts and mirrored records are all accounted for,
\* a rebuild is complete, and rows are in their partition until the policy lets go of them
\* (captureUpdate, claim, Forward, RebuildFromLedger, Ensure, DropOlderThan).
AuditHolds ==
    /\ L!CapturedOnce /\ L!Attributed /\ L!RebuiltThrough
    /\ L!AlertsAccounted /\ L!MirrorAccounted /\ L!DrainedAtClose
    /\ P!RowsPlaced /\ P!InPolicyKept /\ P!HeadroomHolds

\* No pod acts on an old setting for long, a save that leaves a secret blank keeps it,
\* and every pod ends on the stored licence (getRaw, invalidate, putMailSMTP, putLicense).
SettingsHold == S!SettingStaleness /\ S!SecretKept /\ S!LicenceConverges
=============================================================================
