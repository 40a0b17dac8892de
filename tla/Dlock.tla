------------------------------- MODULE Dlock -------------------------------
(***************************************************************************)
(* Leader election for the single-writer background jobs (pkg/dlock).      *)
(* Every replica runs RunAsLeader for every job; the replica whose         *)
(* database session holds the job's Postgres advisory lock runs the job.   *)
(* The lock belongs to a database session, the job to a process, and a     *)
(* broken connection separates the two: the server may hand the lock to    *)
(* another replica before the old leader's next ping notices.              *)
(***************************************************************************)
EXTENDS Integers, FiniteSets

CONSTANTS
    Replicas,       \* the server processes
    Jobs,           \* the advisory-lock keys (KeyAuditChainer, ...)
    None,
    MaxBreaks,      \* bound: lock connections that break under a live leader
    MaxCrashes      \* bound: process crashes and shutdowns

ASSUME DlockAssumption ==
    /\ None \notin Replicas
    /\ MaxBreaks \in Nat
    /\ MaxCrashes \in Nat

VARIABLES
    lock,           \* per job: the replica whose session holds the lock
    severed,        \* per job: that session's client is gone
    phase,          \* per job and replica: where leadOnce stands
    breaks, crashes

dlockVars == <<lock, severed, phase, breaks, crashes>>

(***************************************************************************)
(* idle: not leading.  leading: run(leaderCtx) executes over a healthy     *)
(* session.  deaf: the session's connection is gone and no ping has        *)
(* noticed.  stopping, stepping: leaderCtx is cancelled and run has not    *)
(* returned, over a healthy and over a broken session.                     *)
(***************************************************************************)
Phases == {"idle", "leading", "deaf", "stopping", "stepping"}

InitDlock ==
    /\ lock = [k \in Jobs |-> None]
    /\ severed = [k \in Jobs |-> FALSE]
    /\ phase = [k \in Jobs |-> [r \in Replicas |-> "idle"]]
    /\ breaks = 0
    /\ crashes = 0

Healthy(r, k) == phase[k][r] \in {"leading", "stopping"}

Running(k) == {r \in Replicas : phase[k][r] # "idle"}

\* The job's context is live: nothing has cancelled leaderCtx.
Live(r, k) == phase[k][r] \in {"leading", "deaf"}

SetPhase(r, k, p) == phase' = [phase EXCEPT ![k][r] = p]

\* Mutant: campaign without looking at the advisory lock's answer.
leadOnceAnyway(r, k) ==
    /\ phase[k][r] = "idle"
    /\ lock' = [lock EXCEPT ![k] = r]
    /\ SetPhase(r, k, "leading")
    /\ UNCHANGED <<severed, breaks, crashes>>

leadOnce(r, k) ==
    /\ phase[k][r] = "idle"
    /\ lock[k] = None
    /\ lock' = [lock EXCEPT ![k] = r]
    /\ SetPhase(r, k, "leading")
    /\ UNCHANGED <<severed, breaks, crashes>>

\* The lock connection dies (or is black-holed) while the job runs on.
ConnectionBreaks(r, k) ==
    /\ breaks < MaxBreaks
    /\ Healthy(r, k)
    /\ SetPhase(r, k, IF phase[k][r] = "leading" THEN "deaf" ELSE "stepping")
    /\ severed' = [severed EXCEPT ![k] = TRUE]
    /\ breaks' = breaks + 1
    /\ UNCHANGED <<lock, crashes>>

\* The server ends a session whose client is gone, which frees its lock.
SessionEnds(k) ==
    /\ severed[k]
    /\ lock' = [lock EXCEPT ![k] = None]
    /\ severed' = [severed EXCEPT ![k] = FALSE]
    /\ UNCHANGED <<phase, breaks, crashes>>

PingFails(r, k) ==
    /\ phase[k][r] = "deaf"
    /\ SetPhase(r, k, "stepping")
    /\ UNCHANGED <<lock, severed, breaks, crashes>>

\* Mutant: the deferred unlock is missing.
runReturnsLocked(r, k) ==
    /\ phase[k][r] \in {"stopping", "stepping"}
    /\ SetPhase(r, k, "idle")
    /\ UNCHANGED <<lock, severed, breaks, crashes>>

\* run(leaderCtx) returns after the cancel; the deferred unlock reaches the
\* server only over a healthy session.
runReturns(r, k) ==
    /\ phase[k][r] \in {"stopping", "stepping"}
    /\ lock' = IF Healthy(r, k) THEN [lock EXCEPT ![k] = None] ELSE lock
    /\ SetPhase(r, k, "idle")
    /\ UNCHANGED <<severed, breaks, crashes>>

\* Shutdown cancels the worker context of every job of the replica.
Shutdown(r) ==
    /\ crashes < MaxCrashes
    /\ \E k \in Jobs : Live(r, k)
    /\ phase' = [k \in Jobs |-> [phase[k] EXCEPT ![r] =
                    CASE phase[k][r] = "leading" -> "stopping"
                      [] phase[k][r] = "deaf" -> "stepping"
                      [] OTHER -> phase[k][r]]]
    /\ crashes' = crashes + 1
    /\ UNCHANGED <<lock, severed, breaks>>

\* The process dies: its jobs stop where they are, its sessions are orphaned.
Crash(r) ==
    /\ crashes < MaxCrashes
    /\ \E k \in Jobs : phase[k][r] # "idle"
    /\ phase' = [k \in Jobs |-> [phase[k] EXCEPT ![r] = "idle"]]
    /\ severed' = [k \in Jobs |-> severed[k] \/ lock[k] = r]
    /\ crashes' = crashes + 1
    /\ UNCHANGED <<lock, breaks>>

NextDlock ==
    \/ \E r \in Replicas, k \in Jobs :
          \/ leadOnce(r, k)
          \/ ConnectionBreaks(r, k)
          \/ PingFails(r, k)
          \/ runReturns(r, k)
    \/ \E k \in Jobs : SessionEnds(k)
    \/ \E r \in Replicas : Shutdown(r) \/ Crash(r)

SpecDlock == InitDlock /\ [][NextDlock]_dlockVars

-----------------------------------------------------------------------------

\* The types of the lock table and of the campaign's state.
TypeOKDlock ==
    /\ lock \in [Jobs -> Replicas \cup {None}]
    /\ severed \in [Jobs -> BOOLEAN]
    /\ phase \in [Jobs -> [Replicas -> Phases]]
    /\ breaks \in 0..MaxBreaks
    /\ crashes \in 0..MaxCrashes

(***************************************************************************)
(* Every leader whose lock connection works holds the lock, so the         *)
(* replicas that run a job beyond the lock's holder are exactly the ones   *)
(* whose connection broke and whose ping has not yet noticed: leadOnce     *)
(* bounds the overlap by its ping deadline.                                *)
(***************************************************************************)
OneHealthyLeader ==
    \A k \in Jobs, r \in Replicas : Healthy(r, k) => lock[k] = r

(***************************************************************************)
(* Failover (the package comment's "with automatic failover"): however the *)
(* leaders shut down, crash or lose their connection, every job is led     *)
(* again over a healthy session, because every path out of leadOnce or the *)
(* server frees the lock.                                                  *)
(***************************************************************************)
LeadershipRecovers ==
    \A k \in Jobs : []<>(\E r \in Replicas : phase[k][r] = "leading")

(***************************************************************************)
(* An overlap of two leaders ends: the ping loop of leadOnce cancels the   *)
(* deposed one, and its run returns, however often leadership moves.       *)
(***************************************************************************)
OverlapEnds ==
    \A k \in Jobs :
        Cardinality(Running(k)) > 1 ~> Cardinality(Running(k)) <= 1

(***************************************************************************)
(* The package comment of dlock.go, "a single-writer background job runs   *)
(* on exactly one replica at a time", holds (as at most one: between two   *)
(* leaders there is none) through crashes and shutdowns, until a lock      *)
(* connection breaks under a live leader.                                  *)
(***************************************************************************)
RunsOnOneReplica ==
    breaks = 0 => \A k \in Jobs : Cardinality(Running(k)) <= 1
=============================================================================
