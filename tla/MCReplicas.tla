----------------------------- MODULE MCReplicas -----------------------------
(***************************************************************************)
(* What two replicas of the server come to agree on: the audit chainer     *)
(* through crashes and failover overlaps, and the Casbin enforcer each of  *)
(* them keeps.  The two share no state, so a behaviour exercises one part  *)
(* while the other stays in its initial state.                             *)
(***************************************************************************)
EXTENDS AuditChain, TLC

CONSTANTS p1, p2

VARIABLES
    part,                                   \* the one that moves
    roles, catalog, members, edits, requests, enforcer, reloads, messages, syncs, authorised, crossed

FirstEvents == 1..2

R == INSTANCE Roles WITH
    RoleIds <- {"r1"}, SystemRoles <- {"r1"}, Perms <- {"p"}, Holders <- {"u"}, Scopes <- {"o"},
    Pods <- Replicas, Editors <- {"w1"}, MaxRequests <- 2, MaxLoadFaults <- MaxFaults,
    loadFaults <- faults, pending <- reloads

rolesVars == <<roles, catalog, members, edits, requests, enforcer, reloads, messages, syncs,
               authorised, crossed>>

RolesInit ==
    /\ R!InitRoles
    /\ members = {[user |-> "u", role |-> "r1", scope |-> "global"]}
    /\ part # "enforcer" => catalog["r1"] = {}

AllInit == part \in {"audit", "enforcer"} /\ InitAudit /\ RolesInit

AllNext ==
    /\ UNCHANGED part
    /\ \/ part = "audit" /\ Next /\ UNCHANGED rolesVars
       \/ /\ part = "enforcer" /\ R!EngineNext
          /\ UNCHANGED <<dlockVars, ledgerVars, job, verifier>>

\* The fairness of each part, as its module states it.
AuditFair ==
    /\ \A r \in Replicas :
          /\ WF_vars(part = "audit" /\ ChainerStep(r))
          /\ \A k \in Jobs :
                /\ WF_vars(part = "audit" /\ leadOnce(r, k) /\ UNCHANGED auditVars)
                /\ WF_vars(part = "audit" /\ PingFails(r, k) /\ UNCHANGED auditVars)
                /\ WF_vars(part = "audit" /\ At(r, k, "idle") /\ runReturns(r, k) /\ UNCHANGED auditVars)
                /\ WF_vars(part = "audit" /\ PassFails(r, k) /\ ~ Live(r, k))
    /\ \A k \in Jobs : WF_vars(part = "audit" /\ SessionEnds(k) /\ UNCHANGED auditVars)

EnforcerFair ==
    \A pod \in Replicas :
        /\ WF_rolesVars(part = "enforcer" /\ R!runCasbinReconcile(pod))
        /\ WF_rolesVars(part = "enforcer" /\ \E s \in syncs :
                            s.pod = pod /\ s.kind = "tick" /\ R!ReplacePolicies(s))

AllSpec == AllInit /\ [][AllNext]_<<part, vars, rolesVars>> /\ AuditFair /\ EnforcerFair

-----------------------------------------------------------------------------

\* The jobs' leadership is taken again after every crash, an overlap of two leaders
\* ends, and captured events are chained meanwhile (leadOnce, its ping loop, chainOne).
FailoverRecovers == part = "audit" => LeadershipRecovers /\ OverlapEnds /\ EventuallyChained

\* Every pod's enforcer comes to mirror the catalog (resync, runCasbinReconcile).
EnforcerConverges == R!EnforcerConverges
=============================================================================
