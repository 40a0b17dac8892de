-------------------------- MODULE MCAdministration --------------------------
(***************************************************************************)
(* What administrators, delegated or not, do at the same time: grants of   *)
(* privileged access, policies and roles of an application, its record in  *)
(* the registry with keys and secrets, the catalog of administrative       *)
(* roles, and the offboarding of a user.  They share no state, so a        *)
(* behaviour exercises one part while the others stay in an initial state. *)
(***************************************************************************)
EXTENDS MCAccessRequest, Roles

VARIABLES
    part,                                   \* the one that moves
    alive, member, binding, rel, policies, events, appRoles, assigned, handlers, crashes, stray,
    row, certs, tokens, forward, index, last, contained, excused,
    active, provisioning, tasks, outbox, desk, reached, blind, met

(***************************************************************************)
(* One group, one administrative role and two roles of the application.    *)
(***************************************************************************)
A == INSTANCE AppAccess WITH
    Groups <- {"g"}, Roles <- {"r"}, RoleIds <- {"x", "y"}, MaxRequests <- 3, MaxCrashes <- 1,
    roles <- appRoles, req <- handlers

\* Facts about the user count for policies only.
AccessInit ==
    /\ A!Init
    /\ part # "policies" => rel /\ member = {} /\ binding = [r \in {"r"} |-> "no"]

(***************************************************************************)
(* One user's tokens and one key of protocol_config.                       *)
(***************************************************************************)
P == INSTANCE Apps WITH
    Users <- {"u"}, Keys <- {"k"}, MaxSecrets <- 3, MaxCerts <- 3, MaxTokens <- 2, MaxRequests <- 4,
    req <- handlers

AppsInit == P!Init /\ (part # "registry" => row = None)

\* Users are interchangeable: the first member of an administrative role is "u".
RolesInit ==
    /\ InitRoles
    /\ members \in SUBSET [role : RoleIds, user : {"u"}, scope : Everywhere]
    /\ part # "delegation" =>
          /\ \A r \in RoleIds : catalog[r] = {}
          /\ members = {[role |-> "r1", user |-> "u", scope |-> Global]}

(***************************************************************************)
(* A user who could reach two applications, and one checklist.             *)
(***************************************************************************)
O == INSTANCE Offboarding WITH
    Apps <- {"a", "b"}, TaskIds <- {"t1"}, scimAvailable <- TRUE, webhookEnabled <- TRUE,
    MaxRequests <- 5, MaxCrashes <- 1, req <- desk, crossed <- met

OffboardingInit == O!Init /\ (part # "offboarding" => ~ provisioning["a"] /\ ~ provisioning["b"])

-----------------------------------------------------------------------------

accessVars == <<now, table, proc, due, dirty, sessions, expiredEvents, lost>>
appVars == <<alive, member, binding, rel, policies, events, appRoles, assigned, stray>>
registryVars == <<row, certs, tokens, forward, index, last, contained, excused>>
rolesVars == <<roles, catalog, members, edits, loadFaults, enforcer, pending, messages, syncs, authorised>>
offboardingVars == <<active, provisioning, tasks, outbox, desk, reached, blind, met>>
allVars == <<part, handlers, requests, crashes, crossed, faults, accessVars, appVars, registryVars, rolesVars,
             offboardingVars>>

AllInit ==
    /\ part \in {"access", "policies", "app roles", "registry", "delegation", "offboarding"}
    /\ Init /\ AccessInit /\ AppsInit /\ RolesInit /\ OffboardingInit

AllNext ==
    /\ UNCHANGED part
    /\ \/ /\ part = "access" /\ Next
          /\ UNCHANGED <<handlers, requests, crashes, crossed, appVars, registryVars, rolesVars, offboardingVars>>
       \/ /\ part = "policies" /\ A!PolicyNext
          /\ UNCHANGED <<faults, accessVars, registryVars, rolesVars, offboardingVars>>
       \/ /\ part = "app roles" /\ A!RoleNext
          /\ UNCHANGED <<faults, accessVars, registryVars, rolesVars, offboardingVars>>
       \/ /\ part = "registry" /\ P!Next
          /\ UNCHANGED <<crashes, crossed, faults, accessVars, appVars, rolesVars, offboardingVars>>
       \/ /\ part = "delegation" /\ DelegationNext
          /\ UNCHANGED <<handlers, crashes, faults, accessVars, appVars, registryVars, offboardingVars>>
       \/ /\ part = "offboarding" /\ O!Next
          /\ UNCHANGED <<handlers, crossed, faults, accessVars, appVars, registryVars, rolesVars>>

AllSpec == AllInit /\ [][AllNext]_allVars

-----------------------------------------------------------------------------

\* The portal's list and the launch gate agree, no rule outlives its subject, and an
\* application has one default role (AppsForUser, CanAccess, cleanupSubject, CreateRole).
PoliciesHold == A!ListMatchesGate /\ A!NoPhantomPolicy /\ A!OneDefaultRole

\* An application keeps a key to sign with, and a reported emergency revocation leaves
\* no token of the old secret (RotateForApp, GenerateForApp, EmergencyRevoke).
RegistryHolds == P!KeptSigningKey /\ P!Contained

\* A checklist is resolved when everything reachable is ticked off, and nothing is
\* queued without its record (Offboard, CreateTaskWithItems, MarkItemDone).
OffboardingHolds == O!ChecklistTrue /\ O!QueuedIsRecorded
=============================================================================
