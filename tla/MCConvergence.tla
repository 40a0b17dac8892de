--------------------------- MODULE MCConvergence ---------------------------
(***************************************************************************)
(* The parts of the system that promise to get there in the end, one small *)
(* instance of each: the outbox; dynamic groups over the organization      *)
(* tree, and the tree alone; and signing in with debts to settle.  They    *)
(* share no state, so a behaviour exercises one part while the others stay *)
(* in an initial state.                                                    *)
(***************************************************************************)
EXTENDS Outbox

CONSTANTS root, o1, o2, g1

VARIABLES
    part,                                   \* the one that moves
    orgs, userOrg, live, directory, spent, event, torn, status, purge, grp, rule, members, timer, crashes,
    req, owes, factor, sess, made, resets, revokes, indebted, served, bridged

(***************************************************************************)
(* Dynamic groups: one request at a time beside the sweep.                 *)
(***************************************************************************)
InSubtree == {[field |-> "org_id", cmp |-> "in_subtree", val |-> root]}
ActiveIn == {[field |-> "org_id", cmp |-> "eq", val |-> o1],
             [field |-> "status", cmp |-> "eq", val |-> "active"]}
Blank == {[field |-> "email", cmp |-> "contains", val |-> ""]}

G == INSTANCE Groups WITH
    OrgIds <- {root, o1}, RootOrgID <- root,
    CodeOf <- [o \in {root, o1} |-> IF o = root THEN "cr" ELSE "c1"], ValidCodes <- {"cr", "c1"},
    Users <- {"u1"}, Workers <- {"w1", "sweeper"}, Background <- {"sweeper"}, GroupIds <- {g1},
    Exprs <- {InSubtree, ActiveIn, Blank}, TextMatches <- {}, MaxRequests <- 4, MaxCrashes <- 1,
    req <- directory

\* The tree alone: an organization between two others, and two requests at once.
T == INSTANCE OrgTree WITH
    OrgIds <- {root, o1, o2}, RootOrgID <- root,
    CodeOf <- [o \in {root, o1, o2} |-> CASE o = root -> "cr" [] o = o1 -> "c1" [] o = o2 -> "c2"],
    ValidCodes <- {"cr", "c1", "c2"}, Users <- {"u1"}, Workers <- {"w1", "sweeper"}, MaxRequests <- 4,
    req <- directory

(***************************************************************************)
(* Signing in: a person under the MFA policy who may enter the console.    *)
(***************************************************************************)
S == INSTANCE SignOn WITH
    Workers <- {"w1"}, required <- TRUE, admin <- TRUE, MaxSessions <- 2, MaxResets <- 1

SignOnInit == S!Init /\ (part # "signon" => owes /\ ~ factor)

-----------------------------------------------------------------------------

outboxVars == <<row, worker, delivered>>
groupsVars == <<orgs, userOrg, live, directory, spent, event, torn, status, purge, grp, rule, members,
                timer, crashes>>
signOnVars == <<owes, factor, sess, made, resets, revokes, indebted, served, bridged>>
allVars == <<part, req, faults, outboxVars, groupsVars, signOnVars>>

AllInit ==
    /\ part \in {"outbox", "groups", "tree", "signon"}
    /\ Init /\ G!Init /\ SignOnInit

AllNext ==
    /\ UNCHANGED part
    /\ \/ /\ part = "outbox" /\ Next
          /\ UNCHANGED <<req, groupsVars, signOnVars>>
       \/ /\ part = "groups" /\ G!Next
          /\ UNCHANGED <<req, faults, outboxVars, signOnVars>>
       \/ /\ part = "tree" /\ T!Next
          /\ UNCHANGED <<req, faults, outboxVars, signOnVars, status, purge, grp, rule, members, timer, crashes>>
       \/ /\ part = "signon" /\ S!Next
          /\ UNCHANGED <<faults, outboxVars, groupsVars>>

\* The fairness of each part, as its module states it.
OutboxFair ==
    /\ WF_vars(part = "outbox" /\ Tick)
    /\ \A w \in Workers : WF_vars(part = "outbox" /\ WorkerStep(w))

GroupsFair ==
    /\ WF_groupsVars(part = "groups" /\ G!GroupStep("sweeper"))
    /\ WF_groupsVars(part = "groups" /\ G!runDynamicGroupReconcile("sweeper"))

SignOnFair ==
    /\ WF_signOnVars(part = "signon" /\ S!revokeUserSessions)
    /\ WF_<<signOnVars, req>>(part = "signon" /\ (S!Step("w1") \/ S!AbandonChallenge("w1")))
    /\ \A path \in {"pwd", "enroll"} :
          SF_<<signOnVars, req>>(part = "signon" /\ \E i \in S!Ids : S!AuthMiddleware("w1", i, path))

AllSpec ==
    AllInit /\ [][AllNext]_allVars /\ OutboxFair /\ GroupsFair /\ SignOnFair

-----------------------------------------------------------------------------

\* A group is dynamic exactly if it has a rule when no request is under way, a path
\* is its parent's path and the own code, and the members and the tree read off the
\* paths are those of parent_id (UpsertRule, DeleteRule, Move, GetMembers).
DirectoryAgrees ==
    /\ part = "groups" => G!TypeOK
    /\ G!TypeFollowsRule /\ G!Org!PathsAgree /\ G!Org!SubtreesAgree

\* Once requests stop, a dynamic group comes to hold exactly the users its rule
\* matches (syncRule, scheduleResync, runDynamicGroupReconcile).
RosterConverges == G!RosterConverges

\* A session with a debt is served nothing else until it is settled (obligationGate).
Confined == S!Confined

\* A person who keeps trying settles both debts (the gates' shared surfaces).
DebtsSettle == S!DebtsSettle
=============================================================================
