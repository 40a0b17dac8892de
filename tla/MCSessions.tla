----------------------------- MODULE MCSessions -----------------------------
(***************************************************************************)
(* Who is signed in: one session under two requests across its timeouts,   *)
(* and two sessions and a revocation of them all, over the same variables; *)
(* accounts, and their sessions as far as changes of an account cut them   *)
(* off; external identities.  A behaviour exercises one part while the     *)
(* others stay in an initial state.                                        *)
(***************************************************************************)
EXTENDS Session, TLC

CONSTANTS s1, s2, q1, q2

VARIABLES
    part,                                   \* the one that moves
    req, requests,
    users, history, sessions, events, count, torn, excused, waived,
    acct, bind, raced, moved

Handlers == Procs

\* Two sessions, while requests take no time.
V == INSTANCE Session WITH
    Sessions <- {s1, s2}, Absolutes <- {1, 2}, MaxFlight <- 0, MaxTime <- 1

A == INSTANCE Accounts WITH
    Users <- {"u1", "u2"}, Admin <- "u1", Passwords <- {"x1", "x2"}, Initial <- "x1",
    NoPassword <- "none", Ext <- "ext", Workers <- Handlers, UserCap <- 2, HistoryCount <- 1,
    MaxRequests <- 4, MaxCrashes <- 1

\* "a" has the name the external account reports, "c" does not exist yet.
I == INSTANCE Identities WITH
    Users <- {"a", "b", "c"}, Present <- {"a", "b"}, Externals <- {"x1"}, Namesakes <- [x \in {"x1"} |-> {"a"}],
    RowIds <- {"i1", "i2"}, Workers <- Handlers, MaxRequests <- 6

accountVars == <<users, history, sessions, events, count, torn, excused, waived>>
identityVars == <<acct, bind, raced, moved>>

AllInit ==
    /\ A!Init /\ I!Init
    /\ \/ part = "lifetime" /\ Init
       \/ part = "revoke" /\ V!Init
       \/ part \in {"accounts", "identities"} /\ Init /\ absolute = 1

AllNext ==
    /\ UNCHANGED part
    /\ \/ /\ (part = "lifetime" /\ Next) \/ (part = "revoke" /\ V!Next)
          /\ UNCHANGED <<req, requests, accountVars, identityVars>>
       \/ part = "accounts" /\ A!Next /\ UNCHANGED <<vars, requests, identityVars>>
       \/ part = "identities" /\ I!Next /\ UNCHANGED <<vars, accountVars>>

AllSpec == AllInit /\ [][AllNext]_<<part, vars, req, requests, accountVars, identityVars>>

Symmetry == Permutations({s1, s2}) \cup Permutations(Procs)

-----------------------------------------------------------------------------

\* A blocked account has no session and a reset password opens none, and a super
\* administrator is left (revokeUserSessions, SetSuperAdmin); no login of a live account
\* passes to another, and none is left to a deleted one (BindExternalIdentity, Delete,
\* RestoreUser).
AccountsHold ==
    /\ part = "lifetime" => TypeOK
    /\ part = "accounts" => A!TypeOK /\ A!CutOff /\ A!KeepsSuperAdmin
    /\ part = "identities" => I!TypeOK /\ I!NoTakeover /\ I!NoOrphan
=============================================================================
