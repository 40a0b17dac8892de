------------------------------ MODULE MCSignIn ------------------------------
(***************************************************************************)
(* Proving who one is: the counters and locks of password and second       *)
(* factor, the second factor itself, mailed links and SMS codes; and then  *)
(* signing on to applications and out of them: SAML, CAS and OIDC.  Each   *)
(* part is under two concurrent requests.  They share no state, so a       *)
(* behaviour exercises one part while the others stay in an initial state. *)
(***************************************************************************)
EXTENDS OneTimeCodes, TLC

CONSTANTS w1, w2

VARIABLES
    part,                                   \* the one that moves
    handlers,
    attempts, lock, fails, armed, level, locked, spent, crashes, trips, told,
    now, row, used, codes, challenges, generated, shown, opened, reused, retired,
    proto, portal, confirm, refs, listed, signOns, approvals, held, released, informed, excused

A == INSTANCE AttemptLimits WITH
    Users <- {"a"}, IPs <- {"i1", "i2"}, Nobody <- "nobody", MaxAttempts <- 2, CaptchaAfter <- 1,
    mfaFailThreshold <- 2, MaxLevel <- 2, MaxRequests <- 4, MaxCrashes <- 1,
    count <- attempts, req <- handlers

S == INSTANCE SecondFactor WITH
    totpSkewSteps <- 1, UsedTTL <- 4, BackupCodeCount <- 1, MaxDelay <- 1, MaxTime <- 2,
    MaxSecrets <- 2, MaxCodes <- 2, MaxChallenges <- 2, MaxRequests <- 4,
    last <- generated, req <- handlers

\* The same for long enough that the used-step key expires.
R == INSTANCE SecondFactor WITH
    totpSkewSteps <- 1, UsedTTL <- 4, BackupCodeCount <- 1, MaxDelay <- 1, MaxTime <- 4,
    MaxSecrets <- 2, MaxCodes <- 2, MaxChallenges <- 2, MaxRequests <- 3,
    last <- generated, req <- handlers

D == INSTANCE Federation WITH
    SAMLApps <- {"s"}, CASApps <- {"c"}, OIDCApps <- {"o1", "o2"}, SLOApps <- {"s"}, Sids <- {"d1"},
    MaxSignOns <- 2, MaxApprovals <- 1, MaxRequests <- 3, req <- handlers, told <- informed

limitVars == <<attempts, lock, fails, armed, level, locked, spent, crashes, trips, told>>
factorVars == <<now, row, used, codes, challenges, generated, shown, opened, reused, retired>>
codeVars == <<req, user, tokens, code, cooldown, count, last, mails, honoured, proven>>
federationVars == <<proto, portal, confirm, refs, listed, signOns, approvals, held, released, informed, excused>>

AllInit ==
    /\ part \in {"login", "mfa", "factor", "replay", "codes", "federation"}
    /\ A!Init /\ S!Init /\ Init /\ D!Init
    /\ part # "codes" => user.email = "e1"

AllNext ==
    /\ UNCHANGED part
    /\ \/ part = "login" /\ A!LoginNext /\ UNCHANGED <<requests, factorVars, codeVars, federationVars>>
       \/ part = "mfa" /\ A!MFANext /\ UNCHANGED <<requests, factorVars, codeVars, federationVars>>
       \/ part = "factor" /\ S!Next /\ UNCHANGED <<limitVars, codeVars, federationVars>>
       \/ part = "replay" /\ R!Next /\ UNCHANGED <<limitVars, codeVars, federationVars>>
       \/ part = "codes" /\ Next /\ UNCHANGED <<handlers, limitVars, factorVars, federationVars>>
       \/ part = "federation" /\ D!Next /\ UNCHANGED <<crossed, limitVars, factorVars, codeVars>>

AllSpec ==
    AllInit
    /\ [][AllNext]_<<part, handlers, requests, crossed, limitVars, factorVars, codeVars, federationVars>>

Symmetry == Permutations({w1, w2})

-----------------------------------------------------------------------------

\* Guesses stay within the threshold and the requests in flight, every counter decays,
\* and a lock is announced once (checkLoginLock, RecordFailure, trackFailure).
LimitsHold ==
    part \in {"login", "mfa"} => A!GuessesBounded /\ A!CounterDecays /\ A!LockAnnouncedOnce

\* A code opens one gate, the shown secret is the stored one, and retired backup codes
\* are dead (claimTOTPStep, MarkUsed, CreateMFA, ReplaceAll, DeleteMFA).
FactorHolds ==
    part \in {"factor", "replay"} => S!SingleUse /\ S!SetupAgrees /\ S!RetiredCodesDead

\* A logout tells every application that was signed on to, and each confirmed sign-on
\* had a confirmation of its own (Peek, Consume, SingleLogout, LogoutUser).
LogoutHolds == part = "federation" => D!NoneForgotten /\ D!EachConfirmed
=============================================================================
