---------------------------- MODULE SecondFactor ----------------------------
(***************************************************************************)
(* One user's second factor: the TOTP secret, the backup codes, the login  *)
(* challenge and the used-step key in Redis.  Time is counted in TOTP      *)
(* steps of 30 seconds.  The verdict of the attempt limiter is left free   *)
(* here (module AttemptLimits has it): a request may end before it checks  *)
(* a code.                                                                 *)
(***************************************************************************)
EXTENDS Naturals, FiniteSets

CONSTANTS
    Workers, None,
    totpSkewSteps, UsedTTL,   \* in steps
    BackupCodeCount,
    MaxDelay,                 \* steps a request may take from its match to its claim
    MaxTime, MaxSecrets, MaxCodes, MaxChallenges, MaxRequests   \* bounds

VARIABLES
    now,
    row,        \* the mxid_user_mfa row of type totp, or None
    used,       \* Redis: last consumed step and when the key expires, or None
    codes,      \* unused backup codes
    challenges, \* outstanding login challenges
    last,       \* last secret, backup code and challenge generated
    req, requests,
    shown,      \* secrets handed to the user since the factor was last removed
    opened,     \* proofs that opened a gate
    reused,     \* one of them opened a second one
    retired,    \* codes of sets that were replaced or removed
    crossed     \* two rewrites of the code set overlapped

vars == <<now, row, used, codes, challenges, last, req, requests, shown, opened, reused, retired, crossed>>

Secrets == 1..MaxSecrets
TOTP == [secret : Secrets, step : 0..(MaxTime + totpSkewSteps)]
BackupCodes == 1..MaxCodes
Challenges == 1..MaxChallenges
Idle == [op |-> "idle"]

Init ==
    /\ now = 0 /\ row = None /\ used = None /\ codes = {} /\ challenges = {}
    /\ last = [secret |-> 0, code |-> 0, challenge |-> 0]
    /\ req = [w \in Workers |-> Idle] /\ requests = 0
    /\ shown = {} /\ opened = {} /\ reused = FALSE /\ retired = {} /\ crossed = FALSE

Verified == IF row = None THEN FALSE ELSE row.verified

Begin(w) == req[w] = Idle /\ requests < MaxRequests /\ requests' = requests + 1
Goto(w, r) == req' = [req EXCEPT ![w] = r]
Continue(w, r) == Goto(w, r) /\ UNCHANGED requests

\* A request still between its match and its claim holds the clock back once it
\* is MaxDelay old.
Tick ==
    /\ now < MaxTime
    /\ \A w \in Workers : req[w].op = "claim" => now - req[w].at < MaxDelay
    /\ now' = now + 1
    /\ used' = IF used # None /\ used.until <= now + 1 THEN None ELSE used
    /\ UNCHANGED <<row, codes, challenges, last, req, requests, shown, opened, reused, retired, crossed>>

(***************************************************************************)
(* Enrollment (totp.go).                                                   *)
(***************************************************************************)

\* SetupTOTP: an unverified row hands out its secret again (reuseTOTP), a
\* verified one refuses.
SetupTOTP(w) ==
    /\ Begin(w)
    /\ ~ Verified
    /\ IF row = None
       THEN /\ last.secret < MaxSecrets
            /\ last' = [last EXCEPT !.secret = @ + 1]
            /\ Goto(w, [op |-> "insert", secret |-> last.secret + 1])
            /\ UNCHANGED shown
       ELSE shown' = shown \cup {row.secret} /\ UNCHANGED <<last, req>>
    /\ UNCHANGED <<now, row, used, codes, challenges, opened, reused, retired, crossed>>

\* The row after ON CONFLICT DO NOTHING.
Inserted(secret) == IF row = None THEN [secret |-> secret, verified |-> FALSE] ELSE row

\* The loser of the insert reads the winner's row.
CreateMFA(w) ==
    LET r == req[w] IN
    /\ r.op = "insert"
    /\ row' = Inserted(r.secret)
    /\ IF row'.secret = r.secret
       THEN shown' = shown \cup {r.secret} /\ Continue(w, Idle)
       ELSE UNCHANGED shown /\ Continue(w, [op |-> "winner"])
    /\ UNCHANGED <<now, used, codes, challenges, last, opened, reused, retired, crossed>>

ReadWinner(w) ==
    /\ req[w].op = "winner"
    /\ shown' = IF row # None /\ ~ Verified THEN shown \cup {row.secret} ELSE shown
    /\ Continue(w, Idle)
    /\ UNCHANGED <<now, row, used, codes, challenges, last, opened, reused, retired, crossed>>

(***************************************************************************)
(* Verification.                                                           *)
(***************************************************************************)

\* Login, password accepted: HasVerifiedTOTP, then issueMFAChallenge.
issueMFAChallenge ==
    /\ Verified /\ last.challenge < MaxChallenges
    /\ challenges' = challenges \cup {last.challenge + 1}
    /\ last' = [last EXCEPT !.challenge = @ + 1]
    /\ UNCHANGED <<now, row, used, codes, req, requests, shown, opened, reused, retired, crossed>>

\* consumeMFAChallenge: GETDEL.
consumeMFAChallenge(g) == IF g.gate = "challenge" THEN challenges \ {g.challenge} ELSE challenges

Gates == {[gate |-> "challenge", challenge |-> c] : c \in challenges} \cup
         {[gate |-> g] : g \in {"stepup", "enroll", "regenerate"}}

\* matchTOTPStep: the code's step within the window around now.
matchTOTPStep(p) == p.step <= now + totpSkewSteps /\ now <= p.step + totpSkewSteps

\* VerifyMFAChallenge, VerifyStepUp, verifyTOTP and regenerateBackupCodes: the
\* challenge goes first, then the code is looked at.  Only the engine's two gates
\* also take a backup code.  admitted: the limiter's Check.
Present(w, g, p, admitted) ==
    /\ Begin(w)
    /\ challenges' = consumeMFAChallenge(g)
    /\ "code" \in DOMAIN p => g.gate \in {"challenge", "stepup"}
    /\ g.gate = "regenerate" => Verified
    /\ IF ~ admitted THEN UNCHANGED req
       ELSE IF "code" \in DOMAIN p
       THEN p.code \in codes /\ Goto(w, [op |-> "mark", proof |-> p, gate |-> g])
       ELSE /\ row # None /\ row.secret = p.secret /\ matchTOTPStep(p)
            /\ Goto(w, [op |-> "claim", proof |-> p, gate |-> g, row |-> row, at |-> now])
    /\ UNCHANGED <<now, row, used, codes, last, shown, opened, reused, retired, crossed>>

\* A wrong code still uses up the challenge.
WrongCode(w, c) ==
    /\ Begin(w) /\ c \in challenges
    /\ challenges' = consumeMFAChallenge([gate |-> "challenge", challenge |-> c])
    /\ UNCHANGED <<now, row, used, codes, last, req, shown, opened, reused, retired, crossed>>

Open(r) ==
    LET proofs == {r.proof} \cup
                  (IF r.gate.gate = "challenge" THEN {[challenge |-> r.gate.challenge]} ELSE {})
    IN /\ opened' = opened \cup proofs
       /\ reused' = (reused \/ opened \cap proofs # {})

\* The gate opens: a session, a fresh step-up, a finished enrollment, or new codes.
Passed(w, r) ==
    /\ Open(r)
    /\ Continue(w, IF r.gate.gate = "regenerate" THEN [op |-> "generate"] ELSE Idle)

\* Mutant: only an older step is refused.
replayedBefore(step) == used # None /\ used.step > step

replayed(step) == used # None /\ used.step >= step

\* totpClaimScript, then the promotion of an unverified row.
claimTOTPStep(w) ==
    LET r == req[w] IN
    /\ r.op = "claim"
    /\ IF replayed(r.proof.step)
       THEN UNCHANGED <<used, opened, reused>> /\ Continue(w, Idle)
       ELSE /\ used' = [step |-> r.proof.step, until |-> now + UsedTTL]
            /\ IF r.row.verified THEN Passed(w, r)
               ELSE UNCHANGED <<opened, reused>> /\ Continue(w, [r EXCEPT !.op = "promote"])
    /\ UNCHANGED <<now, row, codes, challenges, last, shown, retired, crossed>>

\* UpdateMFA is a Save of the row as read: it re-creates a row removed meanwhile
\* and fails on the unique index when another enrollment took its place.
UpdateMFA(w) ==
    LET r == req[w] IN
    /\ r.op = "promote"
    /\ IF row \in {None, r.row, [r.row EXCEPT !.verified = TRUE]}
       THEN row' = [r.row EXCEPT !.verified = TRUE] /\ Passed(w, r)
       ELSE UNCHANGED <<row, opened, reused>> /\ Continue(w, Idle)
    /\ UNCHANGED <<now, used, codes, challenges, last, shown, retired, crossed>>

(***************************************************************************)
(* Backup codes (backup_codes.go).                                         *)
(***************************************************************************)

Unused(code) == code \in codes

\* MarkUsed: UPDATE ... WHERE id = ? AND used_at IS NULL.
MarkUsed(w) ==
    LET r == req[w] IN
    /\ r.op = "mark"
    /\ codes' = codes \ {r.proof.code}
    /\ IF Unused(r.proof.code) THEN Passed(w, r) ELSE UNCHANGED <<opened, reused>> /\ Continue(w, Idle)
    /\ UNCHANGED <<now, row, used, challenges, last, shown, retired, crossed>>

\* regenerateBackupCodes of an account without a verified factor asks for no code.
Regenerate(w) ==
    /\ Begin(w)
    /\ ~ Verified
    /\ Goto(w, [op |-> "generate"])
    /\ UNCHANGED <<now, row, used, codes, challenges, last, shown, opened, reused, retired, crossed>>

\* GenerateBackupCodes: ReplaceAll's DELETE sees the codes committed by then ...
GenerateBackupCodes(w) ==
    /\ req[w].op = "generate"
    /\ last.code + BackupCodeCount <= MaxCodes
    /\ last' = [last EXCEPT !.code = @ + BackupCodeCount]
    /\ Continue(w, [op |-> "commit", old |-> codes,
                    new |-> (last.code + 1)..(last.code + BackupCodeCount)])
    /\ crossed' = (crossed \/ \E v \in Workers \ {w} : req[v].op = "commit")
    /\ UNCHANGED <<now, row, used, codes, challenges, shown, opened, reused, retired>>

\* ... and the transaction ends with the new set in place of those.
ReplaceAll(w) ==
    LET r == req[w] IN
    /\ r.op = "commit"
    /\ codes' = (codes \ r.old) \cup r.new
    /\ retired' = 1..MaxCodes \ r.new
    /\ Continue(w, Idle)
    /\ UNCHANGED <<now, row, used, challenges, last, shown, opened, reused, crossed>>

CodesAfterRemoval == {}

\* DeleteMFA (console, portal): DeleteMFATx removes the row and the codes together.
DeleteMFA ==
    /\ row # None
    /\ row' = None
    /\ codes' = CodesAfterRemoval
    /\ retired' = retired \cup 1..last.code
    /\ shown' = {}
    /\ crossed' = (crossed \/ \E v \in Workers : req[v].op = "commit")
    /\ UNCHANGED <<now, used, challenges, last, req, requests, opened, reused>>

Next ==
    \/ Tick \/ issueMFAChallenge \/ DeleteMFA
    \/ \E w \in Workers :
        \/ SetupTOTP(w) \/ CreateMFA(w) \/ ReadWinner(w)
        \/ claimTOTPStep(w) \/ UpdateMFA(w) \/ MarkUsed(w)
        \/ Regenerate(w) \/ GenerateBackupCodes(w) \/ ReplaceAll(w)
        \/ \E c \in Challenges : WrongCode(w, c)
        \/ \E g \in Gates, p \in TOTP \cup [code : BackupCodes], admitted \in BOOLEAN :
              Present(w, g, p, admitted)

Spec == Init /\ [][Next]_vars

(***************************************************************************)
(* Properties.                                                             *)
(***************************************************************************)

\* "A code is thus usable exactly once": no TOTP code, backup code or login
\* challenge ever opens two gates, whichever handlers race for it and however
\* late in its window it is tried again.
SingleUse == ~ reused

\* SetupTOTP, called twice at once, leaves "both callers (and the QR shown)" in
\* agreement "with what's stored": every secret shown since the last removal is
\* the stored one.
SetupAgrees == row # None => shown \subseteq {row.secret}

\* "the user can't end up with stale codes still being valid", and removing the
\* factor takes its codes along: a usable code belongs to no earlier set, unless
\* two rewrites of the set overlapped.
RetiredCodesDead == crossed \/ codes \cap retired = {}
=============================================================================
