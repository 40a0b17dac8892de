---------------------------- MODULE MCAccessRequest ----------------------------
(***************************************************************************)
(* Small instances of AccessRequest: the eligibility rules that            *)
(* administrators may write, and the symmetry of workers and requests.     *)
(***************************************************************************)
EXTENDS AccessRequest, TLC

CONSTANTS requester, approver, console, app, r1, r2, e1, w1, w2, s1, s2

\* An approver-scoped rule for the console target.
ManualRule ==
    [target |-> console, requesters |-> {requester}, approvers |-> {approver},
     auto |-> FALSE, durations |-> {1}, max |-> MaxTTL, stepup |-> TRUE,
     justification |-> FALSE]

\* A policy-approved rule for the app target.
AutoRule ==
    [ManualRule EXCEPT !.target = app, !.auto = TRUE, !.approvers = {},
                       !.stepup = FALSE, !.justification = TRUE]

\* A body the validation refuses: its duration is above the ceiling.
OverlongRule == [ManualRule EXCEPT !.durations = {1, MaxTTL + 1}, !.max = MaxTTL + 1]

ManualRules == {ManualRule, OverlongRule}
AppRules == {AutoRule} \cup {[rule EXCEPT !.target = app] : rule \in ManualRules}

Symmetry == Permutations(Workers) \cup Permutations(Requests)
===============================================================================
