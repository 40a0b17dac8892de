------------------------------ MODULE OneTime ------------------------------
(***************************************************************************)
(* What a store of one-time tokens promises: a token is issued at most     *)
(* once, is taken out of the store by whoever redeems it, and is honoured  *)
(* at most once; after that it is nowhere.  The redeemer may act in the    *)
(* same step (the validation of a CAS ticket) or hold the token for a      *)
(* while (a link whose address is still being compared), and give up.      *)
(***************************************************************************)
CONSTANT Tokens

VARIABLES
    fresh,      \* never issued
    live,       \* in the store
    taken,      \* out of the store, in the hands of a redeemer
    honoured    \* what they are good for was given

vars == <<fresh, live, taken, honoured>>

Init == fresh = Tokens /\ live = {} /\ taken = {} /\ honoured = {}

Issue(t) ==
    /\ t \in fresh
    /\ fresh' = fresh \ {t} /\ live' = live \cup {t}
    /\ UNCHANGED <<taken, honoured>>

Take(t) ==
    /\ t \in live
    /\ live' = live \ {t} /\ taken' = taken \cup {t}
    /\ UNCHANGED <<fresh, honoured>>

Honour(t) ==
    /\ t \in live \cup taken
    /\ live' = live \ {t} /\ taken' = taken \ {t} /\ honoured' = honoured \cup {t}
    /\ UNCHANGED fresh

\* Expired, refused or given up.
Lapse(t) ==
    /\ t \in live \cup taken
    /\ live' = live \ {t} /\ taken' = taken \ {t}
    /\ UNCHANGED <<fresh, honoured>>

Next == \E t \in Tokens : Issue(t) \/ Take(t) \/ Honour(t) \/ Lapse(t)

Spec == Init /\ [][Next]_vars
=============================================================================
