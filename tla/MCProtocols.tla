----------------------------- MODULE MCProtocols -----------------------------
(***************************************************************************)
(* The protocol endpoints: authorization requests and consent; a family of *)
(* refresh tokens; CAS tickets and proxying.  They share no state, so a    *)
(* behaviour exercises one part while the others stay in an initial state. *)
(***************************************************************************)
EXTENDS RefreshTokens, CAS, TLC

CONSTANTS t1, t2, t3, p1, p2

VARIABLES
    part,                                   \* the one that moves
    req, requests,
    auth, codes, confirm, row, used, tokens, declined, afterNo, overlapped, since, met

F == INSTANCE OIDCFlow WITH
    Ids <- {"a1"}, Codes <- {"c1", "c2"}, Scopes <- {"p", "q"}, pkceRequired <- TRUE,
    Workers <- {"w1", "w2"}, MaxRequests <- 6, crossed <- overlapped

\* "a" owns both services and may proxy, "b" owns the second.
ServiceURLs == [x \in Apps |-> IF x = "a" THEN Services ELSE {"s2"}]

-----------------------------------------------------------------------------

flowVars == <<req, requests, overlapped, auth, codes, confirm, row, used, tokens, declined, afterNo, since, met>>

AllInit ==
    /\ part \in {"flow", "consent", "refresh", "cas"}
    /\ F!Init /\ Init /\ InitCAS

AllNext ==
    /\ UNCHANGED part
    /\ \/ part = "flow" /\ F!FlowNext /\ UNCHANGED <<vars, casVars>>
       \/ part = "consent" /\ F!ConsentNext /\ UNCHANGED <<vars, casVars>>
       \/ part = "refresh" /\ Next /\ UNCHANGED <<flowVars, casVars>>
       \/ part = "cas" /\ NextCAS /\ UNCHANGED <<vars, flowVars>>

AllSpec == AllInit /\ [][AllNext]_<<part, vars, flowVars, casVars>>

Symmetry == Permutations(Tokens) \cup Permutations(Procs)

-----------------------------------------------------------------------------

\* An authorization request is answered once, a refusal stays one, and revoked scopes
\* are asked for again (DeleteAuthRequest, denyAuthRequest, Grant, Revoke, HasAll).
FlowAnswers == F!AnsweredOnce /\ F!DeclinedStays /\ F!RevokedScopesGone
=============================================================================
