--------------------------- MODULE MCCredentials ----------------------------
(***************************************************************************)
(* What callers are recognised by: two replicas rotating the keyset        *)
(* under one signer; access tokens; the administrator's password while two *)
(* replicas start.  They share no state, so a behaviour exercises one part *)
(* while the others stay in an initial state.                              *)
(***************************************************************************)
EXTENDS OIDCKeyset, TLC

CONSTANTS k1, k2, k3, r1, r2, g1

VARIABLES
    part,                                   \* the one that moves
    date, pats, used, call, calls, purge, early,
    schema, admin, pod, worker, connection, operator, starts, overtaken, hurried

Handlers == {"w1", "w2"}

\* "t1" may read, "t2" has no scope.
B == INSTANCE ApiTokens WITH
    Ids <- {"t1", "t2"}, ScopesOf <- [id \in {"t1", "t2"} |-> IF id = "t1" THEN {"read"} ELSE {}],
    Calls <- Handlers, Grace <- 1, MaxTime <- 3, MaxCalls <- 2, tokens <- pats, minted <- used

U == INSTANCE Startup WITH Pods <- Handlers, WithPassword <- {"w1"}, MaxStarts <- 4

-----------------------------------------------------------------------------

apiTokenVars == <<date, pats, used, call, calls, purge, early>>
startupVars == <<schema, admin, pod, worker, connection, operator, starts, overtaken, hurried>>

AllInit ==
    /\ part \in {"keyset", "access tokens", "start"}
    /\ Init /\ B!Init /\ U!Init

AllNext ==
    /\ UNCHANGED part
    /\ \/ part = "keyset" /\ Next /\ UNCHANGED <<apiTokenVars, startupVars>>
       \/ part = "access tokens" /\ B!Next /\ UNCHANGED <<vars, startupVars>>
       \/ part = "start" /\ U!Next /\ UNCHANGED <<vars, apiTokenVars>>

AllSpec == AllInit /\ [][AllNext]_<<part, vars, apiTokenVars, startupVars>>

Symmetry == Permutations(Keys) \cup Permutations(Replicas)

-----------------------------------------------------------------------------

\* A dead access token opens nothing and a live one is not purged (GetByPrefix, IsActive,
\* PurgeExpired); no pod serves with the seeded password, no start writes over a chosen
\* one, and connections outlive their workers (SecureSeededAdmin, cleanup).
CredentialsHold ==
    /\ B!DeadTokensRefused /\ B!GraceKept
    /\ U!NoSeededCredential /\ U!ChosenStays /\ U!ClosedAfterWorkers
=============================================================================
