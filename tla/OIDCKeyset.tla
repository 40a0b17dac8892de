----------------------------- MODULE OIDCKeyset -----------------------------
(***************************************************************************)
(* The provider's signing keys (internal/domain/oidckey).  Every replica   *)
(* runs RunRotation: it mints the first key, rotates a key that is old     *)
(* enough and retires rotated ones past their expiry.  Requests load the   *)
(* active key and sign tokens, which relying parties verify against the    *)
(* published keys.  The database runs at READ COMMITTED, and its partial   *)
(* unique index admits one active row.                                     *)
(***************************************************************************)
EXTENDS Integers, FiniteSets

CONSTANTS
    Keys,           \* the rows that are ever minted
    Replicas,
    Signers,        \* token requests that may run concurrently
    None,
    Every,          \* rotation cadence
    SigningTTL,     \* from a key's creation to its expiry
    TokenTTL,       \* lifetime of a signed token
    MaxLag,         \* bound: how late the rotation ticker may act on a due key
    MaxFlight,      \* bound: from loading a key to issuing the token
    MaxTime         \* bound: clock

Row == [status : {"active", "rotating", "retired"}, created : Nat]

ASSUME KeysetAssumption ==
    /\ None \notin Keys /\ None \notin Row /\ None \notin Nat
    /\ Every \in Nat /\ SigningTTL \in Nat /\ TokenTTL \in Nat
    /\ MaxLag \in Nat /\ MaxFlight \in Nat /\ MaxTime \in Nat

VARIABLES
    now,
    row,            \* mxid_oidc_keyset: per key its status and creation time
    replica,        \* per replica: RunRotation's position and locals
    signer,         \* per token request: the key it has loaded, and when
    token           \* per key: the latest expiry of a token signed with it

vars == <<now, row, replica, signer, token>>

Init ==
    /\ now = 0
    /\ row = [k \in Keys |-> None]
    /\ replica = [r \in Replicas |-> [pc |-> "boot", demoted |-> {}]]
    /\ signer = [g \in Signers |-> [key |-> None, start |-> 0]]
    /\ token = [k \in Keys |-> None]

Exists(k) == row[k] # None

HasStatus(k, status) == Exists(k) /\ row[k].status = status

Active == {k \in Keys : HasStatus(k, "active")}

\* ListVerificationKeys.
Published == Active \cup {k \in Keys : HasStatus(k, "rotating")}

GoWith(r, label, demoted) ==
    replica' = [replica EXCEPT ![r] = [pc |-> label, demoted |-> demoted]]

Go(r, label) == GoWith(r, label, {})

At(r, label) == replica[r].pc = label

\* Another replica's rotation holds the active row's lock.
Locked(r) == \E q \in Replicas \ {r} : At(q, "insert") /\ replica[q].demoted # {}

\* The row that buildKey prepares.
NewKey == [status |-> "active", created |-> now]

-----------------------------------------------------------------------------

\* EnsureActive's read, at startup.
EnsureActive(r) ==
    /\ At(r, "boot")
    /\ Go(r, IF Active = {} THEN "generate" ELSE "idle")
    /\ UNCHANGED <<now, row, signer, token>>

\* Generate: the INSERT of the first key, which waits for a transaction that
\* touches the index entry; a violation means that another replica was first.
Generate(r, k) ==
    /\ At(r, "generate")
    /\ ~ Locked(r)
    /\ ~ Exists(k)
    /\ row' = IF Active = {} THEN [row EXCEPT ![k] = NewKey] ELSE row
    /\ Go(r, "idle")
    /\ UNCHANGED <<now, signer, token>>

due(k) == now - row[k].created >= Every

\* A tick of RunRotation: MaybeRotate reads the active key.
MaybeRotate(r) ==
    /\ At(r, "idle")
    /\ \/ /\ Active = {}
          /\ Go(r, "retire")
       \/ \E k \in Active :
             Go(r, IF due(k) THEN "demote" ELSE "retire")
    /\ UNCHANGED <<now, row, signer, token>>

\* Rotate's UPDATE locks the active row, or waits for the lock on it.
RotateDemote(r) ==
    /\ At(r, "demote")
    /\ GoWith(r, IF Locked(r) THEN "blocked" ELSE "insert", Active)
    /\ UNCHANGED <<now, row, signer, token>>

\* The lock is free: the UPDATE looks at the row it waited for again, and not
\* at rows inserted meanwhile.
RotateResume(r) ==
    /\ At(r, "blocked")
    /\ ~ Locked(r)
    /\ GoWith(r, "insert", replica[r].demoted \cap Active)
    /\ UNCHANGED <<now, row, signer, token>>

\* The rows after the demotion and the insert.
Rotated(demoted, k) ==
    [j \in Keys |->
        IF j \in demoted THEN [row[j] EXCEPT !.status = "rotating"]
        ELSE IF j = k THEN NewKey ELSE row[j]]

\* Rotate's INSERT and COMMIT.  An active row that the UPDATE did not demote is
\* a unique violation: the transaction rolls back and the winner's key is used.
RotateCommit(r, k) ==
    /\ At(r, "insert")
    /\ ~ Locked(r)
    /\ ~ Exists(k)
    /\ row' = IF Active \subseteq replica[r].demoted THEN Rotated(replica[r].demoted, k) ELSE row
    /\ Go(r, "retire")
    /\ UNCHANGED <<now, signer, token>>

\* A statement fails, its transaction rolls back, and RunRotation goes on.
StatementFails(r) ==
    /\ \/ /\ replica[r].pc \in {"generate", "retire"}
          /\ Go(r, "idle")
       \/ /\ replica[r].pc \in {"demote", "blocked", "insert"}
          /\ Go(r, "retire")
    /\ UNCHANGED <<now, row, signer, token>>

\* The process restarts; an open transaction rolls back.
Restart(r) ==
    /\ ~ At(r, "boot")
    /\ Go(r, "boot")
    /\ UNCHANGED <<now, row, signer, token>>

\* Mutant: a key's expiry counts from its rotation cadence.
pastExpiryEarly(k) == now > row[k].created + Every

pastExpiry(k) == now > row[k].created + SigningTTL

RetireExpired(r) ==
    /\ At(r, "retire")
    /\ row' = [k \in Keys |->
                  IF HasStatus(k, "rotating") /\ pastExpiry(k)
                  THEN [row[k] EXCEPT !.status = "retired"] ELSE row[k]]
    /\ Go(r, "idle")
    /\ UNCHANGED <<now, signer, token>>

-----------------------------------------------------------------------------

\* SigningKey for a token request.
LoadActiveSigningKey(g) ==
    /\ signer[g].key = None
    /\ \E k \in Active : signer' = [signer EXCEPT ![g] = [key |-> k, start |-> now]]
    /\ UNCHANGED <<now, row, replica, token>>

\* The token library signs and returns the token.
Issue(g) ==
    /\ signer[g].key # None
    /\ token' = [token EXCEPT ![signer[g].key] = now + TokenTTL]
    /\ signer' = [signer EXCEPT ![g].key = None]
    /\ UNCHANGED <<now, row, replica>>

\* Some replica's ticker acts on a due key within the lag.
Tick ==
    /\ now < MaxTime
    /\ \A g \in Signers : signer[g].key # None => now < signer[g].start + MaxFlight
    /\ \A k \in Active : now < row[k].created + Every + MaxLag
    /\ now' = now + 1
    /\ UNCHANGED <<row, replica, signer, token>>

Next ==
    \/ \E r \in Replicas :
          \/ EnsureActive(r) \/ MaybeRotate(r) \/ RotateDemote(r) \/ RotateResume(r)
          \/ RetireExpired(r) \/ StatementFails(r) \/ Restart(r)
          \/ \E k \in Keys : Generate(r, k) \/ RotateCommit(r, k)
    \/ \E g \in Signers : LoadActiveSigningKey(g) \/ Issue(g)
    \/ Tick

Spec == Init /\ [][Next]_vars

\* A due key is rotated before tokens signed with it could outlive it.
TimelyRotation == Every + MaxLag + MaxFlight + TokenTTL <= SigningTTL

-----------------------------------------------------------------------------

\* The types of the keyset and of the processes' locals.
TypeOK ==
    /\ now \in Nat
    /\ row \in [Keys -> Row \cup {None}]
    /\ replica \in [Replicas ->
          [pc : {"boot", "generate", "idle", "demote", "blocked", "insert", "retire"},
           demoted : SUBSET Keys]]
    /\ signer \in [Signers -> [key : Keys \cup {None}, start : Nat]]
    /\ token \in [Keys -> Nat \cup {None}]

(***************************************************************************)
(* Exactly one key signs from the first one on: whichever replicas rotate  *)
(* at once, fail or restart, Rotate leaves neither two active keys, between*)
(* which replicas would disagree, nor none, with which no token is issued. *)
(***************************************************************************)
OneActive ==
    /\ \A j, k \in Active : j = k
    /\ \A k \in Keys : Exists(k) => Active # {}

(***************************************************************************)
(* A token that has not expired can be verified: the key that signed it is *)
(* published (Rotate: "so its public key stays in the JWKS until tokens it *)
(* signed expire"), though a request loads the key before a rotation and   *)
(* signs after it, and though every replica rotates and retires.           *)
(***************************************************************************)
TokensVerify ==
    \A k \in Keys : token[k] # None /\ now <= token[k] => k \in Published
=============================================================================
