------------------------- MODULE OIDCKeyset_proofs --------------------------
(***************************************************************************)
(* Proofs about the keyset for any number of keys, replicas and requests:  *)
(* its types, that one key is active, and, when rotation is timely, that   *)
(* every unexpired token can be verified.                                  *)
(***************************************************************************)
EXTENDS OIDCKeyset, TLAPS

USE KeysetAssumption

\* A rotation's transaction holds the lock on the rows it demotes.
Holds(r) == At(r, "insert") /\ replica[r].demoted # {}

\* One transaction holds the lock at a time, and meanwhile the active row is
\* the one it demotes; this is what makes OneActive inductive.
LockInv ==
    /\ \A r \in Replicas : \A k \in replica[r].demoted : Exists(k)
    /\ \A r \in Replicas : Holds(r) => Active = replica[r].demoted
    /\ \A q, r \in Replicas : Holds(q) /\ Holds(r) => q = r

KeysInv == TypeOK /\ LockInv /\ OneActive

\* How late a key can be loaded, and a token signed with it expire.
LastLoad(k) == row[k].created + Every + MaxLag

TimeInv ==
    /\ \A k \in Keys : Exists(k) => row[k].created <= now
    /\ \A k \in Active : now <= LastLoad(k)
    /\ \A g \in Signers : signer[g].key # None =>
          /\ Exists(signer[g].key)
          /\ signer[g].start <= LastLoad(signer[g].key)
          /\ now <= signer[g].start + MaxFlight
    /\ \A k \in Keys : token[k] # None =>
          /\ Exists(k)
          /\ token[k] <= LastLoad(k) + MaxFlight + TokenTTL
    /\ \A k \in Keys : HasStatus(k, "retired") => now > row[k].created + SigningTTL

-----------------------------------------------------------------------------

(***************************************************************************)
(* The initial keyset is empty and nobody holds the lock.                  *)
(***************************************************************************)
LEMMA InitKeys == Init => KeysInv
BY DEF Init, KeysInv, TypeOK, LockInv, OneActive, Holds, At, Active, HasStatus, Exists

(***************************************************************************)
(* A step that changes no row and moves one replica to a label other than  *)
(* "insert", with a set of rows that exist, keeps the keyset's invariant.  *)
(***************************************************************************)
LEMMA MoveKeeps ==
  ASSUME KeysInv, UNCHANGED row, now' \in Nat, UNCHANGED <<signer, token>>,
         NEW r \in Replicas,
         NEW l \in {"boot", "generate", "idle", "demote", "blocked", "retire"},
         NEW d \in SUBSET Keys, \A k \in d : Exists(k),
         GoWith(r, l, d)
  PROVE  KeysInv'
<1>1. TypeOK'
  BY DEF KeysInv, TypeOK, GoWith
<1>2. Active' = Active /\ \A k \in Keys : Exists(k)' = Exists(k)
  BY DEF Active, HasStatus, Exists
<1>3. replica' = [replica EXCEPT ![r] = [pc |-> l, demoted |-> d]]
  BY DEF GoWith
<1>4. \A q \in Replicas : replica'[q] = IF q = r THEN [pc |-> l, demoted |-> d] ELSE replica[q]
  BY <1>3 DEF KeysInv, TypeOK
<1>5. \A q \in Replicas : Holds(q)' => Holds(q) /\ replica'[q] = replica[q]
  BY <1>4 DEF Holds, At
<1>6. LockInv'
  BY <1>2, <1>4, <1>5 DEF KeysInv, LockInv, TypeOK, Exists
<1>7. OneActive'
  BY <1>2 DEF KeysInv, OneActive
<1> QED
  BY <1>1, <1>6, <1>7 DEF KeysInv

(***************************************************************************)
(* Every step keeps the types, the lock discipline and the one active key. *)
(***************************************************************************)
LEMMA NextKeys == KeysInv /\ [Next]_vars => KeysInv'
<1> SUFFICES ASSUME KeysInv, [Next]_vars PROVE KeysInv'
  OBVIOUS
<1>0. TypeOK /\ LockInv /\ OneActive /\ Active \subseteq Keys
  BY DEF KeysInv, Active
<1>1. ASSUME NEW r \in Replicas, EnsureActive(r) PROVE KeysInv'
  BY <1>0, <1>1, MoveKeeps DEF EnsureActive, Go, TypeOK
<1>2. ASSUME NEW r \in Replicas, MaybeRotate(r) PROVE KeysInv'
  BY <1>0, <1>2, MoveKeeps DEF MaybeRotate, Go, TypeOK
<1>3. ASSUME NEW r \in Replicas, RotateDemote(r) PROVE KeysInv'
  <2>1. \A k \in Active : Exists(k)
    BY DEF Active, HasStatus
  <2>2. CASE Locked(r)
    BY <1>0, <1>3, <2>1, <2>2, MoveKeeps DEF RotateDemote, TypeOK
  <2>3. CASE ~ Locked(r)
    <3>1. replica' = [replica EXCEPT ![r] = [pc |-> "insert", demoted |-> Active]]
      BY <1>3, <2>3 DEF RotateDemote, GoWith
    <3>2. row' = row
      BY <1>3 DEF RotateDemote
    <3>3. Active' = Active /\ \A k \in Keys : Exists(k)' = Exists(k)
      BY <3>2 DEF Active, HasStatus, Exists
    <3>4. \A q \in Replicas \ {r} : replica'[q] = replica[q] /\ ~ Holds(q)'
      BY <1>0, <2>3, <3>1 DEF TypeOK, Locked, Holds, At
    <3>5. replica'[r] = [pc |-> "insert", demoted |-> Active]
      BY <1>0, <3>1 DEF TypeOK
    <3>6. TypeOK'
      BY <1>0, <1>3, <3>1 DEF RotateDemote, TypeOK
    <3>7. LockInv'
      BY <1>0, <2>1, <3>3, <3>4, <3>5 DEF LockInv, Holds, At, TypeOK
    <3> QED
      BY <1>0, <3>3, <3>6, <3>7 DEF KeysInv, OneActive
  <2> QED
    BY <2>2, <2>3
<1>4. ASSUME NEW r \in Replicas, RotateResume(r) PROVE KeysInv'
  <2> DEFINE d == replica[r].demoted \cap Active
  <2>1. replica' = [replica EXCEPT ![r] = [pc |-> "insert", demoted |-> d]]
    BY <1>4 DEF RotateResume, GoWith
  <2>2. Active' = Active /\ \A k \in Keys : Exists(k)' = Exists(k)
    BY <1>4 DEF RotateResume, Active, HasStatus, Exists
  <2>3. d # {} => d = Active
    BY <1>0 DEF OneActive
  <2>4. \A q \in Replicas \ {r} : replica'[q] = replica[q] /\ ~ Holds(q)'
    BY <1>0, <1>4, <2>1 DEF RotateResume, TypeOK, Locked, Holds, At
  <2>5. replica'[r] = [pc |-> "insert", demoted |-> d] /\ \A k \in d : Exists(k)
    BY <1>0, <2>1 DEF TypeOK, Active, HasStatus
  <2>6. TypeOK'
    BY <1>0, <1>4, <2>1 DEF RotateResume, TypeOK
  <2>7. LockInv'
    <3> HIDE DEF d
    <3>1. d \in SUBSET Keys
      BY <1>0 DEF d
    <3> QED
      BY <1>0, <2>2, <2>3, <2>4, <2>5, <3>1 DEF LockInv, Holds, At, TypeOK
  <2> QED
    BY <1>0, <2>2, <2>6, <2>7 DEF KeysInv, OneActive
<1>5. ASSUME NEW r \in Replicas, RetireExpired(r) PROVE KeysInv'
  <2>1. row' \in [Keys -> Row \cup {None}]
    BY <1>0, <1>5 DEF RetireExpired, TypeOK, Row, HasStatus, Exists
  <2>2. \A k \in Keys : /\ Exists(k)' <=> Exists(k)
                        /\ HasStatus(k, "active")' <=> HasStatus(k, "active")
    BY <1>0, <1>5 DEF RetireExpired, TypeOK, Row, HasStatus, Exists
  <2>3. Active' = Active
    BY <2>2 DEF Active
  <2>4. replica' = [replica EXCEPT ![r] = [pc |-> "retire", demoted |-> {}]]
        \/ replica' = [replica EXCEPT ![r] = [pc |-> "idle", demoted |-> {}]]
    BY <1>5 DEF RetireExpired, Go, GoWith
  <2>5. TypeOK'
    BY <1>0, <1>5, <2>1, <2>4 DEF RetireExpired, TypeOK
  <2>6. \A q \in Replicas : replica'[q] = replica[q] \/ (replica'[q].demoted = {} /\ ~ Holds(q)')
    BY <1>0, <2>4 DEF TypeOK, Holds, At
  <2>7. LockInv'
    BY <1>0, <2>2, <2>3, <2>6 DEF LockInv, TypeOK, Holds, At
  <2> QED
    BY <1>0, <2>2, <2>3, <2>5, <2>7 DEF KeysInv, OneActive
<1>6. ASSUME NEW r \in Replicas, StatementFails(r) PROVE KeysInv'
  BY <1>0, <1>6, MoveKeeps DEF StatementFails, Go, TypeOK
<1>7. ASSUME NEW r \in Replicas, Restart(r) PROVE KeysInv'
  BY <1>0, <1>7, MoveKeeps DEF Restart, Go, TypeOK
<1>8. ASSUME NEW r \in Replicas, NEW k \in Keys, Generate(r, k) PROVE KeysInv'
  <2>1. CASE Active = {}
    <3>1. row' = [row EXCEPT ![k] = NewKey]
      BY <1>8, <2>1 DEF Generate
    <3>2. \A j \in Keys : /\ Exists(j)' <=> j = k
                          /\ HasStatus(j, "active")' <=> j = k
      BY <1>0, <2>1, <3>1 DEF OneActive, TypeOK, Row, NewKey, HasStatus, Exists
    <3>3. Active' = {k}
      BY <3>2 DEF Active
    <3>4. \A q \in Replicas : replica'[q].demoted = {} /\ ~ Holds(q)'
      <4>1. \A q \in Replicas : replica[q].demoted = {}
        BY <1>0, <2>1 DEF OneActive, LockInv, TypeOK
      <4> QED
        BY <1>0, <1>8, <4>1 DEF Generate, Go, GoWith, TypeOK, Holds, At
    <3>5. TypeOK'
      BY <1>0, <1>8, <3>1 DEF Generate, Go, GoWith, TypeOK, NewKey, Row
    <3> QED
      BY <3>2, <3>3, <3>4, <3>5 DEF KeysInv, LockInv, OneActive
  <2>2. CASE Active # {}
    BY <1>0, <1>8, <2>2, MoveKeeps DEF Generate, Go, TypeOK
  <2> QED
    BY <2>1, <2>2
<1>9. ASSUME NEW r \in Replicas, NEW k \in Keys, RotateCommit(r, k) PROVE KeysInv'
  <2> DEFINE d == replica[r].demoted
  <2>1. CASE Active \subseteq d
    <3>1. row' = Rotated(d, k)
      BY <1>9, <2>1 DEF RotateCommit
    <3>2. ~ Exists(k) /\ \A j \in d : j \in Keys /\ Exists(j)
      BY <1>0, <1>9 DEF RotateCommit, LockInv, TypeOK
    <3>3. row' \in [Keys -> Row \cup {None}]
      BY <1>0, <3>1, <3>2 DEF Rotated, NewKey, TypeOK, Row, Exists
    <3>4. \A j \in Keys : /\ Exists(j)' <=> (Exists(j) \/ j = k)
                          /\ HasStatus(j, "active")' <=> j = k
      <4> SUFFICES ASSUME NEW j \in Keys
                   PROVE /\ Exists(j)' <=> (Exists(j) \/ j = k)
                         /\ HasStatus(j, "active")' <=> j = k
        OBVIOUS
      <4>1. CASE j \in d
        BY <1>0, <3>1, <3>2, <4>1 DEF Rotated, TypeOK, Row, HasStatus, Exists
      <4>2. CASE j \notin d /\ j = k
        BY <1>0, <3>1, <4>2 DEF Rotated, NewKey, TypeOK, Row, HasStatus, Exists
      <4>3. CASE j \notin d /\ j # k
        BY <2>1, <3>1, <4>3 DEF Rotated, Active, HasStatus, Exists
      <4> QED
        BY <4>1, <4>2, <4>3
    <3>5. Active' = {k}
      BY <3>4 DEF Active
    <3>6. replica' = [replica EXCEPT ![r] = [pc |-> "retire", demoted |-> {}]]
      BY <1>9 DEF RotateCommit, Go, GoWith
    <3>7. \A q \in Replicas : ~ Holds(q)' /\ \A j \in replica'[q].demoted : j \in replica[q].demoted
      BY <1>0, <1>9, <3>6 DEF RotateCommit, TypeOK, Locked, Holds, At
    <3>8. TypeOK'
      BY <1>0, <1>9, <3>3, <3>6 DEF RotateCommit, TypeOK
    <3>9. LockInv'
      <4> SUFFICES ASSUME NEW q \in Replicas, NEW j \in replica'[q].demoted PROVE Exists(j)'
        BY <3>7 DEF LockInv
      <4>1. j \in replica[q].demoted
        BY <3>7
      <4>2. j \in Keys /\ Exists(j)
        BY <1>0, <4>1 DEF LockInv, TypeOK
      <4> QED
        BY <3>4, <4>2
    <3> QED
      BY <3>5, <3>8, <3>9 DEF KeysInv, OneActive
  <2>2. CASE ~ (Active \subseteq d)
    BY <1>0, <1>9, <2>2, MoveKeeps DEF RotateCommit, Go, TypeOK
  <2> QED
    BY <2>1, <2>2
<1>10. ASSUME UNCHANGED <<row, replica>>, TypeOK' PROVE KeysInv'
  BY <1>0, <1>10 DEF KeysInv, LockInv, OneActive, Holds, At, Active, HasStatus, Exists
<1>11. ASSUME NEW g \in Signers, LoadActiveSigningKey(g) PROVE KeysInv'
  BY <1>0, <1>10, <1>11 DEF LoadActiveSigningKey, TypeOK
<1>12. ASSUME NEW g \in Signers, Issue(g) PROVE KeysInv'
  BY <1>0, <1>10, <1>12 DEF Issue, TypeOK
<1>13. CASE Tick
  BY <1>0, <1>10, <1>13 DEF Tick, TypeOK
<1>14. CASE UNCHANGED vars
  BY <1>0, <1>10, <1>14 DEF vars, TypeOK
<1> QED
  BY <1>1, <1>2, <1>3, <1>4, <1>5, <1>6, <1>7, <1>8, <1>9, <1>11, <1>12, <1>13, <1>14 DEF Next

(***************************************************************************)
(* From the first key on exactly one key is active, whatever rotations     *)
(* overlap, fail or are cut short by a restart.                            *)
(***************************************************************************)
THEOREM OneActiveTheorem == Spec => [](TypeOK /\ OneActive)
<1>1. KeysInv => TypeOK /\ OneActive
  BY DEF KeysInv
<1> QED
  BY <1>1, InitKeys, NextKeys, PTL DEF Spec

-----------------------------------------------------------------------------

(***************************************************************************)
(* Every step keeps the bounds on when a key is loaded, signs and retires. *)
(***************************************************************************)
LEMMA NextTime == KeysInv /\ TimeInv /\ [Next]_vars => TimeInv'
<1> SUFFICES ASSUME KeysInv, TimeInv, [Next]_vars PROVE TimeInv'
  OBVIOUS
<1>0. TypeOK
  BY DEF KeysInv
<1>1. ASSUME UNCHANGED <<now, row, signer, token>> PROVE TimeInv'
  BY <1>1 DEF TimeInv, LastLoad, Active, HasStatus, Exists
<1>2. ASSUME UNCHANGED <<now, signer, token>>, row' \in [Keys -> Row \cup {None}],
             \A k \in Keys : Exists(k) => Exists(k)' /\ row'[k].created = row[k].created,
             \A k \in Keys : Exists(k)' => Exists(k) \/ row'[k] = NewKey,
             \A k \in Keys : HasStatus(k, "active")' => HasStatus(k, "active") \/ row'[k] = NewKey,
             \A k \in Keys : HasStatus(k, "retired")' =>
                 HasStatus(k, "retired") \/ now > row[k].created + SigningTTL
      PROVE TimeInv'
  <2>1. \A k \in Keys : Exists(k)' => row'[k].created <= now'
    BY <1>0, <1>2 DEF TimeInv, NewKey, TypeOK
  <2>2. \A k \in Active' : now' <= LastLoad(k)'
    BY <1>0, <1>2 DEF TimeInv, LastLoad, Active, HasStatus, NewKey, TypeOK
  <2>3. \A g \in Signers : signer'[g].key # None =>
          /\ Exists(signer[g].key)'
          /\ signer'[g].start <= LastLoad(signer[g].key)'
          /\ now' <= signer'[g].start + MaxFlight
    BY <1>0, <1>2 DEF TimeInv, LastLoad, TypeOK
  <2>4. \A k \in Keys : token'[k] # None =>
          /\ Exists(k)'
          /\ token'[k] <= LastLoad(k)' + MaxFlight + TokenTTL
    BY <1>0, <1>2 DEF TimeInv, LastLoad, TypeOK
  <2>5. \A k \in Keys : HasStatus(k, "retired")' => now' > row'[k].created + SigningTTL
    BY <1>0, <1>2 DEF TimeInv, HasStatus, NewKey, TypeOK, Exists
  <2> QED
    BY <1>2, <2>1, <2>2, <2>3, <2>4, <2>5 DEF TimeInv
<1>3. ASSUME NEW r \in Replicas, RetireExpired(r) PROVE TimeInv'
  <2>1. row' \in [Keys -> Row \cup {None}]
    BY <1>0, <1>3 DEF RetireExpired, TypeOK, Row, HasStatus, Exists
  <2>2. \A k \in Keys : row'[k] = row[k] \/ (HasStatus(k, "rotating") /\ pastExpiry(k)
                                             /\ row'[k] = [row[k] EXCEPT !.status = "retired"])
    BY <1>0, <1>3 DEF RetireExpired, TypeOK
  <2> QED
    BY <1>0, <1>2, <1>3, <2>1, <2>2
       DEF RetireExpired, TypeOK, Row, HasStatus, Exists, pastExpiry
<1>4. ASSUME NEW r \in Replicas, NEW k \in Keys, Generate(r, k) PROVE TimeInv'
  <2>1. CASE row' = [row EXCEPT ![k] = NewKey]
    BY <1>0, <1>2, <1>4, <2>1 DEF Generate, TypeOK, Row, NewKey, HasStatus, Exists
  <2>2. CASE row' = row
    BY <1>1, <1>4, <2>2 DEF Generate
  <2> QED
    BY <1>4, <2>1, <2>2 DEF Generate
<1>5. ASSUME NEW r \in Replicas, NEW k \in Keys, RotateCommit(r, k) PROVE TimeInv'
  <2> DEFINE d == replica[r].demoted
  <2>1. CASE row' = Rotated(d, k)
    <3>1. ~ Exists(k) /\ \A j \in d : j \in Keys /\ Exists(j)
      BY <1>0, <1>5 DEF RotateCommit, KeysInv, LockInv, TypeOK
    <3>2. row' \in [Keys -> Row \cup {None}]
      BY <1>0, <2>1, <3>1 DEF Rotated, NewKey, TypeOK, Row, Exists
    <3>3. \A j \in Keys : \/ row'[j] = row[j]
                          \/ Exists(j) /\ row'[j] = [row[j] EXCEPT !.status = "rotating"]
                          \/ ~ Exists(j) /\ row'[j] = NewKey
      BY <1>0, <2>1, <3>1 DEF Rotated, TypeOK
    <3> QED
      <4>0. \A j \in Keys : /\ Exists(j)' /\ row'[j] = row[j] => Exists(j)
                            /\ Exists(j) => [row[j] EXCEPT !.status = "rotating"].status = "rotating"
        BY <1>0 DEF TypeOK, Row, Exists
      <4>1. \A j \in Keys : Exists(j) => Exists(j)' /\ row'[j].created = row[j].created
        BY <1>0, <3>2, <3>3 DEF TypeOK, Row, NewKey, Exists
      <4>2. \A j \in Keys : Exists(j)' => Exists(j) \/ row'[j] = NewKey
        BY <3>3 DEF Exists
      <4>3. \A j \in Keys : HasStatus(j, "active")' => HasStatus(j, "active") \/ row'[j] = NewKey
        BY <1>0, <3>3, <4>0 DEF HasStatus
      <4>4. \A j \in Keys : HasStatus(j, "retired")' => HasStatus(j, "retired")
        <5> SUFFICES ASSUME NEW j \in Keys, HasStatus(j, "retired")' PROVE HasStatus(j, "retired")
          OBVIOUS
        <5>1. row'[j] # NewKey
          BY DEF NewKey, HasStatus
        <5>2. row'[j] = row[j]
          BY <3>3, <4>0, <5>1 DEF HasStatus
        <5> QED
          BY <5>2 DEF HasStatus, Exists
      <4> QED
        BY <1>2, <1>5, <3>2, <4>1, <4>2, <4>3, <4>4 DEF RotateCommit
  <2>2. CASE row' = row
    BY <1>1, <1>5, <2>2 DEF RotateCommit
  <2> QED
    BY <1>5, <2>1, <2>2 DEF RotateCommit
<1>6. ASSUME NEW g \in Signers, LoadActiveSigningKey(g) PROVE TimeInv'
  <2>1. PICK k \in Active : signer' = [signer EXCEPT ![g] = [key |-> k, start |-> now]]
    BY <1>6 DEF LoadActiveSigningKey
  <2>2. k \in Keys /\ Exists(k) /\ now <= LastLoad(k)
    BY DEF TimeInv, Active, HasStatus
  <2> QED
    BY <1>0, <1>6, <2>1, <2>2
       DEF LoadActiveSigningKey, TimeInv, LastLoad, TypeOK, Active, HasStatus, Exists
<1>7. ASSUME NEW g \in Signers, Issue(g) PROVE TimeInv'
  <2> DEFINE k == signer[g].key
  <2>1. k \in Keys /\ Exists(k) /\ now + TokenTTL <= LastLoad(k) + MaxFlight + TokenTTL
    BY <1>0, <1>7 DEF Issue, TimeInv, LastLoad, TypeOK, Row, Exists
  <2>2. \A j \in Keys : token'[j] = IF j = k THEN now + TokenTTL ELSE token[j]
    BY <1>0, <1>7 DEF Issue, TypeOK
  <2>3. \A h \in Signers : signer'[h].key # None => signer'[h] = signer[h]
    BY <1>0, <1>7 DEF Issue, TypeOK
  <2>4. UNCHANGED <<now, row>>
    BY <1>7 DEF Issue
  <2> HIDE DEF k
  <2> QED
    BY <2>1, <2>2, <2>3, <2>4 DEF TimeInv, LastLoad, Active, HasStatus, Exists
<1>8. CASE Tick
  BY <1>0, <1>8 DEF Tick, TimeInv, LastLoad, TypeOK, Row, Active, HasStatus, Exists
<1>9. ASSUME NEW r \in Replicas,
             EnsureActive(r) \/ MaybeRotate(r) \/ RotateDemote(r) \/ RotateResume(r)
                \/ StatementFails(r) \/ Restart(r)
      PROVE  TimeInv'
  BY <1>1, <1>9
     DEF EnsureActive, MaybeRotate, RotateDemote, RotateResume, StatementFails, Restart
<1>10. CASE UNCHANGED vars
  BY <1>1, <1>10 DEF vars
<1> QED
  BY <1>3, <1>4, <1>5, <1>6, <1>7, <1>8, <1>9, <1>10 DEF Next

(***************************************************************************)
(* A rotation lag, a request's duration and a token's lifetime that fit,   *)
(* together with the rotation cadence, into SigningTTL are enough for every*)
(* unexpired token to verify against the published keys.                   *)
(***************************************************************************)
THEOREM TokensVerifyTheorem ==
  ASSUME TimelyRotation
  PROVE  Spec => []TokensVerify
<1>1. Init => TimeInv
  BY DEF Init, TimeInv, LastLoad, Active, HasStatus, Exists
<1>2. KeysInv /\ TimeInv => TokensVerify
  <2> SUFFICES ASSUME KeysInv, TimeInv, NEW k \in Keys, token[k] # None, now <= token[k]
               PROVE  k \in Published
    BY DEF TokensVerify
  <2>1. row[k] \in Row /\ Exists(k) /\ token[k] \in Nat /\ now \in Nat
    BY DEF KeysInv, TypeOK, TimeInv, Exists
  <2>2. ~ HasStatus(k, "retired")
    BY <2>1, TimelyRotation DEF TimelyRotation, TimeInv, LastLoad, Row
  <2> QED
    BY <2>1, <2>2 DEF Published, Active, HasStatus, Row
<1> QED
  BY <1>1, <1>2, InitKeys, NextKeys, NextTime, PTL DEF Spec
=============================================================================
