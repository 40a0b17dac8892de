-------------------------- MODULE AccessRequest_proofs --------------------------
(***************************************************************************)
(* Proofs about AccessRequest, for every set of users, targets, rules,     *)
(* requests, handlers and sweepers; and about the delegated administration *)
(* of Roles, for every set of roles, permissions, members and scopes.      *)
(***************************************************************************)
EXTENDS AccessRequest, Roles, TLAPS

\* Most leaves are first-order; the ones that need more name their prover.
USE Zenon

\* A process past its first read holds a row that exists, and one that still
\* has to invalidate knows for whom.
HoldsRow(x) ==
    /\ x.pc \notin {"idle", "invalidate"} =>
          x.snap # None /\ req[x.snap.id] # None
    /\ x.pc \in {"invalidate", "invalidateEnd", "finish"} => x.owes \in Users

\* Rows read by a process or a sweeper exist, and are stored under their id.
RowsOK ==
    /\ \A p \in Procs : HoldsRow(proc[p])
    /\ \A s \in Sweepers : \A row \in due[s] : req[row.id] # None
    /\ \A r \in Requests : req[r] # None => req[r].id = r

Shape == TypeOK /\ RowsOK

USE AccessAssumption

LEMMA InitShape == Init => Shape
  BY SMT DEF Init, Shape, TypeOK, RowsOK, HoldsRow, Procs, Process, Idle, Labels

-------------------------------------------------------------------------------
(* Frames: what is left to show for a step that moves one process, and for *)
(* one that also writes one row of the request table.                      *)

\* No request row disappears, and each stays under its own id.
RowsKept ==
    /\ req' \in [Requests -> RequestRow \cup {None}]
    /\ \A r \in Requests : req[r] # None => req'[r] # None
    /\ \A r \in Requests : req'[r] # None => req'[r].id = r

LEMMA WriteRow ==
  ASSUME Shape, NEW r \in Requests, NEW row \in RequestRow, row.id = r,
         req' = [req EXCEPT ![r] = row]
  PROVE  RowsKept
  BY DEF Shape, TypeOK, RowsOK, RowsKept

LEMMA SameRows == ASSUME Shape, req' = req PROVE RowsKept
  BY DEF Shape, TypeOK, RowsOK, RowsKept

LEMMA MoveProcess ==
  ASSUME Shape, RowsKept, NEW p \in Procs, NEW x \in Process,
         proc' = [proc EXCEPT ![p] = x], HoldsRow(x)',
         \A s \in Sweepers : \A row \in due'[s] : row \in RequestRow /\ req'[row.id] # None
  PROVE  proc' \in [Procs -> Process] /\ RowsOK'
  <1>1. proc' \in [Procs -> Process]
    BY DEF Shape, TypeOK
  <1>2. ASSUME NEW q \in Procs PROVE HoldsRow(proc[q])'
    <2>1. CASE q = p
      BY <2>1 DEF Shape, TypeOK
    <2>2. CASE q # p
      <3>1. proc'[q] = proc[q] /\ HoldsRow(proc[q]) /\ proc[q] \in Process
        BY <2>2 DEF Shape, TypeOK, RowsOK
      <3> QED BY <3>1, SMT DEF HoldsRow, RowsKept, Process, RequestRow
    <2> QED BY <2>1, <2>2
  <1> QED BY <1>1, <1>2 DEF RowsOK, RowsKept

LEMMA KeepProcesses ==
  ASSUME Shape, RowsKept, proc' = proc, due' = due
  PROVE  RowsOK'
  <1>1. ASSUME NEW q \in Procs PROVE HoldsRow(proc[q])'
    <2>1. HoldsRow(proc[q]) /\ proc[q] \in Process
      BY DEF Shape, TypeOK, RowsOK
    <2> QED BY <2>1 DEF HoldsRow, RowsKept, Process, RequestRow
  <1>2. \A s \in Sweepers : \A row \in due[s] : row \in RequestRow
    BY DEF Shape, TypeOK
  <1> QED BY <1>1, <1>2, SMT DEF Shape, RowsOK, RowsKept, RequestRow

\* A sweeper's remaining rows still exist after any step that keeps the rows.
LEMMA DueKept ==
  ASSUME Shape, RowsKept, NEW s \in Sweepers, NEW row \in due[s]
  PROVE  row \in RequestRow /\ req'[row.id] # None
  <1>1. row \in RequestRow /\ row.id \in Requests
    BY SMT DEF Shape, TypeOK, RequestRow
  <1> QED BY <1>1 DEF Shape, RowsOK, RowsKept

LEMMA IdleHolds == Idle \in Process /\ HoldsRow(Idle)'
  BY DEF Idle, Process, Labels, HoldsRow

-------------------------------------------------------------------------------
(* Every action preserves Shape.                                           *)

LEMMA BeginShape ==
  ASSUME Shape, NEW p \in Procs, NEW a \in Users \cup {System},
         NEW label \in {"approve", "reject", "cancel", "end"},
         NEW row \in RequestRow, req'[row.id] # None, RowsKept,
         Begin(p, label, a, row),
         \A s \in Sweepers : due'[s] \subseteq due[s]
  PROVE  proc' \in [Procs -> Process] /\ RowsOK'
  <1> DEFINE x == [Idle EXCEPT !.pc = label, !.actor = a, !.snap = row]
  <1>1. x \in Process /\ HoldsRow(x)'
    BY DEF Idle, Process, Labels, HoldsRow
  <1>2. proc' = [proc EXCEPT ![p] = x]
    BY DEF Begin
  <1>3. \A s \in Sweepers : \A d \in due'[s] : d \in RequestRow /\ req'[d.id] # None
    BY DueKept
  <1> HIDE DEF x
  <1> QED BY <1>1, <1>2, <1>3, MoveProcess

LEMMA HandlerShape ==
  ASSUME Shape, NEW w \in Procs, NEW a \in Users, NEW r \in Requests,
         \/ \E fresh \in BOOLEAN : ApproveHandler(w, a, r, fresh)
         \/ Reject(w, a, r)
         \/ Cancel(w, a, r)
         \/ Revoke(w, a, r)
  PROVE  Shape'
  <1>1. /\ req[r] # None
        /\ UNCHANGED <<now, table, due, effects>>
        /\ \E label \in {"approve", "reject", "cancel", "end"} : Begin(w, label, a, req[r])
    BY DEF ApproveHandler, Reject, Cancel, Revoke
  <1>2. req[r] \in RequestRow /\ req[r].id = r /\ req' = req
    BY <1>1 DEF Shape, TypeOK, RowsOK, table
  <1>3. RowsKept
    BY <1>2, SameRows
  <1>4. proc' \in [Procs -> Process] /\ RowsOK'
    BY <1>1, <1>2, <1>3, BeginShape
  <1> QED BY <1>1, <1>4 DEF Shape, TypeOK, table, effects

LEMMA CreateShape ==
  ASSUME Shape, NEW w \in Procs, NEW r \in Requests, NEW u \in Users,
         NEW e \in Eligibilities, NEW d \in 0..MaxTime, NEW j \in BOOLEAN,
         CreateRequest(w, r, u, e, d, j)
  PROVE  Shape'
  <1> DEFINE row == NewRequest(r, u, e, elig[e], d)
  <1>1. elig[e] \in Eligibility
    BY DEF Shape, TypeOK, CreateRequest, Exists
  <1>2. row \in RequestRow /\ row.id = r
    BY <1>1, SMT DEF NewRequest, RequestRow, Eligibility, Statuses, ClampDuration
  <1>3. /\ req' = [req EXCEPT ![r] = row]
        /\ Begin(w, "approve", System, row) \/ proc' = proc
        /\ UNCHANGED <<now, elig, bindings, nextID, due, effects>>
    BY DEF CreateRequest
  <1> HIDE DEF row
  <1>4. RowsKept /\ req'[r] # None
    BY <1>2, <1>3, WriteRow DEF Shape, TypeOK
  <1>5. proc' \in [Procs -> Process] /\ RowsOK'
    <2>1. CASE Begin(w, "approve", System, row)
      BY <1>2, <1>3, <1>4, <2>1, BeginShape
    <2>2. CASE proc' = proc
      BY <1>3, <1>4, <2>2, KeepProcesses DEF Shape, TypeOK
    <2> QED BY <1>3, <2>1, <2>2
  <1> QED BY <1>3, <1>4, <1>5 DEF Shape, TypeOK, RowsKept, effects

LEMMA ApproveShape ==
  ASSUME Shape, NEW w \in Procs, ApproveRead(w) \/ ApproveScope(w)
  PROVE  Shape'
  <1>1. proc[w] \in Process /\ HoldsRow(proc[w])
    BY DEF Shape, TypeOK, RowsOK
  <1>2. /\ proc[w].snap \in RequestRow /\ proc[w].snap.id \in Requests
        /\ req[proc[w].snap.id] \in RequestRow
        /\ req[proc[w].snap.id].id = proc[w].snap.id
    BY <1>1, SMT DEF ApproveRead, ApproveScope, HoldsRow, Process, Shape, TypeOK, RowsOK,
                RequestRow
  <1>3. UNCHANGED <<now, table, due, effects>>
    BY DEF ApproveRead, ApproveScope
  <1>4. RowsKept
    BY <1>3, SameRows DEF table
  <1>5. PICK x \in Process : proc' = [proc EXCEPT ![w] = x] /\ HoldsRow(x)'
    <2>1. CASE proc' = [proc EXCEPT ![w] = Idle]
      BY <2>1, IdleHolds
    <2>2. CASE /\ ApproveRead(w)
               /\ proc' = [proc EXCEPT ![w] = [@ EXCEPT !.pc = "scope",
                                                   !.snap = req[proc[w].snap.id]]]
      <3>1. PICK y : y = [proc[w] EXCEPT !.pc = "scope", !.snap = req[proc[w].snap.id]]
        OBVIOUS
      <3>2. /\ y \in Process /\ y.pc = "scope"
            /\ y.snap = req[proc[w].snap.id]
        BY <1>1, <1>2, <3>1 DEF Process, Labels
      <3>3. HoldsRow(y)'
        BY <1>2, <1>3, <3>2 DEF HoldsRow, table, RequestRow
      <3> QED BY <2>2, <3>1, <3>2, <3>3
    <2>3. CASE /\ ApproveScope(w)
               /\ proc' = [proc EXCEPT ![w] = [@ EXCEPT !.pc = "grant",
                                                   !.exp = now + proc[w].snap.secs]]
      <3>1. PICK y : y = [proc[w] EXCEPT !.pc = "grant", !.exp = now + proc[w].snap.secs]
        OBVIOUS
      <3>2. now + proc[w].snap.secs \in Nat
        BY <1>2, SMT DEF RequestRow, Shape, TypeOK
      <3>3. y \in Process /\ y.pc = "grant" /\ y.snap = proc[w].snap
        BY <1>1, <3>1, <3>2 DEF Process, Labels
      <3>4. HoldsRow(y)'
        BY <1>2, <1>3, <3>3 DEF HoldsRow, table, RequestRow
      <3> QED BY <2>3, <3>1, <3>3, <3>4
    <2> QED BY <2>1, <2>2, <2>3 DEF ApproveRead, ApproveScope, Return
  <1>6. proc' \in [Procs -> Process] /\ RowsOK'
    BY <1>3, <1>4, <1>5, DueKept, MoveProcess
  <1> QED BY <1>3, <1>6 DEF Shape, TypeOK, table, effects

\* The row a process past its first read holds, and the stored row of its id.
LEMMA HeldRow ==
  ASSUME Shape, NEW p \in Procs, proc[p].pc \notin {"idle", "invalidate"}
  PROVE  /\ proc[p] \in Process
         /\ proc[p].snap \in RequestRow /\ proc[p].snap.id \in Requests
         /\ proc[p].snap.requester \in Users
         /\ req[proc[p].snap.id] \in RequestRow
         /\ req[proc[p].snap.id].id = proc[p].snap.id
  <1>1. proc[p] \in Process /\ HoldsRow(proc[p])
    BY DEF Shape, TypeOK, RowsOK
  <1> QED BY <1>1, SMT DEF HoldsRow, Process, Shape, TypeOK, RowsOK, RequestRow

LEMMA GrantShape ==
  ASSUME Shape, NEW w \in Procs, ApproveAndGrant(w)
  PROVE  Shape'
  <1>1. proc[w].pc = "grant" /\ proc[w] \in Process
    BY HeldRow DEF ApproveAndGrant
  <1> DEFINE r == proc[w].snap.id
  <1>2. /\ proc[w].snap \in RequestRow /\ r \in Requests
        /\ proc[w].snap.requester \in Users /\ proc[w].snap.target \in Targets
        /\ req[r] \in RequestRow /\ req[r].id = r
    BY <1>1, HeldRow DEF RequestRow
  <1>3. nextID \in Nat /\ nextID' = nextID + 1 /\ due' = due
    BY DEF ApproveAndGrant, Shape, TypeOK
  <1>4. CASE StillPending(proc[w].snap)
    <2>1. PICK new : new = [req[r] EXCEPT !.status = "approved",
                !.approver = proc[w].actor, !.expiresAt = proc[w].exp, !.binding = nextID]
      OBVIOUS
    <2>2. new \in RequestRow /\ new.id = r
      BY <1>1, <1>2, <1>3, <2>1 DEF RequestRow, Process, Statuses
    <2>3. req' = [req EXCEPT ![r] = new]
      BY <1>4, <2>1 DEF ApproveAndGrant
    <2>4. RowsKept
      BY <1>2, <2>2, <2>3, WriteRow
    <2>5. PICK x : x = [proc[w] EXCEPT !.pc = "invalidate",
                                       !.owes = proc[w].snap.requester]
      OBVIOUS
    <2>6. x \in Process /\ x.pc = "invalidate" /\ x.owes \in Users
      BY <1>1, <1>2, <2>5 DEF Process, Labels
    <2>7. HoldsRow(x)'
      BY <2>6 DEF HoldsRow
    <2>8. proc' = [proc EXCEPT ![w] = x]
      BY <1>4, <2>5 DEF ApproveAndGrant
    <2>9. proc' \in [Procs -> Process] /\ RowsOK'
      BY <1>3, <2>4, <2>6, <2>7, <2>8, DueKept, MoveProcess
    <2>10. bindings' \subseteq BindingRow
      <3>1. bindings' = insertBindingTx(proc[w].snap, nextID, proc[w].exp)
        BY <1>4 DEF ApproveAndGrant
      <3>2. [id |-> nextID, user |-> proc[w].snap.requester,
             target |-> proc[w].snap.target, grant |-> proc[w].snap.id,
             expiresAt |-> proc[w].exp, created |-> now] \in BindingRow
        BY <1>1, <1>2, <1>3 DEF BindingRow, Process, Shape, TypeOK
      <3> QED BY <3>1, <3>2 DEF insertBindingTx, Shape, TypeOK
    <2>11. dirty' \subseteq Users
      BY <1>2, <1>4, SMT DEF ApproveAndGrant, Staled, Shape, TypeOK
    <2> QED BY <1>3, <2>4, <2>9, <2>10, <2>11, SMT
            DEF Shape, TypeOK, RowsKept, ApproveAndGrant
  <1>5. CASE ~StillPending(proc[w].snap)
    <2>1. /\ proc' = [proc EXCEPT ![w] = Idle]
          /\ UNCHANGED <<bindings, req, dirty>>
      BY <1>5 DEF ApproveAndGrant, Return
    <2>2. RowsKept
      BY <2>1, SameRows
    <2>3. proc' \in [Procs -> Process] /\ RowsOK'
      BY <1>3, <2>1, <2>2, IdleHolds, DueKept, MoveProcess
    <2> QED BY <1>3, <2>1, <2>3, SMT DEF Shape, TypeOK, ApproveAndGrant
  <1> QED BY <1>4, <1>5

LEMMA UpdateShape ==
  ASSUME Shape, NEW w \in Procs, UpdateRequestStatus(w)
  PROVE  Shape'
  <1> DEFINE r == proc[w].snap.id
  <1>1. /\ proc[w].pc \in {"reject", "cancel"} /\ proc[w] \in Process
        /\ r \in Requests /\ req[r] \in RequestRow /\ req[r].id = r
    BY HeldRow DEF UpdateRequestStatus
  <1>2. PICK new \in RequestRow : new.id = r /\ req' = [req EXCEPT ![r] = new]
    <2>1. CASE proc[w].pc = "reject"
      <3>1. PICK new : new = [req[r] EXCEPT !.status = "rejected", !.approver = proc[w].actor]
        OBVIOUS
      <3>2. new \in RequestRow /\ new.id = r
        BY <1>1, <3>1 DEF RequestRow, Process, Statuses
      <3> QED BY <2>1, <3>1, <3>2 DEF UpdateRequestStatus
    <2>2. CASE proc[w].pc = "cancel"
      <3>1. PICK new : new = [req[r] EXCEPT !.status = "cancelled"]
        OBVIOUS
      <3>2. new \in RequestRow /\ new.id = r
        BY <1>1, <3>1 DEF RequestRow, Statuses
      <3> QED BY <2>2, <3>1, <3>2 DEF UpdateRequestStatus
    <2> QED BY <1>1, <2>1, <2>2
  <1>3. RowsKept
    BY <1>1, <1>2, WriteRow
  <1>4. proc' = [proc EXCEPT ![w] = Idle] /\ due' = due
    BY DEF UpdateRequestStatus, Return
  <1>5. proc' \in [Procs -> Process] /\ RowsOK'
    BY <1>3, <1>4, IdleHolds, DueKept, MoveProcess
  <1>6. UNCHANGED <<now, elig, bindings, nextID, dirty, sessions, expiredEvents, lost, faults>>
    BY DEF UpdateRequestStatus, effects
  <1> QED BY <1>3, <1>4, <1>5, <1>6 DEF Shape, TypeOK, RowsKept

LEMMA SweepShape ==
  ASSUME Shape, NEW s \in Sweepers, SweeperStep(s)
  PROVE  Shape'
  <1>1. CASE SweepList(s)
    <2>1. ListDueGrants \subseteq RequestRow
      BY SMT DEF ListDueGrants, Shape, TypeOK
    <2>2. \A row \in ListDueGrants : req[row.id] # None
      BY SMT DEF ListDueGrants, Shape, TypeOK, RowsOK
    <2> QED BY <1>1, <2>1, <2>2
            DEF SweepList, Shape, TypeOK, RowsOK, HoldsRow, table, effects
  <1>2. ASSUME NEW row \in due[s], SweepNext(s, row) PROVE Shape'
    <2>1. /\ UNCHANGED <<now, table, effects>>
          /\ Begin(s, "end", System, row)
          /\ due' = [due EXCEPT ![s] = @ \ {row}]
      BY <1>2 DEF SweepNext
    <2>2. RowsKept
      BY <2>1, SameRows DEF table
    <2>3. row \in RequestRow /\ req'[row.id] # None
      BY <2>2, DueKept
    <2>4. due' \in [Sweepers -> SUBSET RequestRow] /\ \A t \in Sweepers : due'[t] \subseteq due[t]
      BY <2>1 DEF Shape, TypeOK
    <2>5. proc' \in [Procs -> Process] /\ RowsOK'
      BY <2>1, <2>2, <2>3, <2>4, BeginShape DEF Procs
    <2> QED BY <2>1, <2>4, <2>5 DEF Shape, TypeOK, table, effects
  <1> QED BY <1>1, <1>2 DEF SweeperStep

LEMMA EndShape ==
  ASSUME Shape, NEW p \in Procs, EndGrant(p)
  PROVE  Shape'
  <1> DEFINE r == proc[p].snap.id
  <1>1. /\ proc[p].pc = "end" /\ proc[p] \in Process
        /\ proc[p].snap \in RequestRow /\ proc[p].snap.requester \in Users
        /\ r \in Requests /\ req[r] \in RequestRow /\ req[r].id = r
    BY HeldRow DEF EndGrant
  <1>2. due' = due
    BY DEF EndGrant, sweepError
  <1>3. CASE r \in Unendable
    <2>1. /\ proc' = [proc EXCEPT ![p] = Idle]
          /\ UNCHANGED <<bindings, req, dirty>>
      BY <1>3 DEF EndGrant, Return
    <2>2. proc' \in [Procs -> Process] /\ RowsOK'
      BY <1>2, <2>1, SameRows, IdleHolds, DueKept, MoveProcess
    <2> QED BY <1>2, <2>1, <2>2 DEF Shape, TypeOK, EndGrant
  <1>4. CASE r \notin Unendable
    <2>1. PICK new : new = [req[r] EXCEPT !.status = finalStatus(p)]
      OBVIOUS
    <2>2. new \in RequestRow /\ new.id = r
      BY <1>1, <2>1, SMT DEF RequestRow, Statuses, finalStatus
    <2>3. req' = [req EXCEPT ![r] = new]
      BY <1>4, <2>1 DEF EndGrant
    <2>4. RowsKept /\ req'[r] # None
      BY <1>1, <2>2, <2>3, WriteRow DEF Shape, TypeOK
    <2>5. PICK x : x = [proc[p] EXCEPT !.pc = "invalidateEnd",
                                       !.owes = proc[p].snap.requester]
      OBVIOUS
    <2>6. /\ x \in Process /\ x.pc = "invalidateEnd" /\ x.owes \in Users
          /\ x.snap = proc[p].snap
      BY <1>1, <2>5 DEF Process, Labels
    <2>7. HoldsRow(x)'
      BY <1>1, <2>4, <2>6 DEF HoldsRow
    <2>8. proc' = [proc EXCEPT ![p] = x]
      BY <1>4, <2>5 DEF EndGrant
    <2>9. proc' \in [Procs -> Process] /\ RowsOK'
      BY <1>2, <2>4, <2>6, <2>7, <2>8, DueKept, MoveProcess
    <2>10. bindings' \subseteq BindingRow /\ dirty' \subseteq Users
      BY <1>1, <1>4, SMT DEF EndGrant, endBinding, Staled, Shape, TypeOK
    <2> QED BY <1>2, <2>4, <2>9, <2>10 DEF Shape, TypeOK, RowsKept, EndGrant
  <1> QED BY <1>3, <1>4

LEMMA EffectShape ==
  ASSUME Shape, NEW p \in Procs, NEW ok \in BOOLEAN,
         Invalidate(p, ok) \/ InvalidateEnded(p, ok) \/ terminateIfApp(p, ok)
  PROVE  Shape'
  <1>1. /\ proc[p] \in Process /\ proc[p].owes \in Users
        /\ proc[p].pc \in {"invalidate", "invalidateEnd", "finish"}
    BY DEF Shape, TypeOK, RowsOK, HoldsRow, Invalidate, InvalidateEnded, terminateIfApp
  <1>2. UNCHANGED <<now, table, due>>
    BY DEF Invalidate, InvalidateEnded, terminateIfApp
  <1>3. RowsKept
    BY <1>2, SameRows DEF table
  <1>4. PICK x \in Process : proc' = [proc EXCEPT ![p] = x] /\ HoldsRow(x)'
    <2>1. CASE proc' = [proc EXCEPT ![p] = Idle]
      BY <2>1, IdleHolds
    <2>2. CASE InvalidateEnded(p, ok)
      <3>1. PICK x : x = [proc[p] EXCEPT !.pc = "finish"]
        OBVIOUS
      <3>2. /\ x \in Process /\ x.pc = "finish"
            /\ x.snap = proc[p].snap /\ x.owes = proc[p].owes
        BY <1>1, <3>1 DEF Process, Labels
      <3>3. req'[x.snap.id] # None /\ x.snap # None
        BY <1>2, <2>2, <3>2, HeldRow DEF InvalidateEnded, table
      <3>4. HoldsRow(x)'
        BY <1>1, <3>2, <3>3 DEF HoldsRow
      <3> QED BY <2>2, <3>1, <3>2, <3>4 DEF InvalidateEnded
    <2> QED BY <2>1, <2>2 DEF Invalidate, terminateIfApp, Return
  <1>5. proc' \in [Procs -> Process] /\ RowsOK'
    BY <1>2, <1>3, <1>4, DueKept, MoveProcess
  <1>6. faults' \in Nat /\ lost' \subseteq Users /\ dirty' \subseteq Users
    BY <1>1, SMT DEF Invalidate, InvalidateEnded, terminateIfApp, BestEffort, Shape, TypeOK
  <1>7. /\ sessions' \subseteq [user : Users, target : AppTargets]
        /\ expiredEvents' \in [Requests -> Nat]
    BY SMT DEF Invalidate, InvalidateEnded, terminateIfApp, Shape, TypeOK
  <1> QED BY <1>2, <1>5, <1>6, <1>7 DEF Shape, TypeOK, table

LEMMA MemberShape ==
  ASSUME Shape, NEW w \in Procs,
         \/ \E u \in Users, t \in Targets : AddMember(w, u, t)
         \/ \E b \in bindings : RemoveMember(w, b)
  PROVE  Shape'
  <1>1. PICK u \in Users, t \in Targets : BindingEvent(w, u, t)
    BY DEF AddMember, RemoveMember, Shape, TypeOK, BindingRow
  <1>2. /\ UNCHANGED <<now, elig, req, due, sessions, expiredEvents, lost, faults>>
        /\ RowsKept
    BY SameRows DEF AddMember, RemoveMember
  <1>3. proc' \in [Procs -> Process] /\ RowsOK'
    <2>1. CASE proc' = proc
      BY <1>2, <2>1, KeepProcesses DEF Shape, TypeOK
    <2>2. CASE proc' = [proc EXCEPT ![w] = [@ EXCEPT !.pc = "invalidate", !.owes = u]]
      <3>1. PICK x : x = [proc[w] EXCEPT !.pc = "invalidate", !.owes = u]
        OBVIOUS
      <3>0. proc[w] \in Process
        BY DEF Shape, TypeOK
      <3>2. x \in Process /\ x.pc = "invalidate" /\ x.owes = u
        BY <3>0, <3>1 DEF Process, Labels
      <3>3. HoldsRow(x)'
        BY <3>2 DEF HoldsRow
      <3> QED BY <1>2, <2>2, <3>1, <3>2, <3>3, DueKept, MoveProcess
    <2> QED BY <1>1, <2>1, <2>2 DEF BindingEvent
  <1>4. nextID' \in Nat /\ bindings' \subseteq BindingRow
    BY SMT DEF AddMember, RemoveMember, Shape, TypeOK, BindingRow
  <1>5. dirty' \subseteq Users
    BY <1>1 DEF BindingEvent, Staled, Shape, TypeOK
  <1> QED BY <1>2, <1>3, <1>4, <1>5 DEF Shape, TypeOK

LEMMA CrashShape ==
  ASSUME Shape, NEW p \in Procs, Crash(p)
  PROVE  Shape'
  <1>1. /\ proc' = [proc EXCEPT ![p] = Idle]
        /\ UNCHANGED <<now, table, dirty, sessions, expiredEvents>>
        /\ due' \in [Sweepers -> SUBSET RequestRow]
        /\ \A s \in Sweepers : due'[s] \subseteq due[s]
    BY DEF Crash, Return, Shape, TypeOK
  <1>2. RowsKept
    BY <1>1, SameRows DEF table
  <1>3. proc' \in [Procs -> Process] /\ RowsOK'
    BY <1>1, <1>2, IdleHolds, DueKept, MoveProcess
  <1>4. lost' \subseteq Users /\ faults' \in Nat
    BY SMT DEF Crash, Shape, TypeOK, Process
  <1> QED BY <1>1, <1>3, <1>4 DEF Shape, TypeOK, table

\* The steps that touch neither the requests nor a process.
LEMMA QuietShape ==
  ASSUME Shape,
         \/ \E e \in Eligibilities, rule \in Rules : WriteEligibility(e, rule)
         \/ \E e \in Eligibilities : DeleteEligibility(e)
         \/ \E b \in bindings : AppLogin(b)
         \/ Tick
         \/ UNCHANGED vars
  PROVE  Shape'
  <1>1. UNCHANGED <<req, proc, due, bindings, nextID, dirty, expiredEvents, lost, faults>>
    BY DEF WriteEligibility, DeleteEligibility, AppLogin, Tick, vars, table, effects
  <1>2. RowsOK'
    BY <1>1, SameRows, KeepProcesses
  <1>3. /\ now \in Nat /\ elig \in [Eligibilities -> Rules \cup {None, Deleted}]
        /\ sessions \subseteq [user : Users, target : AppTargets]
        /\ \A b \in bindings : b.user \in Users
    BY DEF Shape, TypeOK, BindingRow
  <1>4. now' = now \/ now' = now + 1
    BY DEF WriteEligibility, DeleteEligibility, AppLogin, Tick, vars
  <1>5. \/ elig' = elig
        \/ \E e \in Eligibilities, x \in Rules \cup {Deleted} : elig' = [elig EXCEPT ![e] = x]
    BY DEF WriteEligibility, DeleteEligibility, AppLogin, Tick, vars, table
  <1>6. \/ sessions' = sessions
        \/ \E b \in bindings : /\ b.target \in AppTargets
                               /\ sessions' = sessions \cup {[user |-> b.user, target |-> b.target]}
    BY DEF WriteEligibility, DeleteEligibility, AppLogin, Tick, vars, effects
  <1>7. now' \in Nat
    BY <1>3, <1>4, SMT
  <1>8. elig' \in [Eligibilities -> Rules \cup {None, Deleted}]
    BY <1>3, <1>5
  <1>9. sessions' \subseteq [user : Users, target : AppTargets]
    BY <1>3, <1>6, SMT
  <1> QED BY <1>1, <1>2, <1>7, <1>8, <1>9 DEF Shape, TypeOK

LEMMA NextShape == Shape /\ [Next]_vars => Shape'
  <1> SUFFICES ASSUME Shape, [Next]_vars PROVE Shape'
    OBVIOUS
  <1>1. ASSUME NEW w \in Workers, WorkerStep(w) PROVE Shape'
    <2>1. w \in Procs
      BY DEF Procs
    <2>2. CASE \E r \in Requests, u \in Users, e \in Eligibilities, d \in 0..MaxTime :
                 \E justified \in BOOLEAN : CreateRequest(w, r, u, e, d, justified)
      BY <2>1, <2>2, CreateShape, SMT
    <2>3. CASE \E a \in Users, r \in Requests :
                 \/ \E fresh \in BOOLEAN : ApproveHandler(w, a, r, fresh)
                 \/ Reject(w, a, r) \/ Cancel(w, a, r) \/ Revoke(w, a, r)
      BY <2>1, <2>3, HandlerShape
    <2>4. CASE ApproveRead(w) \/ ApproveScope(w)
      BY <2>1, <2>4, ApproveShape
    <2>5. CASE ApproveAndGrant(w)
      BY <2>1, <2>5, GrantShape
    <2>6. CASE UpdateRequestStatus(w)
      BY <2>1, <2>6, UpdateShape
    <2>7. CASE \/ \E u \in Users, t \in Targets : AddMember(w, u, t)
               \/ \E b \in bindings : RemoveMember(w, b)
      BY <2>1, <2>7, MemberShape
    <2>8. CASE \E ok \in BOOLEAN : Invalidate(w, ok)
      BY <2>1, <2>8, EffectShape
    <2> QED BY <1>1, <2>2, <2>3, <2>4, <2>5, <2>6, <2>7, <2>8 DEF WorkerStep
  <1>2. ASSUME NEW s \in Sweepers, SweeperStep(s) PROVE Shape'
    BY <1>2, SweepShape
  <1>3. ASSUME NEW p \in Procs, EndStep(p) PROVE Shape'
    BY <1>3, EndShape, EffectShape DEF EndStep
  <1>4. ASSUME NEW p \in Procs, Crash(p) PROVE Shape'
    BY <1>4, CrashShape
  <1> QED BY <1>1, <1>2, <1>3, <1>4, QuietShape DEF Next

\* Type correctness: in every reachable state the tables, the processes and
\* the effects have the shapes the schema and the handlers give them, and no
\* handler dereferences a row that does not exist.
THEOREM TypeCorrect == Spec => []Shape
  <1>1. Init => Shape
    BY InitShape
  <1>2. Shape /\ [Next]_vars => Shape'
    BY NextShape
  <1> QED BY <1>1, <1>2, PTL DEF Spec

-------------------------------------------------------------------------------
(* Requests and their bindings.                                            *)

\* The binding id of a request is written by the transaction that inserts the
\* binding; a pending request has none.
RequestOK(r) ==
    req[r] # None =>
        /\ req[r].status = "pending" => req[r].binding = None
        /\ req[r].status = "approved" => req[r].binding # None
        /\ req[r].binding # None => req[r].binding < nextID

\* A JIT binding is the one its request names, and its request has not ended.
BindingOK(b) ==
    /\ b.id < nextID
    /\ b.grant # None =>
          /\ req[b.grant] # None
          /\ req[b.grant].binding = b.id
          /\ req[b.grant].status \notin {"pending"} \cup Ended

\* No binding id is shared between two requests, or with a permanent binding.
IdsOK ==
    /\ \A r1, r2 \in Requests :
          /\ req[r1] # None /\ req[r2] # None
          /\ req[r1].binding # None
          /\ req[r1].binding = req[r2].binding
          => r1 = r2
    /\ \A r \in Requests, b \in bindings :
          req[r] # None /\ req[r].binding = b.id => b.grant = r

\* A row from which a grant will be ended names the binding the request still
\* names: the id in a stale read is never out of date.
EndableRow(row) == row.binding # None /\ req[row.id].binding = row.binding

Endable ==
    /\ \A p \in Procs : proc[p].pc = "end" => EndableRow(proc[p].snap)
    /\ \A s \in Sweepers : \A row \in due[s] : EndableRow(row)

Grants ==
    /\ \A r \in Requests : RequestOK(r)
    /\ \A b \in bindings : BindingOK(b)
    /\ IdsOK
    /\ Endable

\* GrantedOnce as a relation between two states.
BindingKept ==
    \A r \in Requests :
        req[r] # None /\ req[r].binding # None =>
            req'[r] # None /\ req'[r].binding = req[r].binding

\* An id below the generator stays below it and is not the next id.
LEMMA Below ==
  ASSUME NEW n \in Nat, NEW x \in Nat, x < n
  PROVE  x < n + 1 /\ x # n
  BY SMT

LEMMA InitGrants == Init => Grants
  BY SMT DEF Init, Grants, RequestOK, BindingOK, IdsOK, Endable, EndableRow, Idle, Procs

\* A step that does not start to end a grant keeps Endable.
LEMMA EndableFrame ==
  ASSUME Shape, Grants, BindingKept,
         \A p \in Procs : proc'[p] = proc[p] \/ proc'[p].pc # "end",
         \A s \in Sweepers : due'[s] \subseteq due[s]
  PROVE  Endable'
  <1>1. ASSUME NEW p \in Procs, proc'[p].pc = "end" PROVE EndableRow(proc[p].snap)'
    <2>1. proc'[p] = proc[p] /\ proc[p].pc = "end"
      BY <1>1
    <2>2. proc[p].snap \in RequestRow /\ req[proc[p].snap.id] # None
      BY <2>1, HeldRow DEF Shape, RowsOK, HoldsRow
    <2>3. EndableRow(proc[p].snap)
      BY <2>1 DEF Grants, Endable
    <2> QED BY <2>1, <2>2, <2>3 DEF BindingKept, EndableRow, RequestRow
  <1>2. ASSUME NEW s \in Sweepers, NEW row \in due'[s] PROVE EndableRow(row)'
    <2>1. row \in due[s] /\ row \in RequestRow /\ req[row.id] # None /\ EndableRow(row)
      BY <1>2 DEF Shape, TypeOK, RowsOK, Grants, Endable
    <2> QED BY <2>1 DEF BindingKept, EndableRow, RequestRow
  <1> QED BY <1>1, <1>2 DEF Endable

\* The table facts of Grants, without the processes.
Tables ==
    /\ \A r \in Requests : RequestOK(r)
    /\ \A b \in bindings : BindingOK(b)
    /\ IdsOK

LEMMA TablesFrame ==
  ASSUME Shape, Grants, UNCHANGED <<req, bindings, nextID>>
  PROVE  Tables' /\ BindingKept
  BY DEF Grants, Tables, RequestOK, BindingOK, IdsOK, BindingKept

LEMMA CreateTables ==
  ASSUME Shape, Grants, NEW w \in Procs, NEW r \in Requests, NEW u \in Users,
         NEW e \in Eligibilities, NEW d \in 0..MaxTime, NEW j \in BOOLEAN,
         CreateRequest(w, r, u, e, d, j)
  PROVE  Tables' /\ BindingKept
  <1>1. PICK row : row = NewRequest(r, u, e, elig[e], d)
    OBVIOUS
  <1>2. row.status = "pending" /\ row.binding = None
    BY <1>1 DEF NewRequest
  <1>3. /\ req[r] = None
        /\ req' = [req EXCEPT ![r] = row]
        /\ UNCHANGED <<bindings, nextID>>
    BY <1>1 DEF CreateRequest
  <1>4. req'[r] = row /\ \A q \in Requests \ {r} : req'[q] = req[q]
    BY <1>3 DEF Shape, TypeOK
  <1>5. \A b \in bindings : b.id # None /\ b.grant \in Requests \cup {None}
    BY SMT DEF Shape, TypeOK, BindingRow
  <1>6. \A q \in Requests : RequestOK(q)'
    BY <1>2, <1>3, <1>4 DEF Grants, RequestOK
  <1>7. \A b \in bindings' : BindingOK(b)'
    BY <1>3, <1>4, <1>5 DEF Grants, BindingOK
  <1>8. IdsOK'
    BY <1>2, <1>3, <1>4, <1>5, SMT DEF Grants, IdsOK
  <1>9. BindingKept
    BY <1>3, <1>4 DEF BindingKept
  <1> QED BY <1>6, <1>7, <1>8, <1>9 DEF Tables

LEMMA GrantTables ==
  ASSUME Shape, Grants, NEW w \in Procs, ApproveAndGrant(w)
  PROVE  Tables' /\ BindingKept
  <1>1. PICK row : row = proc[w].snap
    OBVIOUS
  <1>2. /\ row \in RequestRow /\ row.id \in Requests
        /\ req[row.id] \in RequestRow /\ req[row.id] # None
        /\ proc[w] \in Process
    BY <1>1, HeldRow DEF ApproveAndGrant
  <1>3. nextID \in Nat /\ nextID' = nextID + 1
    BY DEF ApproveAndGrant, Shape, TypeOK
  <1>4. /\ \A b \in bindings : /\ b.id \in Nat /\ b.id < nextID
                               /\ b.grant \in Requests \cup {None}
        /\ \A q \in Requests : req[q] # None /\ req[q].binding # None =>
                                  req[q].binding \in Nat /\ req[q].binding < nextID
    BY DEF Shape, TypeOK, BindingRow, RequestRow, Grants, BindingOK, RequestOK
  <1>5. CASE StillPending(row)
    <2>1. PICK new : new = [req[row.id] EXCEPT !.status = "approved",
                !.approver = proc[w].actor, !.expiresAt = proc[w].exp, !.binding = nextID]
      OBVIOUS
    <2>2. new.status = "approved" /\ new.binding = nextID /\ new # None
      <3>1. new \in RequestRow
        BY <1>2, <1>3, <2>1 DEF RequestRow, Process, Statuses
      <3>2. new.status = "approved" /\ new.binding = nextID
        BY <1>2, <2>1 DEF RequestRow
      <3> QED BY <3>1, <3>2
    <2>3. req' = [req EXCEPT ![row.id] = new]
      BY <1>1, <1>5, <2>1 DEF ApproveAndGrant
    <2>4. req'[row.id] = new /\ \A q \in Requests \ {row.id} : req'[q] = req[q]
      BY <1>2, <2>3 DEF Shape, TypeOK
    <2>5. PICK nb : nb = [id |-> nextID, user |-> row.requester, target |-> row.target,
                          grant |-> row.id, expiresAt |-> proc[w].exp, created |-> now]
      OBVIOUS
    <2>6. nb.id = nextID /\ nb.grant = row.id
      BY <2>5
    <2>7. \A b \in bindings' : b \in bindings \/ b = nb
      BY <1>1, <1>5, <2>5 DEF ApproveAndGrant, insertBindingTx
    <2>8. req[row.id].status = "pending" /\ req[row.id].binding = None
      BY <1>2, <1>5 DEF StillPending, Grants, RequestOK
    <2>9. \A b \in bindings : b.grant # row.id
      BY <1>2, <2>8 DEF Grants, BindingOK
    <2>10. \A q \in Requests : RequestOK(q)'
      BY <1>3, <1>4, <2>2, <2>4, SMT DEF Grants, RequestOK
    <2>11. ASSUME NEW b \in bindings'
           PROVE  BindingOK(b)'
      <3>1. CASE b \in bindings
        <4>1. BindingOK(b) /\ b.id < nextID + 1 /\ b.grant \in Requests \cup {None}
          BY <1>3, <1>4, <3>1, Below DEF Grants
        <4>2. b.grant # None => req'[b.grant] = req[b.grant]
          BY <2>4, <2>9, <3>1, <4>1
        <4> QED BY <1>3, <4>1, <4>2 DEF BindingOK
      <3>2. CASE b = nb
        <4>1. nextID < nextID + 1
          BY <1>3, SMT
        <4> QED BY <1>3, <2>2, <2>4, <2>6, <3>2, <4>1 DEF BindingOK, Ended
      <3> QED BY <2>7, <2>11, <3>1, <3>2
    <2>12. IdsOK'
      <3>1. ASSUME NEW r1 \in Requests, NEW r2 \in Requests, req'[r1] # None, req'[r2] # None,
                   req'[r1].binding # None, req'[r1].binding = req'[r2].binding
            PROVE  r1 = r2
        BY <1>2, <1>3, <1>4, <2>2, <2>4, <3>1, SMT DEF Grants, IdsOK
      <3>2. ASSUME NEW r \in Requests, NEW b \in bindings', req'[r] # None,
                   req'[r].binding = b.id
            PROVE  b.grant = r
        BY <1>2, <1>3, <1>4, <2>2, <2>4, <2>6, <2>7, <3>2, SMT DEF Grants, IdsOK
      <3> QED BY <3>1, <3>2 DEF IdsOK
    <2>13. BindingKept
      BY <2>4, <2>8 DEF BindingKept
    <2> QED BY <2>10, <2>11, <2>12, <2>13 DEF Tables
  <1>6. CASE ~StillPending(row)
    <2>1. UNCHANGED <<bindings, req>>
      BY <1>1, <1>6 DEF ApproveAndGrant
    <2>2. \A q \in Requests : RequestOK(q)'
      BY <1>3, <1>4, <2>1, SMT DEF Grants, RequestOK
    <2>3. \A b \in bindings' : BindingOK(b)'
      BY <1>3, <1>4, <2>1, SMT DEF Grants, BindingOK
    <2> QED BY <2>1, <2>2, <2>3 DEF Tables, Grants, IdsOK, BindingKept
  <1> QED BY <1>5, <1>6

\* A write of one request that keeps its binding id and leaves it declined.
LEMMA UpdateTables ==
  ASSUME Shape, Grants, NEW w \in Procs, UpdateRequestStatus(w)
  PROVE  Tables' /\ BindingKept
  <1>1. PICK r : r = proc[w].snap.id
    OBVIOUS
  <1>2. r \in Requests /\ req[r] \in RequestRow /\ proc[w] \in Process
    BY <1>1, HeldRow DEF UpdateRequestStatus
  <1>3. PICK new \in RequestRow :
           /\ req' = [req EXCEPT ![r] = new]
           /\ new.binding = req[r].binding
           /\ new.status \in {"rejected", "cancelled"}
    <2>1. CASE proc[w].pc = "reject"
      <3>1. PICK new : new = [req[r] EXCEPT !.status = "rejected", !.approver = proc[w].actor]
        OBVIOUS
      <3>2. new \in RequestRow /\ new.binding = req[r].binding /\ new.status = "rejected"
        BY <1>2, <3>1 DEF RequestRow, Process, Statuses
      <3> QED BY <1>1, <2>1, <3>1, <3>2 DEF UpdateRequestStatus
    <2>2. CASE proc[w].pc = "cancel"
      <3>1. PICK new : new = [req[r] EXCEPT !.status = "cancelled"]
        OBVIOUS
      <3>2. new \in RequestRow /\ new.binding = req[r].binding /\ new.status = "cancelled"
        BY <1>2, <3>1 DEF RequestRow, Statuses
      <3> QED BY <1>1, <2>2, <3>1, <3>2 DEF UpdateRequestStatus
    <2> QED BY <2>1, <2>2 DEF UpdateRequestStatus
  <1>4. req'[r] = new /\ \A q \in Requests \ {r} : req'[q] = req[q]
    BY <1>2, <1>3 DEF Shape, TypeOK
  <1>5. UNCHANGED <<bindings, nextID>> /\ req[r] # None /\ new # None
    BY <1>2 DEF UpdateRequestStatus
  <1>6. \A b \in bindings : b.grant \in Requests \cup {None}
    BY DEF Shape, TypeOK, BindingRow
  <1>7. \A q \in Requests : RequestOK(q)'
    BY <1>3, <1>4, <1>5 DEF Grants, RequestOK
  <1>8. \A b \in bindings' : BindingOK(b)'
    BY <1>3, <1>4, <1>5, <1>6 DEF Grants, BindingOK, Ended
  <1>9. IdsOK'
    BY <1>3, <1>4, <1>5, SMT DEF Grants, IdsOK
  <1>10. BindingKept
    BY <1>3, <1>4, <1>5 DEF BindingKept
  <1> QED BY <1>7, <1>8, <1>9, <1>10 DEF Tables

LEMMA EndTables ==
  ASSUME Shape, Grants, NEW p \in Procs, EndGrant(p)
  PROVE  /\ Tables' /\ BindingKept
         /\ \A b \in bindings : b.grant # proc[p].snap.id => b \in bindings'
  <1>1. PICK row : row = proc[p].snap
    OBVIOUS
  <1>2. /\ row \in RequestRow /\ row.id \in Requests
        /\ req[row.id] \in RequestRow /\ req[row.id] # None
        /\ proc[p].pc = "end"
    BY <1>1, HeldRow DEF EndGrant
  <1>3. row.binding # None /\ req[row.id].binding = row.binding
    BY <1>1, <1>2 DEF Grants, Endable, EndableRow
  <1>4. \A b \in bindings : b.grant \in Requests \cup {None}
    BY DEF Shape, TypeOK, BindingRow
  <1>5. nextID' = nextID
    BY DEF EndGrant
  <1>6. CASE row.id \in Unendable
    <2>1. UNCHANGED <<bindings, req>>
      BY <1>1, <1>6 DEF EndGrant
    <2> QED BY <1>5, <2>1, TablesFrame
  <1>7. CASE row.id \notin Unendable
    <2>1. PICK new : new = [req[row.id] EXCEPT !.status = finalStatus(p)]
      OBVIOUS
    <2>2. new.status \in Ended /\ new.binding = row.binding /\ new # None
      <3>1. new \in RequestRow
        BY <1>2, <2>1, SMT DEF RequestRow, Statuses, finalStatus
      <3>2. new.status = finalStatus(p) /\ new.binding = row.binding
        BY <1>2, <1>3, <2>1 DEF RequestRow
      <3> QED BY <3>1, <3>2 DEF finalStatus, Ended
    <2>3. req' = [req EXCEPT ![row.id] = new] /\ bindings' = endBinding(row)
      BY <1>1, <1>7, <2>1 DEF EndGrant
    <2>4. req'[row.id] = new /\ \A q \in Requests \ {row.id} : req'[q] = req[q]
      BY <1>2, <2>3 DEF Shape, TypeOK
    <2>5. \A b \in bindings' : b \in bindings /\ b.id # row.binding
      BY <2>3 DEF endBinding
    <2>6. \A b \in bindings : b.grant = row.id => b.id = row.binding
      BY <1>2, <1>3 DEF Grants, BindingOK
    <2>7. \A q \in Requests : RequestOK(q)'
      BY <1>2, <1>3, <1>5, <2>2, <2>4 DEF Grants, RequestOK, Ended
    <2>8. \A b \in bindings' : BindingOK(b)'
      BY <1>2, <1>4, <1>5, <2>4, <2>5, <2>6 DEF Grants, BindingOK
    <2>9. IdsOK'
      BY <1>2, <1>3, <2>2, <2>4, <2>5, SMT DEF Grants, IdsOK
    <2>10. BindingKept
      BY <1>3, <2>2, <2>4 DEF BindingKept
    <2>11. \A b \in bindings : b.grant # row.id => b \in bindings'
      BY <1>2, <1>3, <2>3 DEF Grants, IdsOK, endBinding
    <2> QED BY <1>1, <2>7, <2>8, <2>9, <2>10, <2>11 DEF Tables
  <1> QED BY <1>1, <1>6, <1>7

LEMMA MemberTables ==
  ASSUME Shape, Grants, NEW w \in Procs,
         \/ \E u \in Users, t \in Targets : AddMember(w, u, t)
         \/ \E b \in bindings : RemoveMember(w, b)
  PROVE  Tables' /\ BindingKept
  <1>1. req' = req
    BY DEF AddMember, RemoveMember
  <1>2. nextID \in Nat /\ \A b \in bindings : b.id \in Nat
    BY DEF Shape, TypeOK, BindingRow
  <1>3. \A q \in Requests : req[q] # None /\ req[q].binding # None =>
                               req[q].binding \in Nat /\ req[q].binding < nextID
    BY DEF Shape, TypeOK, RequestRow, Grants, RequestOK
  <1>0. (\A q \in Requests : RequestOK(q)) /\ (\A b \in bindings : BindingOK(b)) /\ IdsOK
    BY DEF Grants
  <1>4. CASE \E b \in bindings : RemoveMember(w, b)
    <2>1. bindings' \subseteq bindings /\ nextID' = nextID
      BY <1>4 DEF RemoveMember
    <2> QED BY <1>0, <1>1, <2>1
            DEF Tables, RequestOK, BindingOK, IdsOK, BindingKept
  <1>5. ASSUME NEW u \in Users, NEW t \in Targets, AddMember(w, u, t)
        PROVE  Tables' /\ BindingKept
    <2>1. PICK nb : nb = [id |-> nextID, user |-> u, target |-> t, grant |-> None,
                          expiresAt |-> None, created |-> now]
      OBVIOUS
    <2>2. nb.id = nextID /\ nb.grant = None
      BY <2>1
    <2>3. bindings' = bindings \cup {nb} /\ nextID' = nextID + 1
      BY <1>5, <2>1 DEF AddMember
    <2>4. ASSUME NEW q \in Requests
          PROVE  RequestOK(q)'
      <3>1. req[q] # None /\ req[q].binding # None => req[q].binding < nextID + 1
        BY <1>2, <1>3, Below
      <3> QED BY <1>0, <1>1, <2>3, <3>1 DEF RequestOK
    <2>5. ASSUME NEW b \in bindings'
          PROVE  BindingOK(b)'
      <3>1. CASE b \in bindings
        <4>1. b.id < nextID /\ b.id < nextID + 1
          BY <1>0, <1>2, <3>1, Below DEF BindingOK
        <4> QED BY <1>0, <1>1, <2>3, <3>1, <4>1 DEF BindingOK
      <3>2. CASE b = nb
        BY <1>2, <2>2, <2>3, <3>2, SMT DEF BindingOK
      <3> QED BY <2>3, <2>5, <3>1, <3>2
    <2>6. IdsOK'
      <3>1. \A q \in Requests : req[q] # None => req[q].binding # nb.id
        <4>1. nextID # None
          BY <1>2, AccessAssumption
        <4>2. ASSUME NEW q \in Requests, req[q] # None, req[q].binding # None
              PROVE  req[q].binding # nextID
          BY <1>2, <1>3, <4>2, Below
        <4> QED BY <2>2, <4>1, <4>2
      <3> QED BY <1>0, <1>1, <2>3, <3>1 DEF IdsOK
    <2> QED BY <1>1, <2>4, <2>5, <2>6 DEF Tables, BindingKept
  <1> QED BY <1>4, <1>5

\* A process that begins to end a grant has read an approved request.
LEMMA ApprovedEndable ==
  ASSUME Shape, Grants, NEW r \in Requests, req[r] # None, req[r].status = "approved"
  PROVE  EndableRow(req[r])
  BY DEF Shape, RowsOK, Grants, RequestOK, EndableRow

LEMMA MovedLabel ==
  ASSUME NEW x \in Process, NEW label, NEW v
  PROVE  /\ [x EXCEPT !.pc = label, !.snap = v].pc = label
         /\ [x EXCEPT !.pc = label, !.exp = v].pc = label
         /\ [x EXCEPT !.pc = label, !.owes = v].pc = label
  BY DEF Process

\* Only a revocation and a sweep put a process at "end" or rows in due.
LEMMA NextMoves ==
  ASSUME Shape, [Next]_vars
  PROVE  \/ /\ \A p \in Procs : proc'[p] = proc[p] \/ proc'[p].pc # "end"
            /\ \A s \in Sweepers : due'[s] \subseteq due[s]
         \/ \E w \in Workers, a \in Users, r \in Requests : Revoke(w, a, r)
         \/ \E s \in Sweepers : SweepList(s)
         \/ \E s \in Sweepers : \E row \in due[s] : SweepNext(s, row)
  <1> DEFINE Quiet == /\ \A p \in Procs : proc'[p] = proc[p] \/ proc'[p].pc # "end"
                      /\ \A s \in Sweepers : due'[s] \subseteq due[s]
  <1>0. proc \in [Procs -> Process] /\ due \in [Sweepers -> SUBSET RequestRow]
    BY DEF Shape, TypeOK
  <1>1. ASSUME NEW w \in Workers, WorkerStep(w),
               ~\E a \in Users, r \in Requests : Revoke(w, a, r)
        PROVE  Quiet
    <2> DEFINE Others == due' = due /\ \A p \in Procs \ {w} : proc'[p] = proc[p]
    <2>2. Others
      <3>0. ASSUME NEW label, NEW a, NEW row, Begin(w, label, a, row), due' = due
            PROVE  Others
        BY <1>0, <3>0 DEF Begin
      <3>1. CASE \E r \in Requests, u \in Users, e \in Eligibilities, d \in 0..MaxTime :
                    \E justified \in BOOLEAN : CreateRequest(w, r, u, e, d, justified)
        BY <3>0, <3>1, SMT DEF CreateRequest
      <3>7. CASE \E a \in Users, r \in Requests, fresh \in BOOLEAN : ApproveHandler(w, a, r, fresh)
        BY <3>0, <3>7 DEF ApproveHandler
      <3>2. CASE \E a \in Users, r \in Requests : Reject(w, a, r) \/ Cancel(w, a, r)
        BY <1>0, <3>2 DEF Reject, Cancel, Begin
      <3>3. CASE ApproveRead(w) \/ ApproveScope(w)
        BY <1>0, <3>3 DEF ApproveRead, ApproveScope, Return
      <3>4. CASE ApproveAndGrant(w)
        BY <1>0, <3>4 DEF ApproveAndGrant, Return
      <3>5. CASE UpdateRequestStatus(w) \/ \E ok \in BOOLEAN : Invalidate(w, ok)
        BY <1>0, <3>5 DEF UpdateRequestStatus, Invalidate, Return
      <3>6. CASE \/ \E u \in Users, t \in Targets : AddMember(w, u, t)
                 \/ \E b \in bindings : RemoveMember(w, b)
        BY <1>0, <3>6 DEF AddMember, RemoveMember, BindingEvent
      <3> QED BY <1>1, <3>1, <3>2, <3>3, <3>4, <3>5, <3>6, <3>7 DEF WorkerStep
    <2>3. proc' = proc \/ proc'[w].pc # "end"
      <3>1. w \in Procs /\ proc[w] \in Process
        BY <1>0 DEF Procs
      <3>2. ASSUME NEW label \in {"approve", "reject", "cancel"}, NEW a, NEW row,
                   Begin(w, label, a, row)
            PROVE  proc'[w].pc # "end"
        BY <1>0, <3>1, <3>2 DEF Begin, Idle
      <3>3. CASE proc' = [proc EXCEPT ![w] = Idle]
        BY <1>0, <3>1, <3>3 DEF Idle
      <3>4. CASE ApproveRead(w)
        <4>1. CASE proc' = [proc EXCEPT ![w] =
                     [@ EXCEPT !.pc = "scope", !.snap = req[proc[w].snap.id]]]
          BY <1>0, <3>1, <4>1, MovedLabel, SMT
        <4> QED BY <3>3, <3>4, <4>1 DEF ApproveRead, Return
      <3>5. CASE ApproveScope(w)
        <4>1. CASE proc' = [proc EXCEPT ![w] =
                     [@ EXCEPT !.pc = "grant", !.exp = now + proc[w].snap.secs]]
          BY <1>0, <3>1, <4>1, MovedLabel, SMT
        <4> QED BY <3>3, <3>5, <4>1 DEF ApproveScope, Return
      <3>6. ASSUME NEW u, proc' = [proc EXCEPT ![w] =
                                      [@ EXCEPT !.pc = "invalidate", !.owes = u]]
            PROVE  proc'[w].pc # "end"
        BY <1>0, <3>1, <3>6, MovedLabel, SMT
      <3>7. CASE ApproveAndGrant(w)
        BY <3>3, <3>6, <3>7 DEF ApproveAndGrant, Return
      <3>8. CASE UpdateRequestStatus(w) \/ \E ok \in BOOLEAN : Invalidate(w, ok)
        BY <3>3, <3>8 DEF UpdateRequestStatus, Invalidate, Return
      <3>9. CASE \/ \E u \in Users, t \in Targets : AddMember(w, u, t)
                 \/ \E b \in bindings : RemoveMember(w, b)
        BY <3>6, <3>9 DEF AddMember, RemoveMember, BindingEvent
      <3>10. CASE \E r \in Requests, u \in Users, e \in Eligibilities, d \in 0..MaxTime :
                     \E justified \in BOOLEAN : CreateRequest(w, r, u, e, d, justified)
        BY <3>2, <3>10, SMT DEF CreateRequest
      <3>11. CASE \E a \in Users, r \in Requests, fresh \in BOOLEAN : ApproveHandler(w, a, r, fresh)
        BY <3>2, <3>11 DEF ApproveHandler
      <3>12. CASE \E a \in Users, r \in Requests : Reject(w, a, r) \/ Cancel(w, a, r)
        BY <3>2, <3>12 DEF Reject, Cancel
      <3> QED BY <1>1, <3>4, <3>5, <3>7, <3>8, <3>9, <3>10, <3>11, <3>12 DEF WorkerStep
    <2> QED BY <2>2, <2>3
  <1>2. ASSUME NEW p \in Procs, EndStep(p) PROVE Quiet
    <2>1. due' = due
      BY <1>2 DEF EndStep, EndGrant, InvalidateEnded, terminateIfApp, sweepError
    <2>2. proc[p] \in Process
      BY <1>0
    <2>3. CASE EndGrant(p)
      <3>1. CASE proc' = [proc EXCEPT ![p] = Idle]
        BY <1>0, <2>1, <3>1 DEF Idle
      <3>2. CASE proc' = [proc EXCEPT ![p] =
                   [@ EXCEPT !.pc = "invalidateEnd", !.owes = proc[p].snap.requester]]
        BY <1>0, <2>1, <2>2, <3>2, MovedLabel, SMT
      <3> QED BY <2>3, <3>1, <3>2 DEF EndGrant, Return
    <2>4. CASE \E ok \in BOOLEAN : InvalidateEnded(p, ok) \/ terminateIfApp(p, ok)
      BY <1>0, <2>1, <2>2, <2>4, SMT DEF InvalidateEnded, terminateIfApp, Return, Idle, Process
    <2> QED BY <1>2, <2>3, <2>4 DEF EndStep
  <1>3. ASSUME NEW p \in Procs, Crash(p) PROVE Quiet
    BY <1>0, <1>3 DEF Crash, Return, Idle
  <1>4. CASE UNCHANGED <<proc, due>>
    BY <1>4
  <1> QED BY <1>1, <1>2, <1>3, <1>4
          DEF Next, SweeperStep, WriteEligibility, DeleteEligibility, AppLogin, Tick, vars

\* The inductive step, together with the two action properties it carries.
LEMMA NextGrants ==
  ASSUME Shape, Grants, [Next]_vars
  PROVE  /\ Grants' /\ BindingKept
         /\ \A p \in Procs : EndGrant(p) =>
               \A b \in bindings : b.grant # proc[p].snap.id => b \in bindings'
  <1> USE DEF Procs
  <1>1. Tables' /\ BindingKept
    <2>1. ASSUME NEW w \in Workers, WorkerStep(w) PROVE Tables' /\ BindingKept
      <3>1. CASE \E r \in Requests, u \in Users, e \in Eligibilities, d \in 0..MaxTime :
                   \E justified \in BOOLEAN : CreateRequest(w, r, u, e, d, justified)
        BY <3>1, CreateTables, SMT
      <3>2. CASE ApproveAndGrant(w)
        BY <3>2, GrantTables
      <3>3. CASE UpdateRequestStatus(w)
        BY <3>3, UpdateTables
      <3>4. CASE \/ \E u \in Users, t \in Targets : AddMember(w, u, t)
                 \/ \E b \in bindings : RemoveMember(w, b)
        BY <3>4, MemberTables
      <3>5. CASE UNCHANGED <<req, bindings, nextID>>
        BY <3>5, TablesFrame
      <3> QED BY <2>1, <3>1, <3>2, <3>3, <3>4, <3>5
              DEF WorkerStep, ApproveHandler, ApproveRead, ApproveScope, Reject, Cancel,
                  Revoke, Invalidate, table
    <2>2. ASSUME NEW p \in Procs, EndGrant(p) PROVE Tables' /\ BindingKept
      BY <2>2, EndTables
    <2>3. CASE UNCHANGED <<req, bindings, nextID>>
      BY <2>3, TablesFrame
    <2> QED BY <2>1, <2>2, <2>3
            DEF Next, SweeperStep, SweepList, SweepNext, EndStep, InvalidateEnded,
                terminateIfApp, Crash, WriteEligibility, DeleteEligibility, AppLogin,
                Tick, vars, table
  <1>2. Endable'
    <2>1. CASE /\ \A p \in Procs : proc'[p] = proc[p] \/ proc'[p].pc # "end"
               /\ \A s \in Sweepers : due'[s] \subseteq due[s]
      BY <1>1, <2>1, EndableFrame
    <2>2. ASSUME NEW w \in Workers, NEW a \in Users, NEW r \in Requests, Revoke(w, a, r)
          PROVE  Endable'
      <3>1. /\ req[r] # None /\ req[r].status = "approved"
            /\ UNCHANGED <<req, due>>
            /\ proc'[w].snap = req[r]
            /\ \A p \in Procs \ {w} : proc'[p] = proc[p]
        BY <2>2 DEF Revoke, Begin, Idle, table, Shape, TypeOK
      <3>2. EndableRow(req[r])
        BY <3>1, ApprovedEndable
      <3> QED BY <3>1, <3>2 DEF Grants, Endable, EndableRow
    <2>3. ASSUME NEW s \in Sweepers, SweepList(s) PROVE Endable'
      <3>1. \A row \in ListDueGrants : EndableRow(row)
        BY ApprovedEndable DEF ListDueGrants
      <3> QED BY <2>3, <3>1 DEF SweepList, table, Grants, Endable, EndableRow, Shape, TypeOK
    <2>4. ASSUME NEW s \in Sweepers, NEW row \in due[s], SweepNext(s, row) PROVE Endable'
      <3>1. /\ req' = req /\ proc'[s].snap = row
            /\ \A p \in Procs \ {s} : proc'[p] = proc[p]
            /\ \A t \in Sweepers : due'[t] \subseteq due[t]
        BY <2>4 DEF SweepNext, Begin, Idle, table, Shape, TypeOK
      <3> QED BY <3>1 DEF Grants, Endable, EndableRow
    <2> QED BY <2>1, <2>2, <2>3, <2>4, NextMoves
  <1>3. ASSUME NEW p \in Procs, EndGrant(p)
        PROVE  \A b \in bindings : b.grant # proc[p].snap.id => b \in bindings'
    BY <1>3, EndTables
  <1> QED BY <1>1, <1>2, <1>3 DEF Grants, Tables

Inv == Shape /\ Grants

LEMMA Invariance == Spec => []Inv
  <1>1. Init => Inv
    BY InitShape, InitGrants DEF Inv
  <1>2. Inv /\ [Next]_vars => Inv'
    BY NextShape, NextGrants DEF Inv
  <1> QED BY <1>1, <1>2, PTL DEF Spec

\* No binding survives the revocation or the expiry of its request, for any
\* number of handlers and sweepers working from rows they read earlier.
THEOREM EndedGrantTheorem == Spec => []EndedGrantHasNoBinding
  <1>1. Inv => EndedGrantHasNoBinding
    BY DEF Inv, Grants, BindingOK, EndedGrantHasNoBinding
  <1> QED BY <1>1, Invariance, PTL

\* A request is granted at most once, however many approvers race and however
\* its status is overwritten afterwards.
THEOREM GrantedOnceTheorem == Spec => GrantedOnce
  <1> DEFINE Once == \A r \in Requests :
                        req[r] # None /\ req[r].binding # None =>
                            req'[r].binding = req[r].binding
  <1>1. Inv /\ [Next]_vars => [Once]_vars
    BY NextGrants DEF Inv, BindingKept
  <1> QED BY <1>1, Invariance, PTL DEF Spec, GrantedOnce

\* Ending a grant, also from a stale row, deletes no binding but its own.
THEOREM EndGrantKeepsOthersTheorem == Spec => EndGrantKeepsOthers
  <1> DEFINE Kept == \A p \in Procs : EndGrant(p) =>
                        \A b \in bindings : b.grant # proc[p].snap.id => b \in bindings'
  <1>1. Inv /\ [Next]_vars => [Kept]_vars
    BY NextGrants DEF Inv
  <1> QED BY <1>1, Invariance, PTL DEF Spec, EndGrantKeepsOthers

-------------------------------------------------------------------------------
(* One binding per subject and target.                                     *)

LEMMA NextOneBinding ==
  ASSUME Shape, OneBindingPerSubject, [Next]_vars
  PROVE  OneBindingPerSubject'
  <1>1. CASE bindings' \subseteq bindings
    BY <1>1 DEF OneBindingPerSubject
  <1>2. ASSUME NEW w \in Workers, ApproveAndGrant(w) PROVE OneBindingPerSubject'
    <2>1. PICK nb : nb = [id |-> nextID, user |-> proc[w].snap.requester,
                          target |-> proc[w].snap.target, grant |-> proc[w].snap.id,
                          expiresAt |-> proc[w].exp, created |-> now]
      OBVIOUS
    <2>2. \/ bindings' = bindings
          \/ \A b \in bindings' : \/ b = nb
                                  \/ b \in bindings /\ <<b.user, b.target>> # <<nb.user, nb.target>>
      BY <1>2, <2>1 DEF ApproveAndGrant, insertBindingTx
    <2> QED BY <2>2 DEF OneBindingPerSubject
  <1>3. ASSUME NEW w \in Workers, NEW u \in Users, NEW t \in Targets, AddMember(w, u, t)
        PROVE  OneBindingPerSubject'
    <2>1. PICK nb : nb = [id |-> nextID, user |-> u, target |-> t, grant |-> None,
                          expiresAt |-> None, created |-> now]
      OBVIOUS
    <2>2. /\ bindings' = bindings \cup {nb}
          /\ \A b \in bindings : <<b.user, b.target>> # <<nb.user, nb.target>>
      BY <1>3, <2>1 DEF AddMember
    <2> QED BY <2>2 DEF OneBindingPerSubject
  <1>4. CASE bindings' = bindings
    BY <1>4 DEF OneBindingPerSubject
  <1> QED
    <2>1. ASSUME NEW w \in Workers, WorkerStep(w) PROVE OneBindingPerSubject'
      BY <1>1, <1>2, <1>3, <1>4, <2>1
         DEF WorkerStep, CreateRequest, ApproveHandler, ApproveRead, ApproveScope, Reject,
             Cancel, UpdateRequestStatus, Revoke, RemoveMember, Invalidate, table
    <2>2. ASSUME NEW p \in Procs, EndStep(p) \/ Crash(p) PROVE OneBindingPerSubject'
      BY <1>1, <1>4, <2>2
         DEF EndStep, EndGrant, endBinding, InvalidateEnded, terminateIfApp, Crash, table
    <2> QED BY <1>4, <2>1, <2>2
            DEF Next, SweeperStep, SweepList, SweepNext, WriteEligibility,
                DeleteEligibility, AppLogin, Tick, vars, table

\* The delete-then-insert of an approval and the refusal of a duplicate keep
\* the unique index of the binding tables, whatever else is going on.
THEOREM OneBindingTheorem == Spec => []OneBindingPerSubject
  <1>1. Init => OneBindingPerSubject
    BY DEF Init, OneBindingPerSubject
  <1>2. Shape /\ OneBindingPerSubject /\ [Next]_vars => OneBindingPerSubject'
    BY NextOneBinding
  <1> QED BY <1>1, <1>2, TypeCorrect, PTL DEF Spec
-------------------------------------------------------------------------------
(* What a process holds between two of its steps.                          *)

\* The columns of a request that no statement updates.
Columns(row1, row2) ==
    row1.requester = row2.requester /\ row1.target = row2.target /\ row1.secs = row2.secs

ColumnsKept ==
    \A r \in Requests : req[r] # None => req'[r] # None /\ Columns(req'[r], req[r])

\* Where a step may take process p: x is the process after it.
MovedTo(p, x) ==
    \/ x.pc \in {"idle", "invalidate"} /\ proc[p].pc \notin {"invalidate", "invalidateEnd", "finish"}
    \/ /\ x.pc = "idle"
       /\ Crash(p) \/ \E ok \in BOOLEAN : Invalidate(p, ok) \/ terminateIfApp(p, ok)
    \/ /\ proc[p].pc \in {"idle", "approve"}
       /\ x.pc \in {"approve", "reject", "cancel", "end", "scope"}
       /\ \E r \in Requests : req'[r] # None /\ x.snap = req'[r]
    \/ p \in Sweepers /\ proc[p].pc = "idle" /\ x.pc = "end" /\ x.snap \in due[p]
    \/ /\ proc[p].pc = "scope" /\ x.pc = "grant" /\ x.snap = proc[p].snap
       /\ x.exp = now + x.snap.secs /\ now' = now
    \/ /\ proc[p].pc = "end" /\ x.pc = "invalidateEnd" /\ x.snap = proc[p].snap
       /\ x.owes = x.snap.requester
    \/ /\ proc[p].pc = "invalidateEnd" /\ x.pc = "finish"
       /\ x.snap = proc[p].snap /\ x.owes = proc[p].owes
       /\ \E ok \in BOOLEAN : InvalidateEnded(p, ok)

ProcsMove == \A p \in Procs : proc'[p] = proc[p] \/ MovedTo(p, proc'[p])

LEMMA OneMoves ==
  ASSUME Shape, NEW p \in Procs, NEW x, proc' = [proc EXCEPT ![p] = x], MovedTo(p, x)
  PROVE  ProcsMove
  BY DEF Shape, TypeOK, ProcsMove

LEMMA NoneMoves == ASSUME proc' = proc PROVE ProcsMove
  BY DEF ProcsMove

\* A handler that begins has read the row it acts on.
LEMMA BeginMoves ==
  ASSUME Shape, NEW p \in Procs, NEW a, NEW label \in {"approve", "reject", "cancel", "end"},
         NEW r \in Requests, req'[r] # None, Begin(p, label, a, req'[r])
  PROVE  ProcsMove
  <1>1. PICK x : x = [Idle EXCEPT !.pc = label, !.actor = a, !.snap = req'[r]]
    OBVIOUS
  <1>2. x.pc = label /\ x.snap = req'[r]
    BY <1>1 DEF Idle
  <1>3. MovedTo(p, x)
    BY <1>2 DEF MovedTo, Begin
  <1> QED BY <1>1, <1>3, OneMoves DEF Begin

LEMMA ReturnMoves ==
  ASSUME Shape, NEW p \in Procs, Return(p),
         \/ proc[p].pc \notin {"invalidate", "invalidateEnd", "finish"}
         \/ Crash(p) \/ \E ok \in BOOLEAN : Invalidate(p, ok) \/ terminateIfApp(p, ok)
  PROVE  ProcsMove
  <1>1. MovedTo(p, Idle)
    BY DEF MovedTo, Idle
  <1> QED BY <1>1, OneMoves DEF Return

LEMMA HandlerMoves ==
  ASSUME Shape, NEW w \in Procs, NEW a \in Users, NEW r \in Requests,
         \/ \E fresh \in BOOLEAN : ApproveHandler(w, a, r, fresh)
         \/ Reject(w, a, r) \/ Cancel(w, a, r) \/ Revoke(w, a, r)
  PROVE  ProcsMove
  <1>1. req'[r] = req[r] /\ req[r] # None
    BY DEF ApproveHandler, Reject, Cancel, Revoke, table
  <1>2. \E label \in {"approve", "reject", "cancel", "end"} : Begin(w, label, a, req'[r])
    BY <1>1 DEF ApproveHandler, Reject, Cancel, Revoke
  <1> QED BY <1>1, <1>2, BeginMoves, SMT

LEMMA CreateMoves ==
  ASSUME Shape, NEW w \in Procs, NEW r \in Requests, NEW u \in Users,
         NEW e \in Eligibilities, NEW d \in 0..MaxTime, NEW j \in BOOLEAN,
         CreateRequest(w, r, u, e, d, j)
  PROVE  ProcsMove /\ ColumnsKept
  <1>1. PICK row : row = NewRequest(r, u, e, elig[e], d)
    OBVIOUS
  <1>2. Shape' /\ req[r] = None /\ req' = [req EXCEPT ![r] = row]
    BY <1>1, CreateShape DEF CreateRequest
  <1>3. req'[r] = row /\ \A q \in Requests \ {r} : req'[q] = req[q]
    BY <1>2 DEF Shape, TypeOK
  <1>0. elig[e] \in Eligibility
    BY DEF Shape, TypeOK, CreateRequest, Exists
  <1>4. row # None
    <2>1. row \in RequestRow
      BY <1>0, <1>1, SMT DEF NewRequest, RequestRow, Eligibility, Statuses, ClampDuration
    <2> QED BY <2>1
  <1>5. proc' = proc \/ Begin(w, "approve", System, req'[r])
    BY <1>1, <1>3 DEF CreateRequest
  <1>6. ProcsMove
    BY <1>3, <1>4, <1>5, BeginMoves, NoneMoves
  <1>7. ColumnsKept
    BY <1>2, <1>3 DEF ColumnsKept, Columns
  <1> QED BY <1>6, <1>7

LEMMA ApproveMoves ==
  ASSUME Shape, NEW w \in Procs, ApproveRead(w) \/ ApproveScope(w)
  PROVE  ProcsMove
  <1>1. /\ proc[w] \in Process /\ proc[w].pc \in {"approve", "scope"}
        /\ proc[w].snap.id \in Requests /\ req[proc[w].snap.id] # None
    BY HeldRow DEF ApproveRead, ApproveScope
  <1>2. CASE Return(w)
    BY <1>1, <1>2, ReturnMoves
  <1>3. ASSUME ApproveRead(w), ~Return(w) PROVE ProcsMove
    <2>1. PICK x : x = [proc[w] EXCEPT !.pc = "scope", !.snap = req[proc[w].snap.id]]
      OBVIOUS
    <2>2. x.pc = "scope" /\ x.snap = req[proc[w].snap.id]
      BY <1>1, <2>1 DEF Process
    <2>3. req' = req /\ proc[w].pc = "approve" /\ proc' = [proc EXCEPT ![w] = x]
      BY <1>3, <2>1 DEF ApproveRead, table
    <2>4. MovedTo(w, x)
      BY <1>1, <2>2, <2>3 DEF MovedTo
    <2> QED BY <2>3, <2>4, OneMoves
  <1>4. ASSUME ApproveScope(w), ~Return(w) PROVE ProcsMove
    <2>1. PICK x : x = [proc[w] EXCEPT !.pc = "grant", !.exp = now + proc[w].snap.secs]
      OBVIOUS
    <2>2. x.pc = "grant" /\ x.exp = now + proc[w].snap.secs /\ x.snap = proc[w].snap
      BY <1>1, <2>1 DEF Process
    <2>3. now' = now /\ proc[w].pc = "scope" /\ proc' = [proc EXCEPT ![w] = x]
      BY <1>4, <2>1 DEF ApproveScope
    <2>4. MovedTo(w, x)
      BY <2>2, <2>3 DEF MovedTo
    <2> QED BY <2>3, <2>4, OneMoves
  <1> QED BY <1>2, <1>3, <1>4

\* A process that goes on to invalidate a user's cached bindings.
LEMMA OwesMoves ==
  ASSUME Shape, NEW w \in Procs, NEW u,
         proc[w].pc \notin {"invalidate", "invalidateEnd", "finish"},
         proc' = [proc EXCEPT ![w] = [@ EXCEPT !.pc = "invalidate", !.owes = u]]
  PROVE  ProcsMove /\ proc'[w].pc = "invalidate" /\ proc'[w].owes = u
  <1>1. PICK x : x = [proc[w] EXCEPT !.pc = "invalidate", !.owes = u]
    OBVIOUS
  <1>2. x.pc = "invalidate" /\ x.owes = u
    BY <1>1, SMT DEF Process, Shape, TypeOK
  <1>3. MovedTo(w, x)
    BY <1>2 DEF MovedTo
  <1> QED BY <1>1, <1>2, <1>3, OneMoves DEF Shape, TypeOK

LEMMA GrantMoves ==
  ASSUME Shape, NEW w \in Procs, ApproveAndGrant(w)
  PROVE  ProcsMove /\ ColumnsKept
  <1>1. PICK row : row = proc[w].snap
    OBVIOUS
  <1>2. /\ row.id \in Requests /\ req[row.id] \in RequestRow
        /\ proc[w] \in Process /\ proc[w].pc = "grant" /\ nextID \in Nat
    BY <1>1, HeldRow DEF ApproveAndGrant, Shape, TypeOK
  <1>3. ProcsMove
    BY <1>1, <1>2, ReturnMoves, OwesMoves DEF ApproveAndGrant
  <1>4. CASE StillPending(row)
    <2>1. PICK new : new = [req[row.id] EXCEPT !.status = "approved",
                !.approver = proc[w].actor, !.expiresAt = proc[w].exp, !.binding = nextID]
      OBVIOUS
    <2>2. Columns(new, req[row.id]) /\ new # None
      <3>1. new \in RequestRow
        BY <1>2, <2>1 DEF RequestRow, Process, Statuses
      <3>2. Columns(new, req[row.id])
        BY <1>2, <2>1 DEF RequestRow, Columns
      <3> QED BY <3>1, <3>2
    <2>3. req' = [req EXCEPT ![row.id] = new]
      BY <1>1, <1>4, <2>1 DEF ApproveAndGrant
    <2> QED BY <1>2, <1>3, <2>2, <2>3 DEF ColumnsKept, Columns, Shape, TypeOK
  <1>5. CASE ~StillPending(row)
    BY <1>1, <1>3, <1>5 DEF ApproveAndGrant, ColumnsKept, Columns
  <1> QED BY <1>4, <1>5

LEMMA UpdateMoves ==
  ASSUME Shape, NEW w \in Procs, UpdateRequestStatus(w)
  PROVE  ProcsMove /\ ColumnsKept
  <1>1. PICK r : r = proc[w].snap.id
    OBVIOUS
  <1>2. r \in Requests /\ req[r] \in RequestRow /\ proc[w] \in Process
    BY <1>1, HeldRow DEF UpdateRequestStatus
  <1>3. ProcsMove
    BY ReturnMoves DEF UpdateRequestStatus
  <1>4. PICK new \in RequestRow : req' = [req EXCEPT ![r] = new] /\ Columns(new, req[r])
    <2>1. CASE proc[w].pc = "reject"
      <3>1. PICK new : new = [req[r] EXCEPT !.status = "rejected", !.approver = proc[w].actor]
        OBVIOUS
      <3>2. new \in RequestRow /\ Columns(new, req[r])
        BY <1>2, <3>1 DEF RequestRow, Process, Statuses, Columns
      <3> QED BY <1>1, <2>1, <3>1, <3>2 DEF UpdateRequestStatus
    <2>2. CASE proc[w].pc = "cancel"
      <3>1. PICK new : new = [req[r] EXCEPT !.status = "cancelled"]
        OBVIOUS
      <3>2. new \in RequestRow /\ Columns(new, req[r])
        BY <1>2, <3>1 DEF RequestRow, Statuses, Columns
      <3> QED BY <1>1, <2>2, <3>1, <3>2 DEF UpdateRequestStatus
    <2> QED BY <2>1, <2>2 DEF UpdateRequestStatus
  <1> QED BY <1>2, <1>3, <1>4 DEF ColumnsKept, Columns, Shape, TypeOK

LEMMA EndMoves ==
  ASSUME Shape, NEW p \in Procs, EndGrant(p)
  PROVE  /\ ProcsMove /\ ColumnsKept
         /\ \/ req' = req
            \/ /\ proc'[p].pc = "invalidateEnd" /\ proc'[p].snap = proc[p].snap
               /\ proc'[p].owes = proc[p].snap.requester
               /\ \A r \in Requests \ {proc[p].snap.id} : req'[r] = req[r]
  <1>1. PICK row : row = proc[p].snap
    OBVIOUS
  <1>2. /\ row.id \in Requests /\ req[row.id] \in RequestRow
        /\ proc[p] \in Process /\ proc[p].pc = "end"
    BY <1>1, HeldRow DEF EndGrant
  <1>3. CASE row.id \in Unendable
    <2>1. Return(p) /\ req' = req
      BY <1>1, <1>3 DEF EndGrant
    <2> QED BY <1>2, <2>1, ReturnMoves DEF ColumnsKept, Columns
  <1>4. CASE row.id \notin Unendable
    <2>1. PICK new : new = [req[row.id] EXCEPT !.status = finalStatus(p)]
      OBVIOUS
    <2>2. new \in RequestRow /\ Columns(new, req[row.id])
      BY <1>2, <2>1 DEF RequestRow, Statuses, finalStatus, Columns
    <2>3. PICK x : x = [proc[p] EXCEPT !.pc = "invalidateEnd", !.owes = row.requester]
      OBVIOUS
    <2>4. x.pc = "invalidateEnd" /\ x.snap = row /\ x.owes = row.requester
      BY <1>1, <1>2, <2>3 DEF Process
    <2>5. req' = [req EXCEPT ![row.id] = new] /\ proc' = [proc EXCEPT ![p] = x]
      BY <1>1, <1>4, <2>1, <2>3 DEF EndGrant
    <2>6. MovedTo(p, x)
      BY <1>1, <1>2, <2>4 DEF MovedTo
    <2>7. ProcsMove /\ proc'[p] = x
      BY <2>5, <2>6, OneMoves DEF Shape, TypeOK
    <2>8. ColumnsKept /\ \A r \in Requests \ {row.id} : req'[r] = req[r]
      BY <1>2, <2>2, <2>5 DEF ColumnsKept, Columns, Shape, TypeOK
    <2> QED BY <1>1, <2>4, <2>7, <2>8
  <1> QED BY <1>3, <1>4

LEMMA SweepMoves ==
  ASSUME Shape, NEW s \in Sweepers, NEW row \in due[s], SweepNext(s, row)
  PROVE  ProcsMove
  <1>1. PICK x : x = [Idle EXCEPT !.pc = "end", !.actor = System, !.snap = row]
    OBVIOUS
  <1>2. x.pc = "end" /\ x.snap = row
    BY <1>1 DEF Idle
  <1>3. proc[s].pc = "idle" /\ proc' = [proc EXCEPT ![s] = x] /\ s \in Procs
    BY <1>1 DEF SweepNext, Begin, Procs
  <1>4. MovedTo(s, x)
    BY <1>2, <1>3 DEF MovedTo
  <1> QED BY <1>3, <1>4, OneMoves

LEMMA EffectMoves ==
  ASSUME Shape, NEW p \in Procs, NEW ok \in BOOLEAN,
         Invalidate(p, ok) \/ InvalidateEnded(p, ok) \/ terminateIfApp(p, ok)
  PROVE  ProcsMove
  <1>1. CASE Invalidate(p, ok) \/ terminateIfApp(p, ok)
    <2>1. Return(p)
      BY <1>1 DEF Invalidate, terminateIfApp
    <2> QED BY <1>1, <2>1, ReturnMoves
  <1>2. CASE InvalidateEnded(p, ok)
    <2>1. PICK x : x = [proc[p] EXCEPT !.pc = "finish"]
      OBVIOUS
    <2>2. x.pc = "finish" /\ x.snap = proc[p].snap /\ x.owes = proc[p].owes
      BY <2>1, SMT DEF Process, Shape, TypeOK
    <2>3. proc[p].pc = "invalidateEnd" /\ proc' = [proc EXCEPT ![p] = x]
      BY <1>2, <2>1 DEF InvalidateEnded
    <2>4. MovedTo(p, x)
      BY <1>2, <2>2, <2>3 DEF MovedTo
    <2> QED BY <2>3, <2>4, OneMoves
  <1> QED BY <1>1, <1>2

LEMMA MemberMoves ==
  ASSUME Shape, NEW w \in Procs,
         \/ \E u \in Users, t \in Targets : AddMember(w, u, t)
         \/ \E b \in bindings : RemoveMember(w, b)
  PROVE  ProcsMove
  <1>1. proc[w].pc = "idle" /\ \E u, t : BindingEvent(w, u, t)
    BY DEF AddMember, RemoveMember
  <1> QED BY <1>1, NoneMoves, OwesMoves DEF BindingEvent

LEMMA SameColumns == ASSUME req' = req PROVE ColumnsKept
  BY DEF ColumnsKept, Columns

LEMMA NextProcs ==
  ASSUME Shape, [Next]_vars
  PROVE  ProcsMove /\ ColumnsKept
  <1> USE DEF Procs
  <1>1. ASSUME NEW w \in Workers, WorkerStep(w) PROVE ProcsMove /\ ColumnsKept
    <2>1. CASE \E r \in Requests, u \in Users, e \in Eligibilities, d \in 0..MaxTime :
                 \E justified \in BOOLEAN : CreateRequest(w, r, u, e, d, justified)
      BY <2>1, CreateMoves, SMT
    <2>2. ASSUME NEW a \in Users, NEW r \in Requests,
                 \/ \E fresh \in BOOLEAN : ApproveHandler(w, a, r, fresh)
                 \/ Reject(w, a, r) \/ Cancel(w, a, r) \/ Revoke(w, a, r)
          PROVE  ProcsMove /\ ColumnsKept
      BY <2>2, HandlerMoves, SameColumns DEF ApproveHandler, Reject, Cancel, Revoke, table
    <2>3. CASE ApproveRead(w) \/ ApproveScope(w)
      BY <2>3, ApproveMoves, SameColumns DEF ApproveRead, ApproveScope, table
    <2>4. CASE ApproveAndGrant(w)
      BY <2>4, GrantMoves
    <2>5. CASE UpdateRequestStatus(w)
      BY <2>5, UpdateMoves
    <2>6. CASE \/ \E u \in Users, t \in Targets : AddMember(w, u, t)
               \/ \E b \in bindings : RemoveMember(w, b)
      BY <2>6, MemberMoves, SameColumns DEF AddMember, RemoveMember
    <2>7. CASE \E ok \in BOOLEAN : Invalidate(w, ok)
      BY <2>7, EffectMoves, SameColumns DEF Invalidate, table
    <2> QED BY <1>1, <2>1, <2>2, <2>3, <2>4, <2>5, <2>6, <2>7 DEF WorkerStep
  <1>2. ASSUME NEW s \in Sweepers, SweeperStep(s) PROVE ProcsMove /\ ColumnsKept
    BY <1>2, SweepMoves, NoneMoves, SameColumns DEF SweeperStep, SweepList, SweepNext, table
  <1>3. ASSUME NEW p \in Procs, EndStep(p) PROVE ProcsMove /\ ColumnsKept
    <2>1. CASE EndGrant(p)
      BY <2>1, EndMoves
    <2>2. CASE \E ok \in BOOLEAN : InvalidateEnded(p, ok) \/ terminateIfApp(p, ok)
      BY <2>2, EffectMoves, SameColumns DEF InvalidateEnded, terminateIfApp, table
    <2> QED BY <1>3, <2>1, <2>2 DEF EndStep
  <1>4. ASSUME NEW p \in Procs, Crash(p) PROVE ProcsMove /\ ColumnsKept
    BY <1>4, ReturnMoves, SameColumns DEF Crash, table
  <1>5. CASE UNCHANGED <<proc, req>>
    BY <1>5, NoneMoves, SameColumns
  <1> QED BY <1>1, <1>2, <1>3, <1>4, <1>5
          DEF Next, WriteEligibility, DeleteEligibility, AppLogin, Tick, vars, table

-------------------------------------------------------------------------------
(* Invalidations that are still owed.                                      *)

Owed(p, u) == proc[p].pc \in {"invalidate", "invalidateEnd"} /\ proc[p].owes = u

\* Whoever changes a user's bindings goes on to invalidate them.
LEMMA DirtyGrows ==
  ASSUME Shape, [Next]_vars
  PROVE  lost \subseteq lost' /\ \A u \in dirty' : u \in dirty \/ \E p \in Procs : Owed(p, u)'
  <1> DEFINE Goal == lost \subseteq lost' /\ \A u \in dirty' : u \in dirty \/ \E p \in Procs : Owed(p, u)'
  <1> SUFFICES Goal
    OBVIOUS
  <1>0. Workers \subseteq Procs
    BY DEF Procs
  <1>1. CASE dirty' \subseteq dirty /\ lost \subseteq lost'
    BY <1>1
  <1>2. ASSUME NEW w \in Workers, NEW u, NEW t, BindingEvent(w, u, t), proc[w].pc = "idle",
               lost' = lost
        PROVE  Goal
    BY <1>0, <1>2, OwesMoves DEF BindingEvent, Staled, Owed
  <1>3. ASSUME NEW w \in Workers, ApproveAndGrant(w) PROVE Goal
    <2>1. proc[w].pc = "grant" /\ lost' = lost
      BY <1>3 DEF ApproveAndGrant
    <2>4. PICK u : u = proc[w].snap.requester
      OBVIOUS
    <2>2. CASE StillPending(proc[w].snap)
      <3>1. /\ proc' = [proc EXCEPT ![w] = [@ EXCEPT !.pc = "invalidate", !.owes = u]]
            /\ dirty' \subseteq dirty \cup {u}
        BY <1>3, <2>2, <2>4 DEF ApproveAndGrant, Staled
      <3>2. Owed(w, u)'
        BY <1>0, <2>1, <3>1, OwesMoves DEF Owed
      <3> QED BY <1>0, <2>1, <3>1, <3>2
    <2>3. CASE ~StillPending(proc[w].snap)
      BY <1>3, <2>1, <2>3 DEF ApproveAndGrant
    <2> QED BY <2>2, <2>3
  <1>4. ASSUME NEW p \in Procs, EndGrant(p) PROVE Goal
    <2>1. CASE proc[p].snap.id \in Unendable
      BY <1>4, <2>1 DEF EndGrant
    <2>2. CASE proc[p].snap.id \notin Unendable
      <3>1. PICK x : x = [proc[p] EXCEPT !.pc = "invalidateEnd", !.owes = proc[p].snap.requester]
        OBVIOUS
      <3>2. x.pc = "invalidateEnd" /\ x.owes = proc[p].snap.requester
        BY <3>1, SMT DEF Process, Shape, TypeOK
      <3>3. /\ proc' = [proc EXCEPT ![p] = x] /\ lost' = lost
            /\ dirty' \subseteq dirty \cup {proc[p].snap.requester}
        BY <1>4, <2>2, <3>1 DEF EndGrant, Staled
      <3>4. proc'[p] = x
        BY <3>3, ZenonT(30) DEF Shape, TypeOK
      <3> QED BY <3>2, <3>3, <3>4 DEF Owed
    <2> QED BY <2>1, <2>2
  <1> HIDE DEF Goal
  <1>5. ASSUME NEW w \in Workers, WorkerStep(w) PROVE Goal
    <2>1. CASE \/ \E u \in Users, t \in Targets : AddMember(w, u, t)
               \/ \E b \in bindings : RemoveMember(w, b)
      BY <1>2, <2>1 DEF AddMember, RemoveMember
    <2>2. CASE \E ok \in BOOLEAN : Invalidate(w, ok)
      BY <2>2 DEF Invalidate, BestEffort, Goal
    <2>3. CASE \/ \E r \in Requests, u \in Users, e \in Eligibilities, d \in 0..MaxTime :
                    \E justified \in BOOLEAN : CreateRequest(w, r, u, e, d, justified)
               \/ \E a \in Users, r \in Requests, fresh \in BOOLEAN : ApproveHandler(w, a, r, fresh)
               \/ ApproveRead(w) \/ ApproveScope(w) \/ UpdateRequestStatus(w)
               \/ \E a \in Users, r \in Requests : Reject(w, a, r)
               \/ \E u \in Users, r \in Requests : Cancel(w, u, r)
               \/ \E a \in Users, r \in Requests : Revoke(w, a, r)
      <3>1. dirty' = dirty /\ lost' = lost
        BY <2>3 DEF CreateRequest, ApproveHandler, ApproveRead, ApproveScope, Reject, Cancel,
                    UpdateRequestStatus, Revoke, effects
      <3> QED BY <1>1, <3>1
    <2> QED BY <1>3, <1>5, <2>1, <2>2, <2>3 DEF WorkerStep
  <1>6. ASSUME NEW p \in Procs, EndStep(p) \/ Crash(p) PROVE Goal
    <2>1. CASE \E ok \in BOOLEAN : InvalidateEnded(p, ok) \/ terminateIfApp(p, ok)
      BY <2>1 DEF InvalidateEnded, terminateIfApp, BestEffort, Goal
    <2>2. CASE Crash(p)
      BY <2>2 DEF Crash, Goal
    <2> QED BY <1>4, <1>6, <2>1, <2>2 DEF EndStep
  <1>7. CASE UNCHANGED <<dirty, lost>>
    BY <1>7 DEF Goal
  <1>8. CASE \E s \in Sweepers : SweeperStep(s)
    BY <1>7, <1>8 DEF SweeperStep, SweepList, SweepNext, effects
  <1>9. CASE \/ \E e \in Eligibilities, rule \in Rules : WriteEligibility(e, rule)
             \/ \E e \in Eligibilities : DeleteEligibility(e)
             \/ \E b \in bindings : AppLogin(b)
             \/ Tick
             \/ UNCHANGED vars
    BY <1>7, <1>9 DEF WriteEligibility, DeleteEligibility, AppLogin, Tick, vars, effects
  <1> QED BY <1>5, <1>6, <1>8, <1>9 DEF Next

LEMMA NextStale ==
  ASSUME Shape, NoSilentStaleness, [Next]_vars
  PROVE  NoSilentStaleness'
  <1>1. SUFFICES ASSUME NEW u \in dirty', NEW q \in Procs, u \in dirty, Owed(q, u)
                 PROVE  u \in lost' \/ \E p \in Procs : Owed(p, u)'
    <2>1. \A u \in dirty : u \in lost \/ \E p \in Procs : Owed(p, u)
      BY DEF NoSilentStaleness, Owed
    <2>2. \A u \in dirty' : u \in lost' \/ \E p \in Procs : Owed(p, u)'
      BY <1>1, <2>1, DirtyGrows
    <2> QED BY <2>2 DEF NoSilentStaleness, Owed
  <1>2. u \in Users /\ u # None /\ proc[q].owes = u
    BY <1>1 DEF Owed, Shape, TypeOK
  <1>3. CASE proc'[q] = proc[q]
    BY <1>1, <1>3 DEF Owed
  <1>4. CASE Crash(q)
    BY <1>2, <1>4 DEF Crash
  <1>5. CASE \E ok \in BOOLEAN : Invalidate(q, ok) \/ InvalidateEnded(q, ok)
    BY <1>1, <1>2, <1>5 DEF Invalidate, InvalidateEnded, BestEffort
  <1> QED BY <1>1, <1>3, <1>4, <1>5, NextProcs DEF ProcsMove, MovedTo, Owed, terminateIfApp

\* A change of a user's bindings is never left behind in the cache without an
\* invalidation on its way or a fault on record.
THEOREM NoSilentStalenessTheorem == Spec => []NoSilentStaleness
  <1>1. Init => NoSilentStaleness
    BY DEF Init, NoSilentStaleness
  <1>2. Shape /\ NoSilentStaleness /\ [Next]_vars => NoSilentStaleness'
    BY NextStale
  <1> QED BY <1>1, <1>2, TypeCorrect, PTL DEF Spec

-------------------------------------------------------------------------------
(* Rows read earlier, and the ceiling on a grant.                          *)

\* What a process or a sweeper read of a request still is what the request
\* says, as far as the columns that name the grant go; a binding carries the
\* subject and the target of its request; the cache drop that is owed after
\* EndGrant is the requester's.
Reads ==
    /\ \A p \in Procs : proc[p].pc \notin {"idle", "invalidate"} =>
          Columns(proc[p].snap, req[proc[p].snap.id])
    /\ \A s \in Sweepers : \A row \in due[s] : Columns(row, req[row.id])
    /\ \A b \in bindings : b.grant # None =>
          b.user = req[b.grant].requester /\ b.target = req[b.grant].target
    /\ \A p \in Procs : proc[p].pc \in {"invalidateEnd", "finish"} =>
          proc[p].owes = proc[p].snap.requester

\* Rules are stored validated, so every request and every expires_at computed
\* from one is within the ceiling, also after the rule was edited.
Ceiling ==
    /\ \A e \in Eligibilities : Exists(e) => validateEligibilityRequest(elig[e])
    /\ \A r \in Requests : req[r] # None => req[r].secs <= MaxTTL
    /\ \A p \in Procs : proc[p].pc = "grant" => proc[p].exp <= now + MaxTTL
    /\ WithinCeiling

LEMMA DueMoves ==
  ASSUME Shape, [Next]_vars, NEW s \in Sweepers, NEW row \in due'[s]
  PROVE  row \in due[s] \/ \E r \in Requests : req'[r] # None /\ row = req'[r]
  <1>1. due' = due \/ (\E t \in Sweepers : SweeperStep(t)) \/ \E p \in Procs : Crash(p)
    <2>1. ASSUME NEW w \in Workers, WorkerStep(w) PROVE due' = due
      BY <2>1 DEF WorkerStep, CreateRequest, ApproveHandler, ApproveRead, ApproveScope,
           ApproveAndGrant, Reject, Cancel, UpdateRequestStatus, Revoke, AddMember,
           RemoveMember, Invalidate
    <2>2. ASSUME NEW p \in Procs, EndStep(p) PROVE due' = due
      BY <2>2 DEF EndStep, EndGrant, sweepError, InvalidateEnded, terminateIfApp
    <2>3. CASE \/ \E e \in Eligibilities, rule \in Rules : WriteEligibility(e, rule)
               \/ \E e \in Eligibilities : DeleteEligibility(e)
               \/ \E b \in bindings : AppLogin(b)
               \/ Tick \/ UNCHANGED vars
      BY <2>3 DEF WriteEligibility, DeleteEligibility, AppLogin, Tick, vars
    <2> QED BY <2>1, <2>2, <2>3, ZenonT(30) DEF Next
  <1>2. ASSUME NEW t \in Sweepers, SweepList(t)
        PROVE  row \in due[s] \/ \E r \in Requests : req'[r] # None /\ row = req'[r]
    <2>1. req' = req /\ due' = [due EXCEPT ![t] = ListDueGrants]
      BY <1>2 DEF SweepList, table
    <2>2. row \in due[s] \/ row \in ListDueGrants
      BY <2>1 DEF Shape, TypeOK
    <2> QED BY <2>1, <2>2 DEF ListDueGrants
  <1> QED BY <1>1, <1>2, SMT DEF SweeperStep, SweepNext, Crash, Shape, TypeOK

\* Where a row of the binding tables comes from.
LEMMA BindingMoves ==
  ASSUME Shape, [Next]_vars, NEW b \in bindings'
  PROVE  \/ b \in bindings
         \/ b.grant = None
         \/ \E w \in Workers :
              /\ ApproveAndGrant(w)
              /\ b = [id |-> nextID, user |-> proc[w].snap.requester,
                      target |-> proc[w].snap.target, grant |-> proc[w].snap.id,
                      expiresAt |-> proc[w].exp, created |-> now]
  <1>1. ASSUME NEW w \in Workers, ApproveAndGrant(w)
        PROVE  \/ b \in bindings
               \/ b = [id |-> nextID, user |-> proc[w].snap.requester,
                       target |-> proc[w].snap.target, grant |-> proc[w].snap.id,
                       expiresAt |-> proc[w].exp, created |-> now]
    BY <1>1 DEF ApproveAndGrant, insertBindingTx
  <1>2. ASSUME NEW w \in Workers, NEW u \in Users, NEW t \in Targets, AddMember(w, u, t)
        PROVE  b \in bindings \/ b.grant = None
    BY <1>2, SMTT(30) DEF AddMember
  <1>3. ASSUME NEW w \in Workers, WorkerStep(w), ~ApproveAndGrant(w)
        PROVE  b \in bindings \/ b.grant = None
    BY <1>2, <1>3 DEF WorkerStep, CreateRequest, ApproveHandler, ApproveRead, ApproveScope,
       Reject, Cancel, UpdateRequestStatus, Revoke, RemoveMember, Invalidate, table
  <1>4. ASSUME NEW p \in Procs, EndStep(p) \/ Crash(p) PROVE b \in bindings
    BY <1>4 DEF EndStep, EndGrant, endBinding, InvalidateEnded, terminateIfApp, Crash, table
  <1>5. CASE \/ \E s \in Sweepers : SweeperStep(s)
             \/ \E e \in Eligibilities, rule \in Rules : WriteEligibility(e, rule)
             \/ \E e \in Eligibilities : DeleteEligibility(e)
             \/ \E a \in bindings : AppLogin(a)
             \/ Tick
             \/ UNCHANGED vars
    BY <1>5 DEF SweeperStep, SweepList, SweepNext, WriteEligibility, DeleteEligibility,
       AppLogin, Tick, vars, table
  <1> QED BY <1>1, <1>3, <1>4, <1>5 DEF Next

\* A row read earlier agrees with the table after any step.
LEMMA RowKept ==
  ASSUME ColumnsKept, NEW row \in RequestRow, req[row.id] # None, Columns(row, req[row.id])
  PROVE  Columns(row, req'[row.id])
  <1>1. row.id \in Requests
    BY DEF RequestRow
  <1> QED BY <1>1 DEF ColumnsKept, Columns

LEMMA NextReads ==
  ASSUME Shape, Grants, Reads, [Next]_vars
  PROVE  Reads'
  <1>1. Shape' /\ ProcsMove /\ ColumnsKept
    BY NextShape, NextProcs
  <1>2. ASSUME NEW p \in Procs, proc[p].pc \notin {"idle", "invalidate"}
        PROVE  Columns(proc[p].snap, req'[proc[p].snap.id])
    <2>1. proc[p].snap \in RequestRow /\ req[proc[p].snap.id] # None
      BY <1>2, HeldRow
    <2>2. Columns(proc[p].snap, req[proc[p].snap.id])
      BY <1>2 DEF Reads
    <2> QED BY <1>1, <2>1, <2>2, RowKept
  <1>3. ASSUME NEW s \in Sweepers, NEW row \in due[s]
        PROVE  Columns(row, req'[row.id])
    <2>1. row \in RequestRow /\ req[row.id] # None /\ Columns(row, req[row.id])
      BY DEF Shape, TypeOK, RowsOK, Reads
    <2> QED BY <1>1, <2>1, RowKept
  <1>4. ASSUME NEW r \in Requests, req'[r] # None
        PROVE  Columns(req'[r], req'[req'[r].id])
    BY <1>1, <1>4 DEF Shape, RowsOK, Columns
  <1>5. ASSUME NEW p \in Procs, proc'[p].pc \notin {"idle", "invalidate"}
        PROVE  Columns(proc'[p].snap, req'[proc'[p].snap.id])
    <2>1. CASE proc'[p] = proc[p]
      BY <1>2, <1>5, <2>1
    <2>2. CASE MovedTo(p, proc'[p])
      BY <1>2, <1>3, <1>4, <1>5, <2>2 DEF MovedTo
    <2> QED BY <1>1, <2>1, <2>2 DEF ProcsMove
  <1>6. ASSUME NEW s \in Sweepers, NEW row \in due'[s]
        PROVE  Columns(row, req'[row.id])
    BY <1>3, <1>4, <1>6, DueMoves, SMT
  <1>7. ASSUME NEW b \in bindings', b.grant # None
        PROVE  b.user = req'[b.grant].requester /\ b.target = req'[b.grant].target
    <2>1. CASE b \in bindings
      <3>1. /\ b.grant \in Requests /\ req[b.grant] # None
            /\ b.user = req[b.grant].requester /\ b.target = req[b.grant].target
        BY <1>7, <2>1 DEF Shape, TypeOK, BindingRow, Grants, BindingOK, Reads
      <3> QED BY <1>1, <3>1 DEF ColumnsKept, Columns
    <2>2. ASSUME NEW w \in Workers, ApproveAndGrant(w),
                 b = [id |-> nextID, user |-> proc[w].snap.requester,
                      target |-> proc[w].snap.target, grant |-> proc[w].snap.id,
                      expiresAt |-> proc[w].exp, created |-> now]
          PROVE  b.user = req'[b.grant].requester /\ b.target = req'[b.grant].target
      <3>1. w \in Procs /\ proc[w].pc = "grant"
        BY <2>2 DEF ApproveAndGrant, Procs
      <3>2. Columns(proc[w].snap, req'[proc[w].snap.id])
        BY <1>2, <3>1
      <3> QED BY <2>2, <3>2 DEF Columns
    <2> QED BY <1>7, <2>1, <2>2, BindingMoves
  <1>8. ASSUME NEW p \in Procs, proc'[p].pc \in {"invalidateEnd", "finish"}
        PROVE  proc'[p].owes = proc'[p].snap.requester
    BY <1>1, <1>8, SMT DEF ProcsMove, MovedTo, Reads
  <1> QED BY <1>5, <1>6, <1>7, <1>8 DEF Reads

\* A rule that exists was validated when it was stored.
LEMMA NextRules ==
  ASSUME Shape, Ceiling, [Next]_vars, NEW e \in Eligibilities, Exists(e)'
  PROVE  validateEligibilityRequest(elig'[e])
  <1>1. CASE elig' = elig
    BY <1>1 DEF Ceiling, Exists
  <1>2. ASSUME NEW f \in Eligibilities, NEW rule \in Rules, WriteEligibility(f, rule)
        PROVE  validateEligibilityRequest(elig'[e])
    <2>1. validateEligibilityRequest(rule) /\ elig' = [elig EXCEPT ![f] = rule]
      BY <1>2 DEF WriteEligibility
    <2>2. elig'[e] = rule \/ elig'[e] = elig[e]
      BY <2>1 DEF Shape, TypeOK
    <2> QED BY <2>1, <2>2 DEF Ceiling, Exists
  <1>3. ASSUME NEW f \in Eligibilities, DeleteEligibility(f)
        PROVE  validateEligibilityRequest(elig'[e])
    <2>1. elig'[e] = Deleted \/ elig'[e] = elig[e]
      BY <1>3 DEF DeleteEligibility, Shape, TypeOK
    <2> QED BY <2>1 DEF Ceiling, Exists
  <1>4. ASSUME NEW w \in Workers, WorkerStep(w) PROVE elig' = elig
    BY <1>4 DEF WorkerStep, CreateRequest, ApproveHandler, ApproveRead, ApproveScope,
       ApproveAndGrant, Reject, Cancel, UpdateRequestStatus, Revoke, AddMember,
       RemoveMember, Invalidate, table
  <1>5. ASSUME NEW p \in Procs, EndStep(p) \/ Crash(p) PROVE elig' = elig
    BY <1>5 DEF EndStep, EndGrant, InvalidateEnded, terminateIfApp, Crash, table
  <1>6. CASE \/ \E s \in Sweepers : SweeperStep(s)
             \/ \E b \in bindings : AppLogin(b)
             \/ Tick
             \/ UNCHANGED vars
    BY <1>1, <1>6 DEF SweeperStep, SweepList, SweepNext, AppLogin, Tick, vars, table
  <1> QED BY <1>1, <1>2, <1>3, <1>4, <1>5, <1>6 DEF Next

\* Only CreateRequest adds a row to the request table.
LEMMA RequestMoves ==
  ASSUME Shape, [Next]_vars, NEW r \in Requests, req[r] = None, req'[r] # None
  PROVE  \E w \in Procs, u \in Users, e \in Eligibilities, d \in 0..MaxTime :
            \E justified \in BOOLEAN : CreateRequest(w, r, u, e, d, justified)
  <1> DEFINE Created == \E w \in Procs, u \in Users, e \in Eligibilities, d \in 0..MaxTime :
                \E justified \in BOOLEAN : CreateRequest(w, r, u, e, d, justified)
  <1> SUFFICES Created
    OBVIOUS
  <1>0. req \in [Requests -> RequestRow \cup {None}] /\ Workers \subseteq Procs
    BY DEF Shape, TypeOK, Procs
  <1>1. ASSUME NEW w \in Workers, NEW q \in Requests, NEW u \in Users,
               NEW e \in Eligibilities, NEW d \in 0..MaxTime, NEW j \in BOOLEAN,
               CreateRequest(w, q, u, e, d, j)
        PROVE  Created
    <2>1. q = r
      BY <1>0, <1>1 DEF CreateRequest
    <2> QED BY <1>0, <1>1, <2>1, SMT
  <1>2. ASSUME NEW q \in Procs, NEW x, req[proc[q].snap.id] # None,
               req' = [req EXCEPT ![proc[q].snap.id] = x]
        PROVE  Created
    BY <1>0, <1>2
  <1>3. CASE req' = req
    BY <1>3
  <1> HIDE DEF Created
  <1>4. ASSUME NEW w \in Workers, ApproveAndGrant(w) \/ UpdateRequestStatus(w) PROVE Created
    <2>1. w \in Procs /\ req[proc[w].snap.id] # None
      BY <1>0, <1>4, HeldRow DEF ApproveAndGrant, UpdateRequestStatus
    <2> QED BY <1>2, <1>3, <1>4, <2>1 DEF ApproveAndGrant, UpdateRequestStatus
  <1>5. ASSUME NEW p \in Procs, EndGrant(p) PROVE Created
    <2>1. req[proc[p].snap.id] # None
      BY <1>5, HeldRow DEF EndGrant
    <2> QED BY <1>2, <1>3, <1>5, <2>1 DEF EndGrant
  <1>6. ASSUME NEW w \in Workers, WorkerStep(w) PROVE Created
    BY <1>1, <1>3, <1>4, <1>6, SMT
       DEF WorkerStep, ApproveHandler, ApproveRead, ApproveScope, Reject, Cancel, Revoke,
           AddMember, RemoveMember, Invalidate, table
  <1>7. ASSUME NEW p \in Procs, EndStep(p) \/ Crash(p) PROVE Created
    BY <1>3, <1>5, <1>7 DEF EndStep, InvalidateEnded, terminateIfApp, Crash, table
  <1>8. CASE \/ \E s \in Sweepers : SweeperStep(s)
             \/ \E e \in Eligibilities, rule \in Rules : WriteEligibility(e, rule)
             \/ \E e \in Eligibilities : DeleteEligibility(e)
             \/ \E b \in bindings : AppLogin(b)
             \/ Tick
             \/ UNCHANGED vars
    BY <1>3, <1>8 DEF SweeperStep, SweepList, SweepNext, WriteEligibility,
       DeleteEligibility, AppLogin, Tick, vars, table
  <1> QED BY <1>6, <1>7, <1>8 DEF Next

LEMMA NextCeiling ==
  ASSUME Shape, Reads, Ceiling, [Next]_vars
  PROVE  Ceiling'
  <1>1. Shape' /\ ProcsMove /\ ColumnsKept
    BY NextShape, NextProcs
  <1>2. now \in Nat /\ now' \in Nat /\ now <= now'
    <2>1. ASSUME NEW w \in Workers, WorkerStep(w) PROVE now' = now
      BY <2>1 DEF WorkerStep, CreateRequest, ApproveHandler, ApproveRead, ApproveScope,
         ApproveAndGrant, Reject, Cancel, UpdateRequestStatus, Revoke, AddMember,
         RemoveMember, Invalidate
    <2>2. ASSUME NEW p \in Procs, EndStep(p) \/ Crash(p) PROVE now' = now
      BY <2>2 DEF EndStep, EndGrant, InvalidateEnded, terminateIfApp, Crash
    <2>3. CASE Tick
      BY <1>1, <2>3, SMT DEF Tick, Shape, TypeOK
    <2>4. CASE now' = now
      BY <1>1, <2>4, SMT DEF Shape, TypeOK
    <2> QED BY <2>1, <2>2, <2>3, <2>4, ZenonT(30) DEF Next, SweeperStep, SweepList, SweepNext,
            WriteEligibility, DeleteEligibility, AppLogin, vars
  <1>3. ASSUME NEW e \in Eligibilities, Exists(e)' PROVE validateEligibilityRequest(elig[e])'
    BY <1>3, NextRules DEF validateEligibilityRequest
  <1>4. ASSUME NEW r \in Requests, req'[r] # None PROVE req'[r].secs <= MaxTTL
    <2>1. CASE req[r] # None
      BY <1>1, <2>1 DEF ColumnsKept, Columns, Ceiling
    <2>2. CASE req[r] = None
      <3>1. PICK w \in Procs, u \in Users, e \in Eligibilities, d \in 0..MaxTime, j \in BOOLEAN :
               CreateRequest(w, r, u, e, d, j)
        BY <1>4, <2>2, RequestMoves
      <3>2. req'[r].secs = ClampDuration(elig[e], d)
        BY <3>1 DEF CreateRequest, NewRequest, Shape, TypeOK
      <3>3. /\ elig[e] \in Eligibility /\ validateEligibilityRequest(elig[e])
            /\ d \in elig[e].durations
        BY <3>1 DEF CreateRequest, Exists, DurationAllowed, Ceiling, Shape, TypeOK
      <3>4. d \in 1..elig[e].max /\ elig[e].max \in 1..MaxTTL
        BY <3>3 DEF validateEligibilityRequest
      <3> QED BY <3>2, <3>4, SMT DEF ClampDuration
    <2> QED BY <2>1, <2>2
  <1>5. ASSUME NEW p \in Procs, proc'[p].pc = "grant" PROVE proc'[p].exp <= now' + MaxTTL
    <2>1. CASE proc'[p] = proc[p]
      <3>1. proc[p].exp <= now + MaxTTL /\ proc[p].exp \in Nat
        BY <1>5, <2>1 DEF Ceiling, Shape, TypeOK, Process
      <3> QED BY <1>2, <2>1, <3>1, SMT
    <2>2. CASE MovedTo(p, proc'[p])
      <3>1. /\ proc[p].pc = "scope" /\ now' = now
            /\ proc'[p].exp = now + proc[p].snap.secs
        BY <1>5, <2>2 DEF MovedTo
      <3>2. /\ proc[p].snap \in RequestRow /\ proc[p].snap.id \in Requests
            /\ req[proc[p].snap.id] # None
        BY <3>1, HeldRow
      <3>3. proc[p].snap.secs <= MaxTTL /\ proc[p].snap.secs \in Nat
        BY <3>1, <3>2 DEF Reads, Columns, Ceiling, RequestRow
      <3> QED BY <1>2, <3>1, <3>3, SMT
    <2> QED BY <1>1, <2>1, <2>2 DEF ProcsMove
  <1>6. WithinCeiling'
    <2>1. ASSUME NEW b \in bindings', b.grant # None
          PROVE  b.expiresAt # None /\ b.expiresAt <= b.created + MaxTTL
      <3>1. CASE b \in bindings
        BY <2>1, <3>1 DEF Ceiling, WithinCeiling
      <3>2. ASSUME NEW w \in Workers, ApproveAndGrant(w),
                   b.expiresAt = proc[w].exp /\ b.created = now
            PROVE  b.expiresAt # None /\ b.expiresAt <= b.created + MaxTTL
        <4>1. w \in Procs /\ proc[w].pc = "grant"
          BY <3>2 DEF ApproveAndGrant, Procs
        <4>2. proc[w].exp \in Nat /\ proc[w].exp <= now + MaxTTL
          BY <4>1 DEF Ceiling, Shape, TypeOK, Process
        <4> QED BY <3>2, <4>2
      <3> QED BY <2>1, <3>1, <3>2, BindingMoves, SMT
    <2> QED BY <2>1 DEF WithinCeiling
  <1> QED BY <1>3, <1>4, <1>5, <1>6 DEF Ceiling

-------------------------------------------------------------------------------
(* App sessions opened under a grant.                                      *)

\* A process has ended the grant behind session x and is going to end x.
Ending(p, x) ==
    /\ proc[p].pc \in {"invalidateEnd", "finish"}
    /\ proc[p].snap.requester = x.user /\ proc[p].snap.target = x.target

\* Request r was granted to x's user for x's app and EndGrant has not ended it.
Running(r, x) ==
    /\ req[r] # None
    /\ req[r].requester = x.user /\ req[r].target = x.target
    /\ \/ req[r].status = "approved"
       \/ req[r].status \in {"rejected", "cancelled"} /\ req[r].binding # None

\* SessionWillEnd without its first alternative: a session is on its way out
\* also while some binding, perhaps a permanent one, is effective.
SessionsEnd ==
    \A x \in sessions :
        x.user \in lost \/ (\E p \in Procs : Ending(p, x)) \/ \E r \in Requests : Running(r, x)

LEMMA SessionMoves ==
  ASSUME Shape, [Next]_vars, NEW x \in sessions'
  PROVE  x \in sessions \/ \E b \in bindings : /\ AppLogin(b)
                                               /\ x = [user |-> b.user, target |-> b.target]
  <1>1. ASSUME NEW w \in Workers, WorkerStep(w) PROVE x \in sessions
    BY <1>1 DEF WorkerStep, CreateRequest, ApproveHandler, ApproveRead, ApproveScope,
       ApproveAndGrant, Reject, Cancel, UpdateRequestStatus, Revoke, AddMember,
       RemoveMember, Invalidate, effects
  <1>2. ASSUME NEW p \in Procs, EndStep(p) \/ Crash(p) PROVE x \in sessions
    BY <1>2 DEF EndStep, EndGrant, InvalidateEnded, terminateIfApp, Crash
  <1>3. ASSUME NEW b \in bindings, AppLogin(b)
        PROVE  x \in sessions \/ x = [user |-> b.user, target |-> b.target]
    BY <1>3 DEF AppLogin
  <1>4. CASE \/ \E s \in Sweepers : SweeperStep(s)
             \/ \E e \in Eligibilities, rule \in Rules : WriteEligibility(e, rule)
             \/ \E e \in Eligibilities : DeleteEligibility(e)
             \/ Tick
             \/ UNCHANGED vars
    BY <1>4 DEF SweeperStep, SweepList, SweepNext, WriteEligibility, DeleteEligibility,
       Tick, vars, effects
  <1> QED BY <1>1, <1>2, <1>3, <1>4, ZenonT(30) DEF Next

\* A granted request stays granted, or the process that ended it goes on to
\* end the session.
LEMMA RunningStep ==
  ASSUME Shape, Grants, Reads, [Next]_vars, NEW r \in Requests, NEW x, Running(r, x)
  PROVE  Running(r, x)' \/ \E p \in Procs : Ending(p, x)'
  <1> DEFINE Goal == Running(r, x)' \/ \E p \in Procs : Ending(p, x)'
  <1> SUFFICES Goal
    OBVIOUS
  <1>0. Workers \subseteq Procs /\ req \in [Requests -> RequestRow \cup {None}]
    BY DEF Procs, Shape, TypeOK
  <1>1. CASE req'[r] = req[r]
    BY <1>1 DEF Running
  <1>2. ASSUME NEW w \in Workers, ApproveAndGrant(w) PROVE Goal
    <2>1. CASE r # proc[w].snap.id \/ ~StillPending(proc[w].snap)
      <3>1. req'[r] = req[r]
        BY <1>0, <1>2, <2>1 DEF ApproveAndGrant
      <3> QED BY <1>1, <3>1
    <2>2. CASE r = proc[w].snap.id /\ StillPending(proc[w].snap)
      BY <2>2 DEF StillPending, Running
    <2> QED BY <2>1, <2>2
  <1>3. ASSUME NEW w \in Workers, UpdateRequestStatus(w) PROVE Goal
    <2>1. CASE r # proc[w].snap.id
      <3>1. req'[r] = req[r]
        BY <1>0, <1>3, <2>1 DEF UpdateRequestStatus
      <3> QED BY <1>1, <3>1
    <2>2. CASE r = proc[w].snap.id
      <3>0. ColumnsKept /\ req[r] \in RequestRow
        BY <1>0, NextProcs DEF Running
      <3>1. req'[r].status \in {"rejected", "cancelled"} /\ req'[r].binding = req[r].binding
        BY <1>0, <1>3, <2>2, <3>0 DEF UpdateRequestStatus, RequestRow
      <3>2. req[r] # None /\ req[r].binding # None
        BY DEF Running, Grants, RequestOK
      <3>3. req'[r] # None /\ req'[r].requester = x.user /\ req'[r].target = x.target
        BY <3>0, <3>2 DEF ColumnsKept, Columns, Running
      <3> QED BY <3>1, <3>2, <3>3 DEF Running
    <2> QED BY <2>1, <2>2
  <1>4. ASSUME NEW p \in Procs, EndGrant(p) PROVE Goal
    <2>1. CASE req' = req \/ r # proc[p].snap.id
      BY <1>1, <1>4, <2>1, EndMoves
    <2>2. CASE req' # req /\ r = proc[p].snap.id
      <3>1. proc'[p].pc = "invalidateEnd" /\ proc'[p].snap = proc[p].snap
        BY <1>4, <2>2, EndMoves
      <3>2. Columns(proc[p].snap, req[r])
        BY <1>4, <2>2 DEF EndGrant, Reads
      <3> QED BY <3>1, <3>2 DEF Ending, Columns, Running
    <2> QED BY <2>1, <2>2
  <1>5. ASSUME NEW w \in Workers, NEW q \in Requests, NEW u \in Users,
               NEW e \in Eligibilities, NEW d \in 0..MaxTime, NEW j \in BOOLEAN,
               CreateRequest(w, q, u, e, d, j)
        PROVE  Goal
    <2>1. req'[r] = req[r]
      BY <1>0, <1>5 DEF CreateRequest, Running
    <2> QED BY <1>1, <2>1
  <1> HIDE DEF Goal
  <1>6. ASSUME NEW w \in Workers, WorkerStep(w) PROVE Goal
    BY <1>1, <1>2, <1>3, <1>5, <1>6, SMT
       DEF WorkerStep, ApproveHandler, ApproveRead, ApproveScope, Reject, Cancel, Revoke,
           AddMember, RemoveMember, Invalidate, table
  <1>7. ASSUME NEW p \in Procs, EndStep(p) \/ Crash(p) PROVE Goal
    BY <1>1, <1>4, <1>7 DEF EndStep, InvalidateEnded, terminateIfApp, Crash, table
  <1>8. CASE \/ \E s \in Sweepers : SweeperStep(s)
             \/ \E e \in Eligibilities, rule \in Rules : WriteEligibility(e, rule)
             \/ \E e \in Eligibilities : DeleteEligibility(e)
             \/ \E b \in bindings : AppLogin(b)
             \/ Tick
             \/ UNCHANGED vars
    BY <1>1, <1>8 DEF SweeperStep, SweepList, SweepNext, WriteEligibility,
       DeleteEligibility, AppLogin, Tick, vars, table
  <1> QED BY <1>6, <1>7, <1>8 DEF Next

LEMMA NextSessions ==
  ASSUME Shape, Grants, Reads, SessionsEnd, [Next]_vars
  PROVE  SessionsEnd'
  <1>1. SUFFICES ASSUME NEW x \in sessions'
                 PROVE  \/ x.user \in lost' \/ (\E p \in Procs : Ending(p, x)')
                        \/ \E r \in Requests : Running(r, x)'
    BY DEF SessionsEnd
  <1>2. lost \subseteq lost' /\ ProcsMove
    BY DirtyGrows, NextProcs
  <1>3. ASSUME NEW r \in Requests, Running(r, x)
        PROVE  (\E p \in Procs : Ending(p, x)') \/ \E q \in Requests : Running(q, x)'
    BY <1>3, RunningStep
  <1>4. ASSUME NEW b \in bindings, AppLogin(b), x = [user |-> b.user, target |-> b.target]
        PROVE  \E r \in Requests : Running(r, x)
    <2>1. b \in BindingRow /\ BindingOK(b) /\ b.grant # None
      BY <1>4 DEF Shape, TypeOK, Grants, AppLogin
    <2>2. /\ b.grant \in Requests /\ req[b.grant] \in RequestRow /\ req[b.grant] # None
          /\ req[b.grant].binding = b.id /\ b.id # None
          /\ req[b.grant].status \notin {"pending"} \cup Ended
      BY <2>1 DEF BindingRow, BindingOK, Shape, TypeOK
    <2>3. req[b.grant].status \in {"approved", "rejected", "cancelled"}
      BY <2>2 DEF RequestRow, Statuses, Ended
    <2>4. req[b.grant].requester = x.user /\ req[b.grant].target = x.target
      BY <1>4, <2>1 DEF Reads
    <2> QED BY <2>2, <2>3, <2>4 DEF Running
  <1>5. ASSUME NEW p \in Procs, x \in sessions, Ending(p, x)
        PROVE  x.user \in lost' \/ Ending(p, x)'
    <2>1. /\ proc[p].owes = x.user /\ x.user \in Users /\ x.user # None
          /\ x = [user |-> x.user, target |-> x.target] /\ x.target \in AppTargets
      BY <1>5 DEF Ending, Reads, Shape, TypeOK
    <2>2. CASE proc'[p] = proc[p]
      BY <1>5, <2>2 DEF Ending
    <2>3. CASE Crash(p)
      BY <2>1, <2>3 DEF Crash
    <2>4. ASSUME NEW ok \in BOOLEAN, terminateIfApp(p, ok) PROVE x.user \in lost'
      <3>1. CASE ok
        <4>1. sessions' = sessions \ {[user |-> proc[p].snap.requester, target |-> proc[p].snap.target]}
          BY <1>5, <2>1, <2>4, <3>1 DEF terminateIfApp, endsAppSession, Ending
        <4> QED BY <1>1, <1>5, <2>1, <4>1 DEF Ending
      <3>2. CASE ~ok
        BY <2>1, <2>4, <3>2 DEF terminateIfApp, BestEffort
      <3> QED BY <3>1, <3>2
    <2> QED BY <1>2, <1>5, <2>2, <2>3, <2>4 DEF ProcsMove, MovedTo, Ending, Invalidate
  <1>6. CASE x \in sessions
    BY <1>2, <1>3, <1>5, <1>6 DEF SessionsEnd
  <1> QED BY <1>3, <1>4, <1>6, SessionMoves

GrantInv == Inv /\ Reads /\ Ceiling /\ SessionsEnd

\* However handlers, sweepers, crashes and lost calls interleave, a subject
\* holds one binding of a target, no grant is longer than the ceiling, and an
\* app session opened under a grant is going to be ended.
THEOREM GrantsHoldTheorem == Spec => []GrantsHold
  <1>1. Init => GrantInv
    <2>1. Init => Reads
      BY SMT DEF Init, Reads, Idle
    <2>2. Init => Ceiling
      BY SMT DEF Init, Ceiling, WithinCeiling, Exists, Idle
    <2>3. Init => SessionsEnd
      BY DEF Init, SessionsEnd
    <2> QED BY <2>1, <2>2, <2>3, InitShape, InitGrants DEF GrantInv, Inv
  <1>2. GrantInv /\ [Next]_vars => GrantInv'
    BY NextShape, NextGrants, NextReads, NextCeiling, NextSessions DEF GrantInv, Inv
  <1>3. GrantInv /\ OneBindingPerSubject => GrantsHold
    <2>1. SessionsEnd => SessionWillEnd
      BY DEF SessionsEnd, SessionWillEnd, Ending, Running
    <2> QED BY <2>1 DEF GrantInv, Inv, Shape, Ceiling, GrantsHold
  <1> QED BY <1>1, <1>2, <1>3, OneBindingTheorem, PTL DEF Spec

-------------------------------------------------------------------------------
(* Delegated administration.  A permission that was given to somebody by a *)
(* super administrator stays on record; what a delegated administrator may *)
(* write was held by them when it was checked, so it is on record however  *)
(* late the write comes, and whatever changed in between.                  *)

Membership == [role : RoleIds, user : Holders, scope : Everywhere]

\* What an edit under way writes.
EditTyped(r) ==
    /\ r.op = "set" => r.role \in RoleIds /\ r.perms \subseteq Perms
    /\ r.op = "assign" => r.row \in Membership /\ r.perms \subseteq Perms

RolesTyped ==
    /\ catalog \in [RoleIds -> SUBSET Perms]
    /\ members \subseteq Membership
    /\ DOMAIN edits = Editors
    /\ \A w \in Editors : EditTyped(edits[w])

AllGiven(S) == \A p \in S : \E s \in Everywhere : <<p, s>> \in authorised

\* Everything held was given, and so was everything a checked edit may write.
Delegated ==
    /\ \A b \in members : AllGiven(catalog[b.role])
    /\ \A w \in Editors : edits[w].op \in {"set", "assign"} => AllGiven(edits[w].perms)

RolesInv == RolesTyped /\ (crossed \/ Delegated)

\* What was given stays given.
LEMMA GivenStays ==
  ASSUME authorised \subseteq authorised', NEW S, AllGiven(S)
  PROVE  AllGiven(S)'
  BY DEF AllGiven

\* A super administrator's step puts on record what everybody then holds.
LEMMA GivenToMembers ==
  ASSUME members' \subseteq Membership, Holdings(catalog', members') \subseteq authorised',
         NEW b \in members'
  PROVE  AllGiven(catalog[b.role])'
  <1>1. b.scope \in Everywhere
    BY DEF Membership
  <1>2. \A p \in catalog'[b.role] : <<p, b.scope>> \in Holdings(catalog', members')
    BY SMT DEF Holdings
  <1> QED BY <1>1, <1>2 DEF AllGiven

\* A step that hands out nothing.
LEMMA RolesFrame ==
  ASSUME RolesInv, crossed' = crossed, authorised \subseteq authorised',
         catalog' \in [RoleIds -> SUBSET Perms], members' \subseteq Membership,
         \A b \in members' : b \in members /\ catalog'[b.role] \subseteq catalog[b.role],
         DOMAIN edits' = Editors,
         \A w \in Editors : edits'[w] = edits[w] \/ edits'[w] = NoEdit
  PROVE  RolesInv'
  <1>1. EditTyped(NoEdit) /\ NoEdit.op \notin {"set", "assign"}
    BY SMT DEF EditTyped, NoEdit
  <1>2. RolesTyped'
    BY <1>1 DEF RolesInv, RolesTyped, EditTyped
  <1>3. ASSUME Delegated PROVE Delegated'
    <2>1. ASSUME NEW b \in members' PROVE AllGiven(catalog[b.role])'
      BY <1>3 DEF Delegated, AllGiven
    <2>2. ASSUME NEW w \in Editors, edits'[w].op \in {"set", "assign"} PROVE AllGiven(edits[w].perms)'
      <3>1. edits'[w] = edits[w]
        BY <1>1, <2>2
      <3>2. AllGiven(edits[w].perms)
        BY <1>3, <2>2, <3>1 DEF Delegated
      <3> QED BY <3>1, <3>2 DEF AllGiven
    <2> QED BY <2>1, <2>2 DEF Delegated
  <1> QED BY <1>2, <1>3 DEF RolesInv

\* A checked edit: what it may write is held by the user who asked.
LEMMA RolesChecked ==
  ASSUME RolesInv, UNCHANGED <<catalog, members, authorised, crossed>>,
         NEW u \in Holders, NEW w \in Editors, NEW r, EditTyped(r),
         HoldsAll(u, r.perms), edits' = [edits EXCEPT ![w] = r]
  PROVE  RolesInv'
  <1>1. DOMAIN edits' = Editors /\ edits'[w] = r /\ \A v \in Editors \ {w} : edits'[v] = edits[v]
    BY DEF RolesInv, RolesTyped
  <1>2. RolesTyped'
    BY <1>1 DEF RolesInv, RolesTyped, EditTyped
  <1>3. ASSUME Delegated PROVE Delegated'
    <2>1. AllGiven(r.perms)
      <3>1. ASSUME NEW p \in r.perms PROVE \E b \in members : p \in catalog[b.role]
        BY DEF HoldsAll, PermissionsForUser
      <3> QED BY <1>3, <3>1 DEF Delegated, AllGiven
    <2> QED BY <1>1, <1>3, <2>1 DEF Delegated, AllGiven
  <1> QED BY <1>2, <1>3 DEF RolesInv

LEMMA RolesStep ==
  ASSUME RolesInv, [NextRoles]_roleVars
  PROVE  RolesInv'
  <1>t. /\ catalog \in [RoleIds -> SUBSET Perms] /\ members \subseteq Membership
        /\ DOMAIN edits = Editors /\ \A w \in Editors : EditTyped(edits[w])
    BY DEF RolesInv, RolesTyped
  <1>f. ASSUME UNCHANGED <<catalog, members, edits, authorised, crossed>> PROVE RolesInv'
    BY <1>f, <1>t, RolesFrame
  <1>c. ASSUME NEW r \in RoleIds, catalog' = [catalog EXCEPT ![r] = {}]
        PROVE  /\ catalog' \in [RoleIds -> SUBSET Perms]
               /\ \A q \in RoleIds : catalog'[q] \subseteq catalog[q]
    BY <1>c, <1>t, SMT
  <1>b. \A b \in Membership : b.role \in RoleIds
    BY DEF Membership
  <1>1. CASE UNCHANGED roleVars
    BY <1>1, <1>f DEF roleVars
  <1>2. ASSUME NEW r \in RoleIds, CreateRole(r) PROVE RolesInv'
    <2>1. /\ catalog' = [catalog EXCEPT ![r] = {}]
          /\ UNCHANGED <<members, edits, authorised, crossed>>
      BY <1>2 DEF CreateRole, Request
    <2>2. \A b \in members : catalog'[b.role] \subseteq catalog[b.role]
      BY <1>b, <1>c, <1>t, <2>1
    <2> QED BY <1>c, <1>t, <2>1, <2>2, RolesFrame
  <1>3. ASSUME NEW r \in RoleIds, DeleteRole(r) PROVE RolesInv'
    <2>1. /\ catalog' = [catalog EXCEPT ![r] = {}] /\ members' \subseteq members
          /\ UNCHANGED <<edits, authorised, crossed>>
      BY <1>3 DEF DeleteRole, Request
    <2>2. \A b \in members : catalog'[b.role] \subseteq catalog[b.role]
      BY <1>b, <1>c, <1>t, <2>1
    <2> QED BY <1>c, <1>t, <2>1, <2>2, RolesFrame
  <1>g. ASSUME UNCHANGED <<edits, crossed>>, catalog' \in [RoleIds -> SUBSET Perms],
               members' \subseteq Membership,
               authorised' = authorised \cup Holdings(catalog', members')
        PROVE  RolesInv'
    <2>1. RolesTyped'
      BY <1>g, <1>t DEF RolesTyped, EditTyped
    <2>2. \A b \in members' : AllGiven(catalog[b.role])'
      BY <1>g, GivenToMembers
    <2>3. Delegated => Delegated'
      BY <1>g, <2>2, GivenStays DEF Delegated
    <2> QED BY <1>g, <2>1, <2>3 DEF RolesInv
  <1>4. ASSUME NEW r \in RoleIds, NEW S \in SUBSET Perms, SetRolePermissions(r, S) PROVE RolesInv'
    <2>1. /\ catalog' = [catalog EXCEPT ![r] = S] /\ UNCHANGED <<members, edits, crossed>>
          /\ authorised' = authorised \cup Holdings(catalog', members)
      BY <1>4 DEF SetRolePermissions, ReplacePermissions, Request
    <2>2. catalog' \in [RoleIds -> SUBSET Perms]
      BY <1>t, <2>1, SMT
    <2> QED BY <1>g, <1>t, <2>1, <2>2
  <1>5. ASSUME NEW r \in RoleIds, NEW u \in Holders, NEW s \in Everywhere, AddRoleMember(r, u, s)
        PROVE  RolesInv'
    <2>1. /\ members' = members \cup {[role |-> r, user |-> u, scope |-> s]}
          /\ UNCHANGED <<catalog, edits, crossed>>
          /\ authorised' = authorised \cup Holdings(catalog, members')
      BY <1>5 DEF AddRoleMember, Request
    <2>2. [role |-> r, user |-> u, scope |-> s] \in Membership
      BY DEF Membership
    <2> QED BY <1>g, <1>t, <2>1, <2>2
  <1>6. ASSUME NEW b \in members, RemoveRoleMember(b) PROVE RolesInv'
    BY <1>6, <1>t, RolesFrame DEF RemoveRoleMember, Request
  <1>7. ASSUME NEW w \in Editors, SetPermissions(w) PROVE RolesInv'
    <2>1. PICK r : r = edits[w]
      OBVIOUS
    <2>2. /\ r.op = "set" /\ catalog' = [catalog EXCEPT ![r.role] = r.perms]
          /\ edits' = [edits EXCEPT ![w] = NoEdit] /\ UNCHANGED <<members, authorised, crossed>>
      BY <1>7, <2>1 DEF SetPermissions, ReplacePermissions, Goto
    <2>3. r.role \in RoleIds /\ r.perms \subseteq Perms
      BY <1>t, <2>1, <2>2 DEF EditTyped
    <2>4. catalog' \in [RoleIds -> SUBSET Perms]
      BY <1>t, <2>2, <2>3, SMT
    <2>5. \A q \in RoleIds : catalog'[q] = catalog[q] \/ catalog'[q] = r.perms
      BY <1>t, <2>2, <2>3
    <2>6. DOMAIN edits' = Editors /\ \A v \in Editors : edits'[v] = edits[v] \/ edits'[v] = NoEdit
      BY <1>t, <2>2
    <2>7. EditTyped(NoEdit) /\ NoEdit.op \notin {"set", "assign"}
      BY SMT DEF EditTyped, NoEdit
    <2>8. RolesTyped'
      BY <1>t, <2>2, <2>4, <2>6, <2>7 DEF RolesTyped, EditTyped
    <2>9. ASSUME Delegated PROVE Delegated'
      <3>1. AllGiven(r.perms)
        BY <2>1, <2>2, <2>9 DEF Delegated
      <3>2. ASSUME NEW b \in members PROVE AllGiven(catalog[b.role])'
        BY <1>b, <1>t, <2>2, <2>5, <2>9, <3>1 DEF Delegated, AllGiven
      <3>3. ASSUME NEW v \in Editors, edits'[v].op \in {"set", "assign"} PROVE AllGiven(edits[v].perms)'
        <4>1. edits'[v] = edits[v]
          BY <2>6, <2>7, <3>3
        <4> QED BY <2>2, <2>9, <3>3, <4>1 DEF Delegated, AllGiven
      <3> QED BY <2>2, <3>2, <3>3 DEF Delegated
    <2> QED BY <2>2, <2>8, <2>9 DEF RolesInv
  <1>8. ASSUME NEW w \in Editors, Assign(w) PROVE RolesInv'
    <2>1. PICK r : r = edits[w]
      OBVIOUS
    <2>2. /\ r.op = "assign" /\ members' = members \cup {r.row}
          /\ crossed' = (crossed \/ ~ (catalog[r.row.role] \subseteq r.perms))
          /\ edits' = [edits EXCEPT ![w] = NoEdit] /\ UNCHANGED <<catalog, authorised>>
      BY <1>8, <2>1 DEF Assign, Goto
    <2>3. r.row \in Membership
      BY <1>t, <2>1, <2>2 DEF EditTyped
    <2>4. DOMAIN edits' = Editors /\ \A v \in Editors : edits'[v] = edits[v] \/ edits'[v] = NoEdit
      BY <1>t, <2>2
    <2>5. EditTyped(NoEdit) /\ NoEdit.op \notin {"set", "assign"}
      BY SMT DEF EditTyped, NoEdit
    <2>6. RolesTyped'
      BY <1>t, <2>2, <2>3, <2>4, <2>5 DEF RolesTyped, EditTyped
    <2>7. ASSUME Delegated, catalog[r.row.role] \subseteq r.perms PROVE Delegated'
      <3>1. AllGiven(r.perms)
        BY <2>1, <2>2, <2>7 DEF Delegated
      <3>2. AllGiven(catalog[r.row.role])
        BY <2>7, <3>1 DEF AllGiven
      <3>3. ASSUME NEW b \in members' PROVE AllGiven(catalog[b.role])'
        BY <2>2, <2>7, <3>2 DEF Delegated, AllGiven
      <3>4. ASSUME NEW v \in Editors, edits'[v].op \in {"set", "assign"} PROVE AllGiven(edits[v].perms)'
        <4>1. edits'[v] = edits[v]
          BY <2>4, <2>5, <3>4
        <4> QED BY <2>2, <2>7, <3>4, <4>1 DEF Delegated, AllGiven
      <3> QED BY <3>3, <3>4 DEF Delegated
    <2> QED BY <2>2, <2>6, <2>7 DEF RolesInv
  <1>9. ASSUME NEW w \in Editors, Refuse(w) PROVE RolesInv'
    <2>1. edits' = [edits EXCEPT ![w] = NoEdit] /\ UNCHANGED <<catalog, members, authorised, crossed>>
      BY <1>9 DEF Refuse, Goto
    <2>2. DOMAIN edits' = Editors /\ \A v \in Editors : edits'[v] = edits[v] \/ edits'[v] = NoEdit
      BY <1>t, <2>1
    <2> QED BY <1>t, <2>1, <2>2, RolesFrame
  <1>10. ASSUME NEW w \in Editors, NEW u \in Holders, NEW r \in RoleIds, NEW S \in SUBSET Perms,
                checkSetPermissionsAllowed(w, u, r, S)
         PROVE  RolesInv'
    <2>1. PICK e : e = [op |-> "set", role |-> r, perms |-> S]
      OBVIOUS
    <2>2. e.op = "set" /\ e.op # "assign" /\ e.role = r /\ e.perms = S
      BY <2>1, SMT
    <2>3. /\ HoldsAll(u, e.perms) /\ edits' = [edits EXCEPT ![w] = e]
          /\ UNCHANGED <<catalog, members, authorised, crossed>>
      BY <1>10, <2>1, <2>2 DEF checkSetPermissionsAllowed, Start
    <2>4. EditTyped(e)
      BY <2>2 DEF EditTyped
    <2> QED BY <2>3, <2>4, RolesChecked
  <1>11. ASSUME NEW w \in Editors, NEW u \in Holders, NEW r \in RoleIds, NEW v \in Holders,
                NEW s \in Everywhere, checkAssignAllowed(w, u, r, v, s)
         PROVE  RolesInv'
    <2>1. PICK e : e = [op |-> "assign", perms |-> catalog[r],
                        row |-> [role |-> r, user |-> v, scope |-> s]]
      OBVIOUS
    <2>2. /\ e.op = "assign" /\ e.op # "set" /\ e.perms = catalog[r]
          /\ e.row = [role |-> r, user |-> v, scope |-> s]
      BY <2>1, SMT
    <2>3. /\ HoldsAll(u, e.perms) /\ edits' = [edits EXCEPT ![w] = e]
          /\ UNCHANGED <<catalog, members, authorised, crossed>>
      BY <1>11, <2>1, <2>2 DEF checkAssignAllowed, Start
    <2>4. e.row \in Membership /\ e.perms \subseteq Perms
      BY <1>t, <2>2, SMT DEF Membership
    <2>5. EditTyped(e)
      BY <2>2, <2>4 DEF EditTyped
    <2> QED BY <2>3, <2>5, RolesChecked
  <1>12. ASSUME NEW pod \in Pods, EngineStep(pod) PROVE RolesInv'
    <2>1. UNCHANGED <<catalog, members, edits, authorised, crossed>>
      BY <1>12 DEF EngineStep, resync, casbinResyncSubscriber, runCasbinReconcile, ReplacePolicies
    <2> QED BY <1>f, <2>1
  <1>13. CASE CatalogStep
    BY <1>2, <1>3, <1>4, <1>13 DEF CatalogStep
  <1>14. CASE DelegationNext
    BY <1>5, <1>6, <1>7, <1>8, <1>9, <1>10, <1>11, <1>13, <1>14 DEF DelegationNext
  <1>15. CASE EngineNext
    BY <1>12, <1>13, <1>15 DEF EngineNext
  <1> QED BY <1>1, <1>14, <1>15 DEF NextRoles

(***************************************************************************)
(* No chain of delegated edits puts a permission into anybody's hands that *)
(* a super administrator had not given to somebody, unless a role grew     *)
(* between the check of an assignment and its insert                       *)
(* (checkSetPermissionsAllowed, checkAssignAllowed): for every catalog,    *)
(* every set of scopes and any number of administrators at work at once.   *)
(***************************************************************************)
THEOREM DelegationTheorem == SpecRoles => []DelegationClosed
  <1>1. InitRoles => RolesInv
    <2> SUFFICES ASSUME InitRoles PROVE RolesInv
      OBVIOUS
    <2>1. PICK u \in Holders, r \in RoleIds, s \in Everywhere :
              members = {[role |-> r, user |-> u, scope |-> s]}
      BY DEF InitRoles
    <2>2. members \subseteq Membership
      <3>1. [role |-> r, user |-> u, scope |-> s] \in Membership
        BY DEF Membership
      <3> QED BY <2>1, <3>1, SMT
    <2>3. catalog \in [RoleIds -> SUBSET Perms] /\ edits = [w \in Editors |-> NoEdit]
      BY DEF InitRoles
    <2>4. DOMAIN edits = Editors /\ \A w \in Editors : edits[w] = NoEdit
      BY <2>3
    <2>5. EditTyped(NoEdit) /\ NoEdit.op \notin {"set", "assign"}
      BY SMT DEF EditTyped, NoEdit
    <2>6. RolesTyped
      BY <2>2, <2>3, <2>4, <2>5 DEF RolesTyped
    <2>7. ASSUME NEW b \in members PROVE AllGiven(catalog[b.role])
      <3>1. b.scope \in Everywhere
        BY <2>2 DEF Membership
      <3>2. \A p \in catalog[b.role] : <<p, b.scope>> \in authorised
        BY SMT DEF InitRoles
      <3> QED BY <3>1, <3>2 DEF AllGiven
    <2> QED BY <2>4, <2>5, <2>6, <2>7 DEF RolesInv, Delegated
  <1>2. RolesInv /\ [NextRoles]_roleVars => RolesInv'
    BY RolesStep
  <1>3. RolesInv => DelegationClosed
    <2> SUFFICES ASSUME Delegated PROVE DelegationClosed
      BY DEF RolesInv, DelegationClosed
    <2>1. ASSUME NEW h \in Holdings(catalog, members)
          PROVE  \E s \in Everywhere : <<h[1], s>> \in authorised
      <3>1. PICK b \in members : h \in {<<p, b.scope>> : p \in catalog[b.role]}
        BY DEF Holdings
      <3>2. PICK p \in catalog[b.role] : h = <<p, b.scope>>
        BY <3>1
      <3>3. h[1] = p
        BY <3>2
      <3> QED BY <3>2, <3>3 DEF Delegated, AllGiven
    <2> QED BY <2>1 DEF DelegationClosed
  <1> QED BY <1>1, <1>2, <1>3, PTL DEF SpecRoles
===============================================================================
