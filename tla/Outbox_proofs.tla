---------------------------- MODULE Outbox_proofs ---------------------------
(***************************************************************************)
(* Proofs about the outbox for any messages, workers, attempts, backoff    *)
(* and faults.  That a message marked done was delivered needs nothing     *)
(* else; that claims are exclusive and settled messages stay settled needs *)
(* batches to be finished within the lease.                                *)
(***************************************************************************)
EXTENDS Outbox, TLAPS

USE OutboxAssumption

Labels == {"idle", "dispatch", "done", "fail"}

WorkerType ==
    [pc : Labels, batch : SUBSET Claims, cur : Claims \cup {None}, held : Nat]

\* A message is about to be marked done only when its handler has succeeded.
DeliveredInv ==
    /\ DoneIsDelivered
    /\ \A w \in Workers : worker[w].pc = "done" => worker[w].cur.msg \in delivered

\* A claim is exclusive and as the worker read it, and its row cannot fall due
\* before the worker has to be finished.
HoldInv ==
    /\ ExclusiveClaim
    /\ \A w \in Workers : worker[w].held <= MaxHold
    /\ \A w \in Workers : \A c, d \in worker[w].batch : c.msg = d.msg => c = d
    /\ \A w \in Workers : \A c \in worker[w].batch :
          /\ row[c.msg].status = "pending"
          /\ row[c.msg].attempts = c.attempts
          /\ row[c.msg].wait + worker[w].held >= Lease

-----------------------------------------------------------------------------

(***************************************************************************)
(* What each step of the worker does to the claims, for every worker.      *)
(***************************************************************************)
LEMMA NextMessageEffect ==
  ASSUME TypeOK, NEW w \in Workers, NextMessage(w)
  PROVE  /\ worker' \in [Workers -> WorkerType]
         /\ \A v \in Workers : v # w => worker'[v] = worker[v]
         /\ worker'[w].batch = worker[w].batch \ {worker[w].cur}
         /\ worker'[w].pc \in {"idle", "dispatch"}
         /\ worker'[w].pc = "idle" <=> worker'[w].batch = {}
         /\ worker'[w].held \in {0, worker[w].held}
         /\ worker'[w].batch # {} => worker'[w].held = worker[w].held
<1> DEFINE r == worker[w].batch \ {worker[w].cur}
<1>1. worker \in [Workers -> WorkerType] /\ worker[w] \in WorkerType /\ r \in SUBSET Claims
  BY DEF TypeOK, WorkerType, Labels
<1>2. CASE r = {}
  <2>1. worker' = [worker EXCEPT ![w] = Idle]
    BY <1>2 DEF NextMessage, Rest
  <2> QED
    BY <1>1, <1>2, <2>1 DEF Idle, WorkerType, Labels
<1>3. CASE r # {}
  <2>1. worker' = [worker EXCEPT ![w] = [worker[w] EXCEPT !.pc = "dispatch", !.batch = r]]
    BY <1>3 DEF NextMessage, Rest
  <2> HIDE DEF r
  <2>2. worker'[w] = [worker[w] EXCEPT !.pc = "dispatch", !.batch = r]
    BY <1>1, <2>1
  <2>3. worker'[w] \in WorkerType /\ worker'[w].pc = "dispatch" /\ worker'[w].batch = r
        /\ worker'[w].held = worker[w].held
    BY <1>1, <2>2 DEF WorkerType, Labels
  <2>4. worker' \in [Workers -> WorkerType] /\ \A v \in Workers : v # w => worker'[v] = worker[v]
    BY <1>1, <2>1, <2>3
  <2> QED
    BY <1>3, <2>3, <2>4 DEF r
<1> QED
  BY <1>2, <1>3

(***************************************************************************)
(* Claim leases the rows and hands them to the worker.                     *)
(***************************************************************************)
LEMMA ClaimEffect ==
  ASSUME TypeOK, NEW w \in Workers, Claim(w)
  PROVE  \E ms \in SUBSET Due :
         /\ ms # {}
         /\ row' \in [Messages -> Row]
         /\ \A m \in Messages : m \notin ms => row'[m] = row[m]
         /\ \A m \in ms : /\ row'[m].status = "pending"
                          /\ row'[m].attempts = row[m].attempts + 1
                          /\ row'[m].wait = Lease
         /\ worker' \in [Workers -> WorkerType]
         /\ \A v \in Workers : v # w => worker'[v] = worker[v]
         /\ worker'[w].batch = {Claimed(m) : m \in ms}
         /\ worker'[w].pc = "dispatch" /\ worker'[w].held = 0
<1>1. PICK ms \in SUBSET Due :
        /\ ms # {}
        /\ row' = [m \in Messages |-> IF m \in ms THEN Leased(m) ELSE row[m]]
        /\ worker' = [worker EXCEPT ![w] =
              [pc |-> "dispatch", batch |-> {Claimed(m) : m \in ms}, cur |-> None, held |-> 0]]
  BY DEF Claim
<1>2. \A m \in ms : m \in Messages /\ row[m] \in Row /\ row[m].status = "pending"
  BY DEF Due, TypeOK
<1>3. \A m \in ms : /\ Leased(m) \in Row /\ Leased(m).status = "pending"
                    /\ Leased(m).attempts = row[m].attempts + 1 /\ Leased(m).wait = Lease
  <2> SUFFICES ASSUME NEW m \in ms
               PROVE  /\ Leased(m) \in Row /\ Leased(m).status = "pending"
                      /\ Leased(m).attempts = row[m].attempts + 1 /\ Leased(m).wait = Lease
    OBVIOUS
  <2>1. PICK x \in Row : x = row[m] /\ x.status = "pending"
    BY <1>2
  <2>2. PICK y : y = [x EXCEPT !.attempts = x.attempts + 1, !.wait = Lease]
    OBVIOUS
  <2>3. y.status = x.status /\ y.attempts = x.attempts + 1 /\ y.wait = Lease
    BY <2>2 DEF Row
  <2>4. y = [status |-> x.status, attempts |-> x.attempts + 1, wait |-> Lease]
    BY <2>2 DEF Row
  <2>5. x.attempts + 1 \in Nat /\ x.status \in {"absent", "pending", "done", "dead"}
    BY DEF Row
  <2>6. y \in Row
    BY <2>4, <2>5 DEF Row
  <2>7. Leased(m) = y
    BY <2>1, <2>2 DEF Leased
  <2> QED
    BY <2>1, <2>3, <2>6, <2>7
<1>4. \A m \in ms : Claimed(m) \in Claims
  BY <1>2 DEF Claimed, Claims, Row
<1>5. row' \in [Messages -> Row]
  BY <1>1, <1>3 DEF TypeOK
<1>6. [pc |-> "dispatch", batch |-> {Claimed(m) : m \in ms}, cur |-> None, held |-> 0] \in WorkerType
  BY <1>4 DEF WorkerType, Labels
<1>7. worker \in [Workers -> WorkerType]
  BY DEF TypeOK, WorkerType, Labels
<1> QED
  BY <1>1, <1>2, <1>3, <1>5, <1>6, <1>7

(***************************************************************************)
(* dispatch keeps the batch and picks the claim that is settled next.      *)
(***************************************************************************)
LEMMA dispatchEffect ==
  ASSUME TypeOK, NEW w \in Workers, dispatch(w)
  PROVE  /\ worker' \in [Workers -> WorkerType]
         /\ \A v \in Workers : v # w => worker'[v] = worker[v]
         /\ worker'[w].batch = worker[w].batch /\ worker'[w].held = worker[w].held
         /\ worker'[w].pc \in {"done", "fail"} /\ worker'[w].cur \in worker'[w].batch
         /\ worker'[w].pc = "done" => worker'[w].cur.msg \in delivered'
         /\ delivered \subseteq delivered' /\ delivered' \subseteq Messages
         /\ row' = row /\ faults' = faults
<1>1. PICK c \in worker[w].batch :
         \/ delivered' = delivered \cup {c.msg} /\ (Settle(w, c, "done") \/ Settle(w, c, "fail"))
         \/ Settle(w, c, "fail") /\ delivered' = delivered
  BY DEF dispatch
<1>2. worker \in [Workers -> WorkerType] /\ worker[w] \in WorkerType /\ c \in Claims
  BY DEF TypeOK, WorkerType, Labels
<1>3. PICK l \in {"done", "fail"} :
         /\ worker' = [worker EXCEPT ![w].pc = l, ![w].cur = c]
         /\ l = "done" => delivered' = delivered \cup {c.msg}
  BY <1>1 DEF Settle
<1>4. worker'[w] \in WorkerType /\ worker'[w].pc = l /\ worker'[w].cur = c
      /\ worker'[w].batch = worker[w].batch /\ worker'[w].held = worker[w].held
  BY <1>2, <1>3 DEF WorkerType, Labels
<1>5. worker' \in [Workers -> WorkerType] /\ \A v \in Workers : v # w => worker'[v] = worker[v]
  BY <1>2, <1>3, <1>4
<1>6. delivered \subseteq delivered' /\ delivered' \subseteq Messages
  BY <1>1, <1>2 DEF TypeOK, Claims
<1> QED
  BY <1>3, <1>4, <1>5, <1>6 DEF dispatch

(***************************************************************************)
(* MarkDone and Fail settle the row at hand and drop the claim.            *)
(***************************************************************************)
LEMMA SettleEffect ==
  ASSUME TypeOK, NEW w \in Workers, MarkDone(w) \/ Fail(w)
  PROVE  LET m == worker[w].cur.msg IN
         /\ NextMessage(w)
         /\ worker[w].cur \in worker[w].batch /\ m \in Messages
         /\ row' \in [Messages -> Row]
         /\ \A n \in Messages : n # m => row'[n] = row[n]
         /\ row'[m].attempts = row[m].attempts
         /\ row'[m].status \in {row[m].status, "done", "dead"}
         /\ row'[m].status = "done" => row[m].status = "done" \/ worker[w].pc = "done"
         /\ row'[m].status = "dead" =>
               row[m].status = "dead" \/ worker[w].cur.attempts >= MaxAttempts
         /\ faults' \in 0..MaxFaults /\ delivered' = delivered
<1> DEFINE c == worker[w].cur
           m == c.msg
<1>1. c \in worker[w].batch /\ c \in Claims /\ m \in Messages /\ c.attempts \in Nat
  BY DEF TypeOK, Claims, MarkDone, Fail
<1>2. row[m] \in Row /\ row \in [Messages -> Row]
  BY <1>1 DEF TypeOK
<1>3. NextMessage(w) /\ delivered' = delivered /\ faults' \in 0..MaxFaults
  BY DEF MarkDone, Fail, Fault, TypeOK
<1> HIDE DEF c, m
<1>4. CASE row' = row
  BY <1>1, <1>2, <1>3, <1>4 DEF c, m
<1>5. CASE worker[w].pc = "done" /\ row' = [row EXCEPT ![m].status = "done"]
  <2>1. row'[m] \in Row /\ row'[m].status = "done" /\ row'[m].attempts = row[m].attempts
    BY <1>1, <1>2, <1>5 DEF Row
  <2>2. row' \in [Messages -> Row] /\ \A n \in Messages : n # m => row'[n] = row[n]
    BY <1>2, <1>5, <2>1
  <2> QED
    BY <1>1, <1>3, <1>5, <2>1, <2>2 DEF c, m
<1>6. CASE c.attempts >= MaxAttempts /\ row' = [row EXCEPT ![m].status = "dead"]
  <2>1. row'[m] \in Row /\ row'[m].status = "dead" /\ row'[m].attempts = row[m].attempts
    BY <1>1, <1>2, <1>6 DEF Row
  <2>2. row' \in [Messages -> Row] /\ \A n \in Messages : n # m => row'[n] = row[n]
    BY <1>2, <1>6, <2>1
  <2> QED
    BY <1>1, <1>3, <1>6, <2>1, <2>2 DEF c, m
<1>7. CASE row' = [row EXCEPT ![m].wait = backoff(c.attempts)]
  <2>1. backoff(c.attempts) \in Nat
    BY DEF backoff
  <2>2. row'[m] \in Row /\ row'[m].status = row[m].status /\ row'[m].attempts = row[m].attempts
    BY <1>1, <1>2, <1>7, <2>1 DEF Row
  <2>3. row' \in [Messages -> Row] /\ \A n \in Messages : n # m => row'[n] = row[n]
    BY <1>2, <1>7, <2>2
  <2> QED
    BY <1>1, <1>3, <1>7, <2>2, <2>3 DEF c, m
<1> QED
  BY <1>4, <1>5, <1>6, <1>7 DEF MarkDone, Fail, exhausted, c, m

(***************************************************************************)
(* Tick lets waits run down and batches age.                               *)
(***************************************************************************)
LEMMA TickEffect ==
  ASSUME TypeOK, Tick
  PROVE  /\ row' \in [Messages -> Row]
         /\ \A m \in Messages : /\ row'[m].status = row[m].status
                                /\ row'[m].attempts = row[m].attempts
                                /\ row'[m].wait = IF row[m].wait > 0 THEN row[m].wait - 1 ELSE 0
         /\ worker' \in [Workers -> WorkerType]
         /\ \A w \in Workers : /\ worker'[w].pc = worker[w].pc
                               /\ worker'[w].batch = worker[w].batch
                               /\ worker'[w].cur = worker[w].cur
                               /\ worker[w].pc # "idle" => /\ worker'[w].held = worker[w].held + 1
                                                           /\ worker[w].held < MaxHold
                               /\ worker[w].pc = "idle" => worker'[w].held = worker[w].held
<1>1. row \in [Messages -> Row] /\ worker \in [Workers -> WorkerType]
  BY DEF TypeOK, WorkerType, Labels
<1>2. \A m \in Messages : row'[m] = IF row[m].wait > 0 THEN [row[m] EXCEPT !.wait = row[m].wait - 1]
                                    ELSE row[m]
  BY DEF Tick
<1>3. \A m \in Messages : /\ row'[m] \in Row
                          /\ row'[m].status = row[m].status
                          /\ row'[m].attempts = row[m].attempts
                          /\ row'[m].wait = IF row[m].wait > 0 THEN row[m].wait - 1 ELSE 0
  <2> SUFFICES ASSUME NEW m \in Messages
               PROVE  /\ row'[m] \in Row
                      /\ row'[m].status = row[m].status
                      /\ row'[m].attempts = row[m].attempts
                      /\ row'[m].wait = IF row[m].wait > 0 THEN row[m].wait - 1 ELSE 0
    OBVIOUS
  <2>1. PICK x \in Row : x = row[m]
    BY <1>1
  <2>2. CASE x.wait > 0
    <3>1. row'[m] = [x EXCEPT !.wait = x.wait - 1]
      BY <1>2, <2>1, <2>2
    <3> QED
      BY <2>1, <2>2, <3>1 DEF Row
  <2>3. CASE ~ (x.wait > 0)
    <3>1. row'[m] = x
      BY <1>2, <2>1, <2>3
    <3>2. x.wait = 0
      BY <2>3 DEF Row
    <3> QED
      BY <2>1, <3>1, <3>2
  <2> QED
    BY <2>2, <2>3
<1>4. \A w \in Workers : worker'[w] = IF worker[w].pc # "idle"
                                      THEN [worker[w] EXCEPT !.held = worker[w].held + 1]
                                      ELSE worker[w]
  BY DEF Tick
<1>5. \A w \in Workers : /\ worker'[w] \in WorkerType
                         /\ worker'[w].pc = worker[w].pc
                         /\ worker'[w].batch = worker[w].batch
                         /\ worker'[w].cur = worker[w].cur
                         /\ worker[w].pc # "idle" => worker'[w].held = worker[w].held + 1
                         /\ worker[w].pc = "idle" => worker'[w].held = worker[w].held
  <2> SUFFICES ASSUME NEW w \in Workers
               PROVE  /\ worker'[w] \in WorkerType
                      /\ worker'[w].pc = worker[w].pc
                      /\ worker'[w].batch = worker[w].batch
                      /\ worker'[w].cur = worker[w].cur
                      /\ worker[w].pc # "idle" => worker'[w].held = worker[w].held + 1
                      /\ worker[w].pc = "idle" => worker'[w].held = worker[w].held
    OBVIOUS
  <2>1. PICK x \in WorkerType : x = worker[w]
    BY <1>1
  <2>2. CASE x.pc # "idle"
    <3>1. worker'[w] = [x EXCEPT !.held = x.held + 1]
      BY <1>4, <2>1, <2>2
    <3> QED
      BY <2>1, <2>2, <3>1 DEF WorkerType
  <2>3. CASE x.pc = "idle"
    BY <1>4, <2>1, <2>3
  <2> QED
    BY <2>2, <2>3
<1>6. row' \in [Messages -> Row] /\ worker' \in [Workers -> WorkerType]
  BY <1>3, <1>5 DEF Tick
<1> QED
  BY <1>3, <1>5, <1>6 DEF Tick

(***************************************************************************)
(* Every operation keeps the types of the table and of the workers.        *)
(***************************************************************************)
LEMMA NextType == TypeOK /\ [Next]_vars => TypeOK'
<1> SUFFICES ASSUME TypeOK, [Next]_vars PROVE TypeOK'
  OBVIOUS
<1>0. worker \in [Workers -> WorkerType] /\ row \in [Messages -> Row]
      /\ \A w \in Workers : \A c \in worker[w].batch : c.msg \in Messages
  BY DEF TypeOK, WorkerType, Labels, Claims
<1>1. ASSUME NEW m \in Messages, EnqueueTx(m) PROVE TypeOK'
  <2>1. row' \in [Messages -> Row] /\ \A n \in Messages : row[n].status # "absent" => row'[n] = row[n]
    BY <1>0, <1>1 DEF EnqueueTx, Row
  <2> QED
    BY <1>0, <1>1, <2>1 DEF EnqueueTx, TypeOK
<1>2. ASSUME NEW w \in Workers, Claim(w) PROVE TypeOK'
  <2>1. PICK ms \in SUBSET Due :
         /\ ms # {}
         /\ row' \in [Messages -> Row]
         /\ \A m \in Messages : m \notin ms => row'[m] = row[m]
         /\ \A m \in ms : row'[m].status = "pending"
         /\ worker' \in [Workers -> WorkerType]
         /\ \A v \in Workers : v # w => worker'[v] = worker[v]
         /\ worker'[w].batch = {Claimed(m) : m \in ms}
         /\ worker'[w].pc = "dispatch"
    BY <1>2, ClaimEffect
  <2>2. \A c \in worker'[w].batch : row'[c.msg].status # "absent"
    BY <2>1 DEF Claimed
  <2>3. \A m \in Messages : row[m].status # "absent" => row'[m].status # "absent"
    BY <2>1
  <2>4. \A v \in Workers : \A c \in worker'[v].batch : row'[c.msg].status # "absent"
    BY <1>0, <2>1, <2>2, <2>3 DEF TypeOK
  <2>5. worker'[w].batch # {}
    BY <2>1
  <2>6. \A v \in Workers : /\ worker'[v].pc = "idle" <=> worker'[v].batch = {}
                          /\ worker'[v].pc \in {"done", "fail"} => worker'[v].cur \in worker'[v].batch
    BY <2>1, <2>5 DEF TypeOK
  <2>7. delivered' = delivered /\ faults' = faults
    BY <1>2 DEF Claim
  <2> QED
    BY <2>1, <2>4, <2>6, <2>7 DEF TypeOK, WorkerType, Labels
<1>3. ASSUME NEW w \in Workers, dispatch(w) PROVE TypeOK'
  BY <1>0, <1>3, dispatchEffect DEF TypeOK, WorkerType, Labels, dispatch
<1>4. ASSUME NEW w \in Workers, MarkDone(w) \/ Fail(w) PROVE TypeOK'
  <2>1. \A n \in Messages : row[n].status # "absent" => row'[n].status # "absent"
    BY <1>4, SettleEffect
  <2>2. NextMessage(w) /\ row' \in [Messages -> Row] /\ delivered' = delivered /\ faults' \in 0..MaxFaults
    BY <1>4, SettleEffect
  <2>3. \A v \in Workers : worker'[v].batch \subseteq worker[v].batch
    BY <2>2, NextMessageEffect
  <2>4. \A v \in Workers : \A c \in worker'[v].batch : row'[c.msg].status # "absent"
    BY <1>0, <2>1, <2>3 DEF TypeOK
  <2> QED
    BY <2>2, <2>4, NextMessageEffect DEF TypeOK, WorkerType, Labels
<1>5. ASSUME NEW w \in Workers, Crash(w) PROVE TypeOK'
  <2>1. worker' \in [Workers -> WorkerType] /\ worker'[w] = Idle
        /\ \A v \in Workers : v # w => worker'[v] = worker[v]
    BY <1>0, <1>5 DEF Crash, Idle, WorkerType, Labels
  <2> QED
    BY <1>0, <1>5, <2>1 DEF Crash, Fault, TypeOK, Idle, WorkerType, Labels
<1>6. CASE Tick
  BY <1>0, <1>6, TickEffect DEF TypeOK, WorkerType, Labels, Tick
<1>7. CASE UNCHANGED vars
  BY <1>7 DEF vars, TypeOK
<1> QED
  BY <1>1, <1>2, <1>3, <1>4, <1>5, <1>6, <1>7 DEF Next, WorkerStep

(***************************************************************************)
(* The table is empty and the workers are idle at first.                   *)
(***************************************************************************)
LEMMA InitType == Init => TypeOK
BY DEF Init, TypeOK, Idle, Row

-----------------------------------------------------------------------------

(***************************************************************************)
(* At-least-once delivery needs no bound on how long a batch takes: a      *)
(* message is marked done only by a worker whose handler has performed it. *)
(***************************************************************************)
THEOREM DoneIsDeliveredTheorem == Spec => [](TypeOK /\ DoneIsDelivered)
<1>1. Init => DeliveredInv
  BY DEF Init, DeliveredInv, DoneIsDelivered, Idle
<1>2. TypeOK /\ DeliveredInv /\ [Next]_vars => DeliveredInv'
  <2> SUFFICES ASSUME TypeOK, DeliveredInv, [Next]_vars PROVE DeliveredInv'
    OBVIOUS
  <2> USE DEF DeliveredInv, DoneIsDelivered
  <2>1. ASSUME NEW m \in Messages, EnqueueTx(m) PROVE DeliveredInv'
    <3>1. \A n \in Messages : row'[n].status = "done" => row[n].status = "done"
      BY <2>1 DEF EnqueueTx, TypeOK, Row
    <3> QED
      BY <2>1, <3>1 DEF EnqueueTx
  <2>2. ASSUME NEW w \in Workers, Claim(w) PROVE DeliveredInv'
    <3>1. \A m \in Messages : row'[m].status = "done" => row[m].status = "done"
      BY <2>2, ClaimEffect
    <3>2. \A v \in Workers : worker'[v].pc = "done" => worker'[v] = worker[v]
      BY <2>2, ClaimEffect
    <3> QED
      BY <2>2, <3>1, <3>2 DEF Claim
  <2>3. ASSUME NEW w \in Workers, dispatch(w) PROVE DeliveredInv'
    BY <2>3, dispatchEffect
  <2>4. ASSUME NEW w \in Workers, MarkDone(w) \/ Fail(w) PROVE DeliveredInv'
    <3>1. \A m \in Messages : row'[m].status = "done" => m \in delivered
      BY <2>4, SettleEffect
    <3>2. delivered' = delivered /\ NextMessage(w)
      BY <2>4, SettleEffect
    <3>3. \A v \in Workers : worker'[v].pc = "done" => worker'[v] = worker[v]
      BY <3>2, NextMessageEffect
    <3> QED
      BY <3>1, <3>2, <3>3
  <2>5. ASSUME NEW w \in Workers, Crash(w) PROVE DeliveredInv'
    BY <2>5 DEF Crash, Idle, TypeOK
  <2>6. CASE Tick
    BY <2>6, TickEffect DEF Tick
  <2>7. CASE UNCHANGED vars
    BY <2>7 DEF vars
  <2> QED
    BY <2>1, <2>2, <2>3, <2>4, <2>5, <2>6, <2>7 DEF Next, WorkerStep
<1>3. TypeOK /\ DeliveredInv => TypeOK /\ DoneIsDelivered
  BY DEF DeliveredInv
<1> QED
  BY <1>1, <1>2, <1>3, InitType, NextType, PTL DEF Spec

-----------------------------------------------------------------------------

(***************************************************************************)
(* When a batch is finished within the lease, every step keeps the claims  *)
(* exclusive: a held row is pending, as it was read, and not due.          *)
(***************************************************************************)
LEMMA NextHold ==
  ASSUME MaxHold < Lease
  PROVE  TypeOK /\ HoldInv /\ [Next]_vars => HoldInv'
<1> SUFFICES ASSUME TypeOK, HoldInv, [Next]_vars PROVE HoldInv'
  OBVIOUS
<1>0. /\ worker \in [Workers -> WorkerType] /\ row \in [Messages -> Row]
      /\ \A w \in Workers : /\ worker[w].held \in Nat
                            /\ worker[w].pc = "idle" <=> worker[w].batch = {}
                            /\ \A c \in worker[w].batch : c \in Claims /\ c.msg \in Messages
  BY DEF TypeOK, WorkerType, Labels, Claims
<1>1. ASSUME NEW m \in Messages, EnqueueTx(m) PROVE HoldInv'
  <2>1. \A n \in Messages : row[n].status = "pending" => row'[n] = row[n]
    BY <1>0, <1>1 DEF EnqueueTx
  <2> QED
    BY <1>0, <1>1, <2>1 DEF EnqueueTx, HoldInv, ExclusiveClaim, Holds
<1>2. ASSUME NEW w \in Workers, Claim(w) PROVE HoldInv'
  <2>1. PICK ms \in SUBSET Due :
         /\ \A m \in Messages : m \notin ms => row'[m] = row[m]
         /\ \A m \in ms : /\ row'[m].status = "pending"
                          /\ row'[m].attempts = row[m].attempts + 1
                          /\ row'[m].wait = Lease
         /\ \A v \in Workers : v # w => worker'[v] = worker[v]
         /\ worker'[w].batch = {Claimed(m) : m \in ms}
         /\ worker'[w].held = 0
    BY <1>2, ClaimEffect
  <2>2. \A v \in Workers : \A c \in worker[v].batch : c.msg \notin Due
    BY <1>0, MaxHold < Lease DEF HoldInv, Due, Row
  <2>3. worker[w].batch = {}
    BY <1>0, <1>2 DEF Claim
  <2>4. \A c \in worker'[w].batch : c.msg \in ms /\ c = Claimed(c.msg)
    BY <2>1 DEF Claimed
  <2>5. \A v \in Workers \ {w} : \A c \in worker'[v].batch :
           c \in worker[v].batch /\ c.msg \in Messages /\ c.msg \notin ms /\ row'[c.msg] = row[c.msg]
    BY <1>0, <2>1, <2>2
  <2>6. ExclusiveClaim'
    BY <2>4, <2>5 DEF ExclusiveClaim, Holds, HoldInv
  <2>7. \A v \in Workers : worker'[v].held <= MaxHold
    BY <1>0, <2>1 DEF HoldInv
  <2>8. \A v \in Workers : \A c, d \in worker'[v].batch : c.msg = d.msg => c = d
    BY <2>1, <2>4 DEF HoldInv
  <2>9. \A c \in worker'[w].batch :
          /\ row'[c.msg].status = "pending"
          /\ row'[c.msg].attempts = c.attempts
          /\ row'[c.msg].wait + worker'[w].held >= Lease
    BY <2>1, <2>4 DEF Claimed
  <2>10. \A v \in Workers : \A c \in worker'[v].batch :
          /\ row'[c.msg].status = "pending"
          /\ row'[c.msg].attempts = c.attempts
          /\ row'[c.msg].wait + worker'[v].held >= Lease
    BY <2>1, <2>5, <2>9 DEF HoldInv
  <2> QED
    BY <2>6, <2>7, <2>8, <2>10 DEF HoldInv
<1>3. ASSUME NEW w \in Workers, dispatch(w) PROVE HoldInv'
  <2>1. row' = row /\ \A v \in Workers : /\ worker'[v].batch = worker[v].batch
                                         /\ worker'[v].held = worker[v].held
    BY <1>3, dispatchEffect
  <2> QED
    BY <2>1 DEF HoldInv, ExclusiveClaim, Holds
<1>4. ASSUME NEW w \in Workers, MarkDone(w) \/ Fail(w) PROVE HoldInv'
  <2> DEFINE c0 == worker[w].cur
  <2>1. c0 \in worker[w].batch /\ NextMessage(w)
        /\ \A n \in Messages : n # c0.msg => row'[n] = row[n]
    BY <1>4, SettleEffect
  <2>2. /\ \A v \in Workers : v # w => worker'[v] = worker[v]
        /\ worker'[w].batch = worker[w].batch \ {c0}
        /\ worker'[w].held \in {0, worker[w].held}
        /\ worker'[w].batch # {} => worker'[w].held = worker[w].held
    BY <2>1, NextMessageEffect
  <2> HIDE DEF c0
  <2>3. \A v \in Workers : worker'[v].batch \subseteq worker[v].batch
    BY <2>2
  <2>4. \A v \in Workers : \A c \in worker'[v].batch :
           /\ c \in worker[v].batch /\ c.msg \in Messages
           /\ c.msg # c0.msg /\ worker'[v].held = worker[v].held
    <3> SUFFICES ASSUME NEW v \in Workers, NEW c \in worker'[v].batch
                 PROVE  c.msg # c0.msg /\ worker'[v].held = worker[v].held
      BY <1>0, <2>3
    <3>1. CASE v = w
      BY <2>1, <2>2, <3>1 DEF HoldInv
    <3>2. CASE v # w
      <4>1. Holds(v, c.msg) /\ Holds(w, c0.msg)
        BY <2>1, <2>3 DEF Holds
      <4>2. c.msg # c0.msg
        BY <1>0, <2>1, <3>2, <4>1, <2>3 DEF HoldInv, ExclusiveClaim
      <4> QED
        BY <2>2, <3>2, <4>2
    <3> QED
      BY <3>1, <3>2
  <2>5. ExclusiveClaim'
    BY <2>3 DEF HoldInv, ExclusiveClaim, Holds
  <2>6. \A v \in Workers : worker'[v].held <= MaxHold
    BY <1>0, <2>2 DEF HoldInv
  <2>7. \A v \in Workers : \A c, d \in worker'[v].batch : c.msg = d.msg => c = d
    BY <2>3 DEF HoldInv
  <2> QED
    BY <2>1, <2>4, <2>5, <2>6, <2>7 DEF HoldInv
<1>5. ASSUME NEW w \in Workers, Crash(w) PROVE HoldInv'
  <2>1. row' = row /\ \A v \in Workers : worker'[v] = IF v = w THEN Idle ELSE worker[v]
    BY <1>0, <1>5 DEF Crash
  <2>2. \A v \in Workers : /\ worker'[v].held <= MaxHold
                           /\ \A c \in worker'[v].batch : worker'[v] = worker[v]
    BY <1>0, <2>1 DEF HoldInv, Idle
  <2> QED
    BY <1>0, <2>1, <2>2 DEF HoldInv, ExclusiveClaim, Holds
<1>6. CASE Tick
  <2>1. /\ \A m \in Messages : /\ row'[m].status = row[m].status
                               /\ row'[m].attempts = row[m].attempts
                               /\ row'[m].wait = IF row[m].wait > 0 THEN row[m].wait - 1 ELSE 0
        /\ \A w \in Workers : /\ worker'[w].batch = worker[w].batch
                              /\ worker[w].pc # "idle" => /\ worker'[w].held = worker[w].held + 1
                                                          /\ worker[w].held < MaxHold
                              /\ worker[w].pc = "idle" => worker'[w].held = worker[w].held
    BY <1>6, TickEffect
  <2>2. \A w \in Workers : worker'[w].held <= MaxHold
    BY <1>0, <2>1 DEF HoldInv
  <2>3. \A w \in Workers : \A c \in worker[w].batch :
           /\ row'[c.msg].status = "pending"
           /\ row'[c.msg].attempts = c.attempts
           /\ row'[c.msg].wait + worker'[w].held >= Lease
    <3> SUFFICES ASSUME NEW w \in Workers, NEW c \in worker[w].batch
                 PROVE  /\ row'[c.msg].status = "pending"
                        /\ row'[c.msg].attempts = c.attempts
                        /\ row'[c.msg].wait + worker'[w].held >= Lease
      OBVIOUS
    <3>1. c.msg \in Messages /\ row[c.msg].wait \in Nat /\ worker[w].pc # "idle"
      BY <1>0 DEF Row
    <3>2. row[c.msg].wait + worker[w].held >= Lease /\ worker[w].held < MaxHold
      BY <2>1, <3>1 DEF HoldInv
    <3>3. row'[c.msg].wait + worker'[w].held >= Lease
      BY <1>0, <2>1, <3>1, <3>2, MaxHold < Lease
    <3> QED
      BY <2>1, <3>1, <3>3 DEF HoldInv
  <2> QED
    BY <2>1, <2>2, <2>3 DEF HoldInv, ExclusiveClaim, Holds
<1>7. CASE UNCHANGED vars
  BY <1>7 DEF vars, HoldInv, ExclusiveClaim, Holds
<1> QED
  BY <1>1, <1>2, <1>3, <1>4, <1>5, <1>6, <1>7 DEF Next, WorkerStep

(***************************************************************************)
(* Nobody holds a claim at first.                                          *)
(***************************************************************************)
LEMMA InitHold == Init => HoldInv
BY DEF Init, HoldInv, ExclusiveClaim, Holds, Idle

(***************************************************************************)
(* A message is in the hands of one worker at a time as long as batches    *)
(* are finished within the lease.                                          *)
(***************************************************************************)
THEOREM ExclusiveClaimTheorem ==
  ASSUME MaxHold < Lease
  PROVE  Spec => []ExclusiveClaim
<1>1. HoldInv => ExclusiveClaim
  BY DEF HoldInv
<1> QED
  BY <1>1, InitType, NextType, InitHold, NextHold, PTL DEF Spec

(***************************************************************************)
(* Under the same bound no update by id overwrites a settled message, and  *)
(* a message is dead-lettered only when its attempts are used up.          *)
(***************************************************************************)
THEOREM SettledTheorem ==
  ASSUME MaxHold < Lease
  PROVE  Spec => SettledStays /\ []DeadIsExhausted
<1> DEFINE Keeps == \A m \in Messages :
                       row[m].status \in {"done", "dead"} => row'[m].status = row[m].status
<1>1. TypeOK /\ HoldInv /\ [Next]_vars => [Keeps]_vars
  <2> SUFFICES ASSUME TypeOK, HoldInv, Next, NEW m \in Messages, row[m].status \in {"done", "dead"}
               PROVE  row'[m].status = row[m].status
    OBVIOUS
  <2>1. ASSUME NEW n \in Messages, EnqueueTx(n) PROVE row'[m].status = row[m].status
    BY <2>1 DEF EnqueueTx, TypeOK, Row
  <2>2. ASSUME NEW w \in Workers, Claim(w) PROVE row'[m].status = row[m].status
    BY <2>2, ClaimEffect DEF Due
  <2>3. ASSUME NEW w \in Workers, dispatch(w) PROVE row'[m].status = row[m].status
    BY <2>3 DEF dispatch
  <2>4. ASSUME NEW w \in Workers, MarkDone(w) \/ Fail(w) PROVE row'[m].status = row[m].status
    <3>1. worker[w].cur \in worker[w].batch /\ (m # worker[w].cur.msg => row'[m] = row[m])
      BY <2>4, SettleEffect
    <3>2. m # worker[w].cur.msg
      BY <3>1 DEF HoldInv
    <3> QED
      BY <3>1, <3>2
  <2>5. ASSUME NEW w \in Workers, Crash(w) PROVE row'[m].status = row[m].status
    BY <2>5 DEF Crash
  <2>6. CASE Tick
    BY <2>6, TickEffect
  <2> QED
    BY <2>1, <2>2, <2>3, <2>4, <2>5, <2>6 DEF Next, WorkerStep
<1>2. Init => DeadIsExhausted
  BY DEF Init, DeadIsExhausted
<1>3. TypeOK /\ HoldInv /\ DeadIsExhausted /\ [Next]_vars => DeadIsExhausted'
  <2> SUFFICES ASSUME TypeOK, HoldInv, DeadIsExhausted, [Next]_vars,
                      NEW m \in Messages, row'[m].status = "dead"
               PROVE  row'[m].attempts >= MaxAttempts
    BY DEF DeadIsExhausted
  <2>1. ASSUME NEW n \in Messages, EnqueueTx(n) PROVE row'[m].attempts >= MaxAttempts
    BY <2>1 DEF EnqueueTx, TypeOK, Row, DeadIsExhausted
  <2>2. ASSUME NEW w \in Workers, Claim(w) PROVE row'[m].attempts >= MaxAttempts
    BY <2>2, ClaimEffect DEF DeadIsExhausted
  <2>3. ASSUME NEW w \in Workers, dispatch(w) PROVE row'[m].attempts >= MaxAttempts
    BY <2>3 DEF dispatch, DeadIsExhausted
  <2>4. ASSUME NEW w \in Workers, MarkDone(w) \/ Fail(w) PROVE row'[m].attempts >= MaxAttempts
    BY <2>4, SettleEffect DEF HoldInv, DeadIsExhausted
  <2>5. ASSUME NEW w \in Workers, Crash(w) PROVE row'[m].attempts >= MaxAttempts
    BY <2>5 DEF Crash, DeadIsExhausted
  <2>6. CASE Tick
    BY <2>6, TickEffect DEF DeadIsExhausted
  <2>7. CASE UNCHANGED vars
    BY <2>7 DEF vars, DeadIsExhausted
  <2> QED
    BY <2>1, <2>2, <2>3, <2>4, <2>5, <2>6, <2>7 DEF Next, WorkerStep
<1>4. Spec => [][Keeps]_vars /\ []DeadIsExhausted
  BY <1>1, <1>2, <1>3, InitType, NextType, InitHold, NextHold, PTL DEF Spec
<1> QED
  BY <1>4 DEF SettledStays
=============================================================================
