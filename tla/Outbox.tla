------------------------------- MODULE Outbox -------------------------------
(***************************************************************************)
(* The transactional outbox (internal/outbox): rows that a business        *)
(* transaction enqueues and that a worker on every replica claims,         *)
(* dispatches and settles.  Time is kept as what is left of each row's     *)
(* wait and as how long a worker has held its batch.                       *)
(***************************************************************************)
EXTENDS Integers, FiniteSets

CONSTANTS
    Messages,
    Workers,        \* one per replica
    Handled,        \* messages whose kind has a handler in this binary
    None,
    MaxAttempts,
    Batch,          \* rows claimed per tick
    Lease,          \* visibility timeout
    BaseBackoff, MaxBackoff,
    MaxHold,        \* bound: how long a worker takes over one batch
    MaxFaults       \* bound: crashes and failed settling statements

ASSUME OutboxAssumption ==
    /\ MaxAttempts \in Nat \ {0} /\ Batch \in Nat \ {0}
    /\ Lease \in Nat /\ BaseBackoff \in Nat \ {0} /\ MaxBackoff \in Nat
    /\ MaxHold \in Nat /\ MaxFaults \in Nat
    /\ Handled \subseteq Messages /\ IsFiniteSet(Messages)

VARIABLES
    row,            \* mxid_outbox: per message, absent until enqueued
    worker,         \* per worker: its label, the claims it has yet to settle,
                    \* the one at hand and their age
    delivered,      \* messages whose effect a handler has performed
    faults

vars == <<row, worker, delivered, faults>>

Row == [status : {"absent", "pending", "done", "dead"}, attempts : Nat, wait : Nat]

Idle == [pc |-> "idle", batch |-> {}, cur |-> None, held |-> 0]

Init ==
    /\ row = [m \in Messages |-> [status |-> "absent", attempts |-> 0, wait |-> 0]]
    /\ worker = [w \in Workers |-> Idle]
    /\ delivered = {}
    /\ faults = 0

Fault == faults < MaxFaults /\ faults' = faults + 1

Claims == [msg : Messages, attempts : Nat]

\* A message and the attempt number its worker read at the claim.
Claimed(m) == [msg |-> m, attempts |-> row[m].attempts + 1]

\* Enqueue, EnqueueTx: the row commits with the state change it accompanies.
EnqueueTx(m) ==
    /\ row[m].status = "absent"
    /\ row' = [row EXCEPT ![m].status = "pending"]
    /\ UNCHANGED <<worker, delivered, faults>>

\* Mutant: rows that have used up their attempts are not claimed again.
DueBelowLimit ==
    {m \in Messages : row[m].status = "pending" /\ row[m].wait = 0
                      /\ row[m].attempts < MaxAttempts}

Due == {m \in Messages : row[m].status = "pending" /\ row[m].wait = 0}

\* Mutant: claimed rows stay due.
Unleased(m) == [row[m] EXCEPT !.attempts = @ + 1]

Leased(m) == [row[m] EXCEPT !.attempts = @ + 1, !.wait = Lease]

\* Claim: one transaction over rows no other claim has locked; of the due rows
\* any may have the earliest next_attempt.
Claim(w) ==
    /\ worker[w].pc = "idle"
    /\ \E ms \in SUBSET Due :
          /\ Cardinality(ms) = IF Cardinality(Due) < Batch THEN Cardinality(Due) ELSE Batch
          /\ ms # {}
          /\ row' = [m \in Messages |-> IF m \in ms THEN Leased(m) ELSE row[m]]
          /\ worker' = [worker EXCEPT ![w] =
                [pc |-> "dispatch", batch |-> {Claimed(m) : m \in ms}, cur |-> None, held |-> 0]]
    /\ UNCHANGED <<delivered, faults>>

Settle(w, c, label) == worker' = [worker EXCEPT ![w].pc = label, ![w].cur = c]

\* Mutant: the message is settled before its handler has run.
dispatchEarly(w) ==
    /\ worker[w].pc = "dispatch"
    /\ \E c \in worker[w].batch : Settle(w, c, "done") \/ Settle(w, c, "fail")
    /\ UNCHANGED <<row, delivered, faults>>

\* dispatch: the handler of the batch's next message returns; the rows are in
\* the order of their next_attempt, which may be any.  A handler may fail with
\* its effect performed, as when an answer is lost; a message without a handler
\* fails at once.
dispatch(w) ==
    /\ worker[w].pc = "dispatch"
    /\ \E c \in worker[w].batch :
          \/ /\ c.msg \in Handled
             /\ delivered' = delivered \cup {c.msg}
             /\ Settle(w, c, "done") \/ Settle(w, c, "fail")
          \/ /\ Settle(w, c, "fail")
             /\ UNCHANGED delivered
    /\ UNCHANGED <<row, faults>>

Rest(w) == worker[w].batch \ {worker[w].cur}

\* The worker goes on with its batch.
NextMessage(w) ==
    worker' = [worker EXCEPT ![w] =
        IF Rest(w) = {} THEN Idle ELSE [@ EXCEPT !.pc = "dispatch", !.batch = Rest(w)]]

\* UPDATE ... WHERE id; a failure is only logged.
MarkDone(w) ==
    /\ worker[w].pc = "done"
    /\ \/ /\ row' = [row EXCEPT ![worker[w].cur.msg].status = "done"]
          /\ faults' = faults
       \/ Fault /\ row' = row
    /\ NextMessage(w)
    /\ UNCHANGED delivered

\* The loop of backoff, and its cap.
doubled[n \in Nat] ==
    IF n <= 1 THEN BaseBackoff
    ELSE IF doubled[n - 1] < MaxBackoff THEN 2 * doubled[n - 1] ELSE doubled[n - 1]

backoff(attempts) ==
    IF doubled[attempts] \in 0..MaxBackoff THEN doubled[attempts] ELSE MaxBackoff

exhausted(attempts) == attempts >= MaxAttempts

\* UPDATE ... WHERE id, by the attempt number read at the claim.
Fail(w) ==
    /\ worker[w].pc = "fail"
    /\ LET c == worker[w].cur IN
       \/ /\ row' = [row EXCEPT ![c.msg] =
                       IF exhausted(c.attempts) THEN [@ EXCEPT !.status = "dead"]
                       ELSE [@ EXCEPT !.wait = backoff(c.attempts)]]
          /\ faults' = faults
       \/ Fault /\ row' = row
    /\ NextMessage(w)
    /\ UNCHANGED delivered

\* The process dies: its rows reappear when the lease runs out.
Crash(w) ==
    /\ worker[w].pc # "idle"
    /\ Fault
    /\ worker' = [worker EXCEPT ![w] = Idle]
    /\ UNCHANGED <<row, delivered>>

Tick ==
    /\ \A w \in Workers : worker[w].pc # "idle" => worker[w].held < MaxHold
    /\ row' = [m \in Messages |->
                  IF row[m].wait > 0 THEN [row[m] EXCEPT !.wait = @ - 1] ELSE row[m]]
    /\ worker' = [w \in Workers |->
                  IF worker[w].pc # "idle" THEN [worker[w] EXCEPT !.held = @ + 1] ELSE worker[w]]
    /\ UNCHANGED <<delivered, faults>>

WorkerStep(w) == Claim(w) \/ dispatch(w) \/ MarkDone(w) \/ Fail(w)

Next ==
    \/ \E m \in Messages : EnqueueTx(m)
    \/ \E w \in Workers : WorkerStep(w) \/ Crash(w)
    \/ Tick

Spec == Init /\ [][Next]_vars

(***************************************************************************)
(* A worker's ticker fires and its handlers return; time passes.           *)
(***************************************************************************)
Fairness == WF_vars(Tick) /\ \A w \in Workers : WF_vars(WorkerStep(w))

FairSpec == Spec /\ Fairness

-----------------------------------------------------------------------------

Holds(w, m) == \E c \in worker[w].batch : c.msg = m

\* The types of the outbox table and of the workers' batches.
TypeOK ==
    /\ row \in [Messages -> Row]
    /\ worker \in [Workers -> [pc : {"idle", "dispatch", "done", "fail"},
                               batch : SUBSET Claims, cur : Claims \cup {None}, held : Nat]]
    /\ \A w \in Workers :
          /\ worker[w].pc = "idle" <=> worker[w].batch = {}
          /\ worker[w].pc \in {"done", "fail"} => worker[w].cur \in worker[w].batch
          /\ \A c \in worker[w].batch : row[c.msg].status # "absent"
    /\ delivered \subseteq Messages
    /\ faults \in 0..MaxFaults

(***************************************************************************)
(* A message is in the hands of one worker at a time, provided every batch *)
(* is dispatched within the lease: Claim pushes next_attempt out by the    *)
(* lease before its transaction commits.                                   *)
(***************************************************************************)
ExclusiveClaim ==
    \A v, w \in Workers, m \in Messages : Holds(v, m) /\ Holds(w, m) => v = w

(***************************************************************************)
(* At-least-once: a message is marked done only after its handler has      *)
(* performed its effect, whoever else claimed, failed or re-ran it.        *)
(***************************************************************************)
DoneIsDelivered ==
    \A m \in Messages : row[m].status = "done" => m \in delivered

(***************************************************************************)
(* A message is dead-lettered only once it has used up its attempts.       *)
(***************************************************************************)
DeadIsExhausted ==
    \A m \in Messages : row[m].status = "dead" => row[m].attempts >= MaxAttempts

(***************************************************************************)
(* A delivered message stays so: MarkDone and Fail update by id alone, and *)
(* no worker overwrites what another has settled.                          *)
(***************************************************************************)
SettledStays ==
    [][\A m \in Messages :
          row[m].status \in {"done", "dead"} => row'[m].status = row[m].status]_vars

(***************************************************************************)
(* Every enqueued message is eventually delivered or dead-lettered, through*)
(* crashes and failed updates: an expired lease puts it back in line.      *)
(***************************************************************************)
EventuallySettled ==
    \A m \in Messages : row[m].status = "pending" ~> row[m].status \in {"done", "dead"}
=============================================================================
