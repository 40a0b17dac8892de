--------------------------- MODULE Session_proofs ---------------------------
(***************************************************************************)
(* Proofs about sessions, for any sessions, concurrent requests, timeouts, *)
(* policies and revocations: no session outlives its timeouts, a revoked   *)
(* one stays gone unless an update crossed the revocation, every live one  *)
(* is listed, and a step-up time is one at which a factor was proven.      *)
(***************************************************************************)
EXTENDS Session, TLAPS

\* Most leaves are first-order; the ones that need more name their prover.
USE Zenon

USE SessionAssumption

-----------------------------------------------------------------------------
(* What a request is at, label by label.                                   *)

SaveLocals ==
    [pc : {"save"}, s : Sessions, start : Nat, op : {"none", "mark", "carry"}, at : Nat \cup {None}]
SAddLocals ==
    [pc : {"sadd"}, s : Sessions, start : Nat, op : {"none", "mark", "carry"}, at : Nat \cup {None},
     abs : Absolutes]
GetLocals ==
    [pc : {"get"}, s : Sessions, start : Nat, op : {"touch", "mark", "carry"}, at : Nat \cup {None}]
SetLocals ==
    [pc : {"set"}, s : Sessions, start : Nat, op : {"touch", "mark", "carry"}, value : Value]
ReapLocals == [pc : {"reap"}, s : Sessions, start : Nat]
ListLocals ==
    [pc : {"list", "listReap", "srem"}, s : Sessions \cup {None}, start : Nat,
     keep : Sessions \cup {None}, listed : SUBSET Sessions, todo : SUBSET Sessions,
     found : SUBSET Sessions, goal : SUBSET Sessions]

Locals ==
    {Free} \cup SaveLocals \cup SAddLocals \cup GetLocals \cup SetLocals \cup ReapLocals
    \cup ListLocals

\* No request takes longer than MaxFlight, and it knows a session that was created.
RequestOK(x) ==
    /\ x # Free => x.start <= now /\ now <= x.start + MaxFlight
    /\ x.pc \in {"sadd", "get", "set"} => x.s \in minted
    /\ x.pc \in {"list", "listReap", "srem"} => x.listed \subseteq minted /\ x.goal \subseteq minted

TypeInv ==
    /\ now \in Nat /\ now <= MaxTime
    /\ absolute \in Absolutes
    /\ store \in [Sessions -> Value \cup {None}]
    /\ index \in [ids : SUBSET Sessions, exp : Nat]
    /\ proc \in [Procs -> Locals]
    /\ minted \subseteq Sessions /\ ready \subseteq minted /\ index.ids \subseteq minted
    /\ proofs \subseteq Nat
    /\ used \in [Sessions -> Nat]
    /\ strayed \subseteq Sessions /\ killed \subseteq minted
    /\ kills \in Nat /\ kills <= MaxKills
    /\ \A s \in Sessions : store[s] # None => s \in minted
    /\ \A p \in Procs : RequestOK(proc[p])

-----------------------------------------------------------------------------
(* The timeouts.                                                           *)

CapInv == \A s \in Sessions : store[s] # None => now < store[s].expires

\* A touch stamps a session no later than MaxFlight after the request that carries it,
\* and updates write back a last use that they have read.
TouchOK(x) ==
    /\ x.pc = "get" /\ x.op = "touch" => x.start <= used[x.s]
    /\ x.pc = "set" => x.value.last <= used[x.s] + MaxFlight

UsedInv ==
    /\ \A s \in Sessions : used[s] <= now
    /\ \A s \in Sessions : store[s] # None => store[s].last <= used[s] + MaxFlight
    /\ \A p \in Procs : TouchOK(proc[p])

-----------------------------------------------------------------------------
(* Step-up times.                                                          *)

Proven(m) == \E t \in proofs : t <= m /\ m <= t + MaxFlight

ProofOK(x) ==
    /\ x.pc \in {"save", "sadd", "get"} /\ x.op = "mark" => x.start \in proofs
    /\ x.pc \in {"save", "sadd", "get"} /\ x.op = "carry" => x.at \in Nat /\ Proven(x.at)
    /\ x.pc = "set" /\ x.value.mfa # None => Proven(x.value.mfa)

ProofInv ==
    /\ \A s \in Sessions : store[s] # None /\ store[s].mfa # None => Proven(store[s].mfa)
    /\ \A p \in Procs : ProofOK(proc[p])

-----------------------------------------------------------------------------
(* Revocation.                                                             *)

\* The values of one session expire at one moment.
ExpiresAt(s, e) ==
    /\ store[s] # None => store[s].expires = e
    /\ \A q \in Procs : At(q, "set") /\ proc[q].s = s => proc[q].value.expires = e

\* Every value of a deleted session that may still be saved is marked as revived ...
Dead(s) ==
    /\ store[s] # None => store[s].revived
    /\ \A q \in Procs : At(q, "set") /\ proc[q].s = s =>
          proc[q].value.revived \/ proc[q].value.expires <= now

\* ... and no value of another one is.
Alive(s) ==
    /\ store[s] # None /\ ~ store[s].revived
    /\ \A q \in Procs : At(q, "set") /\ proc[q].s = s => ~ proc[q].value.revived

\* A revocation has dealt with a session, or is still to read it, or to delete it.
RevocationOK(x) ==
    x.pc \in {"list", "listReap", "srem"} =>
        /\ x.keep \notin x.goal /\ x.todo \subseteq x.listed
        /\ \A s \in x.listed \cup x.goal : Dead(s) \/ s \in x.todo \/ s \in x.found
        /\ x.pc \in {"listReap", "srem"} => x.s \in x.listed
        /\ x.pc = "srem" => Dead(x.s)

RevokeInv ==
    /\ \A s \in minted : \E e \in Nat : ExpiresAt(s, e)
    /\ \A s \in minted : Dead(s) \/ Alive(s)
    /\ \A s \in killed : Dead(s)
    /\ \A p \in Procs : RevocationOK(proc[p])
    /\ Listed

SessionInv == TypeInv /\ CapInv /\ UsedInv /\ ProofInv /\ RevokeInv

-----------------------------------------------------------------------------
(* Lemmas on the locals of requests.                                       *)

(***************************************************************************)
(* The label of a request tells which locals it has.                       *)
(***************************************************************************)
LEMMA LocalsByLabel ==
  ASSUME NEW x \in Locals
  PROVE  /\ x.pc = "free" <=> x = Free
         /\ x.pc = "save" => x \in SaveLocals
         /\ x.pc = "sadd" => x \in SAddLocals
         /\ x.pc = "get" => x \in GetLocals
         /\ x.pc = "set" => x \in SetLocals
         /\ x.pc = "reap" => x \in ReapLocals
         /\ x.pc \in {"list", "listReap", "srem"} => x \in ListLocals
         /\ x # Free => x.start \in Nat
BY SMT DEF Locals, Free, SaveLocals, SAddLocals, GetLocals, SetLocals, ReapLocals, ListLocals

(***************************************************************************)
(* A step of one request changes its locals and no others.                 *)
(***************************************************************************)
LEMMA GoEffect ==
  ASSUME TypeInv, NEW p \in Procs, NEW x \in Locals, Go(p, x)
  PROVE  /\ proc' \in [Procs -> Locals]
         /\ \A q \in Procs : proc'[q] = IF q = p THEN x ELSE proc[q]
BY DEF TypeInv, Go

(***************************************************************************)
(* A DEL removes the values and marks the copies that requests hold.       *)
(***************************************************************************)
LEMMA DelEffect ==
  ASSUME TypeInv, NEW p \in Procs, NEW ids, NEW x \in Locals, Del(p, ids, x)
  PROVE  /\ store' \in [Sessions -> Value \cup {None}]
         /\ \A s \in Sessions : store'[s] = IF s \in ids THEN None ELSE store[s]
         /\ proc' \in [Procs -> Locals]
         /\ proc'[p] = x
         /\ \A q \in Procs \ {p} :
              \/ proc'[q] = proc[q] /\ ~ (At(q, "set") /\ proc[q].s \in ids)
              \/ /\ At(q, "set") /\ proc[q].s \in ids
                 /\ proc[q] \in SetLocals /\ proc'[q] \in SetLocals
                 /\ proc'[q].s = proc[q].s /\ proc'[q].start = proc[q].start
                 /\ proc'[q].value.revived
                 /\ proc'[q].value.expires = proc[q].value.expires
                 /\ proc'[q].value.last = proc[q].value.last
                 /\ proc'[q].value.mfa = proc[q].value.mfa
<1>1. store' \in [Sessions -> Value \cup {None}]
      /\ \A s \in Sessions : store'[s] = IF s \in ids THEN None ELSE store[s]
  BY DEF TypeInv, Del
<1>2. ASSUME NEW y \in SetLocals, NEW z, z = [y EXCEPT !.value.revived = TRUE]
      PROVE  /\ z \in SetLocals /\ z.s = y.s /\ z.start = y.start
             /\ z.value.revived
             /\ z.value.expires = y.value.expires /\ z.value.last = y.value.last
             /\ z.value.mfa = y.value.mfa
  <2>1. y.value \in Value
    BY DEF SetLocals
  <2>2. PICK v : v = [y.value EXCEPT !.revived = TRUE]
    OBVIOUS
  <2>3. /\ v \in Value /\ v.revived /\ v.expires = y.value.expires
        /\ v.last = y.value.last /\ v.mfa = y.value.mfa
    BY <2>1, <2>2 DEF Value
  <2>4. z = [y EXCEPT !.value = v]
    BY <1>2, <2>2
  <2> QED
    BY <2>3, <2>4 DEF SetLocals
<1>3. \A q \in Procs : proc[q] \in Locals
  BY DEF TypeInv
<1>4. \A q \in Procs \ {p} :
        IF At(q, "set") /\ proc[q].s \in ids
        THEN proc[q] \in SetLocals /\ proc'[q] = [proc[q] EXCEPT !.value.revived = TRUE]
        ELSE proc'[q] = proc[q]
  BY <1>3, LocalsByLabel DEF Del, At
<1>5. proc'[p] = x
  BY DEF Del
<1>6. \A q \in Procs \ {p} :
        \/ proc'[q] = proc[q] /\ ~ (At(q, "set") /\ proc[q].s \in ids)
        \/ /\ At(q, "set") /\ proc[q].s \in ids
           /\ proc[q] \in SetLocals /\ proc'[q] \in SetLocals
           /\ proc'[q].s = proc[q].s /\ proc'[q].start = proc[q].start
           /\ proc'[q].value.revived
           /\ proc'[q].value.expires = proc[q].value.expires
           /\ proc'[q].value.last = proc[q].value.last
           /\ proc'[q].value.mfa = proc[q].value.mfa
  BY <1>2, <1>4, ZenonT(30)
<1>7. \A q \in Procs : proc'[q] \in Locals
  BY <1>3, <1>5, <1>6 DEF Locals
<1>8. proc' \in [Procs -> Locals]
  BY <1>7 DEF Del
<1> QED
  BY <1>1, <1>5, <1>6, <1>8

(***************************************************************************)
(* The requests stay well formed when one of them makes a step.            *)
(***************************************************************************)
LEMMA RequestsKept ==
  ASSUME TypeInv, NEW p \in Procs, NEW x \in Locals, UNCHANGED now, minted \subseteq minted',
         RequestOK(x)',
         Go(p, x) \/ \E ids : Del(p, ids, x)
  PROVE  proc' \in [Procs -> Locals] /\ \A q \in Procs : RequestOK(proc[q])'
<1>1. CASE Go(p, x)
  BY <1>1, GoEffect, SMT DEF TypeInv, RequestOK
<1>2. ASSUME NEW ids, Del(p, ids, x)
      PROVE  proc' \in [Procs -> Locals] /\ \A q \in Procs : RequestOK(proc[q])'
  <2>1. proc' \in [Procs -> Locals] /\ proc'[p] = x
    BY <1>2, DelEffect, SMT
  <2>2. ASSUME NEW q \in Procs, q # p PROVE RequestOK(proc[q])'
    <3>1. RequestOK(proc[q])
      BY DEF TypeInv
    <3>2. CASE proc'[q] = proc[q]
      BY <3>1, <3>2 DEF RequestOK
    <3>3. CASE /\ At(q, "set") /\ proc[q] \in SetLocals /\ proc'[q] \in SetLocals
               /\ proc'[q].s = proc[q].s /\ proc'[q].start = proc[q].start
      <4>1. proc[q] # Free /\ proc[q].pc = "set" /\ proc'[q].pc = "set"
        BY <3>3, SMT DEF Free, SetLocals
      <4> QED
        BY <3>1, <3>3, <4>1 DEF RequestOK
    <3> QED
      BY <1>2, <2>2, <3>2, <3>3, DelEffect, SMT
  <2> QED
    BY <2>1, <2>2
<1> QED
  BY <1>1, <1>2

(***************************************************************************)
(* Every step keeps the types, and requests within their time.             *)
(***************************************************************************)
LEMMA TypeStep ==
  ASSUME TypeInv, [Next]_vars
  PROVE  TypeInv'
<1> DEFINE Rest ==
      /\ now' = now /\ absolute' = absolute
      /\ store' \in [Sessions -> Value \cup {None}]
      /\ index' \in [ids : SUBSET Sessions, exp : Nat]
      /\ minted \subseteq minted' /\ minted' \subseteq Sessions
      /\ ready' \subseteq minted' /\ index'.ids \subseteq minted'
      /\ proofs' \subseteq Nat /\ used' \in [Sessions -> Nat]
      /\ strayed' \subseteq Sessions /\ killed' \subseteq minted'
      /\ kills' \in Nat /\ kills' <= MaxKills
      /\ \A s \in Sessions : store'[s] # None => s \in minted'
\* What a step of one request has to show.
<1>1. ASSUME NEW p \in Procs, NEW x \in Locals, Go(p, x) \/ \E ids : Del(p, ids, x),
             RequestOK(x)', Rest
      PROVE  TypeInv'
  <2>1. proc' \in [Procs -> Locals] /\ \A q \in Procs : RequestOK(proc[q])'
    BY <1>1, RequestsKept
  <2> QED
    BY <1>1, <2>1 DEF TypeInv
<1>2. Free \in Locals /\ RequestOK(Free)'
  BY DEF Locals, Free, RequestOK
<1>3. ASSUME NEW p \in Procs, NEW s \in Sessions, Login(p, s) PROVE TypeInv'
  <2>1. PICK op \in {"none", "mark"} :
          Go(p, [pc |-> "save", s |-> s, start |-> now, op |-> op, at |-> None])
    BY <1>3 DEF Login
  <2>2. PICK x : x = [pc |-> "save", s |-> s, start |-> now, op |-> op, at |-> None]
    OBVIOUS
  <2>3. x \in Locals
    BY <2>2 DEF TypeInv, Locals, SaveLocals
  <2>4. Rest
    BY <1>3 DEF Login, TypeInv
  <2>5. RequestOK(x)'
    BY <2>2, <2>4, SMT DEF RequestOK, TypeInv
  <2> QED
    BY <1>1, <2>1, <2>2, <2>3, <2>4, <2>5
<1>4. ASSUME NEW p \in Procs, NEW s \in Sessions, NEW src \in Sessions, ssoHandler(p, s, src)
      PROVE  TypeInv'
  <2>1. store[src] \in Value
    BY <1>4 DEF ssoHandler, Valid, TypeInv
  <2>2. PICK x : x = [pc |-> "save", s |-> s, start |-> now, at |-> store[src].mfa,
                      op |-> IF store[src].mfa = None THEN "none" ELSE "carry"]
    OBVIOUS
  <2>3. x \in Locals
    BY <2>1, <2>2 DEF TypeInv, Locals, SaveLocals, Value
  <2>4. Rest
    BY <1>4 DEF ssoHandler, TypeInv
  <2>5. RequestOK(x)'
    BY <2>2, <2>4, SMT DEF RequestOK, TypeInv
  <2> QED
    BY <1>1, <1>4, <2>2, <2>3, <2>4, <2>5 DEF ssoHandler
<1>5. ASSUME NEW p \in Procs, CreateSave(p) PROVE TypeInv'
  <2>1. proc[p] \in SaveLocals /\ absolute \in Nat
    BY <1>5, LocalsByLabel DEF CreateSave, At, TypeInv
  <2>2. PICK x : x = [pc |-> "sadd", s |-> proc[p].s, start |-> proc[p].start, at |-> proc[p].at,
                      op |-> proc[p].op, abs |-> absolute]
    OBVIOUS
  <2>3. x \in Locals
    BY <2>1, <2>2 DEF TypeInv, Locals, SaveLocals, SAddLocals
  <2>4. [expires |-> now + absolute, last |-> now, mfa |-> None, revived |-> FALSE] \in Value
    BY <2>1, SMT DEF Value, TypeInv
  <2>5. Rest
    BY <1>5, <2>1, <2>4 DEF CreateSave, TypeInv, SaveLocals
  <2>6. RequestOK(proc[p]) /\ proc[p] # Free
    BY <2>1, SMT DEF TypeInv, SaveLocals, Free
  <2>7. RequestOK(x)'
    BY <1>5, <2>2, <2>5, <2>6 DEF RequestOK, CreateSave
  <2> QED
    BY <1>1, <1>5, <2>2, <2>3, <2>5, <2>7 DEF CreateSave
<1>6. ASSUME NEW p \in Procs, CreateIndex(p) PROVE TypeInv'
  <2>1. proc[p] \in SAddLocals /\ RequestOK(proc[p]) /\ proc[p] # Free
    BY <1>6, LocalsByLabel DEF CreateIndex, At, TypeInv, Free
  <2>a. /\ index' = [ids |-> index.ids \cup {proc[p].s}, exp |-> now + proc[p].abs]
        /\ proc[p].s \in minted /\ proc[p].abs \in Nat
        /\ ready' = ready \cup {proc[p].s}
        /\ UNCHANGED <<now, absolute, store, minted, proofs, used, strayed, killed, kills>>
    BY <1>6, <2>1 DEF CreateIndex, SAdd, SAddLocals, RequestOK
  <2>2. Rest
    BY <2>a, SMT DEF TypeInv
  <2>3. CASE proc[p].op = "none"
    BY <1>1, <1>2, <1>6, <2>2, <2>3 DEF CreateIndex
  <2>4. CASE proc[p].op # "none"
    <3>1. PICK x : x = [pc |-> "get", s |-> proc[p].s, start |-> proc[p].start,
                        op |-> proc[p].op, at |-> proc[p].at]
      OBVIOUS
    <3>2. x \in Locals
      BY <2>1, <2>4, <3>1 DEF Locals, SAddLocals, GetLocals
    <3>3. RequestOK(x)'
      BY <2>1, <2>2, <3>1 DEF RequestOK, SAddLocals
    <3> QED
      BY <1>1, <1>6, <2>2, <2>4, <3>1, <3>2, <3>3 DEF CreateIndex
  <2> QED
    BY <2>3, <2>4
<1>7. ASSUME NEW p \in Procs, NEW s \in Sessions, NEW op \in {"touch", "mark"}, Request(p, s, op),
             s \in minted, Rest
      PROVE  TypeInv'
  <2>1. PICK x : x = [pc |-> "get", s |-> s, start |-> now, op |-> op, at |-> None]
    OBVIOUS
  <2>2. x \in Locals
    BY <2>1 DEF TypeInv, Locals, GetLocals
  <2>3. RequestOK(x)'
    BY <1>7, <2>1, SMT DEF RequestOK, TypeInv
  <2> QED
    BY <1>1, <1>7, <2>1, <2>2, <2>3 DEF Request
<1>8. ASSUME NEW p \in Procs, NEW s \in Sessions, AuthMiddleware(p, s) \/ TouchProto(p, s)
      PROVE  TypeInv'
  <2>1. /\ s \in minted /\ Request(p, s, "touch") /\ used' = [used EXCEPT ![s] = now]
        /\ UNCHANGED <<now, absolute, store, index, minted, ready, proofs, strayed, killed, kills>>
    BY <1>8 DEF AuthMiddleware, TouchProto, Valid, TypeInv
  <2>2. Rest
    BY <2>1 DEF TypeInv
  <2> QED
    BY <1>7, <2>1, <2>2
<1>9. ASSUME NEW p \in Procs, NEW s \in Sessions, stepUpHandler(p, s) PROVE TypeInv'
  <2>1. s \in minted /\ Request(p, s, "mark")
        /\ proofs' = proofs \cup {now}
        /\ UNCHANGED <<now, absolute, store, index, minted, ready, used, strayed, killed, kills>>
    BY <1>9 DEF stepUpHandler, Valid, TypeInv
  <2>2. Rest
    BY <2>1 DEF TypeInv
  <2> QED
    BY <1>7, <2>1, <2>2
<1>10. ASSUME NEW p \in Procs, NEW s \in Sessions, GetExpired(p, s) PROVE TypeInv'
  <2>1. PICK x : x = [pc |-> "reap", s |-> s, start |-> now]
    OBVIOUS
  <2>2. x \in Locals
    BY <2>1 DEF TypeInv, Locals, ReapLocals
  <2>3. Rest
    BY <1>10 DEF GetExpired, TypeInv
  <2>4. RequestOK(x)'
    BY <2>1, <2>3, SMT DEF RequestOK, TypeInv
  <2> QED
    BY <1>1, <1>10, <2>1, <2>2, <2>3, <2>4 DEF GetExpired
\* A DEL, by whatever request.
<1>11. ASSUME NEW p \in Procs, NEW ids, NEW x \in Locals, Del(p, ids, x), RequestOK(x)',
              UNCHANGED <<now, absolute, index, minted, ready, proofs, used, strayed, killed, kills>>
       PROVE  TypeInv'
  <2>1. Rest
    BY <1>11, DelEffect DEF TypeInv
  <2> QED
    BY <1>1, <1>11, <2>1
<1>12. ASSUME NEW p \in Procs, Reap(p) \/ \E s \in Sessions : Delete(p, s) PROVE TypeInv'
  BY <1>2, <1>11, <1>12 DEF Reap, Delete
<1>13. ASSUME NEW p \in Procs, UpdateGet(p) PROVE TypeInv'
  <2>1. proc[p] \in GetLocals /\ RequestOK(proc[p]) /\ proc[p] # Free
    BY <1>13, LocalsByLabel DEF UpdateGet, At, TypeInv, Free
  <2>2. Rest
    BY <1>13 DEF UpdateGet, TypeInv
  <2>3. CASE store[proc[p].s] = None
    BY <1>1, <1>2, <1>13, <2>2, <2>3 DEF UpdateGet
  <2>4. CASE store[proc[p].s] # None
    <3>1. PICK v : v = Update(store[proc[p].s], proc[p].op, proc[p].at)
      OBVIOUS
    <3>2. v \in Value
      <4>1. store[proc[p].s] \in Value /\ now \in Nat /\ proc[p].at \in Nat \cup {None}
            /\ proc[p].op \in {"touch", "mark", "carry"}
        BY <2>1, <2>4 DEF TypeInv, GetLocals
      <4> QED
        BY <3>1, <4>1 DEF Update, Value
    <3>3. PICK x : x = [pc |-> "set", s |-> proc[p].s, start |-> proc[p].start, op |-> proc[p].op,
                        value |-> v]
      OBVIOUS
    <3>4. x \in Locals
      BY <2>1, <3>2, <3>3 DEF Locals, GetLocals, SetLocals
    <3>5. RequestOK(x)'
      BY <2>1, <2>2, <3>3 DEF RequestOK, GetLocals
    <3> QED
      BY <1>1, <1>13, <2>2, <2>4, <3>1, <3>3, <3>4, <3>5 DEF UpdateGet
  <2> QED
    BY <2>3, <2>4
<1>14. ASSUME NEW p \in Procs, UpdateSet(p) PROVE TypeInv'
  <2>1. proc[p] \in SetLocals /\ RequestOK(proc[p])
    BY <1>14, LocalsByLabel DEF UpdateSet, At, TypeInv
  <2>2. Rest
    BY <1>14, <2>1 DEF UpdateSet, TypeInv, SetLocals, RequestOK
  <2> QED
    BY <1>1, <1>2, <1>14, <2>2 DEF UpdateSet
<1>15. ASSUME NEW p \in Procs, NEW keep \in Sessions \cup {None}, ListByUser(p, keep) PROVE TypeInv'
  <2>1. PICK x : x = [pc |-> "list", s |-> None, start |-> now, keep |-> keep,
                      listed |-> index.ids, todo |-> index.ids, found |-> {},
                      goal |-> {s \in ready \ strayed : store[s] # None} \ {keep}]
    OBVIOUS
  <2>2. x \in Locals
    BY <2>1 DEF TypeInv, Locals, ListLocals
  <2>3. Rest
    BY <1>15, SMT DEF ListByUser, TypeInv
  <2>4. RequestOK(x)'
    BY <2>1, <2>3, SMT DEF RequestOK, TypeInv
  <2> QED
    BY <1>1, <1>15, <2>1, <2>2, <2>3, <2>4 DEF ListByUser
\* The locals of a revocation that goes on.
<1>16. ASSUME NEW p \in Procs, proc[p] \in ListLocals, NEW x \in ListLocals,
              x.start = proc[p].start, x.listed = proc[p].listed, x.goal = proc[p].goal,
              UNCHANGED now, minted \subseteq minted'
       PROVE  x \in Locals /\ RequestOK(x)'
  <2>1. RequestOK(proc[p]) /\ proc[p] # Free
    BY <1>16, SMT DEF TypeInv, ListLocals, Free
  <2> QED
    BY <1>16, <2>1 DEF Locals, RequestOK, ListLocals
<1>17. ASSUME NEW p \in Procs, NEW s \in Sessions, ListGet(p, s) PROVE TypeInv'
  <2>1. proc[p] \in ListLocals
    BY <1>17, LocalsByLabel DEF ListGet, At, TypeInv
  <2>2. PICK x : x = IF Valid(s) THEN Listing(p, proc[p].todo \ {s}, proc[p].found \cup {s})
                     ELSE [proc[p] EXCEPT !.pc = IF store[s] = None THEN "srem" ELSE "listReap", !.s = s]
    OBVIOUS
  <2>3. x \in ListLocals /\ x.start = proc[p].start /\ x.listed = proc[p].listed
        /\ x.goal = proc[p].goal
    BY <2>1, <2>2 DEF Listing, ListLocals
  <2>4. Rest
    BY <1>17 DEF ListGet, TypeInv
  <2>5. x \in Locals /\ RequestOK(x)'
    BY <1>16, <2>1, <2>3, <2>4
  <2> QED
    BY <1>1, <1>17, <2>2, <2>4, <2>5 DEF ListGet
<1>18. ASSUME NEW p \in Procs, ListReap(p) PROVE TypeInv'
  <2>1. proc[p] \in ListLocals
    BY <1>18, LocalsByLabel DEF ListReap, At, TypeInv
  <2>2. PICK x : x = [proc[p] EXCEPT !.pc = "srem"]
    OBVIOUS
  <2>3. x \in ListLocals /\ x.start = proc[p].start /\ x.listed = proc[p].listed
        /\ x.goal = proc[p].goal
    BY <2>1, <2>2 DEF ListLocals
  <2>4. x \in Locals /\ RequestOK(x)'
    BY <1>16, <1>18, <2>1, <2>3 DEF ListReap
  <2> QED
    BY <1>11, <1>18, <2>2, <2>4 DEF ListReap
<1>19. ASSUME NEW p \in Procs, ListRem(p) PROVE TypeInv'
  <2>1. proc[p] \in ListLocals
    BY <1>19, LocalsByLabel DEF ListRem, At, TypeInv
  <2>2. PICK x : x = Listing(p, proc[p].todo \ {proc[p].s}, proc[p].found)
    OBVIOUS
  <2>3. x \in ListLocals /\ x.start = proc[p].start /\ x.listed = proc[p].listed
        /\ x.goal = proc[p].goal
    BY <2>1, <2>2 DEF Listing, ListLocals
  <2>4. Rest
    BY <1>19 DEF ListRem, TypeInv
  <2>5. x \in Locals /\ RequestOK(x)'
    BY <1>16, <2>1, <2>3, <2>4
  <2> QED
    BY <1>1, <1>19, <2>2, <2>4, <2>5 DEF ListRem
<1>20. ASSUME NEW p \in Procs, NEW s \in Sessions, KillOne(p, s) PROVE TypeInv'
  <2>1. proc[p] \in ListLocals
    BY <1>20, LocalsByLabel DEF KillOne, At, TypeInv
  <2>2. PICK x : x = [proc[p] EXCEPT !.found = @ \ {s}]
    OBVIOUS
  <2>3. x \in ListLocals /\ x.start = proc[p].start /\ x.listed = proc[p].listed
        /\ x.goal = proc[p].goal
    BY <2>1, <2>2 DEF ListLocals
  <2>4. x \in Locals /\ RequestOK(x)'
    BY <1>16, <1>20, <2>1, <2>3 DEF KillOne
  <2> QED
    BY <1>11, <1>20, <2>2, <2>4 DEF KillOne
<1>21. ASSUME NEW p \in Procs, KillEnds(p) PROVE TypeInv'
  <2>1. proc[p] \in ListLocals
    BY <1>21, LocalsByLabel DEF KillEnds, At, TypeInv
  <2>2. proc[p].goal \subseteq minted
    BY <1>21, <2>1 DEF KillEnds, At, TypeInv, RequestOK
  <2>3. Rest
    BY <1>21, <2>1, <2>2 DEF KillEnds, TypeInv, ListLocals
  <2> QED
    BY <1>1, <1>2, <1>21, <2>3 DEF KillEnds
<1>22. ASSUME NEW a \in Absolutes, SetPolicy(a) PROVE TypeInv'
  BY <1>22 DEF SetPolicy, TypeInv, RequestOK
<1>23. CASE Tick
  <2>1. \A p \in Procs : RequestOK(proc[p])'
    <3> SUFFICES ASSUME NEW p \in Procs PROVE RequestOK(proc[p])'
      OBVIOUS
    <3>1. proc[p] # Free => proc[p].start \in Nat
      BY LocalsByLabel DEF TypeInv
    <3> QED
      BY <1>23, <3>1, SMT DEF Tick, TypeInv, RequestOK
  <2>2. store' \in [Sessions -> Value \cup {None}] /\ now' \in Nat /\ now' <= MaxTime
    BY <1>23, SMT DEF Tick, TypeInv
  <2>3. \A s \in Sessions : store'[s] # None => s \in minted'
    BY <1>23 DEF Tick, TypeInv
  <2>4. index' \in [ids : SUBSET Sessions, exp : Nat] /\ index'.ids \subseteq minted
        /\ strayed' \subseteq Sessions
    BY <1>23 DEF Tick, TypeInv
  <2> QED
    BY <1>23, <2>1, <2>2, <2>3, <2>4 DEF Tick, TypeInv
<1>24. CASE UNCHANGED vars
  BY <1>24 DEF vars, TypeInv, RequestOK
<1> QED
  BY <1>3, <1>4, <1>5, <1>6, <1>8, <1>9, <1>10, <1>12, <1>13, <1>14, <1>15, <1>17, <1>18, <1>19,
     <1>20, <1>21, <1>22, <1>23, <1>24 DEF Next

-----------------------------------------------------------------------------
(* The timeouts.                                                           *)

(***************************************************************************)
(* Values appear in the store when a session is created or updated; all    *)
(* other steps keep or remove them.                                        *)
(***************************************************************************)
LEMMA StoreStep ==
  ASSUME TypeInv, [Next]_vars
  PROVE  \/ now' = now /\ \A s \in Sessions : store'[s] \in {store[s], None}
         \/ \E p \in Procs : CreateSave(p) \/ UpdateSet(p)
         \/ Tick
<1> SUFFICES ASSUME ~ (\E p \in Procs : CreateSave(p) \/ UpdateSet(p)), ~ Tick
             PROVE  now' = now /\ \A s \in Sessions : store'[s] \in {store[s], None}
  OBVIOUS
<1>1. ASSUME NEW p \in Procs, NEW ids, NEW x, Del(p, ids, x)
      PROVE  \A s \in Sessions : store'[s] \in {store[s], None}
  BY <1>1 DEF Del
<1>2. ASSUME NEW p \in Procs,
             Reap(p) \/ ListReap(p) \/ \E s \in Sessions : Delete(p, s) \/ KillOne(p, s)
      PROVE  now' = now /\ \A s \in Sessions : store'[s] \in {store[s], None}
  BY <1>1, <1>2 DEF Reap, ListReap, Delete, KillOne
<1>3. CASE UNCHANGED vars
  BY <1>3 DEF vars
<1>4. CASE \E p \in Procs, s \in Sessions :
             \/ Login(p, s) \/ AuthMiddleware(p, s) \/ TouchProto(p, s) \/ GetExpired(p, s)
             \/ stepUpHandler(p, s) \/ ListGet(p, s)
             \/ \E src \in Sessions : ssoHandler(p, s, src)
  BY <1>4 DEF Login, AuthMiddleware, TouchProto, GetExpired, stepUpHandler, ListGet, ssoHandler
<1>5. CASE \E p \in Procs : \/ CreateIndex(p) \/ UpdateGet(p) \/ ListRem(p) \/ KillEnds(p)
                            \/ \E keep \in Sessions \cup {None} : ListByUser(p, keep)
  BY <1>5 DEF CreateIndex, UpdateGet, ListRem, KillEnds, ListByUser
<1>6. CASE \E a \in Absolutes : SetPolicy(a)
  BY <1>6 DEF SetPolicy
<1> QED
  BY <1>2, <1>3, <1>4, <1>5, <1>6 DEF Next

(***************************************************************************)
(* Every step keeps stored values within their absolute timeout.           *)
(***************************************************************************)
LEMMA CapStep ==
  ASSUME TypeInv, CapInv, [Next]_vars
  PROVE  CapInv'
<1>1. CASE now' = now /\ \A s \in Sessions : store'[s] \in {store[s], None}
  BY <1>1 DEF CapInv
<1>2. ASSUME NEW p \in Procs, CreateSave(p) PROVE CapInv'
  <2>1. absolute \in Nat /\ absolute > 0 /\ now \in Nat /\ now' = now
    BY <1>2, SMT DEF TypeInv, CreateSave
  <2>2. \A s \in Sessions : \/ store'[s] = store[s]
                            \/ store'[s] = [expires |-> now + absolute, last |-> now, mfa |-> None,
                                            revived |-> FALSE]
    BY <1>2 DEF CreateSave, TypeInv
  <2> QED
    BY <2>1, <2>2, SMT DEF CapInv
<1>3. ASSUME NEW p \in Procs, UpdateSet(p) PROVE CapInv'
  BY <1>3 DEF CapInv, UpdateSet, saves, TypeInv
<1>4. CASE Tick
  <2> SUFFICES ASSUME NEW s \in Sessions, store'[s] # None PROVE now' < store'[s].expires
    BY DEF CapInv
  <2>1. store'[s] = store[s] /\ store[s] # None /\ store[s].expires # now + 1 /\ now' = now + 1
    BY <1>4 DEF Tick
  <2>2. store[s].expires \in Nat /\ now \in Nat /\ now < store[s].expires
    BY <2>1 DEF TypeInv, CapInv, Value
  <2> QED
    BY <2>1, <2>2, SMT
<1> QED
  BY <1>1, <1>2, <1>3, <1>4, StoreStep

\* The locals of a request that another one's step does not touch, or marks as revived.
SameButMark(x, y) ==
    \/ y = x
    \/ /\ x \in SetLocals /\ y \in SetLocals
       /\ y.s = x.s /\ y.start = x.start
       /\ y.value.expires = x.value.expires /\ y.value.last = x.value.last
       /\ y.value.mfa = x.value.mfa /\ (x.value.revived => y.value.revived)

\* A request gets locals from which a value will be stored.
Bears(q) ==
    \/ \E s \in Sessions :
          \/ Login(q, s) \/ AuthMiddleware(q, s) \/ TouchProto(q, s) \/ stepUpHandler(q, s)
          \/ \E src \in Sessions : ssoHandler(q, s, src)
    \/ CreateSave(q) \/ CreateIndex(q) \/ UpdateGet(q)

\* A revocation goes on.
Lists(q) ==
    \/ \E keep \in Sessions \cup {None} : ListByUser(q, keep)
    \/ \E s \in Sessions : ListGet(q, s) \/ KillOne(q, s)
    \/ ListReap(q) \/ ListRem(q)

(***************************************************************************)
(* What a step does to the locals of one request.                          *)
(***************************************************************************)
LEMMA LocalsStep ==
  ASSUME TypeInv, [Next]_vars, NEW q \in Procs
  PROVE  \/ SameButMark(proc[q], proc'[q])
         \/ proc'[q].pc \in {"free", "reap"}
         \/ proc'[q].pc \in {"list", "listReap", "srem"} /\ Lists(q)
         \/ Bears(q)
<1> DEFINE Goal == \/ SameButMark(proc[q], proc'[q])
                   \/ proc'[q].pc \in {"free", "reap"}
                   \/ proc'[q].pc \in {"list", "listReap", "srem"} /\ Lists(q)
                   \/ Bears(q)
<1> SUFFICES Goal
  OBVIOUS
<1>1. ASSUME NEW p \in Procs, NEW x, Go(p, x),
             q = p => \/ x.pc \in {"free", "reap"}
                      \/ x.pc \in {"list", "listReap", "srem"} /\ Lists(q)
      PROVE  Goal
  BY <1>1 DEF Go, TypeInv, SameButMark
<1>2. ASSUME NEW p \in Procs, NEW x, Go(p, x), q = p => Bears(q)
      PROVE  Goal
  BY <1>2 DEF Go, TypeInv, SameButMark
<1>3. ASSUME NEW p \in Procs, NEW ids, NEW x \in Locals, Del(p, ids, x),
             x = Free \/ (x \in ListLocals /\ Lists(p))
      PROVE  Goal
  <2>1. CASE q = p
    BY <1>3, <2>1, DelEffect, SMT DEF Free, ListLocals
  <2>2. CASE q # p
    BY <1>3, <2>2, DelEffect, SMT DEF SameButMark
  <2> QED
    BY <2>1, <2>2
<1> HIDE DEF Goal
<1>4. Free \in Locals /\ Free.pc = "free"
  BY DEF Free, Locals
<1>a. ASSUME NEW p \in Procs, Go(p, Free) \/ \E ids : Del(p, ids, Free) PROVE Goal
  <2>1. CASE Go(p, Free)
    BY <1>1, <1>4, <2>1
  <2>2. ASSUME NEW ids, Del(p, ids, Free) PROVE Goal
    <3>1. PICK x \in Locals : x = Free
      BY <1>4
    <3> QED
      BY <1>3, <2>2, <3>1
  <2> QED
    BY <1>a, <2>1, <2>2
<1>5. ASSUME NEW p \in Procs, Bears(p) PROVE Goal
  BY <1>2, <1>5
     DEF Bears, Login, AuthMiddleware, TouchProto, stepUpHandler, ssoHandler, CreateSave, CreateIndex,
         UpdateGet, Request
<1>6. ASSUME NEW p \in Procs, NEW s \in Sessions, GetExpired(p, s) \/ Delete(p, s) PROVE Goal
  <2>1. CASE GetExpired(p, s)
    BY <1>1, <2>1 DEF GetExpired
  <2>2. CASE Delete(p, s)
    BY <1>a, <2>2 DEF Delete
  <2> QED
    BY <1>6, <2>1, <2>2
<1>7. ASSUME NEW p \in Procs, Reap(p) \/ UpdateSet(p) \/ KillEnds(p) PROVE Goal
  BY <1>a, <1>7 DEF Reap, UpdateSet, KillEnds
<1>8. ASSUME NEW p \in Procs, \E keep \in Sessions \cup {None} : ListByUser(p, keep) PROVE Goal
  BY <1>1, <1>8 DEF Lists, ListByUser
<1>9. ASSUME NEW p \in Procs, proc[p].pc \in {"list", "listReap", "srem"} PROVE proc[p] \in ListLocals
  BY <1>9, LocalsByLabel DEF TypeInv
<1>10. ASSUME NEW p \in Procs, NEW s \in Sessions, ListGet(p, s) PROVE Goal
  <2>1. PICK x : x = IF Valid(s) THEN Listing(p, proc[p].todo \ {s}, proc[p].found \cup {s})
                     ELSE [proc[p] EXCEPT !.pc = IF store[s] = None THEN "srem" ELSE "listReap", !.s = s]
    OBVIOUS
  <2>2. x.pc \in {"list", "listReap", "srem"}
    BY <1>9, <1>10, <2>1 DEF ListGet, At, Listing, ListLocals
  <2> QED
    BY <1>1, <1>10, <2>1, <2>2 DEF Lists, ListGet
<1>11. ASSUME NEW p \in Procs, ListRem(p) PROVE Goal
  <2>1. PICK x : x = Listing(p, proc[p].todo \ {proc[p].s}, proc[p].found)
    OBVIOUS
  <2>2. x.pc = "list"
    BY <1>9, <1>11, <2>1 DEF ListRem, At, Listing, ListLocals
  <2> QED
    BY <1>1, <1>11, <2>1, <2>2 DEF Lists, ListRem
<1>12. ASSUME NEW p \in Procs, ListReap(p) PROVE Goal
  <2>1. PICK x : x = [proc[p] EXCEPT !.pc = "srem"]
    OBVIOUS
  <2>2. x \in ListLocals /\ x \in Locals
    BY <1>9, <1>12, <2>1, SMT DEF ListReap, At, ListLocals, Locals
  <2> QED
    BY <1>3, <1>12, <2>1, <2>2 DEF Lists, ListReap
<1>13. ASSUME NEW p \in Procs, NEW s \in Sessions, KillOne(p, s) PROVE Goal
  <2>1. PICK x : x = [proc[p] EXCEPT !.found = @ \ {s}]
    OBVIOUS
  <2>2. x \in ListLocals /\ x \in Locals
    BY <1>9, <1>13, <2>1, SMT DEF KillOne, At, ListLocals, Locals
  <2> QED
    BY <1>3, <1>13, <2>1, <2>2 DEF Lists, KillOne
<1>14. CASE Tick \/ (\E a \in Absolutes : SetPolicy(a)) \/ UNCHANGED vars
  BY <1>14 DEF Tick, SetPolicy, vars, SameButMark, Goal
<1> QED
  <2>1. CASE \E p \in Procs, s \in Sessions :
               \/ Login(p, s) \/ AuthMiddleware(p, s) \/ TouchProto(p, s) \/ stepUpHandler(p, s)
               \/ \E src \in Sessions : ssoHandler(p, s, src)
    BY <1>5, <2>1 DEF Bears
  <2>2. CASE \E p \in Procs : CreateSave(p) \/ CreateIndex(p) \/ UpdateGet(p)
    BY <1>5, <2>2 DEF Bears
  <2>3. CASE \E p \in Procs, s \in Sessions :
               GetExpired(p, s) \/ Delete(p, s) \/ ListGet(p, s) \/ KillOne(p, s)
    BY <1>6, <1>10, <1>13, <2>3
  <2>4. CASE \E p \in Procs :
               \/ Reap(p) \/ UpdateSet(p) \/ KillEnds(p) \/ ListRem(p) \/ ListReap(p)
               \/ \E keep \in Sessions \cup {None} : ListByUser(p, keep)
    BY <1>7, <1>8, <1>11, <1>12, <2>4
  <2> QED
    BY <1>14, <2>1, <2>2, <2>3, <2>4 DEF Next

(***************************************************************************)
(* Every step keeps stored last uses within MaxFlight of a real use.       *)
(***************************************************************************)
LEMMA UsedStep ==
  ASSUME TypeInv, UsedInv, [Next]_vars, TypeInv'
  PROVE  UsedInv'
<1>1. /\ now \in Nat /\ now' \in Nat /\ now <= now'
      /\ \A s \in Sessions : used[s] \in Nat /\ used'[s] \in Nat
      /\ \A p \in Procs : proc[p] \in Locals /\ proc'[p] \in Locals
  <2>1. now' = now \/ now' = now + 1
    BY StoreStep DEF CreateSave, UpdateSet, Tick
  <2> QED
    BY <2>1, SMT DEF TypeInv
<1>2. \A s \in Sessions : used'[s] = used[s] \/ used'[s] = now'
  <2>1. CASE UNCHANGED used
    BY <2>1
  <2>2. CASE ~ UNCHANGED used
    <3>1. \E p \in Procs : CreateSave(p) \/ \E s \in Sessions : AuthMiddleware(p, s) \/ TouchProto(p, s)
      BY <2>2, ZenonT(30) DEF Next, vars, Login, GetExpired, stepUpHandler, Delete, ListGet, KillOne, ssoHandler,
                  CreateIndex, Reap, UpdateGet, UpdateSet, ListReap, ListRem, KillEnds, ListByUser,
                  SetPolicy, Tick
    <3> QED
      BY <3>1, SMTT(30) DEF CreateSave, AuthMiddleware, TouchProto, TypeInv
  <2> QED
    BY <2>1, <2>2
<1>3. \A s \in Sessions : used[s] <= used'[s] /\ used'[s] <= now'
  BY <1>1, <1>2, SMT DEF UsedInv
<1>4. \A s \in Sessions : store'[s] # None => store'[s].last <= used'[s] + MaxFlight
  <2> SUFFICES ASSUME NEW s \in Sessions, store'[s] # None
               PROVE  store'[s].last <= used'[s] + MaxFlight
    OBVIOUS
  <2>1. CASE store'[s] = store[s]
    <3>1. store[s].last \in Nat /\ store[s].last <= used[s] + MaxFlight
      BY <2>1 DEF UsedInv, TypeInv, Value
    <3> QED
      BY <1>1, <1>3, <2>1, <3>1, SMT
  <2>2. ASSUME NEW p \in Procs, CreateSave(p) PROVE store'[s].last <= used'[s] + MaxFlight
    <3>1. CASE s = proc[p].s
      BY <1>1, <2>2, <3>1, SMT DEF CreateSave, TypeInv
    <3>2. CASE s # proc[p].s
      BY <2>1, <2>2, <3>2 DEF CreateSave, TypeInv
    <3> QED
      BY <3>1, <3>2
  <2>3. ASSUME NEW p \in Procs, UpdateSet(p) PROVE store'[s].last <= used'[s] + MaxFlight
    <3>1. CASE s = proc[p].s /\ store'[s] = proc[p].value
      <4>1. proc[p].value.last \in Nat /\ proc[p].value.last <= used[s] + MaxFlight
        BY <2>3, <3>1, LocalsByLabel DEF UpdateSet, At, UsedInv, TouchOK, TypeInv, SetLocals, Value
      <4> QED
        BY <1>1, <1>3, <3>1, <4>1, SMT
    <3>2. CASE store'[s] = store[s]
      BY <2>1, <3>2
    <3> QED
      BY <2>3, <3>1, <3>2 DEF UpdateSet, TypeInv
  <2>4. CASE Tick
    BY <2>1, <2>4 DEF Tick
  <2> QED
    BY <2>1, <2>2, <2>3, <2>4, StoreStep
<1>5. ASSUME NEW q \in Procs PROVE TouchOK(proc[q])'
  <2>1. CASE SameButMark(proc[q], proc'[q])
    <3>1. proc'[q].pc = "get" => proc'[q] \in GetLocals
      BY <1>1, LocalsByLabel
    <3>2. proc'[q].pc = "set" => proc'[q] \in SetLocals
      BY <1>1, LocalsByLabel
    <3>3. proc'[q].pc = "get" /\ proc'[q].op = "touch" => proc'[q].start <= used'[proc'[q].s]
      <4> SUFFICES ASSUME proc'[q].pc = "get", proc'[q].op = "touch"
                   PROVE  proc'[q].start <= used'[proc'[q].s]
        OBVIOUS
      <4>1. proc'[q] = proc[q] /\ proc[q].s \in Sessions /\ proc[q].start \in Nat
            /\ proc[q].start <= used[proc[q].s]
        BY <2>1, <3>1 DEF SameButMark, SetLocals, GetLocals, UsedInv, TouchOK
      <4> QED
        BY <1>1, <1>3, <4>1, SMT
    <3>4. proc'[q].pc = "set" => proc'[q].value.last <= used'[proc'[q].s] + MaxFlight
      <4> SUFFICES ASSUME proc'[q].pc = "set"
                   PROVE  proc'[q].value.last <= used'[proc'[q].s] + MaxFlight
        OBVIOUS
      <4>1. /\ proc[q].pc = "set" /\ proc'[q].s = proc[q].s /\ proc[q].s \in Sessions
            /\ proc'[q].value.last = proc[q].value.last /\ proc[q].value.last \in Nat
        BY <2>1, <3>2 DEF SameButMark, SetLocals, Value
      <4>2. proc[q].value.last <= used[proc[q].s] + MaxFlight
        BY <4>1 DEF UsedInv, TouchOK
      <4> QED
        BY <1>1, <1>3, <4>1, <4>2, SMT
    <3> QED
      BY <3>3, <3>4 DEF TouchOK
  <2>2. CASE proc'[q].pc \in {"free", "reap", "list", "listReap", "srem"}
    BY <2>2 DEF TouchOK
  <2>3. CASE Bears(q)
    <3>1. CASE \E s \in Sessions : AuthMiddleware(q, s) \/ TouchProto(q, s)
      BY <1>1, <3>1, SMT DEF AuthMiddleware, TouchProto, Request, Go, TypeInv, TouchOK
    <3>2. CASE UpdateGet(q)
      <4>1. CASE store[proc[q].s] = None
        BY <3>2, <4>1 DEF UpdateGet, Go, Free, TypeInv, TouchOK
      <4>2. CASE store[proc[q].s] # None
        <5>1. /\ proc[q] \in GetLocals /\ proc[q] # Free
              /\ proc'[q] = [pc |-> "set", s |-> proc[q].s, start |-> proc[q].start, op |-> proc[q].op,
                             value |-> Update(store[proc[q].s], proc[q].op, proc[q].at)]
              /\ used' = used /\ now' = now
          BY <1>1, <3>2, <4>2, LocalsByLabel DEF UpdateGet, At, Go, TypeInv, Free
        <5>2. /\ store[proc[q].s] \in Value
              /\ store[proc[q].s].last <= used[proc[q].s] + MaxFlight
              /\ proc[q].s \in Sessions /\ proc[q].op \in {"touch", "mark", "carry"}
              /\ proc[q].op = "touch" => proc[q].start <= used[proc[q].s]
              /\ now <= proc[q].start + MaxFlight /\ proc[q].start \in Nat
          BY <4>2, <5>1 DEF TypeInv, UsedInv, TouchOK, GetLocals, RequestOK
        <5>3. PICK v : v = Update(store[proc[q].s], proc[q].op, proc[q].at)
          OBVIOUS
        <5>4. v.last <= used[proc[q].s] + MaxFlight
          <6>1. CASE proc[q].op = "touch"
            BY <1>1, <5>2, <5>3, <6>1, SMT DEF Update, Value
          <6>2. CASE proc[q].op # "touch"
            BY <5>2, <5>3, <6>2 DEF Update, Value
          <6> QED
            BY <6>1, <6>2
        <5> QED
          BY <5>1, <5>3, <5>4, SMT DEF TouchOK
      <4> QED
        BY <4>1, <4>2
    <3>3. CASE CreateIndex(q)
      <4>1. proc[q] \in SAddLocals
        BY <1>1, <3>3, LocalsByLabel DEF CreateIndex, At
      <4> QED
        BY <3>3, <4>1 DEF CreateIndex, Go, Free, TypeInv, TouchOK, SAddLocals
    <3>4. CASE \E s \in Sessions : \/ Login(q, s) \/ stepUpHandler(q, s)
                                   \/ \E src \in Sessions : ssoHandler(q, s, src)
      BY <3>4, SMT DEF Login, stepUpHandler, ssoHandler, Request, Go, TypeInv, TouchOK
    <3>5. CASE CreateSave(q)
      BY <3>5, SMT DEF CreateSave, Go, TypeInv, TouchOK
    <3> QED
      BY <2>3, <3>1, <3>2, <3>3, <3>4, <3>5 DEF Bears
  <2> QED
    BY <2>1, <2>2, <2>3, LocalsStep
<1> QED
  BY <1>3, <1>4, <1>5 DEF UsedInv

-----------------------------------------------------------------------------
(* Step-up times.                                                          *)

(***************************************************************************)
(* Every step keeps step-up times honest, stored or on their way.          *)
(***************************************************************************)
LEMMA ProofStep ==
  ASSUME TypeInv, ProofInv, [Next]_vars, TypeInv'
  PROVE  ProofInv'
<1>1. proofs \subseteq proofs'
  <2>1. CASE UNCHANGED proofs
    BY <2>1
  <2>2. CASE ~ UNCHANGED proofs
    <3>1. \E p \in Procs, s \in Sessions : Login(p, s) \/ stepUpHandler(p, s)
      BY <2>2, ZenonT(30) DEF Next, vars, AuthMiddleware, TouchProto, GetExpired, Delete, ListGet, KillOne,
                  ssoHandler, CreateSave, CreateIndex, Reap, UpdateGet, UpdateSet, ListReap, ListRem,
                  KillEnds, ListByUser, SetPolicy, Tick
    <3> QED
      BY <3>1, ZenonT(30) DEF Login, stepUpHandler
  <2> QED
    BY <2>1, <2>2
<1>2. \A m : Proven(m) => Proven(m)'
  BY <1>1 DEF Proven
<1>3. /\ now \in Nat /\ proofs \subseteq Nat
      /\ \A p \in Procs : proc[p] \in Locals /\ proc'[p] \in Locals /\ RequestOK(proc[p])
  BY DEF TypeInv
<1>4. \A s \in Sessions : store'[s] # None /\ store'[s].mfa # None => Proven(store[s].mfa)'
  <2> SUFFICES ASSUME NEW s \in Sessions, store'[s] # None, store'[s].mfa # None
               PROVE  Proven(store[s].mfa)'
    OBVIOUS
  <2>0. PICK m : m = store'[s].mfa
    OBVIOUS
  <2>a. ASSUME Proven(m)' PROVE Proven(store[s].mfa)'
    BY <2>0, <2>a DEF Proven
  <2>1. CASE store'[s] = store[s]
    BY <1>2, <2>0, <2>1, <2>a DEF ProofInv
  <2>2. ASSUME NEW p \in Procs, CreateSave(p) PROVE Proven(store[s].mfa)'
    <3>1. CASE s = proc[p].s
      BY <2>2, <3>1 DEF CreateSave, TypeInv
    <3>2. CASE s # proc[p].s
      BY <2>1, <2>2, <3>2, SMT DEF CreateSave, TypeInv
    <3> QED
      BY <3>1, <3>2
  <2>3. ASSUME NEW p \in Procs, UpdateSet(p) PROVE Proven(store[s].mfa)'
    <3>1. CASE s = proc[p].s /\ store'[s] = proc[p].value
      <4>1. Proven(proc[p].value.mfa)
        BY <2>3, <3>1 DEF UpdateSet, At, ProofInv, ProofOK
      <4> QED
        BY <1>2, <2>0, <2>a, <3>1, <4>1
    <3>2. CASE store'[s] = store[s]
      BY <2>1, <3>2
    <3> QED
      BY <2>3, <3>1, <3>2, SMT DEF UpdateSet, TypeInv
  <2>4. CASE Tick
    BY <2>1, <2>4 DEF Tick
  <2> QED
    BY <2>1, <2>2, <2>3, <2>4, StoreStep
<1>5. ASSUME NEW q \in Procs PROVE ProofOK(proc[q])'
  <2>1. CASE SameButMark(proc[q], proc'[q])
    <3>1. CASE proc'[q] = proc[q]
      BY <1>1, <1>2, <3>1 DEF ProofInv, ProofOK
    <3>2. CASE /\ proc[q] \in SetLocals /\ proc'[q] \in SetLocals
               /\ proc'[q].value.mfa = proc[q].value.mfa
      <4>1. proc[q].pc = "set" /\ proc'[q].pc = "set"
        BY <3>2 DEF SetLocals
      <4> QED
        BY <1>2, <3>2, <4>1 DEF ProofInv, ProofOK
    <3> QED
      BY <2>1, <3>1, <3>2 DEF SameButMark
  <2>2. CASE proc'[q].pc \in {"free", "reap", "list", "listReap", "srem"}
    BY <2>2 DEF ProofOK
  <2>3. CASE Bears(q)
    <3>1. CASE \E s \in Sessions : AuthMiddleware(q, s) \/ TouchProto(q, s)
      BY <3>1, SMT DEF AuthMiddleware, TouchProto, Request, Go, TypeInv, ProofOK
    <3>2. CASE \E s \in Sessions : Login(q, s)
      BY <3>2, SMT DEF Login, Go, TypeInv, ProofOK
    <3>3. CASE \E s \in Sessions : stepUpHandler(q, s)
      BY <3>3, SMT DEF stepUpHandler, Request, Go, TypeInv, ProofOK
    <3>4. ASSUME NEW s \in Sessions, NEW src \in Sessions, ssoHandler(q, s, src) PROVE ProofOK(proc[q])'
      <4>1. /\ store[src] # None /\ store[src] \in Value
            /\ proc'[q] = [pc |-> "save", s |-> s, start |-> now, at |-> store[src].mfa,
                           op |-> IF store[src].mfa = None THEN "none" ELSE "carry"]
        BY <3>4 DEF ssoHandler, Valid, Go, TypeInv
      <4>2. store[src].mfa # None => store[src].mfa \in Nat /\ Proven(store[src].mfa)
        BY <4>1 DEF ProofInv, Value
      <4> QED
        BY <1>2, <4>1, <4>2, SMT DEF ProofOK
    <3>5. CASE CreateSave(q)
      <4>1. proc[q] \in SaveLocals /\ ProofOK(proc[q])
        BY <1>3, <3>5, LocalsByLabel DEF CreateSave, At, ProofInv
      <4>2. proc'[q] = [pc |-> "sadd", s |-> proc[q].s, start |-> proc[q].start, at |-> proc[q].at,
                        op |-> proc[q].op, abs |-> absolute]
        BY <3>5, SMT DEF CreateSave, Go, TypeInv
      <4> QED
        BY <1>1, <1>2, <4>1, <4>2, SMT DEF ProofOK, SaveLocals
    <3>6. CASE CreateIndex(q)
      <4>1. proc[q] \in SAddLocals /\ ProofOK(proc[q])
        BY <1>3, <3>6, LocalsByLabel DEF CreateIndex, At, ProofInv
      <4>2. proc'[q] = Free
            \/ proc'[q] = [pc |-> "get", s |-> proc[q].s, start |-> proc[q].start,
                           op |-> proc[q].op, at |-> proc[q].at]
        BY <3>6 DEF CreateIndex, Go, TypeInv
      <4> QED
        BY <1>1, <1>2, <4>1, <4>2, SMT DEF ProofOK, SAddLocals, Free
    <3>7. CASE UpdateGet(q)
      <4>1. CASE store[proc[q].s] = None
        BY <3>7, <4>1 DEF UpdateGet, Go, Free, TypeInv, ProofOK
      <4>2. CASE store[proc[q].s] # None
        <5>1. /\ proc[q] \in GetLocals /\ proc[q] # Free /\ ProofOK(proc[q]) /\ RequestOK(proc[q])
              /\ proc'[q] = [pc |-> "set", s |-> proc[q].s, start |-> proc[q].start, op |-> proc[q].op,
                             value |-> Update(store[proc[q].s], proc[q].op, proc[q].at)]
          BY <1>3, <3>7, <4>2, LocalsByLabel DEF UpdateGet, At, Go, TypeInv, Free, ProofInv
        <5>2. PICK v : v = Update(store[proc[q].s], proc[q].op, proc[q].at)
          OBVIOUS
        <5>3. /\ store[proc[q].s] \in Value /\ proc[q].start \in Nat
              /\ store[proc[q].s].mfa # None => Proven(store[proc[q].s].mfa)
          BY <4>2, <5>1 DEF TypeInv, ProofInv, GetLocals
        <5>4. v.mfa # None => Proven(v.mfa)
          <6>1. CASE proc[q].op = "touch"
            BY <5>2, <5>3, <6>1 DEF Update, Value
          <6>2. CASE proc[q].op = "mark"
            <7>1. v.mfa = now /\ proc[q].start \in proofs
              BY <5>1, <5>2, <5>3, <6>2 DEF Update, Value, ProofOK, GetLocals
            <7>2. proc[q].start <= now /\ now <= proc[q].start + MaxFlight
              BY <5>1 DEF RequestOK
            <7> QED
              BY <7>1, <7>2 DEF Proven
          <6>3. CASE proc[q].op = "carry"
            BY <5>1, <5>2, <5>3, <6>3 DEF Update, Value, ProofOK, GetLocals
          <6> QED
            BY <5>1, <6>1, <6>2, <6>3 DEF GetLocals
        <5> QED
          BY <1>2, <5>1, <5>2, <5>4, SMT DEF ProofOK
      <4> QED
        BY <4>1, <4>2
    <3> QED
      BY <2>3, <3>1, <3>2, <3>3, <3>4, <3>5, <3>6, <3>7 DEF Bears
  <2> QED
    BY <2>1, <2>2, <2>3, LocalsStep
<1> QED
  BY <1>4, <1>5 DEF ProofInv

-----------------------------------------------------------------------------
(* Revocation.                                                             *)

(***************************************************************************)
(* A step deletes a session's value, and marks the copies of it, or leaves *)
(* its values as they are but for an update.                               *)
(***************************************************************************)
LEMMA RemovalStep ==
  ASSUME TypeInv, [Next]_vars, NEW s \in Sessions
  PROVE  \/ \E ids : \E p \in Procs, x \in {Free} \cup ListLocals :
               Del(p, ids, x) /\ s \in ids /\ now' = now
         \/ /\ \/ store'[s] = store[s]
               \/ \E p \in Procs : CreateSave(p) \/ UpdateSet(p)
               \/ Tick
            /\ \A q \in Procs : proc'[q].pc = "set" /\ proc'[q].s = s =>
                  proc'[q] = proc[q] \/ UpdateGet(q)
<1> DEFINE Deleted == \E ids : \E p \in Procs, x \in {Free} \cup ListLocals :
                         Del(p, ids, x) /\ s \in ids /\ now' = now
           Values == \/ store'[s] = store[s]
                     \/ \E p \in Procs : CreateSave(p) \/ UpdateSet(p)
                     \/ Tick
           Copies == \A q \in Procs : proc'[q].pc = "set" /\ proc'[q].s = s =>
                        proc'[q] = proc[q] \/ UpdateGet(q)
<1> SUFFICES Deleted \/ (Values /\ Copies)
  OBVIOUS
<1>1. ASSUME NEW p \in Procs, NEW ids, NEW x \in {Free} \cup ListLocals, Del(p, ids, x), now' = now
      PROVE  Deleted \/ (Values /\ Copies)
  <2>1. x \in Locals /\ x.pc # "set"
    BY SMT DEF Locals, Free, ListLocals
  <2>2. CASE s \in ids
    <3>1. Del(p, ids, x) /\ s \in ids /\ now' = now
      BY <1>1, <2>2
    <3>2. Deleted
      BY <3>1
    <3> QED
      BY <3>2
  <2>3. CASE s \notin ids
    <3>1. store'[s] = store[s]
      BY <1>1, <2>1, <2>3, DelEffect, SMT
    <3>2. ASSUME NEW q \in Procs, proc'[q].pc = "set", proc'[q].s = s PROVE proc'[q] = proc[q]
      <4>1. q # p
        BY <1>1, <2>1, <3>2, DelEffect, SMT
      <4> QED
        BY <1>1, <2>1, <2>3, <3>2, <4>1, DelEffect, SMT
    <3> QED
      BY <3>1, <3>2
  <2> QED
    BY <2>2, <2>3
<1>2. ASSUME NEW p \in Procs, NEW x, Go(p, x), x.pc # "set" \/ UpdateGet(p) PROVE Copies
  BY <1>2 DEF Go, TypeInv
<1>3. ASSUME NEW q \in Procs, Bears(q) PROVE Values /\ Copies
  <2>1. Values
    BY <1>3 DEF Bears, Login, AuthMiddleware, TouchProto, stepUpHandler, ssoHandler, CreateIndex, UpdateGet
  <2>2. Copies
    <3>1. CASE \E r \in Sessions :
                 \/ Login(q, r) \/ AuthMiddleware(q, r) \/ TouchProto(q, r) \/ stepUpHandler(q, r)
                 \/ \E src \in Sessions : ssoHandler(q, r, src)
      BY <1>2, <3>1 DEF Login, AuthMiddleware, TouchProto, stepUpHandler, ssoHandler, Request
    <3>2. CASE CreateSave(q)
      BY <1>2, <3>2 DEF CreateSave
    <3>3. CASE CreateIndex(q)
      BY <1>2, <3>3 DEF CreateIndex, Free
    <3>4. CASE UpdateGet(q)
      BY <1>2, <3>4 DEF UpdateGet
    <3> QED
      BY <1>3, <3>1, <3>2, <3>3, <3>4 DEF Bears
  <2> QED
    BY <2>1, <2>2
<1>4. ASSUME NEW p \in Procs, Reap(p) \/ \E r \in Sessions : Delete(p, r)
      PROVE  Deleted \/ (Values /\ Copies)
  BY <1>1, <1>4 DEF Reap, Delete
<1>5. ASSUME NEW p \in Procs, proc[p].pc \in {"list", "listReap", "srem"} PROVE proc[p] \in ListLocals
  BY <1>5, LocalsByLabel DEF TypeInv
<1>6. ASSUME NEW p \in Procs, ListReap(p) PROVE Deleted \/ (Values /\ Copies)
  <2>1. PICK x : x = [proc[p] EXCEPT !.pc = "srem"]
    OBVIOUS
  <2>2. x \in ListLocals
    BY <1>5, <1>6, <2>1 DEF ListReap, At, ListLocals
  <2> QED
    BY <1>1, <1>6, <2>1, <2>2 DEF ListReap
<1>7. ASSUME NEW p \in Procs, NEW r \in Sessions, KillOne(p, r) PROVE Deleted \/ (Values /\ Copies)
  <2>1. PICK x : x = [proc[p] EXCEPT !.found = @ \ {r}]
    OBVIOUS
  <2>2. x \in ListLocals
    BY <1>5, <1>7, <2>1, SMT DEF KillOne, At, ListLocals
  <2> QED
    BY <1>1, <1>7, <2>1, <2>2 DEF KillOne
<1>8. ASSUME NEW p \in Procs, NEW r \in Sessions, ListGet(p, r) PROVE Values /\ Copies
  <2>1. PICK x : x = IF Valid(r) THEN Listing(p, proc[p].todo \ {r}, proc[p].found \cup {r})
                     ELSE [proc[p] EXCEPT !.pc = IF store[r] = None THEN "srem" ELSE "listReap", !.s = r]
    OBVIOUS
  <2>2. x.pc # "set"
    BY <1>5, <1>8, <2>1 DEF ListGet, At, Listing, ListLocals
  <2> QED
    BY <1>2, <1>8, <2>1, <2>2 DEF ListGet
<1>9. ASSUME NEW p \in Procs, ListRem(p) PROVE Values /\ Copies
  <2>1. PICK x : x = Listing(p, proc[p].todo \ {proc[p].s}, proc[p].found)
    OBVIOUS
  <2>2. x.pc # "set"
    BY <1>5, <1>9, <2>1 DEF ListRem, At, Listing, ListLocals
  <2> QED
    BY <1>2, <1>9, <2>1, <2>2 DEF ListRem
<1>10. ASSUME NEW p \in Procs, UpdateSet(p) \/ KillEnds(p) PROVE Values /\ Copies
  BY <1>2, <1>10 DEF UpdateSet, KillEnds, Free
<1>11. ASSUME NEW p \in Procs, NEW r \in Sessions, GetExpired(p, r) PROVE Values /\ Copies
  BY <1>2, <1>11 DEF GetExpired
<1>12. ASSUME NEW p \in Procs, NEW keep, ListByUser(p, keep) PROVE Values /\ Copies
  BY <1>2, <1>12 DEF ListByUser
<1>13. CASE Tick \/ (\E a \in Absolutes : SetPolicy(a)) \/ UNCHANGED vars
  BY <1>13 DEF Tick, SetPolicy, vars
<1> HIDE DEF Deleted, Values, Copies
<1>14. CASE \E p \in Procs, r \in Sessions :
              \/ Login(p, r) \/ AuthMiddleware(p, r) \/ TouchProto(p, r) \/ stepUpHandler(p, r)
              \/ \E src \in Sessions : ssoHandler(p, r, src)
  BY <1>3, <1>14 DEF Bears
<1>15. CASE \E p \in Procs : CreateSave(p) \/ CreateIndex(p) \/ UpdateGet(p)
  BY <1>3, <1>15 DEF Bears
<1>16. CASE \E p \in Procs, r \in Sessions :
              GetExpired(p, r) \/ Delete(p, r) \/ ListGet(p, r) \/ KillOne(p, r)
  BY <1>4, <1>7, <1>8, <1>11, <1>16
<1>17. CASE \E p \in Procs :
              \/ Reap(p) \/ UpdateSet(p) \/ KillEnds(p) \/ ListRem(p) \/ ListReap(p)
              \/ \E keep \in Sessions \cup {None} : ListByUser(p, keep)
  BY <1>4, <1>6, <1>9, <1>10, <1>12, <1>17
<1> QED
  BY <1>13, <1>14, <1>15, <1>16, <1>17 DEF Next

(***************************************************************************)
(* What an update is about to save: what it has read, but for the last use *)
(* or the step-up time.                                                    *)
(***************************************************************************)
LEMMA UpdateCopies ==
  ASSUME TypeInv, NEW q \in Procs, UpdateGet(q), proc'[q].pc = "set"
  PROVE  /\ proc'[q].s = proc[q].s /\ proc[q].s \in minted /\ store[proc[q].s] # None
         /\ proc'[q].value.expires = store[proc[q].s].expires
         /\ proc'[q].value.revived = store[proc[q].s].revived
<1>1. proc[q] \in GetLocals /\ proc[q].s \in minted
  BY LocalsByLabel DEF UpdateGet, At, TypeInv, RequestOK
<1>2. store[proc[q].s] # None
  BY DEF UpdateGet, Go, Free, TypeInv
<1>3. PICK v : v = Update(store[proc[q].s], proc[q].op, proc[q].at)
  OBVIOUS
<1>4. proc'[q] = [pc |-> "set", s |-> proc[q].s, start |-> proc[q].start, op |-> proc[q].op, value |-> v]
  BY <1>2, <1>3 DEF UpdateGet, Go, TypeInv
<1>5. store[proc[q].s] \in Value /\ proc[q].op \in {"touch", "mark", "carry"}
  BY <1>1, <1>2 DEF TypeInv, GetLocals
<1>6. v.expires = store[proc[q].s].expires /\ v.revived = store[proc[q].s].revived
  BY <1>3, <1>5 DEF Update, Value
<1> QED
  BY <1>1, <1>2, <1>4, <1>6, SMT

(***************************************************************************)
(* A value that a request is about to save is the one it held, or one that *)
(* it has just read.                                                       *)
(***************************************************************************)
LEMMA CopyStep ==
  ASSUME TypeInv, [Next]_vars, NEW q \in Procs, proc'[q].pc = "set"
  PROVE  /\ \/ /\ At(q, "set") /\ proc'[q].s = proc[q].s
               /\ proc'[q].value.expires = proc[q].value.expires
               /\ proc[q].value.revived => proc'[q].value.revived
            \/ UpdateGet(q)
         /\ proc'[q].s \in minted
<1>1. CASE SameButMark(proc[q], proc'[q])
  <2>1. At(q, "set") /\ proc'[q].s = proc[q].s
    BY <1>1 DEF SameButMark, At, SetLocals
  <2>2. proc[q].s \in minted
    BY <2>1 DEF TypeInv, RequestOK, At
  <2> QED
    BY <1>1, <2>1, <2>2 DEF SameButMark
<1>2. ASSUME NEW x, Go(q, x), x.pc # "set" PROVE FALSE
  BY <1>2 DEF Go, TypeInv
<1>3. CASE Bears(q) /\ ~ UpdateGet(q)
  BY <1>2, <1>3 DEF Bears, Login, AuthMiddleware, TouchProto, stepUpHandler, ssoHandler, Request,
     CreateSave, CreateIndex, Free
<1>4. CASE UpdateGet(q)
  BY <1>4, UpdateCopies
<1> QED
  BY <1>1, <1>3, <1>4, LocalsStep

(***************************************************************************)
(* The value of a created session is replaced only by one that an update   *)
(* had read and that has time left.                                        *)
(***************************************************************************)
LEMMA ValueStep ==
  ASSUME TypeInv, [Next]_vars, NEW s \in minted
  PROVE  /\ now \in Nat /\ now' \in Nat /\ now <= now'
         /\ \/ store'[s] \in {store[s], None}
            \/ \E p \in Procs : /\ At(p, "set") /\ proc[p].s = s
                                /\ store'[s] = proc[p].value /\ now < proc[p].value.expires
                                /\ now' = now
<1>1. s \in Sessions /\ now \in Nat
  BY DEF TypeInv
<1>2. ASSUME NEW p \in Procs, CreateSave(p) PROVE store'[s] = store[s] /\ now' = now
  BY <1>1, <1>2 DEF CreateSave, TypeInv
<1>3. ASSUME NEW p \in Procs, UpdateSet(p)
      PROVE  /\ now' = now
             /\ \/ store'[s] = store[s]
                \/ /\ At(p, "set") /\ proc[p].s = s
                   /\ store'[s] = proc[p].value /\ now < proc[p].value.expires
  BY <1>1, <1>3 DEF UpdateSet, saves, TypeInv
<1>4. CASE Tick
  BY <1>1, <1>4, SMT DEF Tick
<1> QED
  BY <1>1, <1>2, <1>3, <1>4, StoreStep, SMT

(***************************************************************************)
(* What is deleted stays so: an update saves only a value that is marked,  *)
(* or that has no time left.                                               *)
(***************************************************************************)
LEMMA DeadStays ==
  ASSUME TypeInv, [Next]_vars, NEW s \in minted, Dead(s)
  PROVE  Dead(s)'
<1>1. now \in Nat /\ now' \in Nat /\ now <= now'
  BY ValueStep
<1>2. store'[s] # None => store'[s].revived
  <2>1. CASE store'[s] \in {store[s], None}
    BY <2>1 DEF Dead
  <2>2. ASSUME NEW p \in Procs, At(p, "set"), proc[p].s = s, store'[s] = proc[p].value,
               now < proc[p].value.expires
        PROVE  store'[s].revived
    <3>1. proc[p].value.expires \in Nat
      BY <2>2, LocalsByLabel DEF TypeInv, At, SetLocals, Value
    <3> QED
      BY <1>1, <2>2, <3>1, SMT DEF Dead
  <2> QED
    BY <2>1, <2>2, ValueStep
<1>3. ASSUME NEW q \in Procs, proc'[q].pc = "set", proc'[q].s = s
      PROVE  proc'[q].value.revived \/ proc'[q].value.expires <= now'
  <2>1. CASE UpdateGet(q)
    BY <1>3, <2>1, UpdateCopies DEF Dead
  <2>2. CASE /\ At(q, "set") /\ proc'[q].s = proc[q].s
             /\ proc'[q].value.expires = proc[q].value.expires
             /\ proc[q].value.revived => proc'[q].value.revived
    <3>1. proc[q].value.expires \in Nat
      BY <2>2, LocalsByLabel DEF TypeInv, At, SetLocals, Value
    <3> QED
      BY <1>1, <1>3, <2>2, <3>1, SMT DEF Dead
  <2> QED
    BY <1>3, <2>1, <2>2, CopyStep
<1> QED
  BY <1>2, <1>3 DEF Dead, At

(***************************************************************************)
(* No update moves the expiry of a session.                                *)
(***************************************************************************)
LEMMA ExpiryStays ==
  ASSUME TypeInv, [Next]_vars, NEW s \in minted, NEW e \in Nat, ExpiresAt(s, e)
  PROVE  ExpiresAt(s, e)'
<1>1. store'[s] # None => store'[s].expires = e
  BY ValueStep, SMT DEF ExpiresAt
<1>2. ASSUME NEW q \in Procs, proc'[q].pc = "set", proc'[q].s = s
      PROVE  proc'[q].value.expires = e
  BY <1>2, CopyStep, UpdateCopies DEF ExpiresAt
<1> QED
  BY <1>1, <1>2 DEF ExpiresAt, At

(***************************************************************************)
(* A DEL leaves no value of the session that an update could save unmarked. *)
(***************************************************************************)
LEMMA DelKills ==
  ASSUME TypeInv, NEW p \in Procs, NEW ids, NEW x \in {Free} \cup ListLocals, Del(p, ids, x),
         NEW s \in Sessions, s \in ids
  PROVE  Dead(s)'
<1>1. x \in Locals /\ x.pc # "set"
  BY SMT DEF Locals, Free, ListLocals
<1>2. store'[s] = None
  BY <1>1, DelEffect, SMT
<1>3. ASSUME NEW q \in Procs, proc'[q].pc = "set", proc'[q].s = s PROVE proc'[q].value.revived
  <2>1. q # p
    BY <1>1, <1>3, DelEffect, SMT
  <2> QED
    BY <1>1, <1>3, <2>1, DelEffect, SMT DEF At
<1> QED
  BY <1>2, <1>3 DEF Dead, At

(***************************************************************************)
(* A session that is not deleted stays so, or the step deletes it, or its  *)
(* time has run out for every copy of it.                                  *)
(***************************************************************************)
LEMMA FateStep ==
  ASSUME TypeInv, [Next]_vars, NEW s \in minted, NEW e \in Nat, ExpiresAt(s, e), Alive(s)
  PROVE  Dead(s)' \/ Alive(s)'
<1>1. s \in Sessions
  BY DEF TypeInv
<1>2. ASSUME NEW p \in Procs, NEW ids, NEW x \in {Free} \cup ListLocals, Del(p, ids, x), s \in ids
      PROVE  Dead(s)'
  BY <1>1, <1>2, DelKills
<1>3. ASSUME store'[s] = store[s] \/ (\E p \in Procs : CreateSave(p) \/ UpdateSet(p)) \/ Tick,
             \A q \in Procs : proc'[q].pc = "set" /\ proc'[q].s = s => proc'[q] = proc[q] \/ UpdateGet(q)
      PROVE  Dead(s)' \/ Alive(s)'
  <2>1. ASSUME NEW q \in Procs, proc'[q].pc = "set", proc'[q].s = s PROVE ~ proc'[q].value.revived
    BY <1>3, <2>1, UpdateCopies DEF Alive, At
  <2>2. ASSUME NEW p \in Procs, CreateSave(p) PROVE store'[s] = store[s]
    BY <1>1, <2>2 DEF CreateSave, TypeInv
  <2>3. ASSUME NEW p \in Procs, UpdateSet(p) PROVE store'[s] # None /\ ~ store'[s].revived
    <3>1. proc[p].value \in Value
      BY <2>3, LocalsByLabel DEF TypeInv, UpdateSet, At, SetLocals
    <3>2. proc[p].value # None
      BY <3>1, NoneAssumption
    <3> QED
      BY <1>1, <2>3, <3>2 DEF UpdateSet, Alive, TypeInv
  <2>4. CASE Tick
    <3>1. CASE store'[s] = store[s]
      BY <2>1, <3>1 DEF Alive, At
    <3>2. CASE store'[s] = None
      <4>1. e = now'
        BY <1>1, <2>4, <3>2 DEF Tick, ExpiresAt, Alive
      <4>2. \A q \in Procs : proc'[q].pc = "set" /\ proc'[q].s = s => proc'[q].value.expires = now'
        BY <2>4, <4>1 DEF Tick, ExpiresAt, At
      <4>3. now' <= now'
        BY ValueStep, SMT
      <4> QED
        BY <3>2, <4>2, <4>3 DEF Dead, At
    <3> QED
      BY <1>1, <2>4, <3>1, <3>2 DEF Tick
  <2>5. CASE store'[s] # None /\ ~ store'[s].revived
    BY <2>1, <2>5 DEF Alive, At
  <2> QED
    BY <1>3, <2>2, <2>3, <2>4, <2>5 DEF Alive
<1> QED
  BY <1>1, <1>2, <1>3, RemovalStep

(***************************************************************************)
(* A revocation that goes on loses sight of no session it is to delete.    *)
(***************************************************************************)
LEMMA RevocationStep ==
  ASSUME TypeInv, [Next]_vars, RevokeInv, NEW q \in Procs
  PROVE  RevocationOK(proc[q])'
<1> DEFINE Covers(x) ==
      /\ x.keep \notin x.goal /\ x.todo \subseteq x.listed
      /\ \A s \in x.listed \cup x.goal : Dead(s)' \/ s \in x.todo \/ s \in x.found
      /\ x.pc \in {"listReap", "srem"} => x.s \in x.listed
      /\ x.pc = "srem" => Dead(x.s)'
<1> SUFFICES ASSUME proc'[q].pc \in {"list", "listReap", "srem"} PROVE RevocationOK(proc[q])'
  BY DEF RevocationOK
<1>1. PICK x : x = proc'[q]
  OBVIOUS
<1>2. SUFFICES Covers(x)
  BY <1>1 DEF RevocationOK
<1>3. \A s \in minted : Dead(s) => Dead(s)'
  BY DeadStays
<1>4. PICK c : c = proc[q]
  OBVIOUS
<1>5. ASSUME c.pc \in {"list", "listReap", "srem"}
      PROVE  /\ c \in ListLocals /\ c.listed \subseteq minted /\ c.goal \subseteq minted
             /\ c.keep \notin c.goal /\ c.todo \subseteq c.listed
             /\ \A s \in c.listed \cup c.goal : Dead(s)' \/ s \in c.todo \/ s \in c.found
             /\ c.pc \in {"listReap", "srem"} => c.s \in c.listed
             /\ c.pc = "srem" => Dead(c.s)'
  <2>1. c \in ListLocals /\ c.listed \subseteq minted /\ c.goal \subseteq minted
    BY <1>4, <1>5, LocalsByLabel DEF TypeInv, RequestOK
  <2>2. RevocationOK(c)
    BY <1>4 DEF RevokeInv
  <2> QED
    BY <1>3, <1>5, <2>1, <2>2 DEF RevocationOK
<1>6. CASE SameButMark(proc[q], proc'[q])
  <2>1. x = c
    BY <1>1, <1>4, <1>6 DEF SameButMark, SetLocals
  <2> QED
    BY <1>1, <1>5, <2>1
<1>7. ASSUME NEW y, Go(q, y) PROVE x = y
  BY <1>1, <1>7 DEF Go, TypeInv
<1>8. CASE Bears(q)
  <2>1. ASSUME NEW y, Go(q, y), y.pc \notin {"list", "listReap", "srem"} PROVE FALSE
    BY <1>1, <1>7, <2>1
  <2>2. CASE UpdateGet(q)
    BY <2>1, <2>2 DEF UpdateGet, Free
  <2> QED
    BY <1>8, <2>1, <2>2 DEF Bears, Login, AuthMiddleware, TouchProto, stepUpHandler, ssoHandler, Request,
       CreateSave, CreateIndex, Free
<1>9. ASSUME NEW keep \in Sessions \cup {None}, ListByUser(q, keep) PROVE Covers(x)
  <2>1. PICK goal : goal = {s \in ready \ strayed : store[s] # None} \ {keep}
    OBVIOUS
  <2>2. x = [pc |-> "list", s |-> None, start |-> now, keep |-> keep, listed |-> index.ids,
             todo |-> index.ids, found |-> {}, goal |-> goal]
    BY <1>7, <1>9, <2>1 DEF ListByUser
  <2>3. ASSUME NEW s \in goal PROVE Dead(s)' \/ s \in index.ids
    <3>1. s \in minted /\ s \in ready /\ s \notin strayed
      BY <2>1, <2>3 DEF TypeInv
    <3>2. CASE Dead(s)
      BY <1>3, <3>1, <3>2
    <3>3. CASE Alive(s)
      BY <3>1, <3>3 DEF RevokeInv, Listed, Alive
    <3> QED
      BY <3>1, <3>2, <3>3 DEF RevokeInv
  <2> QED
    BY <2>1, <2>2, <2>3
<1>10. ASSUME NEW s \in Sessions, ListGet(q, s) PROVE Covers(x)
  <2>1. c.pc = "list" /\ s \in c.todo
    BY <1>4, <1>10 DEF ListGet, At
  <2>2. s \in minted
    BY <1>5, <2>1
  <2>3. CASE Valid(s)
    <3>1. x = [c EXCEPT !.pc = "list", !.todo = c.todo \ {s}, !.found = c.found \cup {s}]
      BY <1>4, <1>7, <1>10, <2>3 DEF ListGet, Listing
    <3>2. /\ x.pc = "list" /\ x.todo = c.todo \ {s} /\ x.found = c.found \cup {s}
          /\ x.keep = c.keep /\ x.goal = c.goal /\ x.listed = c.listed
      BY <1>5, <2>1, <3>1 DEF ListLocals
    <3> QED
      BY <1>5, <2>1, <3>2
  <2>4. CASE ~ Valid(s)
    <3>1. PICK pc : pc = IF store[s] = None THEN "srem" ELSE "listReap"
      OBVIOUS
    <3>2. x = [c EXCEPT !.pc = pc, !.s = s]
      BY <1>4, <1>7, <1>10, <2>4, <3>1 DEF ListGet
    <3>3. /\ x.pc = pc /\ x.s = s /\ x.todo = c.todo /\ x.found = c.found
          /\ x.keep = c.keep /\ x.goal = c.goal /\ x.listed = c.listed
      BY <1>5, <2>1, <3>2 DEF ListLocals
    <3>4. pc = "srem" => Dead(s)'
      BY <1>3, <2>2, <3>1 DEF RevokeInv, Alive
    <3> QED
      BY <1>5, <2>1, <3>3, <3>4
  <2> QED
    BY <2>3, <2>4
<1>11. ASSUME ListReap(q) PROVE Covers(x)
  <2>1. c.pc = "listReap"
    BY <1>4, <1>11 DEF ListReap, At
  <2>2. PICK y : y = [c EXCEPT !.pc = "srem"]
    OBVIOUS
  <2>3. /\ y \in ListLocals /\ y.pc = "srem" /\ y.s = c.s /\ y.todo = c.todo /\ y.found = c.found
        /\ y.keep = c.keep /\ y.goal = c.goal /\ y.listed = c.listed
    BY <1>5, <2>1, <2>2 DEF ListLocals
  <2>4. Del(q, {c.s}, y) /\ c.s \in Sessions
    BY <1>4, <1>5, <1>11, <2>1, <2>2 DEF ListReap, TypeInv
  <2>5. x = y
    BY <1>1, <2>4 DEF Del
  <2>6. Dead(c.s)'
    BY <2>3, <2>4, DelKills
  <2> QED
    BY <1>5, <2>1, <2>3, <2>5, <2>6
<1>12. ASSUME ListRem(q) PROVE Covers(x)
  <2>1. c.pc = "srem"
    BY <1>4, <1>12 DEF ListRem, At
  <2>2. x = [c EXCEPT !.pc = "list", !.todo = c.todo \ {c.s}, !.found = c.found]
    BY <1>4, <1>7, <1>12 DEF ListRem, Listing
  <2>3. /\ x.pc = "list" /\ x.todo = c.todo \ {c.s} /\ x.found = c.found
        /\ x.keep = c.keep /\ x.goal = c.goal /\ x.listed = c.listed
    BY <1>5, <2>1, <2>2 DEF ListLocals
  <2> QED
    BY <1>5, <2>1, <2>3
<1>13. ASSUME NEW s \in Sessions, KillOne(q, s) PROVE Covers(x)
  <2>1. c.pc = "list"
    BY <1>4, <1>13 DEF KillOne, At
  <2>2. PICK y : y = [c EXCEPT !.found = @ \ {s}]
    OBVIOUS
  <2>3. /\ y \in ListLocals /\ y.pc = "list" /\ y.todo = c.todo /\ y.found = c.found \ {s}
        /\ y.keep = c.keep /\ y.goal = c.goal /\ y.listed = c.listed
    BY <1>5, <2>1, <2>2 DEF ListLocals
  <2>4. Del(q, {s}, y)
    BY <1>4, <1>13, <2>2 DEF KillOne
  <2>5. x = y
    BY <1>1, <2>4 DEF Del
  <2>6. Dead(s)'
    BY <2>3, <2>4, DelKills
  <2> QED
    BY <1>5, <2>1, <2>3, <2>5, <2>6
<1> HIDE DEF Covers
<1> QED
  BY <1>6, <1>8, <1>9, <1>10, <1>11, <1>12, <1>13, LocalsStep DEF Lists

(***************************************************************************)
(* A revocation that ends has deleted all it listed and was to delete, but *)
(* for the session it keeps.                                               *)
(***************************************************************************)
LEMMA KillEndsDone ==
  ASSUME TypeInv, RevokeInv, NEW p \in Procs, KillEnds(p)
  PROVE  /\ proc[p].goal \subseteq minted /\ proc[p].keep \in Sessions \cup {None}
         /\ \A s \in proc[p].goal : Dead(s)
         /\ \A s \in proc[p].listed : Dead(s) \/ s = proc[p].keep
<1>1. PICK c : c = proc[p]
  OBVIOUS
<1>2. c.pc = "list" /\ c.todo = {} /\ c.found \subseteq {c.keep}
  BY <1>1 DEF KillEnds, At, Victims
<1>3. c \in ListLocals /\ c.goal \subseteq minted
  BY <1>1, <1>2, LocalsByLabel DEF TypeInv, RequestOK
<1>4. RevocationOK(c)
  BY <1>1 DEF RevokeInv
<1> QED
  BY <1>1, <1>2, <1>3, <1>4 DEF RevocationOK, ListLocals

(***************************************************************************)
(* The steps that change which sessions exist, are listed or were revoked. *)
(***************************************************************************)
LEMMA BookStep ==
  ASSUME [Next]_vars
  PROVE  \/ UNCHANGED <<index, strayed, ready, minted, killed>>
         \/ \E p \in Procs : CreateSave(p) \/ CreateIndex(p) \/ ListRem(p) \/ KillEnds(p)
         \/ Tick
<1> DEFINE Same == UNCHANGED <<index, strayed, ready, minted, killed>>
<1>1. ASSUME NEW p \in Procs, NEW s \in Sessions,
             \/ Login(p, s) \/ AuthMiddleware(p, s) \/ TouchProto(p, s) \/ GetExpired(p, s)
             \/ stepUpHandler(p, s) \/ Delete(p, s)
      PROVE  Same
  BY <1>1 DEF Login, AuthMiddleware, TouchProto, GetExpired, stepUpHandler, Delete
<1>2. ASSUME NEW p \in Procs, NEW s \in Sessions,
             ListGet(p, s) \/ KillOne(p, s) \/ \E src \in Sessions : ssoHandler(p, s, src)
      PROVE  Same
  BY <1>2 DEF ListGet, KillOne, ssoHandler
<1>3. ASSUME NEW p \in Procs, Reap(p) \/ UpdateGet(p) \/ UpdateSet(p) \/ ListReap(p) PROVE Same
  BY <1>3 DEF Reap, UpdateGet, UpdateSet, ListReap
<1>4. ASSUME NEW p \in Procs, NEW keep, ListByUser(p, keep) PROVE Same
  BY <1>4 DEF ListByUser
<1>5. CASE UNCHANGED vars \/ \E a \in Absolutes : SetPolicy(a)
  BY <1>5 DEF vars, SetPolicy
<1> HIDE DEF Same
<1> DEFINE Rest == \/ \E p \in Procs : CreateSave(p) \/ CreateIndex(p) \/ ListRem(p) \/ KillEnds(p)
                   \/ Tick
<1>6. CASE \E p \in Procs, s \in Sessions :
              \/ Login(p, s) \/ AuthMiddleware(p, s) \/ TouchProto(p, s) \/ GetExpired(p, s)
              \/ stepUpHandler(p, s) \/ Delete(p, s)
              \/ ListGet(p, s) \/ KillOne(p, s)
              \/ \E src \in Sessions : ssoHandler(p, s, src)
  <2>1. Same
    BY <1>1, <1>2, <1>6
  <2> QED
    BY <2>1 DEF Same
<1>7. CASE \E p \in Procs :
              \/ CreateSave(p) \/ CreateIndex(p) \/ Reap(p) \/ UpdateGet(p) \/ UpdateSet(p)
              \/ ListReap(p) \/ ListRem(p) \/ KillEnds(p)
              \/ \E keep \in Sessions \cup {None} : ListByUser(p, keep)
  <2>1. Same \/ Rest
    BY <1>3, <1>4, <1>7
  <2> QED
    BY <2>1 DEF Same
<1>8. CASE Same \/ Tick
  BY <1>8 DEF Same
<1> QED
  BY <1>5, <1>6, <1>7, <1>8 DEF Next

(***************************************************************************)
(* The user's set loses a session only when it is deleted, when a DEL of   *)
(* the set has missed it, or when it outlives the set.                     *)
(***************************************************************************)
LEMMA ListedStep ==
  ASSUME TypeInv, CapInv, RevokeInv, [Next]_vars
  PROVE  Listed'
<1> SUFFICES ASSUME NEW s \in ready', store'[s] # None, ~ store'[s].revived
             PROVE  s \in index'.ids \cup strayed'
  BY DEF Listed
<1>1. ASSUME NEW p \in Procs, CreateIndex(p), s \notin ready PROVE s \in index'.ids
  BY <1>1 DEF CreateIndex, SAdd
<1>2. ASSUME s \in ready
      PROVE  s \in Sessions /\ s \in minted /\ ~ Dead(s) /\ store[s] # None /\ s \in index.ids \cup strayed
  <2>1. s \in Sessions /\ s \in minted
    BY <1>2 DEF TypeInv
  <2>2. ~ Dead(s)
    <3>1. ~ Dead(s)'
      BY DEF Dead
    <3> QED
      BY <2>1, <3>1, DeadStays
  <2>3. Alive(s)
    BY <2>1, <2>2 DEF RevokeInv
  <2> QED
    BY <1>2, <2>1, <2>2, <2>3 DEF RevokeInv, Listed, Alive
<1>3. CASE s \in ready /\ UNCHANGED <<index, strayed>>
  BY <1>2, <1>3
<1>4. ASSUME NEW p \in Procs, s \in ready, CreateIndex(p) PROVE s \in index'.ids \cup strayed'
  BY <1>2, <1>4 DEF CreateIndex, SAdd
<1>5. ASSUME NEW p \in Procs, s \in ready, ListRem(p) PROVE s \in index'.ids \cup strayed'
  <2>1. Dead(proc[p].s)
    BY <1>5 DEF RevokeInv, RevocationOK, ListRem, At
  <2>2. index'.ids = index.ids \ {proc[p].s} /\ strayed' = strayed
    BY <1>5 DEF ListRem, TypeInv
  <2> QED
    BY <1>2, <1>5, <2>1, <2>2
<1>6. ASSUME NEW p \in Procs, s \in ready, KillEnds(p) PROVE s \in index'.ids \cup strayed'
  <2>1. CASE proc[p].keep = None
    BY <1>2, <1>6, <2>1, KillEndsDone DEF KillEnds
  <2>2. CASE proc[p].keep # None
    BY <1>2, <1>6, <2>2 DEF KillEnds
  <2> QED
    BY <2>1, <2>2
<1>7. ASSUME s \in ready, Tick PROVE s \in index'.ids \cup strayed'
  <2>1. store[s] \in Value /\ store[s].expires \in Nat /\ now \in Nat /\ index.exp \in Nat
    BY <1>2, <1>7 DEF TypeInv, Value
  <2>2. store[s].expires # now + 1 /\ now < store[s].expires
    BY <1>2, <1>7 DEF Tick, CapInv
  <2>3. CASE index.exp <= now + 1
    <3>1. Outlives(s)
      BY <1>2, <1>7, <2>1, <2>2, <2>3, SMT DEF Outlives
    <3> QED
      BY <1>2, <1>7, <2>3, <3>1 DEF Tick
  <2>4. CASE ~ (index.exp <= now + 1)
    BY <1>2, <1>7, <2>4 DEF Tick
  <2> QED
    BY <2>3, <2>4
<1>8. ASSUME NEW p \in Procs, CreateSave(p) PROVE UNCHANGED <<index, strayed, ready>>
  BY <1>8 DEF CreateSave
<1>9. ASSUME Tick \/ \E p \in Procs : ListRem(p) \/ KillEnds(p) PROVE s \in ready
  BY <1>9 DEF ListRem, KillEnds, Tick
<1> QED
  BY <1>1, <1>3, <1>4, <1>5, <1>6, <1>7, <1>8, <1>9, BookStep

(***************************************************************************)
(* Every step keeps the invariant of revocation.                           *)
(***************************************************************************)
LEMMA RevokeStep ==
  ASSUME TypeInv, CapInv, RevokeInv, [Next]_vars
  PROVE  RevokeInv'
<1>1. minted' = minted \/ \E p \in Procs : CreateSave(p)
  BY BookStep DEF CreateIndex, ListRem, KillEnds, Tick
<1>2. ASSUME NEW s \in minted', s \notin minted
      PROVE  Alive(s)' /\ \E e \in Nat : ExpiresAt(s, e)'
  <2>1. PICK p \in Procs : CreateSave(p) /\ s = proc[p].s
    BY <1>1, <1>2 DEF CreateSave
  <2>2. s \in Sessions
    BY <2>1, LocalsByLabel DEF CreateSave, At, TypeInv, SaveLocals
  <2>3. PICK v : v = [expires |-> now + absolute, last |-> now, mfa |-> None, revived |-> FALSE]
    OBVIOUS
  <2>4. now + absolute \in Nat /\ now \in Nat
    BY SMT DEF TypeInv
  <2>5. v \in Value /\ v.expires \in Nat /\ ~ v.revived
    BY <2>3, <2>4 DEF Value
  <2>6. store'[s] = v
    BY <2>1, <2>2, <2>3 DEF CreateSave, TypeInv
  <2>7. \A q \in Procs : proc'[q].pc = "set" => proc'[q].s # s
    BY <1>2, CopyStep
  <2> QED
    BY <2>5, <2>6, <2>7, NoneAssumption DEF Alive, ExpiresAt, At
<1>3. \A s \in minted' : \E e \in Nat : ExpiresAt(s, e)'
  <2>1. ASSUME NEW s \in minted PROVE \E e \in Nat : ExpiresAt(s, e)'
    <3>1. PICK e \in Nat : ExpiresAt(s, e)
      BY DEF RevokeInv
    <3> QED
      BY <3>1, ExpiryStays
  <2> QED
    BY <1>2, <2>1
<1>4. \A s \in minted' : Dead(s)' \/ Alive(s)'
  <2>1. ASSUME NEW s \in minted PROVE Dead(s)' \/ Alive(s)'
    <3>1. PICK e \in Nat : ExpiresAt(s, e)
      BY DEF RevokeInv
    <3> QED
      BY <3>1, FateStep, DeadStays DEF RevokeInv
  <2> QED
    BY <1>2, <2>1
<1>5. \A s \in killed' : Dead(s)'
  <2>1. ASSUME NEW s \in killed PROVE Dead(s)'
    <3>1. s \in minted /\ Dead(s)
      BY DEF RevokeInv, TypeInv
    <3> QED
      BY <3>1, DeadStays
  <2>2. ASSUME NEW p \in Procs, KillEnds(p) PROVE \A s \in killed' : Dead(s)'
    <3>1. \A s \in proc[p].goal : Dead(s)'
      BY <2>2, KillEndsDone, DeadStays
    <3>2. killed' = killed \cup proc[p].goal
      BY <2>2 DEF KillEnds
    <3> QED
      BY <2>1, <3>1, <3>2
  <2>3. killed' = killed \/ \E p \in Procs : KillEnds(p)
    BY BookStep DEF CreateSave, CreateIndex, ListRem, Tick
  <2> QED
    BY <2>1, <2>2, <2>3
<1>6. \A p \in Procs : RevocationOK(proc[p])'
  BY RevocationStep
<1>7. Listed'
  BY ListedStep
<1> QED
  BY <1>3, <1>4, <1>5, <1>6, <1>7 DEF RevokeInv

-----------------------------------------------------------------------------

(***************************************************************************)
(* The invariant of sessions: what is stored and what requests hold, in    *)
(* every state of Create, Get, Touch, MarkMFAVerified and DeleteAllByUser. *)
(***************************************************************************)
THEOREM SessionInvariant == Spec => []SessionInv
<1>1. Init => SessionInv
  <2> SUFFICES ASSUME Init PROVE SessionInv
    OBVIOUS
  <2>1. TypeInv
    BY SMT DEF Init, TypeInv, Locals, RequestOK, Free
  <2>2. CapInv /\ UsedInv /\ ProofInv
    BY SMT DEF Init, CapInv, UsedInv, TouchOK, ProofInv, ProofOK, Free
  <2>3. RevokeInv
    BY DEF Init, RevokeInv, RevocationOK, Free, Listed
  <2> QED
    BY <2>1, <2>2, <2>3 DEF SessionInv
<1>2. SessionInv /\ [Next]_vars => SessionInv'
  BY TypeStep, CapStep, UsedStep, ProofStep, RevokeStep DEF SessionInv
<1> QED
  BY <1>1, <1>2, PTL DEF Spec

(***************************************************************************)
(* No session outlives its absolute timeout, and none that was idle for    *)
(* longer than the idle timeout is served again, for any number of         *)
(* sessions, of concurrent updates and of policy changes (save, Touch).    *)
(***************************************************************************)
THEOREM SessionLapses == Spec => []Lapses
<1>1. SessionInv => Lapses
  <2> SUFFICES ASSUME SessionInv, NEW s \in minted, store[s] # None
               PROVE  /\ now < store[s].expires
                      /\ ~ expired(store[s]) => now <= used[s] + Idle + MaxFlight
    BY DEF Lapses, AbsoluteCap, IdleOut, Valid
  <2>1. s \in Sessions /\ now \in Nat /\ store[s] \in Value /\ used[s] \in Nat
    BY DEF SessionInv, TypeInv
  <2>2. now < store[s].expires /\ store[s].last <= used[s] + MaxFlight /\ store[s].last \in Nat
    BY <2>1 DEF SessionInv, CapInv, UsedInv, Value
  <2> QED
    BY <2>1, <2>2, SMT DEF expired
<1> QED
  BY <1>1, SessionInvariant, PTL

(***************************************************************************)
(* A session that DeleteAllByUser was to remove stays gone unless an       *)
(* update crossed the DEL; every live session is listed for the next one,  *)
(* but for the three kinds that Listed names; and a step-up time is one at *)
(* which the user passed a second factor, whatever bridges carried it on.  *)
(***************************************************************************)
THEOREM SessionRevoked == Spec => []Revoked
<1>1. SessionInv => Revoked
  <2> SUFFICES ASSUME SessionInv PROVE RevokedUnlessCrossed /\ Listed /\ StepUpHonest
    BY DEF Revoked
  <2>1. RevokedUnlessCrossed /\ Listed
    BY DEF SessionInv, RevokeInv, Dead, RevokedUnlessCrossed
  <2>2. minted \subseteq Sessions
    BY DEF SessionInv, TypeInv
  <2>3. StepUpHonest
    BY <2>2 DEF SessionInv, ProofInv, Proven, StepUpHonest
  <2> QED
    BY <2>1, <2>3
<1> QED
  BY <1>1, SessionInvariant, PTL
=============================================================================
