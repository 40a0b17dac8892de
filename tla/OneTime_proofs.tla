---------------------------- MODULE OneTime_proofs ----------------------------
(***************************************************************************)
(* Proofs about stores of one-time tokens: mailed links and CAS tickets    *)
(* implement OneTime, a verified address was proven, and mails stay within *)
(* the throttle; for any number of concurrent requests, tokens, addresses, *)
(* applications and tickets.                                               *)
(***************************************************************************)
EXTENDS OneTimeCodes, CAS, FiniteSetTheorems, TLAPS

\* Most leaves are first-order; the ones that need more name their prover.
USE Zenon

Row == [email : Emails, verified : BOOLEAN]

Link == [id : 1 .. MaxTokens, kind : Mailed \cup {"verify"}, email : Emails]

\* What a request is at, label by label.
Sending == [op : {"record", "issue"}, kind : Mailed, late : BOOLEAN]
Comparing == [op : {"compare"}, token : Link]
Marking == [op : {"mark"}, token : Link, seen : Emails]
Saving == [op : {"save"}, row : Row]
Texting == [op : {"sms", "clear"}]

Request == {Idle} \cup Sending \cup Comparing \cup Marking \cup Saving \cup Texting

Shape ==
    /\ user \in Row
    /\ tokens \subseteq Link
    /\ count \in [Mailed -> Nat] /\ mails \in [Mailed -> Nat]
    /\ last \in [token : 0 .. MaxTokens, code : Nat]
    /\ req \in [Workers -> Request]

LEMMA ByLabel ==
  ASSUME NEW r \in Request
  PROVE  /\ r.op \in {"record", "issue"} => r \in Sending
         /\ r.op = "compare" => r \in Comparing
         /\ r.op = "mark" => r \in Marking
         /\ r.op = "save" => r \in Saving
  BY SMT DEF Request, Idle, Sending, Comparing, Marking, Saving, Texting

LEMMA NextShape ==
  ASSUME Shape, [Next]_vars
  PROVE  Shape'
  <1> USE OneTimeCodesAssumption
  <1>1. CASE UNCHANGED vars
    BY <1>1 DEF Shape, vars
  <1>2. CASE ExpireSMS
    BY <1>2 DEF Shape, ExpireSMS, links, account
  <1>3. ASSUME NEW t \in tokens, Expire(t) PROVE Shape'
    BY <1>3 DEF Shape, Expire, account
  <1>4. ASSUME NEW k \in Mailed, WindowEnds(k) PROVE Shape'
    <2>1. req' \in [Workers -> Request]
      <3>1. ASSUME NEW w \in Workers, req[w].op = "issue"
            PROVE  [req[w] EXCEPT !.late = @ \/ req[w].kind = k] \in Request
        <4>1. req[w] \in Sending
          BY <3>1, ByLabel DEF Shape
        <4> QED BY <4>1 DEF Sending, Request
      <3> QED BY <1>4, <3>1 DEF WindowEnds, Shape
    <2>2. count' \in [Mailed -> Nat] /\ mails' \in [Mailed -> Nat]
      BY <1>4 DEF WindowEnds, Shape
    <2> QED BY <1>4, <2>1, <2>2 DEF Shape, WindowEnds, links, account
  <1>5. ASSUME NEW e \in Emails, AdminUpdate(e) PROVE Shape'
    BY <1>5 DEF Shape, AdminUpdate, links, Row
  <1>6. ASSUME NEW w \in Workers, RecordSend(w) PROVE Shape'
    <2>1. req[w] \in Sending
      BY <1>6, ByLabel DEF RecordSend, Shape
    <2>2. Idle \in Request /\ [req[w] EXCEPT !.op = "issue"] \in Request
      BY <2>1 DEF Sending, Request
    <2>3. count' \in [Mailed -> Nat]
      BY <1>6, <2>1, SMT DEF RecordSend, Shape, Sending
    <2> QED BY <1>6, <2>2, <2>3 DEF RecordSend, Shape, Goto, links, account
  <1>7. ASSUME NEW w \in Workers, IssueToken(w) PROVE Shape'
    <2>1. req[w] \in Sending
      BY <1>7, ByLabel DEF IssueToken, Shape
    <2>2. last' \in [token : 0 .. MaxTokens, code : Nat]
      BY <1>7, SMT DEF IssueToken, Shape
    <2>3. tokens' \subseteq Link
      BY <1>7, <2>1, SMT DEF IssueToken, Shape, Link, Sending, Row
    <2>4. mails' \in [Mailed -> Nat]
      BY <1>7, <2>1, SMT DEF IssueToken, Shape, Sending
    <2>5. req' \in [Workers -> Request]
      BY <1>7 DEF IssueToken, Shape, Goto, Request
    <2> QED BY <1>7, <2>2, <2>3, <2>4, <2>5 DEF IssueToken, Shape, account
  <1>8. ASSUME NEW w \in Workers, sendVerification(w) PROVE Shape'
    <2>1. last' \in [token : 0 .. MaxTokens, code : Nat]
      BY <1>8, SMT DEF sendVerification, Shape
    <2>2. tokens' \subseteq Link
      BY <1>8, SMT DEF sendVerification, Shape, Link, Row
    <2> QED BY <1>8, <2>1, <2>2 DEF sendVerification, Shape, account
  <1>9. ASSUME NEW w \in Workers, CompareEmail(w) PROVE Shape'
    <2>1. req[w] \in Comparing
      BY <1>9, ByLabel DEF CompareEmail, Shape
    <2>2. Idle \in Request /\ [op |-> "mark", token |-> req[w].token, seen |-> user.email] \in Request
      BY <2>1 DEF Comparing, Marking, Request, Shape, Row
    <2> QED BY <1>9, <2>2 DEF CompareEmail, Shape, Goto, links, account
  <1>10. ASSUME NEW w \in Workers, MarkEmailVerified(w) PROVE Shape'
    <2>1. Idle \in Request /\ [op |-> "save", row |-> [user EXCEPT !.verified = TRUE]] \in Request
      BY DEF Saving, Request, Shape, Row
    <2> QED BY <1>10, <2>1 DEF MarkEmailVerified, Shape, Goto
  <1>11. ASSUME NEW w \in Workers, SaveUser(w) PROVE Shape'
    <2>1. req[w] \in Saving /\ Idle \in Request
      BY <1>11, ByLabel DEF SaveUser, Shape, Request
    <2> QED BY <1>11, <2>1 DEF SaveUser, Shape, Goto, Saving, links
  <1>12. ASSUME NEW w \in Workers, SendSMS(w) PROVE Shape'
    <2>1. [op |-> "sms"] \in Request
      BY DEF Texting, Request
    <2> QED BY <1>12, <2>1 DEF SendSMS, Shape, Start, links, account
  <1>13. ASSUME NEW w \in Workers, StoreCode(w) PROVE Shape'
    BY <1>13, SMT DEF StoreCode, Shape, Goto, links, account, Request
  <1>14. ASSUME NEW w \in Workers, ClearCode(w) PROVE Shape'
    BY <1>14 DEF ClearCode, Shape, Goto, links, account, Request
  <1>15. ASSUME NEW w \in Workers, NEW k \in Mailed, Send(w, k) PROVE Shape'
    <2>1. [op |-> "record", kind |-> k, late |-> FALSE] \in Request
      BY DEF Sending, Request
    <2> QED BY <1>15, <2>1 DEF Send, Shape, Start, links, account
  <1>16. ASSUME NEW w \in Workers, NEW t \in tokens, consumeToken(w, t) PROVE Shape'
    <2>1. [op |-> "compare", token |-> t] \in Request
      BY DEF Comparing, Request, Shape
    <2>2. tokens' \subseteq Link
      BY <1>16 DEF consumeToken, GetDel, Shape
    <2>3. req' \in [Workers -> Request]
      BY <1>16, <2>1 DEF consumeToken, Start, Shape
    <2> QED BY <1>16, <2>2, <2>3 DEF consumeToken, Shape, account
  <1>17. ASSUME NEW w \in Workers, NEW e \in Emails, UpdateProfile(w, e) PROVE Shape'
    <2>1. [op |-> "save", row |-> Edited(e)] \in Request
      BY DEF Saving, Request, Edited, Row, Shape
    <2> QED BY <1>17, <2>1 DEF UpdateProfile, Shape, Start, links, account
  <1>18. ASSUME NEW w \in Workers, NEW c \in 1 .. last.code, consumeCode(w, c) PROVE Shape'
    <2>1. [op |-> "clear"] \in Request
      BY DEF Texting, Request
    <2> QED BY <1>18, <2>1 DEF consumeCode, Shape, Start, links, account
  <1> QED BY <1>1, <1>2, <1>3, <1>4, <1>5, <1>6, <1>7, <1>8, <1>9, <1>10, <1>11, <1>12, <1>13,
             <1>14, <1>15, <1>16, <1>17, <1>18 DEF Next

(***************************************************************************)
(* Links are one-time tokens.  A link is in the store or in the hands of   *)
(* one request, never both, and its identifier is no other link's; that is *)
(* what makes a request's effect the last use of its link.                 *)
(***************************************************************************)

Holding(w) == req[w].op \in {"compare", "mark"}

Live == {t.id : t \in tokens}
Taken == {req[w].token.id : w \in {v \in Workers : req[v].op \in {"compare", "mark"}}}

LinkInv ==
    /\ \A t \in tokens : t.id <= last.token
    /\ \A t, u \in tokens : t.id = u.id => t = u
    /\ \A w \in Workers : Holding(w) =>
          req[w].token.id <= last.token /\ \A t \in tokens : t.id # req[w].token.id
    /\ \A v, w \in Workers :
          Holding(v) /\ Holding(w) /\ req[v].token.id = req[w].token.id => v = w

\* No request takes a link or lets one go.
SameHands ==
    \A w \in Workers :
        /\ Holding(w)' <=> Holding(w)
        /\ Holding(w) => req'[w].token = req[w].token

LEMMA HeldLink ==
  ASSUME Shape, NEW w \in Workers, Holding(w)
  PROVE  req[w].token \in Link /\ req[w].token.id \in 1 .. MaxTokens /\ req[w].token.id \in Taken
  <1>1. req[w] \in Comparing \/ req[w] \in Marking
    BY ByLabel DEF Shape, Holding
  <1>2. req[w].token \in Link
    BY <1>1 DEF Comparing, Marking
  <1> QED BY <1>2 DEF Link, Taken, Holding

LEMMA TakenFrame ==
  ASSUME SameHands
  PROVE  Taken' = Taken
  BY DEF SameHands, Taken, Holding

LEMMA LinkFrame ==
  ASSUME Shape, Shape', LinkInv, SameHands, UNCHANGED links, last'.token = last.token
  PROVE  LinkInv' /\ UNCHANGED OT!vars
  <1>1. Taken' = Taken
    BY TakenFrame
  <1>2. LinkInv'
    BY SMT DEF LinkInv, SameHands, Holding, links
  <1>3. Live' = Live
    BY DEF Live, links
  <1> QED BY <1>1, <1>2, <1>3 DEF OT!vars, Live, Taken, links

LEMMA LinkIssue ==
  ASSUME Shape, Shape', LinkInv, SameHands, last.token < MaxTokens,
         last'.token = last.token + 1, UNCHANGED honoured,
         NEW t \in Link, t.id = last.token + 1, tokens' = tokens \cup {t}
  PROVE  LinkInv' /\ OT!Next
  <1>0. last.token \in Nat /\ MaxTokens \in Nat /\ \A u \in tokens : u.id \in Nat
    BY OneTimeCodesAssumption, SMT DEF Shape, Link
  <1>h. \A w \in Workers : Holding(w) => req[w].token.id \in Nat
    BY HeldLink, SMT
  <1>1. Taken' = Taken
    BY TakenFrame
  <1>2. Live' = Live \cup {last.token + 1}
    BY DEF Live
  <1>3. LinkInv'
    <2>1. (\A u \in tokens : u.id <= last.token)'
      BY <1>0, SMT DEF LinkInv
    <2>2. (\A u, v \in tokens : u.id = v.id => u = v)'
      BY <1>0, SMT DEF LinkInv
    <2>3. \A w \in Workers : Holding(w)' =>
             req'[w].token.id <= last'.token /\ \A u \in tokens' : u.id # req'[w].token.id
      BY <1>0, <1>h, SMT DEF LinkInv, SameHands
    <2>4. (\A v, w \in Workers :
             Holding(v) /\ Holding(w) /\ req[v].token.id = req[w].token.id => v = w)'
      BY DEF LinkInv, SameHands, Holding
    <2> QED BY <2>1, <2>2, <2>3, <2>4 DEF LinkInv, Holding
  <1>4. (last'.token + 1) .. MaxTokens = ((last.token + 1) .. MaxTokens) \ {last.token + 1}
    BY <1>0, SMT
  <1>5. last.token + 1 \in 1 .. MaxTokens /\ last.token + 1 \in (last.token + 1) .. MaxTokens
    BY <1>0, SMT
  <1>6. PICK n \in 1 .. MaxTokens : n = last.token + 1
    BY <1>5
  <1>7. /\ n \in (last.token + 1) .. MaxTokens /\ Live' = Live \cup {n}
        /\ (last'.token + 1) .. MaxTokens = ((last.token + 1) .. MaxTokens) \ {n}
    BY <1>2, <1>4, <1>5, <1>6
  <1>8. OT!Issue(n)
    BY <1>1, <1>7 DEF OT!Issue, Live, Taken
  <1> QED BY <1>3, <1>8 DEF OT!Next

\* The link leaves the store; who holds which does not change.
LEMMA LinkLeaves ==
  ASSUME Shape, LinkInv, NEW t \in tokens, tokens' = tokens \ {t}
  PROVE  /\ t.id \in Live /\ Live' = Live \ {t.id} /\ t.id \in 1 .. MaxTokens
         /\ t.id \notin Taken
  <1>1. t.id \in Live /\ Live' = Live \ {t.id}
    BY DEF Live, LinkInv
  <1>2. t.id \in 1 .. MaxTokens
    BY DEF Shape, Link
  <1>3. t.id \notin Taken
    BY DEF Taken, LinkInv, Holding
  <1> QED BY <1>1, <1>2, <1>3

LEMMA LinkLeavesInv ==
  ASSUME Shape, LinkInv, NEW t \in tokens, tokens' = tokens \ {t}, SameHands,
         last'.token = last.token
  PROVE  LinkInv'
  BY SMT DEF LinkInv, SameHands, Holding

\* A request lets go of its link.
LEMMA LinkReleased ==
  ASSUME Shape, LinkInv, UNCHANGED tokens, last'.token = last.token,
         NEW w \in Workers, Holding(w), ~ Holding(w)',
         \A v \in Workers \ {w} : req'[v] = req[v]
  PROVE  /\ LinkInv'
         /\ Live' = Live /\ Taken' = Taken \ {req[w].token.id}
         /\ req[w].token.id \in Taken /\ req[w].token.id \notin Live
         /\ req[w].token.id \in 1 .. MaxTokens
  <1>1. LinkInv'
    BY SMT DEF LinkInv, Holding
  <1>2. Live' = Live /\ req[w].token.id \notin Live
    BY DEF Live, LinkInv
  <1>3. Taken' = Taken \ {req[w].token.id}
    BY SMT DEF Taken, LinkInv, Holding
  <1> QED BY <1>1, <1>2, <1>3, HeldLink

LEMMA LinkStep ==
  ASSUME Shape, Shape', LinkInv, [Next]_vars
  PROVE  LinkInv' /\ [OT!Next]_(OT!vars)
  <1> DEFINE Goal == LinkInv' /\ [OT!Next]_(OT!vars)
  <1> SUFFICES Goal OBVIOUS
  <1>f. ASSUME SameHands, UNCHANGED links, last'.token = last.token PROVE Goal
    BY <1>f, LinkFrame
  <1>r. DOMAIN req = Workers
    BY DEF Shape
  <1>1. CASE UNCHANGED vars
    <2>1. SameHands
      BY <1>1 DEF SameHands, Holding, vars
    <2>2. UNCHANGED links /\ last' = last
      BY <1>1 DEF vars, links
    <2> QED BY <1>f, <2>1, <2>2
  <1>2. CASE ExpireSMS
    <2>1. SameHands
      BY <1>2 DEF SameHands, Holding, ExpireSMS
    <2>2. UNCHANGED links /\ last' = last
      BY <1>2 DEF ExpireSMS
    <2> QED BY <1>f, <2>1, <2>2
  <1>3. ASSUME NEW t \in tokens, Expire(t) PROVE Goal
    <2>1. /\ SameHands /\ last' = last /\ tokens' = tokens \ {t} /\ honoured' = honoured
      BY <1>3 DEF SameHands, Holding, Expire
    <2>2. LinkInv'
      BY <2>1, LinkLeavesInv
    <2>3. /\ t.id \in Live /\ Live' = Live \ {t.id} /\ t.id \in 1 .. MaxTokens
          /\ t.id \notin Taken /\ Taken' = Taken
      BY <2>1, LinkLeaves, TakenFrame
    <2>4. PICK n \in 1 .. MaxTokens : n = t.id
      BY <2>3
    <2>5. OT!Lapse(n)
      <3>1. n \in Live /\ Live' = Live \ {n} /\ Taken' = Taken \ {n}
        BY <2>3, <2>4
      <3>2. last' = last /\ honoured' = honoured
        BY <2>1
      <3> QED BY <3>1, <3>2 DEF OT!Lapse, Live, Taken
    <2> QED BY <2>2, <2>5 DEF OT!Next
  <1>4. ASSUME NEW k \in Mailed, WindowEnds(k) PROVE Goal
    <2>1. SameHands
      <3>1. ASSUME NEW w \in Workers PROVE req'[w].op = req[w].op /\ (req[w].op # "issue" => req'[w] = req[w])
        <4>1. CASE req[w].op = "issue"
          <5>1. req[w] \in Sending
            BY <4>1, ByLabel DEF Shape
          <5> QED BY <1>4, <4>1, <5>1 DEF WindowEnds, Sending
        <4>2. CASE req[w].op # "issue"
          BY <1>4, <4>2 DEF WindowEnds
        <4> QED BY <4>1, <4>2
      <3> QED BY <3>1 DEF SameHands, Holding
    <2>2. UNCHANGED links /\ last' = last
      BY <1>4 DEF WindowEnds
    <2> QED BY <1>f, <2>1, <2>2
  <1>5. ASSUME NEW e \in Emails, AdminUpdate(e) PROVE Goal
    <2>1. SameHands /\ UNCHANGED links /\ last' = last
      BY <1>5 DEF SameHands, Holding, AdminUpdate
    <2> QED BY <1>f, <2>1
  <1>6. ASSUME NEW w \in Workers, RecordSend(w) PROVE Goal
    <2>1. req[w] \in Sending
      BY <1>6, ByLabel DEF RecordSend, Shape
    <2>2. SameHands
      BY <1>6, <1>r, <2>1 DEF RecordSend, Goto, SameHands, Holding, Idle, Sending
    <2>3. UNCHANGED links /\ last' = last
      BY <1>6 DEF RecordSend
    <2> QED BY <1>f, <2>2, <2>3
  <1>7. ASSUME NEW w \in Workers, IssueToken(w) PROVE Goal
    <2>1. req[w] \in Sending
      BY <1>7, ByLabel DEF IssueToken, Shape
    <2>2. SameHands
      BY <1>7, <1>r DEF IssueToken, Goto, SameHands, Holding, Idle
    <2>3. PICK t : t = [id |-> last.token + 1, kind |-> req[w].kind, email |-> user.email]
      OBVIOUS
    <2>4. t \in Link /\ t.id = last.token + 1
      BY <1>7, <2>1, <2>3, OneTimeCodesAssumption DEF IssueToken, Link, Sending, Shape, Row
    <2>5. tokens' = tokens \cup {t} /\ UNCHANGED honoured /\ last.token < MaxTokens
      BY <1>7, <2>3 DEF IssueToken
    <2>6. last'.token = last.token + 1
      BY <1>7 DEF IssueToken, Shape
    <2> QED BY <2>2, <2>4, <2>5, <2>6, LinkIssue
  <1>8. ASSUME NEW w \in Workers, sendVerification(w) PROVE Goal
    <2>2. SameHands
      BY <1>8 DEF sendVerification, SameHands, Holding
    <2>3. PICK t : t = [id |-> last.token + 1, kind |-> "verify", email |-> user.email]
      OBVIOUS
    <2>4. t \in Link /\ t.id = last.token + 1
      BY <1>8, <2>3, OneTimeCodesAssumption DEF sendVerification, Link, Shape, Row
    <2>5. tokens' = tokens \cup {t} /\ UNCHANGED honoured /\ last.token < MaxTokens
      BY <1>8, <2>3 DEF sendVerification
    <2>6. last'.token = last.token + 1
      BY <1>8 DEF sendVerification, Shape
    <2> QED BY <2>2, <2>4, <2>5, <2>6, LinkIssue
  <1>9. ASSUME NEW w \in Workers, CompareEmail(w) PROVE Goal
    <2>0. Holding(w) /\ UNCHANGED links /\ last' = last
      BY <1>9 DEF CompareEmail, Holding
    <2>1. CASE SameEmail(req[w].token)
      <3>1. SameHands
        BY <1>9, <1>r, <2>1 DEF CompareEmail, Goto, SameHands, Holding
      <3> QED BY <1>f, <2>0, <3>1
    <2>2. CASE ~ SameEmail(req[w].token)
      <3>1. ~ Holding(w)' /\ \A v \in Workers \ {w} : req'[v] = req[v]
        BY <1>9, <1>r, <2>2 DEF CompareEmail, Goto, Holding, Idle
      <3>2. /\ LinkInv'
            /\ Live' = Live /\ Taken' = Taken \ {req[w].token.id}
            /\ req[w].token.id \in Taken /\ req[w].token.id \notin Live
            /\ req[w].token.id \in 1 .. MaxTokens
        BY <2>0, <3>1, LinkReleased DEF links
      <3>3. PICK n \in 1 .. MaxTokens : n = req[w].token.id
        BY <3>2
      <3>4. n \in Taken /\ Live' = Live \ {n} /\ Taken' = Taken \ {n}
        BY <3>2, <3>3
      <3>5. OT!Lapse(n)
        BY <2>0, <3>4 DEF OT!Lapse, Live, Taken, links
      <3> QED BY <3>2, <3>5 DEF OT!Next
    <2> QED BY <2>1, <2>2
  <1>10. ASSUME NEW w \in Workers, MarkEmailVerified(w) PROVE Goal
    <2>1. /\ Holding(w) /\ tokens' = tokens /\ last' = last
          /\ honoured' = honoured \cup {req[w].token.id}
      BY <1>10 DEF MarkEmailVerified, Holding, Honour
    <2>2. ~ Holding(w)' /\ \A v \in Workers \ {w} : req'[v] = req[v]
      BY <1>10, <1>r DEF MarkEmailVerified, Goto, Holding, Idle
    <2>3. /\ LinkInv'
          /\ Live' = Live /\ Taken' = Taken \ {req[w].token.id}
          /\ req[w].token.id \in Taken /\ req[w].token.id \notin Live
          /\ req[w].token.id \in 1 .. MaxTokens
      BY <2>1, <2>2, LinkReleased
    <2>4. PICK n \in 1 .. MaxTokens : n = req[w].token.id
      BY <2>3
    <2>5. n \in Taken /\ Live' = Live \ {n} /\ Taken' = Taken \ {n} /\ honoured' = honoured \cup {n}
      BY <2>1, <2>3, <2>4
    <2>6. OT!Honour(n)
      BY <2>1, <2>5 DEF OT!Honour, Live, Taken
    <2> QED BY <2>3, <2>6 DEF OT!Next
  <1>11. ASSUME NEW w \in Workers, SaveUser(w) PROVE Goal
    <2>1. SameHands
      BY <1>11, <1>r DEF SaveUser, Goto, SameHands, Holding, Idle
    <2>2. UNCHANGED links /\ last' = last
      BY <1>11 DEF SaveUser
    <2> QED BY <1>f, <2>1, <2>2
  <1>12. ASSUME NEW w \in Workers, SendSMS(w) PROVE Goal
    <2>1. SameHands
      BY <1>12, <1>r, SMT DEF SendSMS, Start, SameHands, Holding, Idle
    <2>2. UNCHANGED links /\ last' = last
      BY <1>12 DEF SendSMS
    <2> QED BY <1>f, <2>1, <2>2
  <1>13. ASSUME NEW w \in Workers, StoreCode(w) PROVE Goal
    <2>1. SameHands
      BY <1>13, <1>r DEF StoreCode, Goto, SameHands, Holding, Idle
    <2>2. UNCHANGED links /\ last'.token = last.token
      BY <1>13 DEF StoreCode, Shape
    <2> QED BY <1>f, <2>1, <2>2
  <1>14. ASSUME NEW w \in Workers, ClearCode(w) PROVE Goal
    <2>1. SameHands
      BY <1>14, <1>r DEF ClearCode, Goto, SameHands, Holding, Idle
    <2>2. UNCHANGED links /\ last' = last
      BY <1>14 DEF ClearCode
    <2> QED BY <1>f, <2>1, <2>2
  <1>15. ASSUME NEW w \in Workers, NEW k \in Mailed, Send(w, k) PROVE Goal
    <2>1. SameHands
      BY <1>15, <1>r, SMT DEF Send, Start, SameHands, Holding, Idle
    <2>2. UNCHANGED links /\ last' = last
      BY <1>15 DEF Send
    <2> QED BY <1>f, <2>1, <2>2
  <1>16. ASSUME NEW w \in Workers, NEW t \in tokens, consumeToken(w, t) PROVE Goal
    <2>0. tokens' = tokens \ {t} /\ last' = last
      BY <1>16 DEF consumeToken, GetDel
    <2>1. /\ t.id \in Live /\ Live' = Live \ {t.id} /\ t.id \in 1 .. MaxTokens
          /\ t.id \notin Taken
      BY <2>0, LinkLeaves
    <2>2. PICK n \in 1 .. MaxTokens : n = t.id
      BY <2>1
    <2>3. n \in Live /\ Live' = Live \ {n} /\ n \notin Taken
      BY <2>1, <2>2
    <2>4. CASE t.kind = "verify"
      <3>1. /\ req[w] = Idle /\ honoured' = honoured
            /\ req' = [req EXCEPT ![w] = [op |-> "compare", token |-> t]]
        BY <1>16, <2>4 DEF consumeToken, Start
      <3>2. /\ ~ Holding(w) /\ Holding(w)' /\ req'[w].token = t
            /\ \A v \in Workers \ {w} : req'[v] = req[v]
        BY <1>r, <3>1, SMT DEF Holding, Idle
      <3>3. LinkInv'
        BY <2>0, <3>2, SMT DEF LinkInv, Holding
      <3>4. Taken' = Taken \cup {n}
        BY <2>2, <3>2, SMT DEF Taken, Holding
      <3>5. OT!Take(n)
        BY <2>0, <2>3, <3>1, <3>4 DEF OT!Take, Live, Taken
      <3> QED BY <3>3, <3>5 DEF OT!Next
    <2>5. CASE t.kind # "verify"
      <3>1. req' = req /\ honoured' = honoured \cup {n}
        BY <1>16, <2>2, <2>5 DEF consumeToken, Honour
      <3>2. SameHands
        BY <3>1 DEF SameHands, Holding
      <3>3. LinkInv' /\ Taken' = Taken \ {n}
        BY <2>0, <2>3, <3>2, LinkLeavesInv, TakenFrame
      <3>4. OT!Honour(n)
        BY <2>0, <2>3, <3>1, <3>3 DEF OT!Honour, Live, Taken
      <3> QED BY <3>3, <3>4 DEF OT!Next
    <2> QED BY <2>4, <2>5
  <1>17. ASSUME NEW w \in Workers, NEW e \in Emails, UpdateProfile(w, e) PROVE Goal
    <2>1. SameHands
      BY <1>17, <1>r, SMT DEF UpdateProfile, Start, SameHands, Holding, Idle
    <2>2. UNCHANGED links /\ last' = last
      BY <1>17 DEF UpdateProfile
    <2> QED BY <1>f, <2>1, <2>2
  <1>18. ASSUME NEW w \in Workers, NEW c \in 1 .. last.code, consumeCode(w, c) PROVE Goal
    <2>1. SameHands
      BY <1>18, <1>r, SMT DEF consumeCode, Start, SameHands, Holding, Idle
    <2>2. UNCHANGED links /\ last' = last
      BY <1>18 DEF consumeCode
    <2> QED BY <1>f, <2>1, <2>2
  <1> HIDE DEF Goal
  <1> QED BY <1>1, <1>2, <1>3, <1>4, <1>5, <1>6, <1>7, <1>8, <1>9, <1>10, <1>11, <1>12, <1>13,
             <1>14, <1>15, <1>16, <1>17, <1>18 DEF Next

LEMMA LinkInit ==
  ASSUME Init
  PROVE  Shape /\ LinkInv /\ OT!Init
  <1>1. Shape
    <2>1. user \in Row /\ tokens \subseteq Link
      BY DEF Init, Row
    <2>2. count \in [Mailed -> Nat] /\ mails \in [Mailed -> Nat]
      BY DEF Init
    <2>3. last \in [token : 0 .. MaxTokens, code : Nat]
      BY OneTimeCodesAssumption, SMT DEF Init
    <2>4. req \in [Workers -> Request]
      BY DEF Init, Request
    <2> QED BY <2>1, <2>2, <2>3, <2>4 DEF Shape
  <1>2. LinkInv
    BY DEF Init, LinkInv, Holding, Idle
  <1>3. Live = {} /\ Taken = {}
    BY DEF Init, Live, Taken, Idle
  <1>4. (last.token + 1) .. MaxTokens = 1 .. MaxTokens
    BY SMT DEF Init
  <1>5. OT!Init
    BY <1>3, <1>4 DEF Init, OT!Init, Live, Taken
  <1> QED BY <1>1, <1>2, <1>5

(***************************************************************************)
(* A mailed link is a one-time token (consumeToken's GETDEL, before        *)
(* anything is done for it), for any number of requests, links and edits.  *)
(***************************************************************************)
THEOREM LinksTheorem == Spec => LinksAreOneTime
  <1>1. Init => Shape /\ LinkInv /\ OT!Init
    BY LinkInit
  <1>2. Shape /\ LinkInv /\ [Next]_vars => Shape' /\ LinkInv' /\ [OT!Next]_(OT!vars)
    BY NextShape, LinkStep
  <1> QED BY <1>1, <1>2, PTL DEF Spec, LinksAreOneTime, OT!Spec

(***************************************************************************)
(* The account's address.  A request on its way to the row carries the     *)
(* flag it will write, so what holds of the row has to hold of it as well. *)
(***************************************************************************)

Carried(r) ==
    /\ r.op = "mark" => r.seen = r.token.email
    /\ r.op = "save" => (r.row.verified => crossed \/ r.row.email \in proven)

ProvenInv == VerifiedIsProven /\ \A w \in Workers : Carried(req[w])

LEMMA ProvenFrame ==
  ASSUME ProvenInv, user' = user, proven \subseteq proven', crossed => crossed',
         \A w \in Workers : req'[w] = req[w] \/ req'[w].op \notin {"mark", "save"}
  PROVE  ProvenInv'
  BY DEF ProvenInv, VerifiedIsProven, Carried

LEMMA ProvenStep ==
  ASSUME Shape, ProvenInv, [Next]_vars
  PROVE  ProvenInv'
  <1>r. DOMAIN req = Workers
    BY DEF Shape
  <1>f. ASSUME UNCHANGED account,
               \A w \in Workers : req'[w] = req[w] \/ req'[w].op \notin {"mark", "save"}
        PROVE  ProvenInv'
    BY <1>f, ProvenFrame DEF account
  <1>1. CASE UNCHANGED vars
    BY <1>1, <1>f DEF vars, account
  <1>2. CASE ExpireSMS
    BY <1>2, <1>f DEF ExpireSMS
  <1>3. ASSUME NEW t \in tokens, Expire(t) PROVE ProvenInv'
    BY <1>3, <1>f DEF Expire
  <1>4. ASSUME NEW k \in Mailed, WindowEnds(k) PROVE ProvenInv'
    <2>1. ASSUME NEW w \in Workers PROVE req'[w] = req[w] \/ req'[w].op \notin {"mark", "save"}
      <3>1. CASE req[w].op = "issue"
        <4>1. req[w] \in Sending
          BY <3>1, ByLabel DEF Shape
        <4> QED BY <1>4, <3>1, <4>1 DEF WindowEnds, Sending
      <3>2. CASE req[w].op # "issue"
        BY <1>4, <3>2 DEF WindowEnds
      <3> QED BY <3>1, <3>2
    <2> QED BY <1>4, <1>f, <2>1 DEF WindowEnds
  <1>5. ASSUME NEW e \in Emails, AdminUpdate(e) PROVE ProvenInv'
    <2>1. user'.email = e /\ proven' = proven \cup {e} /\ UNCHANGED <<crossed, req>>
      BY <1>5 DEF AdminUpdate, Shape, Row
    <2> QED BY <2>1 DEF ProvenInv, VerifiedIsProven, Carried
  <1>6. ASSUME NEW w \in Workers, RecordSend(w) PROVE ProvenInv'
    <2>1. req[w] \in Sending
      BY <1>6, ByLabel DEF RecordSend, Shape
    <2>2. \A v \in Workers : req'[v] = req[v] \/ req'[v].op \notin {"mark", "save"}
      BY <1>6, <1>r, <2>1 DEF RecordSend, Goto, Idle, Sending
    <2> QED BY <1>6, <1>f, <2>2 DEF RecordSend
  <1>7. ASSUME NEW w \in Workers, IssueToken(w) PROVE ProvenInv'
    BY <1>7, <1>f, <1>r DEF IssueToken, Goto, Idle
  <1>8. ASSUME NEW w \in Workers, sendVerification(w) PROVE ProvenInv'
    BY <1>8, <1>f DEF sendVerification
  <1>9. ASSUME NEW w \in Workers, CompareEmail(w) PROVE ProvenInv'
    <2>1. UNCHANGED account /\ \A v \in Workers \ {w} : req'[v] = req[v]
      BY <1>9, <1>r DEF CompareEmail, Goto
    <2>2. \/ req'[w] = Idle
          \/ /\ req'[w] = [op |-> "mark", token |-> req[w].token, seen |-> user.email]
             /\ user.email = req[w].token.email
      BY <1>9, <1>r DEF CompareEmail, Goto, SameEmail
    <2>3. Carried(req[w])'
      BY <2>2, SMT DEF Carried, Idle
    <2> QED BY <2>1, <2>3 DEF ProvenInv, VerifiedIsProven, Carried, account
  <1>10. ASSUME NEW w \in Workers, MarkEmailVerified(w) PROVE ProvenInv'
    <2>1. /\ user' = user /\ proven' = proven \cup {req[w].token.email}
          /\ crossed' = (crossed \/ user.email # req[w].seen)
          /\ \A v \in Workers \ {w} : req'[v] = req[v]
      BY <1>10, <1>r DEF MarkEmailVerified, Goto
    <2>2. \/ req'[w] = Idle
          \/ req'[w] = [op |-> "save", row |-> [user EXCEPT !.verified = TRUE]]
      BY <1>10, <1>r DEF MarkEmailVerified, Goto
    <2>3. req[w].seen = req[w].token.email
      BY <1>10 DEF ProvenInv, Carried, MarkEmailVerified
    <2>4. PICK row : row = [user EXCEPT !.verified = TRUE]
      OBVIOUS
    <2>5. row.email = user.email
      BY <2>4 DEF Shape, Row
    <2>6. crossed' \/ row.email \in proven'
      <3>1. CASE user.email = req[w].seen
        BY <2>1, <2>3, <2>5, <3>1
      <3>2. CASE user.email # req[w].seen
        <4>1. crossed' = (crossed \/ user.email # req[w].seen)
          BY <2>1
        <4> QED BY <3>2, <4>1
      <3> QED BY <3>1, <3>2
    <2>7. Carried(req[w])'
      <3>1. req'[w].op # "mark" /\ (req'[w].op = "save" => req'[w].row = row)
        <4>1. CASE req'[w] = Idle
          BY <4>1, SMT DEF Idle
        <4>2. CASE req'[w] = [op |-> "save", row |-> row]
          BY <4>2, SMT
        <4> QED BY <2>2, <2>4, <4>1, <4>2
      <3> QED BY <2>6, <3>1 DEF Carried
    <2> QED BY <2>1, <2>7 DEF ProvenInv, VerifiedIsProven, Carried
  <1>11. ASSUME NEW w \in Workers, SaveUser(w) PROVE ProvenInv'
    <2>1. /\ user' = req[w].row /\ UNCHANGED <<proven, crossed>> /\ req[w].op = "save"
          /\ req'[w] = Idle /\ \A v \in Workers \ {w} : req'[v] = req[v]
      BY <1>11, <1>r DEF SaveUser, Goto
    <2> QED BY <2>1, SMT DEF ProvenInv, VerifiedIsProven, Carried, Idle
  <1>12. ASSUME NEW w \in Workers, SendSMS(w) PROVE ProvenInv'
    BY <1>12, <1>f, <1>r DEF SendSMS, Start
  <1>13. ASSUME NEW w \in Workers, StoreCode(w) PROVE ProvenInv'
    BY <1>13, <1>f, <1>r DEF StoreCode, Goto, Idle
  <1>14. ASSUME NEW w \in Workers, ClearCode(w) PROVE ProvenInv'
    BY <1>14, <1>f, <1>r DEF ClearCode, Goto, Idle
  <1>15. ASSUME NEW w \in Workers, NEW k \in Mailed, Send(w, k) PROVE ProvenInv'
    BY <1>15, <1>f, <1>r DEF Send, Start
  <1>16. ASSUME NEW w \in Workers, NEW t \in tokens, consumeToken(w, t) PROVE ProvenInv'
    BY <1>16, <1>f, <1>r, SMT DEF consumeToken, Start
  <1>17. ASSUME NEW w \in Workers, NEW e \in Emails, UpdateProfile(w, e) PROVE ProvenInv'
    <2>1. UNCHANGED account /\ \A v \in Workers \ {w} : req'[v] = req[v]
      BY <1>17, <1>r DEF UpdateProfile, Start
    <2>2. req'[w] = [op |-> "save", row |-> Edited(e)]
      BY <1>17, <1>r DEF UpdateProfile, Start
    <2>3. Edited(e).email = e /\ (Edited(e).verified => user.verified /\ user.email = e)
      BY DEF Edited
    <2>4. Carried(req[w])'
      BY <2>1, <2>2, <2>3, SMT DEF Carried, ProvenInv, VerifiedIsProven, account
    <2> QED BY <2>1, <2>4 DEF ProvenInv, VerifiedIsProven, Carried, account
  <1>18. ASSUME NEW w \in Workers, NEW c \in 1 .. last.code, consumeCode(w, c) PROVE ProvenInv'
    BY <1>18, <1>f, <1>r DEF consumeCode, Start
  <1> QED BY <1>1, <1>2, <1>3, <1>4, <1>5, <1>6, <1>7, <1>8, <1>9, <1>10, <1>11, <1>12, <1>13,
             <1>14, <1>15, <1>16, <1>17, <1>18 DEF Next

(***************************************************************************)
(* The throttle.  A request that was counted and let through is a mail to  *)
(* come, until its window ends: the mails sent and those to come are never *)
(* more than the counter has seen, and fewer than the limit.               *)
(***************************************************************************)

Pending(k) == {w \in Workers : req[w].op = "issue" /\ req[w].kind = k /\ ~ req[w].late}

Budget(k) ==
    /\ mails[k] + Cardinality(Pending(k)) <= count[k]
    /\ mails[k] + Cardinality(Pending(k)) < MaxSends

SendsInv == \A k \in Mailed : Budget(k)

LEMMA PendingFinite ==
    \A k \in Mailed : IsFiniteSet(Pending(k)) /\ Cardinality(Pending(k)) \in Nat
  <1> TAKE k \in Mailed
  <1>1. Pending(k) \subseteq Workers
    BY DEF Pending
  <1> QED BY <1>1, FS_Subset, FS_CardinalityType, OneTimeCodesAssumption

LEMMA SendsFrame ==
  ASSUME SendsInv, UNCHANGED <<count, mails>>, \A k \in Mailed : Pending(k)' = Pending(k)
  PROVE  SendsInv'
  BY DEF SendsInv, Budget

LEMMA SendsStep ==
  ASSUME Shape, SendsInv, [Next]_vars
  PROVE  SendsInv'
  <1>r. DOMAIN req = Workers
    BY DEF Shape
  <1>n. /\ \A k \in Mailed : count[k] \in Nat /\ mails[k] \in Nat
        /\ MaxSends \in Nat \ {0}
        /\ \A k \in Mailed : IsFiniteSet(Pending(k)) /\ Cardinality(Pending(k)) \in Nat
    BY PendingFinite, OneTimeCodesAssumption DEF Shape
  <1>f. ASSUME UNCHANGED <<count, mails>>,
               \A v \in Workers : req'[v] = req[v] \/ {req[v].op, req'[v].op} \cap {"issue"} = {}
        PROVE  SendsInv'
    <2>1. \A k \in Mailed : Pending(k)' = Pending(k)
      BY <1>f DEF Pending
    <2> QED BY <1>f, <2>1, SendsFrame
  <1>1. CASE UNCHANGED vars
    BY <1>1, <1>f DEF vars
  <1>2. CASE ExpireSMS
    BY <1>2, <1>f DEF ExpireSMS
  <1>3. ASSUME NEW t \in tokens, Expire(t) PROVE SendsInv'
    BY <1>3, <1>f DEF Expire
  <1>4. ASSUME NEW k \in Mailed, WindowEnds(k) PROVE SendsInv'
    <2>1. ASSUME NEW w \in Workers, req[w].op = "issue"
          PROVE  /\ req'[w].op = "issue" /\ req'[w].kind = req[w].kind
                 /\ req'[w].late <=> req[w].late \/ req[w].kind = k
      <3>1. req[w] \in Sending
        BY <2>1, ByLabel DEF Shape
      <3>2. req'[w] = [req[w] EXCEPT !.late = @ \/ req[w].kind = k]
        BY <1>4, <2>1 DEF WindowEnds
      <3> QED BY <2>1, <3>1, <3>2 DEF Sending
    <2>2. ASSUME NEW w \in Workers, req[w].op # "issue" PROVE req'[w] = req[w]
      BY <1>4, <2>2 DEF WindowEnds
    <2>3. /\ count'[k] = 0 /\ mails'[k] = 0
          /\ \A j \in Mailed \ {k} : count'[j] = count[j] /\ mails'[j] = mails[j]
      BY <1>4 DEF WindowEnds, Shape
    <2>4. Pending(k)' = {}
      BY <2>1, <2>2 DEF Pending
    <2>5. \A j \in Mailed \ {k} : Pending(j)' = Pending(j)
      BY <2>1, <2>2 DEF Pending
    <2>6. Budget(k)'
      BY <1>n, <2>3, <2>4, FS_EmptySet, SMT DEF Budget
    <2>7. \A j \in Mailed \ {k} : Budget(j)'
      BY <2>3, <2>5 DEF Budget, SendsInv
    <2> QED BY <2>6, <2>7 DEF SendsInv
  <1>5. ASSUME NEW e \in Emails, AdminUpdate(e) PROVE SendsInv'
    BY <1>5, <1>f DEF AdminUpdate
  <1>6. ASSUME NEW w \in Workers, RecordSend(w) PROVE SendsInv'
    <2>1. req[w] \in Sending /\ req[w].op = "record"
      BY <1>6, ByLabel DEF RecordSend, Shape
    <2>2. PICK k \in Mailed : k = req[w].kind
      BY <2>1 DEF Sending
    <2>3. /\ count'[k] = count[k] + 1 /\ mails' = mails
          /\ \A j \in Mailed \ {k} : count'[j] = count[j]
      BY <1>6, <2>2 DEF RecordSend, Shape
    <2>4. \A v \in Workers \ {w} : req'[v] = req[v]
      BY <1>6, <1>r DEF RecordSend, Goto
    <2>5. CASE Tripped(k)
      <3>1. req'[w] = Idle
        BY <1>6, <1>r, <2>2, <2>5 DEF RecordSend, Goto
      <3>2. \A j \in Mailed : Pending(j)' = Pending(j)
        BY <2>1, <2>4, <3>1, SMT DEF Pending, Idle
      <3> QED BY <1>n, <2>3, <3>2, SMT DEF SendsInv, Budget
    <2>6. CASE ~ Tripped(k)
      <3>1. req'[w] = [req[w] EXCEPT !.op = "issue"]
        BY <1>6, <1>r, <2>2, <2>6 DEF RecordSend, Goto
      <3>2. req'[w].op = "issue" /\ req'[w].kind = k /\ req'[w].late = req[w].late
        BY <2>1, <2>2, <3>1 DEF Sending
      <3>3. \A j \in Mailed \ {k} : Pending(j)' = Pending(j)
        BY <2>1, <2>4, <3>2 DEF Pending
      <3>4. w \notin Pending(k) /\ Pending(k)' \in {Pending(k), Pending(k) \cup {w}}
        BY <2>1, <2>4, <3>2 DEF Pending
      <3>5. Cardinality(Pending(k))' <= Cardinality(Pending(k)) + 1 /\ Cardinality(Pending(k))' \in Nat
        <4>1. CASE Pending(k)' = Pending(k)
          BY <1>n, <4>1, SMT
        <4>2. CASE Pending(k)' = Pending(k) \cup {w}
          <5>1. Cardinality(Pending(k) \cup {w}) = Cardinality(Pending(k)) + 1
            BY <1>n, <3>4, FS_AddElement
          <5> QED BY <1>n, <4>2, <5>1, SMT
        <4> QED BY <3>4, <4>1, <4>2
      <3>6. Budget(k)'
        BY <1>n, <2>3, <2>6, <3>5, SMT DEF Budget, SendsInv, Tripped
      <3>7. \A j \in Mailed \ {k} : Budget(j)'
        BY <2>3, <3>3 DEF Budget, SendsInv
      <3> QED BY <3>6, <3>7 DEF SendsInv
    <2> QED BY <2>5, <2>6
  <1>7. ASSUME NEW w \in Workers, IssueToken(w) PROVE SendsInv'
    <2>1. req[w] \in Sending /\ req[w].op = "issue"
      BY <1>7, ByLabel DEF IssueToken, Shape
    <2>2. PICK k \in Mailed : k = req[w].kind
      BY <2>1 DEF Sending
    <2>3. /\ count' = count
          /\ mails'[k] = IF req[w].late THEN mails[k] ELSE mails[k] + 1
          /\ \A j \in Mailed \ {k} : mails'[j] = mails[j]
      BY <1>7, <2>2 DEF IssueToken, Shape
    <2>4. req'[w] = Idle /\ \A v \in Workers \ {w} : req'[v] = req[v]
      BY <1>7, <1>r DEF IssueToken, Goto
    <2>5. \A j \in Mailed \ {k} : Pending(j)' = Pending(j)
      BY <2>2, <2>4, SMT DEF Pending, Idle
    <2>6. \A j \in Mailed \ {k} : Budget(j)'
      BY <2>3, <2>5 DEF Budget, SendsInv
    <2>7. CASE req[w].late
      <3>1. Pending(k)' = Pending(k)
        BY <2>4, <2>7, SMT DEF Pending, Idle
      <3>2. Budget(k)'
        BY <2>3, <2>7, <3>1 DEF Budget, SendsInv
      <3> QED BY <2>6, <3>2 DEF SendsInv
    <2>8. CASE ~ req[w].late
      <3>1. w \in Pending(k) /\ Pending(k)' = Pending(k) \ {w}
        BY <2>1, <2>2, <2>4, <2>8, SMT DEF Pending, Idle
      <3>2. Cardinality(Pending(k))' = Cardinality(Pending(k)) - 1
        BY <1>n, <3>1, FS_RemoveElement
      <3>3. Budget(k)'
        BY <1>n, <2>3, <2>8, <3>2, SMT DEF Budget, SendsInv
      <3> QED BY <2>6, <3>3 DEF SendsInv
    <2> QED BY <2>7, <2>8
  <1>8. ASSUME NEW w \in Workers, sendVerification(w) PROVE SendsInv'
    BY <1>8, <1>f DEF sendVerification
  <1>9. ASSUME NEW w \in Workers, CompareEmail(w) PROVE SendsInv'
    BY <1>9, <1>f, <1>r DEF CompareEmail, Goto, Idle
  <1>10. ASSUME NEW w \in Workers, MarkEmailVerified(w) PROVE SendsInv'
    BY <1>10, <1>f, <1>r DEF MarkEmailVerified, Goto, Idle
  <1>11. ASSUME NEW w \in Workers, SaveUser(w) PROVE SendsInv'
    BY <1>11, <1>f, <1>r DEF SaveUser, Goto, Idle
  <1>12. ASSUME NEW w \in Workers, SendSMS(w) PROVE SendsInv'
    BY <1>12, <1>f, <1>r, SMT DEF SendSMS, Start, Idle
  <1>13. ASSUME NEW w \in Workers, StoreCode(w) PROVE SendsInv'
    BY <1>13, <1>f, <1>r DEF StoreCode, Goto, Idle
  <1>14. ASSUME NEW w \in Workers, ClearCode(w) PROVE SendsInv'
    BY <1>14, <1>f, <1>r DEF ClearCode, Goto, Idle
  <1>15. ASSUME NEW w \in Workers, NEW k \in Mailed, Send(w, k) PROVE SendsInv'
    BY <1>15, <1>f, <1>r, SMT DEF Send, Start, Idle
  <1>16. ASSUME NEW w \in Workers, NEW t \in tokens, consumeToken(w, t) PROVE SendsInv'
    BY <1>16, <1>f, <1>r, SMT DEF consumeToken, Start, Idle
  <1>17. ASSUME NEW w \in Workers, NEW e \in Emails, UpdateProfile(w, e) PROVE SendsInv'
    BY <1>17, <1>f, <1>r, SMT DEF UpdateProfile, Start, Idle
  <1>18. ASSUME NEW w \in Workers, NEW c \in 1 .. last.code, consumeCode(w, c) PROVE SendsInv'
    BY <1>18, <1>f, <1>r, SMT DEF consumeCode, Start, Idle
  <1> QED BY <1>1, <1>2, <1>3, <1>4, <1>5, <1>6, <1>7, <1>8, <1>9, <1>10, <1>11, <1>12, <1>13,
             <1>14, <1>15, <1>16, <1>17, <1>18 DEF Next

LEMMA MailInit ==
  ASSUME Init
  PROVE  ProvenInv /\ SendsInv
  <1>1. ProvenInv
    <2>1. \A w \in Workers : req[w].op = "idle"
      BY DEF Init, Idle
    <2>2. ~ user.verified
      BY DEF Init
    <2> QED BY <2>1, <2>2 DEF ProvenInv, VerifiedIsProven, Carried
  <1>2. SendsInv
    <2>1. ASSUME NEW k \in Mailed PROVE Budget(k)
      <3>1. Pending(k) = {}
        BY DEF Init, Pending, Idle
      <3>2. mails[k] = 0 /\ count[k] = 0
        BY DEF Init
      <3> QED BY <3>1, <3>2, FS_EmptySet, OneTimeCodesAssumption, SMT DEF Budget
    <2> QED BY <2>1 DEF SendsInv
  <1> QED BY <1>1, <1>2

(***************************************************************************)
(* A verified address is one that was proven, unless it moved under        *)
(* verify's feet, and the throttle bounds the mails of a window, for any   *)
(* number of requests, addresses and links in flight.                      *)
(***************************************************************************)
THEOREM MailTheorem == Spec => []MailHolds
  <1>1. Init => Shape /\ ProvenInv /\ SendsInv
    BY LinkInit, MailInit
  <1>2. Shape /\ ProvenInv /\ SendsInv /\ [Next]_vars => Shape' /\ ProvenInv' /\ SendsInv'
    BY NextShape, ProvenStep, SendsStep
  <1>3. Shape /\ ProvenInv /\ SendsInv => MailHolds
    <2>1. ASSUME Shape, SendsInv, NEW k \in Mailed PROVE mails[k] < MaxSends
      <3>1. mails[k] \in Nat /\ MaxSends \in Nat /\ Cardinality(Pending(k)) \in Nat
        BY <2>1, PendingFinite, OneTimeCodesAssumption DEF Shape
      <3> QED BY <2>1, <3>1, SMT DEF SendsInv, Budget
    <2> QED BY <2>1 DEF MailHolds, ProvenInv, SendsBounded
  <1> QED BY <1>1, <1>2, <1>3, PTL DEF Spec

(***************************************************************************)
(* CAS tickets are one-time tokens as well.  There a ticket is redeemed by *)
(* the step that takes it out of the store, so what is needed is only that *)
(* no key is ever minted twice.                                            *)
(***************************************************************************)

TicketInv ==
    /\ \E S : made \in Seq(S)
    /\ Len(made) <= MaxTickets
    /\ DOMAIN tickets \subseteq DOMAIN made

LEMMA WithoutKey ==
  ASSUME NEW f, NEW k
  PROVE  DOMAIN Without(f, k) = DOMAIN f \ {k}
  BY DEF Without, Restrict

LEMMA TicketGone ==
  ASSUME TicketInv, NEW t \in DOMAIN tickets,
         tickets' = Without(tickets, t), UNCHANGED made,
         accepted' \in {accepted, accepted \cup {t}}
  PROVE  TicketInv' /\ TicketStore!Next
  <1>1. DOMAIN tickets' = DOMAIN tickets \ {t}
    BY WithoutKey
  <1>2. TicketInv'
    BY <1>1 DEF TicketInv
  <1>3. t \in 1 .. MaxTickets
    BY CASAssumption, SMT DEF TicketInv
  <1>4. TicketStore!Honour(t) \/ TicketStore!Lapse(t)
    BY <1>1 DEF TicketStore!Honour, TicketStore!Lapse
  <1> QED BY <1>2, <1>3, <1>4 DEF TicketStore!Next

LEMMA TicketStored ==
  ASSUME TicketInv, UNCHANGED accepted,
         NEW service, NEW proxy, NEW chain, NEW from, Store(service, proxy, chain, from)
  PROVE  TicketInv' /\ TicketStore!Next
  <1>1. PICK S : made \in Seq(S)
    BY DEF TicketInv
  <1>2. PICK n : n = Len(made) + 1
    OBVIOUS
  <1>3. PICK e : e = [service |-> service, from |-> from]
    OBVIOUS
  <1>4. made' = Append(made, e) /\ n <= MaxTickets
    BY <1>2, <1>3 DEF Store
  <1>5. made \in Seq(S \cup {e})
    BY <1>1, SMT
  <1>6. made' \in Seq(S \cup {e}) /\ Len(made') = n
    BY <1>2, <1>4, <1>5, SMT
  <1>7. DOMAIN made' = DOMAIN made \cup {n} /\ n \notin DOMAIN made /\ n \in 1 .. MaxTickets
    BY <1>1, <1>2, <1>4, <1>6, CASAssumption, SMT
  <1>8. DOMAIN tickets' = DOMAIN tickets \cup {n}
    BY <1>2 DEF Store, With
  <1>9. TicketInv'
    BY <1>4, <1>6, <1>7, <1>8 DEF TicketInv
  <1>10. TicketStore!Issue(n)
    BY <1>7, <1>8 DEF TicketStore!Issue
  <1> QED BY <1>7, <1>9, <1>10 DEF TicketStore!Next

LEMMA TicketFrame ==
  ASSUME TicketInv, UNCHANGED <<tickets, made, accepted>>
  PROVE  TicketInv' /\ UNCHANGED TicketStore!vars
  BY DEF TicketInv, TicketStore!vars

LEMMA TicketStep ==
  ASSUME TicketInv, [NextCAS]_casVars
  PROVE  TicketInv' /\ [TicketStore!Next]_(TicketStore!vars)
  <1> DEFINE Goal == TicketInv' /\ [TicketStore!Next]_(TicketStore!vars)
  <1> SUFFICES Goal OBVIOUS
  <1>f. ASSUME UNCHANGED <<tickets, made, accepted>> PROVE Goal
    BY <1>f, TicketFrame
  <1>1. CASE UNCHANGED casVars
    BY <1>1, <1>f DEF casVars
  <1>2. ASSUME NEW a \in Apps, SetStatus(a) PROVE Goal
    BY <1>2, <1>f DEF SetStatus, casHistory
  <1>3. ASSUME NEW a \in Apps, NEW s \in Services, CreateTicket(a, s) PROVE Goal
    <2>1. Store(s, FALSE, <<>>, Nil) /\ UNCHANGED accepted
      BY <1>3 DEF CreateTicket, casHistory
    <2> QED BY <2>1, TicketStored
  <1>4. ASSUME NEW t \in DOMAIN tickets, NEW s \in Services, validate(t, s) PROVE Goal
    <2>1. tickets' = Without(tickets, t) /\ UNCHANGED made
      BY <1>4 DEF validate, ConsumeTicket
    <2>2. accepted' \in {accepted, accepted \cup {t}}
      BY <1>4 DEF validate, Accept
    <2> QED BY <2>1, <2>2, TicketGone
  <1>5. ASSUME NEW w \in Callers, NEW a \in Apps, NEW t \in DOMAIN tickets, NEW s \in Services,
               NEW u \in Services \cup {Nil}, NEW allowProxy \in BOOLEAN,
               doValidate(w, a, t, s, allowProxy, u)
        PROVE  Goal
    <2>1. tickets' = Without(tickets, t) /\ UNCHANGED made
      BY <1>5 DEF doValidate, ConsumeTicket
    <2>2. accepted' \in {accepted, accepted \cup {t}}
      BY <1>5 DEF doValidate, Accept
    <2> QED BY <2>1, <2>2, TicketGone
  <1>6. ASSUME NEW w \in Callers, NEW a \in Apps, NEW p \in DOMAIN pgts, NEW s \in Services,
               GetPGT(w, a, p, s)
        PROVE  Goal
    BY <1>6, <1>f DEF GetPGT, casHistory
  <1>7. ASSUME NEW w \in Callers, CreatePGT(w) PROVE Goal
    BY <1>7, <1>f DEF CreatePGT, casHistory
  <1>8. ASSUME NEW w \in Callers, pgtCallback(w) PROVE Goal
    BY <1>8, <1>f DEF pgtCallback
  <1>9. ASSUME NEW w \in Callers, CreateProxyTicket(w) PROVE Goal
    <2>1. /\ Store(calls[w].service, TRUE, ProxyChain(calls[w].row), calls[w].pgt)
          /\ UNCHANGED accepted
      BY <1>9 DEF CreateProxyTicket
    <2>2. PICK s, chain, from : Store(s, TRUE, chain, from)
      BY <2>1
    <2> QED BY <2>1, <2>2, TicketStored
  <1>10. CASE TicketExpires
    <2>1. UNCHANGED <<made, accepted>>
      BY <1>10 DEF TicketExpires, casHistory
    <2>2. ASSUME NEW t \in DOMAIN tickets, tickets' = Without(tickets, t) PROVE Goal
      BY <2>1, <2>2, TicketGone
    <2>3. CASE UNCHANGED tickets
      BY <1>f, <2>1, <2>3
    <2> QED BY <1>10, <2>2, <2>3 DEF TicketExpires
  <1> HIDE DEF Goal
  <1> QED BY <1>1, <1>2, <1>3, <1>4, <1>5, <1>6, <1>7, <1>8, <1>9, <1>10 DEF NextCAS

LEMMA TicketInit ==
  ASSUME InitCAS
  PROVE  TicketInv /\ TicketStore!Init
  <1>1. made = <<>> /\ tickets = Empty /\ accepted = {}
    BY DEF InitCAS
  <1>2. DOMAIN tickets = {} /\ DOMAIN made = {} /\ Len(made) = 0
    BY <1>1, SMT DEF Empty
  <1>3. made \in Seq({})
    BY <1>1, SMT
  <1>4. TicketInv
    BY <1>2, <1>3, CASAssumption, SMT DEF TicketInv
  <1>5. TicketStore!Init
    BY <1>1, <1>2 DEF TicketStore!Init
  <1> QED BY <1>4, <1>5

(***************************************************************************)
(* A CAS ticket is a one-time token: however many validations present it,  *)
(* at whichever endpoints, ConsumeTicket's GETDEL lets one of them answer, *)
(* for any number of applications, services and tickets.                   *)
(***************************************************************************)
THEOREM TicketsTheorem == SpecCAS => TicketsAreOneTime
  <1>1. InitCAS => TicketInv /\ TicketStore!Init
    BY TicketInit
  <1>2. TicketInv /\ [NextCAS]_casVars => TicketInv' /\ [TicketStore!Next]_(TicketStore!vars)
    BY TicketStep
  <1> QED BY <1>1, <1>2, PTL DEF SpecCAS, TicketsAreOneTime, TicketStore!Spec

(***************************************************************************)
(* Rolling a proxy-granting ticket back.  A PGT is deleted in the step     *)
(* that gives up its callback, and its key is never made again, so a     *)
(* /proxy call that finds a PGT finds one that was not rolled back.        *)
(***************************************************************************)

RollbackInv ==
    /\ \E S : granted \in Seq(S)
    /\ undone \subseteq DOMAIN granted
    /\ DOMAIN pgts \cap undone = {}
    /\ DOMAIN calls = Callers
    /\ \A w \in Callers :
          /\ calls[w].op = "callback" => calls[w].pgt \in DOMAIN granted
          /\ calls[w].op = "proxy" => calls[w].fresh
    /\ late = {}

\* A step that mints and rolls back no PGT.
LEMMA RollbackFrame ==
  ASSUME RollbackInv, UNCHANGED <<granted, undone, late>>, DOMAIN pgts' \subseteq DOMAIN pgts,
         DOMAIN calls' = Callers,
         \A w \in Callers : calls'[w] = calls[w] \/ calls'[w].op \notin {"callback", "proxy"}
  PROVE  RollbackInv'
  BY DEF RollbackInv

LEMMA RollbackStep ==
  ASSUME RollbackInv, [NextCAS]_casVars
  PROVE  RollbackInv'
  <1>r. DOMAIN calls = Callers
    BY DEF RollbackInv
  <1>1. CASE UNCHANGED casVars
    BY <1>1, <1>r, RollbackFrame DEF casVars
  <1>2. ASSUME NEW a \in Apps, SetStatus(a) PROVE RollbackInv'
    BY <1>2, <1>r, RollbackFrame DEF SetStatus, casHistory
  <1>3. ASSUME NEW a \in Apps, NEW s \in Services, CreateTicket(a, s) PROVE RollbackInv'
    BY <1>3, <1>r, RollbackFrame DEF CreateTicket, casHistory
  <1>4. ASSUME NEW t \in DOMAIN tickets, NEW s \in Services, validate(t, s) PROVE RollbackInv'
    BY <1>4, <1>r, RollbackFrame DEF validate
  <1>5. ASSUME NEW w \in Callers, NEW a \in Apps, NEW t \in DOMAIN tickets, NEW s \in Services,
               NEW u \in Services \cup {Nil}, NEW allowProxy \in BOOLEAN,
               doValidate(w, a, t, s, allowProxy, u)
        PROVE  RollbackInv'
    <2>1. UNCHANGED <<granted, undone, late, pgts>>
      BY <1>5 DEF doValidate
    <2>2. \/ calls' = calls
          \/ calls' = [calls EXCEPT ![w] = NoCall]
          \/ calls' = [calls EXCEPT ![w] = [op |-> "pgt", app |-> a, url |-> u, of |-> t,
                                            proxies |-> tickets[t].proxies]]
      BY <1>5 DEF doValidate, Proceed
    <2>3. /\ DOMAIN calls' = Callers
          /\ \A v \in Callers : calls'[v] = calls[v] \/ calls'[v].op \notin {"callback", "proxy"}
      BY <1>r, <2>2, SMT DEF NoCall
    <2> QED BY <2>1, <2>3, RollbackFrame
  <1>6. ASSUME NEW w \in Callers, NEW a \in Apps, NEW p \in DOMAIN pgts, NEW s \in Services,
               GetPGT(w, a, p, s)
        PROVE  RollbackInv'
    <2>1. UNCHANGED <<granted, undone, late, pgts>>
      BY <1>6 DEF GetPGT, casHistory
    <2>2. calls' = [calls EXCEPT ![w] = [op |-> "proxy", pgt |-> p, row |-> pgts[p],
                                         service |-> s, fresh |-> p \notin undone]]
      BY <1>6 DEF GetPGT, Proceed
    <2>3. /\ DOMAIN calls' = Callers /\ \A v \in Callers \ {w} : calls'[v] = calls[v]
          /\ calls'[w].op = "proxy" /\ calls'[w].fresh = (p \notin undone)
      BY <1>r, <2>2
    <2>4. p \notin undone
      BY DEF RollbackInv
    <2> QED BY <2>1, <2>3, <2>4 DEF RollbackInv
  <1>7. ASSUME NEW w \in Callers, CreatePGT(w) PROVE RollbackInv'
    <2>1. PICK S : granted \in Seq(S)
      BY DEF RollbackInv
    <2>2. PICK n : n = Len(granted) + 1
      OBVIOUS
    <2>3. PICK e : granted' = Append(granted, e)
      BY <1>7 DEF CreatePGT
    <2>4. granted \in Seq(S \cup {e})
      BY <2>1, SMT
    <2>5. granted' \in Seq(S \cup {e}) /\ DOMAIN granted' = DOMAIN granted \cup {n} /\ n \notin DOMAIN granted
      BY <2>1, <2>2, <2>3, <2>4, SMT
    <2>6. DOMAIN pgts' = DOMAIN pgts \cup {n}
      BY <1>7, <2>2 DEF CreatePGT, With
    <2>7. UNCHANGED <<undone, late>>
      BY <1>7 DEF CreatePGT, casHistory
    <2>8. calls' = [calls EXCEPT ![w] = [op |-> "callback", pgt |-> n]]
      BY <1>7, <2>2 DEF CreatePGT, Proceed
    <2>9. /\ DOMAIN calls' = Callers /\ \A v \in Callers \ {w} : calls'[v] = calls[v]
          /\ calls'[w].op = "callback" /\ calls'[w].pgt = n
      BY <1>r, <2>8
    <2> QED BY <2>5, <2>6, <2>7, <2>9 DEF RollbackInv
  <1>8. ASSUME NEW w \in Callers, pgtCallback(w) PROVE RollbackInv'
    <2>1. UNCHANGED <<granted, late>> /\ calls[w].op = "callback"
      BY <1>8 DEF pgtCallback
    <2>2. DOMAIN calls' = Callers /\ \A v \in Callers : calls'[v] \in {calls[v], NoCall}
      BY <1>8, <1>r DEF pgtCallback, Proceed
    <2>3. CASE UNCHANGED <<pgts, undone>>
      BY <2>1, <2>2, <2>3, RollbackFrame, SMT DEF NoCall
    <2>4. CASE pgts' = Without(pgts, calls[w].pgt) /\ undone' = undone \cup {calls[w].pgt}
      <3>1. DOMAIN pgts' = DOMAIN pgts \ {calls[w].pgt}
        BY <2>4, WithoutKey
      <3>2. calls[w].pgt \in DOMAIN granted
        BY <2>1 DEF RollbackInv
      <3> QED BY <2>1, <2>2, <2>4, <3>1, <3>2, SMT DEF RollbackInv, NoCall
    <2> QED BY <1>8, <2>3, <2>4 DEF pgtCallback, DeletePGT
  <1>9. ASSUME NEW w \in Callers, CreateProxyTicket(w) PROVE RollbackInv'
    <2>1. UNCHANGED <<granted, undone, pgts>> /\ calls[w].fresh
      BY <1>9 DEF CreateProxyTicket, RollbackInv
    <2>2. late' = late
      BY <1>9, <2>1 DEF CreateProxyTicket
    <2>3. DOMAIN calls' = Callers /\ \A v \in Callers : calls'[v] \in {calls[v], NoCall}
      BY <1>9, <1>r DEF CreateProxyTicket, Proceed
    <2> QED BY <2>1, <2>2, <2>3, RollbackFrame, SMT DEF NoCall
  <1>10. CASE TicketExpires
    <2>1. UNCHANGED <<granted, undone, late, calls>>
      BY <1>10 DEF TicketExpires, casHistory
    <2>2. DOMAIN pgts' \subseteq DOMAIN pgts
      <3>1. UNCHANGED pgts \/ \E p : pgts' = Without(pgts, p)
        BY <1>10 DEF TicketExpires
      <3> QED BY <3>1, WithoutKey
    <2> QED BY <1>r, <2>1, <2>2, RollbackFrame
  <1> QED BY <1>1, <1>2, <1>3, <1>4, <1>5, <1>6, <1>7, <1>8, <1>9, <1>10 DEF NextCAS

(***************************************************************************)
(* No call of /proxy mints a ticket with a PGT that was rolled back before *)
(* the call read it (maybeIssuePGT's DeletePGT), for any number of         *)
(* callbacks and calls in flight.                                          *)
(***************************************************************************)
THEOREM RollbackTheorem == SpecCAS => []RolledBackIsDead
  <1>1. InitCAS => RollbackInv
    <2> SUFFICES ASSUME InitCAS PROVE RollbackInv
      OBVIOUS
    <2>1. /\ granted = <<>> /\ undone = {} /\ late = {} /\ pgts = Empty
          /\ calls = [w \in Callers |-> NoCall]
      BY DEF InitCAS
    <2>2. granted \in Seq({})
      BY <2>1, SMT
    <2>3. DOMAIN calls = Callers /\ \A w \in Callers : calls[w].op = "idle"
      BY <2>1 DEF NoCall
    <2> QED BY <2>1, <2>2, <2>3 DEF RollbackInv
  <1>2. RollbackInv /\ [NextCAS]_casVars => RollbackInv'
    BY RollbackStep
  <1>3. RollbackInv => RolledBackIsDead
    BY DEF RollbackInv, RolledBackIsDead
  <1> QED BY <1>1, <1>2, <1>3, PTL DEF SpecCAS

(***************************************************************************)
(* Proxy chains.  A ticket is stored with the chain of the proxy-granting  *)
(* ticket it came of, behind that one's own service; the chain travels     *)
(* from the ticket to the call that validates it, to the PGT the call is   *)
(* given, to the /proxy call that reads it and to the ticket that mints.   *)
(* At each of these places it is the lineage of the ticket it belongs to,  *)
(* and what was minted before never changes.                               *)
(***************************************************************************)

Chain(t, chain) == chain \in Seq(Services) /\ IsLineage(t, chain)

\* What is stored under, or read from, the key of PGT p.
ChainOfPGT(p, pgt) ==
    /\ p \in DOMAIN granted
    /\ pgt.url = granted[p].url /\ pgt.url \in Services
    /\ Chain(granted[p].from, pgt.proxies)

ChainOfCall(r) ==
    /\ r.op = "pgt" => r.url \in Services /\ Chain(r.of, r.proxies)
    /\ r.op = "proxy" => ChainOfPGT(r.pgt, r.row)

LineageInv ==
    /\ \E S : made \in Seq(S)
    /\ \E S : granted \in Seq(S)
    /\ \A t \in DOMAIN made : made[t].from = Nil \/ made[t].from \in DOMAIN granted
    /\ DOMAIN calls = Callers
    /\ \A t \in DOMAIN tickets : Chain(t, tickets[t].proxies)
    /\ \A p \in DOMAIN pgts : ChainOfPGT(p, pgts[p])
    /\ \A w \in Callers : ChainOfCall(calls[w])
    /\ \A r \in reported : Chain(r.ticket, r.proxies)

\* What Append adds.
LEMMA Appended ==
  ASSUME NEW s, NEW e, \E S : s \in Seq(S)
  PROVE  /\ \E S : Append(s, e) \in Seq(S)
         /\ DOMAIN Append(s, e) = DOMAIN s \cup {Len(s) + 1}
         /\ Len(s) + 1 \in Nat /\ Len(s) + 1 \notin DOMAIN s
         /\ Append(s, e)[Len(s) + 1] = e
         /\ \A i \in DOMAIN s : Append(s, e)[i] = s[i]
  <1>1. PICK S : s \in Seq(S)
    OBVIOUS
  <1>2. s \in Seq(S \cup {e})
    BY <1>1, SMT
  <1>3. Append(s, e) \in Seq(S \cup {e})
    BY <1>2, SMT
  <1>4. /\ DOMAIN Append(s, e) = DOMAIN s \cup {Len(s) + 1}
        /\ Len(s) + 1 \in Nat /\ Len(s) + 1 \notin DOMAIN s
        /\ Append(s, e)[Len(s) + 1] = e
        /\ \A i \in DOMAIN s : Append(s, e)[i] = s[i]
    BY <1>2, SMT
  <1> QED BY <1>3, <1>4

\* The logs of a step keep what they held.
Keeps ==
    /\ DOMAIN made \subseteq DOMAIN made' /\ \A t \in DOMAIN made : made'[t] = made[t]
    /\ DOMAIN granted \subseteq DOMAIN granted' /\ \A p \in DOMAIN granted : granted'[p] = granted[p]

LEMMA ChainKept ==
  ASSUME LineageInv, Keeps, NEW t, NEW chain, Chain(t, chain)
  PROVE  Chain(t, chain)'
  <1>1. PICK path \in [1 .. Len(chain) + 1 -> DOMAIN made] :
            /\ path[1] = t
            /\ \A i \in 1 .. Len(chain) :
                  /\ made[path[i]].from # Nil
                  /\ chain[i] = granted[made[path[i]].from].url
                  /\ path[i + 1] = granted[made[path[i]].from].from
            /\ made[path[Len(chain) + 1]].from = Nil
    BY Zenon DEF Chain, IsLineage
  <1>2. Len(chain) \in Nat
    BY SMT DEF Chain
  <1>3. \A i \in 1 .. Len(chain) + 1 : path[i] \in DOMAIN made /\ made'[path[i]] = made[path[i]]
    BY <1>1 DEF Keeps
  <1>4. path \in [1 .. Len(chain) + 1 -> DOMAIN made']
    BY <1>1, SMT DEF Keeps
  <1>5. \A i \in 1 .. Len(chain) : i \in 1 .. Len(chain) + 1
    BY <1>2, SMT
  <1>6. Len(chain) + 1 \in 1 .. Len(chain) + 1
    BY <1>2, SMT
  <1>7. ASSUME NEW i \in 1 .. Len(chain)
        PROVE  /\ made'[path[i]].from # Nil
               /\ chain[i] = granted'[made'[path[i]].from].url
               /\ path[i + 1] = granted'[made'[path[i]].from].from
    <2>1. made'[path[i]] = made[path[i]] /\ path[i] \in DOMAIN made
      BY <1>3, <1>5
    <2>2. made[path[i]].from \in DOMAIN granted
      BY <1>1, <2>1 DEF LineageInv
    <2>3. granted'[made[path[i]].from] = granted[made[path[i]].from]
      BY <2>2 DEF Keeps
    <2> QED BY <1>1, <2>1, <2>3
  <1>8. made'[path[Len(chain) + 1]].from = Nil
    BY <1>1, <1>3, <1>6
  <1>9. IsLineage(t, chain)'
    BY <1>1, <1>4, <1>7, <1>8, Zenon DEF IsLineage
  <1> QED BY <1>9 DEF Chain

LEMMA ChainOfPGTKept ==
  ASSUME LineageInv, Keeps, NEW p, NEW pgt, ChainOfPGT(p, pgt)
  PROVE  ChainOfPGT(p, pgt)'
  <1>1. PICK t : t = granted[p].from
    OBVIOUS
  <1>2. Chain(t, pgt.proxies)
    BY <1>1 DEF ChainOfPGT
  <1>3. Chain(t, pgt.proxies)'
    BY <1>2, ChainKept
  <1>4. p \in DOMAIN granted' /\ granted'[p] = granted[p]
    BY DEF ChainOfPGT, Keeps
  <1> QED BY <1>1, <1>3, <1>4 DEF ChainOfPGT

LEMMA ChainOfCallKept ==
  ASSUME LineageInv, Keeps, NEW r, ChainOfCall(r)
  PROVE  ChainOfCall(r)'
  <1>1. CASE r.op = "pgt"
    BY <1>1, ChainKept DEF ChainOfCall
  <1>2. CASE r.op = "proxy"
    BY <1>2, ChainOfPGTKept DEF ChainOfCall
  <1> QED BY <1>1, <1>2 DEF ChainOfCall

\* A ticket minted with a PGT: the PGT's service, then the PGT's own chain.
LEMMA ChainExtended ==
  ASSUME NEW n \in DOMAIN made', NEW p, made'[n].from = p, p # Nil,
         NEW url \in Services, url = granted'[p].url,
         NEW t, t = granted'[p].from, NEW chain, Chain(t, chain)'
  PROVE  Chain(n, <<url>> \o chain)'
  <1>1. PICK path \in [1 .. Len(chain) + 1 -> DOMAIN made'] :
            /\ path[1] = t
            /\ \A i \in 1 .. Len(chain) :
                  /\ made'[path[i]].from # Nil
                  /\ chain[i] = granted'[made'[path[i]].from].url
                  /\ path[i + 1] = granted'[made'[path[i]].from].from
            /\ made'[path[Len(chain) + 1]].from = Nil
    BY Zenon DEF Chain, IsLineage
  <1>2. PICK k \in Nat : k = Len(chain)
    BY SMT DEF Chain
  <1>3. PICK longer : longer = <<url>> \o chain
    OBVIOUS
  <1>4. /\ longer \in Seq(Services) /\ Len(longer) = k + 1
        /\ longer[1] = url /\ \A i \in 2 .. k + 1 : longer[i] = chain[i - 1]
    BY <1>2, <1>3, SMT DEF Chain
  <1>5. PICK line : line = [i \in 1 .. Len(longer) + 1 |-> IF i = 1 THEN n ELSE path[i - 1]]
    OBVIOUS
  <1>6. line \in [1 .. Len(longer) + 1 -> DOMAIN made']
    BY <1>1, <1>2, <1>4, <1>5, SMT
  <1>7. line[1] = n /\ \A i \in 2 .. k + 2 : line[i] = path[i - 1]
    BY <1>2, <1>4, <1>5, SMT
  <1>8. ASSUME NEW i \in 1 .. Len(longer)
        PROVE  /\ made'[line[i]].from # Nil
               /\ longer[i] = granted'[made'[line[i]].from].url
               /\ line[i + 1] = granted'[made'[line[i]].from].from
    <2>1. CASE i = 1
      <3>1. line[1] = n /\ line[2] = t
        BY <1>1, <1>2, <1>7, SMT
      <3> QED BY <1>4, <2>1, <3>1, SMT
    <2>2. CASE i # 1
      <3>1. PICK j \in 1 .. Len(chain) : i = j + 1
        BY <1>2, <1>4, <2>2, SMT
      <3>2. i \in 2 .. k + 1 /\ i \in 2 .. k + 2 /\ i + 1 \in 2 .. k + 2
        BY <1>2, <3>1, SMT
      <3>3. i - 1 = j /\ (i + 1) - 1 = j + 1
        BY <1>2, <3>1, SMT
      <3>4. line[i] = path[j] /\ line[i + 1] = path[j + 1] /\ longer[i] = chain[j]
        BY <1>4, <1>7, <3>2, <3>3
      <3> QED BY <1>1, <3>4
    <2> QED BY <2>1, <2>2
  <1>9. made'[line[Len(longer) + 1]].from = Nil
    <2>1. line[Len(longer) + 1] = path[Len(chain) + 1]
      BY <1>2, <1>4, <1>7, SMT
    <2> QED BY <1>1, <2>1
  <1>10. IsLineage(n, longer)'
    BY <1>6, <1>7, <1>8, <1>9, Zenon DEF IsLineage
  <1> QED BY <1>3, <1>4, <1>10 DEF Chain

\* A ticket of a login has no proxies behind it.
LEMMA ChainBegins ==
  ASSUME NEW n \in DOMAIN made', made'[n].from = Nil
  PROVE  Chain(n, <<>>)'
  <1>1. PICK none : none = <<>>
    OBVIOUS
  <1>2. none \in Seq(Services) /\ Len(none) = 0
    BY <1>1, SMT
  <1>3. PICK path : path = [i \in 1 .. Len(none) + 1 |-> n]
    OBVIOUS
  <1>4. /\ path \in [1 .. Len(none) + 1 -> DOMAIN made']
        /\ path[1] = n /\ path[Len(none) + 1] = n /\ 1 .. Len(none) = {}
    BY <1>2, <1>3, SMT
  <1>5. IsLineage(n, none)'
    BY <1>4, Zenon DEF IsLineage
  <1> QED BY <1>1, <1>2, <1>5 DEF Chain

LEMMA WithoutKept ==
  ASSUME NEW f, NEW k, NEW g, g = Without(f, k)
  PROVE  \A x \in DOMAIN g : x \in DOMAIN f /\ g[x] = f[x]
  BY DEF Without, Restrict

LEMMA WithKept ==
  ASSUME NEW f, NEW k, NEW v, NEW g, g = With(f, k, v)
  PROVE  g[k] = v /\ \A x \in DOMAIN g : x = k \/ (x \in DOMAIN f /\ g[x] = f[x])
  BY DEF With

\* A step keeps the invariant when each place holds what it held, or a lineage.
LEMMA LineageFrame ==
  ASSUME LineageInv, Keeps,
         \E S : made' \in Seq(S), \E S : granted' \in Seq(S),
         \A t \in DOMAIN made' :
             t \in DOMAIN made \/ made'[t].from = Nil \/ made'[t].from \in DOMAIN granted',
         DOMAIN calls' = Callers,
         \A t \in DOMAIN tickets' :
             (t \in DOMAIN tickets /\ tickets'[t] = tickets[t]) \/ Chain(t, tickets[t].proxies)',
         \A p \in DOMAIN pgts' :
             (p \in DOMAIN pgts /\ pgts'[p] = pgts[p]) \/ ChainOfPGT(p, pgts[p])',
         \A w \in Callers : calls'[w] = calls[w] \/ ChainOfCall(calls[w])',
         \A r \in reported' : r \in reported \/ Chain(r.ticket, r.proxies)'
  PROVE  LineageInv'
  <1>1. \A t \in DOMAIN made' : made'[t].from = Nil \/ made'[t].from \in DOMAIN granted'
    BY DEF LineageInv, Keeps
  <1>2. ASSUME NEW t \in DOMAIN tickets', t \in DOMAIN tickets, tickets'[t] = tickets[t]
        PROVE  Chain(t, tickets[t].proxies)'
    <2>1. PICK chain : chain = tickets[t].proxies
      OBVIOUS
    <2>2. Chain(t, chain)
      BY <1>2, <2>1 DEF LineageInv
    <2>3. Chain(t, chain)'
      BY <2>2, ChainKept
    <2> QED BY <1>2, <2>1, <2>3
  <1>3. ASSUME NEW p \in DOMAIN pgts', p \in DOMAIN pgts, pgts'[p] = pgts[p]
        PROVE  ChainOfPGT(p, pgts[p])'
    <2>1. PICK pgt : pgt = pgts[p]
      OBVIOUS
    <2>2. ChainOfPGT(p, pgt)
      BY <1>3, <2>1 DEF LineageInv
    <2>3. ChainOfPGT(p, pgt)'
      BY <2>2, ChainOfPGTKept
    <2> QED BY <1>3, <2>1, <2>3
  <1>4. ASSUME NEW w \in Callers, calls'[w] = calls[w] PROVE ChainOfCall(calls[w])'
    <2>1. PICK r : r = calls[w]
      OBVIOUS
    <2>2. ChainOfCall(r)
      BY <2>1 DEF LineageInv
    <2>3. ChainOfCall(r)'
      BY <2>2, ChainOfCallKept
    <2> QED BY <1>4, <2>1, <2>3
  <1>5. ASSUME NEW r \in reported PROVE Chain(r.ticket, r.proxies)'
    BY ChainKept DEF LineageInv
  <1> QED BY <1>1, <1>2, <1>3, <1>4, <1>5 DEF LineageInv

\* A validation takes ticket t, and reports its chain when it answers.
LEMMA LineageConsumed ==
  ASSUME LineageInv, UNCHANGED <<pgts, made, granted>>, NEW t \in DOMAIN tickets,
         tickets' = Without(tickets, t), DOMAIN calls' = Callers,
         \A w \in Callers : calls'[w] = calls[w] \/ ChainOfCall(calls[w])',
         reported' \in {reported, reported \cup {[ticket |-> t, proxies |-> tickets[t].proxies]}}
  PROVE  LineageInv'
  <1>1. Keeps
    BY DEF Keeps
  <1>2. \A x \in DOMAIN tickets' : x \in DOMAIN tickets /\ tickets'[x] = tickets[x]
    BY WithoutKept, SMT
  <1>3. ASSUME NEW r \in reported' PROVE r \in reported \/ Chain(r.ticket, r.proxies)'
    <2>1. PICK chain : chain = tickets[t].proxies
      OBVIOUS
    <2>2. Chain(t, chain)'
      BY <1>1, <2>1, ChainKept DEF LineageInv
    <2>3. r \in reported \/ r = [ticket |-> t, proxies |-> chain]
      BY <2>1, SMT
    <2>4. r \in reported \/ (r.ticket = t /\ r.proxies = chain)
      BY <2>3, SMT
    <2> QED BY <2>2, <2>4
  <1>4. (\E S : made' \in Seq(S)) /\ (\E S : granted' \in Seq(S))
    BY DEF LineageInv
  <1> QED BY <1>1, <1>2, <1>3, <1>4, LineageFrame

\* A new ticket with its chain.
LEMMA LineageStored ==
  ASSUME LineageInv, UNCHANGED <<pgts, granted, reported>>,
         NEW service, NEW proxy, NEW chain, NEW from, Store(service, proxy, chain, from),
         \/ from = Nil /\ chain = <<>>
         \/ \E pgt : ChainOfPGT(from, pgt) /\ chain = <<pgt.url>> \o pgt.proxies,
         DOMAIN calls' = Callers,
         \A w \in Callers : calls'[w] = calls[w] \/ ChainOfCall(calls[w])'
  PROVE  LineageInv'
  <1>1. PICK n : n = Len(made) + 1
    OBVIOUS
  <1>2. PICK e : e = [service |-> service, from |-> from]
    OBVIOUS
  <1>3. made' = Append(made, e) /\ e.from = from
    BY <1>2 DEF Store
  <1>4. /\ \E S : made' \in Seq(S)
        /\ DOMAIN made' = DOMAIN made \cup {n} /\ made'[n] = e
        /\ \A t \in DOMAIN made : made'[t] = made[t]
    <2>1. \E S : made \in Seq(S)
      BY DEF LineageInv
    <2>2. /\ \E S : Append(made, e) \in Seq(S)
          /\ DOMAIN Append(made, e) = DOMAIN made \cup {n} /\ Append(made, e)[n] = e
          /\ \A t \in DOMAIN made : Append(made, e)[t] = made[t]
      BY <1>1, <2>1, Appended
    <2> QED BY <1>3, <2>2
  <1>5. Keeps
    BY <1>4 DEF Keeps
  <1>6. PICK row : row = [service |-> service, isProxy |-> proxy, proxies |-> chain]
    OBVIOUS
  <1>7. tickets' = With(tickets, n, row) /\ row.proxies = chain
    BY <1>1, <1>6 DEF Store
  <1>8. /\ tickets'[n] = row
        /\ \A t \in DOMAIN tickets' : t = n \/ (t \in DOMAIN tickets /\ tickets'[t] = tickets[t])
    BY <1>7, WithKept, SMT
  <1>9. from = Nil \/ from \in DOMAIN granted'
    BY DEF ChainOfPGT
  <1>10. Chain(n, chain)'
    <2>1. CASE from = Nil /\ chain = <<>>
      BY <1>3, <1>4, <2>1, ChainBegins
    <2>2. ASSUME NEW pgt, ChainOfPGT(from, pgt), chain = <<pgt.url>> \o pgt.proxies
          PROVE  Chain(n, chain)'
      <3>1. PICK t : t = granted'[from].from
        OBVIOUS
      <3>2. ChainOfPGT(from, pgt)'
        BY <1>5, <2>2, ChainOfPGTKept
      <3>3. pgt.url \in Services /\ pgt.url = granted'[from].url /\ Chain(t, pgt.proxies)'
        BY <3>1, <3>2 DEF ChainOfPGT
      <3>4. from # Nil
        <4>1. \A p \in DOMAIN granted : p \in Nat
          BY SMT DEF LineageInv
        <4> QED BY <2>2, <4>1, CASAssumption DEF ChainOfPGT
      <3>5. n \in DOMAIN made' /\ made'[n].from = from
        BY <1>3, <1>4
      <3> QED BY <2>2, <3>1, <3>3, <3>4, <3>5, ChainExtended
    <2> QED BY <2>1, <2>2
  <1>11. \A t \in DOMAIN tickets' :
             (t \in DOMAIN tickets /\ tickets'[t] = tickets[t]) \/ Chain(t, tickets[t].proxies)'
    BY <1>7, <1>8, <1>10
  <1>12. \A t \in DOMAIN made' :
             t \in DOMAIN made \/ made'[t].from = Nil \/ made'[t].from \in DOMAIN granted'
    BY <1>3, <1>4, <1>9
  <1>13. (\E S : granted' \in Seq(S)) /\ \A p \in DOMAIN pgts' : p \in DOMAIN pgts /\ pgts'[p] = pgts[p]
    BY DEF LineageInv
  <1> QED BY <1>4, <1>5, <1>11, <1>12, <1>13, LineageFrame

LEMMA LineageStep ==
  ASSUME LineageInv, [NextCAS]_casVars
  PROVE  LineageInv'
  <1>r. DOMAIN calls = Callers
    BY DEF LineageInv
  <1>s. (\E S : made \in Seq(S)) /\ (\E S : granted \in Seq(S))
    BY DEF LineageInv
  <1>i. ChainOfCall(NoCall)'
    BY SMT DEF ChainOfCall, NoCall
  <1>f. ASSUME UNCHANGED <<made, granted, reported>>,
               \A t \in DOMAIN tickets' : t \in DOMAIN tickets /\ tickets'[t] = tickets[t],
               \A p \in DOMAIN pgts' : p \in DOMAIN pgts /\ pgts'[p] = pgts[p],
               DOMAIN calls' = Callers,
               \A w \in Callers : calls'[w] = calls[w] \/ ChainOfCall(calls[w])'
        PROVE  LineageInv'
    <2>1. Keeps
      BY <1>f DEF Keeps
    <2> QED BY <1>f, <1>s, <2>1, LineageFrame
  <1>1. CASE UNCHANGED casVars
    BY <1>1, <1>r, <1>f DEF casVars
  <1>2. ASSUME NEW a \in Apps, SetStatus(a) PROVE LineageInv'
    BY <1>2, <1>r, <1>f DEF SetStatus, casHistory
  <1>3. ASSUME NEW a \in Apps, NEW s \in Services, CreateTicket(a, s) PROVE LineageInv'
    <2>1. PICK none : none = <<>>
      OBVIOUS
    <2>2. Store(s, FALSE, none, Nil) /\ UNCHANGED <<pgts, calls, granted, reported>>
      BY <1>3, <2>1 DEF CreateTicket, casHistory
    <2> QED BY <1>r, <2>1, <2>2, LineageStored
  <1>4. ASSUME NEW t \in DOMAIN tickets, NEW s \in Services, validate(t, s) PROVE LineageInv'
    <2>1. tickets' = Without(tickets, t) /\ UNCHANGED <<pgts, made, granted, calls>>
      BY <1>4 DEF validate, ConsumeTicket
    <2>2. reported' \in {reported, reported \cup {[ticket |-> t, proxies |-> tickets[t].proxies]}}
      BY <1>4 DEF validate, Accept
    <2> QED BY <1>r, <2>1, <2>2, LineageConsumed
  <1>5. ASSUME NEW w \in Callers, NEW a \in Apps, NEW t \in DOMAIN tickets, NEW s \in Services,
               NEW u \in Services \cup {Nil}, NEW allowProxy \in BOOLEAN,
               doValidate(w, a, t, s, allowProxy, u)
        PROVE  LineageInv'
    <2>1. tickets' = Without(tickets, t) /\ UNCHANGED <<pgts, made, granted>>
      BY <1>5 DEF doValidate, ConsumeTicket
    <2>2. reported' \in {reported, reported \cup {[ticket |-> t, proxies |-> tickets[t].proxies]}}
      BY <1>5 DEF doValidate, Accept
    <2>3. PICK r : r = [op |-> "pgt", app |-> a, url |-> u, of |-> t, proxies |-> tickets[t].proxies]
      OBVIOUS
    <2>4. \/ calls' = calls \/ calls' = [calls EXCEPT ![w] = NoCall]
          \/ u # Nil /\ calls' = [calls EXCEPT ![w] = r]
      BY <1>5, <2>3 DEF doValidate, Proceed
    <2>5. u # Nil => ChainOfCall(r)'
      <3>1. r.op = "pgt" /\ r.url = u /\ r.of = t /\ r.proxies = tickets[t].proxies
        BY <2>3
      <3>2. Chain(r.of, r.proxies)
        BY <3>1 DEF LineageInv
      <3>3. Keeps
        BY <2>1 DEF Keeps
      <3>4. Chain(r.of, r.proxies)'
        BY <3>2, <3>3, ChainKept
      <3>5. r.op # "proxy"
        BY <3>1, SMT
      <3> QED BY <3>1, <3>4, <3>5 DEF ChainOfCall
    <2>6. \A v \in Callers : calls'[v] = calls[v] \/ ChainOfCall(calls[v])'
      <3>1. ASSUME NEW v \in Callers
            PROVE  calls'[v] = calls[v] \/ calls'[v] = NoCall \/ (u # Nil /\ calls'[v] = r)
        BY <1>r, <2>4
      <3> QED BY <1>i, <2>5, <3>1
    <2>7. DOMAIN calls' = Callers
      BY <1>r, <2>4
    <2> QED BY <2>1, <2>2, <2>6, <2>7, LineageConsumed
  <1>6. ASSUME NEW w \in Callers, NEW a \in Apps, NEW p \in DOMAIN pgts, NEW s \in Services,
               GetPGT(w, a, p, s)
        PROVE  LineageInv'
    <2>1. UNCHANGED <<made, granted, reported, tickets, pgts>>
      BY <1>6 DEF GetPGT, casHistory
    <2>2. PICK r : r = [op |-> "proxy", pgt |-> p, row |-> pgts[p], service |-> s,
                        fresh |-> p \notin undone]
      OBVIOUS
    <2>3. calls' = [calls EXCEPT ![w] = r]
      BY <1>6, <2>2 DEF GetPGT, Proceed
    <2>4. DOMAIN calls' = Callers /\ \A v \in Callers : calls'[v] \in {calls[v], r}
      BY <1>r, <2>3
    <2>5. r.op = "proxy" /\ r.op # "pgt" /\ r.pgt = p /\ r.row = pgts[p]
      BY <2>2, SMT
    <2>6. ChainOfPGT(r.pgt, r.row)
      BY <2>5 DEF LineageInv
    <2>7. Keeps
      BY <2>1 DEF Keeps
    <2>8. ChainOfPGT(r.pgt, r.row)'
      BY <2>6, <2>7, ChainOfPGTKept
    <2>9. ChainOfCall(r)'
      BY <2>5, <2>8 DEF ChainOfCall
    <2>10. \A v \in Callers : calls'[v] = calls[v] \/ ChainOfCall(calls[v])'
      <3>1. ASSUME NEW v \in Callers PROVE calls'[v] = calls[v] \/ calls'[v] = r
        BY <2>4
      <3> QED BY <2>9, <3>1
    <2> QED BY <1>f, <2>1, <2>4, <2>10
  <1>7. ASSUME NEW w \in Callers, CreatePGT(w) PROVE LineageInv'
    <2>1. PICK n : n = Len(granted) + 1
      OBVIOUS
    <2>2. PICK r : r = calls[w]
      OBVIOUS
    <2>3. PICK e : e = [url |-> r.url, from |-> r.of]
      OBVIOUS
    <2>4. PICK row : row = [app |-> r.app, url |-> r.url, proxies |-> r.proxies]
      OBVIOUS
    <2>5. PICK c : c = [op |-> "callback", pgt |-> n]
      OBVIOUS
    <2>6. /\ granted' = Append(granted, e) /\ pgts' = With(pgts, n, row)
          /\ calls' = [calls EXCEPT ![w] = c] /\ UNCHANGED <<tickets, made, reported>>
          /\ r.op = "pgt"
      BY <1>7, <2>1, <2>2, <2>3, <2>4, <2>5 DEF CreatePGT, Proceed, casHistory
    <2>7. /\ \E S : granted' \in Seq(S)
          /\ DOMAIN granted' = DOMAIN granted \cup {n} /\ granted'[n] = e
          /\ \A p \in DOMAIN granted : granted'[p] = granted[p]
      <3>1. /\ \E S : Append(granted, e) \in Seq(S)
            /\ DOMAIN Append(granted, e) = DOMAIN granted \cup {n} /\ Append(granted, e)[n] = e
            /\ \A p \in DOMAIN granted : Append(granted, e)[p] = granted[p]
        BY <1>s, <2>1, Appended
      <3> QED BY <2>6, <3>1
    <2>8. Keeps
      BY <2>6, <2>7 DEF Keeps
    <2>9. Chain(r.of, r.proxies) /\ r.url \in Services
      BY <2>2, <2>6 DEF LineageInv, ChainOfCall
    <2>10. Chain(r.of, r.proxies)'
      BY <2>8, <2>9, ChainKept
    <2>11. row.url = r.url /\ row.proxies = r.proxies /\ e.url = r.url /\ e.from = r.of
      BY <2>3, <2>4
    <2>12. ChainOfPGT(n, row)'
      BY <2>7, <2>9, <2>10, <2>11 DEF ChainOfPGT
    <2>13. /\ pgts'[n] = row
           /\ \A p \in DOMAIN pgts' : p = n \/ (p \in DOMAIN pgts /\ pgts'[p] = pgts[p])
      BY <2>6, WithKept, SMT
    <2>14. \A p \in DOMAIN pgts' :
               (p \in DOMAIN pgts /\ pgts'[p] = pgts[p]) \/ ChainOfPGT(p, pgts[p])'
      BY <2>12, <2>13
    <2>15. DOMAIN calls' = Callers /\ \A v \in Callers : calls'[v] \in {calls[v], c}
      BY <1>r, <2>6
    <2>16. ChainOfCall(c)'
      BY <2>5, SMT DEF ChainOfCall
    <2>17. \A v \in Callers : calls'[v] = calls[v] \/ ChainOfCall(calls[v])'
      <3>1. ASSUME NEW v \in Callers PROVE calls'[v] = calls[v] \/ calls'[v] = c
        BY <2>15
      <3> QED BY <2>16, <3>1
    <2>18. \A t \in DOMAIN made' : t \in DOMAIN made
      BY <2>6
    <2>19. \A t \in DOMAIN tickets' : t \in DOMAIN tickets /\ tickets'[t] = tickets[t]
      BY <2>6
    <2>20. (\E S : made' \in Seq(S)) /\ reported' = reported
      BY <1>s, <2>6
    <2> QED BY <2>7, <2>8, <2>14, <2>15, <2>17, <2>18, <2>19, <2>20, LineageFrame
  <1>8. ASSUME NEW w \in Callers, pgtCallback(w) PROVE LineageInv'
    <2>1. UNCHANGED <<made, granted, reported, tickets>>
      BY <1>8 DEF pgtCallback
    <2>2. DOMAIN calls' = Callers /\ \A v \in Callers : calls'[v] = calls[v] \/ calls'[v] = NoCall
      BY <1>8, <1>r DEF pgtCallback, Proceed
    <2>3. \A v \in Callers : calls'[v] = calls[v] \/ ChainOfCall(calls[v])'
      BY <1>i, <2>2
    <2>4. UNCHANGED pgts \/ pgts' = Without(pgts, calls[w].pgt)
      BY <1>8 DEF pgtCallback, DeletePGT
    <2>5. \A p \in DOMAIN pgts' : p \in DOMAIN pgts /\ pgts'[p] = pgts[p]
      <3>1. CASE UNCHANGED pgts
        BY <3>1
      <3>2. CASE pgts' = Without(pgts, calls[w].pgt)
        BY <3>2, WithoutKept, SMT
      <3> QED BY <2>4, <3>1, <3>2
    <2> QED BY <1>f, <2>1, <2>2, <2>3, <2>5
  <1>9. ASSUME NEW w \in Callers, CreateProxyTicket(w) PROVE LineageInv'
    <2>1. PICK pgt : pgt = calls[w].row
      OBVIOUS
    <2>2. PICK from : from = calls[w].pgt
      OBVIOUS
    <2>3. PICK chain : chain = <<pgt.url>> \o pgt.proxies
      OBVIOUS
    <2>4. PICK s : s = calls[w].service
      OBVIOUS
    <2>5. Store(s, TRUE, chain, from) /\ UNCHANGED <<pgts, granted, reported>> /\ calls[w].op = "proxy"
      BY <1>9, <2>1, <2>2, <2>3, <2>4 DEF CreateProxyTicket, ProxyChain
    <2>6. ChainOfPGT(from, pgt)
      BY <2>1, <2>2, <2>5 DEF LineageInv, ChainOfCall
    <2>7. DOMAIN calls' = Callers /\ \A v \in Callers : calls'[v] = calls[v] \/ calls'[v] = NoCall
      BY <1>9, <1>r DEF CreateProxyTicket, Proceed
    <2>8. \A v \in Callers : calls'[v] = calls[v] \/ ChainOfCall(calls[v])'
      BY <1>i, <2>7
    <2> QED BY <2>3, <2>5, <2>6, <2>7, <2>8, LineageStored
  <1>10. CASE TicketExpires
    <2>1. UNCHANGED <<made, granted, reported, calls>>
      BY <1>10 DEF TicketExpires, casHistory
    <2>2. /\ UNCHANGED tickets \/ \E t : tickets' = Without(tickets, t)
          /\ UNCHANGED pgts \/ \E p : pgts' = Without(pgts, p)
      BY <1>10 DEF TicketExpires
    <2>3. \A t \in DOMAIN tickets' : t \in DOMAIN tickets /\ tickets'[t] = tickets[t]
      <3>1. ASSUME NEW k, tickets' = Without(tickets, k)
            PROVE  \A t \in DOMAIN tickets' : t \in DOMAIN tickets /\ tickets'[t] = tickets[t]
        BY <3>1, WithoutKept, SMT
      <3>2. CASE UNCHANGED tickets
        BY <3>2
      <3> QED BY <2>2, <3>1, <3>2
    <2>4. \A p \in DOMAIN pgts' : p \in DOMAIN pgts /\ pgts'[p] = pgts[p]
      <3>1. ASSUME NEW k, pgts' = Without(pgts, k)
            PROVE  \A p \in DOMAIN pgts' : p \in DOMAIN pgts /\ pgts'[p] = pgts[p]
        BY <3>1, WithoutKept, SMT
      <3>2. CASE UNCHANGED pgts
        BY <3>2
      <3> QED BY <2>2, <3>1, <3>2
    <2> QED BY <1>f, <1>r, <2>1, <2>3, <2>4
  <1> QED BY <1>1, <1>2, <1>3, <1>4, <1>5, <1>6, <1>7, <1>8, <1>9, <1>10 DEF NextCAS

(***************************************************************************)
(* The chain a validation reports as <cas:proxies> is every service the    *)
(* authentication was proxied through, most recent first, across any       *)
(* number of proxy-granting tickets; and no /proxy call mints with a PGT   *)
(* that maybeIssuePGT rolled back before it.                               *)
(***************************************************************************)
THEOREM ProxiesTheorem == SpecCAS => []ProxiesHold
  <1>1. InitCAS => LineageInv
    <2> SUFFICES ASSUME InitCAS PROVE LineageInv
      OBVIOUS
    <2>1. /\ made = <<>> /\ granted = <<>> /\ reported = {} /\ pgts = Empty /\ tickets = Empty
          /\ calls = [w \in Callers |-> NoCall]
      BY DEF InitCAS
    <2>2. made \in Seq({}) /\ granted \in Seq({}) /\ DOMAIN made = {}
      BY <2>1, SMT
    <2>3. DOMAIN pgts = {} /\ DOMAIN tickets = {}
      BY <2>1 DEF Empty
    <2>4. DOMAIN calls = Callers /\ \A w \in Callers : calls[w] = NoCall
      BY <2>1
    <2>5. ChainOfCall(NoCall)
      BY SMT DEF ChainOfCall, NoCall
    <2> QED BY <2>1, <2>2, <2>3, <2>4, <2>5 DEF LineageInv
  <1>2. LineageInv /\ [NextCAS]_casVars => LineageInv'
    BY LineageStep
  <1>3. LineageInv => ChainIsLineage
    BY DEF LineageInv, ChainIsLineage, Chain
  <1> QED BY <1>1, <1>2, <1>3, RollbackTheorem, PTL DEF SpecCAS, ProxiesHold
================================================================================
