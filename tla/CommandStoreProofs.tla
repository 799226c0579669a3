--------------------------- MODULE CommandStoreProofs ---------------------------
(* Proofs about the durable idempotency store, for any number of requests,    *)
(* keys and identities, any retention and any prune limit.                    *)
EXTENDS CommandStore, FiniteSetTheorems, TLAPS

(* Answering a request keeps the shape of the table of requests. *)
LEMMA AnswerShape ==
  ASSUME req \in [Requests -> Request], NEW r \in Requests, NEW result \in Requests \cup {None},
         NEW answer \in {"result", "unrecorded", "lost"}, Answered(r, answer, result)
  PROVE  req' \in [Requests -> Request]
<1>1. [req[r] EXCEPT !.pc = "done", !.answer = answer, !.result = result] \in Request
  BY DEF Request
<1> QED
  BY <1>1 DEF Answered

(* Type correctness: the record shapes of the table and of the handlers. *)
THEOREM TypeCorrect == Spec => []TypeOK
<1>1. Init => TypeOK
  BY NoneAssumption DEF Init, TypeOK, Absent, Row, Idle, Request, Kinds
<1>2. TypeOK /\ [Next]_vars => TypeOK'
  <2> SUFFICES ASSUME TypeOK, [Next]_vars PROVE TypeOK'
    OBVIOUS
  <2> USE DEF TypeOK
  <2>1. ASSUME NEW r \in Requests, NEW kind \in Kinds, NEW k \in Keys, NEW i \in Identities,
               Reserve(r, kind, k, i)
        PROVE  TypeOK'
    BY <2>1, RetentionAssumption
       DEF Reserve, Opened, PruneSets, Expired, Without, Absent, Row, Request, Kinds
  <2>2. ASSUME NEW r \in Requests, NEW kind \in Kinds, NEW k \in Keys, NEW i \in Identities,
               Replay(r, kind, k, i)
        PROVE  TypeOK'
    BY <2>2 DEF Replay, Opened, PruneSets, Expired, Without, Absent, Row, Request, Kinds
  <2>3. ASSUME NEW r \in Requests, NEW kind \in Kinds, NEW k \in Keys, NEW i \in Identities,
               Reject(r, kind, k, i)
        PROVE  TypeOK'
    BY <2>3 DEF Reject, Opened, Row, Request, Kinds
  <2>4. ASSUME NEW r \in Requests, NEW kind \in Kinds, NEW k \in Keys, NEW i \in Identities,
               BeginFails(r, kind, k, i)
        PROVE  TypeOK'
    BY <2>4 DEF BeginFails, Opened, Row, Request, Kinds
  <2>5. ASSUME NEW r \in Requests, Execute(r) PROVE TypeOK'
    BY <2>5 DEF Execute, Row, Request, Kinds
  <2>6. ASSUME NEW r \in Requests, Complete(r) PROVE TypeOK'
    <3>1. req' \in [Requests -> Request]
      BY <2>6, AnswerShape DEF Complete
    <3>2. PICK S \in PruneSets :
            records' = IF Without(S)[req[r].key].status = "completed" THEN Without(S)
                       ELSE [Without(S) EXCEPT ![req[r].key] =
                                [@ EXCEPT !.status = "completed", !.result = r]]
      BY <2>6 DEF Complete
    <3>3. Without(S) \in [Keys -> Row]
      BY DEF Without, Absent, Row
    <3>4. ASSUME NEW row \in Row PROVE [row EXCEPT !.status = "completed", !.result = r] \in Row
      BY DEF Row
    <3>5. records' \in [Keys -> Row]
      BY <3>2, <3>3, <3>4
    <3> QED
      BY <2>6, <3>1, <3>5 DEF Complete
  <2>7. ASSUME NEW r \in Requests, CompleteRefused(r) PROVE TypeOK'
    <3>1. req' \in [Requests -> Request]
      BY <2>7, AnswerShape DEF CompleteRefused, AnswerUnrecorded
    <3> QED
      BY <2>7, <3>1 DEF CompleteRefused
  <2>8. ASSUME NEW r \in Requests, CompleteFails(r) PROVE TypeOK'
    <3>1. req' \in [Requests -> Request]
      BY <2>8, AnswerShape DEF CompleteFails, AnswerUnrecorded
    <3> QED
      BY <2>8, <3>1 DEF CompleteFails
  <2>9. CASE Restart
    <3>1. ASSUME NEW r \in Requests PROVE [req[r] EXCEPT !.pc = "done", !.answer = "lost"] \in Request
      BY DEF Request
    <3>2. req' \in [Requests -> Request]
      BY <2>9, <3>1 DEF Restart
    <3>3. restarts' = restarts + 1 /\ now' = now /\ records' = records /\ faults' = faults
      BY <2>9 DEF Restart
    <3> QED
      BY <3>2, <3>3
  <2>10. CASE Tick
    BY <2>10 DEF Tick, Row, Request, Kinds
  <2>11. CASE UNCHANGED vars
    BY <2>11 DEF vars
  <2> QED
    BY <2>1, <2>2, <2>3, <2>4, <2>5, <2>6, <2>7, <2>8, <2>9, <2>10, <2>11 DEF Next
<1> QED
  BY <1>1, <1>2, PTL DEF Spec

--------------------------------------------------------------------------------
(* The window of a claim: while it lasts, the row of the key is the claim's;  *)
(* if it holds a result already, the result is the claim's own or that of a   *)
(* command whose window had ended when this one was taken.                    *)
Lasts(r) == now < req[r].claimedAt + Retention

OwnRow(r) ==
  LET row == records[req[r].key] IN
  /\ row.status # "absent" /\ row.id = req[r].id
  /\ row.expires = req[r].claimedAt + Retention
  /\ row.status = "completed" =>
       row.result = r \/ req[row.result].claimedAt + Retention <= req[r].claimedAt

ClaimOf(r) ==
  /\ req[r].key \in Keys /\ req[r].id \in Identities /\ req[r].kind \in Kinds
  /\ req[r].claimedAt <= now
  /\ Lasts(r) => OwnRow(r)
  /\ Lasts(r) /\ req[r].kind = "command" /\ req[r].answer = "result"
       => records[req[r].key].status = "completed"

(* Only requests that ran and recorded their result are named by a row. *)
ResultOf(k) ==
  LET q == records[k].result IN
  q \in Requests /\ Claimed(q) /\ req[q].pc = "done" /\ req[q].key = k /\ req[q].id = records[k].id

PcAnswer == \A r \in Requests :
  /\ req[r].pc # "done" => req[r].answer = "none"
  /\ req[r].pc = "idle" => req[r] = Idle

ClaimsInv  == \A r \in Requests : Claimed(r) => ClaimOf(r)
ResultsInv == \A k \in Keys : records[k].status = "completed" => ResultOf(k)
EmptyRows  == \A k \in Keys : records[k].status = "absent" => records[k] = Absent

IInv == /\ TypeOK /\ PcAnswer /\ EmptyRows /\ ClaimsInv /\ ResultsInv
        /\ OncePerWindow /\ ReplayIsOfSameCommand

USE RetentionAssumption, NoneAssumption

(* A prune only removes rows whose window has ended. *)
LEMMA PruneKeepsLiveRows ==
  ASSUME TypeOK, NEW S \in PruneSets, NEW k \in Keys
  PROVE  /\ Without(S)[k] \in {records[k], Absent}
         /\ now < records[k].expires => Without(S)[k] = records[k]
BY DEF TypeOK, PruneSets, Expired, Without, Row

(* A step that neither claims nor records: rows are only pruned, requests that *)
(* had claimed keep what they claimed, and nobody is given a stored result.    *)
Pruned == \E S \in PruneSets : records' = Without(S)
Keeps(r) == /\ Claimed(r)' <=> Claimed(r)
            /\ Claimed(r) => /\ req'[r].key = req[r].key /\ req'[r].id = req[r].id
                             /\ req'[r].kind = req[r].kind /\ req'[r].claimedAt = req[r].claimedAt
                             /\ req[r].pc = "done" => req'[r].pc = "done"
                             /\ req'[r].kind = "command" /\ req'[r].answer = "result"
                                  => req[r].answer = "result"

LEMMA QuietStep ==
  ASSUME IInv, TypeOK', records' = records \/ Pruned, now' \in {now, now + 1},
         \A r \in Requests : Keeps(r)
  PROVE  ClaimsInv' /\ ResultsInv' /\ EmptyRows' /\ OncePerWindow'
<1> USE DEF IInv
<1>1. \A k \in Keys : /\ records'[k] \in {records[k], Absent}
                      /\ now < records[k].expires => records'[k] = records[k]
  BY PruneKeepsLiveRows DEF Pruned
<1>2. EmptyRows'
  BY <1>1 DEF EmptyRows, Absent
<1>3. ResultsInv'
  BY <1>1 DEF ResultsInv, ResultOf, Keeps, Absent
<1>4. OncePerWindow'
  BY DEF OncePerWindow, Keeps
<1>5. ASSUME NEW r \in Requests, Claimed(r)' PROVE ClaimOf(r)'
  <2>1. Claimed(r) /\ ClaimOf(r) /\ Keeps(r)
    BY <1>5 DEF Keeps, ClaimsInv
  <2>2. ASSUME Lasts(r)' PROVE Lasts(r) /\ records'[req[r].key] = records[req[r].key]
    BY <2>1, <2>2, <1>1 DEF Lasts, Keeps, ClaimOf, OwnRow, TypeOK, Request
  <2>3. ASSUME Lasts(r)' PROVE OwnRow(r)'
    <3>1. CASE records[req[r].key].status = "completed"
      <4>1. ResultOf(req[r].key) /\ Keeps(records[req[r].key].result)
        BY <2>1, <3>1 DEF ResultsInv, ClaimOf, ResultOf
      <4> QED
        BY <2>1, <2>2, <2>3, <4>1 DEF OwnRow, Keeps, ClaimOf, ResultOf
    <3> QED
      BY <2>1, <2>2, <2>3, <3>1 DEF OwnRow, Keeps, ClaimOf
  <2> QED
    BY <2>1, <2>2, <2>3 DEF ClaimOf, Keeps, TypeOK, Request
<1> QED
  BY <1>2, <1>3, <1>4, <1>5 DEF ClaimsInv

(* Taking over a key: whoever claimed it before has lost its window. *)
LEMMA ReserveStep ==
  ASSUME IInv, TypeOK', NEW r \in Requests, NEW kind \in Kinds, NEW k \in Keys, NEW i \in Identities,
         Reserve(r, kind, k, i)
  PROVE  ClaimsInv' /\ ResultsInv' /\ EmptyRows' /\ OncePerWindow'
<1> USE DEF IInv
<1>1. PICK S \in PruneSets :
       /\ Without(S)[k].status = "absent"
       /\ records' = [Without(S) EXCEPT ![k] = [status |-> "in_progress", id |-> i, result |-> None,
                                                expires |-> now + Retention]]
  BY DEF Reserve
<1>2. /\ req[r].pc = "idle" /\ now' = now /\ req[r].answer = "none"
      /\ req' = [req EXCEPT ![r] = [pc |-> "running", kind |-> kind, key |-> k, id |-> i,
                                    claimedAt |-> now, answer |-> "none", result |-> None]]
  BY DEF Reserve, Opened, PcAnswer
<1>3. \A q \in Requests : q # r => req'[q] = req[q]
  BY <1>2 DEF TypeOK
<1>4. \A q \in Requests : Claimed(q)' <=> (q = r \/ Claimed(q))
  BY <1>2, <1>3 DEF Claimed, TypeOK
<1>5. ~Claimed(r)
  BY <1>2 DEF Claimed
<1>6. /\ records'[k] = [status |-> "in_progress", id |-> i, result |-> None, expires |-> now + Retention]
      /\ \A j \in Keys : j # k => /\ records'[j] \in {records[j], Absent}
                                  /\ now < records[j].expires => records'[j] = records[j]
  BY <1>1, PruneKeepsLiveRows DEF Without
<1>7. ASSUME NEW q \in Requests, Claimed(q), req[q].key = k PROVE ~Lasts(q)
  BY <1>1, <1>7, PruneKeepsLiveRows DEF ClaimsInv, ClaimOf, OwnRow, Lasts, TypeOK, Row, Request
<1>8. EmptyRows'
  BY <1>6 DEF EmptyRows, Absent
<1>9. ResultsInv'
  <2> SUFFICES ASSUME NEW j \in Keys, records'[j].status = "completed" PROVE ResultOf(j)'
    BY DEF ResultsInv
  <2>1. j # k /\ records'[j] = records[j] /\ ResultOf(j)
    BY <1>6 DEF ResultsInv, Absent
  <2> QED
    BY <1>3, <1>4, <1>5, <2>1 DEF ResultOf
<1>10. OncePerWindow'
  BY <1>2, <1>3, <1>4, <1>7 DEF OncePerWindow, Lasts, TypeOK, Request
<1>11. ASSUME NEW q \in Requests, Claimed(q)' PROVE ClaimOf(q)'
  <2>1. CASE q = r
    BY <1>2, <1>6, <2>1 DEF ClaimOf, Lasts, OwnRow, TypeOK
  <2>2. CASE q # r
    <3>1. Claimed(q) /\ ClaimOf(q) /\ req'[q] = req[q]
      BY <1>3, <1>4, <1>11, <2>2 DEF ClaimsInv
    <3>2. ASSUME Lasts(q)' PROVE OwnRow(q) /\ req[q].key # k /\ records'[req[q].key] = records[req[q].key]
      BY <1>2, <1>6, <1>7, <3>1, <3>2 DEF Lasts, ClaimOf, OwnRow, TypeOK, Request
    <3>3. ASSUME Lasts(q)' PROVE OwnRow(q)'
      <4>1. CASE records[req[q].key].status = "completed"
        <5>1. ResultOf(req[q].key)
          BY <3>1, <4>1 DEF ResultsInv, ClaimOf
        <5> QED
          BY <1>3, <1>5, <3>1, <3>2, <3>3, <5>1 DEF OwnRow, ResultOf
      <4> QED
        BY <3>1, <3>2, <3>3, <4>1 DEF OwnRow
    <3> QED
      BY <1>2, <3>1, <3>2, <3>3 DEF ClaimOf, Lasts
  <2> QED
    BY <2>1, <2>2
<1> QED
  BY <1>8, <1>9, <1>10, <1>11 DEF ClaimsInv

(* Recording a result: of two commands that share a row, one had lost its window. *)
LEMMA CompleteStep ==
  ASSUME IInv, TypeOK', NEW r \in Requests, Complete(r)
  PROVE  ClaimsInv' /\ ResultsInv' /\ EmptyRows' /\ OncePerWindow'
<1> USE DEF IInv
<1> DEFINE k == req[r].key
<1>1. PICK S \in PruneSets :
        /\ Without(S)[k].status # "absent" /\ Without(S)[k].id = req[r].id
        /\ records' = IF Without(S)[k].status = "completed" THEN Without(S)
                      ELSE [Without(S) EXCEPT ![k] = [@ EXCEPT !.status = "completed", !.result = r]]
  BY DEF Complete
<1>2. /\ req[r].pc = "executed" /\ now' = now /\ Claimed(r)
      /\ req' = [req EXCEPT ![r] = [@ EXCEPT !.pc = "done", !.answer = "result", !.result = r]]
  BY DEF Complete, Answered, Claimed
<1>3. /\ \A q \in Requests : q # r => req'[q] = req[q]
      /\ req'[r].pc = "done" /\ req'[r].answer = "result"
      /\ req'[r].key = k /\ req'[r].id = req[r].id /\ req'[r].kind = req[r].kind
      /\ req'[r].claimedAt = req[r].claimedAt
  BY <1>2 DEF TypeOK, Request
<1>4. \A q \in Requests : /\ Claimed(q)' <=> Claimed(q)
                          /\ req'[q].key = req[q].key /\ req'[q].id = req[q].id
                          /\ req'[q].kind = req[q].kind /\ req'[q].claimedAt = req[q].claimedAt
  BY <1>2, <1>3 DEF Claimed
<1>5. k \in Keys /\ ClaimOf(r)
  BY <1>2 DEF ClaimsInv, ClaimOf
<1>6. /\ \A j \in Keys : j # k => /\ records'[j] \in {records[j], Absent}
                                  /\ now < records[j].expires => records'[j] = records[j]
      /\ records[k].status # "absent" /\ records[k].id = req[r].id
      /\ records'[k].status = "completed" /\ records'[k].id = records[k].id
      /\ records'[k].expires = records[k].expires
      /\ records'[k].result = IF records[k].status = "completed" THEN records[k].result ELSE r
  <2>1. Without(S)[k] = records[k]
    BY <1>1, <1>5, PruneKeepsLiveRows DEF Absent
  <2>2. records[k] \in Row /\ Without(S) = [j \in Keys |-> Without(S)[j]]
    BY <1>5 DEF TypeOK, Without
  <2> QED
    BY <1>1, <1>5, <2>1, <2>2, PruneKeepsLiveRows DEF Row
<1>7. EmptyRows'
  BY <1>6 DEF EmptyRows, Absent
<1>8. ResultsInv'
  <2> SUFFICES ASSUME NEW j \in Keys, records'[j].status = "completed" PROVE ResultOf(j)'
    BY DEF ResultsInv
  <2>1. CASE j # k
    BY <1>3, <1>4, <1>6, <2>1 DEF ResultsInv, ResultOf, Absent
  <2>2. CASE j = k /\ records[k].status = "completed"
    BY <1>3, <1>4, <1>6, <2>2 DEF ResultsInv, ResultOf
  <2>3. CASE j = k /\ records[k].status # "completed"
    BY <1>2, <1>3, <1>4, <1>6, <2>3 DEF ResultOf
  <2> QED
    BY <2>1, <2>2, <2>3
<1>9. OncePerWindow'
  BY <1>4 DEF OncePerWindow
<1>10. ASSUME NEW q \in Requests, Claimed(q)' PROVE ClaimOf(q)'
  <2>1. Claimed(q) /\ ClaimOf(q)
    BY <1>4, <1>10 DEF ClaimsInv
  <2>2. ASSUME Lasts(q)' PROVE Lasts(q) /\ OwnRow(q)
    BY <1>2, <1>4, <2>1, <2>2 DEF Lasts, ClaimOf
  <2>3. ASSUME Lasts(q)' PROVE OwnRow(q)'
    <3>1. CASE req[q].key = k /\ records[k].status # "completed"
      <4>1. q = r \/ req[r].claimedAt + Retention <= req[q].claimedAt
        BY <1>2, <1>5, <2>1, <2>2, <2>3, <3>1 DEF OncePerWindow, Lasts, ClaimOf, TypeOK, Request
      <4> QED
        BY <1>4, <1>6, <2>2, <2>3, <3>1, <4>1 DEF OwnRow
    <3>2. CASE req[q].key = k /\ records[k].status = "completed"
      BY <1>4, <1>5, <1>6, <2>2, <2>3, <3>2 DEF OwnRow, ResultsInv, ResultOf
    <3>3. CASE req[q].key # k
      <4>1. records'[req[q].key] = records[req[q].key]
        BY <1>6, <2>1, <2>2, <2>3, <3>3 DEF OwnRow, Lasts, ClaimOf
      <4>2. CASE records[req[q].key].status = "completed"
        BY <1>4, <2>1, <2>2, <2>3, <4>1, <4>2 DEF OwnRow, ResultsInv, ResultOf, ClaimOf
      <4> QED
        BY <1>4, <2>2, <2>3, <4>1, <4>2 DEF OwnRow
    <3> QED
      BY <3>1, <3>2, <3>3
  <2>4. ASSUME Lasts(q)', req'[q].kind = "command", req'[q].answer = "result"
        PROVE  records'[req[q].key].status = "completed"
    <3>1. CASE req[q].key = k
      BY <1>6, <3>1
    <3>2. CASE req[q].key # k
      BY <1>3, <1>6, <2>1, <2>2, <2>4, <3>2 DEF OwnRow, Lasts, ClaimOf
    <3> QED
      BY <3>1, <3>2
  <2> QED
    BY <1>2, <1>4, <2>1, <2>3, <2>4 DEF ClaimOf
<1> QED
  BY <1>7, <1>8, <1>9, <1>10 DEF ClaimsInv

(* Answering and restarting only touch handlers that are not done. *)
LEMMA AnsweredFacts ==
  ASSUME TypeOK, NEW q \in Requests, NEW answer, NEW result, Answered(q, answer, result)
  PROVE  /\ \A p \in Requests : p # q => req'[p] = req[p]
         /\ req'[q].pc = "done" /\ req'[q].answer = answer /\ req'[q].result = result
         /\ req'[q].key = req[q].key /\ req'[q].id = req[q].id
         /\ req'[q].kind = req[q].kind /\ req'[q].claimedAt = req[q].claimedAt
BY DEF TypeOK, Request, Answered

LEMMA FinishFacts ==
  ASSUME TypeOK, NEW q \in Requests, Complete(q) \/ CompleteRefused(q) \/ CompleteFails(q)
  PROVE  /\ \A p \in Requests : p # q => req'[p] = req[p]
         /\ req[q].pc = "executed" /\ req'[q].pc = "done"
         /\ req'[q].answer \in {"result", "unrecorded"}
         /\ (CompleteRefused(q) \/ CompleteFails(q)) /\ req[q].kind = "command"
               => req'[q].answer = "unrecorded"
         /\ req'[q].key = req[q].key /\ req'[q].id = req[q].id
         /\ req'[q].kind = req[q].kind /\ req'[q].claimedAt = req[q].claimedAt
<1>1. CASE Answered(q, "result", q) /\ req[q].pc = "executed" /\ (Complete(q) \/ req[q].kind = "replay")
  BY <1>1, AnsweredFacts DEF CompleteRefused, CompleteFails, AnswerUnrecorded
<1>2. CASE Answered(q, "unrecorded", None) /\ req[q].pc = "executed"
  BY <1>2, AnsweredFacts
<1> QED
  BY <1>1, <1>2 DEF Complete, CompleteRefused, CompleteFails, AnswerUnrecorded

LEMMA RestartFacts ==
  ASSUME TypeOK, Restart, NEW p \in Requests
  PROVE  /\ req[p].pc \notin {"running", "executed"} => req'[p] = req[p]
         /\ req[p].pc \in {"running", "executed"} =>
              /\ req'[p].pc = "done" /\ req'[p].answer = "lost"
              /\ req'[p].key = req[p].key /\ req'[p].id = req[p].id
              /\ req'[p].kind = req[p].kind /\ req'[p].claimedAt = req[p].claimedAt
<1>1. req'[p] = IF req[p].pc \in {"running", "executed"}
                THEN [req[p] EXCEPT !.pc = "done", !.answer = "lost"] ELSE req[p]
  BY DEF Restart
<1>2. req[p] \in Request
  BY DEF TypeOK
<1> QED
  BY <1>1, <1>2 DEF Request

(* What the handlers know of themselves, and what a replayed answer names. *)
LEMMA AnswersStep ==
  ASSUME IInv, TypeOK', [Next]_vars
  PROVE  PcAnswer' /\ ReplayIsOfSameCommand'
<1> USE DEF IInv, PcAnswer
<1>1. ASSUME NEW q \in Requests, Claimed(q), req[q].pc = "done"
      PROVE  req'[q] = req[q]
  BY <1>1, FinishFacts, RestartFacts
     DEF Next, vars, Reserve, Replay, Reject, BeginFails, Execute, Opened, Tick, TypeOK
<1> DEFINE Told(r) ==
      /\ req'[r].pc # "idle"
      /\ req'[r].pc # "done" => req'[r].answer = "none"
      /\ req'[r].answer = "replay" =>
           \E k \in Keys : /\ records[k].status = "completed" /\ req'[r].pc = "done"
                          /\ req'[r].key = k /\ req'[r].id = records[k].id
                          /\ req'[r].result = records[k].result
<1>2. ASSUME NEW r \in Requests, req'[r] # req[r] PROVE Told(r)
  <2>1. ASSUME NEW q \in Requests, NEW kind \in Kinds, NEW k \in Keys, NEW i \in Identities,
               \/ Reserve(q, kind, k, i) \/ Reject(q, kind, k, i) \/ BeginFails(q, kind, k, i)
        PROVE  Told(r)
    BY <1>2, <2>1 DEF Reserve, Reject, BeginFails, Opened, TypeOK
  <2>2. ASSUME NEW q \in Requests, NEW kind \in Kinds, NEW k \in Keys, NEW i \in Identities,
               Replay(q, kind, k, i)
        PROVE  Told(r)
    BY <1>2, <2>2, PruneKeepsLiveRows DEF Replay, Opened, TypeOK, Absent
  <2>3. ASSUME NEW q \in Requests, Execute(q) PROVE Told(r)
    BY <1>2, <2>3 DEF Execute, TypeOK, Request
  <2>4. ASSUME NEW q \in Requests, Complete(q) \/ CompleteRefused(q) \/ CompleteFails(q) PROVE Told(r)
    BY <1>2, <2>4, FinishFacts
  <2>5. CASE Restart
    BY <1>2, <2>5, RestartFacts
  <2>6. CASE Tick \/ UNCHANGED vars
    BY <1>2, <2>6 DEF Tick, vars
  <2> QED
    BY <2>1, <2>2, <2>3, <2>4, <2>5, <2>6 DEF Next
<1>3. PcAnswer'
  BY <1>2 DEF PcAnswer
<1>4. ReplayIsOfSameCommand'
  <2> SUFFICES ASSUME NEW r \in Requests, req'[r].answer = "replay"
               PROVE  RepeatsCommand(r)'
    BY DEF ReplayIsOfSameCommand
  <2>1. CASE req'[r] = req[r]
    BY <1>1, <2>1 DEF ReplayIsOfSameCommand, RepeatsCommand, Claimed
  <2>2. CASE req'[r] # req[r]
    <3>1. PICK k \in Keys : /\ records[k].status = "completed" /\ req'[r].key = k
                            /\ req'[r].id = records[k].id /\ req'[r].result = records[k].result
      BY <1>2, <2>2
    <3>2. ResultOf(k)
      BY <3>1 DEF ResultsInv
    <3> QED
      BY <1>1, <3>1, <3>2 DEF ResultOf, RepeatsCommand, Claimed
  <2> QED
    BY <2>1, <2>2
<1> QED
  BY <1>3, <1>4

LEMMA Inductive == IInv /\ TypeOK' /\ [Next]_vars => IInv'
<1> DEFINE Goal == ClaimsInv' /\ ResultsInv' /\ EmptyRows' /\ OncePerWindow'
<1> SUFFICES ASSUME IInv, TypeOK', [Next]_vars PROVE Goal
  BY AnswersStep DEF IInv
<1> USE DEF IInv
<1>1. ASSUME NEW r \in Requests, NEW kind \in Kinds, NEW k \in Keys, NEW i \in Identities,
             Reserve(r, kind, k, i)
      PROVE  Goal
  BY <1>1, ReserveStep
<1>2. ASSUME NEW r \in Requests, NEW kind \in Kinds, NEW k \in Keys, NEW i \in Identities,
             \/ Replay(r, kind, k, i) \/ Reject(r, kind, k, i) \/ BeginFails(r, kind, k, i)
      PROVE  Goal
  <2>1. records' = records \/ Pruned
    BY <1>2 DEF Replay, Reject, BeginFails, Pruned
  <2>2. \A q \in Requests : Keeps(q)
    BY <1>2 DEF Replay, Reject, BeginFails, Opened, Keeps, Claimed, PcAnswer, TypeOK
  <2> QED
    BY <1>2, <2>1, <2>2, QuietStep DEF Replay, Reject, BeginFails
<1>3. ASSUME NEW r \in Requests, Execute(r) PROVE Goal
  <2>1. \A q \in Requests : Keeps(q)
    BY <1>3 DEF Execute, Keeps, Claimed, TypeOK, Request
  <2> QED
    BY <1>3, <2>1, QuietStep DEF Execute
<1>4. ASSUME NEW r \in Requests, Complete(r) PROVE Goal
  BY <1>4, CompleteStep
<1>5. ASSUME NEW r \in Requests, CompleteRefused(r) \/ CompleteFails(r) PROVE Goal
  <2>1. \A q \in Requests : Keeps(q)
    BY <1>5, FinishFacts DEF Keeps, Claimed
  <2> QED
    BY <1>5, <2>1, QuietStep DEF CompleteRefused, CompleteFails
<1>6. CASE Restart
  <2>1. \A q \in Requests : Keeps(q)
    BY <1>6, RestartFacts DEF Keeps, Claimed
  <2> QED
    BY <1>6, <2>1, QuietStep DEF Restart
<1>7. CASE Tick
  <2>1. \A q \in Requests : Keeps(q)
    BY <1>7 DEF Tick, Keeps, Claimed
  <2> QED
    BY <1>7, <2>1, QuietStep DEF Tick
<1>8. CASE UNCHANGED vars
  <2>1. \A q \in Requests : Keeps(q)
    BY <1>8 DEF vars, Keeps, Claimed
  <2> QED
    BY <1>8, <2>1, QuietStep DEF vars
<1> QED
  BY <1>1, <1>2, <1>3, <1>4, <1>5, <1>6, <1>7, <1>8 DEF Next

--------------------------------------------------------------------------------
THEOREM Invariant == Spec => []IInv
<1>1. Init => IInv
  <2>1. Init => \A r \in Requests : ~Claimed(r) /\ req[r] = Idle
    BY DEF Init, Idle, Claimed
  <2>2. Init => TypeOK
    BY DEF Init, TypeOK, Absent, Row, Idle, Request, Kinds
  <2> QED
    BY <2>1, <2>2 DEF Init, IInv, PcAnswer, EmptyRows, ClaimsInv, ResultsInv, OncePerWindow,
                      ReplayIsOfSameCommand, Absent, Idle
<1> QED
  BY <1>1, TypeCorrect, Inductive, PTL DEF Spec

(* At most one command runs per key and window (BeginCommand), whatever       *)
(* fails, expires or restarts.                                                *)
THEOREM CommandsRunOnce == Spec => []OncePerWindow
BY Invariant, PTL DEF IInv

(* A stored answer belongs to a command that ran for the same request. *)
THEOREM ReplaysBelong == Spec => []ReplayIsOfSameCommand
BY Invariant, PTL DEF IInv

(* A client of the API that was given a result can ask for it again. *)
THEOREM SuccessesAreKept == Spec => []SuccessIsReplayable
<1>1. IInv => SuccessIsReplayable
  BY DEF IInv, SuccessIsReplayable, KeptForRepeat, ClaimsInv, ClaimOf, OwnRow,
         Lasts, Claimed
<1> QED
  BY <1>1, Invariant, PTL

(* Both together: whoever repeats a request is served the answer of its command. *)
THEOREM RepeatsServed == Spec => []RepeatsAreServed
  BY ReplaysBelong, SuccessesAreKept, PTL DEF RepeatsAreServed

(* A recorded result is neither replaced nor given a longer life. *)
THEOREM ResultsStand == Spec => StoredResultsStand
<1>1. IInv /\ [Next]_vars => [ResultsStay]_vars
  <2> SUFFICES ASSUME IInv, Next, NEW k \in Keys, records[k].status = "completed",
                      now < records[k].expires
               PROVE  records'[k] = records[k]
    BY DEF ResultsStay, IInv, TypeOK, Row
  <2> USE DEF IInv
  <2>1. ASSUME NEW S \in PruneSets PROVE Without(S)[k] = records[k]
    BY PruneKeepsLiveRows
  <2>2. ASSUME NEW r \in Requests, NEW kind \in Kinds, NEW j \in Keys, NEW i \in Identities,
               Reserve(r, kind, j, i)
        PROVE  records'[k] = records[k]
    <3>1. PICK S \in PruneSets :
            /\ Without(S)[j].status = "absent"
            /\ records' = [Without(S) EXCEPT ![j] = [status |-> "in_progress", id |-> i,
                                                     result |-> None, expires |-> now + Retention]]
      BY <2>2 DEF Reserve
    <3>2. j # k /\ records'[k] = Without(S)[k]
      BY <2>1, <3>1 DEF Without
    <3> QED
      BY <2>1, <3>2
  <2>3. ASSUME NEW r \in Requests, NEW kind \in Kinds, NEW j \in Keys, NEW i \in Identities,
               Replay(r, kind, j, i)
        PROVE  records'[k] = records[k]
    BY <2>1, <2>3 DEF Replay
  <2>4. ASSUME NEW r \in Requests, Complete(r) PROVE records'[k] = records[k]
    <3>1. PICK S \in PruneSets :
            records' = IF Without(S)[req[r].key].status = "completed" THEN Without(S)
                       ELSE [Without(S) EXCEPT ![req[r].key] =
                                [@ EXCEPT !.status = "completed", !.result = r]]
      BY <2>4 DEF Complete
    <3>2. Without(S)[k] = records[k]
      BY <2>1
    <3>3. CASE Without(S)[req[r].key].status = "completed"
      BY <3>1, <3>2, <3>3
    <3>4. CASE Without(S)[req[r].key].status # "completed"
      <4>1. req[r].key # k
        BY <3>2, <3>4
      <4> QED
        BY <3>1, <3>2, <3>4, <4>1 DEF Without
    <3> QED
      BY <3>3, <3>4
  <2> QED
    BY <2>2, <2>3, <2>4 DEF Next, Reject, BeginFails, Execute, CompleteRefused, CompleteFails,
                            Restart, Tick
<1> QED
  BY <1>1, Invariant, PTL DEF Spec, StoredResultsStand

--------------------------------------------------------------------------------
(* The durable store keeps the contract of the in-memory one.                 *)

(* The table never holds infinitely many rows: a call adds at most one. *)
Present == {k \in Keys : records[k].status # "absent"}

LEMMA PresentStep ==
  ASSUME TypeOK, IsFiniteSet(Present), [Next]_vars
  PROVE  IsFiniteSet(Present')
<1>1. ASSUME NEW k \in Keys, Present' \subseteq Present \cup {k} PROVE IsFiniteSet(Present')
  <2>1. IsFiniteSet(Present \cup {k})
    BY FS_AddElement
  <2> QED
    BY <1>1, <2>1, FS_Subset
<1>2. ASSUME Present' \subseteq Present PROVE IsFiniteSet(Present')
  BY <1>2, FS_Subset
<1>3. ASSUME records' = records PROVE IsFiniteSet(Present')
  BY <1>2, <1>3 DEF Present
<1>4. ASSUME NEW r \in Requests, NEW kind \in Kinds, NEW k \in Keys, NEW i \in Identities,
             Reserve(r, kind, k, i)
      PROVE  IsFiniteSet(Present')
  <2>1. PICK S \in PruneSets :
          records' = [Without(S) EXCEPT ![k] = [status |-> "in_progress", id |-> i, result |-> None,
                                                expires |-> now + Retention]]
    BY <1>4 DEF Reserve
  <2>2. \A j \in Keys : j # k => records'[j] = records[j] \/ records'[j] = Absent
    BY <2>1 DEF Without
  <2>3. Present' \subseteq Present \cup {k}
    BY <2>2 DEF Present, Absent
  <2> QED
    BY <1>1, <2>3
<1>5. ASSUME NEW r \in Requests, NEW kind \in Kinds, NEW k \in Keys, NEW i \in Identities,
             Replay(r, kind, k, i)
      PROVE  IsFiniteSet(Present')
  <2>1. \A j \in Keys : records'[j] = records[j] \/ records'[j] = Absent
    BY <1>5 DEF Replay, Without
  <2> QED
    BY <1>2, <2>1 DEF Present, Absent
<1>6. ASSUME NEW r \in Requests, Complete(r) PROVE IsFiniteSet(Present')
  <2> DEFINE k == req[r].key
  <2>1. PICK S \in PruneSets :
          /\ Without(S)[k].status # "absent"
          /\ records' = IF Without(S)[k].status = "completed" THEN Without(S)
                        ELSE [Without(S) EXCEPT ![k] = [@ EXCEPT !.status = "completed", !.result = r]]
    BY <1>6 DEF Complete
  <2>2. \A j \in Keys : j # k => records'[j] = records[j] \/ records'[j] = Absent
    BY <2>1 DEF Without
  <2>3. k \in Keys => k \in Present
    BY <2>1 DEF Without, Absent, Present
  <2>4. Present' \subseteq Present
    BY <2>2, <2>3 DEF Present, Absent
  <2> QED
    BY <1>2, <2>4
<1>7. CASE Restart \/ Tick \/ UNCHANGED vars
  BY <1>3, <1>7 DEF Restart, Tick, vars
<1>8. ASSUME NEW r \in Requests, NEW kind \in Kinds, NEW k \in Keys, NEW i \in Identities,
             Reject(r, kind, k, i) \/ BeginFails(r, kind, k, i)
      PROVE  IsFiniteSet(Present')
  BY <1>3, <1>8 DEF Reject, BeginFails
<1>9. ASSUME NEW r \in Requests, Execute(r) \/ CompleteRefused(r) \/ CompleteFails(r)
      PROVE  IsFiniteSet(Present')
  BY <1>3, <1>9 DEF Execute, CompleteRefused, CompleteFails
<1> QED
  BY <1>4, <1>5, <1>6, <1>7, <1>8, <1>9 DEF Next

(* The contract counts as this module does. *)
LEMMA SameCount == \A S : Contract!Cardinality(S) = Cardinality(S)
BY DEF Contract!Cardinality, Cardinality

(* Without a backlog the contract is the in-memory store: every operation     *)
(* removes all that has expired (removeExpiredLocked).                        *)
LEMMA NoBacklogRemovesAll ==
  ASSUME IsFiniteSet(Contract!Stale), Cardinality(Contract!Stale) <= PruneLimit
  PROVE  Contract!Removals = {Contract!Stale}
<1>1. \A k : /\ Contract!Overdue(k) \subseteq Contract!Stale
             /\ Cardinality(Contract!Overdue(k)) <= Cardinality(Contract!Stale)
             /\ Cardinality(Contract!Overdue(k)) \in Nat /\ Cardinality(Contract!Stale) \in Nat
  BY FS_Subset, FS_CardinalityType DEF Contract!Overdue
<1>2. \A k : ~(Cardinality(Contract!Overdue(k)) > PruneLimit)
  BY <1>1, PruneAssumption
<1>3. ASSUME NEW F \in SUBSET Contract!Stale
      PROVE  F \in Contract!Removals <=> F = Contract!Stale
  <2>1. F \in Contract!Removals <=> \A k \in Contract!Stale \ F : FALSE
    BY <1>2, SameCount, Zenon DEF Contract!Removals
  <2> QED
    BY <2>1
<1>4. \A F \in Contract!Removals : F \in SUBSET Contract!Stale
  BY DEF Contract!Removals
<1> QED
  BY <1>3, <1>4

(* What one call deletes is a removal of the contract: whatever it leaves     *)
(* expired has PruneLimit deleted rows before it.                             *)
LEMMA PruneRemoves ==
  ASSUME TypeOK, IsFiniteSet(Present), NEW S \in PruneSets
  PROVE  S \in Contract!Removals /\ Contract!Left(S) = Without(S)
<1>1. Contract!Stale = Expired /\ S \subseteq Expired /\ Expired \subseteq Present
  BY DEF Contract!Stale, Expired, PruneSets, Present
<1>2. ASSUME NEW k \in Expired \ S PROVE Cardinality(Contract!Overdue(k)) > PruneLimit
  <2>1. S # Expired /\ Cardinality(S) = PruneLimit
    BY <1>2 DEF PruneSets
  <2>2. \A j \in S : records[j].expires <= records[k].expires
    BY <1>2 DEF PruneSets
  <2>3. records[k].expires <= records[k].expires
    BY <1>1, <1>2 DEF Expired, TypeOK, Row
  <2>4. S \cup {k} \subseteq Contract!Overdue(k)
    BY <1>1, <1>2, <2>2, <2>3 DEF Contract!Overdue
  <2>5. IsFiniteSet(Expired)
    BY <1>1, FS_Subset
  <2>6. IsFiniteSet(Contract!Overdue(k)) /\ IsFiniteSet(S)
    BY <1>1, <2>5, FS_Subset DEF Contract!Overdue
  <2>7. Cardinality(S \cup {k}) = Cardinality(S) + 1
    BY <1>2, <2>6, FS_AddElement
  <2>8. /\ Cardinality(S \cup {k}) <= Cardinality(Contract!Overdue(k))
        /\ Cardinality(Contract!Overdue(k)) \in Nat
    BY <2>4, <2>6, FS_Subset, FS_CardinalityType
  <2> QED
    BY <2>1, <2>7, <2>8, PruneAssumption
<1>3. S \in Contract!Removals
  <2>1. /\ S \in SUBSET Contract!Stale
        /\ \A k \in Contract!Stale \ S : Contract!Cardinality(Contract!Overdue(k)) > PruneLimit
    BY <1>1, <1>2, SameCount
  <2> QED
    BY <2>1, Zenon DEF Contract!Removals
<1>4. Contract!Left(S) = Without(S)
  BY DEF Contract!Left, Contract!Absent, Without, Absent
<1> QED
  BY <1>3, <1>4

(* The handlers as the contract sees them. *)
Phase(r) == CASE req[r].pc = "idle" -> "idle" [] req[r].pc = "done" -> "done" [] OTHER -> "claimed"
Sessions == [r \in Requests |-> [phase |-> Phase(r), key |-> req[r].key, id |-> req[r].id,
                                 answer |-> req[r].answer, result |-> req[r].result]]

(* The request of a step, as the contract sees it. *)
LEMMA SessionFacts ==
  ASSUME TypeOK, TypeOK', NEW r \in Requests, \A q \in Requests : q # r => req'[q] = req[q]
  PROVE  Sessions' = [Sessions EXCEPT ![r] =
            [phase |-> Phase(r)', key |-> req'[r].key, id |-> req'[r].id,
             answer |-> req'[r].answer, result |-> req'[r].result]]
BY DEF Sessions, Phase

Reply(r, answer, result) ==
  Sessions' = [Sessions EXCEPT ![r].phase = "done", ![r].answer = answer, ![r].result = result]

LEMMA ReplyFacts ==
  ASSUME TypeOK, TypeOK', NEW r \in Requests, NEW answer, NEW result, Answered(r, answer, result),
         req[r].pc = "executed"
  PROVE  Reply(r, answer, result) /\ Sessions[r].phase = "claimed"
<1>1. /\ \A q \in Requests : q # r => req'[q] = req[q]
      /\ req'[r].pc = "done" /\ req'[r].answer = answer /\ req'[r].result = result
      /\ req'[r].key = req[r].key /\ req'[r].id = req[r].id
  BY AnsweredFacts
<1>2. Sessions' = [Sessions EXCEPT ![r] =
          [phase |-> "done", key |-> req[r].key, id |-> req[r].id,
           answer |-> answer, result |-> result]]
  BY <1>1, SessionFacts DEF Phase
<1> QED
  BY <1>2 DEF Sessions, Phase, Reply

(* Every step of the durable store is a step of the contract. *)
LEMMA ContractStep ==
  ASSUME IInv, TypeOK', IsFiniteSet(Present), Next
  PROVE  [Contract!Next]_<<now, records, Sessions>>
<1> USE DEF IInv
<1>1. ASSUME NEW r \in Requests, NEW kind \in Kinds, NEW k \in Keys, NEW i \in Identities,
             Reserve(r, kind, k, i)
      PROVE  Contract!Reserve(r, k, i)
  <2>1. PICK S \in PruneSets :
          /\ Without(S)[k].status = "absent"
          /\ records' = [Without(S) EXCEPT ![k] = [status |-> "in_progress", id |-> i, result |-> None,
                                                   expires |-> now + Retention]]
    BY <1>1 DEF Reserve
  <2>2. S \in Contract!Removals /\ Contract!Left(S) = Without(S)
    BY PruneRemoves
  <2>3. now' = now /\ req[r].pc = "idle"
    BY <1>1 DEF Reserve
  <2>4. Sessions' = [Sessions EXCEPT ![r] =
           [phase |-> "claimed", key |-> k, id |-> i, answer |-> "none", result |-> None]]
    BY <1>1, SessionFacts DEF Reserve, Opened, TypeOK, Phase
  <2> QED
    BY <2>1, <2>2, <2>3, <2>4 DEF Contract!Reserve, Sessions, Phase
<1> DEFINE Told(r, k, i, answer, result) ==
      Sessions' = [Sessions EXCEPT ![r] =
         [phase |-> "done", key |-> k, id |-> i, answer |-> answer, result |-> result]]
<1>2. ASSUME NEW r \in Requests, NEW kind \in Kinds, NEW k \in Keys, NEW i \in Identities,
             Replay(r, kind, k, i) \/ Reject(r, kind, k, i)
      PROVE  Contract!Recall(r, k, i)
  <2>1. CASE Replay(r, kind, k, i)
    <3>1. PICK S \in PruneSets :
            /\ Without(S)[k].status = "completed" /\ Without(S)[k].id = i
            /\ records' = Without(S)
            /\ Opened(r, kind, k, i, "done", "replay", records[k].result)
      BY <2>1 DEF Replay
    <3>2. Without(S)[k].result = records[k].result
      BY <3>1 DEF Without, Absent
    <3>3. Told(r, k, i, "replay", Without(S)[k].result) /\ now' = now /\ req[r].pc = "idle"
      BY <2>1, <3>1, <3>2, SessionFacts DEF Replay, Opened, TypeOK, Phase
    <3>4. S \in Contract!Removals /\ Contract!Left(S) = Without(S)
      BY PruneRemoves
    <3> QED
      BY <3>1, <3>3, <3>4 DEF Contract!Recall, Contract!Begin, Sessions, Phase
  <2>2. CASE Reject(r, kind, k, i)
    <3>1. PICK S \in PruneSets :
            \/ /\ Without(S)[k].status # "absent" /\ Without(S)[k].id # i
               /\ Opened(r, kind, k, i, "done", "conflict", None)
            \/ /\ Without(S)[k].status = "in_progress" /\ Without(S)[k].id = i
               /\ Opened(r, kind, k, i, "done", "in_progress", None)
      BY <2>2 DEF Reject
    <3>2. \/ /\ Without(S)[k].status # "absent" /\ Without(S)[k].id # i
             /\ Told(r, k, i, "conflict", None)
          \/ /\ Without(S)[k].status = "in_progress" /\ Without(S)[k].id = i
             /\ Told(r, k, i, "in_progress", None)
      BY <3>1, SessionFacts DEF Opened, TypeOK, Phase
    <3>3. S \in Contract!Removals /\ Contract!Left(S) = Without(S)
      BY PruneRemoves
    <3>4. records' = records /\ now' = now /\ req[r].pc = "idle"
      BY <2>2 DEF Reject
    <3> QED
      BY <3>2, <3>3, <3>4 DEF Contract!Recall, Contract!Begin, Sessions, Phase
  <2> QED
    BY <1>2, <2>1, <2>2
<1>3. ASSUME NEW r \in Requests, NEW kind \in Kinds, NEW k \in Keys, NEW i \in Identities,
             BeginFails(r, kind, k, i)
      PROVE  Contract!Refuse(r, k, i)
  <2>1. Told(r, k, i, "unavailable", None)
    BY <1>3, SessionFacts DEF BeginFails, Opened, TypeOK, Phase
  <2>2. now' = now /\ records' = records /\ req[r].pc = "idle"
    BY <1>3 DEF BeginFails
  <2> QED
    BY <2>1, <2>2 DEF Contract!Refuse, Contract!Begin, Sessions, Phase
<1>4. ASSUME NEW r \in Requests, Execute(r) PROVE UNCHANGED <<now, records, Sessions>>
  <2>1. now' = now /\ records' = records
    BY <1>4 DEF Execute
  <2>2. /\ \A q \in Requests : q # r => req'[q] = req[q]
        /\ req'[r] = [req[r] EXCEPT !.pc = "executed"] /\ req[r].pc = "running"
    BY <1>4 DEF Execute, TypeOK
  <2>3. \A q \in Requests : Phase(q)' = Phase(q) /\ req'[q].key = req[q].key /\ req'[q].id = req[q].id
                            /\ req'[q].answer = req[q].answer /\ req'[q].result = req[q].result
    BY <2>2 DEF Phase, TypeOK, Request
  <2> QED
    BY <2>1, <2>3 DEF Sessions
<1>6. ASSUME NEW r \in Requests, Complete(r) PROVE Contract!Complete(r)
  <2>1. now' = now /\ req[r].pc = "executed" /\ Answered(r, "result", r)
    BY <1>6 DEF Complete
  <2>2. PICK S \in PruneSets :
          /\ Without(S)[req[r].key].status # "absent" /\ Without(S)[req[r].key].id = req[r].id
          /\ records' = IF Without(S)[req[r].key].status = "completed" THEN Without(S)
                        ELSE [Without(S) EXCEPT ![req[r].key] = [@ EXCEPT !.status = "completed", !.result = r]]
    BY <1>6 DEF Complete
  <2>3. S \in Contract!Removals /\ Contract!Left(S) = Without(S)
    BY PruneRemoves
  <2>4. Reply(r, "result", r) /\ Sessions[r].phase = "claimed"
    BY <2>1, ReplyFacts
  <2>5. Sessions[r].key = req[r].key /\ Sessions[r].id = req[r].id
    BY DEF Sessions
  <2>6. /\ Contract!Left(S)[Sessions[r].key].status # "absent"
        /\ Contract!Left(S)[Sessions[r].key].id = Sessions[r].id
        /\ records' = IF Contract!Left(S)[Sessions[r].key].status = "completed" THEN Contract!Left(S)
                      ELSE [Contract!Left(S) EXCEPT ![Sessions[r].key] =
                               [@ EXCEPT !.status = "completed", !.result = r]]
    BY <2>2, <2>3, <2>5
  <2>7. Contract!Answer(r, "result", r)
    BY <2>4 DEF Contract!Answer, Reply, Sessions, Phase
  <2> QED
    BY <2>1, <2>3, <2>4, <2>6, <2>7, Zenon DEF Contract!Complete, Sessions, Phase
<1>7. ASSUME NEW r \in Requests, CompleteRefused(r) \/ CompleteFails(r) PROVE Contract!Unrecorded(r)
  <2>1. now' = now /\ records' = records /\ req[r].pc = "executed"
    BY <1>7 DEF CompleteRefused, CompleteFails
  <2>2. Answered(r, "result", r) \/ Answered(r, "unrecorded", None)
    BY <1>7 DEF CompleteRefused, CompleteFails, AnswerUnrecorded
  <2>3. Sessions[r].phase = "claimed" /\ (Reply(r, "result", r) \/ Reply(r, "unrecorded", None))
    BY <2>1, <2>2, ReplyFacts
  <2> QED
    BY <2>1, <2>3 DEF Contract!Unrecorded, Contract!Answer, Reply, Sessions, Phase
<1>8. CASE Restart
  <2>1. now' = now /\ records' = records
    BY <1>8 DEF Restart
  <2>2. \A r \in Requests : Sessions'[r] = IF Sessions[r].phase = "claimed"
                              THEN [Sessions[r] EXCEPT !.phase = "done", !.answer = "lost"]
                              ELSE Sessions[r]
    <3> SUFFICES ASSUME NEW r \in Requests
                 PROVE  Sessions'[r] = IF Sessions[r].phase = "claimed"
                              THEN [Sessions[r] EXCEPT !.phase = "done", !.answer = "lost"]
                              ELSE Sessions[r]
      OBVIOUS
    <3>1. req[r].pc \in {"idle", "running", "executed", "done"}
      BY DEF TypeOK, Request
    <3>2. req'[r] = IF req[r].pc \in {"running", "executed"}
                    THEN [req[r] EXCEPT !.pc = "done", !.answer = "lost"] ELSE req[r]
      BY <1>8 DEF Restart
    <3>3. req[r] \in Request
      BY DEF TypeOK
    <3> QED
      BY <3>1, <3>2, <3>3 DEF Sessions, Phase, Request
  <2>3. Sessions' = [r \in Requests |-> Sessions'[r]]
    BY DEF Sessions
  <2>4. Contract!Interrupt
    BY <2>1, <2>2, <2>3 DEF Contract!Interrupt, Sessions, Phase
  <2> QED
    BY <2>4 DEF Contract!Next
<1>9. CASE Tick
  <2>1. now' = now + 1 /\ Sessions' = Sessions /\ records' = records
    BY <1>9 DEF Tick, Sessions, Phase
  <2>2. Contract!Tick
    BY <2>1 DEF Contract!Tick, Sessions, Phase
  <2> QED
    BY <2>2 DEF Contract!Next
<1> QED
  BY <1>1, <1>2, <1>3, <1>4, <1>6, <1>7, <1>8, <1>9 DEF Next, Contract!Next

(* The durable store implements the in-memory contract, whatever number of    *)
(* clients and keys there is and however long the backlog of expired rows     *)
(* (DurableIdempotencyStore against MemoryStore).                             *)
THEOREM KeepsContract == Spec => KeepsMemoryContract
<1>1. Init => Contract!Init /\ IsFiniteSet(Present)
  <2>1. Init => Present = {}
    BY DEF Init, Present, Absent
  <2> QED
    BY <2>1, FS_EmptySet, RetentionAssumption
       DEF Init, Contract!Init, Contract!Absent, Contract!Idle, Absent, Idle
<1>2. TypeOK /\ IsFiniteSet(Present) /\ [Next]_vars => IsFiniteSet(Present)'
  BY PresentStep
<1>3. IInv /\ TypeOK' /\ IsFiniteSet(Present) /\ [Next]_vars
        => [Contract!Next]_<<now, records, Sessions>>
  BY ContractStep DEF vars, Sessions, Phase
<1> QED
  BY <1>1, <1>2, <1>3, Invariant, TypeCorrect, PTL
     DEF Spec, KeepsMemoryContract, Contract!Spec, Sessions, Phase
================================================================================
