------------------------------ MODULE CommandStore ------------------------------
(* The durable idempotency store (internal/platformdb/idempotency_repository.go) *)
(* and the three boundaries that execute commands through it: the domain API     *)
(* (adminapi/domain.go, executeCommand), the legacy subscription endpoints       *)
(* (admin/server.go, executeLegacyCommand) and the manual replay                 *)
(* (replay/service.go).  A request claims its key, runs its side effect and      *)
(* records the result in three separate steps; other requests, the clock, a      *)
(* failing database and a process restart come in between.                       *)
EXTENDS Naturals, FiniteSets

CONSTANTS Requests,     \* HTTP requests, one command each
          Keys,         \* (principal, Idempotency-Key) pairs
          Identities,   \* fingerprint and command type of a request
          Retention,    \* DefaultRetention: how long a claim is kept
          PruneLimit,   \* LIMIT 256: expired rows deleted by one call
          None,
          MaxTime, MaxFaults, MaxRestarts    \* bounds of the instance

ASSUME RetentionAssumption == Retention \in Nat \ {0}
ASSUME PruneAssumption == PruneLimit \in Nat \ {0}
ASSUME NoneAssumption == None \notin Requests \cup Keys \cup Identities

VARIABLES
  now,        \* the clock both calls read, in the seconds the table stores
  records,    \* table idempotency_records
  req,        \* each request: where its handler is and what its client was told
  faults, restarts

vars == <<now, records, req, faults, restarts>>

--------------------------------------------------------------------------------
(* Two boundaries differ in what they answer when a result is not recorded: *)
(* the API and the legacy endpoints ("command"), and the manual replay.     *)
Kinds == {"command", "replay"}

Absent == [status |-> "absent", id |-> None, result |-> None, expires |-> 0]
Row    == [status : {"absent", "in_progress", "completed"}, id : Identities \cup {None},
           result : Requests \cup {None}, expires : Nat]

Idle    == [pc |-> "idle", kind |-> "none", key |-> None, id |-> None,
            claimedAt |-> 0, answer |-> "none", result |-> None]
Request == [pc : {"idle", "running", "executed", "done"}, kind : Kinds \cup {"none"},
            key : Keys \cup {None}, id : Identities \cup {None}, claimedAt : Nat,
            answer : {"none", "result", "replay", "conflict", "in_progress", "unavailable",
                      "unrecorded", "lost"},
            result : Requests \cup {None}]

TypeOK == /\ now \in Nat /\ faults \in Nat /\ restarts \in Nat
          /\ records \in [Keys -> Row]
          /\ req \in [Requests -> Request]

Init == /\ now = 0 /\ faults = 0 /\ restarts = 0
        /\ records = [k \in Keys |-> Absent]
        /\ req = [r \in Requests |-> Idle]

--------------------------------------------------------------------------------
\* Mutant: a claim ends a second early.
ExpiredEarly == {k \in Keys : records[k].status # "absent" /\ records[k].expires <= now + 1}

Expired == {k \in Keys : records[k].status # "absent" /\ records[k].expires <= now}

\* Mutant: the DELETE has no ORDER BY.
PrunesAnyRows ==
  {S \in SUBSET Expired : /\ Cardinality(S) <= PruneLimit
                         /\ S # Expired => Cardinality(S) = PruneLimit}

(* DELETE ... WHERE expires_at <= now ORDER BY expires_at,... LIMIT 256: the   *)
(* oldest expired rows first.  Rows that expire together are taken in primary *)
(* key order; here in any order.                                              *)
PruneSets ==
  {S \in SUBSET Expired :
     /\ Cardinality(S) <= PruneLimit
     /\ S # Expired => Cardinality(S) = PruneLimit
     /\ \A k \in S, j \in Expired \ S : records[k].expires <= records[j].expires}

Without(S) == [k \in Keys |-> IF k \in S THEN Absent ELSE records[k]]

Opened(r, kind, k, i, pc, answer, result) ==
  req' = [req EXCEPT ![r] = [pc |-> pc, kind |-> kind, key |-> k, id |-> i,
                             claimedAt |-> now, answer |-> answer, result |-> result]]

(* BeginCommand: prune and look the key up in one transaction.  Only a        *)
(* reservation and a replay commit; a conflict and a claim in progress roll   *)
(* the transaction back, what it pruned included.                             *)
Reserve(r, kind, k, i) ==
  /\ req[r].pc = "idle"
  /\ \E S \in PruneSets :
       /\ Without(S)[k].status = "absent"
       /\ records' = [Without(S) EXCEPT ![k] = [status |-> "in_progress", id |-> i, result |-> None,
                                                expires |-> now + Retention]]
  /\ Opened(r, kind, k, i, "running", "none", None)
  /\ UNCHANGED <<now, faults, restarts>>

Replay(r, kind, k, i) ==
  /\ req[r].pc = "idle"
  /\ \E S \in PruneSets :
       /\ Without(S)[k].status = "completed" /\ Without(S)[k].id = i
       /\ records' = Without(S)
       /\ Opened(r, kind, k, i, "done", "replay", records[k].result)
  /\ UNCHANGED <<now, faults, restarts>>

Reject(r, kind, k, i) ==
  /\ req[r].pc = "idle"
  /\ \E S \in PruneSets :
       LET row == Without(S)[k] IN
       \/ /\ row.status # "absent" /\ row.id # i
          /\ Opened(r, kind, k, i, "done", "conflict", None)
       \/ /\ row.status = "in_progress" /\ row.id = i
          /\ Opened(r, kind, k, i, "done", "in_progress", None)
  /\ UNCHANGED <<now, records, faults, restarts>>

(* A failing statement of BeginCommand: ErrIdempotencyUnavailable, no claim. *)
BeginFails(r, kind, k, i) ==
  /\ req[r].pc = "idle" /\ faults < MaxFaults
  /\ faults' = faults + 1
  /\ Opened(r, kind, k, i, "done", "unavailable", None)
  /\ UNCHANGED <<now, records, restarts>>

(* fn(), execute() or the replay's send: the side effect of the command. *)
Execute(r) ==
  /\ req[r].pc = "running"
  /\ req' = [req EXCEPT ![r].pc = "executed"]
  /\ UNCHANGED <<now, records, faults, restarts>>

Answered(r, answer, result) ==
  req' = [req EXCEPT ![r] = [@ EXCEPT !.pc = "done", !.answer = answer, !.result = result]]

\* Mutants: success reported without a stored result; an answer no client knows.
AnswerAnyway(r) == Answered(r, "result", r)
AnswerError(r)  == Answered(r, "error", None)

(* A completion the store did not record: the API answers 503 ("domain        *)
(* response unavailable"), the replay ignores the error and answers with its  *)
(* own delivery.                                                              *)
AnswerUnrecorded(r) ==
  IF req[r].kind = "replay" THEN Answered(r, "result", r) ELSE Answered(r, "unrecorded", None)

(* CompleteCommand on a row that still carries this request's identity.  The *)
(* first result given is the one that stays; the caller is answered with its *)
(* own response either way.                                                  *)
Complete(r) ==
  LET k == req[r].key IN
  /\ req[r].pc = "executed"
  /\ \E S \in PruneSets :
       /\ Without(S)[k].status # "absent" /\ Without(S)[k].id = req[r].id
       /\ records' = IF Without(S)[k].status = "completed" THEN Without(S)
                     ELSE [Without(S) EXCEPT ![k] = [@ EXCEPT !.status = "completed", !.result = r]]
  /\ Answered(r, "result", r)
  /\ UNCHANGED <<now, faults, restarts>>

(* ErrNotReserved and ErrConflict: rolled back. *)
CompleteRefused(r) ==
  /\ req[r].pc = "executed"
  /\ \E S \in PruneSets : \/ Without(S)[req[r].key].status = "absent"
                          \/ Without(S)[req[r].key].id # req[r].id
  /\ AnswerUnrecorded(r)
  /\ UNCHANGED <<now, records, faults, restarts>>

CompleteFails(r) ==
  /\ req[r].pc = "executed" /\ faults < MaxFaults
  /\ faults' = faults + 1
  /\ AnswerUnrecorded(r)
  /\ UNCHANGED <<now, records, restarts>>

(* The process ends and starts again: handlers are gone, rows are not. *)
Restart ==
  /\ restarts < MaxRestarts
  /\ restarts' = restarts + 1
  /\ req' = [r \in Requests |-> IF req[r].pc \in {"running", "executed"}
                                THEN [req[r] EXCEPT !.pc = "done", !.answer = "lost"] ELSE req[r]]
  /\ UNCHANGED <<now, records, faults>>

Tick == /\ now < MaxTime
        /\ now' = now + 1
        /\ UNCHANGED <<records, req, faults, restarts>>

Next == \/ \E r \in Requests, kind \in Kinds, k \in Keys, i \in Identities :
              \/ Reserve(r, kind, k, i) \/ Replay(r, kind, k, i)
              \/ Reject(r, kind, k, i) \/ BeginFails(r, kind, k, i)
        \/ \E r \in Requests : \/ Execute(r) \/ Complete(r)
                               \/ CompleteRefused(r) \/ CompleteFails(r)
        \/ Restart
        \/ Tick

Spec == Init /\ [][Next]_vars

--------------------------------------------------------------------------------
(* Requests that claimed their key: the only ones whose command may run. *)
Claimed(r) == req[r].pc \in {"running", "executed"} \/ req[r].answer \in {"result", "unrecorded", "lost"}

(* At most one command runs per key and retention window, whatever fails or    *)
(* restarts in between: BeginCommand never hands a key out twice before the    *)
(* first claim expired, completed or not.                                      *)
OncePerWindow ==
  \A r, q \in Requests :
     r # q /\ Claimed(r) /\ Claimed(q) /\ req[r].key = req[q].key
       => req[r].claimedAt + Retention <= req[q].claimedAt
          \/ req[q].claimedAt + Retention <= req[r].claimedAt

RepeatsCommand(r) ==
  LET q == req[r].result IN
  /\ q \in Requests /\ Claimed(q)
  /\ req[q].pc = "done" /\ req[q].key = req[r].key /\ req[q].id = req[r].id

(* A stored answer is only ever the answer of a command that ran, under the    *)
(* same key, for a request that meant the same.                                *)
ReplayIsOfSameCommand == \A r \in Requests : req[r].answer = "replay" => RepeatsCommand(r)

(* The key of an answered request holds a result for it: its own, unless an    *)
(* earlier command for the same request was still running when its own window  *)
(* had ended, and finished first.                                              *)
KeptForRepeat(r) ==
  LET row == records[req[r].key] IN
  /\ row.status = "completed" /\ row.id = req[r].id
  /\ row.result = r \/ req[row.result].claimedAt + Retention <= req[r].claimedAt

(* A client of the API that was given a result can ask again for as long as    *)
(* its key is kept and will be given a result.  The manual replay promises     *)
(* less: it answers although its result was not recorded.                      *)
SuccessIsReplayable ==
  \A r \in Requests :
     req[r].kind = "command" /\ req[r].answer = "result" /\ now < req[r].claimedAt + Retention
       => KeptForRepeat(r)

(* Whoever repeats a request is served: with the answer of the command that    *)
(* ran for it, and with one as soon as a client was told of its success.       *)
RepeatsAreServed == ReplayIsOfSameCommand /\ SuccessIsReplayable

(* A row that holds a result is never given another one, nor a longer life,    *)
(* while it exists; it only disappears after it expired.                       *)
ResultsStay ==
  \A k \in Keys : records[k].status = "completed" =>
     \/ records'[k] = records[k]
     \/ records[k].expires <= now

StoredResultsStand == [][ResultsStay]_vars

(* The durable store keeps the contract of the in-memory one: the same        *)
(* outcomes for the same calls at the same times, except that a record whose  *)
(* window has ended may still be met behind PruneLimit others that ended no   *)
(* later (LIMIT 256 of the DELETE both calls start with).                     *)
Contract == INSTANCE CommandContract WITH
   clock   <- now,
   claims  <- records,
   session <- [r \in Requests |->
                 [phase |-> CASE req[r].pc = "idle" -> "idle"
                              [] req[r].pc = "done" -> "done"
                              [] OTHER -> "claimed",
                  key |-> req[r].key, id |-> req[r].id,
                  answer |-> req[r].answer, result |-> req[r].result]]

KeepsMemoryContract == Contract!Spec
================================================================================
