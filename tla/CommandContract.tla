---------------------------- MODULE CommandContract ----------------------------
(* What the idempotency store promises its callers: the in-memory reference   *)
(* implementation (internal/idempotency/store.go, MemoryStore), which the     *)
(* durable store claims to persist unchanged.  Every MemoryStore operation    *)
(* first removes every expired record (removeExpiredLocked) and then works on *)
(* what is left.  The durable store deletes a bounded number of rows per call *)
(* instead; the contract says what that may change: an expired record is left *)
(* only behind PruneLimit others that expired no later.  As long as no more   *)
(* than PruneLimit records have expired, this is MemoryStore itself.          *)
EXTENDS Naturals, FiniteSets

CONSTANTS Requests,    \* the calls of the command boundary, one each
          Keys,        \* (principal, Idempotency-Key) pairs
          Identities,  \* what a request means: its fingerprint and its command type
          Retention,   \* how long a claim is kept, from its first acceptance
          PruneLimit,  \* expired records that are certain to be removed by an operation
          None

VARIABLES clock, claims, session

Absent == [status |-> "absent", id |-> None, result |-> None, expires |-> 0]
Idle   == [phase |-> "idle", key |-> None, id |-> None, answer |-> "none", result |-> None]

Init == /\ clock = 0
        /\ claims = [k \in Keys |-> Absent]
        /\ session = [r \in Requests |-> Idle]

Answer(r, answer, result) ==
  session' = [session EXCEPT ![r].phase = "done", ![r].answer = answer, ![r].result = result]

Begin(r, k, i, answer, result) ==
  session' = [session EXCEPT ![r] =
      [phase |-> "done", key |-> k, id |-> i, answer |-> answer, result |-> result]]

(* What an operation removes before it looks at its key: all that has expired, *)
(* or all but records with a backlog of PruneLimit others before them.         *)
Stale      == {k \in Keys : claims[k].status # "absent" /\ claims[k].expires <= clock}
Overdue(k) == {j \in Stale : claims[j].expires <= claims[k].expires}
Removals   == {F \in SUBSET Stale : \A k \in Stale \ F : Cardinality(Overdue(k)) > PruneLimit}
Left(F)    == [k \in Keys |-> IF k \in F THEN Absent ELSE claims[k]]

(* BeginCommand on a key without a record claims it. *)
Reserve(r, k, i) ==
  /\ session[r].phase = "idle"
  /\ \E F \in Removals :
       /\ Left(F)[k].status = "absent"
       /\ claims' = [Left(F) EXCEPT ![k] = [status |-> "in_progress", id |-> i,
                                            result |-> None, expires |-> clock + Retention]]
  /\ session' = [session EXCEPT ![r] =
        [phase |-> "claimed", key |-> k, id |-> i, answer |-> "none", result |-> None]]
  /\ UNCHANGED clock

(* BeginCommand on a record that is left: conflict, in progress, or the stored *)
(* result.  Whether a refusal keeps what it removed makes no difference: the   *)
(* next operation removes it again.                                            *)
Recall(r, k, i) ==
  /\ session[r].phase = "idle"
  /\ \E F \in Removals :
       LET seen == Left(F)[k] IN
       \/ /\ seen.status # "absent" /\ seen.id # i
          /\ Begin(r, k, i, "conflict", None) /\ UNCHANGED claims
       \/ /\ seen.status = "in_progress" /\ seen.id = i
          /\ Begin(r, k, i, "in_progress", None) /\ UNCHANGED claims
       \/ /\ seen.status = "completed" /\ seen.id = i
          /\ Begin(r, k, i, "replay", seen.result) /\ claims' = Left(F)
  /\ UNCHANGED clock

(* The store cannot be reached: the caller learns that and nothing is claimed. *)
Refuse(r, k, i) ==
  /\ session[r].phase = "idle"
  /\ Begin(r, k, i, "unavailable", None)
  /\ UNCHANGED <<clock, claims>>

(* CompleteCommand on the caller's record, if it is left, keeps the first result *)
(* it is given.                                                                  *)
Complete(r) ==
  LET k == session[r].key IN
  /\ session[r].phase = "claimed"
  /\ \E F \in Removals :
       /\ Left(F)[k].status # "absent" /\ Left(F)[k].id = session[r].id
       /\ claims' = IF Left(F)[k].status = "completed" THEN Left(F)
                    ELSE [Left(F) EXCEPT ![k] = [@ EXCEPT !.status = "completed", !.result = r]]
  /\ Answer(r, "result", r)
  /\ UNCHANGED clock

(* A completion that is not recorded leaves the record as it is; the caller   *)
(* decides what to answer.  A process that ends forgets its calls.            *)
Unrecorded(r) ==
  /\ session[r].phase = "claimed"
  /\ \/ Answer(r, "result", r) \/ Answer(r, "unrecorded", None)
  /\ UNCHANGED <<clock, claims>>

Interrupt ==
  /\ session' = [r \in Requests |-> IF session[r].phase = "claimed"
                                    THEN [session[r] EXCEPT !.phase = "done", !.answer = "lost"]
                                    ELSE session[r]]
  /\ UNCHANGED <<clock, claims>>

Tick ==
  /\ clock' = clock + 1
  /\ UNCHANGED <<claims, session>>

Next == \/ \E r \in Requests, k \in Keys, i \in Identities :
              Reserve(r, k, i) \/ Recall(r, k, i) \/ Refuse(r, k, i)
        \/ \E r \in Requests : Complete(r) \/ Unrecorded(r)
        \/ Interrupt
        \/ Tick

Spec == Init /\ [][Next]_<<clock, claims, session>>
================================================================================
