----------------------------- MODULE DeliveryLedger -----------------------------
(* The delivery ledger of Phase 5: table deliveries (platformdb/                  *)
(* phase5_repository.go) and everybody who writes it.  The group send path        *)
(* (lsp/notify.go, lsp/module.go) reports to it through the delivery hook         *)
(* (admin/server.go), the manual replay (replay/service.go) and the manual retry  *)
(* (adminapi/phase5.go) write it themselves, a restart closes what was in flight. *)
(* One SQL statement or transaction is one step; any of them may fail, a send may *)
(* panic, and the process may be restarted between any two.                       *)
EXTENDS Naturals, Sequences, FiniteSets, Functions

CONSTANTS Notifies,     \* notifications to one group each, with their route observation
          Replays,      \* HTTP requests for a manual replay, all with one Idempotency-Key
          Retries,      \* HTTP requests for a manual retry, each with a key of its own
          MaxSegments,  \* bound: messages a notification is cut into
          Outcomes,     \* bound: what the Messenger of the instance answers
          MaxTrouble    \* bound: failed statements, panics and restarts together

ASSUME OriginAssumption == Notifies \cap Replays = {}
ASSUME SegmentAssumption == MaxSegments \in Nat \ {0}
ASSUME OutcomeAssumption ==
  Outcomes \subseteq {"acknowledged", "nothing", "queued", "not_sent", "unknown", "rejected"}

VARIABLES
  ledger,    \* the rows in the order they were inserted; a row's id is its position
  active,    \* activeDeliveries: per route, the ids in sending, oldest first
  send,      \* the goroutine of each notification
  told,      \* what the Messenger answered to each call
  claim,     \* the replay's idempotency record
  replay,    \* the handler of each replay request
  retry,     \* the handler of each retry request
  lost,      \* ids whose result could not be written
  sends,     \* calls of the replay's sender
  panicked,  \* notifications of which a call panicked
  trouble    \* failed statements, panics and restarts so far

vars == <<ledger, active, send, told, claim, replay, retry, lost, sends, panicked, trouble>>

sending  == <<active, send, told>>
admin    == <<claim, replay, retry, sends>>
mishaps == <<panicked, trouble>>

--------------------------------------------------------------------------------
Calls     == 1..(MaxSegments + 2)
Results   == {"queued", "sent", "not_sent", "unknown", "rejected"}
Terminal  == {"sent", "not_sent", "unknown", "rejected", "abandoned_restart", "skipped_empty"}
Statuses  == Results \cup Terminal \cup {"planned", "sending"}
Retryable == {"not_sent", "rejected"}

(* What a call of the Messenger shows its caller: an acknowledged message, an   *)
(* answer without message and without error, or one of the marked errors.       *)
Evidence == {"none", "acknowledged", "nothing", "queued", "not_sent", "unknown", "rejected"}

Row == [status : Statuses, by : Notifies \cup Replays, call : Nat, attempt : Nat \ {0}, of : Nat]

Send == [pc : {"ready", "skip", "skipped", "create", "enter", "wire", "record", "done", "gone"},
         stage : {"segments", "without all", "at list"}, atAll : BOOLEAN, call : Calls,
         again : BOOLEAN, row : Nat]

Handler == [pc : {"idle", "claimed", "created", "sending", "sent", "unwritten", "written",
                  "done", "gone"},
            row : Nat, result : Results, error : BOOLEAN]

Command == [state : {"absent", "in_progress", "completed"}, row : Nat, status : Statuses \cup {"error", "empty"}]

TypeOK == /\ ledger \in Seq(Row)
          /\ active \in [Notifies -> Seq(Nat)]
          /\ send \in [Notifies -> Send]
          /\ told \in [Notifies -> [Calls -> Evidence]]
          /\ claim \in Command
          /\ replay \in [Replays -> Handler]
          /\ retry \in [Retries -> [pc : {"idle", "read", "done", "gone"}, of : Nat]]
          /\ lost \subseteq DOMAIN ledger
          /\ sends \in Nat /\ trouble \in Nat /\ panicked \subseteq Notifies

Init == /\ ledger = <<>> /\ lost = {} /\ sends = 0
        /\ active = [n \in Notifies |-> <<>>]
        /\ \E atAll \in [Notifies -> BOOLEAN] :
             send = [n \in Notifies |->
                      [pc |-> "ready", stage |-> "segments", atAll |-> atAll[n], call |-> 1,
                       again |-> FALSE, row |-> 0]]
        /\ told = [n \in Notifies |-> [c \in Calls |-> "none"]]
        /\ claim = [state |-> "absent", row |-> 0, status |-> "planned"]
        /\ replay = [q \in Replays |-> [pc |-> "idle", row |-> 0, result |-> "unknown",
                                        error |-> FALSE]]
        /\ retry = [t \in Retries |-> [pc |-> "idle", of |-> 0]]
        /\ trouble = 0 /\ panicked = {}

--------------------------------------------------------------------------------
(* The repository.                                                              *)

\* Mutant: the attempt of a new row is not set.
NewRowUncounted(by, call) == [status |-> "planned", by |-> by, call |-> call, attempt |-> 0, of |-> 0]

NewRow(by, call) == [status |-> "planned", by |-> by, call |-> call, attempt |-> 1, of |-> 0]
Insert(row)      == ledger' = Append(ledger, row)
Inserted         == Len(ledger) + 1

\* validDeliveryTransition, for the states this code reaches
TransitionAllowed(from, to) ==
  \/ from = to
  \/ from = "planned" /\ to \in {"sending", "queued", "skipped_empty", "not_sent", "rejected", "unknown"}
  \/ from = "queued"  /\ to \in {"sending", "not_sent", "rejected", "unknown"}
  \/ from = "sending" /\ to \in Results \cup {"abandoned_restart"}

CanTransition(i, to) == i \in DOMAIN ledger /\ TransitionAllowed(ledger[i].status, to)
Transition(i, to)    == ledger' = [ledger EXCEPT ![i].status = to]

Trouble == trouble < MaxTrouble /\ trouble' = trouble + 1
Fault   == Trouble /\ UNCHANGED panicked
NoFault == UNCHANGED mishaps

(* TransitionDelivery with its error ignored, as the hook and the replay call   *)
(* it: a refused or failed transition leaves the row as it is.                  *)
TryTransition(i, to) ==
  \/ CanTransition(i, to) /\ Transition(i, to) /\ UNCHANGED lost /\ NoFault
  \/ ~CanTransition(i, to) /\ UNCHANGED <<ledger, lost>> /\ NoFault
  \/ i \in DOMAIN ledger /\ Fault /\ UNCHANGED ledger
       /\ lost' = IF ledger[i].status = "sending" THEN lost \cup {i} ELSE lost

--------------------------------------------------------------------------------
(* One call of sendGroupMessageObserved.                                        *)

Goes(n, to) == send' = [send EXCEPT ![n].pc = to]

(* The call returns a message: with an id, or with id -1 and then perhaps with  *)
(* the elements that were not sent.  SendMsgObserved stops at the first id -1;  *)
(* notify sends such a message once more without @all when its elements hold    *)
(* one, and the list of members to mention when that went through.              *)
Another(n, stage) ==
  send' = [send EXCEPT ![n] = [@ EXCEPT !.pc = "ready", !.stage = stage,
                               !.call = send[n].call + 1, !.again = FALSE, !.row = 0]]

FallsBack(n, ok, elements) ==
  ~ok /\ elements /\ send[n].atAll /\ send[n].stage = "segments"

Return(n, ok, elements) ==
  \/ FallsBack(n, ok, elements) /\ Another(n, "without all")
  \/ ~FallsBack(n, ok, elements) /\ Goes(n, "done")
  \/ ok /\ send[n].stage = "segments" /\ send[n].call < MaxSegments /\ Another(n, "segments")
  \/ ok /\ send[n].stage = "without all" /\ Another(n, "at list")

(* Muted, a failing migration hold, no bot: id -1 with the elements.  Dropped    *)
(* by ENFORCE or held by a migration: id 0.  Neither reaches the delivery hook. *)
Refuse(n) ==
  /\ send[n].pc = "ready"
  /\ \E ok \in BOOLEAN : Return(n, ok, TRUE)
  /\ UNCHANGED <<ledger, active, told, admin, lost, mishaps>>

Empty(n) ==
  /\ send[n].pc = "ready"
  /\ Goes(n, "skip")
  /\ UNCHANGED <<ledger, active, told, admin, lost, mishaps>>

Pass(n) ==
  /\ send[n].pc = "ready"
  /\ Goes(n, "create")
  /\ UNCHANGED <<ledger, active, told, admin, lost, mishaps>>

(* The hook with "skipped_empty": a row that goes from planned to its end.      *)
SkipCreate(n) ==
  /\ send[n].pc = "skip"
  /\ \/ /\ Insert(NewRow(n, send[n].call)) /\ NoFault
        /\ send' = [send EXCEPT ![n].pc = "skipped", ![n].row = Inserted]
     \/ Fault /\ UNCHANGED ledger /\ Return(n, FALSE, FALSE)
  /\ UNCHANGED <<active, told, admin, lost>>

SkipClose(n) ==
  /\ send[n].pc = "skipped"
  /\ TryTransition(send[n].row, "skipped_empty")
  /\ Return(n, FALSE, FALSE)
  /\ UNCHANGED <<active, told, admin>>

(* The hook with "sending": insert, transition, and remember the id when both   *)
(* went through.  deliveryMu is held across the two; no other hook touches this *)
(* row or this route meanwhile.                                                 *)
Create(n) ==
  /\ send[n].pc = "create"
  /\ \/ /\ Insert(NewRow(n, send[n].call)) /\ NoFault
        /\ send' = [send EXCEPT ![n].pc = "enter", ![n].row = Inserted]
     \/ Fault /\ UNCHANGED ledger /\ Goes(n, "wire")
  /\ UNCHANGED <<active, told, admin, lost>>

Enter(n) ==
  /\ send[n].pc = "enter"
  /\ \/ /\ CanTransition(send[n].row, "sending") /\ Transition(send[n].row, "sending") /\ NoFault
        /\ active' = [active EXCEPT ![n] = Append(@, send[n].row)]
     \/ Fault /\ UNCHANGED <<ledger, active>>
  /\ Goes(n, "wire")
  /\ UNCHANGED <<told, admin, lost>>

(* The Messenger's answer, whichever of the message's chunks it got through.     *)
Answer(n) ==
  /\ send[n].pc = "wire"
  /\ \E e \in Outcomes : told' = [told EXCEPT ![n][send[n].call] = e]
  /\ Goes(n, "record")
  /\ UNCHANGED <<ledger, active, admin, lost, mishaps>>

(* A panic inside the Messenger: the deferred function calls the whole function *)
(* once more, its checks and hooks included; the second panic gives id -1.      *)
Panic(n) ==
  /\ send[n].pc = "wire" /\ Trouble
  /\ panicked' = panicked \cup {n}
  /\ IF send[n].again
     THEN Return(n, FALSE, TRUE)
     ELSE send' = [send EXCEPT ![n] = [@ EXCEPT !.pc = "ready", !.again = TRUE, !.row = 0]]
  /\ UNCHANGED <<ledger, active, told, admin, lost>>

\* Mutant: an answer without message and error counts as sent.
StatusOfError(e) == IF e \in {"acknowledged", "nothing"} THEN "sent" ELSE e

\* observationSendStatus
Status(e) == CASE e = "acknowledged" -> "sent"
               [] e = "nothing"      -> "unknown"
               [] OTHER              -> e

(* The hook with the result: the oldest id of the route is taken off, whatever  *)
(* becomes of its transition.                                                   *)
Pop(n) == active' = [active EXCEPT ![n] = Tail(@)]

\* Mutant: an id is taken off only when its transition went through.
RecordKeepsFailed(n) ==
  /\ send[n].pc = "record"
  /\ LET e == told[n][send[n].call] IN
       /\ IF active[n] = <<>>
          THEN UNCHANGED <<ledger, active, lost>> /\ NoFault
          ELSE /\ TryTransition(Head(active[n]), Status(e))
               /\ IF ledger' = ledger THEN UNCHANGED active ELSE Pop(n)
       /\ Return(n, e = "acknowledged", e = "nothing")
  /\ UNCHANGED <<told, admin>>

Record(n) ==
  /\ send[n].pc = "record"
  /\ LET e == told[n][send[n].call] IN
       /\ IF active[n] = <<>>
          THEN UNCHANGED <<ledger, active, lost>> /\ NoFault
          ELSE Pop(n) /\ TryTransition(Head(active[n]), Status(e))
       /\ Return(n, e = "acknowledged", e = "nothing")
  /\ UNCHANGED <<told, admin>>

--------------------------------------------------------------------------------
(* replay.Service.Replay.  Within the retention of its key a claim stays as it  *)
(* is until its own handler completes it, restarts included (CommandStore).     *)

Handles(q, from, to) == replay[q].pc = from /\ replay' = [replay EXCEPT ![q].pc = to]
Ends(q, row, error)  == replay' = [replay EXCEPT ![q] = [@ EXCEPT !.pc = "written", !.row = row,
                                                         !.error = error]]

Claim(q) ==
  /\ \/ /\ claim.state = "absent" /\ Handles(q, "idle", "claimed")
        /\ claim' = [claim EXCEPT !.state = "in_progress"]
     \/ claim.state # "absent" /\ Handles(q, "idle", "done") /\ UNCHANGED claim
  /\ UNCHANGED <<ledger, sending, retry, lost, sends, mishaps>>

(* The route, its snapshot, the target and the rendered message may refuse the  *)
(* replay; so may the insert.                                                   *)
ReplayCreate(q) ==
  /\ replay[q].pc = "claimed"
  /\ \/ /\ Insert(NewRow(q, 0))
        /\ replay' = [replay EXCEPT ![q].pc = "created", ![q].row = Inserted]
        /\ NoFault
     \/ UNCHANGED ledger /\ Ends(q, 0, TRUE) /\ (NoFault \/ Fault)
  /\ UNCHANGED <<sending, claim, retry, lost, sends>>

ReplayEnter(q) ==
  /\ replay[q].pc = "created"
  /\ \/ /\ CanTransition(replay[q].row, "sending") /\ Transition(replay[q].row, "sending")
        /\ Handles(q, "created", "sending") /\ NoFault
     \/ UNCHANGED ledger /\ Ends(q, 0, TRUE) /\ Fault
  /\ UNCHANGED <<sending, claim, retry, lost, sends>>

\* sendReplaySnapshot: whatever has no id of its own is unknown.
ReplaySend(q) ==
  /\ replay[q].pc = "sending"
  /\ sends' = sends + 1
  /\ \E s \in {"sent", "unknown", "rejected"} :
       replay' = [replay EXCEPT ![q].pc = "sent", ![q].result = s]
  /\ UNCHANGED <<ledger, sending, claim, retry, lost, mishaps>>

ReplayRecord(q) ==
  /\ replay[q].pc = "sent"
  /\ \/ /\ CanTransition(replay[q].row, replay[q].result) /\ NoFault
        /\ Transition(replay[q].row, replay[q].result) /\ Ends(q, replay[q].row, FALSE)
     \/ Fault /\ UNCHANGED ledger /\ Handles(q, "sent", "unwritten")
  /\ UNCHANGED <<sending, claim, retry, lost, sends>>

ReplayUnknown(q) ==
  /\ replay[q].pc = "unwritten"
  /\ TryTransition(replay[q].row, "unknown")
  /\ Ends(q, replay[q].row, TRUE)
  /\ UNCHANGED <<sending, claim, retry, sends>>

(* The row is read back and stored as the command's result; a replay that was   *)
(* refused before it had anything to send stores its error code.  A failing     *)
(* read is ignored: it leaves the copy from before the send when writing the    *)
(* result had failed, and an empty record when it had not.  A failing completion *)
(* is ignored, too, and leaves the command in progress.                         *)
\* Mutant: the result of the send is stored, whatever was written.
ReadBackResult(q) == IF replay[q].row = 0 THEN "error" ELSE replay[q].result

ReadBack(q) == IF replay[q].row = 0 THEN "error" ELSE ledger[replay[q].row].status

ReplayComplete(q) ==
  /\ Handles(q, "written", "done")
  /\ LET Store(row, status) == claim' = [state |-> "completed", row |-> row, status |-> status]
     IN \/ Store(replay[q].row, ReadBack(q)) /\ NoFault
        \/ replay[q].error /\ replay[q].row # 0 /\ Store(replay[q].row, "planned") /\ Fault
        \/ ~replay[q].error /\ Store(0, "empty") /\ Fault
        \/ UNCHANGED claim /\ Fault
  /\ UNCHANGED <<ledger, sending, retry, lost, sends>>

--------------------------------------------------------------------------------
(* ManualRetry: the row is read, a copy of it is inserted by another statement. *)

\* Mutant: an unknown outcome may be retried.
RetryUnknown(t) ==
  /\ retry[t].pc = "idle"
  /\ \E i \in DOMAIN ledger :
       /\ ledger[i].status \in {"not_sent", "rejected", "unknown"}
       /\ retry' = [retry EXCEPT ![t] = [pc |-> "read", of |-> i]]
  /\ UNCHANGED <<ledger, sending, claim, replay, lost, sends, mishaps>>

RetryRead(t) ==
  /\ retry[t].pc = "idle"
  /\ \E i \in DOMAIN ledger :
       /\ ledger[i].status \in Retryable
       /\ retry' = [retry EXCEPT ![t] = [pc |-> "read", of |-> i]]
  /\ UNCHANGED <<ledger, sending, claim, replay, lost, sends, mishaps>>

RetryInsert(t) ==
  /\ retry[t].pc = "read"
  /\ retry' = [retry EXCEPT ![t].pc = "done"]
  /\ LET i == retry[t].of IN
       \/ /\ Insert([ledger[i] EXCEPT !.status = "planned", !.attempt = @ + 1, !.of = i])
          /\ NoFault
       \/ UNCHANGED ledger /\ Fault
  /\ UNCHANGED <<sending, claim, replay, lost, sends>>

--------------------------------------------------------------------------------
(* The process dies and the next one starts: MarkSendingAbandonedOnRestart runs *)
(* before any hook or handler exists; its error is logged.                      *)

InSending == {i \in DOMAIN ledger : ledger[i].status = "sending"}

\* Mutant: the pass marks every row.
MarkAllAbandoned == ledger' = [i \in DOMAIN ledger |-> [ledger[i] EXCEPT !.status = "abandoned_restart"]]

MarkSendingAbandoned ==
  ledger' = [i \in DOMAIN ledger |->
               IF i \in InSending THEN [ledger[i] EXCEPT !.status = "abandoned_restart"]
                                  ELSE ledger[i]]

Dies(f, idle) == [p \in DOMAIN f |-> IF f[p].pc \in idle THEN f[p] ELSE [f[p] EXCEPT !.pc = "gone"]]

Restart ==
  /\ Trouble
  /\ active' = [n \in Notifies |-> <<>>]
  /\ send' = [n \in Notifies |->
                IF send[n].pc = "done" \/ (send[n].pc = "ready" /\ send[n].call = 1 /\ ~send[n].again)
                THEN send[n] ELSE [send[n] EXCEPT !.pc = "gone"]]
  /\ replay' = Dies(replay, {"idle", "done"})
  /\ retry' = Dies(retry, {"idle", "done"})
  /\ \/ MarkSendingAbandoned /\ UNCHANGED lost
     \/ lost' = lost \cup InSending /\ UNCHANGED ledger
  /\ UNCHANGED <<told, claim, sends, panicked>>

--------------------------------------------------------------------------------
NotifyStep(n) == \/ Refuse(n) \/ Empty(n) \/ Pass(n) \/ SkipCreate(n) \/ SkipClose(n)
                 \/ Create(n) \/ Enter(n) \/ Answer(n) \/ Panic(n) \/ Record(n)

ReplayStep(q) == \/ ReplayCreate(q) \/ ReplayEnter(q) \/ ReplaySend(q) \/ ReplayRecord(q)
                 \/ ReplayUnknown(q) \/ ReplayComplete(q)

Next == \/ \E n \in Notifies : NotifyStep(n)
        \/ \E q \in Replays : Claim(q) \/ ReplayStep(q)
        \/ \E t \in Retries : RetryRead(t) \/ RetryInsert(t)
        \/ Restart

Spec == Init /\ [][Next]_vars

--------------------------------------------------------------------------------
(* Properties.                                                                  *)

(* The ledger never claims an outcome the Messenger did not provide: a            *)
(* notification has no more rows with a result than calls were answered so,      *)
(* panics, lost writes and restarts included.                                     *)
Answered(n, r) ==
  {c \in Calls : told[n][c] \in CASE r = "sent"    -> {"acknowledged"}
                                 [] r = "unknown" -> {"unknown", "nothing"}
                                 [] OTHER         -> {r}}
RowsWith(n, r) == {i \in DOMAIN ledger : ledger[i].by = n /\ ledger[i].of = 0 /\ ledger[i].status = r}
NothingInvented == \A n \in Notifies, r \in Results :
  Cardinality(RowsWith(n, r)) <= Cardinality(Answered(n, r))

(* activeDeliveries pairs a result with the oldest row of its route.  As long as  *)
(* no call of the notification panicked, that is the row of the same call,        *)
(* whichever inserts and transitions failed.                                      *)
Paired == \A i \in DOMAIN ledger :
  ledger[i].by \in Notifies \ panicked /\ ledger[i].of = 0 /\ ledger[i].status \in Results =>
    LET e == told[ledger[i].by][ledger[i].call] IN e # "none" /\ ledger[i].status = Status(e)

(* A row in sending is always somebody's: it waits in its route's queue, a replay *)
(* handler of this process has it, or writing its result failed.                  *)
Held(i) == \/ \E n \in Notifies : ledger[i].by = n /\ i \in Range(active[n])
           \/ \E q \in Replays : replay[q].row = i /\ replay[q].pc \in {"sending", "sent", "unwritten"}
SendingIsTracked == \A i \in InSending : Held(i) \/ i \in lost

(* No path through the send leaves a row behind: when a notification is done and   *)
(* no call of it panicked, its route has no id left waiting for a result.          *)
NoneLeftWaiting == \A n \in Notifies \ panicked : send[n].pc = "done" => active[n] = <<>>

(* A result goes to the row of its own call, and no row waits for one that will    *)
(* not come.                                                                       *)
ResultsReachTheirRow == Paired /\ SendingIsTracked /\ NoneLeftWaiting

(* Terminal results are monotonic (docs/phase5/DELIVERY.md): hooks, replays,      *)
(* retries and restarts never give a finished row another status.                 *)
TerminalStays == [][\A i \in DOMAIN ledger :
                      ledger[i].status \in Terminal => ledger'[i].status = ledger[i].status]_vars

(* A retry reads a row and inserts its copy later; the row still is not_sent or   *)
(* rejected then and for ever, and a copy counts one attempt more than it.        *)
RetriesFollowFailures == \A i \in DOMAIN ledger : LET p == ledger[i].of IN
  p # 0 => p < i /\ ledger[p].status \in Retryable /\ ledger[i].attempt = ledger[p].attempt + 1

(* Replay "sends once": requests with one key call the sender once at most, over  *)
(* failed writes and restarts.                                                    *)
ReplaySendsOnce == sends <= 1

(* The four things the stored command may tell whoever repeats the replay.       *)
ReplayRow(i) == i \in DOMAIN ledger /\ ledger[i].by \in Replays

\* The result, as the row has it.
TellsTheResult ==
  /\ claim.status \in Terminal /\ sends = 1
  /\ ReplayRow(claim.row) /\ ledger[claim.row].status = claim.status

\* An error code without a delivery, of a replay that was refused.
TellsOfARefusal == claim.status = "error" /\ sends = 0

\* The row as it was before the result: writing it had failed, and the ledger
\* does not know the outcome either.
TellsNoOutcome ==
  /\ claim.status \in {"planned", "sending"} /\ sends = 1
  /\ ReplayRow(claim.row) /\ ledger[claim.row].status \in {"sending", "unknown", "abandoned_restart"}

\* An empty record, whose row has the result: only reading it back had failed.
TellsNothing ==
  /\ claim.status = "empty" /\ sends = 1
  /\ \E i \in DOMAIN ledger : ReplayRow(i) /\ ledger[i].status \in Results \cap Terminal

(* Whatever is stored for a repeat may say less than the ledger, never anything   *)
(* else: a final status is the row's for ever; "planned" or "sending" never       *)
(* stands for a result the ledger knows; an error code means that nothing was     *)
(* sent; and an empty record, which says nothing of a delivery that has its       *)
(* result, is left only where reading the row back failed (service.go 209-217).   *)
StoredAnswerHolds ==
  claim.state = "completed" =>
    TellsTheResult \/ TellsOfARefusal \/ TellsNoOutcome \/ TellsNothing

(* However often a replay is asked for, it happens once, and no stored answer     *)
(* contradicts the ledger.                                                        *)
ReplayOnce == ReplaySendsOnce /\ StoredAnswerHolds
================================================================================
