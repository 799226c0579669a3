# DDBOT-AI in TLA+

DDBOT-AI is a Go bot: it polls streaming and social sites for the accounts that chat groups subscribe to, turns what it
finds into notifications and sends them through one of two chat connectors (OneBot or Satori). Around that core stand a
durable control plane (SQLite, an admin API, a connector migration coordinator, an AI decision pipeline that can drop a
notification, delivery and observation ledgers) and the bot's commands. This directory specifies the parts whose
correctness depends on the order in which several goroutines, requests, restarts and network events meet.

Paths are given without the leading `src/`. Line numbers are those of the commit the specifications were written from.

1. [The system](#1-the-system) · 2. [Modules](#2-modules) · 3. [Component by component](#3-component-by-component) ·
4. [Runs](#4-runs) · 5. [Proofs](#5-proofs) · 6. [Disagreements found](#6-disagreements-found) ·
7. [Not modelled](#7-not-modelled) · 8. [Plan](#8-plan)

## 1. The system

```
 sites ──poll── concerns (lsp/bilibili, ...) ──events── Dispatch ──notify── lsp.sendNotify
                    │ EmitQueue                                              │ enforce / shadow runtimes (AI decision)
                    │                                                        │ migration gate and delivery hook (hold)
            StateManager (BuntDB)                                            ▼
                    ▲                                                  adapter.Messenger ── offline queue ── WebSocket
  group and private commands                                                 │
                                                                       results → delivery ledger (SQLite)
 admin API ── idempotent commands ── migration coordinator, connectors, replay, pairing, audit (SQLite)
```

| Component | State it keeps | Operations | What is hard | What makes it correct |
|---|---|---|---|---|
| **Connector migration** `internal/migration`, `platformdb/migration_repository.go`, `admin/migration_hold.go` | `connector_migrations` (state, marker, rollback deadline), `delivery_migration_holds`, the enabled main connector | Create, Discover, Preflight, Commit, Rollback, Recover at start; hold of a message by the delivery hook; release of held rows | every SQL statement is a point where another request, the hook, a disconnect or a crash can come between; the marker is all a restart knows | one unfinished migration; a message is handed over at most once and its row is decided; route, journal and rollback window agree when it ends; a restart takes the right direction |
| **Idempotent commands** `idempotency`, `platformdb/idempotency_repository.go`, `adminapi/domain.go`, `replay` | `idempotency_records` rows with status, fingerprint, result, expiry | Begin, Complete, Lookup, prune inside Begin | retries that overlap, a completion after its own window, a restart between claim and completion | one execution per key and window; a replayed answer belongs to the same command; same behaviour as the in-memory store |
| **Messenger, offline queue** `adapter/messenger.go`, `adapter/wsclient.go` | `offlineQueue`, its timer flag, `Online`, the WebSocket, response channels | send group/private message in chunks, park, timer callback, flush, lifecycle and heartbeat events, drop, Stop | goroutine per event, two flags that mean "connected", check then act on both, compare-and-swap of the timer flag | a chunk is neither lost nor sent twice; the answer to the caller fits what happened; parked messages leave when the bot is connected |
| **Concern state** `lsp/concern/stateManager.go`, `utils/emitQueue.go` | BuntDB table group × id → types, options and marks; the in-memory poll list | Add/RemoveGroupConcern, GetConcern, RemoveAllByGroupCode, RemoveAllById, Start | table and poll list are changed in separate steps by concurrent commands | the poll list agrees with the table; limits hold |
| **EmitQueue, concern life cycle** `utils/emitQueue.go`, `stateManager.go` 467-700, `registry.go` | list of elements and cursor, stop flag, condition variable; event and notification channels, WaitGroups | emit loop, Add/Delete/Stop; Fresh, Dispatch, large notifications, the reader, StopAll | lost wake-up of Stop, restarts after a panic, send on a closed channel | Stop ends; every id gets its turn; what was found is notified once, stopping included; closed channels stay quiet |
| **Notification sending** `lsp/module.go`, `lsp/notify.go` | send slots, message segments | slot with a one-minute wait, hooks, retry without @all, re-entry after a panic | a second pass after a panic repeats effects | every call leaves its row with its own result; the slot is released |
| **Delivery ledger, replay** `platformdb/phase5_repository.go`, `admin/server.go` 560-740, `internal/replay` | `deliveries` rows and attempts, per-route lists of active deliveries in memory | create, transition, pair result and row, manual retry, replay, abandon at start | results are paired by order, not by identity; each statement may fail alone | a result is recorded on its own row; terminal rows stay; a replay happens once |
| **Enforce and shadow runtimes** `internal/enforce`, `internal/shadow`, `platformdb/ai_repository.go` | decision rows, flights, slots, approvals, the emergency switch | evaluate, single flight, record drop, approve, activate, switch, recover at start | everything an evaluation read may change while a classifier is running | no drop against the administrator's last word; one provider call per event and release; a suppression is on record |
| **Decision strategies, classifier** `internal/decision`, `internal/classifier`, `internal/policy` | none | majority, weighted vote, rules | ties, zero weights | the functions compute what their tests name |
| **Observation recorder** `internal/observation`, `platformdb/observation_repository.go` | bounded queue, bindings notify → trace by address, rows of events, routes, deliveries | observe, bind, detach, store, hand a route to Shadow, prune, close | facts that refer to each other share one queue that may refuse any; bindings outlive their object after a panic; Close with a deadline | an accepted fact is stored or counted; a fact hangs under its own event and route |
| **Sessions, setup, reset** `internal/auth`, `internal/session` | administrator, sessions, setup token | setup, login, logout, reset | a password check outside any transaction | no session outlives a reset; the token is used once |
| **Telegram pairing** `internal/pairing` | challenge rows | begin, verify, cancel | network call between check and consumption | one target per code, only within its lifetime |
| **Audit ledger** `internal/audit`, `migration_repository.go` 900- | hash chain | append, prune, verify | tail read and append in one transaction | the chain verifies after prune |
| **Secret store, media cache** | one row per secret; files and their size | put, get, evict | file and network I/O | bytes stay within the bound |
| **Subscription service and commands** `lsp/subscription`, `lsp/iCommand.go` | none of its own | parse, check permission and migration gate, call StateManager | the gate is asked before the table is changed | a migrated group's subscriptions do not change under the migration |
| **Platform concerns, permissions, templates, adapters, admin API, dashboard, start-up** | clients' caches, configuration | I/O and conversion | their effects on shared state go through the components above | — |

Interactions that matter: the bot sends through `Messenger`; before a message reaches an adapter the delivery hook
(`admin/migration_hold.go`) may hold it for a running migration, whose coordinator later hands it to a sender. Every
mutating admin API call, and a manual replay, runs inside a claim of the idempotent command store. Commands and the
refresh loops of the sites change the same StateManager. At start, `bot.go` 127-140 runs the admin server with the
migration recovery before connectors and concerns, and the commands begin after `StartAll`.

## 2. Modules

| Module | What it is |
|---|---|
| `ConnectorMigration` | the coordinator, its journal and rows, the delivery hook, connector topology, crash, disconnect, recovery |
| `HoldLedger` | abstract: what the held messages' rows promise; `ConnectorMigration` implements it |
| `CommandStore` | the durable idempotency store with its callers |
| `CommandContract` | abstract: the in-memory store's contract, with the backlog a bounded prune may leave; `CommandStore` implements it |
| `OfflineQueue` | senders, queue, timer, callbacks, flush, events and connection of one Messenger |
| `ConcernState` | StateManager's table and the poll list with concurrent commands |
| `DeliveryLedger` | rows of deliveries, the hook that pairs results with rows, replay, manual retry, restart |
| `EnforceGate` | the decision whether a notification is dropped, the Shadow worker beside it, the administrator's commands |
| `ConcernLifecycle` | from the poll list to the notification: queue goroutine, fresher, dispatchers, reader, and Stop |
| `ObservationPipeline` | the facts recorded beside dispatch and sending, the recorder's queue and goroutine, the Shadow queue, and their shutdown |
| `MC...` | instances and symmetry for TLC |
| `...Proofs` | theorems and lemmas, each module about the module of the same name |

The eight components are separate specifications: what passes between them is small and appears in each as the
environment (a connector change in `ConnectorMigration`, an arbitrary command in `CommandStore`, the Messenger's answer
in `DeliveryLedger`, a table found at start in `ConcernLifecycle`, whose polled ids are the queue of `ConcernState`;
`ObservationPipeline` sees of dispatch and sending what they offer to the recorder). The
claim of a replay is a table in `CommandStore` and one variable in `DeliveryLedger`, which relies on what is proved of
the table.

In the modules an operator that nothing uses and that stands directly before a definition it resembles
(`Retryable` before `Claimable`, `FlushCopies` before `Flush`) is a plausible mistake in that code. Each property of a
passing run has one such variant under which TLC finds the property violated; `PROJECT.json` pairs them. They show that
the properties depend on the code they are about.

## 3. Component by component

### 3.1 ConnectorMigration

*Steps.* The database is opened with one connection (`internal/platformdb/store.go` 110-114), so one SQL statement, or
one transaction, is one step, and anything may happen between two. A coordinator call is a path through named stages,
`pc[p]`; a stage with several statements has its own `step[p]`. The tables at the head of the module list every stage
that writes the journal with the state and marker it writes and where the code goes after success and after an error:
they replace some forty actions that would differ only in these values. `CheckTransition` and `WriteTransition` are the
two halves of `UpdateMigration`, a SELECT with the transition test and an UPDATE by id without it.

| Module | Code |
|---|---|
| `state`, `marker`, `window` | columns of `connector_migrations`; `window` is "rollback_expires_at is set" |
| `main` | the one enabled main connector; the partial unique index (007_domain_core.sql 48-50) allows no second |
| `hold`, `holdOf` | status and migration of a row of `delivery_migration_holds` |
| `todo`, `listed`, `cur`, `res` | locals of `releaseHolds`: rows still to visit, whether the list was read, the row at hand, the sender's answer |
| `dpc`, `dmig` | where a message stands in the delivery hook, and the migration it read |
| `handed`, `via` | history: how often the sender was given the message, through which connector |
| `Create`, `Discover`, `Preflight`, `Commit`, `Rollback` | the calls; their first read and its refusals are the guard |
| `Validate`, `SwitchRoute`, `ReadBack`, `SetRollbackExpiry`, `RebuildProjection` | the stages between journal writes |
| `ListHolds`, `MarkReleasingUnknown`, `ClaimHold`, `Send`, `FinishHold` | `releaseHolds`, one statement or one external send each |
| `Recover`, `InspectRoute` | the startup pass |
| `HookCurrent`, `TryHoldForTarget`, `ReportHoldFailure` | the hook |
| `PatchConnector`, `Disconnect`, `Crash` | the environment |

Choices. `TryHoldForTarget`, `Hold` and `PutHold` are one step, because `PutHold`'s transaction repeats all their
checks. A target that is no longer resolved makes the message unaffected; every other error of `PutHold` (a payload it
refuses, a target that is gone) has the effect of a failed statement and counts as one. A held row may be one of an earlier
version, without its payload (`"invalid"`): it is closed as unknown and ends the release. Mappings, endpoint, checker and expiry can refuse a call: `Validate` may go either way. The sender's answer is
one of sent (`sent`, `queued`), failed (an error, `not_sent`, `rejected`) and unknown. A client that goes away cancels
the request context, on which every later statement fails, the one that would record the failure included
(`Disconnect`); such a commit stays `committing` until a restart. `Recover` handles one migration, the only one that
can be unfinished. No message passes and no call is served while it runs (`Up`), from the order in `bot.go`. The
production wiring (`admin/server.go` 458-468) configures no sender: `SenderConfigured = FALSE` is that build.

Properties. `NoDuplicateDelivery` — a message is handed to a sender once at most, by the direct path and all releases
together. `OneActiveMigration`. `TerminalSettled` — a finished migration leaves the connector its state names, unless an
administrator patched it (`TerminalRoute`), every row it listed is decided (`TerminalRowsDecided`), and a completed one
has its rollback deadline (`CompletedHasWindow`). `SendsFollowRoute` — the connector a held message goes out on is the
route. `JournalGuidesRestart` — the journal is all a restart needs: no statement moves the route unless the marker already
says so (`SwitchIsJournalled`), a recorded route is not taken back (`RestartKeepsCommittedRoute`), and no migration is
left half done (`RecoverClassifies`). `CommittingEnds` — liveness: a migration does
not stay committing, which would hold every message of its groups. `ImplementsLedger` — the rows implement
`HoldLedger`. `HeldStaysWithoutSender` — in the production wiring a row stays `held`; it is proved, not run.

Limits of these statements. A database error at the wrong statement makes `RecoverClassifies` and
`TerminalRowsDecided` false (the error's own record fails, too), and `SwitchIsJournalled` where the hook reports it
between two journal writes, so they are checked without such errors. A PATCH moves the route without any record, and a
second administrator can make `RestartKeepsCommittedRoute` false, so these are checked with one administrator and no
PATCH. The parameters of the runs say so. `TerminalSettled` is about one migration: the way back moves the route that the
first one left. The runs that must pass have a sender, since without one there is nothing to hand over
twice; `migration_late_commit` runs the production wiring.

### 3.2 CommandStore

`records[k]` is the row of one principal and key (one value, `Key`), with the fingerprint and command type as one
`Identity`; `req[r]` is a request handler: claim (`Reserve`, `Replay`, `Reject`, `BeginFails`), side effect
(`Execute`), completion (`Complete`, `CompleteRefused`, `CompleteFails`) and the answer given. `Begin`'s transaction
prunes at most `PruneLimit` expired rows, oldest first, before it looks the key up; rows with one expiry are ordered
arbitrarily (`PruneSets`). A conflict or in-progress answer rolls the pruning back. The clock counts whole seconds, as
the columns do. API commands that cannot record their result answer 503 (`unrecorded`); the replay service drops that
error and answers success (`AnswerUnrecorded`). `Restart` ends the handlers and keeps the rows. A failure to marshal
the result is folded into `CompleteFails`. Storage runs on a background context, so a disconnect does not reach it.

Properties. `OncePerWindow` — a key runs at most one command per retention window. `RepeatsAreServed` — a replayed
answer is of a request that meant the same (`ReplayIsOfSameCommand`), and what a client was told stays available under
its key for its window (`SuccessIsReplayable`). `KeepsMemoryContract` — the durable store implements the in-memory one.
`MemoryStore` removes everything that has expired before each operation; the `DELETE` of the durable store has a limit,
and the lookup behind it does not test the expiry. The contract names what that may change and nothing else: an operation
may still meet an expired record, but only behind at least `PruneLimit` others that expired no later (`Removals`). While no more records than that have expired it is `MemoryStore` itself
(`NoBacklogRemovesAll`). `StoredResultsStand` — a result is not replaced and not removed
early — is proved, not run.
A completion by a claimer whose window ended may fill the row of the next claim; the model has it, and
both parts of `RepeatsAreServed` and `StoredResultsStand` hold with it. An in-progress row of a dead process stays until it
expires (seven days).

### 3.3 OfflineQueue

`link` is the WebSocket, `online` the flag `Online`; `isConnected` is both. A message has `Size[m]` parts; an entry is
the set of parts that travel in one request (a message parked whole, or one of its chunks). `callers[m]` is
the goroutine in `SendGroupMessage` or `SendPrivateMessage`: `Check`, `SendChunk` per chunk, `Save` (park under the
mutex), `Arm` (schedule). `timer` is
`offlineFlushScheduled`; `callbacks[w]` are the goroutines that the timer and the
events start: `Fire`, `Decide`, `Wait`, `Flush`, `Expire`, `Resend`, `Finish`; `Lifecycle`, `HeartbeatUp` and
`HeartbeatStore` (load, then store), `HeartbeatDown` (only a store). `fate` says what became of a part, `written`
counts its requests on the wire.

Choices. The adapter call is one step with its outcomes: `not_sent` exactly when there is no connection, else sent,
rejected or unknown (errors without a mark count as unknown). Left out are a request that cannot be encoded, rejected
without being written (wsclient.go 591-594: requests are built of strings and numbers, which always encode), and a
message without parts, for which nothing is sent or queued while the bot is connected (the callers drop empty messages
before). Each event has its own goroutine, so events are handled in any order and possibly after a drop. Expiry of an
entry is possible whenever a flush looks at it. `flushOfflineMsgs`' connection test and its taking of the queue are one
step, as are its reschedule and its unlock, and the callback's queue test with its compare-and-swap: between them no
other goroutine reads what they change. `Stop` closes the adapter with `stopChan` and no event follows. The queue is
enabled (the disabled one drops messages on the spot).

Properties. `InOnePlace` — an unsettled part is with its caller, in the queue or with the flush that took it
(`NothingLost`), and in one of them only (`NothingTwice`). `AnswersMatchTheWire` — it goes over the wire at most once,
exactly once if it counts as sent, rejected or unknown (`WrittenOnce`), and after an answer other than "queued" nothing
of the message remains to be sent (`FinalAnswers`). `OnlyAFlushGivesUp` — a non-empty queue loses the last goroutine or timer that will look
at it only by a flush that finds the connection down under the mutex. `DrainsWhenWatched` — if that never happens and
the bot stays connected, the queue becomes empty again and again.

### 3.4 ConcernState

`table[g][i]` is the set of types the row of group and id holds; `queue` maps a listed id to the types its element
carries; `worker[w]` is a command between its transaction and its change of the queue. BuntDB transactions are under
one lock, hence one step: `AddGroupConcern` and `RemoveGroupConcern` commit, then `GetConcern` reads the id's types
over all groups, then `Emit` adds, merges or deletes the element. `RemoveAllById` (a refresh that finds the account
gone) changes both in one step, `RemoveAllByGroupCode` (the bot left the group) only the table. `Start` is a restart:
the queue is rebuilt from the table. Refused commands change nothing and are stutters. An addition has one type, since
the commands resolve one; a removal any set of types, for the clean-up command. `raced` and `leftover` are history:
ids where a removal overlapped another command since the last start, and ids left polled by `RemoveAllByGroupCode`.

Properties. `QueueFollowsTable` — when
the commands on an id have ended, and no removal overlapped another command on it, every subscribed type is polled
(`SubscribedIsPolled`), and nothing else is (`PolledIsSubscribed`). `OnlyAStaleRemovalForgets` — the one step that takes
a subscription's poll away is a removal acting on a read that another command made stale. `LimitKept` — a group's rows
stay within the limit, whatever commands overlap — is proved, not run.

What is true of the code here is weaker than one would like, and the properties say exactly how much: additions may
overlap each other freely, a removal may not overlap anything on the same id (`stateManager.go` 240-247).

### 3.5 DeliveryLedger

`ledger` is the table `deliveries` in insertion order; `active[n]` is the hook's list of ids in `sending` for the route
of notification `n`; `send[n]` is the goroutine that sends it, segment by segment: `Create` and `Enter` (the hook with
"sending": insert, transition, remember), `Answer` (the Messenger), `Record` (the hook with the result: take the oldest
id off, whatever becomes of its transition), or `Refuse`, `Empty`/`SkipCreate`/`SkipClose` for a call that never reaches
the Messenger. `Panic` re-enters the whole call once, hooks included. `replay[q]` are the handlers of a manual replay
under one key, `claim` their idempotency record; `retry[t]` are manual retries, a read and an insert. `Restart` is the
start's pass over rows in `sending`. Every statement can fail (`Fault`), and the hook ignores that, as the code does.

Choices. One notification has one route observation and one goroutine; rows of a route are only written by it, so the
list is per notification. The list deviates from one id only after a panic: the re-entered call appends a second id
while the first still waits, and the results are then one call late. A retry inserts a `planned` row that nobody sends.
A row answered `queued` stays so: the flush of the offline queue has no hook. Two retries of one row get the same attempt
number. The Messenger's answers are the evidence its caller sees; `Outcomes` lists those of the instance.

Properties. `NothingInvented` — a notification has no more rows with a result than calls were answered so, panics, lost
writes and restarts included (pairing a result with the wrong row moves it, never multiplies it). `ResultsReachTheirRow`
— without a panic the result is on the row of its own call (`Paired`), a row in `sending` is in somebody's hands or its
write failed (`SendingIsTracked`), and a finished notification leaves no id waiting (`NoneLeftWaiting`).
`RetriesFollowFailures` — what a retry copied was and stays a failure although read and insert are two statements.
`ReplayOnce` — one key calls the sender once at most (`ReplaySendsOnce`), and the stored answer is one of four things
(`StoredAnswerHolds`, which leaves no completed command out): the final status of the row (`TellsTheResult`), the error
code of a replay that sent nothing (`TellsOfARefusal`), a status from before the result, of a row that has none either
(`TellsNoOutcome`: the result could not be written, and perhaps not read back), or an empty record of a delivery whose row
has its result (`TellsNothing`: only the read-back failed). The last two say less than the ledger; §6 lists them.
`TerminalStays` — no writer gives a finished row another status.

### 3.6 EnforceGate

`task[t]` is one evaluation (`Sends`) or one job of the Shadow worker (`Jobs`); `ai[e][r]` the row of `ai_decisions` of
an event and release, which both share; `flight`, `result` and `slots` the runtime's single flight and gate; `drops` the
committed decisions. An evaluation is `ResolveRoute`, `ObserveRelease`, `CheckSwitch`, `Acquire`, `CheckRelease`,
`CheckReady`, `JoinFlight`, then as owner `Claim`, `Poll`, `Mark`, `Call`, `Finish`, `Close`, `Forget`, or as guest
`Wait`, then `Judge`, `PersistDrop`, `Return`. The administrator's commands are `Approve`, `RevokeApprovals`,
`SavePolicy`, `ActivateRelease`, `SaveProvider` (four steps, the client in memory last), the emergency switch
(database, then memory), `CreateFeedback` and `ResolveFeedback`. `void` is history: approvals up to that index were
revoked at some time.

Choices. What the classifier says, whether the policy drops it and whether a release's evidence is sufficient are
choices of the environment; an unresolved critical feedback is the part of readiness that the transaction tests again,
so it is state. An evaluation has one route. The rows of a recorded PASS are left out: losing one is ignored. A media
fetch after the commit cannot change the decision.

Properties. `OneCall` — at most one provider call per event and release, by evaluations and Shadow jobs together, over
failed statements and restarts. `DropsAreFounded` — exactly the notifications with a committed DROP are suppressed, and
a DROP stands on a stored answer that says so. `FlightsBalance` — slots are returned exactly once on every path, flights
never exceed them, and nobody waits for an owner that is gone. `FinalWord` — whatever an evaluation read on its way, no
DROP is committed against the switch, a changed policy, a revoked approval, another release or a critical report.

### 3.7 ConcernLifecycle

`list`, `cur` and `core` are the EmitQueue and its goroutine: `CoreTest` and `CorePark` are apart, since between them the
loop holds the lock that `Broadcast` does not take. `fresher`, `dispatcher[d]`, `reader`, `large[e]` (the goroutine of an
event with many notifications) and `outgoing[e]` are the goroutines downstream, `events` and `notify` the two buffered
channels; `stop` is how far `Lsp.Stop` is, in `Order`. `FreshAgain`, `DispatchAgain` and `ReadAgain` are the goroutines
that replace one that panicked: it has counted itself off its WaitGroup before, so a `Wait` can return in between.

Choices. The goroutines run in the initial state, of one StateManager. A generator, a filter, a refresh or a hook may
panic, `MaxPanics` times in all; the goroutine of a large event has no recover, so its write to the closed channel ends
the process (`crashed`). Whether an event is for nobody, few or many is a choice.

Properties. `NothingAfterClose` — the fresher never holds an event for a closed `eventChan`, even when restarted, and
without a panic all dispatchers have ended and the channel is drained when `notifyChan` closes. `NotifiedOnce` — when
Stop returns without panics, every event found was dispatched and every notification of a small one handled; nothing is
notified twice. `EveryIdIsPolled` — a listed id gets its turn, whatever is added and deleted around the cursor.
`StopReturns` — Stop ends, but for the lost wake-up (`missed`).

### 3.8 ObservationPipeline

`event[e]` is the dispatcher's turn for an event and `trace` the events it got a valid trace for; `notify[n]` is a
notification from `Bind` over `Filter` (the filters, and the route fact) and `Begin` (`ConcernNotify`) to `Deliver` (the
delivery fact); `bindings` is the map keyed by the object's address. `queue`, `worker`, `stored` and `failed` are the
recorder, whose goroutine takes a fact, inserts it and for a route calls the hook (`Take`, `Insert`, `Hook`, `Schedule`);
`jobs`, `shadow` and `evaluated` are the Shadow runtime's queue, workers and evaluations. `close` is how far `Server.Close`
is (`Stages`); `AwaitRecorder` is either outcome of its wait, and cancels the goroutine's context.

Choices. An offer may be refused at a full queue, after Close began, or because no id could be drawn; so may an insert, by
a fault, by the cancelled context, or by the foreign keys of 006_observation.sql (`Above`). A panic of a generator, a filter
or a hook ends a dispatch or a notification and leaves its binding, until another object lies at the address. Concerns
dispatch side by side, so events interleave. The route hook's reads and the policy are choices; what a Shadow worker does
with the decision's row is in `EnforceGate`. One notification is one message here, and rows are not pruned.

Properties. `FactsAreAccounted` — an accepted fact is in exactly one place, queue, hand, row or the count of failures, and
once the goroutine has ended the queue is empty for good: accepting under the reader's lock makes Close's drain complete.
`ChainsAreTrue` — as long as statements work and the context lives no insert is refused by a foreign key
(`NothingRefused`); without a panic routes and deliveries are recorded under their own event and route (`TracesAreOwn`);
what Shadow was given or has judged is a route with a row (`JudgedAreStored`). `FactsAreSettled` — liveness: what was
accepted is stored or counted in the end, through any shutdown, and the Shadow queue empties until its workers are
stopped.

## 4. Runs

| Run | Specification and bounds | Checked |
|---|---|---|
| `migration_serial` | `FairSpec`; one request slot, 5 calls, 2 messages, 2 crashes, 1 disconnect, sender configured | `TypeOK` `TerminalSettled` `SendsFollowRoute` `JournalGuidesRestart` `CommittingEnds` |
| `migration_concurrent` | two migrations (there, back), two request slots, 4 calls, 1 message, 1 crash, 1 database error, 1 connector patch | `NoDuplicateDelivery` `OneActiveMigration` `ImplementsLedger` |
| `migration_stranded`, `migration_late_commit` | 3 calls, 1 message | the disagreements of section 6 |
| `commands` | 3 requests, 2 keys, 2 meanings, retention 2 of 4 time units, prune limit 1, 1 failure, 1 restart | `TypeOK` `OncePerWindow` `RepeatsAreServed` `KeepsMemoryContract` |
| `offline` | `FairSpec`; a two-chunk and a one-chunk message, 2 callbacks, queue of 2; drops, reconnects and events without bound | `TypeOK` `InOnePlace` `AnswersMatchTheWire` `OnlyAFlushGivesUp` `DrainsWhenWatched` |
| `offline_stranded` | `FairSpec`; one message | the disagreement of section 6 |
| `concern` | 2 groups, 2 ids, 2 types, 2 concurrent commands, limit 1, restarts without bound | `TypeOK` `QueueFollowsTable` `OnlyAStaleRemovalForgets` |
| `delivery` | 1 notification of 2 segments, 2 replays with one key, 1 retry, 3 outcomes, 2 troubles (failed statements, panics, restarts) | `TypeOK` `NothingInvented` `ResultsReachTheirRow` `RetriesFollowFailures` `ReplayOnce` `TerminalStays` |
| `enforce` | 2 notifications and 1 Shadow job of one event, 2 releases, 2 policies, 1 command, 2 slots, 2 troubles | `TypeOK` `OneCall` `DropsAreFounded` `FlightsBalance` `FinalWord` |
| `lifecycle` | `FairSpec`; 2 ids, 2 events, 2 dispatchers, channels of one place, 1 send at a time, 1 Add or Delete, 1 panic | `TypeOK` `NothingAfterClose` `NotifiedOnce` `EveryIdIsPolled` `StopReturns` |
| `observation` | `FairSpec`; 2 events with a notification each, 2 addresses, queue of 2, Shadow queue of 1, 1 worker, 1 fault or panic, Close | `TypeOK` `FactsAreAccounted` `ChainsAreTrue` `FactsAreSettled` |

*Why the bounds suffice to meet the interesting cases.* Creation is not counted, and Preflight discovers first
when nothing was discovered, so five calls are Discover, Preflight, a Commit that is refused or cut off, a Commit and a
Rollback; two crashes interrupt the commit and then the recovery; two messages let one be held before and one
after the release lists the rows. Four calls over two slots are a Preflight, two overlapping Commits and a
Rollback, or one complete migration and the complete way back. Two keys with a prune limit of 1 give both cases: a call that deletes
all that has expired, and one that leaves a backlog; four time units are two windows. The offline queue holds two of three chunks, so eviction
happens; two callbacks are a timer's and an event's. A concern's races are between two commands about one id; a second
id is there for the limit. Two segments and the calls they can fall back to are four calls, two troubles are for instance a
failed insert or a panic, and a restart; rows of different notifications meet only in the retry and the restart. Two
notifications of one event share a flight or follow each other, the Shadow job competes with both for the row, and one
command falls at any point; with two slots for two notifications a full gate is not reached in this instance, and
larger ones are out of reach of an exhaustive run. Channels of one place block their writers, two
dispatchers let one panic while the other works. Six facts over a queue of two fill it while its goroutine
works; two events share an address one after the other, and the one trouble is a lost fact or a binding left behind. The prune limit is 256 and the queue's length 100 in the code, the slots
2 and the flights 64, the channels hold 4 and 25: all are parameters, and the theorems hold for every value.

*Deadlock* is not checked: with bounded calls, and a bot that stops, each of these systems really ends.

*Symmetry* is used where the values are interchangeable and the properties are about steps and states: requests, keys
and meanings of `commands`, requests of `migration_concurrent`, goroutines of `concern`, replays of `delivery`,
notifications of `enforce`. No run with a liveness property uses it.

*Fairness.* `migration_serial`: a call that runs goes on (weak fairness of `ProcStep`: the handler's goroutine is
scheduled and the driver answers), and a started process runs `Recover`. Crashes and calls are bounded and not fair.
`offline`: weak fairness of each sender and of each callback's own steps (goroutines are scheduled, adapter calls end by
their timeout), strong fairness of `Fire`: the timer fires in a goroutine of its own, while the model lends it one of the
`Callbacks` that events also use. Nothing is assumed of events, drops, reconnects or Stop. `DrainsWhenWatched` therefore
carries its assumption on the connection in its statement. `lifecycle`: weak fairness of each goroutine (it is scheduled,
its timer fires, a request ends by its timeout), strong fairness of `CoreEnds`, which is one branch of a select that Go
decides at random while another may be ready each time. Nobody need stop the bot or type a command.
`observation`: weak fairness of the recorder's goroutine and of each Shadow worker; offers, dispatch and Close are not fair.

## 5. Proofs

All theorems hold for every value of the constants that satisfies the named assumptions (`RouteAssumption`,
`ProcessAssumption`, `BoundAssumption` and their counterparts), that is, for any number of migrations, requests,
messages, keys, goroutines, groups, ids, notifications and failures.

| Module | Theorem | Statement |
|---|---|---|
| `ConnectorMigrationProofs` | `TypeCorrect`, `SingleActiveMigration`, `CompletionRecordsWindow`, `AtMostOneDelivery` | `Spec => []` of `TypeOK`, `OneActiveMigration`, `CompletedHasWindow`, `NoDuplicateDelivery` |
| | `RowsRefineLedger` | `Spec => ImplementsLedger` |
| | `LedgerHandedOnce` | `ImplementsLedger => []Ledger!HandedOnce`: whatever implements the ledger hands a message over at most once |
| | `HeldWithoutSender` | without a sender, `Spec => HeldStaysWithoutSender` |
| | `SendsGoToMain` | `OneAdministrator => (Spec => SendsFollowRoute)` |
| | `SwitchesAreRecorded` | `OneAdministrator`: a switch of the route is recorded before it, or the hook wrote its failure over the record |
| | `OutcomesAreTrue` | `OneAdministrator`: no migration is declared completed, rolled back or, once begun, failed on another route than that says |
| | `CommittedRouteIsKept` | `OneAdministrator`, `RoutesDiffer`: `Spec => RestartKeepsCommittedRoute` |
| | `RestartIsGuided` | `OneAdministrator`, `NoErrors`, `RoutesDiffer`: `Spec => JournalGuidesRestart` |
| | `FinishedRouteIsOn` | `OneAdministrator`, `OnlyMigration`: `Spec => []TerminalRoute` |
| | `FinishedRowsAreDecided` | `OneAdministrator`, `NoErrors`: `Spec => []TerminalRowsDecided` |
| | `FinishedIsSettled` | `OneAdministrator`, `NoErrors`, `OnlyMigration`: `Spec => []TerminalSettled` |
| | `CommittingIsAttended` | `Spec => []Attended`: with no failed statement and no client lost so far, somebody is at work on a committing migration |
| | `CallsEnd` | `Spec => CallsComeToAnEnd`: every step of a call brings it nearer to its end, and no other process sends it back |
| `CommandStoreProofs` | `TypeCorrect`, `CommandsRunOnce`, `ReplaysBelong`, `SuccessesAreKept`, `RepeatsServed`, `ResultsStand` | `TypeOK`, `OncePerWindow`, the two parts of `RepeatsAreServed` and it, `StoredResultsStand` |
| | `KeepsContract` | `Spec => KeepsMemoryContract` |
| `OfflineQueueProofs` | `TypeCorrect`, `PartsAreKept`, `PartsAreSingle`, `PartsAreInOnePlace`, `NoDuplicates`, `AnswersAreFinal`, `AnswersAgree` | `TypeOK`, the two parts of `InOnePlace` and it, the two parts of `AnswersMatchTheWire` and it |
| | `WatchInvariant`, `QueueKeepsItsWatch` | `Spec => []WatchInv`, `Spec => OnlyAFlushGivesUp` |
| | `PartsGoForward` | `Spec => PartsGoOn`: the way of a part leads to its fate, and back only from a flush to the queue without a connection |
| `ConcernStateProofs` | `TypeCorrect`, `GroupsStayWithinLimit`, `SubscriptionsArePolled`, `NothingElseIsPolled`, `QueueAndTableAgree`, `SubscriptionsAreForgottenOnlyByStaleRemovals` | `TypeOK`, `LimitKept`, the two parts of `QueueFollowsTable` and it, `OnlyAStaleRemovalForgets` |
| `DeliveryLedgerProofs` | `TypeCorrect`, `LedgerInvariant` | `TypeOK`, the inductive invariant |
| | `ResultsArePaired`, `SendingRowsAreTracked`, `NothingWaitsAfterwards`, `ResultsAreFiled` | the three parts of `ResultsReachTheirRow` and it |
| | `RetriesAreOfFailures`, `FinishedRowsStay` | `RetriesFollowFailures`, `TerminalStays` |
| | `OneSendPerKey`, `StoredAnswersHold`, `ReplaysHappenOnce` | the two parts of `ReplayOnce` and it |
| | `NoResultIsInvented` | `NothingInvented` |
| `ObservationPipelineProofs` | `TypeCorrect`, `Invariant` | `TypeOK`, the inductive invariant |
| | `FactsAccounted`, `ChainsHold` | `FactsAreAccounted`, `ChainsAreTrue` |
| `ConcernLifecycleProofs` | `TypeCorrect` | `TypeOK` |
| | `StopLeavesQuiet`, `EventsAreNotifiedOnce` | `NothingAfterClose`, `NotifiedOnce` |
| | `NoIdIsSleptOn` | `Spec => []SleepsWhenEmpty`: the loop of the queue sleeps only over an empty list |
| | `StopIsNeverStuck` | while Stop is under way, the wake-up not missed and the process alive, Stop or a goroutine it waits for can go on |
| | `NobodyIsPassedOver` | an id is at most one round away, every turn of another id brings it one closer, and only an Add puts it back, by one |
| `EnforceGateProofs` | `TypeCorrect`, `Invariant` | `TypeOK`, the inductive invariant |
| | `CallsOnce`, `DropsFounded`, `FlightsBalanced` | `OneCall`, `DropsAreFounded`, `FlightsBalance` |
| | `AdministratorHasLastWord` | `Spec => FinalWord` |

*ConnectorMigration.* `TypeInv` adds to `TypeOK` that a running call has a migration and a release that is sending has a row. `WindowInv` says at which
stages the deadline is already stored: completion is written only from those. `DeliveryInv` says that only a message
the hook gave up has a row, that nothing was handed over for a row that is not claimed, and that at most one process is
about to send a claimed row, for which nothing was handed over; `NoDuplicateDelivery` alone is not inductive, since a second
claim must be excluded by the row, not by the count. Every step is first classified (`RowStep`): it holds a new row,
claims one, hands one over, gives up or decides some, or leaves rows and sends alone. The invariant and the refinement
both follow from that classification, so the case analysis over the actions is made once. `NoSenderInv` says which steps
a process cannot reach without a sender.

The theorems about the route and the outcome name the instances they hold for: `OneAdministrator` (one request at a time,
no connector edited meanwhile), `NoErrors` (no database error), `RoutesDiffer` (no two migrations between the same
connectors), `OnlyMigration` (one, that leads from the first main connector). With one administrator, and a startup pass
that no request overlaps, one process is at work (`AloneInv`), so what it knows when it enters a stage stays true until it
leaves it. `RouteInv` says which route is on at the stages before and during a release. `GuideInv` says which marker and
state the journal has at a stage (`Knows`), what a marker tells of the state as long as nothing was switched (`PairInv`),
and that a marker from before the switch excludes a recorded commit (`FreshInv`): what `Recover` reads is then enough to
tell which way the route was going. When the database fails the hook, it writes `recovery_required` over whatever the
journal says; `Reported` is that exception in `Knows`, and `HookInv` says that it happens only while requests are served,
so what the startup pass reads is not overwritten under it. `NoErrors` is needed only where failed statements make the
property false: `SwitchIsJournalled` (`SwitchesAreRecorded` is what remains of it), `RecoverClassifies` and
`TerminalRowsDecided`.

`FinishInv` follows a release: after its second step its rows are not in `releasing` but for the one it is sending, so the
stages behind it, and the markers from which a restart skips the release, have none. `FinishRoute` carries the route from
there to the terminal state, for any number of migrations (`OutcomesAreTrue`); with one, nothing moves it afterwards
(`RouteSettled`, `FinishedRouteIsOn`). `migration_late_commit` shows what becomes of `JournalGuidesRestart` with a second
administrator.

Two theorems without hypotheses are what `CommittingEnds` rests on. `Attends(p, m)` says that `p` works on `m` and is past
the stages a call can leave without having written what ends or carries on a commit (`Refusable`), or that it is about to
run the startup pass; `CommittingIsAttended` holds for any number of overlapping calls because
`OneActiveMigration` lets no other migration refuse the write of the one at work. `Left` counts the stages a call still
has before it, `Nearer` adds the steps within a stage and the rows a release has yet to visit.

*CommandStore.* `IInv` relates a request's place to its row: `ClaimsInv` — a claim that has not run out is the row's
own, so two claims of a key have disjoint windows; `ResultsInv` — a completed row's result belongs to a request that ran
with the row's meaning. The refinement has no hypothesis: the contract's records are the rows,
and what a call deletes is one of the contract's removals (`PruneRemoves`), since a row it leaves expired has `PruneLimit`
deleted ones before it. Counting them needs that the table is finite, which every step keeps (`PresentStep`).

*OfflineQueue.* `DataInv` is the conjunction of the data properties with `LinesInv` (only the stages that carry entries
have any), `Untouched` and `Sending` (what a caller that has not begun, or is between chunks, still owns). `WatchInv`
adds `OneFlush` (the mutex) and `Guarded`: a flush that put nothing back may end without a new timer only if somebody
else watches what was parked meanwhile. It is what makes the timer flag's compare-and-swap correct. `GoesOn` says of each
place a part can be in where the next step may take it; `NothingTwice` makes the places exclusive, so a part that left
its caller, or was settled, never comes back.

*ConcernState.* `Covered` — for ids without a raced removal, the subscribed types are in the queue or with a command
that will read or list them; `FreshRemovals` — the read of a removal that nothing overlapped is exact; `AddsHold`,
`Exact`, `Alone` — the same for additions, for the converse, and that a removal that nothing overlapped is alone.

*DeliveryLedger.* The steps are grouped by what they do to the table: nothing, append a row (`Grows`), move one row along
an allowed transition (`Moves`), attempt that and perhaps lose it (`Tried`), or abandon what is in `sending`
(`Abandons`). A lemma for each shape says what it preserves, so each part of the invariant is proved against these
shapes rather than against twenty actions. The parts of `IInv`: `Fit` — a place in the code has the row, the answer or the
failure that the next statement takes for granted, and rows belong to whom their number says; `OneAtATime` — without a
panic the list of a notification holds at most the row of the call under way, and only calls that ended have rows with a
result; `OneHandler` — one request is between the claim of its key and the completion, and has not sent before its row
is in `sending`; `HandlersKnow` — what a handler knows of its row from its stage: it is in `sending` until the result is
written, was sent once, and has its result, or none, when the answer is stored; `StoredIsAReplays` — a stored status is
of a replay's row, which nobody writes any more but the pass of a restart. `TallyInv` counts: the rows of a
notification with a result are no more than the calls answered so, the call whose result is just being recorded left out
(`EndedWith`). A panic shifts results to other rows and a lost write drops them, but a row gets one only when `Record` moves
that call over to the others, and a row that has one keeps it, so each row needs a call of its own.

*ObservationPipeline.* `CallInv` is about the dispatcher and the notifications: `FreshInv` — a fact that was taken belongs
to somebody who is past offering it, so an offered fact is new; `SourceInv` — the event and the route a trace names were
taken; `BindingsAreOwn`, `RoutesAreOwn` — without a panic the binding at an address belongs to the notification there
(`Placed`: there is one). `PlaceInv` is about the facts: the places are apart (`PlacesInv`) and counted (`CountInv`), and
what a fact rests on is ahead of it in the queue or out of it (`ChainInv`), which is why the order of one queue is enough
for the foreign keys. `WorkInv` relates the goroutines to how far Close is. Each call is shown to offer nothing or one new
fact whose foundations were taken (`Offered`), so what the queue does with it is proved once.

*ConcernLifecycle.* `Phases` is the order of Stop: once `emitChan` is closed the loop has ended, so nobody can start the
fresher's next round; a dispatcher that ended found `eventChan` closed and empty, and only a panic or the closed
`notifyChan` lets one fall. There is at least one dispatcher (`ActorAssumption`: Start launches three or one), else a
closed channel need not be drained. `Accounts` puts every event in one place and adds up what was written of it (in
`notify`, with the reader, being sent, handled), what its goroutine and what its dispatcher has yet to write: never more
than all, and for a small event exactly all while nothing panicked. `Endings` is what the last two waits found. Copies
of an event in a queue are counted as a set of positions, so taking the head is a bijection of positions.
`Sleeping` relates the two halves of the test that precedes the loop's sleep to the list. `LoopGoes`, `FresherGoes`,
`WorkerGoes`, `ReaderGoes` and `StopGoes` say when a goroutine can take a step; TLC confirmed in every reachable state of the
instance of `lifecycle` that each equals ENABLED of that goroutine's actions, and `StopIsNeverStuck` follows the waits of
Stop from there: whoever blocks is blocked by a full channel that has a reader. `Turns(i)` is the distance of an id from
the cursor, around the list; the case of a deleted id left of the cursor is where it would go wrong.

*EnforceGate.* The conditional statements on a row of `ai_decisions` are the argument for `OneCall`: `HolderInv` says that
a task between its claim and its finish is the only one there for its event and release and that the row says how far it
is, and `RowInv` that a row which is absent, queued or running was not called; the claim is then by a task that nobody
else can be beside (`FreeRow`), and `RowStep` treats all statements that change one row at once. `AnswerInv` carries a
drop from the row to the evaluation, `FlightInv`, `ResultInv` and `WaitInv` carry it over a joined flight, since its
owner ends only after it stored the result; rows that say drop are never written again (`SaysKept`), so `DropInv`
keeps what a committed DROP rests on. `ApprovalInv` (what was revoked is not live) turns the transaction's guard into `FinalWord`.
The flights are at most the slots because the map from a flight to its owner is an injection into those inside.

*Only model-checked.* `CommittingEnds`, `DrainsWhenWatched`, `EveryIdIsPolled`, `StopReturns` and `FactsAreSettled` are
liveness under fairness, which the prover does not reach. What each rests on in single states and steps is proved:
`CommittingIsAttended` and `CallsEnd` for the first, `QueueKeepsItsWatch` and `PartsGoForward` for the second,
`NoIdIsSleptOn` and `NobodyIsPassedOver` for the third, `StopIsNeverStuck` for the fourth, `FactsAccounted` for the last.
What is left to TLC is that fairness turns "can go on" and "comes nearer" into "arrives". Every other property of a passing run
is stated by a theorem.

## 6. Disagreements found

| Run | What the code does | What is said |
|---|---|---|
| `migration_stranded` | `releaseHolds` lists rows once (coordinator.go 554); a message held after that stays `held` in a completed migration | MIGRATION_HELD_RECOVERY.md:22: on success the held payload is released to the normal path |
| `migration_late_commit` | a second Commit that read `preflight_ready` early writes `hold_active` after the first recorded its route (462); a restart then takes a committed route back | P3B_CONNECTOR_MIGRATION.md:29: a committed route releases only unreleased holds on the new route |
| `offline_stranded` | a flush that finds the connection gone sets no timer (messenger.go 1853); the drop does not clear `Online`, so the reconnection's lifecycle event does not flush | comments at :1839 and :247 promise that no message stays for good |

Traces the models also have, for which there is no run of their own:

- the hook's hold-failure report, checked while the migration was `committing`, can overwrite one that completed
  meanwhile (migration_repository.go 337-356); in turn a commit's next marker overwrites `hold_persistence_failed`
  (coordinator.go 1085-1087);
- a connector PATCH between `validateCommitTopology` and the `commit_started` write starts a commit off a route that is
  no longer the old one (coordinator.go 444-448);
- of two concurrent releases one marks unknown the row that the other is sending (558-561); the message is still sent once;
- `Recover` has no case for `targets_discovered` (1004): `recovery_required`, which no API call leaves and which blocks
  later migrations, while P3B_CONNECTOR_MIGRATION.md:29 keeps that state for an indeterminate one; the markers
  `route_readback_failed`, `rollback_window_persist_failed`, `hold_persistence_failed`, `route_ambiguous` have no case
  of their own either;
- a lookup does not test `expires_at` and prunes at most 256 rows (idempotency_repository.go 98), so with a larger
  backlog an expired row is still answered, against the comment at :23, "the same contract as idempotency.MemoryStore";
- a full queue evicts its head, which after a put-back need not be the oldest entry (messenger.go 1800), and a message
  parked whole is resent in one request without the splitting of a direct send (1866);
- a removal's stale read takes another group's fresh subscription out of the poll list until the next start
  (stateManager.go 240-247); `RemoveAllByGroupCode` leaves the poll list alone (255-265), and bilibili's own version of it
  is not reached, because `Lsp.RemoveAllByGroup` (module.go 1137) goes through `GetStateManager()`; the sites that wrap a
  removal in a transaction of their own (bilibili, acfun) keep the changed poll list when that transaction rolls back;
- a message with @all that the platform rejects comes back without its elements, so the resend without @all, which the
  comment at notify.go 152 is about, happens only for an answer without error;
- a replay whose completion fails is answered with success and its repeat with "in progress" (replay/service.go 241),
  where FEEDBACK_REPLAY.md 23-25 promises the original answer; one whose read-back fails answers and stores an empty
  record (217), and one whose result could not be written and not read back either stores its row as it was before the
  send, `planned`, while the ledger says `unknown` or `sending` (209-215): no repeat learns more; its sender counts
  every response with an id of zero or more as sent (admin/server.go 147);
- activating another release and then the first again makes the first's approval valid again, where ENFORCE.md says that
  activation invalidates it; `activate` leaves the provider's client as it is, so a decision may be filed under a release
  whose client did not make it (CLASSIFIER_RELEASE.md 3-15);
- two overlapping emergency commands can leave the stored switch and the one in memory different; the transaction
  tests the stored one; a row that Shadow failed for a full queue makes ENFORCE pass that event;
- the goroutine of a large notification that is still writing when `StopAll` closes `notifyChan` ends the process, against
  the comment at registry.go 155, after which nothing may be written;
- a notification whose event was refused inherits the binding that a panic left at its address, of the same type, because
  `BindNotify` without a valid trace returns before it touches the map (observation/recorder.go 599-603): its route and
  delivery are recorded under another event;
- `Schedule` chooses between the closed `stop` and room in the queue at random: a job it queues then is never evaluated
  (shadow/runtime.go 156-160), while `Schedule` answers success;
- `Stop` of a queue whose loop has tested an empty list and not yet begun to wait never returns (emitQueue.go 108, 144).

## 7. Not modelled

- **Of the eight components:** audit entries written beside each migration step, mapping and endpoint checks (refusals
  only); normalisation and canonical form of a fingerprint, `Lookup` and `Prune` without a production caller; list
  refreshes, notices, forward messages, reconnect back-off and the response channels of the WebSocket client; options
  and freshness marks of subscriptions, the site wrappers of removals, errors of `GetConcern`; the listing queries and the
  retention of deliveries, forward messages (module.go 1206-1228, 1489-1547), private and Telegram chats; several routes in
  one evaluation or Shadow job, the strategy path, the policy of a Shadow evaluation, the media cache, `Close` of the enforce
  runtime; pruning of observations, the replacement of the sink;
  several StateManagers, `Update` of a listed element, the start of the goroutines.
- **Pure functions:** votes, rules, normalisation and compatibility views are one pass over short lists; what they decide is a
  choice of the environment in `EnforceGate`.
- **One statement per request:** pairing, audit and secrets keep their state by single conditional statements in a
  database with one connection; what is left is a window each in a login and in a pairing,
  where something slow (a password hash, a network call) stands between a check and the statement that relies on it.
- **Out of reach or without protocol content:** site clients and their generated protocol code, which are most of the
  repository's lines, templates, image pools, adapters' wire formats, dashboard, encryption and hashing, configuration.
  They convert data or do I/O; their effects on shared state are operations of the components above.

## 8. Plan

1. **Observation** — pruning with its cascades under the foreign keys, and the re-entered call's second delivery fact.
2. **Compositions** — `DeliveryLedger` with `OfflineQueue` (a delivery answered "queued" and sent by a flush without a
   hook), the subscription gate of a migration with `ConcernState` (subscription/service.go 123), the clean-up command's
   list with concurrent removals (iCommand.go 1166), `ConcernLifecycle` over the queue of `ConcernState`.
3. **ResponseChannels** of the WebSocket client (wsclient.go 309, 558) under `OfflineQueue`'s adapter call.
4. **Proofs** — a measure for Stop as there is for the calls of a migration (every wait comes nearer to its end), the same
   for the recorder's goroutine and the Shadow queue.
