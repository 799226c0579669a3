------------------------- MODULE ConnectorMigration -------------------------
(***************************************************************************)
(* The durable Connector Migration coordinator                             *)
(* (src/internal/migration/coordinator.go) over the journal and hold rows  *)
(* of src/internal/platformdb/migration_repository.go, with the connector  *)
(* topology it switches (platformdb/domain_repository.go), the restart     *)
(* bootstrap (admin/server.go) and the delivery hook that holds messages   *)
(* (admin/migration_hold.go).                                              *)
(*                                                                         *)
(* The database has one connection, so one SQL statement or transaction is *)
(* one step; everything between two statements can be interleaved with the *)
(* statements of other requests, of the delivery hook, and with a crash.   *)
(*                                                                         *)
(* A coordinator operation is a path through named stages, pc[p]; the      *)
(* stages that take several statements (a journal write, a release of held *)
(* rows) have their own steps, step[p].                                    *)
(***************************************************************************)
EXTENDS Naturals, FiniteSets

CONSTANTS
    Connector,          \* main connectors the administrator can migrate between
    NoConnector,        \* no main connector is enabled
    Spare,              \* the connector EnsureMainConnector creates when there is none
    Migration,          \* migration_id values
    NoMigration,
    OldOf, NewOf,       \* old_connector_id and new_connector_id of a migration
    FirstMain,          \* the enabled main connector of the fresh database
    Delivery,           \* messages that reach the send path
    NoDelivery,
    Request,            \* HTTP requests that can be served at the same time
    Boot,               \* the startup goroutine, which runs Recover
    SenderConfigured,   \* whether migration.Config has a Sender
    MaxCalls,           \* bound: administrator calls of the coordinator
    MaxCrashes,         \* bound: process crashes
    MaxFaults,          \* bound: database errors and messages that PutHold refuses
    MaxDisconnects,     \* bound: client connections dropped while a call runs
    MaxPatches          \* bound: connector PATCH commands that write

ASSUME RouteAssumption ==
    /\ OldOf \in [Migration -> Connector]
    /\ NewOf \in [Migration -> Connector]
    /\ \A m \in Migration : OldOf[m] # NewOf[m]
    /\ FirstMain \in Connector
    /\ Spare \notin Connector /\ NoConnector \notin Connector \cup {Spare}

ASSUME ProcessAssumption ==
    /\ Boot \notin Request
    /\ NoMigration \notin Migration /\ NoDelivery \notin Delivery
    /\ SenderConfigured \in BOOLEAN

ASSUME BoundAssumption ==
    /\ MaxCalls \in Nat /\ MaxCrashes \in Nat
    /\ MaxFaults \in Nat /\ MaxDisconnects \in Nat /\ MaxPatches \in Nat

Proc == Request \cup {Boot}

VARIABLES
    state, marker, window,      \* connector_migrations rows
    main,                       \* the enabled main connector (unique index)
    hold, holdOf,               \* delivery_migration_holds rows
    pc, step, arg,              \* stage, step in the stage, migration of a call
    todo, listed, cur, res,     \* locals of releaseHolds
    dpc, dmig,                  \* the send path of one message
    handed, via,                \* what Sender.Send was given, and for which connector
    calls, crashes, faults, disconnects, patches

journal == <<state, marker, window>>
rows    == <<hold, holdOf>>
control == <<pc, step, arg>>
release == <<todo, listed, cur, res>>
sending == <<dpc, dmig>>
sent    == <<handed, via>>
bounds  == <<calls, crashes, faults, disconnects, patches>>
vars    == <<journal, main, rows, control, release, sending, sent, bounds>>

-----------------------------------------------------------------------------
(* The journal's state machine.                                            *)

Active   == {"draft", "preparing", "preflight_ready", "committing", "recovery_required"}
Terminal == {"completed", "failed", "rolled_back"}
State    == Active \cup Terminal \cup {"absent"}

\* migrationTransitionAllowed
TransitionAllowed(from, to) ==
    \/ from = to
    \/ from = "draft" /\ to \in {"preparing", "failed"}
    \/ from = "preparing" /\ to \in {"preflight_ready", "failed", "recovery_required"}
    \/ from = "preflight_ready" /\ to \in {"committing", "failed", "recovery_required"}
    \/ from = "committing" /\ to \in Terminal \cup {"recovery_required"}
    \/ from = "completed" /\ to \in {"committing", "rolled_back"}
    \/ from = "recovery_required" /\ to \in Terminal \cup {"committing"}

\* A stage that calls UpdateMigration: the state and marker it writes, the
\* stage after success, and the stage after an error.
Write(at, to, mark, ok, err) ==
    [at |-> at, to |-> to, mark |-> mark, ok |-> ok, err |-> err]

JournalStages ==
  { \* Discover, and the Discover that Preflight runs first
    Write("discovered",    "preparing", "targets_discovered", "idle", "idle"),
    Write("pf_discovered", "preparing", "targets_discovered", "pf_validate", "idle"),
    Write("pf_ready", "preflight_ready", "preflight_validated", "idle", "idle"),
    \* Commit
    Write("c_started",  "committing", "commit_started",  "c_hold",   "idle"),
    Write("c_hold",     "committing", "hold_active",     "c_switch", "idle"),
    Write("c_routed",   "committing", "route_committed", "c_window", "idle"),
    Write("c_rebuild_mark", "committing", "projection_rebuild", "c_rebuild", "idle"),
    Write("c_rebuilt",  "committing", "projection_rebuilt", "c_done", "idle"),
    Write("c_done",     "completed",  "completed",       "idle", "idle"),
    Write("c_no_readback", "recovery_required", "route_readback_failed", "idle", "idle"),
    Write("c_no_window",   "recovery_required", "rollback_window_persist_failed", "idle", "idle"),
    Write("c_unreleased",  "recovery_required", "release_incomplete", "idle", "idle"),
    Write("c_stale",       "recovery_required", "projection_rebuild_failed", "idle", "idle"),
    Write("c_old_unreleased", "recovery_required", "old_route_release_incomplete", "idle", "idle"),
    Write("c_old_stale",      "recovery_required", "old_projection_rebuild_failed", "idle", "idle"),
    Write("c_failed",         "failed", "switch_failed", "idle", "idle"),
    \* Rollback
    Write("r_started",   "committing", "rollback_started", "r_switch", "idle"),
    Write("r_rebuild_mark", "committing", "rollback_projection_rebuild", "r_rebuild", "idle"),
    Write("r_rebuilt",   "committing", "rollback_projection_rebuilt", "r_done", "idle"),
    Write("r_done",      "rolled_back", "rolled_back", "idle", "idle"),
    Write("r_no_switch",  "recovery_required", "rollback_switch_failed", "idle", "idle"),
    Write("r_unreleased", "recovery_required", "rollback_release_incomplete", "idle", "idle"),
    Write("r_stale",      "recovery_required", "rollback_projection_rebuild_failed", "idle", "idle"),
    \* Recover
    Write("b_abandon",   "failed", "abandoned_after_restart", "idle", "idle"),
    Write("b_completed", "completed", "completed", "idle", "b_unreleased"),
    Write("b_unreleased", "recovery_required", "release_incomplete", "idle", "idle"),
    Write("b_failed",    "failed", "rolled_back_after_restart", "idle", "b_old_unreleased"),
    Write("b_switch_failed", "failed", "switch_failed", "idle", "b_old_unreleased"),
    Write("b_old_unreleased", "recovery_required", "old_route_release_incomplete", "idle", "idle"),
    Write("b_ambiguous", "recovery_required", "route_ambiguous", "idle", "idle"),
    Write("b_rolled_back", "rolled_back", "rolled_back", "idle", "idle"),
    Write("b_r_unknown", "recovery_required", "rollback_route_unknown", "idle", "idle"),
    Write("b_r_no_switch",  "recovery_required", "rollback_switch_failed", "idle", "idle"),
    Write("b_r_unreleased", "recovery_required", "rollback_release_incomplete", "idle", "idle"),
    Write("b_r_stale", "recovery_required", "rollback_projection_rebuild_failed", "idle", "idle"),
    Write("b_stuck",   "recovery_required", "recovery_required", "idle", "idle") }

Marker == {w.mark : w \in JournalStages}
            \cup {"absent", "draft", "hold_persistence_failed"}

-----------------------------------------------------------------------------
(* The other stages: a release of held rows, a rebuild of the projection   *)
(* or a route switch, each with the stage after success and after failure. *)

Branch(at, ok, err) == [at |-> at, ok |-> ok, err |-> err]

NewRouteReleases ==
  { Branch("c_release", "c_rebuild_mark", "c_unreleased"),
    Branch("b_new_release", "b_new_rebuild", "b_unreleased") }

OldRouteReleases ==
  { Branch("c_old_release", "c_old_rebuild", "c_old_unreleased"),
    Branch("r_release", "r_rebuild_mark", "r_unreleased"),
    Branch("b_before_release", "b_before_rebuild", "b_old_unreleased"),
    Branch("b_old_release", "b_old_rebuild", "b_old_unreleased"),
    Branch("b_r_release", "b_r_rebuild", "b_r_unreleased") }

ReleaseStages == NewRouteReleases \cup OldRouteReleases

RebuildStages ==
  { Branch("c_rebuild", "c_rebuilt", "c_stale"),
    Branch("c_old_rebuild", "c_failed", "c_old_stale"),
    Branch("r_rebuild", "r_rebuilt", "r_stale"),
    Branch("b_new_rebuild", "b_completed", "b_unreleased"),
    Branch("b_before_rebuild", "b_failed", "b_old_unreleased"),
    Branch("b_old_rebuild", "b_switch_failed", "b_old_unreleased"),
    Branch("b_r_rebuild", "b_rolled_back", "b_r_stale") }

ForwardSwitches == { Branch("c_switch", "c_readback", "c_old_release") }

BackwardSwitches ==
  { Branch("r_switch", "r_release", "r_no_switch"),
    Branch("b_before_switch", "b_before_release", "b_old_unreleased"),
    Branch("b_r_switch", "b_r_release", "b_r_no_switch") }

At(stages) == {s.at : s \in stages}

OtherStages == { "idle", "pf_validate", "c_validate", "c_readback", "c_window",
                 "r_validate", "boot", "b_new", "b_before", "b_old", "b_r_route" }

Stage == At(JournalStages) \cup At(ReleaseStages) \cup At(RebuildStages)
           \cup At(ForwardSwitches) \cup At(BackwardSwitches) \cup OtherStages

FirstStep(stage) == CASE stage \in At(JournalStages) -> "check"
                      [] stage \in At(ReleaseStages) -> "list"
                      [] OTHER -> "run"

Step == {"run", "check", "write", "list", "mark", "claim", "send", "finish"}

Goto(p, stage) ==
    /\ pc' = [pc EXCEPT ![p] = stage]
    /\ step' = [step EXCEPT ![p] = FirstStep(stage)]
    /\ arg' = [arg EXCEPT ![p] = IF stage = "idle" THEN NoMigration ELSE @]

NextStep(p, s) == /\ step' = [step EXCEPT ![p] = s]
                  /\ UNCHANGED <<pc, arg>>

Fault   == /\ faults < MaxFaults /\ faults' = faults + 1
           /\ UNCHANGED <<calls, crashes, disconnects, patches>>
NoFault == UNCHANGED bounds

Up == pc[Boot] = "idle"

OldRoute(p) == OldOf[arg[p]]
NewRoute(p) == NewOf[arg[p]]

-----------------------------------------------------------------------------
(* The administrator's calls.  A call the first read refuses changes        *)
(* nothing and is left out.                                                 *)

Unfinished == {m \in Migration : state[m] \in Active}

Create(m) ==
    /\ Up /\ state[m] = "absent" /\ Unfinished = {}
    /\ state' = [state EXCEPT ![m] = "draft"]
    /\ marker' = [marker EXCEPT ![m] = "draft"]
    /\ UNCHANGED <<window, main, rows, control, release, sending, sent, bounds>>

Call(p, m, stage) ==
    /\ Up /\ pc[p] = "idle" /\ calls < MaxCalls
    /\ calls' = calls + 1
    /\ pc' = [pc EXCEPT ![p] = stage]
    /\ step' = [step EXCEPT ![p] = FirstStep(stage)]
    /\ arg' = [arg EXCEPT ![p] = m]
    /\ UNCHANGED <<journal, main, rows, release, sending, sent,
                   crashes, faults, disconnects, patches>>

Discover(p, m) == state[m] = "draft" /\ Call(p, m, "discovered")

Preflight(p, m) ==
    \/ state[m] = "draft" /\ Call(p, m, "pf_discovered")
    \/ state[m] = "preparing" /\ Call(p, m, "pf_validate")

Commit(p, m) == state[m] = "preflight_ready" /\ Call(p, m, "c_validate")

\* Markers after which the new route is known to be committed.
NewRouteMarkers == { "route_committed", "release_incomplete", "projection_rebuild",
                     "projection_rebuild_failed", "projection_rebuilt" }

RollbackMarkerAllowed(m) ==
    \/ state[m] = "completed" /\ marker[m] \in {"completed", "projection_rebuilt"}
    \/ state[m] = "recovery_required" /\ marker[m] \in NewRouteMarkers

Rollback(p, m) == RollbackMarkerAllowed(m) /\ Call(p, m, "r_validate")

OnlyControl == UNCHANGED <<journal, main, rows, release, sending, sent>>

\* The reads before the first write.  Mappings, endpoints, the connector test
\* and the rollback deadline may refuse the call; the enabled main must be the
\* one the call starts from.
Validate(p) ==
    /\ OnlyControl /\ NoFault
    /\ \/ pc[p] = "pf_validate" /\ main = OldRoute(p) /\ Goto(p, "pf_ready")
       \/ pc[p] = "c_validate" /\ main = OldRoute(p) /\ Goto(p, "c_started")
       \/ pc[p] = "r_validate" /\ main = NewRoute(p) /\ Goto(p, "r_started")
       \/ pc[p] \in {"pf_validate", "c_validate", "r_validate"} /\ Goto(p, "idle")

-----------------------------------------------------------------------------
(* UpdateMigration: a SELECT of the current state, the transition check,    *)
(* then an unconditional UPDATE by id.                                      *)

CheckTransition(p) ==
    \E w \in JournalStages :
        /\ pc[p] = w.at /\ step[p] = "check"
        /\ \/ TransitionAllowed(state[arg[p]], w.to) /\ NextStep(p, "write") /\ NoFault
           \/ ~TransitionAllowed(state[arg[p]], w.to) /\ Goto(p, w.err) /\ NoFault
           \/ Fault /\ Goto(p, w.err)
        /\ OnlyControl

\* Mutant: the unique index is missing.
NoIndex(m, to) == TRUE

\* idx_connector_migrations_one_active: one row in an active state
IndexAllows(m, to) == to \in Active => Unfinished \subseteq {m}

SetJournal(m, to, mark) ==
    /\ state' = [state EXCEPT ![m] = to]
    /\ marker' = [marker EXCEPT ![m] = mark]
    /\ UNCHANGED window

WriteTransition(p) ==
    \E w \in JournalStages :
        /\ pc[p] = w.at /\ step[p] = "write"
        /\ \/ /\ IndexAllows(arg[p], w.to)
              /\ SetJournal(arg[p], w.to, w.mark) /\ Goto(p, w.ok) /\ NoFault
           \/ ~IndexAllows(arg[p], w.to) /\ UNCHANGED journal /\ Goto(p, w.err) /\ NoFault
           \/ Fault /\ UNCHANGED journal /\ Goto(p, w.err)
        /\ UNCHANGED <<main, rows, release, sending, sent>>

-----------------------------------------------------------------------------
(* Route switch, read-back, rollback window and projection rebuild.         *)

\* SwitchMainConnector(from, to): one transaction that disables from and
\* enables to.  The unique index on the enabled main refuses it when a third
\* connector is the enabled one.
SwitchMainConnector(from, to) == main \in {from, to, NoConnector} /\ main' = to

SwitchRoute(p) ==
    /\ UNCHANGED <<journal, rows, release, sending, sent>>
    /\ \E b \in ForwardSwitches \cup BackwardSwitches :
        LET from == IF b \in ForwardSwitches THEN OldRoute(p) ELSE NewRoute(p)
            to   == IF b \in ForwardSwitches THEN NewRoute(p) ELSE OldRoute(p)
        IN  /\ pc[p] = b.at
            /\ \/ SwitchMainConnector(from, to) /\ Goto(p, b.ok) /\ NoFault
               \/ main \notin {from, to, NoConnector} /\ UNCHANGED main /\ Goto(p, b.err) /\ NoFault
               \/ Fault /\ UNCHANGED main /\ Goto(p, b.err)

ReadBack(p) ==
    /\ pc[p] = "c_readback" /\ OnlyControl
    /\ \/ main = NewRoute(p) /\ Goto(p, "c_routed") /\ NoFault
       \/ main # NewRoute(p) /\ Goto(p, "c_no_readback") /\ NoFault
       \/ Fault /\ Goto(p, "c_no_readback")

StoreWindow(m) == window' = [window EXCEPT ![m] = TRUE]

SetRollbackExpiry(p) ==
    /\ pc[p] = "c_window"
    /\ \/ StoreWindow(arg[p]) /\ Goto(p, "c_release") /\ NoFault
       \/ Fault /\ UNCHANGED window /\ Goto(p, "c_no_window")
    /\ UNCHANGED <<state, marker, main, rows, release, sending, sent>>

\* RebuildProjection calls EnsureMainConnector, which creates an enabled
\* OneBot main when no main connector is enabled.
EnsureMainConnector == main' = IF main = NoConnector THEN Spare ELSE main

RebuildProjection(p) ==
    \E b \in RebuildStages :
        /\ pc[p] = b.at
        /\ \/ EnsureMainConnector /\ Goto(p, b.ok) /\ NoFault
           \/ Fault /\ UNCHANGED main /\ Goto(p, b.err)
        /\ UNCHANGED <<journal, rows, release, sending, sent>>

-----------------------------------------------------------------------------
(* releaseHolds.                                                            *)

\* Mutant: every release goes to the new connector.
AlwaysNew(p) == NewRoute(p)

\* The connector the caller passes to releaseHolds and releaseTarget resolves.
Destination(p) == IF pc[p] \in At(NewRouteReleases) THEN NewRoute(p) ELSE OldRoute(p)

Leave(p, stage) ==
    /\ Goto(p, stage)
    /\ todo' = [todo EXCEPT ![p] = {}]
    /\ listed' = [listed EXCEPT ![p] = FALSE]
    /\ cur' = [cur EXCEPT ![p] = NoDelivery]
    /\ res' = [res EXCEPT ![p] = "none"]

RowsOf(m) == {d \in Delivery : hold[d] # "none" /\ holdOf[d] = m}

ListHolds(p, b) ==
    /\ step[p] = "list"
    /\ \/ /\ todo' = [todo EXCEPT ![p] = {d \in RowsOf(arg[p]) : hold[d] \in {"held", "failed"}}]
          /\ listed' = [listed EXCEPT ![p] = RowsOf(arg[p]) # {}]
          /\ NextStep(p, "mark") /\ UNCHANGED <<cur, res>> /\ NoFault
       \/ Fault /\ Leave(p, b.err)
    /\ UNCHANGED <<journal, main, rows, sending, sent>>

\* Mutant: held rows are closed as well.
AnyUndecided(p, d) == holdOf[d] = arg[p] /\ hold[d] \in {"held", "releasing"}

Abandoned(p, d) == holdOf[d] = arg[p] /\ hold[d] = "releasing"

SenderUnavailable(p) == listed[p] /\ ~SenderConfigured

MarkReleasingUnknown(p, b) ==
    /\ step[p] = "mark"
    /\ \/ /\ hold' = [d \in Delivery |-> IF Abandoned(p, d) THEN "unknown" ELSE hold[d]]
          /\ IF SenderUnavailable(p)
             THEN Leave(p, b.err)
             ELSE NextStep(p, "claim") /\ UNCHANGED release
          /\ NoFault
       \/ Fault /\ UNCHANGED hold /\ Leave(p, b.err)
    /\ UNCHANGED <<journal, main, holdOf, sending, sent>>

\* Mutant: a failed row is claimed again.
Retryable(d) == hold[d] \in {"held", "failed"}

Claimable(d) == hold[d] = "held"
WriteClaim(d) == hold' = [hold EXCEPT ![d] = "releasing"]

\* ClaimHold takes a held row only.  Its error, a row in another state or a
\* failed statement (the UPDATE, or the SELECT after it), skips the row.
\* Rows come in created_at order, whole seconds, ties by random id: any order.
ClaimHold(p, b) ==
    /\ step[p] = "claim"
    /\ \/ todo[p] = {} /\ Leave(p, b.ok) /\ UNCHANGED hold /\ NoFault
       \/ \E d \in todo[p] :
            /\ todo' = [todo EXCEPT ![p] = @ \ {d}]
            /\ UNCHANGED <<listed, res>>
            /\ \/ /\ Claimable(d) /\ WriteClaim(d)
                  /\ cur' = [cur EXCEPT ![p] = d] /\ NextStep(p, "send") /\ NoFault
               \/ ~Claimable(d) /\ UNCHANGED <<hold, cur, control>> /\ NoFault
               \/ /\ Claimable(d) /\ Fault /\ UNCHANGED <<cur, control>>
                  /\ (UNCHANGED hold \/ WriteClaim(d))
    /\ UNCHANGED <<journal, main, holdOf, sending, sent>>

\* sent stands for "sent" and "queued"; failed for an error, "not_sent" and
\* "rejected".  releaseTarget refuses, before any send, a target that has been
\* deleted or is no longer resolved, and fails on a database error.  A row from
\* before the payload was stored is invalid and is not sent either.
Send(p) ==
    /\ step[p] = "send"
    /\ \/ /\ handed' = [handed EXCEPT ![cur[p]] = @ + 1]
          /\ via' = [via EXCEPT ![cur[p]] = Destination(p)]
          /\ \E r \in {"sent", "unknown", "failed"} : res' = [res EXCEPT ![p] = r]
          /\ NoFault
       \/ UNCHANGED sent /\ NoFault
          /\ \E r \in {"failed", "invalid"} : res' = [res EXCEPT ![p] = r]
    /\ NextStep(p, "finish")
    /\ UNCHANGED <<journal, main, rows, todo, listed, cur, sending>>

\* Mutant: the send result is stored as the row state.
RawResult(r) == r

RowResult(r) == CASE r = "sent"    -> "released"
                  [] r = "invalid" -> "unknown"
                  [] OTHER         -> r

\* FinishHold writes the outcome only over "releasing"; it reports an error
\* when the row has meanwhile got another outcome.
FinishHold(p, b) ==
    LET d == cur[p]
        to == RowResult(res[p])
        NextRow == /\ NextStep(p, "claim")
                   /\ cur' = [cur EXCEPT ![p] = NoDelivery]
                   /\ res' = [res EXCEPT ![p] = "none"]
                   /\ UNCHANGED <<todo, listed>>
    IN  /\ step[p] = "finish"
        /\ \/ /\ hold' = [hold EXCEPT ![d] = IF @ = "releasing" THEN to ELSE @]
              /\ NoFault
              /\ IF \/ res[p] \in {"failed", "invalid"}
                    \/ res[p] = "sent" /\ hold[d] \notin {"releasing", to}
                 THEN Leave(p, b.err) ELSE NextRow
           \/ /\ Fault /\ UNCHANGED hold
              /\ IF res[p] = "unknown" THEN NextRow ELSE Leave(p, b.err)
        /\ UNCHANGED <<journal, main, holdOf, sending, sent>>

ReleaseHolds(p) ==
    \E b \in ReleaseStages :
        /\ pc[p] = b.at
        /\ \/ ListHolds(p, b) \/ MarkReleasingUnknown(p, b) \/ ClaimHold(p, b)
           \/ Send(p) \/ FinishHold(p, b)

-----------------------------------------------------------------------------
(* Recover, the synchronous startup pass: one stage per marker group.  Its  *)
(* loop runs over one migration at most (OneActiveMigration).               *)

\* Mutant: a recorded commit is treated like one that had not switched.
BeforeRouteMarkersLate == { "commit_started", "hold_active", "preflight_validated",
                            "route_committed" }
BeforeRouteMarkers == { "commit_started", "hold_active", "preflight_validated" }

OldRouteMarkers == { "old_route_release_incomplete", "old_projection_rebuild_failed" }

\* Mutant: a rollback that had only begun is finished without its switch.
RollbackRebuildMarkersEarly ==
    { "rollback_started", "rollback_projection_rebuild",
      "rollback_projection_rebuild_failed", "rollback_projection_rebuilt" }
RollbackRebuildMarkers ==
    { "rollback_projection_rebuild", "rollback_projection_rebuild_failed",
      "rollback_projection_rebuilt" }

RollbackRouteMarkers == { "rollback_started", "rollback_release_incomplete" }

RecoverStage(mark) ==
    CASE mark = "draft" -> "b_abandon"
      [] mark \in BeforeRouteMarkers -> "b_before"
      [] mark \in NewRouteMarkers -> "b_new"
      [] mark \in OldRouteMarkers -> "b_old"
      [] mark \in RollbackRebuildMarkers -> "b_r_rebuild"
      [] mark \in RollbackRouteMarkers -> "b_r_route"
      [] OTHER -> "b_stuck"

\* Mutant: the startup query forgets a state.
ResumableWizard == {m \in Migration : state[m] \in Active \ {"committing"}}

\* UnfinishedMigrations
Resumable == {m \in Migration : state[m] \in Active}

Recover ==
    /\ pc[Boot] = "boot"
    /\ \/ Resumable = {} /\ Goto(Boot, "idle")
       \/ \E m \in Resumable :
            LET stage == RecoverStage(marker[m])
            IN  /\ pc' = [pc EXCEPT ![Boot] = stage]
                /\ step' = [step EXCEPT ![Boot] = FirstStep(stage)]
                /\ arg' = [arg EXCEPT ![Boot] = m]
    /\ OnlyControl /\ NoFault

\* completeNewRouteRecovery up to its release
CompleteNewRoute(p) ==
    /\ pc[p] = "b_new"
    /\ \/ /\ main = NewRoute(p) /\ NoFault
          /\ StoreWindow(arg[p])
          /\ Goto(p, "b_new_release")
       \/ main # NewRoute(p) /\ NoFault /\ UNCHANGED window /\ Goto(p, "b_unreleased")
       \/ Fault /\ UNCHANGED window /\ Goto(p, "b_unreleased")
    /\ UNCHANGED <<state, marker, main, rows, release, sending, sent>>

\* The topology reads of recoverBeforeRouteCommit, completeOldRouteFailure
\* and the rollback branch.  Only an unreadable topology is an error.
InspectRoute(p) ==
    /\ OnlyControl
    /\ \/ /\ pc[p] = "b_before"
          /\ \/ NoFault /\ Goto(p, CASE main = OldRoute(p) -> "b_before_release"
                                     [] main = NewRoute(p) -> "b_before_switch"
                                     [] OTHER -> "b_ambiguous")
             \/ Fault /\ Goto(p, "b_old_unreleased")
       \/ /\ pc[p] = "b_old"
          /\ \/ NoFault /\ Goto(p, IF main = OldRoute(p) THEN "b_old_release"
                                                         ELSE "b_old_unreleased")
             \/ Fault /\ Goto(p, "b_old_unreleased")
       \/ /\ pc[p] = "b_r_route"
          /\ \/ NoFault /\ Goto(p, CASE main = OldRoute(p) -> "b_r_release"
                                     [] main = NewRoute(p) -> "b_r_switch"
                                     [] OTHER -> "b_r_unknown")
             \/ Fault /\ Goto(p, "b_r_unknown")

ProcStep(p) ==
    \/ Validate(p) \/ CheckTransition(p) \/ WriteTransition(p)
    \/ SwitchRoute(p) \/ ReadBack(p) \/ SetRollbackExpiry(p)
    \/ RebuildProjection(p) \/ ReleaseHolds(p)
    \/ CompleteNewRoute(p) \/ InspectRoute(p)

-----------------------------------------------------------------------------
(* The send path of one message to a group that a committing migration may  *)
(* own: the hook's eligibility read, the durable hold, the direct send.     *)

DeliveryState == {"idle", "hold", "report", "report_write", "held", "direct", "refused"}

SetDelivery(d, s, m) == /\ dpc' = [dpc EXCEPT ![d] = s]
                        /\ dmig' = [dmig EXCEPT ![d] = m]

NotDelivery == UNCHANGED <<main, window, control, release, sent>>

\* legacyMigrationHolder.current.  The affected message that cannot be held
\* (no route trace, a segment the snapshot cannot represent) is not sent.
HookCurrent(d) ==
    /\ Up /\ dpc[d] = "idle" /\ NotDelivery /\ UNCHANGED <<state, marker, rows>>
    /\ \/ /\ \A m \in Unfinished : state[m] # "committing"
          /\ SetDelivery(d, "direct", NoMigration) /\ NoFault
       \/ \E m \in Unfinished :
            /\ state[m] = "committing" /\ NoFault
            /\ \/ SetDelivery(d, "hold", m)
               \/ SetDelivery(d, "refused", NoMigration)
       \/ Fault /\ SetDelivery(d, "refused", NoMigration)

\* TryHoldForTarget, Hold and PutHold.  PutHold repeats every check of the
\* reads before it in its own transaction, so the last one decides.  A target
\* that is no longer resolved is not affected either.  Any other error, a target
\* that is gone and a payload that PutHold refuses included, counts as a fault.
TryHoldForTarget(d) ==
    /\ dpc[d] = "hold" /\ NotDelivery /\ UNCHANGED <<state, marker>>
    /\ \/ /\ state[dmig[d]] = "committing" /\ NoFault
          /\ hold' = [hold EXCEPT ![d] = "held"]
          /\ holdOf' = [holdOf EXCEPT ![d] = dmig[d]]
          /\ SetDelivery(d, "held", NoMigration)
       \/ NoFault /\ UNCHANGED rows /\ SetDelivery(d, "direct", NoMigration)
       \/ Fault /\ UNCHANGED rows /\ SetDelivery(d, "report", dmig[d])

\* UpdateMigration(recovery_required, "hold_persistence_failed"), as two statements
ReportHoldFailure(d) ==
    /\ NotDelivery /\ UNCHANGED rows /\ NoFault
    /\ \/ /\ dpc[d] = "report" /\ UNCHANGED <<state, marker>>
          /\ IF TransitionAllowed(state[dmig[d]], "recovery_required")
             THEN SetDelivery(d, "report_write", dmig[d])
             ELSE SetDelivery(d, "refused", NoMigration)
       \/ /\ dpc[d] = "report_write"
          /\ IF IndexAllows(dmig[d], "recovery_required")
             THEN SetJournal(dmig[d], "recovery_required", "hold_persistence_failed")
             ELSE UNCHANGED <<state, marker>>
          /\ SetDelivery(d, "refused", NoMigration)

Deliver(d) == HookCurrent(d) \/ TryHoldForTarget(d) \/ ReportHoldFailure(d)

-----------------------------------------------------------------------------
(* The environment.                                                         *)

\* PATCH /connectors/{id}: enabled is what the request says or what an earlier
\* read returned, so any value; the unique index refuses a second main.
PatchConnector(c, on) ==
    /\ Up /\ patches < MaxPatches /\ patches' = patches + 1
    /\ on => main \in {c, NoConnector}
    /\ main' = IF on THEN c ELSE IF main = c THEN NoConnector ELSE main
    /\ UNCHANGED <<journal, rows, control, release, sending, sent,
                   calls, crashes, faults, disconnects>>

\* The request context is cancelled: every later statement of the call fails.
Disconnect(p) ==
    /\ pc[p] # "idle" /\ disconnects < MaxDisconnects
    /\ disconnects' = disconnects + 1 /\ Leave(p, "idle")
    /\ UNCHANGED <<journal, main, rows, sending, sent, calls, crashes, faults, patches>>

Crash ==
    /\ crashes < MaxCrashes /\ crashes' = crashes + 1
    /\ pc' = [p \in Proc |-> IF p = Boot THEN "boot" ELSE "idle"]
    /\ step' = [p \in Proc |-> "run"]
    /\ arg' = [p \in Proc |-> NoMigration]
    /\ todo' = [p \in Proc |-> {}] /\ listed' = [p \in Proc |-> FALSE]
    /\ cur' = [p \in Proc |-> NoDelivery] /\ res' = [p \in Proc |-> "none"]
    /\ dpc' = [d \in Delivery |->
                 IF dpc[d] \in {"hold", "report", "report_write"} THEN "refused" ELSE dpc[d]]
    /\ dmig' = [d \in Delivery |-> NoMigration]
    /\ UNCHANGED <<journal, main, rows, sent, calls, faults, disconnects, patches>>

Init ==
    /\ state = [m \in Migration |-> "absent"] /\ marker = [m \in Migration |-> "absent"]
    /\ window = [m \in Migration |-> FALSE]
    /\ main = FirstMain
    /\ hold = [d \in Delivery |-> "none"] /\ holdOf = [d \in Delivery |-> NoMigration]
    /\ pc = [p \in Proc |-> IF p = Boot THEN "boot" ELSE "idle"]
    /\ step = [p \in Proc |-> "run"] /\ arg = [p \in Proc |-> NoMigration]
    /\ todo = [p \in Proc |-> {}] /\ listed = [p \in Proc |-> FALSE]
    /\ cur = [p \in Proc |-> NoDelivery] /\ res = [p \in Proc |-> "none"]
    /\ dpc = [d \in Delivery |-> "idle"] /\ dmig = [d \in Delivery |-> NoMigration]
    /\ handed = [d \in Delivery |-> 0] /\ via = [d \in Delivery |-> NoConnector]
    /\ calls = 0 /\ crashes = 0 /\ faults = 0 /\ disconnects = 0 /\ patches = 0

Next ==
    \/ \E m \in Migration : Create(m)
    \/ \E p \in Request, m \in Migration :
          Discover(p, m) \/ Preflight(p, m) \/ Commit(p, m) \/ Rollback(p, m)
    \/ \E p \in Request : Disconnect(p)
    \/ \E p \in Proc : ProcStep(p)
    \/ Recover
    \/ \E d \in Delivery : Deliver(d)
    \/ \E c \in Connector, on \in BOOLEAN : PatchConnector(c, on)
    \/ Crash

Spec == Init /\ [][Next]_vars

\* Requests, the startup pass and the send path are goroutines that run until
\* they return; administrators, crashes and faults owe nothing.
Fairness == /\ \A p \in Proc : WF_vars(ProcStep(p))
            /\ WF_vars(Recover)
            /\ \A d \in Delivery : WF_vars(TryHoldForTarget(d) \/ ReportHoldFailure(d))

FairSpec == Spec /\ Fairness

-----------------------------------------------------------------------------
(* What the coordinator must guarantee.                                     *)

\* Every variable keeps its type (the rows' CHECK constraints, the stages).
TypeOK ==
    /\ state \in [Migration -> State] /\ marker \in [Migration -> Marker]
    /\ window \in [Migration -> BOOLEAN]
    /\ main \in Connector \cup {Spare, NoConnector}
    /\ hold \in [Delivery -> {"none", "held", "releasing", "released", "unknown", "failed"}]
    /\ holdOf \in [Delivery -> Migration \cup {NoMigration}]
    /\ pc \in [Proc -> Stage] /\ step \in [Proc -> Step]
    /\ arg \in [Proc -> Migration \cup {NoMigration}]
    /\ todo \in [Proc -> SUBSET Delivery] /\ listed \in [Proc -> BOOLEAN]
    /\ cur \in [Proc -> Delivery \cup {NoDelivery}]
    /\ res \in [Proc -> {"none", "sent", "unknown", "failed", "invalid"}]
    /\ dpc \in [Delivery -> DeliveryState]
    /\ dmig \in [Delivery -> Migration \cup {NoMigration}]
    /\ handed \in [Delivery -> Nat]
    /\ via \in [Delivery -> Connector \cup {NoConnector}]
    /\ calls \in Nat /\ crashes \in Nat /\ faults \in Nat
    /\ disconnects \in Nat /\ patches \in Nat

\* A message is handed to a sender at most once in all: either the send path
\* sends it directly, or it is held and one release hands it over, whatever
\* commits, rollbacks, restarts and faults run over the same rows.
NoDuplicateDelivery ==
    \A d \in Delivery : handed[d] + (IF dpc[d] = "direct" THEN 1 ELSE 0) <= 1

\* At most one migration is unfinished: what Recover, ActiveMigration and the
\* delivery hook rely on, although a completed migration can become active again.
OneActiveMigration ==
    \A m, n \in Migration : state[m] \in Active /\ state[n] \in Active => m = n

\* A completed migration has its rollback deadline recorded, on the path that
\* commits and on the path that a restart resumes.
CompletedHasWindow == \A m \in Migration : state[m] = "completed" => window[m]

\* A finished migration leaves the route it reports: the new connector after
\* completion, the old one after a failure or a rollback.
TerminalRoute ==
    \A m \in Migration :
        /\ state[m] = "completed" => main = NewOf[m]
        /\ state[m] \in {"failed", "rolled_back"} => main = OldOf[m]

\* A finished migration has no row whose send is still undecided.
TerminalRowsDecided ==
    \A m \in Migration : state[m] \in Terminal =>
        \A d \in RowsOf(m) : hold[d] # "releasing"

\* What a finished migration leaves behind agrees with its state: the route, its
\* rows and, when it was completed, the deadline for a rollback.
TerminalSettled == TerminalRoute /\ TerminalRowsDecided /\ CompletedHasWindow

\* A held message is handed to the connector that is the enabled main then.
SendsFollowRoute ==
    [][\A d \in Delivery : handed'[d] # handed[d] => via'[d] = main]_vars

\* Recover returns only when every migration is finished or waits for the
\* administrator in recovery_required.
RecoverClassifies ==
    [][pc[Boot] # "idle" /\ pc'[Boot] = "idle" =>
         \A m \in Migration : state'[m] \in Terminal \cup {"recovery_required", "absent"}]_vars

\* Without faults a committing migration does not stay committing, through
\* crashes and restarts, unless a client dropped its connection while its
\* request was served: that alone may leave it committing.
CommittingEnds ==
    \A m \in Migration :
        (state[m] = "committing" /\ disconnects = 0)
            ~> (state[m] # "committing" \/ disconnects > 0)

\* Without a sender, the wiring of this build, no release loses or closes a
\* held message: it stays held across commits, rollbacks and restarts.
HeldStaysWithoutSender ==
    [][\A d \in Delivery : hold[d] = "held" => hold'[d] = "held"]_vars

RollbackMarkers == RollbackRebuildMarkers \cup RollbackRouteMarkers

\* The route only moves under a journal record that tells a restart which way
\* it was moving: a marker of the commit before its read-back, or of a rollback.
SwitchIsJournalled ==
    [][main' # main => \E m \in Unfinished :
         \/ main' = NewOf[m] /\ marker[m] = "hold_active"
         \/ main' = OldOf[m] /\ marker[m] \in RollbackMarkers \cup BeforeRouteMarkers]_vars

\* A restart never takes a route back whose commit was recorded (its rollback
\* window is set), unless a rollback of it had begun.
RestartKeepsCommittedRoute ==
    [][\A m \in Migration :
         ~Up /\ window[m] /\ main = NewOf[m] /\ main' = OldOf[m] => marker[m] \in RollbackMarkers]_vars

\* With one administrator at a time the journal is all a restart needs: no switch
\* goes unrecorded, Recover takes back only what was not recorded, and it leaves
\* no migration half done.
JournalGuidesRestart == SwitchIsJournalled /\ RestartKeepsCommittedRoute /\ RecoverClassifies

-----------------------------------------------------------------------------
(* What the documentation says and the code does not do; checked by a run    *)
(* that TLC must refute.                                                      *)

\* A finished migration has released every message it held
\* (docs/architecture/MIGRATION_HELD_RECOVERY.md, release rules 1 and 2).
FinishedReleasesHolds ==
    \A m \in Migration : state[m] \in Terminal => \A d \in RowsOf(m) : hold[d] # "held"

-----------------------------------------------------------------------------
(* The rows implement the ledger of HoldLedger: the permit of a message is   *)
(* out while a release is about to call Send for it.                         *)

Permit == [d \in Delivery |->
             IF \E p \in Proc : step[p] = "send" /\ cur[p] = d THEN "out"
             ELSE IF hold[d] \in {"none", "held"} THEN "unissued" ELSE "spent"]

Ledger == INSTANCE HoldLedger WITH permit <- Permit

\* Every step of the coordinator is a step of the ledger or leaves it alone.
ImplementsLedger == Ledger!Spec
=============================================================================
