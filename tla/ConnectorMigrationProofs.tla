---------------------- MODULE ConnectorMigrationProofs ----------------------
(***************************************************************************)
(* What holds of the migration coordinator for every set of connectors,    *)
(* migrations, messages and concurrent requests, and every bound on calls, *)
(* crashes, faults, disconnects and patches.                               *)
(***************************************************************************)
EXTENDS ConnectorMigration, TLAPS

-----------------------------------------------------------------------------
(* The tables of stages are closed: every stage a table leads to is a stage. *)

JournalNames ==
  { "discovered", "pf_discovered", "pf_ready", "c_started", "c_hold", "c_routed",
    "c_rebuild_mark", "c_rebuilt", "c_done", "c_no_readback", "c_no_window", "c_unreleased",
    "c_stale", "c_old_unreleased", "c_old_stale", "c_failed", "r_started", "r_rebuild_mark",
    "r_rebuilt", "r_done", "r_no_switch", "r_unreleased", "r_stale", "b_abandon", "b_completed",
    "b_unreleased", "b_failed", "b_switch_failed", "b_old_unreleased", "b_ambiguous",
    "b_rolled_back", "b_r_unknown", "b_r_no_switch", "b_r_unreleased", "b_r_stale", "b_stuck" }

ReleaseNames == { "c_release", "b_new_release", "c_old_release", "r_release",
                  "b_before_release", "b_old_release", "b_r_release" }

RebuildNames == { "c_rebuild", "c_old_rebuild", "r_rebuild", "b_new_rebuild",
                  "b_before_rebuild", "b_old_rebuild", "b_r_rebuild" }

SwitchNames == { "c_switch", "r_switch", "b_before_switch", "b_r_switch" }

Branches == ReleaseStages \cup RebuildStages \cup ForwardSwitches \cup BackwardSwitches

LEMMA JournalStageNames == At(JournalStages) = JournalNames
  BY DEF At, JournalStages, Write, JournalNames

LEMMA ReleaseStageNames == At(ReleaseStages) = ReleaseNames
  BY DEF At, ReleaseStages, NewRouteReleases, OldRouteReleases, Branch, ReleaseNames

LEMMA StageNames ==
    Stage = JournalNames \cup ReleaseNames \cup RebuildNames \cup SwitchNames \cup OtherStages
<1>1. At(RebuildStages) = RebuildNames
  BY DEF At, RebuildStages, Branch, RebuildNames
<1>2. At(ForwardSwitches) \cup At(BackwardSwitches) = SwitchNames
  BY DEF At, ForwardSwitches, BackwardSwitches, Branch, SwitchNames
<1> QED
  BY JournalStageNames, ReleaseStageNames, <1>1, <1>2 DEF Stage

LEMMA JournalTargets ==
    \A w \in JournalStages :
        /\ w.ok \in Stage /\ w.err \in Stage /\ w.ok # "boot" /\ w.err # "boot"
        /\ w.at \notin {"idle", "boot"}
        /\ w.to \in State /\ w.mark \in Marker
<1>1. \A w \in JournalStages : w.mark \in Marker
  BY DEF Marker
<1>2. \A w \in JournalStages : w.to \in State
  BY DEF JournalStages, Write, State, Active, Terminal
<1>3. \A w \in JournalStages : w.ok \in JournalNames \cup ReleaseNames \cup RebuildNames \cup SwitchNames \cup {"idle", "c_window", "pf_validate"}
  BY DEF JournalStages, Write, JournalNames, ReleaseNames, RebuildNames, SwitchNames
<1>4. \A w \in JournalStages : w.err \in JournalNames \cup {"idle"}
  BY DEF JournalStages, Write, JournalNames
<1>5. \A w \in JournalStages : w.at \in JournalNames
  BY DEF JournalStages, Write, JournalNames
<1> QED
  BY <1>1, <1>2, <1>3, <1>4, <1>5, StageNames
  DEF JournalNames, ReleaseNames, RebuildNames, SwitchNames, OtherStages

LEMMA BranchTargets ==
    \A b \in Branches :
        /\ b.ok \in Stage /\ b.err \in Stage
        /\ b.ok \notin {"idle", "boot"} /\ b.err \notin {"idle", "boot"}
        /\ b.at \notin {"idle", "boot"}
<1>1. \A b \in Branches :
        /\ b.ok \in JournalNames \cup ReleaseNames \cup RebuildNames \cup {"c_readback"}
        /\ b.err \in JournalNames \cup {"c_old_release"}
        /\ b.at \in ReleaseNames \cup RebuildNames \cup SwitchNames
  BY DEF Branches, ReleaseStages, NewRouteReleases, OldRouteReleases, RebuildStages,
         ForwardSwitches, BackwardSwitches, Branch,
         JournalNames, ReleaseNames, RebuildNames, SwitchNames
<1> QED
  BY <1>1, StageNames DEF JournalNames, ReleaseNames, RebuildNames, SwitchNames, OtherStages

LEMMA FirstStepType ==
    \A stage : FirstStep(stage) \in {"check", "list", "run"}
  BY DEF FirstStep

-----------------------------------------------------------------------------
(* Type correctness.  The strengthening says that a call that is under way    *)
(* has a migration, and that a release that sends has a row and an outcome.   *)

\* TypeOK by groups of variables.
JournalType ==
    /\ state \in [Migration -> State] /\ marker \in [Migration -> Marker]
    /\ window \in [Migration -> BOOLEAN]

MainType == main \in Connector \cup {Spare, NoConnector}

RowType ==
    /\ hold \in [Delivery -> {"none", "held", "releasing", "released", "unknown", "failed"}]
    /\ holdOf \in [Delivery -> Migration \cup {NoMigration}]

ControlType ==
    /\ pc \in [Proc -> Stage] /\ step \in [Proc -> Step]
    /\ arg \in [Proc -> Migration \cup {NoMigration}]
    /\ \A p \in Proc : pc[p] \notin {"idle", "boot"} => arg[p] \in Migration

ReleaseType ==
    /\ todo \in [Proc -> SUBSET Delivery] /\ listed \in [Proc -> BOOLEAN]
    /\ cur \in [Proc -> Delivery \cup {NoDelivery}]
    /\ res \in [Proc -> {"none", "sent", "unknown", "failed", "invalid"}]
    /\ \A p \in Proc : step[p] \in {"send", "finish"} => cur[p] \in Delivery
    /\ \A p \in Proc : step[p] = "finish" => res[p] \in {"sent", "unknown", "failed", "invalid"}

SendingType ==
    /\ dpc \in [Delivery -> DeliveryState]
    /\ dmig \in [Delivery -> Migration \cup {NoMigration}]
    /\ \A d \in Delivery :
         dpc[d] \in {"hold", "report", "report_write"} => dmig[d] \in Migration

SentType ==
    /\ handed \in [Delivery -> Nat]
    /\ via \in [Delivery -> Connector \cup {NoConnector}]

BoundsType == /\ calls \in Nat /\ crashes \in Nat /\ faults \in Nat
              /\ disconnects \in Nat /\ patches \in Nat

TypeInv == /\ JournalType /\ MainType /\ RowType /\ ControlType
           /\ ReleaseType /\ SendingType /\ SentType /\ BoundsType

LEMMA TypeInvImplies == TypeInv => TypeOK
  BY DEF TypeInv, TypeOK, JournalType, MainType, RowType, ControlType,
         ReleaseType, SendingType, SentType, BoundsType

\* A move to another stage keeps the control part typed, and the process that
\* moves is not about to send.
LEMMA GotoType ==
    ASSUME ControlType, NEW p \in Proc, NEW stage \in Stage, Goto(p, stage),
           stage \notin {"idle", "boot"} => arg[p] \in Migration
    PROVE  /\ ControlType'
           /\ step'[p] \in {"check", "list", "run"}
           /\ \A q \in Proc \ {p} : step'[q] = step[q]
  BY FirstStepType DEF ControlType, Goto, Step

LEMMA NextStepType ==
    ASSUME ControlType, NEW p \in Proc, NEW s \in Step, NextStep(p, s)
    PROVE  /\ ControlType'
           /\ step'[p] = s
           /\ \A q \in Proc \ {p} : step'[q] = step[q]
  BY DEF ControlType, NextStep

\* The locals of a release stay typed when no process starts to send.
LEMMA ReleaseKept ==
    ASSUME ReleaseType, UNCHANGED release,
           \A q \in Proc : step'[q] \in {"send", "finish"} => step'[q] = step[q]
    PROVE  ReleaseType'
  BY DEF ReleaseType, release

LEMMA CallType ==
    ASSUME TypeInv, NEW p \in Proc, NEW m \in Migration,
           NEW stage \in Stage, Call(p, m, stage)
    PROVE  TypeInv'
<1> USE DEF TypeInv
<1>1. ControlType' /\ \A q \in Proc : step'[q] \in {"send", "finish"} => step'[q] = step[q]
  BY FirstStepType DEF Call, ControlType, Step
<1>2. ReleaseType'
  BY <1>1, ReleaseKept DEF Call
<1>3. JournalType' /\ MainType' /\ RowType' /\ SendingType' /\ SentType'
  BY DEF Call, JournalType, MainType, RowType, SendingType, SentType, journal, rows, sending, sent
<1>4. BoundsType'
  BY DEF Call, BoundsType
<1> QED
  BY <1>1, <1>2, <1>3, <1>4

LEMMA FaultType == ASSUME BoundsType, Fault \/ NoFault PROVE BoundsType'
  BY DEF BoundsType, Fault, NoFault, bounds

LEMMA IndexedWriteType ==
    ASSUME JournalType, NEW m, NEW to \in State, NEW mark \in Marker, SetJournal(m, to, mark)
    PROVE  JournalType'
  BY DEF JournalType, SetJournal

\* The steps of an operation, one fact per step.
LEMMA ProcStepType ==
    ASSUME TypeInv, NEW p \in Proc, ProcStep(p)
    PROVE  TypeInv'
<1> USE DEF TypeInv
<1> DEFINE StaysOut == \A q \in Proc : step'[q] \in {"send", "finish"} => step'[q] = step[q]
<1>0. ASSUME NEW stage \in Stage, Goto(p, stage),
             stage \notin {"idle", "boot"} => pc[p] \notin {"idle", "boot"}
      PROVE  ControlType' /\ StaysOut
  <2>1. stage \notin {"idle", "boot"} => arg[p] \in Migration
    BY <1>0 DEF ControlType
  <2> QED
    BY <1>0, <2>1, GotoType
<1>1. CASE Validate(p)
  <2>1. ControlType' /\ StaysOut /\ BoundsType'
    BY <1>1, <1>0, FaultType, StageNames DEF Validate, OtherStages, JournalNames
  <2> QED
    BY <1>1, <2>1, ReleaseKept
    DEF Validate, OnlyControl, JournalType, MainType, RowType, SendingType, SentType,
        journal, rows, sending, sent
<1>2. CASE CheckTransition(p)
  <2>1. PICK w \in JournalStages :
            /\ pc[p] = w.at
            /\ \/ NextStep(p, "write") /\ NoFault
               \/ Goto(p, w.err) /\ NoFault
               \/ Fault /\ Goto(p, w.err)
    BY <1>2 DEF CheckTransition
  <2>2. ControlType' /\ StaysOut /\ BoundsType'
    BY <2>1, <1>0, JournalTargets, NextStepType, FaultType DEF Step
  <2> QED
    BY <1>2, <2>2, ReleaseKept
    DEF CheckTransition, OnlyControl, JournalType, MainType, RowType, SendingType, SentType,
        journal, rows, sending, sent
<1>3. CASE WriteTransition(p)
  <2>1. PICK w \in JournalStages :
            /\ pc[p] = w.at
            /\ \/ SetJournal(arg[p], w.to, w.mark) /\ Goto(p, w.ok) /\ NoFault
               \/ UNCHANGED journal /\ Goto(p, w.err) /\ (NoFault \/ Fault)
            /\ UNCHANGED <<main, rows, release, sending, sent>>
    BY <1>3 DEF WriteTransition
  <2>2. ControlType' /\ StaysOut /\ BoundsType'
    BY <2>1, <1>0, JournalTargets, FaultType
  <2>3. JournalType'
    <3>1. CASE SetJournal(arg[p], w.to, w.mark)
      BY <3>1, IndexedWriteType, JournalTargets
    <3>2. CASE UNCHANGED journal
      BY <3>2 DEF JournalType, journal
    <3> QED
      BY <2>1, <3>1, <3>2
  <2> QED
    BY <2>1, <2>2, <2>3, ReleaseKept DEF MainType, RowType, SendingType, SentType, rows, sending, sent
<1>4. CASE SwitchRoute(p)
  <2>1. PICK b \in ForwardSwitches \cup BackwardSwitches :
            /\ pc[p] = b.at
            /\ \/ main' \in {OldRoute(p), NewRoute(p)} /\ Goto(p, b.ok) /\ NoFault
               \/ UNCHANGED main /\ Goto(p, b.err) /\ (NoFault \/ Fault)
    BY <1>4 DEF SwitchRoute, SwitchMainConnector
  <2>2. ControlType' /\ StaysOut /\ BoundsType'
    BY <2>1, <1>0, BranchTargets, FaultType DEF Branches
  <2>3. arg[p] \in Migration
    BY <2>1, BranchTargets DEF ControlType, Branches
  <2>4. MainType'
    BY <2>1, <2>3, RouteAssumption DEF MainType, OldRoute, NewRoute
  <2> QED
    BY <1>4, <2>2, <2>4, ReleaseKept
    DEF SwitchRoute, JournalType, RowType, SendingType, SentType, journal, rows, sending, sent
<1>5. CASE ReadBack(p)
  <2>1. ControlType' /\ StaysOut /\ BoundsType'
    BY <1>5, <1>0, FaultType, StageNames DEF ReadBack, JournalNames
  <2> QED
    BY <1>5, <2>1, ReleaseKept
    DEF ReadBack, OnlyControl, JournalType, MainType, RowType, SendingType, SentType,
        journal, rows, sending, sent
<1>6. CASE SetRollbackExpiry(p) \/ CompleteNewRoute(p)
  <2>1. ControlType' /\ StaysOut /\ BoundsType'
    BY <1>6, <1>0, FaultType, StageNames
    DEF SetRollbackExpiry, CompleteNewRoute, JournalNames, ReleaseNames
  <2>2. JournalType'
    BY <1>6 DEF SetRollbackExpiry, CompleteNewRoute, StoreWindow, JournalType
  <2> QED
    BY <1>6, <2>1, <2>2, ReleaseKept
    DEF SetRollbackExpiry, CompleteNewRoute, MainType, RowType, SendingType, SentType,
        rows, sending, sent
<1>7. CASE RebuildProjection(p)
  <2>1. PICK b \in RebuildStages :
            /\ pc[p] = b.at
            /\ \/ EnsureMainConnector /\ Goto(p, b.ok) /\ NoFault
               \/ Fault /\ UNCHANGED main /\ Goto(p, b.err)
            /\ UNCHANGED <<journal, rows, release, sending, sent>>
    BY <1>7 DEF RebuildProjection
  <2>2. ControlType' /\ StaysOut /\ BoundsType'
    BY <2>1, <1>0, BranchTargets, FaultType DEF Branches
  <2>3. MainType'
    BY <2>1 DEF MainType, EnsureMainConnector
  <2> QED
    BY <2>1, <2>2, <2>3, ReleaseKept
    DEF JournalType, RowType, SendingType, SentType, journal, rows, sending, sent
<1>8. CASE ReleaseHolds(p)
  <2>1. PICK b \in ReleaseStages :
            /\ pc[p] = b.at
            /\ \/ ListHolds(p, b) \/ MarkReleasingUnknown(p, b) \/ ClaimHold(p, b)
               \/ Send(p) \/ FinishHold(p, b)
    BY <1>8 DEF ReleaseHolds
  <2>2. /\ b.ok \in Stage /\ b.err \in Stage
        /\ pc[p] \notin {"idle", "boot"} /\ arg[p] \in Migration
    BY <2>1, BranchTargets DEF Branches, ControlType
  <2>3. ASSUME NEW stage \in {b.ok, b.err}, Leave(p, stage)
        PROVE  ControlType' /\ ReleaseType'
    <3>1. ControlType' /\ StaysOut /\ step'[p] \in {"check", "list", "run"}
      BY <2>2, <2>3, <1>0, GotoType DEF Leave
    <3> QED
      BY <2>3, <3>1 DEF Leave, ReleaseType
  <2>4. CASE ListHolds(p, b)
    <3>1. BoundsType'
      BY <2>4, FaultType DEF ListHolds
    <3>2. ControlType' /\ ReleaseType'
      <4>1. CASE Leave(p, b.err)
        BY <2>3, <4>1
      <4>2. CASE ~Leave(p, b.err)
        <5>1. ControlType' /\ StaysOut
          BY <2>4, <4>2, NextStepType DEF ListHolds, Step
        <5> QED
          BY <2>4, <4>2, <5>1 DEF ListHolds, ReleaseType, RowsOf
      <4> QED
        BY <4>1, <4>2
    <3> QED
      BY <2>4, <3>1, <3>2
      DEF ListHolds, JournalType, MainType, RowType, SendingType, SentType, journal, rows, sending, sent
  <2>5. CASE MarkReleasingUnknown(p, b)
    <3>1. BoundsType'
      BY <2>5, FaultType DEF MarkReleasingUnknown
    <3>2. ControlType' /\ ReleaseType'
      <4>1. CASE Leave(p, b.err)
        BY <2>3, <4>1
      <4>2. CASE ~Leave(p, b.err)
        <5>1. ControlType' /\ StaysOut /\ UNCHANGED release
          BY <2>5, <4>2, NextStepType DEF MarkReleasingUnknown, Step
        <5> QED
          BY <5>1, ReleaseKept
      <4> QED
        BY <4>1, <4>2
    <3>3. RowType'
      BY <2>5 DEF MarkReleasingUnknown, RowType
    <3> QED
      BY <2>5, <3>1, <3>2, <3>3
      DEF MarkReleasingUnknown, JournalType, MainType, SendingType, SentType, journal, sending, sent
  <2>6. CASE ClaimHold(p, b)
    <3>1. BoundsType'
      BY <2>6, FaultType DEF ClaimHold
    <3>2. ControlType' /\ ReleaseType'
      <4>1. CASE Leave(p, b.ok)
        BY <2>3, <4>1
      <4>2. ASSUME NEW d \in todo[p], todo' = [todo EXCEPT ![p] = @ \ {d}], UNCHANGED <<listed, res>>,
                   cur' = [cur EXCEPT ![p] = d], NextStep(p, "send")
            PROVE  ControlType' /\ ReleaseType'
        <5>1. ControlType' /\ step'[p] = "send" /\ \A q \in Proc \ {p} : step'[q] = step[q]
          BY <4>2, NextStepType DEF Step
        <5> QED
          BY <4>2, <5>1 DEF ReleaseType
      <4>3. ASSUME NEW d \in todo[p], todo' = [todo EXCEPT ![p] = @ \ {d}], UNCHANGED <<listed, res>>,
                   UNCHANGED <<cur, control>>
            PROVE  ControlType' /\ ReleaseType'
        BY <4>3 DEF control, ControlType, ReleaseType
      <4> QED
        BY <2>6, <4>1, <4>2, <4>3 DEF ClaimHold
    <3>3. RowType'
      BY <2>6 DEF ClaimHold, WriteClaim, RowType
    <3> QED
      BY <2>6, <3>1, <3>2, <3>3
      DEF ClaimHold, JournalType, MainType, SendingType, SentType, journal, sending, sent
  <2>7. CASE Send(p)
    <3>1. ControlType' /\ step'[p] = "finish" /\ \A q \in Proc \ {p} : step'[q] = step[q]
      BY <2>7, NextStepType DEF Send, Step
    <3>2. BoundsType'
      BY <2>7, FaultType DEF Send
    <3>3. ReleaseType'
      <4>1. UNCHANGED <<todo, listed, cur>> /\ cur[p] \in Delivery
        BY <2>7 DEF Send, ReleaseType
      <4>2. PICK r \in {"sent", "unknown", "failed", "invalid"} : res' = [res EXCEPT ![p] = r]
        BY <2>7 DEF Send
      <4>3. /\ res' \in [Proc -> {"none", "sent", "unknown", "failed", "invalid"}]
            /\ res'[p] \in {"sent", "unknown", "failed", "invalid"}
            /\ \A q \in Proc \ {p} : res'[q] = res[q]
        BY <4>2 DEF ReleaseType
      <4> QED BY <3>1, <4>1, <4>3 DEF ReleaseType
    <3>4. SentType'
      BY <2>2, <2>7, RouteAssumption DEF Send, SentType, Destination, OldRoute, NewRoute, sent
    <3> QED
      BY <2>7, <3>1, <3>2, <3>3, <3>4
      DEF Send, JournalType, MainType, RowType, SendingType, journal, rows, sending
  <2>8. CASE FinishHold(p, b)
    <3>1. BoundsType'
      BY <2>8, FaultType DEF FinishHold
    <3>2. ControlType' /\ ReleaseType'
      <4>1. CASE Leave(p, b.err)
        BY <2>3, <4>1
      <4>2. CASE ~Leave(p, b.err)
        <5>1. /\ NextStep(p, "claim")
              /\ cur' = [cur EXCEPT ![p] = NoDelivery]
              /\ res' = [res EXCEPT ![p] = "none"]
              /\ UNCHANGED <<todo, listed>>
          BY <2>8, <4>2 DEF FinishHold
        <5>2. ControlType' /\ step'[p] = "claim" /\ \A q \in Proc \ {p} : step'[q] = step[q]
          BY <5>1, NextStepType DEF Step
        <5> QED
          BY <5>1, <5>2 DEF ReleaseType
      <4> QED
        BY <4>1, <4>2
    <3>3. RowType'
      BY <2>8 DEF FinishHold, RowResult, RowType, ReleaseType
    <3> QED
      BY <2>8, <3>1, <3>2, <3>3
      DEF FinishHold, JournalType, MainType, SendingType, SentType, journal, sending, sent
  <2> QED
    BY <2>1, <2>4, <2>5, <2>6, <2>7, <2>8
<1>9. CASE InspectRoute(p)
  <2>1. ControlType' /\ StaysOut /\ BoundsType'
    BY <1>9, <1>0, FaultType, StageNames
    DEF InspectRoute, JournalNames, ReleaseNames, SwitchNames
  <2> QED
    BY <1>9, <2>1, ReleaseKept
    DEF InspectRoute, OnlyControl, JournalType, MainType, RowType, SendingType, SentType,
        journal, rows, sending, sent
<1> QED
  BY <1>1, <1>2, <1>3, <1>4, <1>5, <1>6, <1>7, <1>8, <1>9 DEF ProcStep

\* The send path of a message.
LEMMA DeliverType ==
    ASSUME TypeInv, NEW d \in Delivery, Deliver(d)
    PROVE  TypeInv'
<1> USE DEF TypeInv
<1>1. MainType' /\ window' = window /\ ControlType' /\ ReleaseType' /\ SentType'
  BY DEF Deliver, HookCurrent, TryHoldForTarget, ReportHoldFailure, NotDelivery,
         MainType, ControlType, ReleaseType, SentType, control, release, sent
<1>2. BoundsType'
  BY FaultType DEF Deliver, HookCurrent, TryHoldForTarget, ReportHoldFailure
<1>3. CASE HookCurrent(d)
  BY <1>1, <1>2, <1>3
  DEF HookCurrent, SetDelivery, Unfinished, DeliveryState, SendingType, JournalType, RowType, rows
<1>4. CASE TryHoldForTarget(d)
  BY <1>1, <1>2, <1>4
  DEF TryHoldForTarget, SetDelivery, DeliveryState, SendingType, JournalType, RowType, rows
<1>5. CASE ReportHoldFailure(d)
  <2>1. JournalType'
    BY <1>1, <1>5, IndexedWriteType, JournalTargets
    DEF ReportHoldFailure, JournalType, SetJournal, State, Active, Marker
  <2>2. SendingType' /\ RowType'
    BY <1>5 DEF ReportHoldFailure, SetDelivery, DeliveryState, SendingType, RowType, rows
  <2> QED
    BY <1>1, <1>2, <2>1, <2>2
<1> QED
  BY <1>3, <1>4, <1>5 DEF Deliver

LEMMA BootStages ==
    ASSUME NEW mark
    PROVE  RecoverStage(mark) \in Stage \ {"idle", "boot"}
  BY StageNames DEF RecoverStage, JournalNames, RebuildNames, OtherStages

LEMMA TypeInit == Init => TypeInv
<1> SUFFICES ASSUME Init PROVE TypeInv
  OBVIOUS
<1>1. "idle" \in Stage /\ "boot" \in Stage /\ "run" \in Step
  BY StageNames DEF OtherStages, Step
<1>2. JournalType /\ MainType
  BY RouteAssumption DEF Init, JournalType, MainType, State, Marker
<1>3. ControlType /\ ReleaseType
  BY <1>1 DEF Init, ControlType, ReleaseType
<1> QED
  BY <1>2, <1>3 DEF Init, TypeInv, RowType, SendingType, SentType, BoundsType, DeliveryState

LEMMA TypeStep == TypeInv /\ [Next]_vars => TypeInv'
<1> SUFFICES ASSUME TypeInv, [Next]_vars PROVE TypeInv'
  OBVIOUS
<1> USE DEF TypeInv
<1>1. ASSUME NEW m \in Migration, Create(m) PROVE TypeInv'
  BY <1>1 DEF Create, JournalType, MainType, RowType, ControlType, ReleaseType, SendingType,
              SentType, BoundsType, State, Active, Marker, rows, control, release, sending, sent, bounds
<1>2. ASSUME NEW p \in Request, NEW m \in Migration,
             Discover(p, m) \/ Preflight(p, m) \/ Commit(p, m) \/ Rollback(p, m)
      PROVE TypeInv'
  BY <1>2, CallType, StageNames
  DEF Discover, Preflight, Commit, Rollback, JournalNames, OtherStages, Proc
<1>3. ASSUME NEW p \in Request, Disconnect(p) PROVE TypeInv'
  <2>1. ControlType' /\ step'[p] \in {"check", "list", "run"} /\ \A q \in Proc \ {p} : step'[q] = step[q]
    BY <1>3, GotoType, StageNames DEF Disconnect, Leave, Proc, OtherStages
  <2>2. ReleaseType'
    BY <1>3, <2>1 DEF Disconnect, Leave, ReleaseType
  <2> QED
    BY <1>3, <2>1, <2>2
    DEF Disconnect, JournalType, MainType, RowType, SendingType, SentType, BoundsType,
        journal, rows, sending, sent
<1>4. ASSUME NEW p \in Proc, ProcStep(p) PROVE TypeInv'
  BY <1>4, ProcStepType
<1>5. CASE Recover
  <2>1. Boot \in Proc /\ "idle" \in Stage
    BY StageNames DEF Proc, OtherStages
  <2>2. ControlType' /\ \A q \in Proc : step'[q] \in {"send", "finish"} => step'[q] = step[q]
    <3>1. CASE Goto(Boot, "idle")
      BY <3>1, <2>1, GotoType
    <3>2. CASE ~Goto(Boot, "idle")
      <4>1. PICK m \in Resumable :
              LET stage == RecoverStage(marker[m])
              IN  /\ pc' = [pc EXCEPT ![Boot] = stage]
                  /\ step' = [step EXCEPT ![Boot] = FirstStep(stage)]
                  /\ arg' = [arg EXCEPT ![Boot] = m]
        BY <1>5, <3>2 DEF Recover
      <4>2. m \in Migration
        BY DEF Resumable
      <4> QED
        BY <2>1, <4>1, <4>2, BootStages, FirstStepType DEF ControlType, Step
    <3> QED
      BY <3>1, <3>2
  <2> QED
    BY <1>5, <2>2, ReleaseKept, FaultType
    DEF Recover, OnlyControl, JournalType, MainType, RowType, SendingType, SentType,
        journal, rows, sending, sent
<1>6. ASSUME NEW d \in Delivery, Deliver(d) PROVE TypeInv'
  BY <1>6, DeliverType
<1>7. ASSUME NEW c \in Connector, NEW on \in BOOLEAN, PatchConnector(c, on) PROVE TypeInv'
  BY <1>7 DEF PatchConnector, JournalType, MainType, RowType, ControlType, ReleaseType, SendingType,
              SentType, BoundsType, journal, rows, control, release, sending, sent
<1>8. CASE Crash
  <2>1. "idle" \in Stage /\ "boot" \in Stage /\ "run" \in Step
    BY StageNames DEF OtherStages, Step
  <2>2. ControlType' /\ ReleaseType'
    BY <1>8, <2>1 DEF Crash, ControlType, ReleaseType
  <2>3. SendingType'
    BY <1>8 DEF Crash, SendingType, DeliveryState
  <2> QED
    BY <1>8, <2>2, <2>3
    DEF Crash, JournalType, MainType, RowType, SentType, BoundsType, journal, rows, sent
<1>9. CASE UNCHANGED vars
  BY <1>9 DEF vars, JournalType, MainType, RowType, ControlType, ReleaseType, SendingType,
              SentType, BoundsType, journal, rows, control, release, sending, sent, bounds
<1> QED
  BY <1>1, <1>2, <1>3, <1>4, <1>5, <1>6, <1>7, <1>8, <1>9 DEF Next

\* Every row, call and message keeps its type, whatever runs concurrently.
THEOREM TypeCorrect == Spec => []TypeOK
<1> QED
  BY TypeInit, TypeStep, TypeInvImplies, PTL DEF Spec

-----------------------------------------------------------------------------
(* The journal: one unfinished migration, and a recorded rollback window.    *)

\* A write of the state that the unique index allows.
LEMMA IndexedWriteKeepsOne ==
    ASSUME JournalType, OneActiveMigration,
           NEW m, NEW to, NEW mark, IndexAllows(m, to), SetJournal(m, to, mark)
    PROVE  OneActiveMigration'
  BY DEF JournalType, OneActiveMigration, IndexAllows, SetJournal, Unfinished

\* At most one migration is unfinished, although a completed one can become
\* active again through a rollback that races with a creation.
THEOREM SingleActiveMigration == Spec => []OneActiveMigration
<1>1. Init => OneActiveMigration
  BY DEF Init, OneActiveMigration, Active
<1>2. TypeInv /\ OneActiveMigration /\ [Next]_vars => OneActiveMigration'
  <2> SUFFICES ASSUME TypeInv, OneActiveMigration, [Next]_vars PROVE OneActiveMigration'
    OBVIOUS
  <2>1. ASSUME NEW m \in Migration, Create(m) PROVE OneActiveMigration'
    BY <2>1 DEF Create, OneActiveMigration, Unfinished, TypeInv, JournalType
  <2>2. ASSUME NEW p \in Proc, WriteTransition(p) PROVE OneActiveMigration'
    <3>1. CASE UNCHANGED journal
      BY <3>1 DEF OneActiveMigration, journal
    <3>2. CASE ~UNCHANGED journal
      <4>1. PICK w \in JournalStages :
              IndexAllows(arg[p], w.to) /\ SetJournal(arg[p], w.to, w.mark)
        BY <2>2, <3>2 DEF WriteTransition
      <4> QED
        BY <4>1, IndexedWriteKeepsOne DEF TypeInv
    <3> QED
      BY <3>1, <3>2
  <2>3. ASSUME NEW d \in Delivery, ReportHoldFailure(d) PROVE OneActiveMigration'
    BY <2>3, IndexedWriteKeepsOne DEF ReportHoldFailure, OneActiveMigration, TypeInv
  <2>4. CASE UNCHANGED state
    BY <2>4 DEF OneActiveMigration
  <2> QED
    BY <2>1, <2>2, <2>3, <2>4
    DEF Next, vars, journal, Discover, Preflight, Commit, Rollback, Call, Disconnect, ProcStep, Validate,
        CheckTransition, SwitchRoute, ReadBack, SetRollbackExpiry, RebuildProjection, ReleaseHolds,
        ListHolds, MarkReleasingUnknown, ClaimHold, Send, FinishHold, CompleteNewRoute, InspectRoute,
        Recover, OnlyControl, Deliver, HookCurrent, TryHoldForTarget, PatchConnector, Crash
<1> QED
  BY <1>1, <1>2, TypeInit, TypeStep, PTL DEF Spec

\* The stages a call reaches only with a recorded window, up to completion.
WindowStages == { "c_release", "c_rebuild_mark", "c_rebuild", "c_rebuilt", "c_done",
                  "b_new_release", "b_new_rebuild", "b_completed" }

WindowInv ==
    /\ CompletedHasWindow
    /\ \A p \in Proc : pc[p] \in WindowStages => window[arg[p]]

LEMMA WindowTables ==
    /\ \A w \in JournalStages :
         /\ w.to = "completed" => w.at \in WindowStages
         /\ w.ok \in WindowStages => w.at \in WindowStages
         /\ w.err \notin WindowStages
    /\ \A b \in Branches :
         /\ b.ok \in WindowStages => b.at \in WindowStages
         /\ b.err \notin WindowStages
<1>1. \A w \in JournalStages :
         /\ w.to = "completed" => w.at \in WindowStages
         /\ w.ok \in WindowStages => w.at \in WindowStages
         /\ w.err \notin WindowStages
  BY DEF JournalStages, Write, WindowStages
<1>2. \A b \in Branches :
         /\ b.ok \in WindowStages => b.at \in WindowStages
         /\ b.err \notin WindowStages
  BY DEF Branches, ReleaseStages, NewRouteReleases, OldRouteReleases, RebuildStages,
         ForwardSwitches, BackwardSwitches, Branch, WindowStages
<1> QED
  BY <1>1, <1>2

\* A step that completes no migration, clears no window and moves one process
\* at most, from a stage with a recorded window if it enters one.
LEMMA WindowKept ==
    ASSUME TypeInv, WindowInv,
           UNCHANGED state \/ \A m \in Migration : state'[m] = "completed" => window[m],
           \A m \in Migration : window[m] => window'[m],
           \A p \in Proc : pc'[p] \in WindowStages =>
              arg'[p] \in Migration /\ (window[arg'[p]] \/ window'[arg'[p]])
    PROVE  WindowInv'
  BY DEF WindowInv, CompletedHasWindow, TypeInv, JournalType

LEMMA GotoWindow ==
    ASSUME TypeInv, WindowInv, NEW p \in Proc, NEW stage, Goto(p, stage),
           stage \in WindowStages => pc[p] \in WindowStages
    PROVE  \A q \in Proc : pc'[q] \in WindowStages =>
              arg'[q] \in Migration /\ window[arg'[q]]
<1> SUFFICES ASSUME NEW q \in Proc, pc'[q] \in WindowStages
             PROVE  arg'[q] \in Migration /\ window[arg'[q]]
  OBVIOUS
<1>1. pc[q] \in WindowStages
  BY DEF Goto, TypeInv, ControlType
<1>2. arg'[q] = arg[q]
  BY DEF Goto, TypeInv, ControlType, WindowStages
<1> QED
  BY <1>1, <1>2 DEF WindowInv, TypeInv, ControlType, WindowStages

LEMMA WindowStep == TypeInv /\ WindowInv /\ [Next]_vars => WindowInv'
<1> SUFFICES ASSUME TypeInv, WindowInv, [Next]_vars PROVE WindowInv'
  OBVIOUS
<1> DEFINE Entered == \A p \in Proc : pc'[p] \in WindowStages =>
                         arg'[p] \in Migration /\ (window[arg'[p]] \/ window'[arg'[p]])
<1>0. ASSUME UNCHANGED <<pc, arg>> PROVE Entered
  BY <1>0 DEF WindowInv, TypeInv, ControlType, WindowStages
<1>1. ASSUME NEW m \in Migration, Create(m) PROVE WindowInv'
  BY <1>0, <1>1, WindowKept
  DEF Create, WindowInv, CompletedHasWindow, TypeInv, JournalType, control
<1>2. ASSUME NEW p \in Request, NEW m \in Migration,
             Discover(p, m) \/ Preflight(p, m) \/ Commit(p, m) \/ Rollback(p, m)
      PROVE WindowInv'
  <2>1. PICK stage \in {"discovered", "pf_discovered", "pf_validate", "c_validate", "r_validate"} :
            Call(p, m, stage)
    BY <1>2 DEF Discover, Preflight, Commit, Rollback
  <2>2. Entered
    BY <2>1 DEF Call, WindowInv, TypeInv, ControlType, WindowStages, Proc
  <2> QED
    BY <2>1, <2>2, WindowKept DEF Call, journal
<1>3. ASSUME NEW p \in Request, Disconnect(p) PROVE WindowInv'
  BY <1>3, GotoWindow, WindowKept DEF Disconnect, Leave, WindowStages, Proc, journal
<1>4. ASSUME NEW p \in Proc, ProcStep(p) PROVE WindowInv'
  <2>1. CASE Validate(p) \/ ReadBack(p) \/ InspectRoute(p)
    <3>1. PICK stage : Goto(p, stage) /\ stage \notin WindowStages
      BY <2>1 DEF Validate, ReadBack, InspectRoute, WindowStages
    <3> QED
      BY <2>1, <3>1, GotoWindow, WindowKept DEF Validate, ReadBack, InspectRoute, OnlyControl, journal
  <2>2. CASE CheckTransition(p)
    <3>1. PICK w \in JournalStages : NextStep(p, "write") \/ Goto(p, w.err)
      BY <2>2 DEF CheckTransition
    <3>2. Entered
      BY <3>1, <1>0, GotoWindow, WindowTables DEF NextStep
    <3> QED
      BY <2>2, <3>2, WindowKept DEF CheckTransition, OnlyControl, journal
  <2>3. CASE WriteTransition(p)
    <3>1. PICK w \in JournalStages :
            /\ pc[p] = w.at
            /\ \/ SetJournal(arg[p], w.to, w.mark) /\ Goto(p, w.ok)
               \/ UNCHANGED journal /\ Goto(p, w.err)
      BY <2>3 DEF WriteTransition
    <3>2. Entered /\ UNCHANGED window
      BY <3>1, GotoWindow, WindowTables DEF SetJournal, journal
    <3>3. arg[p] \in Migration
      BY <3>1, JournalTargets DEF TypeInv, ControlType
    <3>4. UNCHANGED state \/ \A m \in Migration : state'[m] = "completed" => window[m]
      <4>1. CASE UNCHANGED journal
        BY <4>1 DEF journal
      <4>2. CASE SetJournal(arg[p], w.to, w.mark)
        <5>1. w.to = "completed" => window[arg[p]]
          BY <3>1, WindowTables DEF WindowInv
        <5> QED
          BY <3>3, <4>2, <5>1 DEF SetJournal, TypeInv, JournalType, WindowInv, CompletedHasWindow
      <4> QED
        BY <3>1, <4>1, <4>2
    <3> QED
      BY <3>2, <3>4, WindowKept
  <2>4. CASE SwitchRoute(p) \/ RebuildProjection(p)
    <3>1. PICK b \in Branches : pc[p] = b.at /\ (Goto(p, b.ok) \/ Goto(p, b.err))
      BY <2>4 DEF SwitchRoute, RebuildProjection, Branches
    <3>2. Entered /\ UNCHANGED journal
      BY <2>4, <3>1, GotoWindow, WindowTables DEF SwitchRoute, RebuildProjection
    <3> QED
      BY <3>2, WindowKept DEF journal
  <2>5. CASE SetRollbackExpiry(p) \/ CompleteNewRoute(p)
    <3>1. UNCHANGED state
      BY <2>5 DEF SetRollbackExpiry, CompleteNewRoute
    <3>2. arg[p] \in Migration
      BY <2>5 DEF SetRollbackExpiry, CompleteNewRoute, TypeInv, ControlType
    <3>3. CASE StoreWindow(arg[p]) /\ \E s \in {"c_release", "b_new_release"} : Goto(p, s)
      <4>1. window'[arg[p]] /\ \A m \in Migration : window[m] => window'[m]
        BY <3>2, <3>3 DEF StoreWindow, TypeInv, JournalType
      <4>2. arg'[p] = arg[p] /\ \A q \in Proc \ {p} : pc'[q] = pc[q] /\ arg'[q] = arg[q]
        BY <3>3 DEF Goto, TypeInv, ControlType
      <4>3. Entered
        BY <3>2, <4>1, <4>2 DEF WindowInv, TypeInv, ControlType, WindowStages
      <4> QED
        BY <3>1, <4>1, <4>3, WindowKept
    <3>4. CASE ~(StoreWindow(arg[p]) /\ \E s \in {"c_release", "b_new_release"} : Goto(p, s))
      <4>1. UNCHANGED window /\ \E s \in {"c_no_window", "b_unreleased"} : Goto(p, s)
        BY <2>5, <3>4 DEF SetRollbackExpiry, CompleteNewRoute
      <4> QED
        BY <3>1, <4>1, GotoWindow, WindowKept DEF WindowStages
    <3> QED
      BY <3>3, <3>4
  <2>6. CASE ReleaseHolds(p)
    <3>1. PICK b \in Branches :
            /\ pc[p] = b.at
            /\ UNCHANGED <<pc, arg>> \/ Goto(p, b.ok) \/ Goto(p, b.err)
            /\ UNCHANGED journal
      BY <2>6 DEF ReleaseHolds, ListHolds, MarkReleasingUnknown, ClaimHold, Send, FinishHold,
                  Leave, NextStep, Branches, control
    <3>2. Entered
      BY <3>1, <1>0, GotoWindow, WindowTables
    <3> QED
      BY <3>1, <3>2, WindowKept DEF journal
  <2> QED
    BY <1>4, <2>1, <2>2, <2>3, <2>4, <2>5, <2>6 DEF ProcStep
<1>5. CASE Recover
  <2>1. \A mark : RecoverStage(mark) \notin WindowStages
    BY DEF RecoverStage, WindowStages
  <2>2. Entered
    <3>1. CASE Goto(Boot, "idle")
      BY <3>1, GotoWindow DEF WindowStages, Proc
    <3>2. CASE ~Goto(Boot, "idle")
      BY <1>5, <2>1, <3>2 DEF Recover, WindowInv, TypeInv, ControlType, WindowStages
    <3> QED
      BY <3>1, <3>2
  <2> QED
    BY <1>5, <2>2, WindowKept DEF Recover, OnlyControl, journal
<1>6. ASSUME NEW d \in Delivery, Deliver(d) PROVE WindowInv'
  <2>1. UNCHANGED <<window, pc, arg>>
    BY <1>6 DEF Deliver, HookCurrent, TryHoldForTarget, ReportHoldFailure, NotDelivery, control
  <2>2. UNCHANGED state \/ \E m : state' = [state EXCEPT ![m] = "recovery_required"]
    BY <1>6 DEF Deliver, HookCurrent, TryHoldForTarget, ReportHoldFailure, SetJournal
  <2>3. UNCHANGED state \/ \A m \in Migration : state'[m] = "completed" => window[m]
    BY <2>2 DEF WindowInv, CompletedHasWindow, TypeInv, JournalType
  <2> QED
    BY <1>0, <2>1, <2>3, WindowKept
<1>7. ASSUME NEW c \in Connector, NEW on \in BOOLEAN, PatchConnector(c, on) PROVE WindowInv'
  BY <1>0, <1>7, WindowKept DEF PatchConnector, journal, control
<1>8. CASE Crash
  <2>1. Entered
    BY <1>8 DEF Crash, WindowStages
  <2> QED
    BY <1>8, <2>1, WindowKept DEF Crash, journal
<1>9. CASE UNCHANGED vars
  BY <1>0, <1>9, WindowKept DEF vars, journal, control
<1> QED
  BY <1>1, <1>2, <1>3, <1>4, <1>5, <1>6, <1>7, <1>8, <1>9 DEF Next

\* A completed migration can be rolled back in time: its deadline is stored,
\* whether its commit or a restart completed it.
THEOREM CompletionRecordsWindow == Spec => []CompletedHasWindow
<1>1. Init => WindowInv
  BY DEF Init, WindowInv, CompletedHasWindow, WindowStages
<1>2. WindowInv => CompletedHasWindow
  BY DEF WindowInv
<1> QED
  BY <1>1, <1>2, WindowStep, TypeInit, TypeStep, PTL DEF Spec

-----------------------------------------------------------------------------
(* The held rows: a message is handed over once, and the rows refine the      *)
(* ledger of HoldLedger.                                                      *)

\* p is about to call Send for d.
Sending(p, d) == step[p] = "send" /\ cur[p] = d

\* A row exists only for a message that the send path gave up, nothing was
\* handed over for an unclaimed row, and at most one release is about to send
\* a claimed row, for which nothing was handed over.
DeliveryInv ==
    /\ \A d \in Delivery :
         /\ dpc[d] # "held" => hold[d] = "none"
         /\ hold[d] \in {"none", "held"} => handed[d] = 0
         /\ handed[d] <= 1
    /\ \A p \in Proc, d \in Delivery : Sending(p, d) =>
         /\ hold[d] \notin {"none", "held"} /\ handed[d] = 0
         /\ \A q \in Proc : Sending(q, d) => q = p

\* What a step does to the rows, the senders and the hand-overs is one of these.
SendersKept == \A p \in Proc, d \in Delivery : (Sending(p, d))' <=> Sending(p, d)

RowsGiveUp(D) ==
    /\ UNCHANGED <<hold, handed>>
    /\ \A p \in Proc, d \in Delivery : (Sending(p, d))' <=> Sending(p, d) /\ d \notin D

RowHeld(d) ==
    /\ hold[d] = "none" /\ hold' = [hold EXCEPT ![d] = "held"]
    /\ UNCHANGED handed /\ SendersKept

RowClaimed(p, d, starts) ==
    /\ hold[d] = "held" /\ hold' = [hold EXCEPT ![d] = "releasing"]
    /\ UNCHANGED handed
    /\ \A q \in Proc, e \in Delivery :
         (Sending(q, e))' <=> Sending(q, e) \/ (starts /\ q = p /\ e = d)

RowHandedOver(p, d) ==
    /\ Sending(p, d)
    /\ handed' = [handed EXCEPT ![d] = @ + 1] /\ UNCHANGED hold
    /\ \A q \in Proc, e \in Delivery : (Sending(q, e))' <=> Sending(q, e) /\ q # p

RowsDecided(D, outcome) ==
    /\ \A d \in D : hold[d] = "releasing"
    /\ hold' = [d \in Delivery |-> IF d \in D THEN outcome ELSE hold[d]]
    /\ UNCHANGED handed /\ SendersKept

RowOutcome == {"released", "unknown", "failed"}

RowStep ==
    \/ \E D \in SUBSET Delivery : RowsGiveUp(D)
    \/ \E d \in Delivery : RowHeld(d) /\ dpc'[d] = "held"
    \/ \E p \in Proc, d \in Delivery, starts \in BOOLEAN : RowClaimed(p, d, starts)
    \/ \E p \in Proc, d \in Delivery : RowHandedOver(p, d)
    \/ \E D \in SUBSET Delivery, outcome \in RowOutcome : RowsDecided(D, outcome)

HeldStays == \A d \in Delivery : dpc'[d] # "held" => dpc[d] # "held"

\* A step of one process that does not leave it about to send takes at most
\* the sender of one row away.
LEMMA ProcessGivesUp ==
    ASSUME DeliveryInv, NEW p \in Proc, UNCHANGED <<hold, handed>>, step'[p] # "send",
           \A q \in Proc \ {p} : step'[q] = step[q] /\ cur'[q] = cur[q]
    PROVE  RowStep
<1> DEFINE D == {d \in Delivery : Sending(p, d)}
<1>1. RowsGiveUp(D)
  <2> SUFFICES ASSUME NEW q \in Proc, NEW d \in Delivery
               PROVE  (Sending(q, d))' <=> Sending(q, d) /\ d \notin D
    BY DEF RowsGiveUp
  <2>1. CASE q = p
    BY <2>1 DEF Sending
  <2>2. CASE q # p
    BY <2>2 DEF Sending, DeliveryInv
  <2> QED
    BY <2>1, <2>2
<1> QED
  BY <1>1 DEF RowStep

LEMMA GotoGivesUp ==
    ASSUME TypeInv, DeliveryInv, NEW p \in Proc, NEW stage, Goto(p, stage),
           UNCHANGED <<hold, handed, cur>>
    PROVE  RowStep
<1>1. step'[p] # "send" /\ \A q \in Proc \ {p} : step'[q] = step[q]
  BY FirstStepType DEF Goto, TypeInv, ControlType
<1> QED
  BY <1>1, ProcessGivesUp

LEMMA LeaveGivesUp ==
    ASSUME TypeInv, DeliveryInv, NEW p \in Proc, NEW stage, Leave(p, stage),
           UNCHANGED <<hold, handed>>
    PROVE  RowStep
<1>1. step'[p] # "send" /\ \A q \in Proc \ {p} : step'[q] = step[q]
  BY FirstStepType DEF Leave, Goto, TypeInv, ControlType
<1>2. \A q \in Proc \ {p} : cur'[q] = cur[q]
  BY DEF Leave, TypeInv, ReleaseType
<1> QED
  BY <1>1, <1>2, ProcessGivesUp

LEMMA NothingMoves ==
    ASSUME UNCHANGED <<hold, handed, step, cur>>
    PROVE  RowStep
<1>1. RowsGiveUp({})
  BY DEF RowsGiveUp, Sending
<1> QED
  BY <1>1 DEF RowStep

\* The steps of a release.
LEMMA ReleaseRowStep ==
    ASSUME TypeInv, DeliveryInv, NEW p \in Proc, NEW b \in ReleaseStages,
           \/ ListHolds(p, b) \/ MarkReleasingUnknown(p, b) \/ ClaimHold(p, b)
           \/ Send(p) \/ FinishHold(p, b)
    PROVE  RowStep
<1> DEFINE OthersKept == \A q \in Proc \ {p} : step'[q] = step[q] /\ cur'[q] = cur[q]
<1>1. ASSUME NEW s, NextStep(p, s), cur' = cur \/ \E e : cur' = [cur EXCEPT ![p] = e]
      PROVE  step'[p] = s /\ OthersKept
  BY <1>1 DEF NextStep, TypeInv, ControlType, ReleaseType
<1>2. ASSUME NEW stage, Leave(p, stage) PROVE step'[p] # "send" /\ OthersKept
  BY <1>2, FirstStepType DEF Leave, Goto, TypeInv, ControlType, ReleaseType
<1>3. CASE ListHolds(p, b)
  <2>1. UNCHANGED <<hold, handed>>
    BY <1>3 DEF ListHolds, rows, sent
  <2>2. step'[p] # "send" /\ OthersKept
    BY <1>1, <1>2, <1>3 DEF ListHolds
  <2> QED
    BY <2>1, <2>2, ProcessGivesUp
<1>4. CASE MarkReleasingUnknown(p, b)
  <2>1. step[p] # "send" /\ step'[p] # "send" /\ OthersKept /\ UNCHANGED handed
    BY <1>1, <1>2, <1>4 DEF MarkReleasingUnknown, release, sent
  <2>2. SendersKept
    BY <2>1 DEF SendersKept, Sending
  <2>3. CASE UNCHANGED hold
    BY <2>1, <2>3, ProcessGivesUp
  <2>4. CASE ~UNCHANGED hold
    <3> DEFINE D == {d \in Delivery : Abandoned(p, d)}
    <3>1. RowsDecided(D, "unknown")
      BY <1>4, <2>1, <2>2, <2>4 DEF MarkReleasingUnknown, RowsDecided, Abandoned
    <3> QED
      BY <3>1 DEF RowStep, RowOutcome
  <2> QED
    BY <2>3, <2>4
<1>5. CASE ClaimHold(p, b)
  <2>1. UNCHANGED handed /\ step[p] = "claim"
    BY <1>5 DEF ClaimHold, sent
  <2>2. CASE Leave(p, b.ok) /\ UNCHANGED hold
    BY <2>1, <2>2, LeaveGivesUp
  <2>3. CASE UNCHANGED <<hold, cur, control>>
    BY <2>1, <2>3, NothingMoves DEF control
  <2>4. ASSUME NEW d \in Delivery, Claimable(d), WriteClaim(d),
               \/ cur' = [cur EXCEPT ![p] = d] /\ NextStep(p, "send")
               \/ UNCHANGED <<cur, control>>
        PROVE  RowStep
    <3>1. CASE cur' = [cur EXCEPT ![p] = d] /\ NextStep(p, "send")
      <4>1. step'[p] = "send" /\ cur'[p] = d /\ OthersKept
        BY <3>1, <1>1 DEF TypeInv, ReleaseType
      <4>2. RowClaimed(p, d, TRUE)
        BY <2>1, <2>4, <4>1 DEF RowClaimed, Claimable, WriteClaim, Sending
      <4> QED
        BY <4>2 DEF RowStep
    <3>2. CASE UNCHANGED <<cur, control>>
      <4>1. RowClaimed(p, d, FALSE)
        BY <2>1, <2>4, <3>2 DEF RowClaimed, Claimable, WriteClaim, Sending, control
      <4> QED
        BY <4>1 DEF RowStep
    <3> QED
      BY <2>4, <3>1, <3>2
  <2>5. todo[p] \subseteq Delivery
    BY DEF TypeInv, ReleaseType
  <2> QED
    BY <1>5, <2>2, <2>3, <2>4, <2>5 DEF ClaimHold
<1>6. CASE Send(p)
  <2>1. step[p] = "send" /\ step'[p] = "finish" /\ OthersKept /\ UNCHANGED hold
    BY <1>1, <1>6 DEF Send, rows
  <2>2. cur[p] \in Delivery /\ Sending(p, cur[p])
    BY <2>1 DEF TypeInv, ReleaseType, Sending
  <2>3. CASE UNCHANGED handed
    BY <2>1, <2>3, ProcessGivesUp
  <2>4. CASE handed' = [handed EXCEPT ![cur[p]] = @ + 1]
    <3>1. RowHandedOver(p, cur[p])
      BY <2>1, <2>2, <2>4 DEF RowHandedOver, Sending
    <3> QED
      BY <2>2, <3>1 DEF RowStep
  <2> QED
    BY <1>6, <2>3, <2>4 DEF Send, sent
<1>7. CASE FinishHold(p, b)
  <2>1. step[p] = "finish" /\ step'[p] # "send" /\ OthersKept /\ UNCHANGED handed
    BY <1>1, <1>2, <1>7 DEF FinishHold, sent
  <2>2. SendersKept
    BY <2>1 DEF SendersKept, Sending
  <2>3. cur[p] \in Delivery /\ RowResult(res[p]) \in RowOutcome
    BY <2>1 DEF TypeInv, ReleaseType, RowResult, RowOutcome
  <2>4. CASE UNCHANGED hold
    BY <2>1, <2>4, ProcessGivesUp
  <2>5. CASE ~UNCHANGED hold
    <3>1. hold[cur[p]] = "releasing" /\ hold' = [hold EXCEPT ![cur[p]] = RowResult(res[p])]
      BY <1>7, <2>3, <2>5 DEF FinishHold, TypeInv, RowType
    <3>2. RowsDecided({cur[p]}, RowResult(res[p]))
      BY <2>1, <2>2, <2>3, <3>1 DEF RowsDecided, TypeInv, RowType
    <3> QED
      BY <2>3, <3>2 DEF RowStep
  <2> QED
    BY <2>4, <2>5
<1> QED
  BY <1>3, <1>4, <1>5, <1>6, <1>7

LEMMA StepIsRowStep ==
    ASSUME TypeInv, DeliveryInv, [Next]_vars
    PROVE  RowStep /\ HeldStays
<1>1. ASSUME NEW m \in Migration, Create(m) PROVE RowStep /\ HeldStays
  BY <1>1, NothingMoves DEF Create, HeldStays, rows, control, release, sending, sent
<1>2. ASSUME NEW p \in Request, NEW m \in Migration,
             Discover(p, m) \/ Preflight(p, m) \/ Commit(p, m) \/ Rollback(p, m)
      PROVE RowStep /\ HeldStays
  <2>1. PICK stage : Call(p, m, stage)
    BY <1>2 DEF Discover, Preflight, Commit, Rollback
  <2>2. step'[p] # "send" /\ \A q \in Proc \ {p} : step'[q] = step[q] /\ cur'[q] = cur[q]
    BY <2>1, FirstStepType DEF Call, release, TypeInv, ControlType, Proc
  <2> QED
    BY <2>1, <2>2, ProcessGivesUp DEF Call, HeldStays, rows, sent, sending, Proc
<1>3. ASSUME NEW p \in Request, Disconnect(p) PROVE RowStep /\ HeldStays
  BY <1>3, LeaveGivesUp DEF Disconnect, HeldStays, rows, sent, sending, Proc
<1>4. ASSUME NEW p \in Proc, ProcStep(p) PROVE RowStep /\ HeldStays
  <2>1. CASE ReleaseHolds(p)
    BY <2>1, ReleaseRowStep
    DEF ReleaseHolds, ListHolds, MarkReleasingUnknown, ClaimHold, Send, FinishHold, HeldStays, sending
  <2>2. CASE CheckTransition(p)
    <3>1. UNCHANGED <<hold, handed, cur, dpc>>
      BY <2>2 DEF CheckTransition, OnlyControl, rows, release, sent, sending
    <3>2. PICK stage : NextStep(p, "write") \/ Goto(p, stage)
      BY <2>2 DEF CheckTransition
    <3>3. CASE NextStep(p, "write")
      <4>1. step'[p] # "send" /\ \A q \in Proc \ {p} : step'[q] = step[q]
        BY <3>3 DEF NextStep, TypeInv, ControlType
      <4> QED
        BY <3>1, <4>1, ProcessGivesUp DEF HeldStays
    <3> QED
      BY <3>1, <3>2, <3>3, GotoGivesUp DEF HeldStays
  <2>3. CASE \/ Validate(p) \/ WriteTransition(p) \/ SwitchRoute(p) \/ ReadBack(p)
             \/ SetRollbackExpiry(p) \/ RebuildProjection(p) \/ CompleteNewRoute(p) \/ InspectRoute(p)
    <3>1. UNCHANGED <<hold, handed, cur, dpc>>
      BY <2>3
      DEF Validate, WriteTransition, SwitchRoute, ReadBack, SetRollbackExpiry, RebuildProjection,
          CompleteNewRoute, InspectRoute, OnlyControl, rows, release, sent, sending
    <3>2. PICK stage : Goto(p, stage)
      BY <2>3
      DEF Validate, WriteTransition, SwitchRoute, ReadBack, SetRollbackExpiry, RebuildProjection,
          CompleteNewRoute, InspectRoute
    <3> QED
      BY <3>1, <3>2, GotoGivesUp DEF HeldStays
  <2> QED
    BY <1>4, <2>1, <2>2, <2>3 DEF ProcStep
<1>5. CASE Recover
  <2>1. UNCHANGED <<hold, handed, cur, dpc>> /\ Boot \in Proc
    BY <1>5 DEF Recover, OnlyControl, rows, release, sent, sending, Proc
  <2>2. step'[Boot] # "send" /\ \A q \in Proc \ {Boot} : step'[q] = step[q]
    <3>1. \E stage : step' = [step EXCEPT ![Boot] = FirstStep(stage)]
      BY <1>5 DEF Recover, Goto
    <3> QED
      BY <2>1, <3>1, FirstStepType DEF TypeInv, ControlType
  <2> QED
    BY <2>1, <2>2, ProcessGivesUp DEF HeldStays
<1>6. ASSUME NEW d \in Delivery, Deliver(d) PROVE RowStep /\ HeldStays
  <2>1. UNCHANGED <<step, cur, handed>>
    BY <1>6 DEF Deliver, HookCurrent, TryHoldForTarget, ReportHoldFailure, NotDelivery,
                control, release, sent
  <2>2. dpc[d] \in {"idle", "hold", "report", "report_write"}
    BY <1>6 DEF Deliver, HookCurrent, TryHoldForTarget, ReportHoldFailure
  <2>3. HeldStays
    BY <1>6, <2>2 DEF Deliver, HookCurrent, TryHoldForTarget, ReportHoldFailure, SetDelivery,
                      HeldStays, TypeInv, SendingType
  <2>4. CASE UNCHANGED hold
    BY <2>1, <2>3, <2>4, NothingMoves
  <2>5. CASE ~UNCHANGED hold
    <3>1. hold' = [hold EXCEPT ![d] = "held"] /\ dpc' = [dpc EXCEPT ![d] = "held"]
      BY <1>6, <2>5 DEF Deliver, HookCurrent, TryHoldForTarget, ReportHoldFailure, SetDelivery, rows
    <3>2. RowHeld(d) /\ dpc'[d] = "held"
      BY <2>1, <2>2, <3>1 DEF RowHeld, SendersKept, Sending, DeliveryInv, TypeInv, SendingType
    <3> QED
      BY <2>3, <3>2 DEF RowStep
  <2> QED
    BY <2>4, <2>5
<1>7. ASSUME NEW c \in Connector, NEW on \in BOOLEAN, PatchConnector(c, on)
      PROVE RowStep /\ HeldStays
  BY <1>7, NothingMoves DEF PatchConnector, HeldStays, rows, control, release, sending, sent
<1>8. CASE Crash
  <2>1. RowsGiveUp(Delivery)
    BY <1>8 DEF Crash, RowsGiveUp, Sending, rows, sent
  <2>2. HeldStays
    BY <1>8 DEF Crash, HeldStays
  <2> QED
    BY <2>1, <2>2 DEF RowStep
<1>9. CASE UNCHANGED vars
  BY <1>9, NothingMoves DEF vars, HeldStays, rows, control, release, sending, sent
<1> QED
  BY <1>1, <1>2, <1>3, <1>4, <1>5, <1>6, <1>7, <1>8, <1>9 DEF Next

LEMMA DeliveryStep ==
    ASSUME TypeInv, DeliveryInv, RowStep, HeldStays
    PROVE  DeliveryInv'
<1> USE DEF DeliveryInv, HeldStays
<1>0. /\ hold \in [Delivery -> {"none", "held", "releasing", "released", "unknown", "failed"}]
      /\ handed \in [Delivery -> Nat]
  BY DEF TypeInv, RowType, SentType
<1>1. ASSUME NEW D \in SUBSET Delivery, RowsGiveUp(D) PROVE DeliveryInv'
  BY <1>1 DEF RowsGiveUp
<1>2. ASSUME NEW d \in Delivery, RowHeld(d), dpc'[d] = "held" PROVE DeliveryInv'
  <2>1. \A p \in Proc : ~Sending(p, d)
    BY <1>2 DEF RowHeld
  <2> QED
    BY <1>0, <1>2, <2>1 DEF RowHeld, SendersKept
<1>3. ASSUME NEW p \in Proc, NEW d \in Delivery, NEW starts \in BOOLEAN, RowClaimed(p, d, starts)
      PROVE  DeliveryInv'
  <2>1. \A q \in Proc : ~Sending(q, d)
    BY <1>3 DEF RowClaimed
  <2> QED
    BY <1>0, <1>3, <2>1 DEF RowClaimed
<1>4. ASSUME NEW p \in Proc, NEW d \in Delivery, RowHandedOver(p, d) PROVE DeliveryInv'
  <2>1. hold[d] \notin {"none", "held"} /\ handed[d] = 0 /\ handed'[d] = 1
    BY <1>0, <1>4 DEF RowHandedOver
  <2>2. \A q \in Proc : ~(Sending(q, d))'
    BY <1>4 DEF RowHandedOver
  <2>3. \A e \in Delivery \ {d} : handed'[e] = handed[e]
    BY <1>0, <1>4 DEF RowHandedOver
  <2> QED
    BY <1>0, <1>4, <2>1, <2>2, <2>3 DEF RowHandedOver
<1>5. ASSUME NEW D \in SUBSET Delivery, NEW outcome \in RowOutcome, RowsDecided(D, outcome)
      PROVE  DeliveryInv'
  BY <1>0, <1>5 DEF RowsDecided, SendersKept, RowOutcome
<1> QED
  BY <1>1, <1>2, <1>3, <1>4, <1>5 DEF RowStep

LEMMA DeliveryInit == Init => DeliveryInv
  BY DEF Init, DeliveryInv, Sending

\* No message is sent twice, by the send path, by a release of a commit, of a
\* rollback or of a restart, or by two of them: the coordinator's main promise.
THEOREM AtMostOneDelivery == Spec => []NoDuplicateDelivery
<1>1. TypeInv /\ DeliveryInv => NoDuplicateDelivery
  <2> SUFFICES ASSUME TypeInv, DeliveryInv, NEW d \in Delivery
               PROVE  handed[d] + (IF dpc[d] = "direct" THEN 1 ELSE 0) <= 1
    BY DEF NoDuplicateDelivery
  <2>1. handed[d] \in Nat
    BY DEF TypeInv, SentType
  <2>2. CASE dpc[d] = "direct"
    <3>1. handed[d] = 0
      BY <2>2 DEF DeliveryInv
    <3> QED
      BY <2>2, <3>1
  <2>3. CASE dpc[d] # "direct"
    <3>1. handed[d] <= 1
      BY DEF DeliveryInv
    <3> QED
      BY <2>1, <2>3, <3>1
  <2> QED
    BY <2>2, <2>3
<1>2. TypeInv /\ DeliveryInv /\ [Next]_vars => DeliveryInv'
  BY StepIsRowStep, DeliveryStep
<1> QED
  BY <1>1, <1>2, DeliveryInit, TypeInit, TypeStep, PTL DEF Spec

\* Each step of the rows is a step of the ledger.
LEMMA RowStepIsLedgerStep ==
    ASSUME TypeInv, DeliveryInv, RowStep
    PROVE  [Ledger!Next]_(Ledger!vars)
<1> DEFINE Out(d) == \E p \in Proc : Sending(p, d)
<1>0. /\ hold \in [Delivery -> {"none", "held", "releasing", "released", "unknown", "failed"}]
      /\ handed \in [Delivery -> Nat]
  BY DEF TypeInv, RowType, SentType
<1>1. Permit = [d \in Delivery |-> IF Out(d) THEN "out"
                                   ELSE IF hold[d] \in {"none", "held"} THEN "unissued" ELSE "spent"]
  BY DEF Permit, Sending
<1>2. Permit' = [d \in Delivery |-> IF Out(d)' THEN "out"
                                   ELSE IF hold'[d] \in {"none", "held"} THEN "unissued" ELSE "spent"]
  BY DEF Permit, Sending
<1>3. \A d \in Delivery : Out(d) => hold[d] \notin {"none", "held"}
  BY DEF DeliveryInv
<1>4. ASSUME NEW D \in SUBSET Delivery, RowsGiveUp(D) PROVE Ledger!GiveUp(D)
  <2>1. \A d \in Delivery : Out(d)' <=> Out(d) /\ d \notin D
    BY <1>4 DEF RowsGiveUp
  <2> QED
    BY <1>1, <1>2, <1>3, <1>4, <2>1 DEF RowsGiveUp, Ledger!GiveUp
<1>5. ASSUME NEW d \in Delivery, RowHeld(d) PROVE Ledger!Hold(d)
  <2>1. \A e \in Delivery : Out(e)' <=> Out(e)
    BY <1>5 DEF RowHeld, SendersKept
  <2>2. \A e \in Delivery : hold'[e] \in {"none", "held"} <=> hold[e] \in {"none", "held"}
    BY <1>0, <1>5 DEF RowHeld
  <2>3. Permit' = Permit
    BY <1>1, <1>2, <2>1, <2>2
  <2> QED
    BY <1>5, <2>3 DEF RowHeld, Ledger!Hold
<1>6. ASSUME NEW p \in Proc, NEW d \in Delivery, NEW starts \in BOOLEAN, RowClaimed(p, d, starts)
      PROVE  Ledger!Claim(d)
  <2>1. \A e \in Delivery : Out(e)' <=> Out(e) \/ (starts /\ e = d)
    BY <1>6 DEF RowClaimed
  <2>2. ~Out(d)
    BY <1>3, <1>6 DEF RowClaimed
  <2>3. Permit' = [Permit EXCEPT ![d] = IF starts THEN "out" ELSE "spent"]
    BY <1>0, <1>1, <1>2, <1>6, <2>1, <2>2 DEF RowClaimed
  <2> QED
    BY <1>6, <2>3 DEF RowClaimed, Ledger!Claim
<1>7. ASSUME NEW p \in Proc, NEW d \in Delivery, RowHandedOver(p, d) PROVE Ledger!HandOver(d)
  <2>1. \A e \in Delivery : Out(e)' <=> Out(e) /\ e # d
    BY <1>7 DEF RowHandedOver, DeliveryInv, Sending
  <2>2. Out(d) /\ hold[d] \notin {"none", "held"}
    BY <1>3, <1>7 DEF RowHandedOver
  <2>3. Permit[d] = "out" /\ Permit' = [Permit EXCEPT ![d] = "spent"]
    BY <1>1, <1>2, <1>7, <2>1, <2>2 DEF RowHandedOver
  <2> QED
    BY <1>7, <2>3 DEF RowHandedOver, Ledger!HandOver
<1>8. ASSUME NEW D \in SUBSET Delivery, NEW outcome \in RowOutcome, RowsDecided(D, outcome)
      PROVE  Ledger!Decide(D, outcome)
  <2>1. \A e \in Delivery : Out(e)' <=> Out(e)
    BY <1>8 DEF RowsDecided, SendersKept
  <2>2. \A e \in Delivery : hold'[e] \in {"none", "held"} <=> hold[e] \in {"none", "held"}
    BY <1>0, <1>8 DEF RowsDecided, RowOutcome
  <2>3. Permit' = Permit
    BY <1>1, <1>2, <2>1, <2>2
  <2> QED
    BY <1>8, <2>3 DEF RowsDecided, Ledger!Decide
<1>9. RowOutcome = Ledger!Outcome
  BY DEF RowOutcome, Ledger!Outcome
<1> QED
  BY <1>4, <1>5, <1>6, <1>7, <1>8, <1>9 DEF RowStep, Ledger!Next

\* The coordinator refines the ledger: whatever calls, restarts, faults and
\* the send path do to the rows, each step is a hold, a claim, a hand-over, a
\* lost right to hand over, or a final outcome.
THEOREM RowsRefineLedger == Spec => ImplementsLedger
<1>1. Init => Ledger!Init
  BY DEF Init, Ledger!Init, Permit
<1>2. TypeInv /\ DeliveryInv /\ [Next]_vars => [Ledger!Next]_(Ledger!vars)
  BY StepIsRowStep, RowStepIsLedgerStep
<1>3. TypeInv /\ DeliveryInv /\ [Next]_vars => DeliveryInv'
  BY StepIsRowStep, DeliveryStep
<1> QED
  BY <1>1, <1>2, <1>3, DeliveryInit, TypeInit, TypeStep, PTL DEF Spec, Ledger!Spec, ImplementsLedger

\* The permit follows the row: none before a claim, and a permit that is still
\* out has not been used.
LedgerInv ==
    /\ hold \in [Delivery -> {"none", "held", "releasing"} \cup Ledger!Outcome]
    /\ Permit \in [Delivery -> {"unissued", "out", "spent"}]
    /\ handed \in [Delivery -> Nat]
    /\ \A d \in Delivery :
         /\ hold[d] \in {"none", "held"} => Permit[d] = "unissued"
         /\ Permit[d] \in {"unissued", "out"} => handed[d] = 0
         /\ handed[d] <= 1

LEMMA LedgerInvInductive == LedgerInv /\ [Ledger!Next]_(Ledger!vars) => LedgerInv'
<1> SUFFICES ASSUME LedgerInv, [Ledger!Next]_(Ledger!vars) PROVE LedgerInv'
  OBVIOUS
<1> USE DEF LedgerInv, Ledger!Outcome
<1>1. ASSUME NEW d \in Delivery, Ledger!Hold(d) PROVE LedgerInv'
  BY <1>1 DEF Ledger!Hold
<1>2. ASSUME NEW d \in Delivery, Ledger!Claim(d) PROVE LedgerInv'
  BY <1>2 DEF Ledger!Claim
<1>3. ASSUME NEW d \in Delivery, Ledger!HandOver(d) PROVE LedgerInv'
  BY <1>3 DEF Ledger!HandOver
<1>4. ASSUME NEW D \in SUBSET Delivery, Ledger!GiveUp(D) PROVE LedgerInv'
  BY <1>4 DEF Ledger!GiveUp
<1>5. ASSUME NEW D \in SUBSET Delivery, NEW outcome \in Ledger!Outcome, Ledger!Decide(D, outcome)
      PROVE LedgerInv'
  BY <1>5 DEF Ledger!Decide
<1>6. CASE UNCHANGED (Ledger!vars)
  BY <1>6 DEF Ledger!vars
<1> QED
  BY <1>1, <1>2, <1>3, <1>4, <1>5, <1>6 DEF Ledger!Next

\* No message is handed over twice, and none before its row is claimed, by whatever
\* keeps to the ledger, of which RowsRefineLedger shows that the coordinator does.
THEOREM LedgerHandedOnce == ImplementsLedger => []Ledger!HandedOnce
<1>1. Ledger!Init => LedgerInv
  BY DEF Ledger!Init, LedgerInv
<1>2. LedgerInv => Ledger!HandedOnce
  <2> SUFFICES ASSUME LedgerInv, NEW d \in Delivery
               PROVE  handed[d] <= IF hold[d] \in {"none", "held"} THEN 0 ELSE 1
    BY DEF Ledger!HandedOnce
  <2>1. CASE hold[d] \in {"none", "held"}
    <3>1. handed[d] = 0
      BY <2>1 DEF LedgerInv
    <3> QED
      BY <2>1, <3>1
  <2>2. CASE hold[d] \notin {"none", "held"}
    BY <2>2 DEF LedgerInv
  <2> QED
    BY <2>1, <2>2
<1> QED
  BY <1>1, LedgerInvInductive, <1>2, PTL DEF Ledger!Spec, ImplementsLedger

-----------------------------------------------------------------------------
(* The wiring of this build configures no sender (admin/server.go).           *)

\* A release that goes on to its claims without a sender has listed no row.
NoSenderInv == \A p \in Proc :
    /\ step[p] = "mark" /\ ~listed[p] => todo[p] = {}
    /\ step[p] = "claim" => todo[p] = {}
    /\ step[p] \notin {"send", "finish"}

LEMMA NoSenderStep ==
    ASSUME ~SenderConfigured, TypeInv, NoSenderInv, [Next]_vars
    PROVE  NoSenderInv'
<1> USE DEF NoSenderInv
<1>0. ASSUME UNCHANGED <<todo, listed>>,
             \A q \in Proc : step'[q] \in {"mark", "claim", "send", "finish"} => step'[q] = step[q]
      PROVE  NoSenderInv'
  BY <1>0
<1>1. ASSUME NEW p \in Proc, NEW stage, Goto(p, stage)
      PROVE  \A q \in Proc : step'[q] \in {"mark", "claim", "send", "finish"} => q # p /\ step'[q] = step[q]
  BY <1>1, FirstStepType DEF Goto, TypeInv, ControlType
<1>2. ASSUME NEW p \in Proc, NEW stage, Leave(p, stage) PROVE NoSenderInv'
  BY <1>1, <1>2 DEF Leave, TypeInv, ReleaseType
<1>3. ASSUME NEW p \in Request, NEW m \in Migration,
             Discover(p, m) \/ Preflight(p, m) \/ Commit(p, m) \/ Rollback(p, m)
      PROVE NoSenderInv'
  <2>1. PICK stage : Call(p, m, stage)
    BY <1>3 DEF Discover, Preflight, Commit, Rollback
  <2> QED
    BY <1>0, <2>1, FirstStepType DEF Call, release, TypeInv, ControlType, Proc
<1>4. ASSUME NEW p \in Proc, ProcStep(p) PROVE NoSenderInv'
  <2>1. CASE ReleaseHolds(p)
    <3>1. PICK b \in ReleaseStages :
            \/ ListHolds(p, b) \/ MarkReleasingUnknown(p, b) \/ ClaimHold(p, b)
            \/ Send(p) \/ FinishHold(p, b)
      BY <2>1 DEF ReleaseHolds
    <3>2. ASSUME NEW s, NextStep(p, s)
          PROVE  step'[p] = s /\ \A q \in Proc \ {p} : step'[q] = step[q]
      BY <3>2 DEF NextStep, TypeInv, ControlType
    <3>3. CASE ListHolds(p, b)
      <4>1. CASE \E stage : Leave(p, stage)
        BY <1>2, <4>1
      <4>2. CASE ~\E stage : Leave(p, stage)
        <5>1. /\ NextStep(p, "mark")
              /\ todo' = [todo EXCEPT ![p] = {d \in RowsOf(arg[p]) : hold[d] \in {"held", "failed"}}]
              /\ listed' = [listed EXCEPT ![p] = RowsOf(arg[p]) # {}]
          BY <3>3, <4>2 DEF ListHolds
        <5>2. ~listed'[p] => todo'[p] = {}
          BY <5>1 DEF TypeInv, ReleaseType
        <5> QED
          BY <3>2, <5>1, <5>2 DEF TypeInv, ReleaseType
      <4> QED
        BY <4>1, <4>2
    <3>4. CASE MarkReleasingUnknown(p, b)
      BY <1>2, <3>2, <3>4 DEF MarkReleasingUnknown, SenderUnavailable, release, TypeInv, ReleaseType
    <3>5. CASE ClaimHold(p, b)
      BY <1>2, <3>5 DEF ClaimHold
    <3>6. CASE Send(p) \/ FinishHold(p, b)
      BY <3>6 DEF Send, FinishHold
    <3> QED
      BY <3>1, <3>3, <3>4, <3>5, <3>6
  <2>2. CASE ~ReleaseHolds(p)
    <3>1. UNCHANGED <<todo, listed>>
      BY <1>4, <2>2
      DEF ProcStep, Validate, CheckTransition, WriteTransition, SwitchRoute, ReadBack,
          SetRollbackExpiry, RebuildProjection, CompleteNewRoute, InspectRoute, OnlyControl, release
    <3>2. NextStep(p, "write") \/ \E stage : Goto(p, stage)
      BY <1>4, <2>2
      DEF ProcStep, Validate, CheckTransition, WriteTransition, SwitchRoute, ReadBack,
          SetRollbackExpiry, RebuildProjection, CompleteNewRoute, InspectRoute
    <3> QED
      BY <1>0, <1>1, <3>1, <3>2 DEF NextStep, TypeInv, ControlType
  <2> QED
    BY <2>1, <2>2
<1> QED
  BY <1>0, <1>1, <1>2, <1>3, <1>4, FirstStepType
  DEF Next, vars, control, release, Create, Disconnect, Recover, OnlyControl, Goto, Deliver, HookCurrent, TryHoldForTarget,
      ReportHoldFailure, NotDelivery, PatchConnector, Crash, TypeInv, ControlType, ReleaseType, Proc

\* Without a sender a held message stays held: no commit, rollback, restart or
\* fault sends it, closes it or loses it.
THEOREM HeldWithoutSender ==
    ASSUME ~SenderConfigured PROVE Spec => HeldStaysWithoutSender
<1>1. Init => NoSenderInv
  BY DEF Init, NoSenderInv
<1>2. TypeInv /\ NoSenderInv /\ [Next]_vars => NoSenderInv'
  BY NoSenderStep
<1>3. TypeInv /\ NoSenderInv /\ [Next]_vars
        => [\A d \in Delivery : hold[d] = "held" => hold'[d] = "held"]_vars
  <2> SUFFICES ASSUME TypeInv, NoSenderInv, [Next]_vars, NEW d \in Delivery, hold[d] = "held"
               PROVE  hold'[d] = "held"
    OBVIOUS
  <2>1. ASSUME NEW p \in Proc, ReleaseHolds(p) PROVE hold'[d] = "held"
    BY <2>1
    DEF ReleaseHolds, ListHolds, MarkReleasingUnknown, Abandoned, ClaimHold, Send, FinishHold,
        NoSenderInv, TypeInv, RowType, rows
  <2>2. ASSUME NEW e \in Delivery, TryHoldForTarget(e) PROVE hold'[d] = "held"
    BY <2>2 DEF TryHoldForTarget, TypeInv, RowType, rows
  <2>3. CASE UNCHANGED hold
    BY <2>3
  <2> QED
    BY <2>1, <2>2, <2>3
    DEF Next, vars, rows, Create, Discover, Preflight, Commit, Rollback, Call, Disconnect, ProcStep,
        Validate, CheckTransition, WriteTransition, SwitchRoute, ReadBack, SetRollbackExpiry,
        RebuildProjection, CompleteNewRoute, InspectRoute, Recover, OnlyControl, Deliver, HookCurrent,
        ReportHoldFailure, PatchConnector, Crash
<1> QED
  BY <1>1, <1>2, <1>3, TypeInit, TypeStep, PTL DEF Spec, HeldStaysWithoutSender

-----------------------------------------------------------------------------
(* One administrator at a time, who edits no connector meanwhile: the route   *)
(* moves only under the process that is at work.                              *)

OneAdministrator == MaxPatches = 0 /\ \A p, q \in Request : p = q

\* The stages a process reaches only while the new, or the old, route is on.
OnNew == { "c_routed", "c_window", "c_release", "b_new_release" }
OnOld == { "c_started", "c_hold", "c_switch", "c_old_release", "r_release",
           "b_before_release", "b_old_release", "b_r_release" }

Fits(stage, m) == (stage \in OnNew => main = NewOf[m]) /\ (stage \in OnOld => main = OldOf[m])
AloneInv == \A p, q \in Proc : pc[p] # "idle" /\ pc[q] # "idle" => p = q
RouteInv == AloneInv /\ \A p \in Proc : Fits(pc[p], arg[p])

LEMMA RouteTables ==
    /\ "idle" \notin OnNew \cup OnOld
    /\ \A w \in JournalStages :
         /\ w.ok \in OnNew => w.at \in OnNew
         /\ w.ok \in OnOld => w.at \in OnOld
         /\ w.err \notin OnNew \cup OnOld
    /\ \A b \in ReleaseStages \cup RebuildStages : b.ok \notin OnNew \cup OnOld /\ b.err \notin OnNew \cup OnOld
    /\ \A b \in ForwardSwitches : b.at \in OnOld /\ b.ok \notin OnNew \cup OnOld /\ b.err \in OnOld \ OnNew
    /\ \A b \in BackwardSwitches : b.ok \in OnOld \ OnNew /\ b.err \notin OnNew \cup OnOld
    /\ \A b \in NewRouteReleases : b.at \in OnNew
    /\ \A b \in OldRouteReleases : b.at \in OnOld
<1>1. /\ "idle" \notin OnNew \cup OnOld
      /\ \A w \in JournalStages :
           /\ w.ok \in OnNew => w.at \in OnNew
           /\ w.ok \in OnOld => w.at \in OnOld
           /\ w.err \notin OnNew \cup OnOld
  BY DEF JournalStages, Write, OnNew, OnOld
<1>2. \A b \in ReleaseStages \cup RebuildStages : b.ok \notin OnNew \cup OnOld /\ b.err \notin OnNew \cup OnOld
  BY DEF ReleaseStages, NewRouteReleases, OldRouteReleases, RebuildStages, Branch, OnNew, OnOld
<1>3. /\ \A b \in ForwardSwitches : b.at \in OnOld /\ b.ok \notin OnNew \cup OnOld /\ b.err \in OnOld \ OnNew
      /\ \A b \in BackwardSwitches : b.ok \in OnOld \ OnNew /\ b.err \notin OnNew \cup OnOld
      /\ \A b \in NewRouteReleases : b.at \in OnNew
      /\ \A b \in OldRouteReleases : b.at \in OnOld
  BY DEF ForwardSwitches, BackwardSwitches, NewRouteReleases, OldRouteReleases, Branch, OnNew, OnOld
<1> QED
  BY <1>1, <1>2, <1>3

\* The process at work goes to a stage that fits the route it leaves behind.
LEMMA GotoRoute ==
    ASSUME TypeInv, RouteInv, NEW p \in Proc, pc[p] # "idle", NEW stage, Goto(p, stage),
           stage \in OnNew => main' = NewRoute(p), stage \in OnOld => main' = OldRoute(p)
    PROVE  RouteInv'
<1>1. \A q \in Proc \ {p} : pc'[q] = "idle"
  BY DEF Goto, RouteInv, AloneInv, TypeInv, ControlType
<1>2. /\ pc'[p] = stage
      /\ stage # "idle" => arg'[p] = arg[p]
  BY DEF Goto, TypeInv, ControlType
<1>3. AloneInv'
  BY <1>1 DEF AloneInv
<1>4. ASSUME NEW q \in Proc
      PROVE  /\ pc'[q] \in OnNew => main' = NewOf[arg'[q]]
             /\ pc'[q] \in OnOld => main' = OldOf[arg'[q]]
  <2>1. CASE q = p
    <3>1. stage # "idle" => arg'[p] = arg[p]
      BY <1>2
    <3>2. stage \in OnNew \cup OnOld => stage # "idle"
      BY RouteTables
    <3> QED
      BY <1>2, <2>1, <3>1, <3>2 DEF NewRoute, OldRoute
  <2>2. CASE q # p
    BY <1>1, <2>2, RouteTables
  <2> QED
    BY <2>1, <2>2
<1> QED
  BY <1>3, <1>4 DEF RouteInv, Fits

LEMMA StayRoute == RouteInv /\ UNCHANGED <<pc, arg, main>> => RouteInv'
  BY DEF RouteInv, AloneInv, Fits

LEMMA SwitchKeepsRoute ==
    ASSUME TypeInv, RouteInv, NEW p \in Proc, SwitchRoute(p)
    PROVE  RouteInv'
<1>1. CASE \E b \in ForwardSwitches :
             /\ pc[p] = b.at
             /\ Goto(p, b.ok) \/ (UNCHANGED main /\ Goto(p, b.err))
  <2>1. PICK b \in ForwardSwitches :
             /\ pc[p] = b.at
             /\ Goto(p, b.ok) \/ (UNCHANGED main /\ Goto(p, b.err))
    BY <1>1
  <2>2. pc[p] # "idle" /\ main = OldRoute(p)
    BY <2>1, RouteTables DEF RouteInv, Fits, OldRoute
  <2>3. CASE Goto(p, b.ok)
    BY <2>1, <2>2, <2>3, RouteTables, GotoRoute
  <2>4. CASE UNCHANGED main /\ Goto(p, b.err)
    BY <2>1, <2>2, <2>4, RouteTables, GotoRoute
  <2> QED
    BY <2>1, <2>3, <2>4
<1>2. CASE \E b \in BackwardSwitches :
             /\ pc[p] = b.at
             /\ (main' = OldRoute(p) /\ Goto(p, b.ok)) \/ Goto(p, b.err)
  <2>1. PICK b \in BackwardSwitches :
             /\ pc[p] = b.at
             /\ (main' = OldRoute(p) /\ Goto(p, b.ok)) \/ Goto(p, b.err)
    BY <1>2
  <2>2. pc[p] # "idle"
    BY <2>1, BranchTargets DEF Branches, BackwardSwitches, Branch
  <2> QED
    BY <2>1, <2>2, RouteTables, GotoRoute
<1>3. ForwardSwitches \cap BackwardSwitches = {}
  BY DEF ForwardSwitches, BackwardSwitches, Branch
<1> QED
  BY <1>1, <1>2, <1>3 DEF SwitchRoute, SwitchMainConnector

LEMMA ProcKeepsRoute ==
    ASSUME TypeInv, RouteInv, NEW p \in Proc, ProcStep(p)
    PROVE  RouteInv'
<1>1. CASE Validate(p) \/ ReadBack(p) \/ SetRollbackExpiry(p) \/ CompleteNewRoute(p)
  <2>1. pc[p] # "idle" /\ UNCHANGED main
    BY <1>1 DEF Validate, ReadBack, SetRollbackExpiry, CompleteNewRoute, OnlyControl
  <2>2. PICK stage : /\ Goto(p, stage)
                     /\ stage \in OnNew => main = NewRoute(p)
                     /\ stage \in OnOld => main = OldRoute(p)
    BY <1>1 DEF Validate, ReadBack, SetRollbackExpiry, CompleteNewRoute, OnNew, OnOld,
                RouteInv, Fits, NewRoute, OldRoute
  <2> QED
    BY <2>1, <2>2, GotoRoute
<1>2. CASE InspectRoute(p)
  <2>1. pc[p] # "idle" /\ UNCHANGED main
    BY <1>2 DEF InspectRoute, OnlyControl
  <2>2. PICK stage : /\ Goto(p, stage)
                     /\ stage \in OnNew => main = NewRoute(p)
                     /\ stage \in OnOld => main = OldRoute(p)
    BY <1>2 DEF InspectRoute, OnNew, OnOld
  <2> QED
    BY <2>1, <2>2, GotoRoute
<1>3. CASE CheckTransition(p) \/ WriteTransition(p)
  <2>1. PICK w \in JournalStages :
          /\ pc[p] = w.at /\ UNCHANGED main
          /\ UNCHANGED <<pc, arg>> \/ Goto(p, w.ok) \/ Goto(p, w.err)
    BY <1>3 DEF CheckTransition, WriteTransition, OnlyControl, NextStep
  <2>2. pc[p] # "idle"
    BY <2>1, JournalTargets
  <2>3. CASE Goto(p, w.ok)
    BY <2>1, <2>2, <2>3, RouteTables, GotoRoute DEF RouteInv, Fits, NewRoute, OldRoute
  <2>4. CASE Goto(p, w.err)
    BY <2>1, <2>2, <2>4, RouteTables, GotoRoute
  <2> QED
    BY <2>1, <2>3, <2>4, StayRoute
<1>4. CASE RebuildProjection(p) \/ ReleaseHolds(p)
  <2>1. PICK b \in ReleaseStages \cup RebuildStages :
          /\ pc[p] = b.at
          /\ UNCHANGED <<pc, arg, main>> \/ Goto(p, b.ok) \/ Goto(p, b.err)
    BY <1>4 DEF RebuildProjection, ReleaseHolds, ListHolds, MarkReleasingUnknown, ClaimHold, Send, FinishHold,
                Leave, NextStep, control
  <2>2. pc[p] # "idle"
    BY <2>1, BranchTargets DEF Branches
  <2> QED
    BY <2>1, <2>2, RouteTables, GotoRoute, StayRoute
<1> QED
  BY <1>1, <1>2, <1>3, <1>4, SwitchKeepsRoute DEF ProcStep

LEMMA RouteStep ==
    ASSUME OneAdministrator, TypeInv, RouteInv, [Next]_vars
    PROVE  RouteInv'
<1>1. ASSUME NEW p \in Request, NEW m \in Migration,
             Discover(p, m) \/ Preflight(p, m) \/ Commit(p, m) \/ Rollback(p, m)
      PROVE RouteInv'
  <2>1. PICK stage \in {"discovered", "pf_discovered", "pf_validate", "c_validate", "r_validate"} :
            Call(p, m, stage)
    BY <1>1 DEF Discover, Preflight, Commit, Rollback
  <2>2. \A q \in Proc : q # p => pc[q] = "idle" /\ pc'[q] = "idle"
    BY <2>1 DEF Call, Up, OneAdministrator, Proc, TypeInv, ControlType
  <2>3. pc'[p] = stage /\ stage \notin OnNew \cup OnOld
    BY <2>1 DEF Call, TypeInv, ControlType, Proc, OnNew, OnOld
  <2> QED
    BY <2>2, <2>3, RouteTables DEF RouteInv, AloneInv, Fits
<1>2. ASSUME NEW p \in Request, Disconnect(p) PROVE RouteInv'
  BY <1>2, GotoRoute, RouteTables DEF Disconnect, Leave, Proc
<1>3. CASE Recover
  <2>1. \A mark : RecoverStage(mark) \notin OnNew \cup OnOld
    BY DEF RecoverStage, OnNew, OnOld
  <2>2. /\ \A q \in Proc : q # Boot => pc'[q] = "idle"
        /\ pc'[Boot] \notin OnNew \cup OnOld
    BY <1>3, <2>1, RouteTables DEF Recover, Goto, RouteInv, AloneInv, TypeInv, ControlType, Proc
  <2> QED
    BY <2>2, RouteTables DEF RouteInv, AloneInv, Fits
<1>4. ASSUME NEW c \in Connector, NEW on \in BOOLEAN, PatchConnector(c, on) PROVE FALSE
  BY <1>4 DEF PatchConnector, OneAdministrator, TypeInv, BoundsType
<1>5. CASE Crash
  BY <1>5, RouteTables DEF Crash, RouteInv, AloneInv, Fits, OnNew, OnOld
<1>6. CASE UNCHANGED <<pc, arg, main>>
  BY <1>6, StayRoute
<1>7. ASSUME (\E m \in Migration : Create(m)) \/ (\E d \in Delivery : Deliver(d)) \/ UNCHANGED vars
      PROVE  UNCHANGED <<pc, arg, main>>
  BY <1>7 DEF Create, Deliver, HookCurrent, TryHoldForTarget, ReportHoldFailure, NotDelivery, control, vars
<1> QED
  BY <1>1, <1>2, <1>3, <1>4, <1>5, <1>6, <1>7, ProcKeepsRoute DEF Next

\* A held message goes to the connector that is the main one when it is handed over,
\* whatever crashes, faults and dropped connections come before, for any number of
\* migrations one administrator makes one after the other.
THEOREM SendsGoToMain ==
    ASSUME OneAdministrator PROVE Spec => SendsFollowRoute
<1>1. Init => RouteInv
  BY RouteTables DEF Init, RouteInv, AloneInv, Fits, OnNew, OnOld
<1>2. TypeInv /\ RouteInv /\ [Next]_vars => RouteInv'
  BY RouteStep
<1>3. TypeInv /\ RouteInv /\ [Next]_vars
        => [\A d \in Delivery : handed'[d] # handed[d] => via'[d] = main]_vars
  <2> SUFFICES ASSUME TypeInv, RouteInv, [Next]_vars, NEW d \in Delivery, handed'[d] # handed[d]
               PROVE  via'[d] = main
    OBVIOUS
  <2>1. PICK p \in Proc : ReleaseHolds(p)
    BY DEF Next, vars, sent, Create, Discover, Preflight, Commit, Rollback, Call, Disconnect, ProcStep,
           Validate, CheckTransition, WriteTransition, SwitchRoute, ReadBack, SetRollbackExpiry,
           RebuildProjection, CompleteNewRoute, InspectRoute, Recover, OnlyControl, Deliver, HookCurrent,
           TryHoldForTarget, NotDelivery, ReportHoldFailure, PatchConnector, Crash
  <2>2. PICK b \in ReleaseStages : pc[p] = b.at /\ Send(p)
    BY <2>1 DEF ReleaseHolds, ListHolds, MarkReleasingUnknown, ClaimHold, FinishHold, sent
  <2>3. via' = [via EXCEPT ![cur[p]] = Destination(p)] /\ d = cur[p]
    BY <2>2 DEF Send, sent, TypeInv, SentType
  <2>4. Destination(p) = main
    BY <2>2, RouteTables DEF Destination, At, ReleaseStages, RouteInv, Fits, NewRoute, OldRoute
  <2> QED
    BY <2>3, <2>4 DEF TypeInv, SentType
<1> QED
  BY <1>1, <1>2, <1>3, TypeInit, TypeStep, PTL DEF Spec, SendsFollowRoute

-----------------------------------------------------------------------------
(* The same, for what the journal tells a restart.  Without database errors it *)
(* is all that is needed.                                                      *)

NoErrors == MaxFaults = 0
\* No two migrations lead from the same connector to the same one.
RoutesDiffer == \A m, n \in Migration : OldOf[m] = OldOf[n] /\ NewOf[m] = NewOf[n] => m = n

\* The stages of Recover; the first stages of a commit; the markers before a window.
BootNames ==
  { "b_abandon", "b_completed", "b_unreleased", "b_failed", "b_switch_failed", "b_old_unreleased",
    "b_ambiguous", "b_rolled_back", "b_r_unknown", "b_r_no_switch", "b_r_unreleased", "b_r_stale", "b_stuck",
    "b_new", "b_new_release", "b_new_rebuild", "b_before", "b_before_switch", "b_before_release",
    "b_before_rebuild", "b_old", "b_old_release", "b_old_rebuild", "b_r_route", "b_r_switch",
    "b_r_release", "b_r_rebuild" }
BootBack == { "b_r_route", "b_r_switch", "b_r_release", "b_r_rebuild", "b_rolled_back" }
EarlyStages == { "discovered", "pf_discovered", "pf_validate", "pf_ready", "c_validate", "c_started", "c_hold" }
EarlyMarkers == { "absent", "draft", "targets_discovered" } \cup BeforeRouteMarkers

\* The marker tells the state as long as nothing was switched.
PairInv == \A m \in Migration :
    /\ state[m] = "absent" <=> marker[m] = "absent"
    /\ state[m] = "draft" <=> marker[m] = "draft"
    /\ state[m] = "preparing" <=> marker[m] = "targets_discovered"
    /\ state[m] = "preflight_ready" <=> marker[m] = "preflight_validated"

FreshInv == \A m \in Migration : marker[m] \in EarlyMarkers => ~window[m]

\* The hook writes this over whatever the journal says when it cannot hold a message.
Reported(m) == state[m] = "recovery_required" /\ marker[m] = "hold_persistence_failed"

\* It does so while requests are served, never under the startup pass.
HookInv ==
    /\ ~Up => \A d \in Delivery : dpc[d] \notin {"hold", "report", "report_write"}
    /\ NoErrors => /\ \A d \in Delivery : dpc[d] \notin {"report", "report_write"}
                   /\ \A m \in Migration : marker[m] # "hold_persistence_failed"

\* What a process knows of its migration at a stage.
Knows(stage, m) ==
    /\ stage \in EarlyStages => ~window[m]
    /\ stage \in {"c_window", "b_new"} => marker[m] \notin EarlyMarkers
    /\ stage = "c_switch" => \/ state[m] = "committing" /\ marker[m] = "hold_active"
                             \/ Reported(m)
    /\ stage = "r_switch" => \/ state[m] = "committing" /\ marker[m] = "rollback_started"
                             \/ Reported(m)
    /\ stage \in {"b_before", "b_before_switch"} => marker[m] \in BeforeRouteMarkers
    /\ stage \in {"b_r_route", "b_r_switch"} => marker[m] \in RollbackRouteMarkers
    /\ stage \in BootNames => state[m] \in Active /\ (state[m] = "draft" <=> stage = "b_abandon")
    /\ stage \in BootBack => state[m] \in {"committing", "recovery_required"}

GuideInv ==
    /\ RouteInv /\ PairInv /\ FreshInv /\ OneActiveMigration
    /\ main \in Connector /\ HookInv
    /\ pc[Boot] \in BootNames \cup {"idle", "boot"}
    /\ \A p \in Proc : (pc[p] \in BootNames => p = Boot) /\ Knows(pc[p], arg[p])

LEMMA RestStages == \A m : Knows("idle", m) /\ Knows("boot", m)
  BY DEF Knows, EarlyStages, BootNames, BootBack

LEMMA GuideWrites ==
    \A w \in JournalStages :
        /\ w.ok \in EarlyStages => w.at \in EarlyStages
        /\ w.mark \in EarlyMarkers => w.at \in EarlyStages
        /\ w.ok = "c_window" => w.mark = "route_committed"
        /\ w.ok = "c_switch" => w.to = "committing" /\ w.mark = "hold_active"
        /\ w.ok = "r_switch" => w.to = "committing" /\ w.mark = "rollback_started"
        /\ w.ok \notin BootNames
        /\ w.err \in {"idle", "b_unreleased", "b_old_unreleased"}
        /\ w.err # "idle" => w.at \in BootNames \ {"b_abandon"}
        /\ w.at \in BootNames => w.ok = "idle" /\ w.to \in Terminal \cup {"recovery_required"}
        /\ w.to # "absent" /\ w.mark # "absent" /\ w.to # "draft" /\ w.mark # "draft"
        /\ w.mark # "hold_persistence_failed"
        /\ w.to = "preparing" <=> w.mark = "targets_discovered"
        /\ w.to = "preflight_ready" <=> w.mark = "preflight_validated"
<1>1. \A w \in JournalStages :
        /\ w.ok \in EarlyStages => w.at \in EarlyStages
        /\ w.mark \in EarlyMarkers => w.at \in EarlyStages
        /\ w.ok = "c_window" => w.mark = "route_committed"
        /\ w.ok = "c_switch" => w.to = "committing" /\ w.mark = "hold_active"
        /\ w.ok = "r_switch" => w.to = "committing" /\ w.mark = "rollback_started"
  BY DEF JournalStages, Write, EarlyStages, EarlyMarkers, BeforeRouteMarkers
<1>2. \A w \in JournalStages :
        /\ w.ok \notin BootNames
        /\ w.err \in {"idle", "b_unreleased", "b_old_unreleased"}
        /\ w.err # "idle" => w.at \in BootNames \ {"b_abandon"}
        /\ w.at \in BootNames => w.ok = "idle" /\ w.to \in Terminal \cup {"recovery_required"}
  BY DEF JournalStages, Write, BootNames, Terminal
<1>3. \A w \in JournalStages :
        /\ w.to # "absent" /\ w.mark # "absent" /\ w.to # "draft" /\ w.mark # "draft"
        /\ w.mark # "hold_persistence_failed"
        /\ w.to = "preparing" <=> w.mark = "targets_discovered"
        /\ w.to = "preflight_ready" <=> w.mark = "preflight_validated"
  BY DEF JournalStages, Write
<1> QED
  BY <1>1, <1>2, <1>3

Special == EarlyStages \cup { "c_window", "b_new", "c_switch", "r_switch", "b_before", "b_before_switch",
                              "b_r_route", "b_r_switch", "b_abandon" }

LEMMA GuideBranches ==
    \A b \in Branches :
        /\ b.ok \notin Special /\ b.err \notin Special
        /\ b.ok \in BootNames <=> b.at \in BootNames
        /\ b.err \in BootNames <=> b.at \in BootNames
        /\ b.ok \in BootBack => b.at \in BootBack
        /\ b.err \notin BootBack
        /\ b.at # "b_abandon"
<1>1. \A b \in ReleaseStages \cup RebuildStages :
        /\ b.ok \notin Special /\ b.err \notin Special
        /\ b.ok \in BootNames <=> b.at \in BootNames
        /\ b.err \in BootNames <=> b.at \in BootNames
        /\ b.ok \in BootBack => b.at \in BootBack
        /\ b.err \notin BootBack
        /\ b.at # "b_abandon"
  BY DEF ReleaseStages, NewRouteReleases, OldRouteReleases, RebuildStages, Branch, Special, EarlyStages,
         BootNames, BootBack
<1>2. \A b \in ForwardSwitches \cup BackwardSwitches :
        /\ b.ok \notin Special /\ b.err \notin Special
        /\ b.ok \in BootNames <=> b.at \in BootNames
        /\ b.err \in BootNames <=> b.at \in BootNames
        /\ b.ok \in BootBack => b.at \in BootBack
        /\ b.err \notin BootBack
        /\ b.at # "b_abandon"
  BY DEF ForwardSwitches, BackwardSwitches, Branch, Special, EarlyStages, BootNames, BootBack
<1> QED
  BY <1>1, <1>2 DEF Branches

\* A stage that is not special asks for what Recover knew before, at most.
LEMMA PlainStage ==
    ASSUME NEW from, NEW to, NEW m, Knows(from, m), to \notin Special,
           to \in BootNames => from \in BootNames \ {"b_abandon"}, to \in BootBack => from \in BootBack
    PROVE  Knows(to, m)
  BY DEF Knows, Special

\* The process at work moves on; nobody else is there.
LEMMA GuideGoto ==
    ASSUME TypeInv, GuideInv, RouteInv', PairInv', FreshInv', OneActiveMigration', main' \in Connector,
           UNCHANGED dpc, NoErrors => \A n \in Migration : marker'[n] # "hold_persistence_failed",
           NEW p \in Proc, pc[p] # "idle", NEW stage, Goto(p, stage),
           NEW m, m = arg[p], Knows(stage, m)',
           p = Boot => stage \in BootNames \cup {"idle", "boot"}, stage \in BootNames => p = Boot
    PROVE  GuideInv'
<1>1. \A q \in Proc \ {p} : pc'[q] = "idle"
  BY DEF Goto, GuideInv, RouteInv, AloneInv, TypeInv, ControlType
<1>2. pc'[p] = stage
  BY DEF Goto, TypeInv, ControlType
<1>3. stage # "idle" => arg'[p] = m
  BY DEF Goto, TypeInv, ControlType
<1>4. pc'[Boot] \in BootNames \cup {"idle", "boot"}
  BY <1>1, <1>2 DEF Proc
<1>5. ASSUME NEW q \in Proc
      PROVE  (pc'[q] \in BootNames => q = Boot) /\ Knows(pc[q], arg[q])'
  <2>1. CASE q = p
    <3>1. CASE stage = "idle"
      BY <1>2, <2>1, <3>1 DEF Knows, EarlyStages, BootNames, BootBack
    <3>2. CASE stage # "idle"
      BY <1>2, <1>3, <2>1, <3>2 DEF Knows, Reported
    <3> QED
      BY <3>1, <3>2
  <2>2. CASE q # p
    BY <1>1, <2>2 DEF Knows, EarlyStages, BootNames, BootBack
  <2> QED
    BY <2>1, <2>2
<1>6. ~Up' => ~Up
  BY <1>1 DEF Up, Proc
<1>7. HookInv'
  BY <1>6 DEF GuideInv, HookInv, NoErrors
<1> QED
  BY <1>4, <1>5, <1>7 DEF GuideInv

\* The journal is left alone and the route stays on a connector.
LEMMA GuideMoves ==
    ASSUME TypeInv, GuideInv, RouteInv', UNCHANGED <<journal, dpc>>, main' \in Connector,
           NEW p \in Proc, pc[p] # "idle", NEW stage, Goto(p, stage), Knows(stage, arg[p]),
           p = Boot => stage \in BootNames \cup {"idle", "boot"}, stage \in BootNames => p = Boot
    PROVE  GuideInv'
<1>1. PICK m : m = arg[p]
  OBVIOUS
<1>2. PairInv' /\ FreshInv' /\ OneActiveMigration'
  BY DEF GuideInv, PairInv, FreshInv, OneActiveMigration, journal
<1>3. Knows(stage, m)'
  BY <1>1 DEF Knows, Reported, journal
<1>4. NoErrors => \A n \in Migration : marker'[n] # "hold_persistence_failed"
  BY DEF GuideInv, HookInv, journal
<1> QED
  BY <1>1, <1>2, <1>3, <1>4, GuideGoto

LEMMA GuideStays ==
    GuideInv /\ RouteInv' /\ UNCHANGED <<journal, dpc, pc, arg, main>> => GuideInv'
  BY DEF GuideInv, RouteInv, AloneInv, Fits, PairInv, FreshInv, OneActiveMigration, HookInv, Up, NoErrors,
         Knows, Reported, journal

LEMMA NeverFault == NoErrors /\ TypeInv => ~Fault
  BY DEF NoErrors, TypeInv, BoundsType, Fault

\* Where a process is, it knows its migration; the startup pass is at its own stages.
LEMMA AtWork ==
    ASSUME TypeInv, GuideInv, NEW p \in Proc, pc[p] \notin {"idle", "boot"}
    PROVE  /\ arg[p] \in Migration /\ Knows(pc[p], arg[p])
           /\ p = Boot <=> pc[p] \in BootNames
  BY DEF TypeInv, ControlType, GuideInv

LEMMA GuideCheck ==
    ASSUME TypeInv, GuideInv, RouteInv', NEW p \in Proc, CheckTransition(p)
    PROVE  GuideInv'
<1>1. PICK w \in JournalStages :
        /\ pc[p] = w.at /\ OnlyControl
        /\ NextStep(p, "write") \/ Goto(p, w.err)
  BY DEF CheckTransition
<1>2. /\ UNCHANGED <<journal, dpc, main>> /\ main' \in Connector
      /\ pc[p] \notin {"idle", "boot"}
  BY <1>1, JournalTargets DEF OnlyControl, sending, GuideInv
<1>3. CASE NextStep(p, "write")
  BY <1>2, <1>3, GuideStays DEF NextStep
<1>4. CASE Goto(p, w.err)
  <2>1. Knows(w.err, arg[p])
    <3>1. CASE w.err = "idle"
      BY <3>1, RestStages
    <3>2. CASE w.err # "idle"
      <4>1. w.err \notin Special /\ w.err \notin BootBack
        BY GuideWrites DEF Special, EarlyStages, BootBack
      <4> QED
        BY <1>1, <1>2, <3>2, <4>1, AtWork, GuideWrites, PlainStage
    <3> QED
      BY <3>1, <3>2
  <2>2. w.err \in BootNames \cup {"idle", "boot"} /\ (w.err \in BootNames => p = Boot)
    BY <1>1, <1>2, AtWork, GuideWrites DEF BootNames
  <2> QED
    BY <1>2, <1>4, <2>1, <2>2, GuideMoves
<1> QED
  BY <1>1, <1>3, <1>4

LEMMA GuideWrite ==
    ASSUME TypeInv, GuideInv, RouteInv', NEW p \in Proc, WriteTransition(p)
    PROVE  GuideInv'
<1>1. PICK w \in JournalStages :
        /\ pc[p] = w.at
        /\ \/ IndexAllows(arg[p], w.to) /\ SetJournal(arg[p], w.to, w.mark) /\ Goto(p, w.ok)
           \/ UNCHANGED journal /\ Goto(p, w.err)
        /\ UNCHANGED <<main, dpc>>
  BY DEF WriteTransition, sending
<1>2. /\ pc[p] \notin {"idle", "boot"} /\ main' \in Connector /\ arg[p] \in Migration
      /\ Knows(pc[p], arg[p]) /\ (p = Boot <=> pc[p] \in BootNames)
  BY <1>1, AtWork, JournalTargets DEF GuideInv
<1>3. CASE UNCHANGED journal /\ Goto(p, w.err)
  <2>1. Knows(w.err, arg[p])
    <3>1. CASE w.err = "idle"
      BY <3>1, RestStages
    <3>2. CASE w.err # "idle"
      <4>1. w.err \notin Special /\ w.err \notin BootBack
        BY GuideWrites DEF Special, EarlyStages, BootBack
      <4> QED
        BY <1>1, <1>2, <3>2, <4>1, GuideWrites, PlainStage
    <3> QED
      BY <3>1, <3>2
  <2>2. w.err \in BootNames \cup {"idle", "boot"} /\ (w.err \in BootNames => p = Boot)
    BY <1>1, <1>2, GuideWrites DEF BootNames
  <2> QED
    BY <1>1, <1>2, <1>3, <2>1, <2>2, GuideMoves
<1>4. CASE IndexAllows(arg[p], w.to) /\ SetJournal(arg[p], w.to, w.mark) /\ Goto(p, w.ok)
  <2>1. PICK m \in Migration : m = arg[p]
    BY <1>2
  <2>2. /\ state' = [state EXCEPT ![m] = w.to] /\ marker' = [marker EXCEPT ![m] = w.mark] /\ window' = window
    BY <1>4, <2>1 DEF SetJournal
  <2>3. /\ state'[m] = w.to /\ marker'[m] = w.mark
        /\ \A n \in Migration \ {m} : state'[n] = state[n] /\ marker'[n] = marker[n]
    BY <2>2 DEF TypeInv, JournalType
  <2>4. PairInv'
    BY <2>3, GuideWrites DEF GuideInv, PairInv
  <2>5. w.at \in EarlyStages => ~window[m]
    BY <1>1, <1>2, <2>1 DEF Knows
  <2>6. FreshInv'
    BY <2>2, <2>3, <2>5, GuideWrites DEF GuideInv, FreshInv
  <2>7. OneActiveMigration'
    BY <1>4, IndexedWriteKeepsOne DEF TypeInv, GuideInv
  <2>8. Knows(w.ok, m)'
    <3>1. w.ok \notin BootNames /\ w.ok \notin BootBack /\ w.ok \notin {"b_new", "b_before", "b_before_switch", "b_r_route", "b_r_switch"}
      BY GuideWrites DEF BootNames, BootBack
    <3>2. w.ok \in EarlyStages => ~window'[m]
      BY <2>2, <2>5, GuideWrites
    <3>3. w.ok = "c_window" => marker'[m] \notin EarlyMarkers
      BY <2>3, GuideWrites DEF EarlyMarkers, BeforeRouteMarkers
    <3> QED
      BY <2>3, <3>1, <3>2, <3>3, GuideWrites DEF Knows
  <2>9. (p = Boot => w.ok \in BootNames \cup {"idle", "boot"}) /\ (w.ok \in BootNames => p = Boot)
    BY <1>1, <1>2, GuideWrites
  <2>10. NoErrors => \A n \in Migration : marker'[n] # "hold_persistence_failed"
    BY <2>3, GuideWrites DEF GuideInv, HookInv
  <2> QED
    BY <1>1, <1>2, <1>4, <2>1, <2>4, <2>6, <2>7, <2>8, <2>9, <2>10, GuideGoto
<1> QED
  BY <1>1, <1>3, <1>4

LEMMA GuideBranch ==
    ASSUME TypeInv, GuideInv, RouteInv', NEW p \in Proc,
           SwitchRoute(p) \/ RebuildProjection(p) \/ ReleaseHolds(p)
    PROVE  GuideInv'
<1>1. PICK b \in Branches :
        /\ pc[p] = b.at
        /\ UNCHANGED <<pc, arg, main>> \/ Goto(p, b.ok) \/ Goto(p, b.err)
        /\ UNCHANGED <<journal, dpc>>
  BY DEF SwitchRoute, RebuildProjection, ReleaseHolds, ListHolds, MarkReleasingUnknown, ClaimHold, Send, FinishHold,
         Leave, NextStep, Branches, control, sending
<1>2. /\ pc[p] \notin {"idle", "boot"} /\ arg[p] \in Migration
      /\ Knows(pc[p], arg[p]) /\ (p = Boot <=> pc[p] \in BootNames)
  BY <1>1, AtWork, BranchTargets
<1>3. main' \in Connector
  <2>1. OldRoute(p) \in Connector /\ NewRoute(p) \in Connector /\ main \in Connector /\ main # NoConnector
    BY <1>2, RouteAssumption DEF OldRoute, NewRoute, GuideInv
  <2> QED
    BY <2>1 DEF SwitchRoute, SwitchMainConnector, RebuildProjection, EnsureMainConnector, ReleaseHolds, ListHolds,
         MarkReleasingUnknown, ClaimHold, Send, FinishHold
<1>4. Knows(b.ok, arg[p]) /\ Knows(b.err, arg[p])
  BY <1>1, <1>2, GuideBranches, PlainStage
<1>5. (p = Boot <=> b.ok \in BootNames) /\ (p = Boot <=> b.err \in BootNames)
  BY <1>1, <1>2, GuideBranches
<1> QED
  BY <1>1, <1>2, <1>3, <1>4, <1>5, GuideMoves, GuideStays

LEMMA GuideReads ==
    ASSUME TypeInv, GuideInv, RouteInv', NEW p \in Proc,
           Validate(p) \/ ReadBack(p) \/ InspectRoute(p)
    PROVE  GuideInv'
<1>1. UNCHANGED <<journal, dpc, main>> /\ main' \in Connector
  BY DEF Validate, ReadBack, InspectRoute, OnlyControl, sending, GuideInv
<1>3. CASE Validate(p) \/ ReadBack(p)
  <2>1. PICK stage : /\ Goto(p, stage)
                     /\ \/ pc[p] = "pf_validate" /\ stage = "pf_ready"
                        \/ pc[p] = "c_validate" /\ stage = "c_started"
                        \/ pc[p] \in {"pf_validate", "c_validate", "r_validate", "c_readback"}
                             /\ stage \in {"idle", "r_started", "c_routed", "c_no_readback"}
    BY <1>3 DEF Validate, ReadBack
  <2>2. /\ pc[p] \notin {"idle", "boot"} /\ p # Boot /\ Knows(pc[p], arg[p])
    BY <2>1, AtWork DEF BootNames
  <2>3. Knows(stage, arg[p]) /\ stage \notin BootNames
    BY <2>1, <2>2 DEF Knows, EarlyStages, BootNames, BootBack
  <2> QED
    BY <1>1, <2>1, <2>2, <2>3, GuideMoves
<1>4. CASE InspectRoute(p)
  <2>1. PICK stage : /\ Goto(p, stage)
                     /\ \/ pc[p] = "b_before" /\ stage \in {"b_before_release", "b_before_switch", "b_ambiguous",
                                                            "b_old_unreleased"}
                        \/ pc[p] = "b_old" /\ stage \in {"b_old_release", "b_old_unreleased"}
                        \/ pc[p] = "b_r_route" /\ stage \in {"b_r_release", "b_r_switch", "b_r_unknown"}
    BY <1>4 DEF InspectRoute
  <2>2. pc[p] \notin {"idle", "boot"} /\ Knows(pc[p], arg[p]) /\ p = Boot
    BY <2>1, AtWork DEF BootNames
  <2>3. Knows(stage, arg[p]) /\ stage \in BootNames
    BY <2>1, <2>2 DEF Knows, EarlyStages, BootNames, BootBack
  <2> QED
    BY <1>1, <2>1, <2>2, <2>3, GuideMoves
<1> QED
  BY <1>3, <1>4

LEMMA GuideWindow ==
    ASSUME TypeInv, GuideInv, RouteInv', NEW p \in Proc,
           SetRollbackExpiry(p) \/ CompleteNewRoute(p)
    PROVE  GuideInv'
<1>1. PICK stage : /\ Goto(p, stage)
                   /\ \/ pc[p] = "c_window" /\ stage = "c_release" /\ StoreWindow(arg[p])
                      \/ pc[p] = "b_new" /\ stage = "b_new_release" /\ StoreWindow(arg[p])
                      \/ pc[p] = "c_window" /\ stage = "c_no_window" /\ UNCHANGED window
                      \/ pc[p] = "b_new" /\ stage = "b_unreleased" /\ UNCHANGED window
  BY DEF SetRollbackExpiry, CompleteNewRoute
<1>2. /\ UNCHANGED <<state, marker, main, dpc>> /\ main' \in Connector
  BY DEF SetRollbackExpiry, CompleteNewRoute, sending, GuideInv
<1>3. PICK m \in Migration : m = arg[p]
  BY <1>1, AtWork
<1>4. Knows(pc[p], m) /\ pc[p] # "idle" /\ (p = Boot <=> pc[p] \in BootNames)
  BY <1>1, <1>3, AtWork
<1>5. \A n \in Migration : window'[n] = window[n] \/ (n = m /\ marker[m] \notin EarlyMarkers)
  BY <1>1, <1>3, <1>4 DEF StoreWindow, TypeInv, JournalType, Knows
<1>6. PairInv' /\ OneActiveMigration' /\ FreshInv'
  BY <1>2, <1>5 DEF GuideInv, PairInv, OneActiveMigration, FreshInv
<1>7. Knows(stage, m)'
  BY <1>1, <1>2, <1>4 DEF Knows, EarlyStages, BootNames, BootBack
<1>8. p = Boot <=> stage \in BootNames
  BY <1>1, <1>4 DEF BootNames
<1>9. NoErrors => \A n \in Migration : marker'[n] # "hold_persistence_failed"
  BY <1>2 DEF GuideInv, HookInv
<1> QED
  BY <1>1, <1>2, <1>3, <1>4, <1>6, <1>7, <1>8, <1>9, GuideGoto

LEMMA GuideCreate ==
    ASSUME TypeInv, GuideInv, RouteInv', NEW m \in Migration, Create(m)
    PROVE  GuideInv'
<1>1. /\ state[m] = "absent" /\ Unfinished = {} /\ state'[m] = "draft" /\ marker'[m] = "draft"
      /\ \A n \in Migration \ {m} : state'[n] = state[n] /\ marker'[n] = marker[n]
      /\ UNCHANGED <<window, main, dpc, pc, arg>>
  BY DEF Create, TypeInv, JournalType, control, sending
<1>2. marker[m] = "absent" /\ ~window[m]
  BY <1>1 DEF GuideInv, PairInv, FreshInv, EarlyMarkers
<1>3. PairInv' /\ FreshInv'
  BY <1>1, <1>2 DEF GuideInv, PairInv, FreshInv
<1>4. OneActiveMigration'
  BY <1>1 DEF OneActiveMigration, Unfinished
<1>6. HookInv'
  BY <1>1 DEF GuideInv, HookInv, Up, NoErrors
<1>5. ASSUME NEW p \in Proc
      PROVE  Knows(pc[p], arg[p])'
  <2>1. CASE pc[p] \in {"idle", "boot"}
    BY <1>1, <2>1 DEF Knows, EarlyStages, BootNames, BootBack
  <2>2. CASE pc[p] \notin {"idle", "boot"}
    <3>1. arg[p] \in Migration /\ Knows(pc[p], arg[p])
      BY <2>2, AtWork
    <3>2. CASE arg[p] = m
      BY <1>1, <1>2, <3>1, <3>2 DEF Knows, Reported, EarlyMarkers, BeforeRouteMarkers, RollbackRouteMarkers, Active
    <3>3. CASE arg[p] # m
      BY <1>1, <3>1, <3>3 DEF Knows, Reported
    <3> QED
      BY <3>2, <3>3
  <2> QED
    BY <2>1, <2>2
<1> QED
  BY <1>1, <1>3, <1>4, <1>5, <1>6 DEF GuideInv

LEMMA GuideCall ==
    ASSUME OneAdministrator, TypeInv, GuideInv, RouteInv', NEW p \in Request, NEW m \in Migration,
           Discover(p, m) \/ Preflight(p, m) \/ Commit(p, m) \/ Rollback(p, m)
    PROVE  GuideInv'
<1>1. PICK stage \in {"discovered", "pf_discovered", "pf_validate", "c_validate", "r_validate"} :
        /\ Call(p, m, stage)
        /\ stage # "r_validate" => state[m] \in {"draft", "preparing", "preflight_ready"}
  BY DEF Discover, Preflight, Commit, Rollback
<1>2. p \in Proc /\ UNCHANGED <<journal, main, dpc>> /\ p # Boot
  BY <1>1, ProcessAssumption DEF Call, Proc, sending
<1>3. /\ pc'[p] = stage /\ arg'[p] = m
      /\ \A q \in Proc : q # p => pc'[q] = pc[q] /\ arg'[q] = arg[q]
  BY <1>1, <1>2 DEF Call, TypeInv, ControlType
<1>4. stage # "r_validate" => ~window[m]
  BY <1>1 DEF GuideInv, PairInv, FreshInv, EarlyMarkers, BeforeRouteMarkers
<1>5. Knows(stage, m) /\ stage \notin BootNames
  BY <1>4 DEF Knows, EarlyStages, BootNames, BootBack
<1>6. ASSUME NEW q \in Proc
      PROVE  (pc'[q] \in BootNames => q = Boot) /\ Knows(pc[q], arg[q])'
  <2>1. CASE q = p
    BY <1>2, <1>3, <1>5, <2>1 DEF Knows, Reported, journal
  <2>2. CASE q # p
    BY <1>2, <1>3, <2>2 DEF Knows, Reported, journal, GuideInv
  <2> QED
    BY <2>1, <2>2
<1>7. PairInv' /\ FreshInv' /\ OneActiveMigration'
  BY <1>2 DEF GuideInv, PairInv, FreshInv, OneActiveMigration, journal
<1>8. pc'[Boot] = pc[Boot]
  BY <1>2, <1>3 DEF Proc
<1>9. HookInv'
  BY <1>2, <1>8 DEF GuideInv, HookInv, Up, NoErrors, journal
<1> QED
  BY <1>2, <1>6, <1>7, <1>8, <1>9 DEF GuideInv

LEMMA GuideRecover ==
    ASSUME OneAdministrator, TypeInv, GuideInv, RouteInv', Recover
    PROVE  GuideInv'
<1>1. Boot \in Proc /\ pc[Boot] = "boot" /\ UNCHANGED <<journal, main, dpc>>
  BY DEF Recover, Proc, OnlyControl, sending
<1>2. CASE Goto(Boot, "idle")
  <2>1. Knows("idle", arg[Boot]) /\ main' \in Connector
    BY <1>1, RestStages DEF GuideInv
  <2> QED
    BY <1>1, <1>2, <2>1, GuideMoves
<1>3. CASE \E m \in Resumable : /\ pc' = [pc EXCEPT ![Boot] = RecoverStage(marker[m])]
                                /\ arg' = [arg EXCEPT ![Boot] = m]
  <2>1. PICK m \in Resumable : /\ pc' = [pc EXCEPT ![Boot] = RecoverStage(marker[m])]
                               /\ arg' = [arg EXCEPT ![Boot] = m]
    BY <1>3
  <2>2. m \in Migration /\ state[m] \in Active
    BY <2>1 DEF Resumable
  <2> DEFINE stage == RecoverStage(marker[m])
  <2>3. stage \in {"b_abandon", "b_before", "b_new", "b_old", "b_r_rebuild", "b_r_route", "b_stuck"}
    BY DEF RecoverStage
  <2>4. /\ stage = "b_abandon" <=> marker[m] = "draft"
        /\ stage = "b_before" => marker[m] \in BeforeRouteMarkers
        /\ stage = "b_new" => marker[m] \in NewRouteMarkers
        /\ stage = "b_r_route" => marker[m] \in RollbackRouteMarkers
        /\ stage = "b_r_rebuild" => marker[m] \in RollbackRebuildMarkers
    BY DEF RecoverStage, BeforeRouteMarkers, NewRouteMarkers, OldRouteMarkers, RollbackRebuildMarkers,
           RollbackRouteMarkers
  <2> HIDE DEF stage
  <2>5. state[m] = "draft" <=> stage = "b_abandon"
    BY <2>2, <2>4 DEF GuideInv, PairInv
  <2>6. stage \in {"b_r_route", "b_r_rebuild"} => state[m] \in {"committing", "recovery_required"}
    BY <2>2, <2>4 DEF GuideInv, PairInv, RollbackRouteMarkers, RollbackRebuildMarkers, Active
  <2>7. stage = "b_new" => marker[m] \notin EarlyMarkers
    BY <2>4 DEF NewRouteMarkers, EarlyMarkers, BeforeRouteMarkers
  <2>8. Knows(stage, m) /\ stage \in BootNames
    BY <2>2, <2>3, <2>4, <2>5, <2>6, <2>7 DEF Knows, EarlyStages, BootNames, BootBack
  <2>9. /\ pc'[Boot] = stage /\ arg'[Boot] = m
        /\ \A q \in Proc : q # Boot => pc'[q] = pc[q] /\ arg'[q] = arg[q]
    BY <1>1, <2>1 DEF TypeInv, ControlType, stage
  <2>10. ASSUME NEW q \in Proc
         PROVE  (pc'[q] \in BootNames => q = Boot) /\ Knows(pc[q], arg[q])'
    <3>1. CASE q = Boot
      BY <1>1, <2>8, <2>9, <3>1 DEF Knows, Reported, journal
    <3>2. CASE q # Boot
      BY <1>1, <2>9, <3>2 DEF Knows, Reported, journal, GuideInv
    <3> QED
      BY <3>1, <3>2
  <2>11. PairInv' /\ FreshInv' /\ OneActiveMigration'
    BY <1>1 DEF GuideInv, PairInv, FreshInv, OneActiveMigration, journal
  <2>12. HookInv'
    BY <1>1 DEF GuideInv, HookInv, Up, NoErrors, journal
  <2> QED
    BY <1>1, <2>8, <2>9, <2>10, <2>11, <2>12 DEF GuideInv
<1> QED
  BY <1>2, <1>3 DEF Recover

\* The hook changes the journal only while requests are served.
LEMMA GuideDeliver ==
    ASSUME TypeInv, GuideInv, RouteInv', NEW d \in Delivery, Deliver(d)
    PROVE  GuideInv'
<1>1. UNCHANGED <<window, main, pc, arg>>
  BY DEF Deliver, HookCurrent, TryHoldForTarget, ReportHoldFailure, NotDelivery, control
<1>2. /\ \A e \in Delivery \ {d} : dpc'[e] = dpc[e]
      /\ ~Up => dpc'[d] \notin {"hold", "report", "report_write"}
      /\ NoErrors => dpc'[d] \notin {"report", "report_write"}
  BY NeverFault DEF Deliver, HookCurrent, TryHoldForTarget, ReportHoldFailure, SetDelivery, GuideInv, HookInv,
                    TypeInv, SendingType
<1>3. CASE UNCHANGED <<state, marker>>
  <2>1. HookInv'
    BY <1>1, <1>2, <1>3 DEF GuideInv, HookInv, Up, NoErrors
  <2> QED
    BY <1>1, <1>3, <2>1 DEF GuideInv, PairInv, FreshInv, OneActiveMigration, Knows, Reported
<1>4. CASE ~UNCHANGED <<state, marker>>
  <2>1. /\ dpc[d] = "report_write" /\ IndexAllows(dmig[d], "recovery_required")
        /\ SetJournal(dmig[d], "recovery_required", "hold_persistence_failed")
    BY <1>4 DEF Deliver, HookCurrent, TryHoldForTarget, ReportHoldFailure
  <2>2. Up /\ ~NoErrors
    BY <2>1 DEF GuideInv, HookInv
  <2>3. PICK m \in Migration : m = dmig[d]
    BY <2>1 DEF TypeInv, SendingType
  <2>4. /\ state'[m] = "recovery_required" /\ marker'[m] = "hold_persistence_failed"
        /\ \A n \in Migration \ {m} : state'[n] = state[n] /\ marker'[n] = marker[n]
    BY <2>1, <2>3 DEF SetJournal, TypeInv, JournalType
  <2>5. HookInv'
    BY <1>1, <2>2 DEF HookInv, Up, NoErrors
  <2>6. PairInv' /\ FreshInv'
    BY <1>1, <2>4 DEF GuideInv, PairInv, FreshInv, EarlyMarkers, BeforeRouteMarkers
  <2>7. OneActiveMigration'
    BY <2>1, <2>3, IndexedWriteKeepsOne DEF TypeInv, GuideInv, SetJournal
  <2>8. ASSUME NEW p \in Proc PROVE Knows(pc[p], arg[p])'
    <3>1. CASE pc[p] \in {"idle", "boot"}
      BY <1>1, <3>1 DEF Knows, EarlyStages, BootNames, BootBack
    <3>2. CASE pc[p] \notin {"idle", "boot"}
      <4>1. arg[p] \in Migration /\ Knows(pc[p], arg[p]) /\ pc[p] \notin BootNames
        BY <2>2, <3>2, AtWork DEF Up
      <4>2. CASE arg[p] = m
        BY <1>1, <2>4, <4>1, <4>2
        DEF Knows, Reported, BootNames, BootBack, EarlyMarkers, BeforeRouteMarkers
      <4>3. CASE arg[p] # m
        BY <1>1, <2>4, <4>1, <4>3 DEF Knows, Reported
      <4> QED
        BY <4>2, <4>3
    <3> QED
      BY <3>1, <3>2
  <2> QED
    BY <1>1, <2>5, <2>6, <2>7, <2>8 DEF GuideInv
<1> QED
  BY <1>3, <1>4

LEMMA GuideStep ==
    ASSUME OneAdministrator, TypeInv, GuideInv, [Next]_vars
    PROVE  GuideInv'
<1>1. RouteInv'
  BY RouteStep DEF GuideInv
<1>3. ASSUME NEW p \in Request, Disconnect(p) PROVE GuideInv'
  <2>1. p \in Proc /\ pc[p] # "idle" /\ Goto(p, "idle") /\ UNCHANGED <<journal, dpc, main>>
    BY <1>3 DEF Disconnect, Leave, Proc, sending
  <2>2. Knows("idle", arg[p]) /\ main' \in Connector
    BY <2>1, RestStages DEF GuideInv
  <2> QED
    BY <1>1, <2>1, <2>2, GuideMoves DEF BootNames
<1>4. ASSUME NEW p \in Proc, ProcStep(p) PROVE GuideInv'
  BY <1>1, <1>4, GuideCheck, GuideWrite, GuideBranch, GuideReads, GuideWindow DEF ProcStep
<1>5. ASSUME NEW d \in Delivery, Deliver(d) PROVE GuideInv'
  BY <1>1, <1>5, GuideDeliver
<1>6. ASSUME NEW c \in Connector, NEW on \in BOOLEAN, PatchConnector(c, on) PROVE FALSE
  BY <1>6 DEF PatchConnector, OneAdministrator, TypeInv, BoundsType
<1>7. CASE Crash
  <2>1. /\ UNCHANGED <<journal, main>>
        /\ \A p \in Proc : pc'[p] \in {"idle", "boot"}
        /\ \A d \in Delivery : dpc'[d] \notin {"hold", "report", "report_write"}
    BY <1>7 DEF Crash, GuideInv, TypeInv, SendingType
  <2>2. \A p \in Proc : (pc'[p] \in BootNames => p = Boot) /\ Knows(pc[p], arg[p])'
    BY <2>1 DEF Knows, EarlyStages, BootNames, BootBack
  <2>3. pc'[Boot] \in {"idle", "boot"}
    BY <2>1 DEF Proc
  <2>4. HookInv'
    BY <2>1 DEF GuideInv, HookInv, NoErrors, journal
  <2> QED
    BY <1>1, <2>1, <2>2, <2>3, <2>4 DEF GuideInv, PairInv, FreshInv, OneActiveMigration, journal
<1>8. CASE UNCHANGED vars
  <2>1. UNCHANGED <<journal, dpc, pc, arg, main>>
    BY <1>8 DEF vars, control, sending
  <2> QED
    BY <1>1, <2>1, GuideStays
<1> QED
  BY <1>1, <1>3, <1>4, <1>5, <1>6, <1>7, <1>8, GuideCreate, GuideCall, GuideRecover DEF Next

LEMMA GuideInit == OneAdministrator /\ Init => GuideInv
<1> SUFFICES ASSUME OneAdministrator, Init PROVE GuideInv
  OBVIOUS
<1>1. RouteInv
  BY RouteTables DEF Init, RouteInv, AloneInv, Fits, OnNew, OnOld
<1>2. PairInv /\ FreshInv /\ OneActiveMigration
  BY DEF Init, PairInv, FreshInv, OneActiveMigration, Active
<1>3. main \in Connector /\ HookInv
  BY RouteAssumption DEF Init, HookInv
<1>4. \A p \in Proc : pc[p] \in {"idle", "boot"}
  BY DEF Init
<1>5. \A p \in Proc : pc[p] \notin BootNames /\ Knows(pc[p], arg[p])
  BY <1>4, RestStages DEF BootNames
<1>6. Boot \in Proc
  BY DEF Proc
<1> QED
  BY <1>1, <1>2, <1>3, <1>4, <1>5, <1>6 DEF GuideInv

\* What moves the route: a switch of the process at work.
LEMMA MainMoves ==
    ASSUME OneAdministrator, TypeInv, GuideInv, [Next]_vars, main' # main
    PROVE  \E p \in Proc :
             /\ arg[p] \in Migration /\ state[arg[p]] \in Active /\ Knows(pc[p], arg[p])
             /\ \/ pc[p] = "c_switch" /\ main' = NewOf[arg[p]]
                \/ /\ pc[p] \in {"r_switch", "b_before_switch", "b_r_switch"}
                   /\ main' = OldOf[arg[p]] /\ main = NewOf[arg[p]]
<1>1. ASSUME NEW c \in Connector, NEW on \in BOOLEAN, PatchConnector(c, on) PROVE FALSE
  BY <1>1 DEF PatchConnector, OneAdministrator, TypeInv, BoundsType
<1>2. ASSUME NEW p \in Proc, RebuildProjection(p) PROVE FALSE
  BY <1>2, RouteAssumption DEF RebuildProjection, EnsureMainConnector, GuideInv
<1>3. PICK p \in Proc : SwitchRoute(p)
  BY <1>1, <1>2 DEF Next, vars, Create, Discover, Preflight, Commit, Rollback, Call, Disconnect, ProcStep,
         Validate, CheckTransition, WriteTransition, ReadBack, SetRollbackExpiry, ReleaseHolds,
         ListHolds, MarkReleasingUnknown, ClaimHold, Send, FinishHold, CompleteNewRoute, InspectRoute,
         Recover, OnlyControl, Deliver, HookCurrent, TryHoldForTarget, ReportHoldFailure, NotDelivery, Crash
<1>4. PICK b \in ForwardSwitches \cup BackwardSwitches :
        /\ pc[p] = b.at
        /\ \/ /\ b \in ForwardSwitches /\ main' = NewRoute(p)
           \/ /\ b \notin ForwardSwitches /\ main' = OldRoute(p) /\ main \in {NewRoute(p), OldRoute(p), NoConnector}
  BY <1>3 DEF SwitchRoute, SwitchMainConnector
<1>5. /\ \A x \in ForwardSwitches : x.at = "c_switch"
      /\ \A x \in BackwardSwitches : x.at \in {"r_switch", "b_before_switch", "b_r_switch"}
  BY DEF ForwardSwitches, BackwardSwitches, Branch
<1>6. arg[p] \in Migration /\ Knows(pc[p], arg[p])
  BY <1>4, <1>5, AtWork
<1>7. state[arg[p]] \in Active
  BY <1>4, <1>5, <1>6 DEF Knows, Reported, BootNames, Active
<1>8. main # NoConnector
  BY RouteAssumption DEF GuideInv
<1> QED
  BY <1>4, <1>5, <1>6, <1>7, <1>8 DEF NewRoute, OldRoute

\* When Recover returns nothing is half done.
LEMMA RecoverLeaves ==
    ASSUME OneAdministrator, NoErrors, TypeInv, GuideInv, [Next]_vars, pc[Boot] # "idle", pc'[Boot] = "idle",
           NEW n \in Migration
    PROVE  state'[n] \in Terminal \cup {"recovery_required", "absent"}
<1>0. Boot \in Proc /\ state[n] \in State /\ (state[n] \notin Active => state[n] \in Terminal \cup {"absent"})
  BY DEF Proc, TypeInv, JournalType, State
<1>1. CASE Recover
  <2>1. CASE Resumable = {}
    BY <1>0, <1>1, <2>1 DEF Recover, Resumable, OnlyControl, journal
  <2>2. CASE Resumable # {}
    <3>1. PICK m \in Resumable : pc' = [pc EXCEPT ![Boot] = RecoverStage(marker[m])]
      BY <1>1, <2>2 DEF Recover
    <3>2. RecoverStage(marker[m]) # "idle"
      BY BootStages
    <3> QED
      BY <1>0, <3>1, <3>2 DEF TypeInv, ControlType
  <2> QED
    BY <2>1, <2>2
<1>2. CASE ProcStep(Boot)
  <2>1. pc[Boot] \notin {"idle", "boot"}
    <3>1. \A w \in JournalStages : w.at # "boot"
      BY JournalTargets
    <3>2. \A b \in Branches : b.at # "boot"
      BY BranchTargets
    <3> QED
      BY <1>2, <3>1, <3>2
      DEF ProcStep, Validate, CheckTransition, WriteTransition, SwitchRoute, ReadBack, SetRollbackExpiry,
          RebuildProjection, ReleaseHolds, CompleteNewRoute, InspectRoute, Branches
  <2>2. PICK m \in Migration : m = arg[Boot]
    BY <1>0, <2>1, AtWork
  <2>3. Knows(pc[Boot], m) /\ pc[Boot] \in BootNames /\ state[m] \in Active
    BY <1>0, <2>1, <2>2, AtWork DEF Knows
  <2>4. \A k \in Migration \ {m} : state[k] \notin Active
    BY <2>3 DEF GuideInv, OneActiveMigration
  <2>5. CheckTransition(Boot) \/ WriteTransition(Boot)
    <3>1. \A b \in Branches : b.ok # "idle" /\ b.err # "idle"
      BY BranchTargets
    <3>2. ~(SwitchRoute(Boot) \/ RebuildProjection(Boot) \/ ReleaseHolds(Boot))
      <4>1. ASSUME SwitchRoute(Boot) \/ RebuildProjection(Boot) \/ ReleaseHolds(Boot)
            PROVE  \E b \in Branches : pc' = pc \/ Goto(Boot, b.ok) \/ Goto(Boot, b.err)
        BY <4>1 DEF SwitchRoute, RebuildProjection, ReleaseHolds, ListHolds, MarkReleasingUnknown, ClaimHold, Send,
                    FinishHold, Leave, NextStep, Branches, control
      <4> QED
        BY <1>0, <3>1, <4>1 DEF Goto, TypeInv, ControlType
    <3>3. ~(SetRollbackExpiry(Boot) \/ CompleteNewRoute(Boot) \/ InspectRoute(Boot))
      <4>1. ASSUME SetRollbackExpiry(Boot) \/ CompleteNewRoute(Boot) \/ InspectRoute(Boot)
            PROVE  \E s : s # "idle" /\ Goto(Boot, s)
        BY <4>1 DEF SetRollbackExpiry, CompleteNewRoute, InspectRoute
      <4> QED
        BY <1>0, <4>1 DEF Goto, TypeInv, ControlType
    <3>4. ~(Validate(Boot) \/ ReadBack(Boot))
      BY <2>3 DEF Validate, ReadBack, BootNames
    <3> QED
      BY <1>2, <3>2, <3>3, <3>4 DEF ProcStep, CheckTransition, WriteTransition
  <2>6. ASSUME NEW w \in JournalStages, pc[Boot] = w.at
        PROVE  /\ w.to \in Terminal \cup {"recovery_required"}
               /\ w.err = "idle" => TransitionAllowed(state[m], w.to)
    <3>1. ASSUME w.err = "idle"
          PROVE  \/ w.at = "b_abandon" /\ w.to = "failed"
                 \/ w.at = "b_rolled_back" /\ w.to = "rolled_back"
                 \/ w.at # "b_abandon" /\ w.to = "recovery_required"
      BY <2>3, <2>6, <3>1 DEF JournalStages, Write, BootNames
    <3>2. w.err = "idle" => TransitionAllowed(state[m], w.to)
      BY <2>3, <2>6, <3>1 DEF Knows, TransitionAllowed, Active, Terminal, BootBack, BootNames
    <3> QED
      BY <2>3, <2>6, <3>2, GuideWrites
  <2>7. CASE CheckTransition(Boot)
    <3>1. PICK v \in JournalStages :
            /\ pc[Boot] = v.at
            /\ NextStep(Boot, "write") \/ (~TransitionAllowed(state[m], v.to) /\ Goto(Boot, v.err))
      BY <2>2, <2>7, NeverFault DEF CheckTransition
    <3>2. CASE NextStep(Boot, "write")
      BY <3>2 DEF NextStep
    <3>3. CASE ~TransitionAllowed(state[m], v.to) /\ Goto(Boot, v.err)
      <4>1. pc'[Boot] = v.err
        BY <1>0, <3>3 DEF Goto, TypeInv, ControlType
      <4> QED
        BY <2>6, <3>1, <3>3, <4>1
    <3> QED
      BY <3>1, <3>2, <3>3
  <2>8. CASE WriteTransition(Boot)
    <3>1. PICK v \in JournalStages :
            /\ pc[Boot] = v.at
            /\ \/ SetJournal(m, v.to, v.mark)
               \/ ~IndexAllows(m, v.to)
      BY <2>2, <2>8, NeverFault DEF WriteTransition
    <3>2. IndexAllows(m, v.to)
      BY <2>4 DEF IndexAllows, Unfinished
    <3>3. state' = [state EXCEPT ![m] = v.to]
      BY <3>1, <3>2 DEF SetJournal
    <3>4. CASE n = m
      BY <2>6, <3>1, <3>3, <3>4 DEF TypeInv, JournalType
    <3>5. CASE n # m
      BY <1>0, <2>4, <3>3, <3>5 DEF TypeInv, JournalType
    <3> QED
      BY <3>4, <3>5
  <2> QED
    BY <2>5, <2>7, <2>8
<1>3. \A q \in Proc : pc[q] # "idle" => q = Boot
  BY <1>0 DEF GuideInv, RouteInv, AloneInv
<1>4. ASSUME NEW q \in Proc, ProcStep(q)
      PROVE  q = Boot
  <2>1. pc[q] # "idle"
    <3>1. \A w \in JournalStages : w.at # "idle"
      BY JournalTargets
    <3>2. \A b \in Branches : b.at # "idle"
      BY BranchTargets
    <3> QED
      BY <1>4, <3>1, <3>2
      DEF ProcStep, Validate, CheckTransition, WriteTransition, SwitchRoute, ReadBack, SetRollbackExpiry,
          RebuildProjection, ReleaseHolds, CompleteNewRoute, InspectRoute, Branches
  <2> QED
    BY <1>3, <2>1
<1>5. ASSUME NEW q \in Request PROVE ~Disconnect(q)
  BY <1>3, ProcessAssumption DEF Disconnect, Proc
<1>6. ASSUME NEW c \in Connector, NEW on \in BOOLEAN PROVE ~PatchConnector(c, on)
  BY DEF PatchConnector, OneAdministrator, TypeInv, BoundsType
<1>7. ASSUME NEW q \in Request, NEW m \in Migration
      PROVE  ~(Discover(q, m) \/ Preflight(q, m) \/ Commit(q, m) \/ Rollback(q, m)) /\ ~Create(m)
  BY DEF Discover, Preflight, Commit, Rollback, Call, Create, Up
<1>8. ~Crash
  BY <1>0 DEF Crash
<1>9. ASSUME UNCHANGED vars \/ (\E d \in Delivery : Deliver(d)) \/ (\E m \in Migration : Create(m)) PROVE pc' = pc
  BY <1>9 DEF vars, control, Deliver, HookCurrent, TryHoldForTarget, ReportHoldFailure, NotDelivery, Create
<1> QED
  BY <1>1, <1>2, <1>4, <1>5, <1>6, <1>7, <1>8, <1>9 DEF Next

\* The record a switch is made under, or what the hook wrote over it.
Recorded(m) == \/ main' = NewOf[m] /\ marker[m] = "hold_active"
               \/ main' = OldOf[m] /\ marker[m] \in RollbackMarkers \cup BeforeRouteMarkers
               \/ Reported(m)

LEMMA SwitchActs ==
    ASSUME OneAdministrator, TypeInv, GuideInv, [Next]_vars, main' # main
    PROVE  \E m \in Unfinished : Recorded(m)
<1>1. PICK p \in Proc :
        /\ arg[p] \in Migration /\ state[arg[p]] \in Active /\ Knows(pc[p], arg[p])
        /\ \/ pc[p] = "c_switch" /\ main' = NewOf[arg[p]]
           \/ pc[p] \in {"r_switch", "b_before_switch", "b_r_switch"} /\ main' = OldOf[arg[p]]
  BY MainMoves
<1>2. /\ pc[p] = "c_switch" => marker[arg[p]] = "hold_active" \/ Reported(arg[p])
      /\ pc[p] \in {"r_switch", "b_before_switch", "b_r_switch"} =>
           marker[arg[p]] \in RollbackMarkers \cup BeforeRouteMarkers \/ Reported(arg[p])
  BY <1>1 DEF Knows, RollbackMarkers, RollbackRebuildMarkers, RollbackRouteMarkers
<1>3. arg[p] \in Unfinished
  BY <1>1 DEF Unfinished
<1> QED
  BY <1>1, <1>2, <1>3 DEF Recorded

\* A restart finds the marker that says so before it takes a route back.
LEMMA RestartActs ==
    ASSUME OneAdministrator, RoutesDiffer, TypeInv, GuideInv, [Next]_vars,
           NEW m \in Migration, ~Up, window[m], main = NewOf[m], main' = OldOf[m]
    PROVE  marker[m] \in RollbackMarkers
<1>1. main' # main
  BY RouteAssumption
<1>2. PICK p \in Proc :
        /\ arg[p] \in Migration /\ Knows(pc[p], arg[p])
        /\ \/ pc[p] = "c_switch" /\ main' = NewOf[arg[p]]
           \/ /\ pc[p] \in {"r_switch", "b_before_switch", "b_r_switch"}
              /\ main' = OldOf[arg[p]] /\ main = NewOf[arg[p]]
  BY <1>1, MainMoves
<1>3. p = Boot
  BY <1>2 DEF Up, Proc, GuideInv, RouteInv, AloneInv
<1>4. pc[p] \in {"b_before_switch", "b_r_switch"}
  BY <1>2, <1>3 DEF GuideInv, BootNames
<1>5. m = arg[p]
  BY <1>2, <1>4 DEF RoutesDiffer
<1>6. marker[m] \notin BeforeRouteMarkers
  BY DEF GuideInv, FreshInv, EarlyMarkers
<1> QED
  BY <1>2, <1>4, <1>5, <1>6 DEF Knows, RollbackMarkers

LEMMA GuideHolds == ASSUME OneAdministrator PROVE Spec => [](TypeInv /\ GuideInv)
<1>1. Init => TypeInv /\ GuideInv
  BY TypeInit, GuideInit
<1>2. TypeInv /\ GuideInv /\ [Next]_vars => TypeInv' /\ GuideInv'
  BY TypeStep, GuideStep
<1> QED
  BY <1>1, <1>2, PTL DEF Spec

\* With one administrator the route is switched only under the record of that switch,
\* unless the hook, when the database failed it, wrote over the record meanwhile.
THEOREM SwitchesAreRecorded ==
    ASSUME OneAdministrator PROVE Spec => [][main' # main => \E m \in Unfinished : Recorded(m)]_vars
<1>1. TypeInv /\ GuideInv /\ [Next]_vars => [main' # main => \E m \in Unfinished : Recorded(m)]_vars
  BY SwitchActs
<1> QED
  BY <1>1, GuideHolds, PTL DEF Spec

\* A restart takes no route back whose commit is recorded, whatever statements
\* failed before it and fail under it, unless a rollback of it had begun.
THEOREM CommittedRouteIsKept ==
    ASSUME OneAdministrator, RoutesDiffer PROVE Spec => RestartKeepsCommittedRoute
<1>1. TypeInv /\ GuideInv /\ [Next]_vars =>
        [\A m \in Migration :
           ~Up /\ window[m] /\ main = NewOf[m] /\ main' = OldOf[m] => marker[m] \in RollbackMarkers]_vars
  <2> SUFFICES ASSUME TypeInv, GuideInv, [Next]_vars, NEW m \in Migration,
                      ~Up, window[m], main = NewOf[m], main' = OldOf[m]
               PROVE  marker[m] \in RollbackMarkers
    OBVIOUS
  <2> QED
    BY RestartActs
<1> QED
  BY <1>1, GuideHolds, PTL DEF Spec, RestartKeepsCommittedRoute

\* As long as one administrator works at a time and the database does not fail, the
\* journal is all a restart needs, whatever crashes and dropped connections come
\* between: a switch of the route is recorded before it happens, the startup pass
\* takes back only what was not recorded, and it leaves no migration half done.
THEOREM RestartIsGuided ==
    ASSUME OneAdministrator, NoErrors, RoutesDiffer PROVE Spec => JournalGuidesRestart
<1>1. TypeInv /\ GuideInv /\ [Next]_vars =>
        [main' # main => \E m \in Unfinished :
           \/ main' = NewOf[m] /\ marker[m] = "hold_active"
           \/ main' = OldOf[m] /\ marker[m] \in RollbackMarkers \cup BeforeRouteMarkers]_vars
  <2> SUFFICES ASSUME TypeInv, GuideInv, [Next]_vars, main' # main
               PROVE  \E m \in Unfinished :
                        \/ main' = NewOf[m] /\ marker[m] = "hold_active"
                        \/ main' = OldOf[m] /\ marker[m] \in RollbackMarkers \cup BeforeRouteMarkers
    OBVIOUS
  <2>1. \A m \in Migration : ~Reported(m)
    BY DEF GuideInv, HookInv, Reported
  <2> QED
    BY <2>1, SwitchActs DEF Recorded, Unfinished
<1>2. TypeInv /\ GuideInv /\ [Next]_vars =>
        [pc[Boot] # "idle" /\ pc'[Boot] = "idle" =>
           \A m \in Migration : state'[m] \in Terminal \cup {"recovery_required", "absent"}]_vars
  <2> SUFFICES ASSUME TypeInv, GuideInv, [Next]_vars, pc[Boot] # "idle", pc'[Boot] = "idle", NEW m \in Migration
               PROVE  state'[m] \in Terminal \cup {"recovery_required", "absent"}
    BY DEF vars, control
  <2> QED
    BY RecoverLeaves
<1> QED
  BY <1>1, <1>2, CommittedRouteIsKept, GuideHolds, PTL
  DEF Spec, JournalGuidesRestart, SwitchIsJournalled, RecoverClassifies

-----------------------------------------------------------------------------
(* What a finished migration leaves behind, with one administrator; its rows   *)
(* without database errors.                                                    *)

\* The stages after a release: its rows are decided and its route is on.
NewFinish == { "c_rebuild_mark", "c_rebuild", "c_rebuilt", "c_done", "b_new_rebuild", "b_completed" }
OldFinish ==
  { "c_old_rebuild", "c_failed", "r_rebuild_mark", "r_rebuild", "r_rebuilt", "r_done", "r_stale",
    "b_before_rebuild", "b_failed", "b_old_rebuild", "b_switch_failed", "b_r_rebuild",
    "b_rolled_back", "b_r_stale" }
FinishStages == NewFinish \cup OldFinish

\* The stages that lead to a release, and the releases.
ReleasePath == ReleaseNames \cup
  { "c_switch", "c_window", "r_switch", "b_new", "b_before", "b_before_switch", "b_old", "b_r_route", "b_r_switch" }

Clean(m) == \A d \in Delivery : holdOf[d] = m => hold[d] # "releasing"
MayRelease(m) == state[m] \in Active \ {"draft"} /\ marker[m] \notin RollbackRebuildMarkers
Settled(m) == state[m] \in Terminal \cup {"absent", "draft"} \/ marker[m] \in RollbackRebuildMarkers

\* What a release knows of the rows: it lists and claims its own only, and it has
\* closed what an earlier one left in releasing.
ReleaseKnows(p) ==
    /\ step[p] # "list" => todo[p] \subseteq RowsOf(arg[p])
    /\ step[p] = "claim" => Clean(arg[p])
    /\ step[p] \in {"send", "finish"} =>
         \A d \in Delivery : holdOf[d] = arg[p] /\ hold[d] = "releasing" => d = cur[p]

RowsKnown(p) ==
    /\ pc[p] \in FinishStages => Clean(arg[p])
    /\ pc[p] \in ReleasePath => MayRelease(arg[p])
    /\ pc[p] \in ReleaseNames => ReleaseKnows(p)

FinishInv ==
    /\ \A m \in Migration : Settled(m) => Clean(m)
    /\ \A p \in Proc : RowsKnown(p)

\* One migration, from the connector that is the main one at first.
OnlyMigration == \A m, n \in Migration : m = n /\ OldOf[m] = FirstMain

\* The route while one migration exists.
RouteSettled(m) ==
    /\ state[m] = "completed" => main = NewOf[m]
    /\ state[m] \in {"absent", "draft", "failed", "rolled_back"} => main = OldOf[m]

\* The route at the stages after a release, and where a rebuild is to be resumed.
FinishRoute ==
    /\ \A m \in Unfinished : marker[m] \in RollbackRebuildMarkers => main = OldOf[m]
    /\ \A p \in Proc : /\ pc[p] \in NewFinish => main = NewOf[arg[p]]
                       /\ pc[p] \in OldFinish => main = OldOf[arg[p]]

LEMMA FinishWrites ==
    \A w \in JournalStages :
        /\ w.to \in Terminal => w.at \in FinishStages \cup {"b_abandon"}
        /\ w.to \notin {"absent", "draft"}
        /\ w.mark \in RollbackRebuildMarkers => w.at \in FinishStages
        /\ w.ok \in FinishStages => w.at \in FinishStages
        /\ w.err \notin FinishStages \cup ReleasePath
        /\ w.ok \in ReleasePath => w.to = "committing" /\ w.mark \notin RollbackRebuildMarkers
        /\ w.at \notin ReleasePath
<1>1. \A w \in JournalStages :
        /\ w.to \in Terminal => w.at \in FinishStages \cup {"b_abandon"}
        /\ w.to \notin {"absent", "draft"}
        /\ w.mark \in RollbackRebuildMarkers => w.at \in FinishStages
        /\ w.ok \in FinishStages => w.at \in FinishStages
  BY DEF JournalStages, Write, Terminal, FinishStages, NewFinish, OldFinish, RollbackRebuildMarkers
<1>2. \A w \in JournalStages :
        /\ w.err \notin FinishStages \cup ReleasePath
        /\ w.ok \in ReleasePath => w.to = "committing" /\ w.mark \notin RollbackRebuildMarkers
        /\ w.at \notin ReleasePath
  BY DEF JournalStages, Write, FinishStages, NewFinish, OldFinish, ReleasePath, ReleaseNames, RollbackRebuildMarkers
<1> QED
  BY <1>1, <1>2

LEMMA FinishBranches ==
    /\ \A b \in RebuildStages :
         b.at \in FinishStages /\ b.ok \notin ReleasePath /\ b.err \notin ReleasePath
    /\ \A b \in ForwardSwitches \cup BackwardSwitches :
         b.at \in ReleasePath /\ b.ok \notin FinishStages /\ b.err \notin FinishStages
    /\ \A b \in ReleaseStages :
         b.at \in ReleaseNames /\ b.ok \notin ReleasePath /\ b.err \notin FinishStages \cup ReleasePath
<1>1. \A b \in RebuildStages :
         b.at \in FinishStages /\ b.ok \notin ReleasePath /\ b.err \notin ReleasePath
  BY DEF RebuildStages, Branch, FinishStages, NewFinish, OldFinish, ReleasePath, ReleaseNames
<1>2. \A b \in ForwardSwitches \cup BackwardSwitches :
         b.at \in ReleasePath /\ b.ok \notin FinishStages /\ b.err \notin FinishStages
  BY DEF ForwardSwitches, BackwardSwitches, Branch, FinishStages, NewFinish, OldFinish, ReleasePath
<1>3. \A b \in ReleaseStages :
         b.at \in ReleaseNames /\ b.ok \notin ReleasePath /\ b.err \notin FinishStages \cup ReleasePath
  BY DEF ReleaseStages, NewRouteReleases, OldRouteReleases, Branch, FinishStages, NewFinish, OldFinish,
         ReleasePath, ReleaseNames
<1> QED
  BY <1>1, <1>2, <1>3

LEMMA FinishRests == {"idle", "boot"} \cap (FinishStages \cup ReleasePath) = {} /\ ReleaseNames \subseteq ReleasePath
  BY DEF FinishStages, NewFinish, OldFinish, ReleasePath, ReleaseNames

\* The process at work moves on.
LEMMA FinishGoto ==
    ASSUME TypeInv, AloneInv, NEW p \in Proc, pc[p] # "idle", NEW stage, Goto(p, stage),
           NEW m, m = arg[p], (\A n \in Migration : Settled(n) => Clean(n))',
           stage \in FinishStages => Clean(m)', stage \in ReleasePath => MayRelease(m)'
    PROVE  FinishInv'
<1>1. \A q \in Proc \ {p} : pc'[q] = "idle"
  BY DEF Goto, AloneInv, TypeInv, ControlType
<1>2. /\ pc'[p] = stage /\ (stage # "idle" => arg'[p] = m)
      /\ stage \in ReleaseNames => step'[p] = "list"
  BY ReleaseStageNames, JournalStageNames DEF Goto, TypeInv, ControlType, FirstStep, ReleaseNames, JournalNames
<1>3. ASSUME NEW q \in Proc
      PROVE  RowsKnown(q)'
  <2>1. CASE q = p
    <3>1. pc'[p] \in FinishStages => Clean(arg[p])'
      BY <1>2, FinishRests DEF Clean
    <3>2. pc'[p] \in ReleasePath => MayRelease(arg[p])'
      BY <1>2, FinishRests DEF MayRelease
    <3>3. pc'[p] \in ReleaseNames => ReleaseKnows(p)'
      BY <1>2 DEF ReleaseKnows
    <3> QED
      BY <2>1, <3>1, <3>2, <3>3 DEF RowsKnown
  <2>2. CASE q # p
    BY <1>1, <2>2, FinishRests DEF RowsKnown
  <2> QED
    BY <2>1, <2>2
<1> QED
  BY <1>3 DEF FinishInv

\* ... while rows and journal stay as they are.
LEMMA FinishMoves ==
    ASSUME TypeInv, AloneInv, FinishInv, UNCHANGED <<state, marker, rows>>,
           NEW p \in Proc, pc[p] # "idle", NEW stage, Goto(p, stage),
           stage \in FinishStages => Clean(arg[p]), stage \in ReleasePath => MayRelease(arg[p])
    PROVE  FinishInv'
<1>1. PICK m : m = arg[p]
  OBVIOUS
<1>2. (\A n \in Migration : Settled(n) => Clean(n))'
  BY DEF FinishInv, Settled, Clean, rows
<1>3. /\ stage \in FinishStages => Clean(m)'
      /\ stage \in ReleasePath => MayRelease(m)'
  BY <1>1 DEF Clean, MayRelease, rows
<1> QED
  BY <1>1, <1>2, <1>3, FinishGoto

LEMMA FinishStays ==
    FinishInv /\ UNCHANGED <<state, marker, rows, control, release>> => FinishInv'
  BY DEF FinishInv, RowsKnown, ReleaseKnows, Settled, Clean, MayRelease, RowsOf, rows, control, release

\* A stage that is not on the way to a release moves only on the control.
LEMMA FinishCheck ==
    ASSUME NoErrors, TypeInv, AloneInv, FinishInv, NEW p \in Proc, CheckTransition(p)
    PROVE  FinishInv'
<1>1. PICK w \in JournalStages :
        /\ pc[p] = w.at /\ OnlyControl
        /\ NextStep(p, "write") \/ Goto(p, w.err)
  BY DEF CheckTransition
<1>2. pc[p] # "idle" /\ pc[p] \notin ReleasePath
  BY <1>1, JournalTargets, FinishWrites
<1>3. CASE NextStep(p, "write")
  <2>1. UNCHANGED <<state, marker, rows, pc, arg, release>> /\ \A q \in Proc \ {p} : step'[q] = step[q]
    BY <1>1, <1>3 DEF OnlyControl, NextStep, journal, TypeInv, ControlType
  <2> QED
    BY <1>2, <2>1, FinishRests
    DEF FinishInv, RowsKnown, ReleaseKnows, Settled, Clean, MayRelease, RowsOf, rows, release
<1>4. CASE Goto(p, w.err)
  BY <1>1, <1>2, <1>4, FinishWrites, FinishMoves DEF OnlyControl, journal
<1> QED
  BY <1>1, <1>3, <1>4

LEMMA FinishWrite ==
    ASSUME NoErrors, TypeInv, GuideInv, AloneInv, FinishInv, NEW p \in Proc, WriteTransition(p)
    PROVE  FinishInv'
<1>1. PICK w \in JournalStages :
        /\ pc[p] = w.at
        /\ \/ SetJournal(arg[p], w.to, w.mark) /\ Goto(p, w.ok)
           \/ UNCHANGED journal /\ Goto(p, w.err)
        /\ UNCHANGED rows
  BY DEF WriteTransition
<1>2. pc[p] \notin {"idle", "boot"}
  BY <1>1, JournalTargets
<1>3. CASE UNCHANGED journal /\ Goto(p, w.err)
  BY <1>1, <1>2, <1>3, FinishWrites, FinishMoves DEF journal
<1>4. CASE SetJournal(arg[p], w.to, w.mark) /\ Goto(p, w.ok)
  <2>1. PICK m \in Migration : m = arg[p] /\ Knows(pc[p], m)
    BY <1>2, AtWork
  <2>2. /\ state'[m] = w.to /\ marker'[m] = w.mark
        /\ \A n \in Migration \ {m} : state'[n] = state[n] /\ marker'[n] = marker[n]
    BY <1>4, <2>1 DEF SetJournal, TypeInv, JournalType
  <2>3. w.at \in FinishStages \cup {"b_abandon"} => Clean(m)
    <3>1. CASE w.at \in FinishStages
      BY <1>1, <2>1, <3>1 DEF FinishInv, RowsKnown
    <3>2. CASE w.at = "b_abandon"
      BY <1>1, <2>1, <3>2 DEF FinishInv, Knows, BootNames, Settled
    <3> QED
      BY <3>1, <3>2
  <2>4. \A n : Clean(n)' <=> Clean(n)
    BY <1>1 DEF Clean, rows
  <2>5. (\A n \in Migration : Settled(n) => Clean(n))'
    BY <2>2, <2>3, <2>4, FinishWrites DEF Settled, FinishInv
  <2>6. w.ok \in FinishStages => Clean(m)'
    BY <2>3, <2>4, FinishWrites
  <2>7. w.ok \in ReleasePath => MayRelease(m)'
    BY <2>2, FinishWrites DEF MayRelease, Active
  <2> QED
    BY <1>2, <1>4, <2>1, <2>5, <2>6, <2>7, FinishGoto
<1> QED
  BY <1>1, <1>3, <1>4

LEMMA FinishOthers ==
    ASSUME NoErrors, TypeInv, AloneInv, FinishInv, NEW p \in Proc,
           \/ SwitchRoute(p) \/ RebuildProjection(p) \/ Validate(p) \/ ReadBack(p)
           \/ SetRollbackExpiry(p) \/ CompleteNewRoute(p) \/ InspectRoute(p)
    PROVE  FinishInv'
<1>1. UNCHANGED <<state, marker, rows>>
  BY DEF SwitchRoute, RebuildProjection, Validate, ReadBack, SetRollbackExpiry, CompleteNewRoute, InspectRoute,
         OnlyControl, journal
<1>2. PICK stage : /\ Goto(p, stage) /\ pc[p] # "idle"
                   /\ stage \in FinishStages => pc[p] \in FinishStages
                   /\ stage \in ReleasePath => pc[p] \in ReleasePath
  <2>1. CASE SwitchRoute(p)
    BY <2>1, FinishBranches, FinishRests DEF SwitchRoute
  <2>2. CASE RebuildProjection(p)
    BY <2>2, FinishBranches, FinishRests DEF RebuildProjection
  <2>3. CASE Validate(p) \/ ReadBack(p)
    <3>1. PICK s : /\ Goto(p, s) /\ pc[p] # "idle"
                   /\ s \in {"pf_ready", "c_started", "r_started", "idle", "c_routed", "c_no_readback"}
      BY <2>3 DEF Validate, ReadBack
    <3> QED
      BY <3>1 DEF FinishStages, NewFinish, OldFinish, ReleasePath, ReleaseNames
  <2>4. CASE SetRollbackExpiry(p) \/ CompleteNewRoute(p) \/ InspectRoute(p)
    <3>1. PICK s : /\ Goto(p, s) /\ pc[p] \in {"c_window", "b_new", "b_before", "b_old", "b_r_route"}
                   /\ s \in {"c_release", "c_no_window", "b_new_release", "b_unreleased", "b_before_release",
                             "b_before_switch", "b_ambiguous", "b_old_unreleased", "b_old_release", "b_r_release",
                             "b_r_switch", "b_r_unknown"}
      BY <2>4 DEF SetRollbackExpiry, CompleteNewRoute, InspectRoute
    <3> QED
      BY <3>1 DEF FinishStages, NewFinish, OldFinish, ReleasePath
  <2> QED
    BY <2>1, <2>2, <2>3, <2>4
<1> QED
  BY <1>1, <1>2, FinishMoves DEF FinishInv, RowsKnown

LEMMA FinishRelease ==
    ASSUME NoErrors, TypeInv, AloneInv, FinishInv, NEW p \in Proc, ReleaseHolds(p)
    PROVE  FinishInv'
<1>1. PICK b \in ReleaseStages :
        /\ pc[p] = b.at
        /\ \/ ListHolds(p, b) \/ MarkReleasingUnknown(p, b) \/ ClaimHold(p, b)
           \/ Send(p) \/ FinishHold(p, b)
  BY DEF ReleaseHolds
<1>2. PICK m : m = arg[p]
  OBVIOUS
<1>3. /\ pc[p] \in ReleaseNames /\ pc[p] \in ReleasePath /\ pc[p] \notin FinishStages \cup {"idle"}
      /\ MayRelease(m) /\ ReleaseKnows(p)
  <2>1. pc[p] \in ReleaseNames
    BY <1>1, FinishBranches
  <2> QED
    BY <1>2, <2>1, FinishRests DEF FinishInv, RowsKnown, ReleaseNames, FinishStages, NewFinish, OldFinish
<1>4. ~Settled(m)
  BY <1>3 DEF MayRelease, Settled, Active, Terminal
<1>5. UNCHANGED <<state, marker, holdOf>>
  BY <1>1 DEF ListHolds, MarkReleasingUnknown, ClaimHold, Send, FinishHold, journal, rows
<1>6. \A q \in Proc \ {p} : pc[q] = "idle"
  BY <1>3 DEF AloneInv
\* A step within the release.
<1>7. ASSUME NEW s \in {"mark", "claim", "send", "finish"}, NextStep(p, s),
             (\A n \in Migration : Settled(n) => Clean(n))',
             todo'[p] \subseteq RowsOf(m)',
             s = "claim" => Clean(m)',
             s \in {"send", "finish"} =>
               \A d \in Delivery : holdOf[d] = m /\ hold'[d] = "releasing" => d = cur'[p]
      PROVE  FinishInv'
  <2>1. step'[p] = s /\ UNCHANGED <<pc, arg>>
    BY <1>7 DEF NextStep, TypeInv, ControlType
  <2>2. ReleaseKnows(p)'
    BY <1>2, <1>5, <1>7, <2>1 DEF ReleaseKnows, Clean, RowsOf
  <2>3. RowsKnown(p)'
    BY <1>2, <1>3, <1>5, <2>1, <2>2 DEF RowsKnown, MayRelease
  <2>4. \A q \in Proc \ {p} : RowsKnown(q)'
    BY <1>6, <2>1, FinishRests DEF RowsKnown
  <2> QED
    BY <1>7, <2>3, <2>4 DEF FinishInv
\* The release is left.
<1>8. ASSUME NEW stage, Leave(p, stage), (\A n \in Migration : Settled(n) => Clean(n))',
             stage \in FinishStages => Clean(m)', stage \notin ReleasePath
      PROVE  FinishInv'
  BY <1>2, <1>3, <1>8, FinishGoto DEF Leave
\* A step that takes no row to releasing keeps what is clean.
<1>9. ASSUME \A d \in Delivery : hold'[d] = "releasing" => hold[d] = "releasing"
      PROVE  /\ (\A n \in Migration : Settled(n) => Clean(n))'
             /\ \A n : Clean(n) => Clean(n)'
  BY <1>5, <1>9 DEF FinishInv, Settled, Clean
<1>10. CASE ListHolds(p, b)
  <2>1. /\ UNCHANGED hold /\ NextStep(p, "mark")
        /\ todo' = [todo EXCEPT ![p] = {d \in RowsOf(arg[p]) : hold[d] \in {"held", "failed"}}]
    BY <1>10, NeverFault DEF ListHolds, rows
  <2>2. todo'[p] \subseteq RowsOf(m)'
    BY <1>2, <1>5, <2>1 DEF TypeInv, ReleaseType, RowsOf
  <2> QED
    BY <1>7, <1>9, <2>1, <2>2
<1>11. CASE MarkReleasingUnknown(p, b)
  <2>1. /\ hold' = [d \in Delivery |-> IF Abandoned(p, d) THEN "unknown" ELSE hold[d]]
        /\ Leave(p, b.err) \/ (NextStep(p, "claim") /\ UNCHANGED todo)
        /\ step[p] = "mark"
    BY <1>11, NeverFault DEF MarkReleasingUnknown, release
  <2>2. (\A n \in Migration : Settled(n) => Clean(n))'
    BY <1>9, <2>1
  <2>3. Clean(m)'
    BY <1>2, <1>5, <2>1 DEF Clean, Abandoned
  <2>4. RowsOf(m) \subseteq RowsOf(m)'
    BY <1>5, <2>1 DEF RowsOf
  <2>5. todo[p] \subseteq RowsOf(m)
    BY <1>2, <1>3, <2>1 DEF ReleaseKnows
  <2> QED
    BY <1>1, <1>7, <1>8, <2>1, <2>2, <2>3, <2>4, <2>5, FinishBranches
<1>12. CASE ClaimHold(p, b)
  <2>1. step[p] = "claim" /\ Clean(m) /\ todo[p] \subseteq RowsOf(m)
    BY <1>2, <1>3, <1>12 DEF ClaimHold, ReleaseKnows
  <2>2. CASE Leave(p, b.ok) /\ UNCHANGED hold
    BY <1>1, <1>8, <1>9, <2>1, <2>2, FinishBranches
  <2>3. ASSUME NEW d \in todo[p], todo' = [todo EXCEPT ![p] = @ \ {d}],
               UNCHANGED <<hold, cur, control>>
        PROVE  FinishInv'
    <3>1. todo'[p] \subseteq todo[p] /\ UNCHANGED <<pc, arg, step>>
      BY <2>3 DEF TypeInv, ReleaseType, control
    <3>2. (\A n \in Migration : Settled(n) => Clean(n))' /\ Clean(m)'
      BY <1>9, <2>1, <2>3
    <3>3. ReleaseKnows(p)'
      BY <1>2, <1>5, <2>1, <2>3, <3>1, <3>2 DEF ReleaseKnows, Clean, RowsOf
    <3>4. RowsKnown(p)'
      BY <1>2, <1>3, <1>5, <3>1, <3>3 DEF RowsKnown, MayRelease
    <3>5. \A q \in Proc \ {p} : RowsKnown(q)'
      BY <1>6, <3>1, FinishRests DEF RowsKnown
    <3> QED
      BY <3>2, <3>4, <3>5 DEF FinishInv
  <2>4. ASSUME NEW d \in todo[p], todo' = [todo EXCEPT ![p] = @ \ {d}],
               hold' = [hold EXCEPT ![d] = "releasing"],
               cur' = [cur EXCEPT ![p] = d], NextStep(p, "send")
        PROVE  FinishInv'
    <3>1. d \in Delivery /\ holdOf[d] = m /\ hold'[d] = "releasing"
      BY <2>1, <2>4 DEF RowsOf, TypeInv, RowType
    <3>2. \A e \in Delivery \ {d} : hold'[e] = hold[e]
      BY <2>4 DEF TypeInv, RowType
    <3>3. (\A n \in Migration : Settled(n) => Clean(n))'
      BY <1>4, <1>5, <3>1, <3>2 DEF FinishInv, Settled, Clean
    <3>4. todo'[p] \subseteq RowsOf(m)'
      <4>1. todo'[p] \subseteq todo[p]
        BY <2>4 DEF TypeInv, ReleaseType
      <4> QED
        BY <1>5, <2>1, <3>1, <3>2, <4>1 DEF RowsOf
    <3>5. cur'[p] = d
      BY <2>4, <3>1 DEF TypeInv, ReleaseType
    <3>6. \A e \in Delivery : holdOf[e] = m /\ hold'[e] = "releasing" => e = cur'[p]
      BY <2>1, <3>2, <3>5 DEF Clean
    <3> QED
      BY <1>7, <2>4, <3>3, <3>4, <3>6
  <2> QED
    BY <1>12, <2>2, <2>3, <2>4, NeverFault DEF ClaimHold, WriteClaim
<1>13. CASE Send(p)
  <2>1. UNCHANGED <<hold, todo, cur>> /\ NextStep(p, "finish") /\ step[p] = "send"
    BY <1>13 DEF Send, rows
  <2>2. todo'[p] \subseteq RowsOf(m)'
    BY <1>2, <1>3, <1>5, <2>1 DEF ReleaseKnows, RowsOf
  <2>3. \A d \in Delivery : holdOf[d] = m /\ hold'[d] = "releasing" => d = cur'[p]
    BY <1>2, <1>3, <2>1 DEF ReleaseKnows
  <2> QED
    BY <1>7, <1>9, <2>1, <2>2, <2>3
<1>14. CASE FinishHold(p, b)
  <2>1. /\ hold' = [hold EXCEPT ![cur[p]] = IF @ = "releasing" THEN RowResult(res[p]) ELSE @]
        /\ Leave(p, b.err) \/ (NextStep(p, "claim") /\ UNCHANGED todo)
        /\ step[p] = "finish"
    BY <1>14, NeverFault DEF FinishHold
  <2>2. cur[p] \in Delivery /\ RowResult(res[p]) \in RowOutcome
    BY <2>1 DEF TypeInv, ReleaseType, RowResult, RowOutcome
  <2>3. /\ hold'[cur[p]] # "releasing"
        /\ \A e \in Delivery \ {cur[p]} : hold'[e] = hold[e]
        /\ hold[cur[p]] # "none" => hold'[cur[p]] # "none"
    BY <2>1, <2>2 DEF TypeInv, RowType, RowOutcome
  <2>4. (\A n \in Migration : Settled(n) => Clean(n))'
    BY <1>9, <2>2, <2>3
  <2>5. Clean(m)'
    BY <1>2, <1>3, <1>5, <2>1, <2>3 DEF ReleaseKnows, Clean
  <2>6. RowsOf(m) \subseteq RowsOf(m)'
    BY <1>5, <2>2, <2>3 DEF RowsOf
  <2>7. todo[p] \subseteq RowsOf(m)
    BY <1>2, <1>3, <2>1 DEF ReleaseKnows
  <2> QED
    BY <1>1, <1>7, <1>8, <2>1, <2>4, <2>5, <2>6, <2>7, FinishBranches
<1> QED
  BY <1>1, <1>10, <1>11, <1>12, <1>13, <1>14

LEMMA FinishEnter ==
    ASSUME OneAdministrator, TypeInv, GuideInv, FinishInv,
           \/ \E m \in Migration : Create(m)
           \/ \E p \in Request, m \in Migration : Discover(p, m) \/ Preflight(p, m) \/ Commit(p, m) \/ Rollback(p, m)
           \/ Recover
    PROVE  FinishInv'
<1>1. ASSUME NEW m \in Migration, Create(m) PROVE FinishInv'
  <2>1. /\ state[m] = "absent" /\ Unfinished = {} /\ state'[m] = "draft" /\ marker'[m] = "draft"
        /\ \A n \in Migration \ {m} : state'[n] = state[n] /\ marker'[n] = marker[n]
        /\ UNCHANGED <<rows, control, release>>
    BY <1>1 DEF Create, TypeInv, JournalType
  <2>2. \A n : Clean(n)' <=> Clean(n)
    BY <2>1 DEF Clean, rows
  <2>3. \A n \in Migration : Settled(n)' => Clean(n)'
    BY <2>1, <2>2 DEF Settled, FinishInv
  <2>4. ASSUME NEW p \in Proc PROVE RowsKnown(p)'
    <3>1. pc[p] \notin ReleasePath
      BY <2>1, AtWork, FinishRests DEF FinishInv, RowsKnown, MayRelease, Unfinished
    <3> QED
      BY <2>1, <2>2, <3>1, FinishRests DEF FinishInv, RowsKnown, control
  <2> QED
    BY <2>3, <2>4 DEF FinishInv
<1>2. ASSUME NEW p \in Request, NEW m \in Migration,
             Discover(p, m) \/ Preflight(p, m) \/ Commit(p, m) \/ Rollback(p, m)
      PROVE  FinishInv'
  <2>1. PICK stage \in {"discovered", "pf_discovered", "pf_validate", "c_validate", "r_validate"} : Call(p, m, stage)
    BY <1>2 DEF Discover, Preflight, Commit, Rollback
  <2>2. p \in Proc /\ stage \notin FinishStages \cup ReleasePath
    BY <2>1 DEF Proc, FinishStages, NewFinish, OldFinish, ReleasePath, ReleaseNames
  <2>3. /\ pc'[p] = stage /\ UNCHANGED <<state, marker, rows, release>>
        /\ \A q \in Proc \ {p} : pc'[q] = pc[q] /\ arg'[q] = arg[q] /\ step'[q] = step[q]
    BY <2>1, <2>2 DEF Call, TypeInv, ControlType, journal
  <2> QED
    BY <2>2, <2>3, FinishRests
    DEF FinishInv, RowsKnown, ReleaseKnows, Settled, Clean, MayRelease, RowsOf, rows, release
<1>3. CASE Recover
  <2>1. Boot \in Proc /\ pc[Boot] = "boot" /\ UNCHANGED <<state, marker, rows, release>>
    BY <1>3 DEF Recover, Proc, OnlyControl, journal
  <2>2. CASE Goto(Boot, "idle")
    BY <2>1, <2>2, FinishRests, FinishMoves DEF GuideInv, RouteInv
  <2>3. CASE \E m \in Resumable : /\ pc' = [pc EXCEPT ![Boot] = RecoverStage(marker[m])]
                                  /\ arg' = [arg EXCEPT ![Boot] = m]
    <3>1. PICK m \in Resumable : /\ pc' = [pc EXCEPT ![Boot] = RecoverStage(marker[m])]
                                 /\ arg' = [arg EXCEPT ![Boot] = m]
      BY <2>3
    <3>2. m \in Migration /\ state[m] \in Active
      BY <3>1 DEF Resumable
    <3> DEFINE stage == RecoverStage(marker[m])
    <3>3. stage \in {"b_abandon", "b_before", "b_new", "b_old", "b_r_rebuild", "b_r_route", "b_stuck"}
      BY DEF RecoverStage
    <3>4. /\ stage = "b_r_rebuild" => marker[m] \in RollbackRebuildMarkers
          /\ stage \in {"b_before", "b_new", "b_old", "b_r_route"} =>
               marker[m] \notin RollbackRebuildMarkers \cup {"draft"}
      BY DEF RecoverStage, BeforeRouteMarkers, NewRouteMarkers, OldRouteMarkers, RollbackRebuildMarkers,
             RollbackRouteMarkers
    <3> HIDE DEF stage
    <3>5. /\ stage \in FinishStages => stage = "b_r_rebuild"
          /\ stage \in ReleasePath => stage \in {"b_before", "b_new", "b_old", "b_r_route"}
          /\ stage \notin ReleaseNames
      BY <3>3 DEF FinishStages, NewFinish, OldFinish, ReleasePath, ReleaseNames
    <3>6. /\ stage \in FinishStages => Clean(m)
          /\ stage \in ReleasePath => MayRelease(m)
      BY <3>2, <3>4, <3>5 DEF FinishInv, Settled, MayRelease, GuideInv, PairInv
    <3>7. /\ pc'[Boot] = stage /\ arg'[Boot] = m
          /\ \A q \in Proc \ {Boot} : pc'[q] = "idle"
      BY <2>1, <3>1 DEF TypeInv, ControlType, stage, GuideInv, RouteInv, AloneInv
    <3>8. ASSUME NEW q \in Proc PROVE RowsKnown(q)'
      <4>1. CASE q = Boot
        BY <2>1, <3>5, <3>6, <3>7, <4>1 DEF RowsKnown, Clean, MayRelease, rows
      <4>2. CASE q # Boot
        BY <3>7, <4>2, FinishRests DEF RowsKnown
      <4> QED
        BY <4>1, <4>2
    <3> QED
      BY <2>1, <3>8 DEF FinishInv, Settled, Clean, rows
  <2> QED
    BY <1>3, <2>2, <2>3 DEF Recover
<1> QED
  BY <1>1, <1>2, <1>3

LEMMA FinishDeliver ==
    ASSUME NoErrors, TypeInv, GuideInv, DeliveryInv, FinishInv, NEW d \in Delivery, Deliver(d)
    PROVE  FinishInv'
<1>1. dpc[d] \notin {"report", "report_write"} /\ UNCHANGED <<control, release>>
  BY DEF GuideInv, HookInv, Deliver, HookCurrent, TryHoldForTarget, ReportHoldFailure, NotDelivery
<1>2. UNCHANGED <<state, marker>>
  BY <1>1 DEF Deliver, HookCurrent, TryHoldForTarget, ReportHoldFailure
<1>3. CASE UNCHANGED rows
  BY <1>1, <1>2, <1>3, FinishStays
<1>4. CASE ~UNCHANGED rows
  <2>1. /\ dpc[d] = "hold" /\ hold' = [hold EXCEPT ![d] = "held"]
        /\ \E m : holdOf' = [holdOf EXCEPT ![d] = m]
    BY <1>1, <1>4 DEF Deliver, HookCurrent, TryHoldForTarget, ReportHoldFailure
  <2>2. hold[d] = "none"
    BY <2>1 DEF DeliveryInv
  <2>3. /\ hold'[d] = "held"
        /\ \A e \in Delivery \ {d} : hold'[e] = hold[e] /\ holdOf'[e] = holdOf[e]
    BY <2>1 DEF TypeInv, RowType
  <2>4. \A n : Clean(n) => Clean(n)'
    BY <2>3 DEF Clean
  <2>5. ASSUME NEW p \in Proc PROVE RowsKnown(p)'
    <3>1. ReleaseKnows(p) => ReleaseKnows(p)'
      <4>1. d \notin RowsOf(arg[p])
        BY <2>2 DEF RowsOf
      <4>2. RowsOf(arg[p]) \subseteq RowsOf(arg[p])'
        BY <1>1, <2>3, <4>1 DEF RowsOf, control
      <4> QED
        BY <1>1, <2>3, <2>4, <4>2 DEF ReleaseKnows, control, release
    <3> QED
      BY <1>1, <1>2, <2>4, <3>1 DEF FinishInv, RowsKnown, MayRelease, control
  <2> QED
    BY <1>2, <2>4, <2>5 DEF FinishInv, Settled
<1> QED
  BY <1>3, <1>4

LEMMA FinishStep ==
    ASSUME OneAdministrator, NoErrors, TypeInv, GuideInv, DeliveryInv, FinishInv, [Next]_vars
    PROVE  FinishInv'
<1>1. AloneInv
  BY DEF GuideInv, RouteInv
<1>2. ASSUME NEW p \in Request, Disconnect(p) PROVE FinishInv'
  <2>1. p \in Proc /\ pc[p] # "idle" /\ Goto(p, "idle") /\ UNCHANGED <<state, marker, rows>>
    BY <1>2 DEF Disconnect, Leave, Proc, journal
  <2> QED
    BY <1>1, <2>1, FinishRests, FinishMoves
<1>3. ASSUME NEW p \in Proc, ProcStep(p) PROVE FinishInv'
  BY <1>1, <1>3, FinishCheck, FinishWrite, FinishOthers, FinishRelease DEF ProcStep
<1>4. ASSUME NEW c \in Connector, NEW on \in BOOLEAN, PatchConnector(c, on) PROVE FALSE
  BY <1>4 DEF PatchConnector, OneAdministrator, TypeInv, BoundsType
<1>5. CASE Crash
  <2>1. UNCHANGED <<state, marker, rows>> /\ \A p \in Proc : pc'[p] \in {"idle", "boot"}
    BY <1>5 DEF Crash, journal
  <2> QED
    BY <2>1, FinishRests DEF FinishInv, RowsKnown, Settled, Clean, rows
<1>6. CASE UNCHANGED vars
  BY <1>6, FinishStays DEF vars, journal
<1> QED
  BY <1>2, <1>3, <1>4, <1>5, <1>6, FinishEnter, FinishDeliver DEF Next

LEMMA FinishInit == Init => FinishInv
<1> SUFFICES ASSUME Init PROVE FinishInv
  OBVIOUS
<1>1. (\A d \in Delivery : hold[d] = "none") /\ \A p \in Proc : pc[p] \in {"idle", "boot"}
  BY DEF Init
<1> QED
  BY <1>1, FinishRests DEF FinishInv, RowsKnown, Settled, Clean

LEMMA RestWrites ==
    \A w \in JournalStages :
        /\ w.to = "completed" => w.at \in NewFinish
        /\ w.to \in {"failed", "rolled_back"} => w.at \in OldFinish \cup {"b_abandon"}
        /\ w.to \notin {"absent", "draft"}
        /\ w.mark \in RollbackRebuildMarkers => w.at \in OldFinish
        /\ w.ok \in NewFinish => w.at \in NewFinish
        /\ w.ok \in OldFinish => w.at \in OldFinish
  BY DEF JournalStages, Write, NewFinish, OldFinish, RollbackRebuildMarkers

LEMMA RestBranches ==
    /\ \A b \in RebuildStages : \A s \in {b.ok, b.err} :
         /\ s \in NewFinish => b.at \in NewFinish
         /\ s \in OldFinish => b.at \in OldFinish
    /\ \A b \in NewRouteReleases : b.ok \notin OldFinish
    /\ \A b \in OldRouteReleases : b.ok \notin NewFinish
    /\ \A b \in ForwardSwitches : b.at = "c_switch"
<1>1. \A b \in RebuildStages :
         /\ b.ok \in NewFinish => b.at \in NewFinish
         /\ b.ok \in OldFinish => b.at \in OldFinish
         /\ b.err \in NewFinish => b.at \in NewFinish
         /\ b.err \in OldFinish => b.at \in OldFinish
  BY DEF RebuildStages, Branch, NewFinish, OldFinish
<1>2. /\ \A b \in NewRouteReleases : b.ok \notin OldFinish
      /\ \A b \in OldRouteReleases : b.ok \notin NewFinish
      /\ \A b \in ForwardSwitches : b.at = "c_switch"
  BY DEF NewRouteReleases, OldRouteReleases, ForwardSwitches, Branch, NewFinish, OldFinish
<1> QED
  BY <1>1, <1>2

LEMMA RestGoto ==
    ASSUME TypeInv, AloneInv, NEW p \in Proc, pc[p] # "idle", NEW stage, Goto(p, stage),
           (\A n \in Unfinished : marker[n] \in RollbackRebuildMarkers => main = OldOf[n])',
           stage \in NewFinish => main' = NewOf[arg[p]], stage \in OldFinish => main' = OldOf[arg[p]]
    PROVE  FinishRoute'
<1>1. \A q \in Proc \ {p} : pc'[q] = "idle"
  BY DEF Goto, AloneInv, TypeInv, ControlType
<1>2. pc'[p] = stage /\ (stage # "idle" => arg'[p] = arg[p])
  BY DEF Goto, TypeInv, ControlType
<1> QED
  BY <1>1, <1>2, FinishRests DEF FinishRoute, FinishStages

\* The journal and the route stay; the stage knows the route already.
LEMMA RestMoves ==
    ASSUME TypeInv, AloneInv, FinishRoute, UNCHANGED <<state, marker, main>>,
           NEW p \in Proc, pc[p] # "idle", NEW stage, Goto(p, stage),
           stage \in NewFinish => main = NewOf[arg[p]], stage \in OldFinish => main = OldOf[arg[p]]
    PROVE  FinishRoute'
<1>1. (\A n \in Unfinished : marker[n] \in RollbackRebuildMarkers => main = OldOf[n])'
  BY DEF FinishRoute, Unfinished
<1> QED
  BY <1>1, RestGoto

LEMMA RestStays == FinishRoute /\ UNCHANGED <<state, marker, main, pc, arg>> => FinishRoute'
  BY DEF FinishRoute, Unfinished

LEMMA RestJournal ==
    ASSUME TypeInv, GuideInv, AloneInv, FinishRoute, NEW p \in Proc, CheckTransition(p) \/ WriteTransition(p)
    PROVE  FinishRoute'
<1>1. PICK w \in JournalStages :
        /\ pc[p] = w.at /\ UNCHANGED main
        /\ \/ UNCHANGED journal /\ (UNCHANGED <<pc, arg>> \/ Goto(p, w.err))
           \/ SetJournal(arg[p], w.to, w.mark) /\ Goto(p, w.ok)
  BY DEF CheckTransition, WriteTransition, OnlyControl, NextStep
<1>2. pc[p] \notin {"idle", "boot"}
  BY <1>1, JournalTargets
<1>3. CASE UNCHANGED journal /\ UNCHANGED <<pc, arg>>
  BY <1>1, <1>3, RestStays DEF journal
<1>4. CASE UNCHANGED journal /\ Goto(p, w.err)
  BY <1>1, <1>2, <1>4, FinishWrites, RestMoves DEF journal, FinishStages
<1>5. CASE SetJournal(arg[p], w.to, w.mark) /\ Goto(p, w.ok)
  <2>1. PICK m \in Migration : m = arg[p]
    BY <1>2, AtWork
  <2>2. /\ state'[m] = w.to /\ marker'[m] = w.mark
        /\ \A n \in Migration \ {m} : state'[n] = state[n] /\ marker'[n] = marker[n]
    BY <1>5, <2>1 DEF SetJournal, TypeInv, JournalType
  <2>3. /\ w.at \in NewFinish => main = NewOf[m]
        /\ w.at \in OldFinish => main = OldOf[m]
    BY <1>1, <2>1 DEF FinishRoute
  <2>4. (\A n \in Unfinished : marker[n] \in RollbackRebuildMarkers => main = OldOf[n])'
    BY <1>1, <2>2, <2>3, RestWrites DEF FinishRoute, Unfinished
  <2> QED
    BY <1>1, <1>2, <1>5, <2>1, <2>3, <2>4, RestWrites, RestGoto
<1> QED
  BY <1>1, <1>3, <1>4, <1>5

\* Only the migration whose route is switched is unfinished, and its marker is from
\* before the rebuild.
LEMMA RestSwitch ==
    ASSUME TypeInv, GuideInv, AloneInv, FinishRoute, NEW p \in Proc, SwitchRoute(p)
    PROVE  FinishRoute'
<1>1. PICK b \in ForwardSwitches \cup BackwardSwitches :
        /\ pc[p] = b.at /\ UNCHANGED <<state, marker>>
        /\ Goto(p, b.ok) \/ Goto(p, b.err)
        /\ main' = main \/ b \in ForwardSwitches \/ main' = OldRoute(p)
  BY DEF SwitchRoute, SwitchMainConnector, journal
<1>2. pc[p] \notin {"idle", "boot"} /\ b.ok \notin FinishStages /\ b.err \notin FinishStages
  BY <1>1, FinishBranches, FinishRests
<1>3. PICK m \in Migration : m = arg[p] /\ Knows(pc[p], m)
  BY <1>2, AtWork
<1>4. /\ state[m] \in Active
      /\ b \in ForwardSwitches => marker[m] \notin RollbackRebuildMarkers
  BY <1>1, <1>3, RestBranches DEF Knows, Reported, BackwardSwitches, Branch, BootNames, Active, RollbackRebuildMarkers
<1>5. \A n \in Unfinished : n = m
  BY <1>4 DEF GuideInv, OneActiveMigration, Unfinished
<1>6. (\A n \in Unfinished : marker[n] \in RollbackRebuildMarkers => main = OldOf[n])'
  <2>1. Unfinished' = Unfinished
    BY <1>1 DEF Unfinished
  <2> QED
    BY <1>1, <1>3, <1>4, <1>5, <2>1 DEF FinishRoute, OldRoute
<1> QED
  BY <1>1, <1>2, <1>6, RestGoto DEF FinishStages

LEMMA RestOthers ==
    ASSUME TypeInv, GuideInv, AloneInv, FinishRoute, NEW p \in Proc,
           \/ RebuildProjection(p) \/ ReleaseHolds(p) \/ Validate(p) \/ ReadBack(p)
           \/ SetRollbackExpiry(p) \/ CompleteNewRoute(p) \/ InspectRoute(p)
    PROVE  FinishRoute'
<1>1. UNCHANGED <<state, marker>>
  BY DEF RebuildProjection, ReleaseHolds, ListHolds, MarkReleasingUnknown, ClaimHold, Send, FinishHold,
         Validate, ReadBack, SetRollbackExpiry, CompleteNewRoute, InspectRoute, OnlyControl, journal
<1>2. UNCHANGED main
  BY RouteAssumption
  DEF GuideInv, RebuildProjection, EnsureMainConnector, ReleaseHolds, ListHolds, MarkReleasingUnknown,
      ClaimHold, Send, FinishHold, Validate, ReadBack, SetRollbackExpiry, CompleteNewRoute, InspectRoute,
      OnlyControl
<1>3. CASE RebuildProjection(p)
  <2>1. PICK b \in RebuildStages : pc[p] = b.at /\ \E s \in {b.ok, b.err} : Goto(p, s)
    BY <1>3 DEF RebuildProjection
  <2>2. PICK s \in {b.ok, b.err} : Goto(p, s)
    BY <2>1
  <2>3. pc[p] # "idle"
    BY <2>1, FinishBranches, FinishRests
  <2>4. /\ s \in NewFinish => main = NewOf[arg[p]]
        /\ s \in OldFinish => main = OldOf[arg[p]]
    BY <2>1, RestBranches DEF FinishRoute
  <2> QED
    BY <1>1, <1>2, <2>2, <2>3, <2>4, RestMoves
<1>4. CASE ReleaseHolds(p)
  <2>1. PICK b \in ReleaseStages :
          /\ pc[p] = b.at
          /\ UNCHANGED <<pc, arg>> \/ Goto(p, b.ok) \/ Goto(p, b.err)
    BY <1>4 DEF ReleaseHolds, ListHolds, MarkReleasingUnknown, ClaimHold, Send, FinishHold,
                Leave, NextStep, control
  <2>2. pc[p] # "idle" /\ b.err \notin FinishStages
    BY <2>1, FinishBranches, FinishRests
  <2>3. /\ b.ok \in NewFinish => main = NewOf[arg[p]]
        /\ b.ok \in OldFinish => main = OldOf[arg[p]]
    BY <2>1, RestBranches, RouteTables DEF GuideInv, RouteInv, Fits, ReleaseStages
  <2> QED
    BY <1>1, <1>2, <2>1, <2>2, <2>3, RestMoves, RestStays DEF FinishStages
<1>5. CASE \/ Validate(p) \/ ReadBack(p) \/ SetRollbackExpiry(p) \/ CompleteNewRoute(p) \/ InspectRoute(p)
  <2>1. PICK s : /\ Goto(p, s) /\ pc[p] # "idle"
                 /\ s \in {"pf_ready", "c_started", "r_started", "idle", "c_routed", "c_no_readback",
                           "c_release", "c_no_window", "b_new_release", "b_unreleased", "b_before_release",
                           "b_before_switch", "b_ambiguous", "b_old_unreleased", "b_old_release", "b_r_release",
                           "b_r_switch", "b_r_unknown"}
    BY <1>5 DEF Validate, ReadBack, SetRollbackExpiry, CompleteNewRoute, InspectRoute
  <2>2. s \notin NewFinish /\ s \notin OldFinish
    BY <2>1 DEF NewFinish, OldFinish
  <2> QED
    BY <1>1, <1>2, <2>1, <2>2, RestMoves
<1> QED
  BY <1>3, <1>4, <1>5

LEMMA RestEnter ==
    ASSUME OneAdministrator, TypeInv, GuideInv, FinishRoute,
           \/ \E m \in Migration : Create(m)
           \/ \E p \in Request, m \in Migration : Discover(p, m) \/ Preflight(p, m) \/ Commit(p, m) \/ Rollback(p, m)
           \/ Recover
    PROVE  FinishRoute'
<1>1. ASSUME NEW m \in Migration, Create(m) PROVE FinishRoute'
  <2>1. /\ state[m] = "absent" /\ state'[m] = "draft" /\ marker'[m] = "draft"
        /\ UNCHANGED <<main, pc, arg>>
    BY <1>1 DEF Create, TypeInv, JournalType, control
  <2>2. \A n \in Migration \ {m} : state'[n] = state[n] /\ marker'[n] = marker[n]
    BY <1>1 DEF Create, TypeInv, JournalType
  <2> QED
    BY <2>1, <2>2 DEF FinishRoute, Unfinished, RollbackRebuildMarkers
<1>2. ASSUME NEW p \in Request, NEW m \in Migration,
             Discover(p, m) \/ Preflight(p, m) \/ Commit(p, m) \/ Rollback(p, m)
      PROVE  FinishRoute'
  <2>1. PICK stage \in {"discovered", "pf_discovered", "pf_validate", "c_validate", "r_validate"} : Call(p, m, stage)
    BY <1>2 DEF Discover, Preflight, Commit, Rollback
  <2>2. p \in Proc /\ stage \notin NewFinish \cup OldFinish
    BY <2>1 DEF Proc, NewFinish, OldFinish
  <2>3. /\ pc'[p] = stage /\ UNCHANGED <<state, marker, main>>
        /\ \A q \in Proc \ {p} : pc'[q] = pc[q] /\ arg'[q] = arg[q]
    BY <2>1, <2>2 DEF Call, TypeInv, ControlType, journal
  <2> QED
    BY <2>2, <2>3 DEF FinishRoute, Unfinished
<1>3. CASE Recover
  <2>1. Boot \in Proc /\ pc[Boot] = "boot" /\ UNCHANGED <<state, marker, main>>
    BY <1>3 DEF Recover, Proc, OnlyControl, journal
  <2>2. CASE Goto(Boot, "idle")
    BY <2>1, <2>2, FinishRests, RestMoves DEF GuideInv, RouteInv, FinishStages
  <2>3. CASE \E m \in Resumable : /\ pc' = [pc EXCEPT ![Boot] = RecoverStage(marker[m])]
                                  /\ arg' = [arg EXCEPT ![Boot] = m]
    <3>1. PICK m \in Resumable : /\ pc' = [pc EXCEPT ![Boot] = RecoverStage(marker[m])]
                                 /\ arg' = [arg EXCEPT ![Boot] = m]
      BY <2>3
    <3>2. m \in Unfinished
      BY <3>1 DEF Resumable, Unfinished
    <3> DEFINE stage == RecoverStage(marker[m])
    <3>3. /\ stage \in {"b_abandon", "b_before", "b_new", "b_old", "b_r_rebuild", "b_r_route", "b_stuck"}
          /\ stage = "b_r_rebuild" => marker[m] \in RollbackRebuildMarkers
      BY DEF RecoverStage, BeforeRouteMarkers, NewRouteMarkers, OldRouteMarkers, RollbackRebuildMarkers,
             RollbackRouteMarkers
    <3> HIDE DEF stage
    <3>4. stage \notin NewFinish /\ (stage \in OldFinish => stage = "b_r_rebuild")
      BY <3>3 DEF NewFinish, OldFinish
    <3>5. stage \in OldFinish => main = OldOf[m]
      BY <3>2, <3>3, <3>4 DEF FinishRoute
    <3>6. /\ pc'[Boot] = stage /\ arg'[Boot] = m
          /\ \A q \in Proc \ {Boot} : pc'[q] = "idle"
      BY <2>1, <3>1 DEF TypeInv, ControlType, stage, GuideInv, RouteInv, AloneInv
    <3> QED
      BY <2>1, <3>4, <3>5, <3>6, FinishRests DEF FinishRoute, Unfinished, FinishStages
  <2> QED
    BY <1>3, <2>2, <2>3 DEF Recover
<1> QED
  BY <1>1, <1>2, <1>3

LEMMA RestStep ==
    ASSUME OneAdministrator, TypeInv, GuideInv, FinishRoute, [Next]_vars
    PROVE  FinishRoute'
<1>1. AloneInv
  BY DEF GuideInv, RouteInv
<1>2. ASSUME NEW p \in Request, Disconnect(p) PROVE FinishRoute'
  <2>1. p \in Proc /\ pc[p] # "idle" /\ Goto(p, "idle") /\ UNCHANGED <<state, marker, main>>
    BY <1>2 DEF Disconnect, Leave, Proc, journal
  <2> QED
    BY <1>1, <2>1, FinishRests, RestMoves DEF FinishStages
<1>3. ASSUME NEW p \in Proc, ProcStep(p) PROVE FinishRoute'
  BY <1>1, <1>3, RestJournal, RestSwitch, RestOthers DEF ProcStep
<1>4. ASSUME NEW d \in Delivery, Deliver(d) PROVE FinishRoute'
  <2>1. /\ UNCHANGED <<main, pc, arg>>
        /\ \/ UNCHANGED <<state, marker>>
           \/ \E m \in Migration : SetJournal(m, "recovery_required", "hold_persistence_failed")
    BY <1>4 DEF Deliver, HookCurrent, TryHoldForTarget, ReportHoldFailure, NotDelivery, control,
                TypeInv, SendingType, GuideInv
  <2>2. \A n \in Migration : \/ state'[n] = state[n] /\ marker'[n] = marker[n]
                            \/ marker'[n] = "hold_persistence_failed"
    BY <2>1 DEF SetJournal, TypeInv, JournalType
  <2> QED
    BY <2>1, <2>2 DEF FinishRoute, Unfinished, RollbackRebuildMarkers
<1>5. ASSUME NEW c \in Connector, NEW on \in BOOLEAN, PatchConnector(c, on) PROVE FALSE
  BY <1>5 DEF PatchConnector, OneAdministrator, TypeInv, BoundsType
<1>6. CASE Crash
  <2>1. UNCHANGED <<state, marker, main>> /\ \A p \in Proc : pc'[p] \in {"idle", "boot"}
    BY <1>6 DEF Crash, journal
  <2> QED
    BY <2>1, FinishRests DEF FinishRoute, Unfinished, FinishStages
<1>7. CASE UNCHANGED vars
  BY <1>7, RestStays DEF vars, journal, control
<1> QED
  BY <1>2, <1>3, <1>4, <1>5, <1>6, <1>7, RestEnter DEF Next

LEMMA RestInit == Init => FinishRoute
<1> SUFFICES ASSUME Init PROVE FinishRoute
  OBVIOUS
<1>1. (\A p \in Proc : pc[p] \in {"idle", "boot"}) /\ \A m \in Migration : state[m] = "absent"
  BY DEF Init
<1> QED
  BY <1>1, FinishRests DEF FinishRoute, FinishStages, Unfinished, Active

\* What a process or the hook makes of a migration's state.
LEMMA StateMoves ==
    ASSUME OneAdministrator, TypeInv, GuideInv, [Next]_vars, NEW m \in Migration, state'[m] # state[m]
    PROVE  /\ main' = main
           /\ \/ state[m] = "absent" /\ state'[m] = "draft"
              \/ state'[m] = "recovery_required"
              \/ \E p \in Proc, w \in JournalStages :
                    pc[p] = w.at /\ arg[p] = m /\ state'[m] = w.to /\ Knows(pc[p], m)
<1>1. ASSUME NEW p \in Proc, WriteTransition(p)
      PROVE  /\ main' = main
             /\ \E w \in JournalStages : pc[p] = w.at /\ arg[p] = m /\ state'[m] = w.to /\ Knows(pc[p], m)
  <2>1. PICK w \in JournalStages :
          pc[p] = w.at /\ main' = main /\ (UNCHANGED journal \/ SetJournal(arg[p], w.to, w.mark))
    BY <1>1 DEF WriteTransition
  <2>2. state' = [state EXCEPT ![arg[p]] = w.to]
    BY <2>1 DEF SetJournal, journal
  <2>3. arg[p] = m /\ state'[m] = w.to
    BY <2>2 DEF TypeInv, JournalType
  <2>4. Knows(pc[p], m)
    BY <2>3 DEF GuideInv
  <2> QED
    BY <2>1, <2>3, <2>4
<1>2. ASSUME NEW n \in Migration, Create(n)
      PROVE  main' = main /\ state[m] = "absent" /\ state'[m] = "draft"
  BY <1>2 DEF Create, TypeInv, JournalType
<1>3. ASSUME NEW d \in Delivery, Deliver(d)
      PROVE  main' = main /\ state'[m] = "recovery_required"
  BY <1>3 DEF Deliver, HookCurrent, TryHoldForTarget, ReportHoldFailure, NotDelivery, SetJournal, TypeInv,
              JournalType
<1> QED
  BY <1>1, <1>2, <1>3
  DEF Next, vars, journal, Discover, Preflight, Commit, Rollback, Call, Disconnect, ProcStep, Validate,
      CheckTransition, SwitchRoute, ReadBack, SetRollbackExpiry, RebuildProjection, ReleaseHolds, ListHolds,
      MarkReleasingUnknown, ClaimHold, Send, FinishHold, CompleteNewRoute, InspectRoute, Recover, OnlyControl,
      PatchConnector, Crash

\* A migration is declared finished only while the route it reports is on.
Outcome(m) ==
    /\ state'[m] = "completed" => main = NewOf[m] /\ main' = main
    /\ state'[m] = "rolled_back" => main = OldOf[m] /\ main' = main
    /\ state'[m] = "failed" => state[m] = "draft" \/ (main = OldOf[m] /\ main' = main)

LEMMA OutcomeStep ==
    ASSUME OneAdministrator, TypeInv, GuideInv, FinishRoute, [Next]_vars,
           NEW m \in Migration, state'[m] # state[m]
    PROVE  Outcome(m)
<1>1. main' = main
  BY StateMoves
<1>2. ASSUME NEW p \in Proc, NEW w \in JournalStages,
             pc[p] = w.at, arg[p] = m, state'[m] = w.to, Knows(pc[p], m)
      PROVE  Outcome(m)
  <2>1. /\ w.at \in NewFinish => main = NewOf[m]
        /\ w.at \in OldFinish => main = OldOf[m]
    BY <1>2 DEF FinishRoute
  <2>2. w.at = "b_abandon" => state[m] = "draft"
    BY <1>2 DEF Knows, BootNames
  <2>3. /\ w.to = "completed" => w.at \in NewFinish
        /\ w.to \in {"failed", "rolled_back"} => w.at \in OldFinish \cup {"b_abandon"}
        /\ w.at = "b_abandon" => w.to = "failed"
    BY RestWrites DEF JournalStages, Write
  <2> QED
    BY <1>1, <1>2, <2>1, <2>2, <2>3 DEF Outcome
<1> QED
  BY <1>2, StateMoves DEF Outcome

\* With one migration, and so nobody else to move the route, that stays so.
LEMMA SettledStep ==
    ASSUME OneAdministrator, OnlyMigration, TypeInv, GuideInv, FinishRoute, [Next]_vars,
           \A n \in Migration : RouteSettled(n), NEW m \in Migration
    PROVE  RouteSettled(m)'
<1>1. CASE main' # main
  <2>1. PICK p \in Proc :
          /\ arg[p] \in Migration /\ state[arg[p]] \in Active /\ Knows(pc[p], arg[p])
          /\ pc[p] \in {"c_switch", "r_switch", "b_before_switch", "b_r_switch"}
    BY <1>1, MainMoves
  <2>2. arg[p] = m
    BY <2>1 DEF OnlyMigration
  <2>3. state[m] \in Active \ {"draft"}
    BY <2>1, <2>2 DEF Knows, Reported, BootNames
  <2>4. state'[m] = state[m]
    BY <1>1, StateMoves
  <2> QED
    BY <2>3, <2>4 DEF RouteSettled, Active
<1>2. CASE main' = main /\ state'[m] = state[m]
  BY <1>2 DEF RouteSettled
<1>3. CASE state'[m] # state[m]
  <2>1. Outcome(m) /\ main' = main
    BY <1>3, OutcomeStep, StateMoves
  <2>2. state'[m] # "absent" /\ (state'[m] = "draft" => state[m] = "absent")
    BY <1>3, StateMoves, RestWrites
  <2> QED
    BY <2>1, <2>2 DEF Outcome, RouteSettled
<1> QED
  BY <1>1, <1>2, <1>3

\* A finished migration has decided every row it sent, and every later crash, dropped
\* connection and rollback leaves that so, for any number of migrations and messages.
THEOREM FinishedRowsAreDecided ==
    ASSUME OneAdministrator, NoErrors PROVE Spec => []TerminalRowsDecided
<1>1. Init => TypeInv /\ GuideInv /\ DeliveryInv /\ FinishInv
  BY TypeInit, GuideInit, DeliveryInit, FinishInit
<1>2. TypeInv /\ GuideInv /\ DeliveryInv /\ FinishInv /\ [Next]_vars
        => TypeInv' /\ GuideInv' /\ DeliveryInv' /\ FinishInv'
  BY TypeStep, GuideStep, StepIsRowStep, DeliveryStep, FinishStep
<1>3. FinishInv => TerminalRowsDecided
  BY DEF FinishInv, TerminalRowsDecided, RowsOf, Settled, Clean
<1> QED
  BY <1>1, <1>2, <1>3, PTL DEF Spec

LEMMA RouteHolds == ASSUME OneAdministrator PROVE Spec => []FinishRoute
<1>1. TypeInv /\ GuideInv /\ FinishRoute /\ [Next]_vars => FinishRoute'
  BY RestStep
<1> QED
  BY <1>1, RestInit, GuideHolds, PTL DEF Spec

\* Whatever statements fail, no migration is declared completed, rolled back or,
\* once begun, failed while another route is on than the one that says.
THEOREM OutcomesAreTrue ==
    ASSUME OneAdministrator
    PROVE  Spec => [][\A m \in Migration : state'[m] # state[m] => Outcome(m)]_vars
<1>1. TypeInv /\ GuideInv /\ FinishRoute /\ [Next]_vars =>
        [\A m \in Migration : state'[m] # state[m] => Outcome(m)]_vars
  BY OutcomeStep
<1> QED
  BY <1>1, GuideHolds, RouteHolds, PTL DEF Spec

\* With one migration the route stays what its state says, through every crash,
\* failed statement and dropped connection.
THEOREM FinishedRouteIsOn ==
    ASSUME OneAdministrator, OnlyMigration PROVE Spec => []TerminalRoute
<1> DEFINE AllSettled == \A m \in Migration : RouteSettled(m)
<1>1. Init => AllSettled
  BY DEF Init, OnlyMigration, RouteSettled
<1>2. TypeInv /\ GuideInv /\ FinishRoute /\ AllSettled /\ [Next]_vars => AllSettled'
  BY SettledStep
<1>3. AllSettled => TerminalRoute
  BY DEF RouteSettled, TerminalRoute
<1> HIDE DEF AllSettled
<1> QED
  BY <1>1, <1>2, <1>3, GuideHolds, RouteHolds, PTL DEF Spec

\* What a migration leaves behind agrees with the state it reports: the connector
\* that is on, its rows and, when it was completed, the deadline for a rollback.
THEOREM FinishedIsSettled ==
    ASSUME OneAdministrator, NoErrors, OnlyMigration PROVE Spec => []TerminalSettled
<1>1. TerminalRoute /\ TerminalRowsDecided /\ CompletedHasWindow => TerminalSettled
  BY DEF TerminalSettled
<1> QED
  BY <1>1, FinishedRouteIsOn, FinishedRowsAreDecided, CompletionRecordsWindow, PTL


-----------------------------------------------------------------------------
(* How a call ends.                                                          *)

\* The stages a call can still leave without having written what ends or
\* carries on a commit.
Refusable == { "idle", "boot", "discovered", "pf_discovered", "pf_validate", "pf_ready",
               "c_validate", "r_validate" }

\* p works on m and will not return before its state says so; the startup pass
\* is about to.
Attends(p, m) == pc[p] = "boot" \/ (arg[p] = m /\ pc[p] \notin Refusable)

\* As long as no statement failed and no client left, somebody is at work on
\* every migration that is committing.
Attended ==
    faults = 0 /\ disconnects = 0 =>
      \A m \in Migration : state[m] = "committing" => \E p \in Proc : Attends(p, m)

\* How many stages a call has before it, at most.
Left(stage) ==
    CASE stage = "idle" -> 0
      [] stage \in { "discovered", "pf_ready", "c_done", "c_no_readback", "c_no_window", "c_unreleased",
                     "c_stale", "c_old_unreleased", "c_old_stale", "c_failed", "r_done", "r_no_switch",
                     "r_unreleased", "r_stale", "b_abandon", "b_unreleased", "b_old_unreleased",
                     "b_ambiguous", "b_rolled_back", "b_r_unknown", "b_r_no_switch", "b_r_unreleased",
                     "b_r_stale", "b_stuck" } -> 1
      [] stage \in { "pf_validate", "c_rebuilt", "c_old_rebuild", "r_rebuilt", "b_completed", "b_failed",
                     "b_switch_failed", "b_r_rebuild" } -> 2
      [] stage \in { "pf_discovered", "c_rebuild", "c_old_release", "r_rebuild", "b_new_rebuild",
                     "b_before_rebuild", "b_old_rebuild", "b_r_release" } -> 3
      [] stage \in { "c_rebuild_mark", "r_rebuild_mark", "b_new_release", "b_before_release",
                     "b_old_release", "b_r_switch" } -> 4
      [] stage \in { "c_release", "r_release", "b_new", "b_before_switch", "b_old", "b_r_route" } -> 5
      [] stage \in { "c_window", "r_switch", "b_before" } -> 6
      [] stage \in { "c_routed", "r_started" } -> 7
      [] stage \in { "c_readback", "r_validate" } -> 8
      [] stage = "c_switch" -> 9
      [] stage = "c_hold" -> 10
      [] stage = "c_started" -> 11
      [] stage = "c_validate" -> 12
      [] OTHER -> 13

\* A later stage, a later step of the stage, or one row less of the release.
Nearer(p) ==
    \/ Left(pc'[p]) < Left(pc[p])
    \/ /\ pc'[p] = pc[p]
       /\ \/ <<step[p], step'[p]>> \in {<<"check", "write">>, <<"list", "mark">>, <<"mark", "claim">>}
          \/ /\ step[p] = "claim" /\ step'[p] \in {"claim", "send"}
             /\ \E d \in todo[p] : todo'[p] = todo[p] \ {d}
          \/ /\ <<step[p], step'[p]>> \in {<<"send", "finish">>, <<"finish", "claim">>}
             /\ todo'[p] = todo[p]

\* Every step of a call brings it nearer to its end, and nothing but its own
\* steps, a lost connection or a crash moves it.
CallsComeToAnEnd ==
    [][\A p \in Proc :
         /\ ProcStep(p) => Nearer(p)
         /\ pc[p] \notin {"idle", "boot"} /\ ~ProcStep(p) =>
              \/ pc'[p] \in {"idle", "boot"}
              \/ UNCHANGED <<pc[p], step[p], todo[p]>>]_vars

\* A stage writes what ends or carries on a commit, or it can be refused; the
\* first stage of a restart never is.
LEMMA AttendTables ==
    /\ \A w \in JournalStages :
         /\ w.to = "committing" => w.ok \notin Refusable
         /\ w.at \notin Refusable => w.to \in Terminal \cup {"recovery_required", "committing"}
         /\ w.ok \in Refusable => w.to # "committing"
    /\ \A b \in Branches : b.ok \notin Refusable /\ b.err \notin Refusable
    /\ \A mark : RecoverStage(mark) \notin Refusable
<1>1. \A w \in JournalStages :
         /\ w.to = "committing" => w.ok \notin Refusable
         /\ w.at \notin Refusable => w.to \in Terminal \cup {"recovery_required", "committing"}
         /\ w.ok \in Refusable => w.to # "committing"
  BY DEF JournalStages, Write, Refusable, Terminal
<1>2. \A b \in Branches : b.ok \notin Refusable /\ b.err \notin Refusable
  BY DEF Branches, ReleaseStages, NewRouteReleases, OldRouteReleases, RebuildStages, ForwardSwitches,
         BackwardSwitches, Branch, Refusable
<1>3. \A mark : RecoverStage(mark) \notin Refusable
  BY DEF RecoverStage, Refusable
<1> QED
  BY <1>1, <1>2, <1>3

LEMMA CountersGrow ==
    ASSUME TypeInv, [Next]_vars, faults' = 0, disconnects' = 0
    PROVE  /\ faults = 0 /\ disconnects = 0
           /\ ~Fault /\ \A p \in Request : ~Disconnect(p)
<1>1. faults \in Nat /\ disconnects \in Nat
  BY DEF TypeInv, BoundsType
<1>2. ~Fault
  BY <1>1 DEF Fault
<1>3. \A p \in Request : ~Disconnect(p)
  BY <1>1 DEF Disconnect
<1>4. UNCHANGED <<faults, disconnects>>
  BY <1>2, <1>3
  DEF Next, vars, bounds, Create, Discover, Preflight, Commit, Rollback, Call, ProcStep, Validate,
      CheckTransition, WriteTransition, SwitchRoute, ReadBack, SetRollbackExpiry, RebuildProjection,
      ReleaseHolds, ListHolds, MarkReleasingUnknown, ClaimHold, Send, FinishHold, CompleteNewRoute,
      InspectRoute, Recover, Deliver, HookCurrent, TryHoldForTarget, ReportHoldFailure, PatchConnector,
      Crash, NoFault
<1> QED
  BY <1>2, <1>3, <1>4

\* Whoever attends goes on with it when the call goes to a stage that cannot be
\* refused, or stays.
LEMMA AttendsOn ==
    ASSUME TypeInv, NEW p \in Proc, NEW q \in Proc, NEW m \in Migration, Attends(p, m),
           \/ UNCHANGED <<pc, arg>>
           \/ NextStep(q, "write")
           \/ pc[q] # "boot" /\ \E stage : stage \notin Refusable /\ Goto(q, stage)
    PROVE  Attends(p, m)'
<1>1. CASE UNCHANGED <<pc, arg>> \/ NextStep(q, "write")
  BY <1>1 DEF Attends, NextStep
<1>2. CASE pc[q] # "boot" /\ \E stage : stage \notin Refusable /\ Goto(q, stage)
  BY <1>2 DEF Attends, Goto, TypeInv, ControlType, Refusable
<1> QED
  BY <1>1, <1>2

LEMMA AttendProcess ==
    ASSUME TypeInv, OneActiveMigration, NEW q \in Proc, ProcStep(q), ~Fault,
           NEW m \in Migration, state'[m] = "committing",
           state[m] = "committing" => \E p \in Proc : Attends(p, m)
    PROVE  \E p \in Proc : Attends(p, m)'
<1>0. \A p \in Proc : Attends(p, m) =>
         \/ p # q \/ pc[q] = "boot"
         \/ arg[q] = m /\ pc[q] \notin Refusable
  BY DEF Attends
<1>1. CASE Validate(q)
  <2>1. pc[q] \in Refusable /\ pc[q] # "boot" /\ state[m] = "committing"
    BY <1>1 DEF Validate, Refusable, OnlyControl, journal
  <2>2. PICK p \in Proc : Attends(p, m) /\ p # q
    BY <1>0, <2>1
  <2>3. pc'[p] = pc[p] /\ arg'[p] = arg[p]
    BY <1>1, <2>2 DEF Validate, Goto, TypeInv, ControlType
  <2> QED
    BY <2>2, <2>3 DEF Attends
<1>2. CASE CheckTransition(q)
  <2>1. PICK w \in JournalStages :
          /\ pc[q] = w.at
          /\ NextStep(q, "write") \/ (~TransitionAllowed(state[arg[q]], w.to) /\ Goto(q, w.err))
    BY <1>2 DEF CheckTransition
  <2>2. state[m] = "committing"
    BY <1>2 DEF CheckTransition, OnlyControl, journal
  <2>3. PICK p \in Proc : Attends(p, m)
    BY <2>2
  <2>4. CASE NextStep(q, "write")
    BY <2>3, <2>4, AttendsOn
  <2>5. CASE ~TransitionAllowed(state[arg[q]], w.to) /\ Goto(q, w.err)
    <3>1. pc[q] \notin {"idle", "boot"}
      BY <2>1, JournalTargets
    <3>2. ~(arg[q] = m /\ pc[q] \notin Refusable)
      BY <2>1, <2>2, <2>5, AttendTables DEF TransitionAllowed, Terminal
    <3>3. p # q
      BY <1>0, <2>3, <3>1, <3>2
    <3>4. pc'[p] = pc[p] /\ arg'[p] = arg[p]
      BY <2>5, <3>3 DEF Goto, TypeInv, ControlType
    <3> QED
      BY <2>3, <3>4 DEF Attends
  <2> QED
    BY <2>1, <2>4, <2>5
<1>3. CASE WriteTransition(q)
  <2>1. PICK w \in JournalStages :
          /\ pc[q] = w.at
          /\ \/ IndexAllows(arg[q], w.to) /\ SetJournal(arg[q], w.to, w.mark) /\ Goto(q, w.ok)
             \/ ~IndexAllows(arg[q], w.to) /\ UNCHANGED journal /\ Goto(q, w.err)
    BY <1>3 DEF WriteTransition
  <2>2. pc[q] \notin {"idle", "boot"} /\ arg[q] \in Migration
    BY <2>1, JournalTargets DEF TypeInv, ControlType
  <2>3. CASE SetJournal(arg[q], w.to, w.mark) /\ Goto(q, w.ok) /\ arg[q] = m
    <3>1. w.to = "committing"
      BY <2>2, <2>3 DEF SetJournal, TypeInv, JournalType
    <3>2. w.ok \notin Refusable
      BY <3>1, AttendTables
    <3>3. pc'[q] = w.ok /\ arg'[q] = m
      BY <2>3, <3>2 DEF Goto, TypeInv, ControlType, Refusable
    <3> QED
      BY <3>2, <3>3 DEF Attends
  <2>4. CASE ~(SetJournal(arg[q], w.to, w.mark) /\ Goto(q, w.ok) /\ arg[q] = m)
    <3>1. state[m] = "committing"
      BY <2>1, <2>2, <2>4 DEF SetJournal, TypeInv, JournalType, journal
    <3>2. PICK p \in Proc : Attends(p, m)
      BY <3>1
    <3>3. ~(arg[q] = m /\ pc[q] \notin Refusable)
      <4> SUFFICES ASSUME arg[q] = m, pc[q] \notin Refusable PROVE FALSE
        OBVIOUS
      <4>1. IndexAllows(arg[q], w.to)
        <5>1. \A n \in Migration : state[n] \in Active => n = m
          BY <3>1 DEF OneActiveMigration, Active
        <5> QED
          BY <5>1 DEF IndexAllows, Unfinished
      <4> QED
        BY <2>1, <2>4, <4>1
    <3>4. p # q
      BY <1>0, <2>2, <3>2, <3>3
    <3>5. pc'[p] = pc[p] /\ arg'[p] = arg[p]
      BY <2>1, <3>4 DEF Goto, TypeInv, ControlType
    <3> QED
      BY <3>2, <3>5 DEF Attends
  <2> QED
    BY <2>1, <2>3, <2>4
<1>4. CASE SwitchRoute(q) \/ RebuildProjection(q) \/ ReadBack(q) \/ SetRollbackExpiry(q)
           \/ CompleteNewRoute(q) \/ InspectRoute(q) \/ ReleaseHolds(q)
  <2>1. UNCHANGED state
    BY <1>4 DEF SwitchRoute, RebuildProjection, ReadBack, SetRollbackExpiry, CompleteNewRoute, InspectRoute,
                ReleaseHolds, ListHolds, MarkReleasingUnknown, ClaimHold, Send, FinishHold, OnlyControl, journal
  <2>2. PICK p \in Proc : Attends(p, m)
    BY <2>1
  <2>3. CASE UNCHANGED <<pc, arg>>
    BY <2>2, <2>3, AttendsOn
  <2>4. CASE SwitchRoute(q) \/ RebuildProjection(q) \/ ReleaseHolds(q)
    <3>1. PICK b \in Branches : pc[q] = b.at /\ (UNCHANGED <<pc, arg>> \/ Goto(q, b.ok) \/ Goto(q, b.err))
      BY <2>4 DEF SwitchRoute, RebuildProjection, ReleaseHolds, ListHolds, MarkReleasingUnknown, ClaimHold,
                  Send, FinishHold, Leave, NextStep, Branches, control
    <3>2. pc[q] # "boot"
      BY <3>1, BranchTargets
    <3> QED
      BY <2>2, <3>1, <3>2, AttendsOn, AttendTables
  <2>5. CASE ReadBack(q) \/ SetRollbackExpiry(q) \/ CompleteNewRoute(q) \/ InspectRoute(q)
    <3>1. PICK stage : stage \notin Refusable /\ Goto(q, stage)
      BY <2>5 DEF ReadBack, SetRollbackExpiry, CompleteNewRoute, InspectRoute, Refusable
    <3>2. pc[q] # "boot"
      BY <2>5 DEF ReadBack, SetRollbackExpiry, CompleteNewRoute, InspectRoute
    <3> QED
      BY <2>2, <3>1, <3>2, AttendsOn
  <2> QED
    BY <1>4, <2>4, <2>5
<1> QED
  BY <1>1, <1>2, <1>3, <1>4 DEF ProcStep

LEMMA AttendStep == TypeInv /\ OneActiveMigration /\ Attended /\ [Next]_vars => Attended'
<1> SUFFICES ASSUME TypeInv, OneActiveMigration, Attended, [Next]_vars, faults' = 0, disconnects' = 0,
                    NEW m \in Migration, state'[m] = "committing"
             PROVE  \E p \in Proc : Attends(p, m)'
  BY DEF Attended
<1>0. /\ ~Fault /\ \A p \in Request : ~Disconnect(p)
      /\ state[m] = "committing" => \E p \in Proc : Attends(p, m)
  BY CountersGrow DEF Attended
<1>1. CASE UNCHANGED <<pc, arg>> /\ state[m] = "committing"
  BY <1>0, <1>1 DEF Attends
<1>2. ASSUME NEW n \in Migration, Create(n) PROVE \E p \in Proc : Attends(p, m)'
  BY <1>1, <1>2 DEF Create, TypeInv, JournalType, control
<1>3. ASSUME NEW q \in Request, NEW n \in Migration,
             Discover(q, n) \/ Preflight(q, n) \/ Commit(q, n) \/ Rollback(q, n)
      PROVE  \E p \in Proc : Attends(p, m)'
  <2>1. PICK stage : Call(q, n, stage)
    BY <1>3 DEF Discover, Preflight, Commit, Rollback
  <2>2. pc[q] = "idle" /\ UNCHANGED state /\ \A p \in Proc : p # q => pc'[p] = pc[p] /\ arg'[p] = arg[p]
    BY <2>1 DEF Call, journal, TypeInv, ControlType
  <2> QED
    BY <1>0, <2>2 DEF Attends, Refusable
<1>4. ASSUME NEW q \in Proc, ProcStep(q) PROVE \E p \in Proc : Attends(p, m)'
  BY <1>0, <1>4, AttendProcess
<1>5. CASE Recover
  <2>1. state[m] = "committing" /\ m \in Resumable
    BY <1>5 DEF Recover, OnlyControl, journal, Resumable, Active
  <2>2. PICK n \in Resumable : /\ pc' = [pc EXCEPT ![Boot] = RecoverStage(marker[n])]
                              /\ arg' = [arg EXCEPT ![Boot] = n]
    BY <1>5, <2>1 DEF Recover
  <2>3. n = m
    BY <2>1, <2>2 DEF Resumable, OneActiveMigration
  <2> QED
    BY <2>2, <2>3, AttendTables DEF Attends, TypeInv, ControlType, Proc
<1>6. ASSUME NEW d \in Delivery, Deliver(d) PROVE \E p \in Proc : Attends(p, m)'
  <2>1. UNCHANGED <<pc, arg>>
    BY <1>6 DEF Deliver, HookCurrent, TryHoldForTarget, ReportHoldFailure, NotDelivery, control
  <2>2. UNCHANGED state \/ \E n : state' = [state EXCEPT ![n] = "recovery_required"]
    BY <1>6 DEF Deliver, HookCurrent, TryHoldForTarget, ReportHoldFailure, SetJournal
  <2>3. state[m] = "committing"
    BY <2>2 DEF TypeInv, JournalType
  <2> QED
    BY <1>1, <2>1, <2>3
<1>7. ASSUME NEW c \in Connector, NEW on \in BOOLEAN, PatchConnector(c, on) PROVE \E p \in Proc : Attends(p, m)'
  BY <1>1, <1>7 DEF PatchConnector, journal, control
<1>8. CASE Crash
  BY <1>8 DEF Crash, Attends, Proc
<1>9. CASE UNCHANGED vars
  BY <1>1, <1>9 DEF vars, journal, control
<1> QED
  BY <1>0, <1>2, <1>3, <1>4, <1>5, <1>6, <1>7, <1>8, <1>9 DEF Next

\* No migration is left committing with nobody at work on it, unless a statement
\* failed or a client left, for any number of administrators, edits of
\* connectors, crashes and migrations.
THEOREM CommittingIsAttended == Spec => []Attended
<1>1. Init => Attended
  BY DEF Init, Attended
<1> QED
  BY <1>1, TypeInit, TypeStep, SingleActiveMigration, AttendStep, PTL DEF Spec

\* The tables lead to stages nearer to the end.
LEMMA LeftTables ==
    /\ \A w \in JournalStages : Left(w.ok) < Left(w.at) /\ Left(w.err) < Left(w.at)
    /\ \A b \in Branches : Left(b.ok) < Left(b.at) /\ Left(b.err) < Left(b.at)
<1>1. \A w \in JournalStages : Left(w.ok) < Left(w.at) /\ Left(w.err) < Left(w.at)
  BY DEF JournalStages, Write, Left
<1>2. \A b \in RebuildStages \cup ForwardSwitches \cup BackwardSwitches :
         Left(b.ok) < Left(b.at) /\ Left(b.err) < Left(b.at)
  BY DEF RebuildStages, ForwardSwitches, BackwardSwitches, Branch, Left
<1>3. \A b \in ReleaseStages : Left(b.ok) < Left(b.at) /\ Left(b.err) < Left(b.at)
  BY DEF ReleaseStages, NewRouteReleases, OldRouteReleases, Branch, Left
<1> QED
  BY <1>1, <1>2, <1>3 DEF Branches

LEMMA GotoNearer ==
    ASSUME TypeInv, NEW p \in Proc, NEW stage, Goto(p, stage), Left(stage) < Left(pc[p])
    PROVE  Nearer(p)
  BY DEF Goto, Nearer, TypeInv, ControlType

\* A release: its two first steps, then a row less with every claim, and a send
\* and its end for each row that was claimed.
LEMMA ReleaseNearer ==
    ASSUME TypeInv, NEW p \in Proc, ReleaseHolds(p)
    PROVE  Nearer(p)
<1>1. PICK b \in ReleaseStages :
        /\ pc[p] = b.at
        /\ \/ ListHolds(p, b) \/ MarkReleasingUnknown(p, b) \/ ClaimHold(p, b)
           \/ Send(p) \/ FinishHold(p, b)
  BY DEF ReleaseHolds
<1>2. Left(b.ok) < Left(pc[p]) /\ Left(b.err) < Left(pc[p])
  BY <1>1, LeftTables DEF Branches
<1>3. CASE Leave(p, b.ok) \/ Leave(p, b.err)
  BY <1>2, <1>3, GotoNearer DEF Leave
<1>4. ASSUME NEW s \in Step, NextStep(p, s)
      PROVE  pc'[p] = pc[p] /\ step'[p] = s
  BY <1>4 DEF NextStep, TypeInv, ControlType
<1>5. CASE ListHolds(p, b)
  <2>1. step[p] = "list" /\ (NextStep(p, "mark") \/ Leave(p, b.err))
    BY <1>5 DEF ListHolds
  <2> QED
    BY <1>3, <1>4, <2>1 DEF Nearer, Step
<1>6. CASE MarkReleasingUnknown(p, b)
  <2>1. step[p] = "mark" /\ (NextStep(p, "claim") \/ Leave(p, b.err))
    BY <1>6 DEF MarkReleasingUnknown
  <2> QED
    BY <1>3, <1>4, <2>1 DEF Nearer, Step
<1>7. CASE ClaimHold(p, b) /\ ~Leave(p, b.ok)
  <2>1. /\ step[p] = "claim"
        /\ \E d \in todo[p] :
             /\ todo' = [todo EXCEPT ![p] = @ \ {d}]
             /\ NextStep(p, "send") \/ UNCHANGED control
    BY <1>7 DEF ClaimHold
  <2>2. pc'[p] = pc[p] /\ step'[p] \in {"claim", "send"}
    BY <1>4, <2>1 DEF control, Step
  <2>3. \E d \in todo[p] : todo'[p] = todo[p] \ {d}
    BY <2>1 DEF TypeInv, ReleaseType
  <2> QED
    BY <2>1, <2>2, <2>3 DEF Nearer
<1>8. CASE Send(p)
  <2>1. step[p] = "send" /\ NextStep(p, "finish") /\ UNCHANGED todo
    BY <1>8 DEF Send
  <2> QED
    BY <1>4, <2>1 DEF Nearer, Step
<1>9. CASE FinishHold(p, b)
  <2>1. step[p] = "finish" /\ ((NextStep(p, "claim") /\ UNCHANGED todo) \/ Leave(p, b.err))
    BY <1>9 DEF FinishHold
  <2> QED
    BY <1>3, <1>4, <2>1 DEF Nearer, Step
<1> QED
  BY <1>1, <1>3, <1>5, <1>6, <1>7, <1>8, <1>9

LEMMA StepNearer ==
    ASSUME TypeInv, NEW p \in Proc, ProcStep(p)
    PROVE  Nearer(p)
<1>1. CASE Validate(p)
  <2>1. \E stage : Goto(p, stage) /\ Left(stage) < Left(pc[p])
    BY <1>1 DEF Validate, Left
  <2> QED
    BY <2>1, GotoNearer
<1>2. CASE CheckTransition(p)
  <2>1. PICK w \in JournalStages :
          pc[p] = w.at /\ step[p] = "check" /\ (NextStep(p, "write") \/ Goto(p, w.err))
    BY <1>2 DEF CheckTransition
  <2>2. CASE NextStep(p, "write")
    BY <2>1, <2>2 DEF NextStep, Nearer, TypeInv, ControlType
  <2>3. CASE Goto(p, w.err)
    BY <2>1, <2>3, LeftTables, GotoNearer
  <2> QED
    BY <2>1, <2>2, <2>3
<1>3. CASE WriteTransition(p)
  <2>1. PICK w \in JournalStages : pc[p] = w.at /\ (Goto(p, w.ok) \/ Goto(p, w.err))
    BY <1>3 DEF WriteTransition
  <2> QED
    BY <2>1, LeftTables, GotoNearer
<1>4. CASE SwitchRoute(p) \/ RebuildProjection(p)
  <2>1. PICK b \in Branches : pc[p] = b.at /\ (Goto(p, b.ok) \/ Goto(p, b.err))
    BY <1>4 DEF SwitchRoute, RebuildProjection, Branches
  <2> QED
    BY <2>1, LeftTables, GotoNearer
<1>5. CASE ReadBack(p) \/ SetRollbackExpiry(p) \/ CompleteNewRoute(p) \/ InspectRoute(p)
  <2>1. \/ /\ pc[p] = "c_readback" /\ \E s \in {"c_routed", "c_no_readback"} : Goto(p, s)
        \/ /\ pc[p] = "c_window" /\ \E s \in {"c_release", "c_no_window"} : Goto(p, s)
        \/ /\ pc[p] = "b_new" /\ \E s \in {"b_new_release", "b_unreleased"} : Goto(p, s)
        \/ /\ pc[p] = "b_before"
           /\ \E s \in {"b_before_release", "b_before_switch", "b_ambiguous", "b_old_unreleased"} : Goto(p, s)
        \/ /\ pc[p] = "b_old" /\ \E s \in {"b_old_release", "b_old_unreleased"} : Goto(p, s)
        \/ /\ pc[p] = "b_r_route" /\ \E s \in {"b_r_release", "b_r_switch", "b_r_unknown"} : Goto(p, s)
    BY <1>5 DEF ReadBack, SetRollbackExpiry, CompleteNewRoute, InspectRoute
  <2>2. \E s : Goto(p, s) /\ Left(s) < Left(pc[p])
    BY <2>1 DEF Left
  <2> QED
    BY <2>2, GotoNearer
<1>6. CASE ReleaseHolds(p)
  BY <1>6, ReleaseNearer
<1> QED
  BY <1>1, <1>2, <1>3, <1>4, <1>5, <1>6 DEF ProcStep

\* A call is moved by its own steps, a lost connection and a crash only.
LEMMA OthersLeave ==
    ASSUME TypeInv, [Next]_vars, NEW p \in Proc, pc[p] \notin {"idle", "boot"}, ~ProcStep(p)
    PROVE  pc'[p] \in {"idle", "boot"} \/ UNCHANGED <<pc[p], step[p], todo[p]>>
<1>1. CASE UNCHANGED <<pc, step, todo>>
  BY <1>1
<1>2. ASSUME NEW q \in Request, NEW m \in Migration,
             Discover(q, m) \/ Preflight(q, m) \/ Commit(q, m) \/ Rollback(q, m)
      PROVE  UNCHANGED <<pc[p], step[p], todo[p]>>
  <2>1. PICK stage : Call(q, m, stage)
    BY <1>2 DEF Discover, Preflight, Commit, Rollback
  <2> QED
    BY <2>1 DEF Call, release, TypeInv, ControlType
<1>3. ASSUME NEW q \in Request, Disconnect(q)
      PROVE  pc'[p] = "idle" \/ UNCHANGED <<pc[p], step[p], todo[p]>>
  BY <1>3 DEF Disconnect, Leave, Goto, TypeInv, ControlType, ReleaseType, Proc
<1>4. ASSUME NEW q \in Proc \ {p}, ProcStep(q) PROVE UNCHANGED <<pc[p], step[p], todo[p]>>
  <2>1. UNCHANGED control \/ (\E s : NextStep(q, s)) \/ (\E s : Goto(q, s))
    BY <1>4 DEF ProcStep, Validate, CheckTransition, WriteTransition, SwitchRoute, ReadBack,
                SetRollbackExpiry, RebuildProjection, ReleaseHolds, ListHolds, MarkReleasingUnknown,
                ClaimHold, Send, FinishHold, Leave, CompleteNewRoute, InspectRoute
  <2>2. UNCHANGED todo \/ \E x : todo' = [todo EXCEPT ![q] = x]
    BY <1>4 DEF ProcStep, Validate, CheckTransition, WriteTransition, SwitchRoute, ReadBack,
                SetRollbackExpiry, RebuildProjection, ReleaseHolds, ListHolds, MarkReleasingUnknown,
                ClaimHold, Send, FinishHold, Leave, CompleteNewRoute, InspectRoute, OnlyControl, release
  <2>3. todo'[p] = todo[p]
    BY <2>2 DEF TypeInv, ReleaseType
  <2>4. pc'[p] = pc[p] /\ step'[p] = step[p]
    BY <2>1 DEF control, NextStep, Goto, TypeInv, ControlType
  <2> QED
    BY <2>3, <2>4
<1>5. CASE Recover
  <2>1. pc[Boot] = "boot" /\ p # Boot /\ UNCHANGED release
    BY <1>5 DEF Recover, OnlyControl
  <2>2. \E s, t : pc' = [pc EXCEPT ![Boot] = s] /\ step' = [step EXCEPT ![Boot] = t]
    BY <1>5 DEF Recover, Goto
  <2> QED
    BY <2>1, <2>2 DEF release, TypeInv, ControlType
<1>6. CASE Crash
  BY <1>6 DEF Crash
<1>7. CASE \/ \E m \in Migration : Create(m)
           \/ \E d \in Delivery : Deliver(d)
           \/ \E c \in Connector, on \in BOOLEAN : PatchConnector(c, on)
           \/ UNCHANGED vars
  <2>1. UNCHANGED <<control, release>>
    BY <1>7 DEF Create, Deliver, HookCurrent, TryHoldForTarget, ReportHoldFailure, NotDelivery,
                PatchConnector, vars
  <2> QED
    BY <2>1 DEF control, release
<1> QED
  BY <1>2, <1>3, <1>4, <1>5, <1>6, <1>7 DEF Next

\* A call goes through its stages in one direction: every step of it brings it
\* nearer to its end, for any number of held messages, failed statements and
\* calls beside it, and only a lost connection or a crash ends it otherwise.
THEOREM CallsEnd == Spec => CallsComeToAnEnd
<1>1. TypeInv /\ [Next]_vars =>
        [\A p \in Proc :
           /\ ProcStep(p) => Nearer(p)
           /\ pc[p] \notin {"idle", "boot"} /\ ~ProcStep(p) =>
                \/ pc'[p] \in {"idle", "boot"}
                \/ UNCHANGED <<pc[p], step[p], todo[p]>>]_vars
  BY StepNearer, OthersLeave
<1> QED
  BY <1>1, TypeInit, TypeStep, PTL DEF Spec, CallsComeToAnEnd
=============================================================================
