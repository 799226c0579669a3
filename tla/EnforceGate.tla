------------------------------ MODULE EnforceGate ------------------------------
(* The authoritative route decision of Phase 5: Evaluate of internal/enforce/     *)
(* runtime.go, which every notification of an ENFORCE route goes through before   *)
(* the Messenger, the SHADOW worker that shares its table of AI decisions         *)
(* (internal/shadow/runtime.go, platformdb/ai_repository.go), and the             *)
(* administrator's commands that may forbid a DROP meanwhile (adminapi/phase5.go, *)
(* ai.go, platformdb/phase5_repository.go).  One SQL statement or transaction, or *)
(* one critical section, is one step; any statement may fail, and the process may *)
(* end between any two.  Routes, policies and releases are opaque: what the       *)
(* classifier says, whether a policy drops it and whether the evidence of a       *)
(* release is sufficient are choices of the environment.                          *)
EXTENDS Naturals, Sequences, FiniteSets

CONSTANTS Sends,           \* notifications of ENFORCE routes, evaluated before they are sent
          Jobs,            \* jobs of the Shadow queue
          Events, EventOf, \* the event of each of them
          Releases, NoRelease, FirstRelease,
          Policies, FirstPolicy,
          Requests,        \* bound: the administrator's commands
          NoTask,
          MaxConcurrency,  \* slots of the runtime
          QueueCapacity,   \* flights it admits
          MaxTrouble       \* bound: failed statements and restarts together

Tasks == Sends \cup Jobs

ASSUME TaskAssumption == Sends \cap Jobs = {} /\ NoTask \notin Tasks /\ IsFiniteSet(Sends)
ASSUME EventAssumption == EventOf \in [Tasks -> Events]
ASSUME ReleaseAssumption == FirstRelease \in Releases /\ NoRelease \notin Releases
ASSUME PolicyAssumption == FirstPolicy \in Policies
\* enforce.New is called with 2 and 64 (admin/server.go).
ASSUME CapacityAssumption == /\ MaxConcurrency \in Nat \ {0} /\ QueueCapacity \in Nat
                             /\ MaxConcurrency <= QueueCapacity

VARIABLES
  active,      \* the active classifier release
  provider,    \* the release of the stored provider configuration
  client,      \* the release whose client the Swappable holds
  policy,      \* the resolved policy of the routes
  approvals,   \* enforce_approvals in the order they were granted
  critical,    \* releases with an unresolved false_drop of critical importance
  emergency,   \* release_metadata enforce_emergency_disabled
  memory,      \* Runtime.emergency
  request,     \* the administrator's commands
  ai,          \* ai_decisions: one row per event and release
  calls,       \* calls of a provider for each row
  task,        \* the evaluations and the jobs
  flight,      \* Runtime.flights: the evaluation that classifies
  result,      \* the result of each flight, by its owner, once it is done
  slots,       \* tokens in Runtime.gate
  drops,       \* committed DROP decisions with their replay snapshots
  recovered,   \* RecoverDecisions went through when this process started
  void,        \* history: approvals with an index up to this were revoked
  trouble      \* failed statements and restarts so far

config   == <<active, provider, client, policy, approvals, critical, emergency, memory, request, void>>
decided  == <<ai, calls>>
gate     == <<flight, result, slots>>
vars     == <<config, decided, task, gate, drops, recovered, trouble>>

--------------------------------------------------------------------------------
Before  == {"idle", "policy", "switch", "gate"}
Owning  == {"claim", "poll", "mark", "call", "finish", "close", "forget"}
Inside  == {"release", "ready", "flight", "wait", "judge", "drop", "dropped", "pass"} \cup Owning
Ended   == {"sent", "suppressed", "done", "gone"}
Answers == {"none", "drop", "keep", "error"}

Task     == [pc : Before \cup Inside \cup Ended, policy : Policies, release : Releases \cup {NoRelease},
             approval : Nat, answer : Answers,
             joined : Sends \cup {NoTask}]
Row      == [status : {"absent", "queued", "running", "started", "completed", "failed"},
             answer : Answers]
Approval == [release : Releases, policy : Policies, live : BOOLEAN]
Request  == [pc : {"idle", "memory", "release", "activate", "client", "done"}, on : BOOLEAN,
             release : Releases \cup {NoRelease}]
Drop     == [by : Sends, release : Releases, approval : Nat]

TypeOK == /\ active \in Releases \cup {NoRelease} /\ provider \in Releases \cup {NoRelease}
          /\ client \in Releases \cup {NoRelease} /\ policy \in Policies
          /\ approvals \in Seq(Approval) /\ critical \subseteq Releases
          /\ emergency \in BOOLEAN /\ memory \in BOOLEAN
          /\ request \in [Requests -> Request]
          /\ ai \in [Events -> [Releases -> Row]] /\ calls \in [Events -> [Releases -> Nat]]
          /\ task \in [Tasks -> Task]
          /\ flight \in [Events -> [Releases -> Sends \cup {NoTask}]] /\ result \in [Sends -> Answers]
          /\ slots \in Nat /\ drops \subseteq Drop /\ recovered \in BOOLEAN
          /\ void \in Nat /\ trouble \in Nat

With(pc) == [pc |-> pc, policy |-> FirstPolicy, release |-> NoRelease, approval |-> 0,
             answer |-> "none", joined |-> NoTask]

Awaiting(pc) == [pc |-> pc, on |-> FALSE, release |-> NoRelease]

Init == /\ active = FirstRelease /\ provider = FirstRelease /\ client = FirstRelease
        /\ policy = FirstPolicy /\ critical \in SUBSET {FirstRelease} /\ emergency = FALSE /\ memory = FALSE
        /\ approvals = <<[release |-> FirstRelease, policy |-> FirstPolicy, live |-> TRUE]>>
        /\ request = [q \in Requests |-> Awaiting("idle")]
        /\ ai = [e \in Events |-> [r \in Releases |->
                  [status |-> "absent", answer |-> "none"]]]
        /\ calls = [e \in Events |-> [r \in Releases |-> 0]]
        /\ task = [t \in Tasks |-> With("idle")]
        /\ flight = [e \in Events |-> [r \in Releases |-> NoTask]]
        /\ result = [t \in Sends |-> "none"] /\ slots = 0 /\ drops = {} /\ recovered = TRUE
        /\ void = 0 /\ trouble = 0

Fault   == trouble < MaxTrouble /\ trouble' = trouble + 1
NoFault == UNCHANGED trouble

At(t, pc) == task[t].pc = pc
Go(t, pc) == task' = [task EXCEPT ![t].pc = pc]
Leave(t, pc) == task' = [task EXCEPT ![t] = With(pc)]
Answered(t, answer) ==
  IF t \in Jobs THEN Leave(t, "done")
                ELSE task' = [task EXCEPT ![t] = [@ EXCEPT !.pc = "close", !.answer = answer]]

--------------------------------------------------------------------------------
(* Evaluate up to the classification.  A refusal before the slot is taken sends   *)
(* the notification; every refusal is recorded as a PASS, whose loss is ignored.  *)

(* evaluateEnforceRoute: snapshot, identity or policy may not resolve, the mode    *)
(* may be another one; the active release is read next.                           *)
ResolveRoute(t) ==
  /\ At(t, "idle")
  /\ \/ task' = [task EXCEPT ![t] = [@ EXCEPT !.pc = "policy", !.policy = policy]]
     \/ Leave(t, "sent")
  /\ UNCHANGED <<config, decided, gate, drops, recovered, trouble>>

ObserveRelease(t) ==
  /\ At(t, "policy")
  /\ \/ task' = [task EXCEPT ![t] = [@ EXCEPT !.pc = "switch", !.release = active]] /\ NoFault
     \/ task' = [task EXCEPT ![t] = [@ EXCEPT !.pc = "switch", !.release = NoRelease]] /\ Fault
  /\ UNCHANGED <<config, decided, gate, drops, recovered>>

\* The stored switch counts as off when it cannot be read.
CheckSwitch(t) ==
  /\ At(t, "switch")
  /\ \/ (~recovered \/ memory \/ emergency) /\ Leave(t, "sent") /\ NoFault
     \/ recovered /\ ~memory /\ ~emergency /\ Go(t, "gate") /\ NoFault
     \/ recovered /\ ~memory /\ emergency /\ Go(t, "gate") /\ Fault
  /\ UNCHANGED <<config, decided, gate, drops, recovered>>

Acquire(t) ==
  /\ At(t, "gate")
  /\ \/ slots < MaxConcurrency /\ slots' = slots + 1 /\ Go(t, "release")
     \/ slots >= MaxConcurrency /\ UNCHANGED slots /\ Leave(t, "sent")
  /\ UNCHANGED <<config, decided, flight, result, drops, recovered, trouble>>

\* The release observed with the route must still be the active one.
CheckRelease(t) ==
  /\ At(t, "release")
  /\ LET same == active # NoRelease /\ task[t].release \in {NoRelease, active} IN
       \/ same /\ NoFault
            /\ task' = [task EXCEPT ![t] = [@ EXCEPT !.pc = "ready", !.release = active]]
       \/ ~same /\ NoFault /\ Go(t, "pass")
       \/ Fault /\ Go(t, "pass")
  /\ UNCHANGED <<config, decided, gate, drops, recovered>>

\* EnforceReadiness is about the release that is active by now.
CheckReady(t) ==
  /\ At(t, "ready")
  /\ \/ active # NoRelease /\ active \notin critical /\ Go(t, "flight")
     \/ Go(t, "pass")
  /\ UNCHANGED <<config, decided, gate, drops, recovered, trouble>>

--------------------------------------------------------------------------------
(* classify: one flight per event and release in this process.                    *)

FlightOf(t) == flight[EventOf[t]][task[t].release]
Fly(t, by) == flight' = [flight EXCEPT ![EventOf[t]][task[t].release] = by]

\* PutNormalizedEvent, then the lookup under mu.
JoinFlight(t) ==
  /\ At(t, "flight")
  /\ \/ FlightOf(t) = NoTask /\ Fly(t, t) /\ Go(t, "claim") /\ NoFault
     \/ FlightOf(t) # NoTask /\ UNCHANGED flight /\ NoFault
          /\ task' = [task EXCEPT ![t] = [@ EXCEPT !.pc = "wait", !.joined = FlightOf(t)]]
     \/ Fault /\ UNCHANGED flight /\ Go(t, "pass")
  /\ UNCHANGED <<config, decided, result, slots, drops, recovered>>

Wait(t) ==
  /\ At(t, "wait") /\ result[task[t].joined] # "none"
  /\ task' = [task EXCEPT ![t] = [@ EXCEPT !.pc = "judge", !.answer = result[task[t].joined]]]
  /\ UNCHANGED <<config, decided, gate, drops, recovered, trouble>>

\* Mutant: the flight is removed without its result.
CloseSilently(t) ==
  /\ At(t, "close")
  /\ Go(t, "forget")
  /\ UNCHANGED <<config, decided, gate, drops, recovered, trouble>>

\* The result is set and done closed before the flight is removed under mu.
Close(t) ==
  /\ At(t, "close")
  /\ result' = [result EXCEPT ![t] = task[t].answer] /\ Go(t, "forget")
  /\ UNCHANGED <<config, decided, flight, slots, drops, recovered, trouble>>

Forget(t) ==
  /\ At(t, "forget")
  /\ Fly(t, NoTask) /\ Go(t, "judge")
  /\ UNCHANGED <<config, decided, result, slots, drops, recovered, trouble>>

--------------------------------------------------------------------------------
(* classifyOwner and the Shadow worker's process: the same four statements.       *)

RowOf(t)       == ai[EventOf[t]][task[t].release]
Write(t, changes) == ai' = [ai EXCEPT ![EventOf[t]][task[t].release] = changes]
Settled(row)   == row.status \in {"completed", "failed"}
AnswerOf(row)  == IF row.status = "completed" THEN row.answer ELSE "error"

(* Schedule: a full queue leaves a row that nobody will classify.                  *)
Schedule(j) ==
  /\ At(j, "idle")
  /\ \/ active = NoRelease /\ Leave(j, "done") /\ UNCHANGED ai
     \/ /\ active # NoRelease /\ UNCHANGED ai
        /\ task' = [task EXCEPT ![j] = [@ EXCEPT !.pc = "claim", !.release = active]]
     \/ /\ active # NoRelease /\ Leave(j, "done")
        /\ ai[EventOf[j]][active].status = "absent"
        /\ ai' = [ai EXCEPT ![EventOf[j]][active].status = "failed"]
  /\ UNCHANGED <<config, calls, gate, drops, recovered, trouble>>

\* EnsureDecisionClaim
Claim(t) ==
  /\ At(t, "claim")
  /\ \/ /\ RowOf(t).status \in {"absent", "queued"} /\ NoFault
        /\ Write(t, [RowOf(t) EXCEPT !.status = "running"]) /\ Go(t, "mark")
     \/ /\ RowOf(t).status \notin {"absent", "queued"} /\ UNCHANGED ai /\ NoFault
        /\ IF Settled(RowOf(t)) THEN Answered(t, AnswerOf(RowOf(t))) ELSE Go(t, "poll")
     \/ Fault /\ UNCHANGED ai /\ Answered(t, "error")
  /\ UNCHANGED <<config, calls, gate, drops, recovered>>

\* Somebody else's call: its row is read until it is settled or time is up.
Poll(t) ==
  /\ At(t, "poll")
  /\ \/ Settled(RowOf(t)) /\ Answered(t, AnswerOf(RowOf(t)))
     \/ Answered(t, "error")
  /\ UNCHANGED <<config, decided, gate, drops, recovered, trouble>>

\* MarkDecisionCallStarted
Mark(t) ==
  /\ At(t, "mark")
  /\ \/ /\ RowOf(t).status = "running" /\ NoFault
        /\ Write(t, [RowOf(t) EXCEPT !.status = "started"]) /\ Go(t, "call")
     \/ Fault /\ UNCHANGED ai /\ Answered(t, "error")
  /\ UNCHANGED <<config, calls, gate, drops, recovered>>

(* Swappable.Classify takes the client of the moment.  A timeout, a panic, an     *)
(* invalid answer and a missing client are errors.                                *)
Call(t) ==
  /\ At(t, "call")
  /\ \/ client = NoRelease /\ UNCHANGED calls
          /\ task' = [task EXCEPT ![t] = [@ EXCEPT !.pc = "finish", !.answer = "error"]]
     \/ /\ client # NoRelease
        /\ calls' = [calls EXCEPT ![EventOf[t]][task[t].release] = @ + 1]
        /\ \E answer \in {"drop", "keep", "error"} :
             task' = [task EXCEPT ![t] = [@ EXCEPT !.pc = "finish", !.answer = answer]]
  /\ UNCHANGED <<config, ai, gate, drops, recovered, trouble>>

\* Mutant: what the provider answered is used although it could not be stored.
FinishUnstored(t) ==
  /\ At(t, "finish")
  /\ Answered(t, task[t].answer)
  /\ \/ Write(t, [status |-> IF task[t].answer = "error" THEN "failed" ELSE "completed",
                  answer |-> task[t].answer]) /\ NoFault
     \/ UNCHANGED ai /\ Fault
  /\ UNCHANGED <<config, calls, gate, drops, recovered>>

\* FinishDecision, its error ignored; the row is then read back, which may fail, too.
Finish(t) ==
  /\ At(t, "finish")
  /\ \/ /\ RowOf(t).status = "started"
        /\ Write(t, [status |-> IF task[t].answer = "error" THEN "failed" ELSE "completed",
                     answer |-> task[t].answer])
        /\ \/ Answered(t, task[t].answer) /\ NoFault
           \/ Answered(t, "error") /\ Fault
     \/ Fault /\ UNCHANGED ai /\ Answered(t, "error")
  /\ UNCHANGED <<config, calls, gate, drops, recovered>>

--------------------------------------------------------------------------------
(* Evaluate after the classification.                                             *)

Covers(i, t) == /\ approvals[i].live /\ approvals[i].policy = task[t].policy
                /\ approvals[i].release = task[t].release

(* ResolvePolicy may keep what the classifier would drop, and must when the        *)
(* context is unsafe; ValidEnforceApproval then looks for the approval.           *)
Judge(t) ==
  /\ At(t, "judge")
  /\ \/ Go(t, "pass") /\ NoFault
     \/ /\ task[t].answer = "drop" /\ NoFault
        /\ active = task[t].release /\ active \notin critical
        /\ \E i \in DOMAIN approvals :
             /\ Covers(i, t)
             /\ task' = [task EXCEPT ![t] = [@ EXCEPT !.pc = "drop", !.approval = i]]
  /\ UNCHANGED <<config, decided, gate, drops, recovered>>

\* Mutant: the transaction relies on what was checked before.
Unchecked(t) == TRUE

\* The guards of the transaction (dropCommitGuard).
Allowed(t) == /\ ~emergency
              /\ Covers(task[t].approval, t)
              /\ active = task[t].release
              /\ task[t].release \notin critical

\* PersistDropIfAllowed
PersistDrop(t) ==
  /\ At(t, "drop")
  /\ \/ /\ Allowed(t) /\ NoFault /\ Go(t, "dropped")
        /\ drops' = drops \cup {[by |-> t, release |-> task[t].release,
                                  approval |-> task[t].approval]}
     \/ ~Allowed(t) /\ UNCHANGED drops /\ Go(t, "pass") /\ NoFault
     \/ Fault /\ UNCHANGED drops /\ Go(t, "pass")
  /\ UNCHANGED <<config, decided, gate, recovered>>

ReturnTwice(t) ==
  /\ \/ At(t, "dropped") /\ Leave(t, "suppressed") /\ slots' = slots - 1
     \/ At(t, "pass") /\ Leave(t, "sent") /\ slots' = slots - 2
  /\ UNCHANGED <<config, decided, flight, result, drops, recovered, trouble>>

(* The slot is returned; the caller suppresses the notification only when its DROP *)
(* was committed.                                                                 *)
Return(t) ==
  /\ \/ At(t, "dropped") /\ Leave(t, "suppressed")
     \/ At(t, "pass") /\ Leave(t, "sent")
  /\ slots' = slots - 1
  /\ UNCHANGED <<config, decided, flight, result, drops, recovered, trouble>>

--------------------------------------------------------------------------------
(* The administrator's commands.  Each is one request; those that store more than *)
(* one thing, or change memory after the database, take several steps.            *)

Revoked == [i \in DOMAIN approvals |-> [approvals[i] EXCEPT !.live = FALSE]]
RevokeAll == approvals' = Revoked /\ void' = Len(approvals)

Becomes(q, pc) == request[q].pc = "idle" /\ request' = [request EXCEPT ![q].pc = pc]

\* CreateEnforceApprovalIfReady
Approve(q, p) ==
  /\ Becomes(q, "done")
  /\ active # NoRelease /\ active \notin critical /\ ~emergency
  /\ approvals' = Append(Revoked, [release |-> active, policy |-> p, live |-> TRUE])
  /\ void' = Len(approvals)
  /\ UNCHANGED <<active, provider, client, policy, critical, emergency, memory>>

RevokeApprovals(q) ==
  /\ Becomes(q, "done") /\ RevokeAll
  /\ UNCHANGED <<active, provider, client, policy, critical, emergency, memory>>

\* SavePolicy, SaveProfile, DeleteProfile: a semantic change revokes all approvals.
SavePolicy(q, p) ==
  /\ Becomes(q, "done") /\ p # policy /\ policy' = p
  /\ RevokeAll
  /\ UNCHANGED <<active, provider, client, critical, emergency, memory>>

\* POST releases/<id>/activate
ActivateRelease(q, r) ==
  /\ Becomes(q, "done") /\ active' = r
  /\ UNCHANGED <<provider, client, policy, approvals, critical, emergency, memory, void>>

(* The provider configuration is stored, then its release, which becomes the active *)
(* one twice over, or none when the provider is disabled; the client comes last.   *)
SaveProvider(q, r) ==
  /\ request[q].pc = "idle"
  /\ request' = [request EXCEPT ![q] = [@ EXCEPT !.pc = "release", !.release = r]]
  /\ provider' = r
  /\ UNCHANGED <<active, client, policy, approvals, critical, emergency, memory, void>>

SaveRelease(q) ==
  /\ \/ request[q].pc = "release" /\ request' = [request EXCEPT ![q].pc = "activate"]
     \/ request[q].pc = "activate" /\ request' = [request EXCEPT ![q].pc = "client"]
  /\ active' = request[q].release
  /\ UNCHANGED <<provider, client, policy, approvals, critical, emergency, memory, void>>

SetClient(q) ==
  /\ request[q].pc = "client"
  /\ request' = [request EXCEPT ![q] = Awaiting("done")]
  /\ client' = request[q].release
  /\ UNCHANGED <<active, provider, policy, approvals, critical, emergency, memory, void>>

\* handleEmergency: the stored switch, then the one in memory.
StoreSwitch(q, on) ==
  /\ request[q].pc = "idle"
  /\ request' = [request EXCEPT ![q] = [@ EXCEPT !.pc = "memory", !.on = on]]
  /\ emergency' = on
  /\ UNCHANGED <<active, provider, client, policy, approvals, critical, memory, void>>

SetMemory(q) ==
  /\ request[q].pc = "memory"
  /\ request' = [request EXCEPT ![q] = Awaiting("done")]
  /\ memory' = request[q].on
  /\ UNCHANGED <<active, provider, client, policy, approvals, critical, emergency, void>>

(* Feedback on a route decision of the release whose event the classifier called   *)
(* critical, and its resolution.                                                  *)
CreateFeedback(q, r) ==
  /\ Becomes(q, "done")
  /\ \E e \in Events : ai[e][r].status = "completed"
  /\ critical' = critical \cup {r}
  /\ UNCHANGED <<active, provider, client, policy, approvals, emergency, memory, void>>

ResolveFeedback(q, r) ==
  /\ Becomes(q, "done")
  /\ r \in critical /\ critical' = critical \ {r}
  /\ UNCHANGED <<active, provider, client, policy, approvals, emergency, memory, void>>

Command(q) ==
  /\ \/ \E p \in Policies : Approve(q, p) \/ SavePolicy(q, p)
     \/ RevokeApprovals(q)
     \/ \E r \in Releases : ActivateRelease(q, r) \/ CreateFeedback(q, r) \/ ResolveFeedback(q, r)
     \/ \E r \in Releases \cup {NoRelease} : SaveProvider(q, r)
     \/ \E on \in BOOLEAN : StoreSwitch(q, on)
     \/ SaveRelease(q) \/ SetClient(q) \/ SetMemory(q)
  /\ UNCHANGED <<decided, task, gate, drops, recovered, trouble>>

\* A statement of a command fails: what it changed before stays.
CommandFails(q) ==
  /\ request[q].pc \in {"release", "activate"} /\ Fault
  /\ request' = [request EXCEPT ![q] = Awaiting("done")]
  /\ UNCHANGED <<active, provider, client, policy, approvals, critical, emergency, memory, void,
                 decided, task, gate, drops, recovered>>

--------------------------------------------------------------------------------
(* The process ends and the next one starts.                                      *)

\* Mutant: a started call is queued again as well.
RecoveredAgain(row) == IF row.status \in {"running", "started"} THEN [row EXCEPT !.status = "queued"] ELSE row

\* RecoverDecisions
Recovered(row) ==
  CASE row.status = "running" -> [row EXCEPT !.status = "queued"]
    [] row.status = "started" -> [row EXCEPT !.status = "failed"]
    [] OTHER                  -> row

(* The pass runs for ENFORCE and once more for SHADOW; ENFORCE stays off when its   *)
(* own failed.                                                                    *)
Restart ==
  /\ Fault
  /\ task' = [t \in Tasks |-> IF task[t].pc \in {"idle"} \cup Ended THEN task[t]
                              ELSE With("gone")]
  /\ request' = [q \in Requests |-> IF request[q].pc \notin {"idle", "done"}
                                    THEN Awaiting("done") ELSE request[q]]
  /\ client' = provider /\ memory' = FALSE
  /\ flight' = [e \in Events |-> [r \in Releases |-> NoTask]] /\ result' = [t \in Sends |-> "none"] /\ slots' = 0
  /\ \E enforce, shadow \in BOOLEAN :
       /\ recovered' = enforce
       /\ ai' = IF enforce \/ shadow
                THEN [e \in Events |-> [r \in Releases |-> Recovered(ai[e][r])]] ELSE ai
  /\ UNCHANGED <<active, provider, policy, approvals, critical, emergency, void, calls, drops>>

--------------------------------------------------------------------------------
Classify(t) == Claim(t) \/ Poll(t) \/ Mark(t) \/ Call(t) \/ Finish(t)

Evaluate(t) ==
  \/ ResolveRoute(t) \/ ObserveRelease(t) \/ CheckSwitch(t) \/ Acquire(t) \/ CheckRelease(t)
  \/ CheckReady(t) \/ JoinFlight(t) \/ Wait(t) \/ Close(t) \/ Forget(t) \/ Judge(t)
  \/ PersistDrop(t) \/ Return(t)

Next == \/ \E t \in Sends : Evaluate(t) \/ Classify(t)
        \/ \E j \in Jobs : Schedule(j) \/ Classify(j)
        \/ \E q \in Requests : Command(q) \/ CommandFails(q)
        \/ Restart

Spec == Init /\ [][Next]_vars

--------------------------------------------------------------------------------
(* Properties.                                                                    *)

(* At most one provider call per event and release (docs/phase4/SHADOW_RUNTIME.md *)
(* Durable at-most-once), by evaluations and Shadow jobs together, across failed  *)
(* statements and restarts.                                                       *)
OneCall == \A e \in Events, r \in Releases : calls[e][r] <= 1

(* Exactly the notifications whose DROP and snapshot were committed are           *)
(* suppressed; every other one that was evaluated is sent, whatever failed.       *)
RecordedIsTaken == \A t \in Sends :
  LET recorded == \E d \in drops : d.by = t IN
    /\ task[t].pc = "suppressed" => recorded
    /\ task[t].pc = "sent" => ~recorded

(* A DROP follows an answer that is stored with it: the AI decision of its event   *)
(* and release is completed, and says drop.                                       *)
DropsFollowDecisions == \A d \in drops :
  LET row == ai[EventOf[d.by]][d.release] IN row.status = "completed" /\ row.answer = "drop"

(* A notification is suppressed for a reason that is on record, both ways.         *)
DropsAreFounded == RecordedIsTaken /\ DropsFollowDecisions

(* No slot is lost or taken twice, and every flight holds one of them: the limit  *)
(* of flights (queueCap) never turns an evaluation away.                          *)
SlotsAreHeld ==
  /\ slots = Cardinality({t \in Sends : task[t].pc \in Inside})
  /\ slots <= MaxConcurrency
  /\ Cardinality({k \in Events \X Releases : flight[k[1]][k[2]] # NoTask}) <= slots

(* Nobody waits for a flight whose owner is gone or has ended without its result. *)
WaitsForSomebody == \A t \in Sends : At(t, "wait") =>
  LET o == task[t].joined IN o # NoTask /\ (result[o] # "none" \/ task[o].pc \in Owning)

(* Slots, flights and those who wait for them agree, however an evaluation ends.  *)
FlightsBalance == SlotsAreHeld /\ WaitsForSomebody

(* The administrator has the last word (docs/phase5/ENFORCE.md): whatever an       *)
(* evaluation read on its way, no DROP is committed once the switch is stored,    *)
(* the policy changed, the approval was revoked or replaced, the release          *)
(* deactivated or a critical false drop reported.                                 *)
FinalWord == [][\A d \in drops' \ drops :
                  /\ ~emergency /\ d.approval > void
                  /\ active = d.release /\ d.release \notin critical]_vars
================================================================================
