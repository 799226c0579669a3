--------------------------- MODULE ObservationPipeline ---------------------------
(* What the bot notes down beside its work (docs/phase2): the dispatcher and the  *)
(* notifications offer facts about events, routes and deliveries                  *)
(* (lsp/concern/stateManager.go, lsp/notify.go, lsp/module.go) to the Recorder's  *)
(* bounded queue, whose one worker stores them and hands every stored route to    *)
(* the Shadow runtime's queue (internal/observation/recorder.go,                  *)
(* internal/shadow/runtime.go, admin/server.go), and the shutdown of both         *)
(* (admin/server.go, Close).  A critical section, a channel operation or an SQL   *)
(* statement is one step.                                                         *)
EXTENDS Naturals, Sequences, FiniteSets, Functions

CONSTANTS Events,
          Notifies, EventOf, \* notifications and the event of each
          None,
          Addresses,         \* bound: where objects of a notification may lie
          QueueSize,         \* Config.QueueSize
          ShadowSize,        \* Config.QueueCapacity of the Shadow runtime
          Workers,           \* its workers
          MaxTroubles        \* bound: faults of statements and random sources, and
                             \* panics of generators, filters and hooks, together

ASSUME NotifyAssumption == EventOf \in [Notifies -> Events]
ASSUME NoneAssumption == None \notin Events \cup Notifies \cup Addresses
ASSUME EndedAssumption == "ended" \notin Notifies
ASSUME SizeAssumption == QueueSize \in Nat \ {0} /\ ShadowSize \in Nat \ {0}

VARIABLES
  event,     \* the dispatcher's turn for each event
  trace,     \* events whose trace is valid
  notify,    \* each notification
  bindings,  \* notifyBindings, by address
  queue,     \* the Recorder's queue
  accepting, \* Recorder.accepting
  worker,    \* the Recorder's goroutine
  cancelled, \* workerCtx is done
  stored,    \* facts with a row
  jobs,      \* the Shadow runtime's queue, as routes
  shadow,    \* its workers
  evaluated, \* routes with an evaluation
  close,     \* how far Server.Close is
  accepted,  \* history: facts the queue took
  failed,    \* history: facts whose insert did not happen
  faults, panics

calls    == <<event, trace, notify, bindings>>
recorder == <<queue, accepted>>
runtime  == <<jobs, shadow, evaluated>>
rows     == <<stored, failed>>
closing  == <<close, accepting, cancelled>>
bounds   == <<faults, panics>>
vars     == <<calls, recorder, worker, runtime, rows, closing, bounds>>

--------------------------------------------------------------------------------
(* A fact knows whose it is, and the ids of the rows above it.                    *)
Fact == [kind : {"event"}, by : Events, event : Events, route : {None}]
          \cup [kind : {"route"}, by : Notifies, event : Events, route : {None}]
          \cup [kind : {"delivery"}, by : Notifies, event : Events, route : Notifies]

ASSUME FactAssumption == None \notin Fact

EventFact(e)          == [kind |-> "event", by |-> e, event |-> e, route |-> None]
RouteFact(n, e)       == [kind |-> "route", by |-> n, event |-> e, route |-> None]
DeliveryFact(n, e, r) == [kind |-> "delivery", by |-> n, event |-> e, route |-> r]

Trace   == [event : Events \cup {None}, route : Notifies \cup {None}]
Unbound == [event |-> None, route |-> None]

Notification == [pc : {"none", "bound", "passed", "sending", "gone"},
                 at : Addresses \cup {None}, trace : Trace]

(* Server.Close in its order; the Recorder's Close is the part up to "recorder". *)
Stages      == {"open", "refusing", "stopped", "recorder", "shadow", "closed"}
Stop        == close \notin {"open", "refusing"}    \* Recorder.stop is closed
ShadowStop  == close \in {"shadow", "closed"}       \* Runtime.closed, and stop closed
StoreClosed == close = "closed"

TypeOK ==
  /\ event \in [Events -> {"new", "routing", "done"}] /\ trace \subseteq Events
  /\ notify \in [Notifies -> Notification]
  /\ bindings \in [Addresses -> Trace]
  /\ queue \in Seq(Fact) /\ Len(queue) <= QueueSize /\ accepting \in BOOLEAN
  /\ worker \in [at : {"select", "drain", "ended"}, fact : Fact \cup {None},
                 hook : {"no", "route", "schedule"}]
  /\ cancelled \in BOOLEAN /\ stored \subseteq Fact
  /\ jobs \in Seq(Notifies) /\ Len(jobs) <= ShadowSize
  /\ shadow \in [Workers -> Notifies \cup {None, "ended"}] /\ evaluated \subseteq Notifies
  /\ close \in Stages
  /\ accepted \subseteq Fact /\ failed \subseteq Fact
  /\ faults \in Nat /\ panics \in Nat

Init ==
  /\ event = [e \in Events |-> "new"] /\ trace = {}
  /\ notify = [n \in Notifies |-> [pc |-> "none", at |-> None, trace |-> Unbound]]
  /\ bindings = [a \in Addresses |-> Unbound]
  /\ queue = <<>> /\ accepting = TRUE /\ cancelled = FALSE /\ stored = {}
  /\ worker = [at |-> "select", fact |-> None, hook |-> "no"]
  /\ jobs = <<>> /\ shadow = [w \in Workers |-> None] /\ evaluated = {}
  /\ close = "open" /\ accepted = {} /\ failed = {}
  /\ faults = 0 /\ panics = 0

MoreTrouble == faults + panics < MaxTroubles
Fault   == MoreTrouble /\ faults' = faults + 1 /\ UNCHANGED panics
Panic   == MoreTrouble /\ panics' = panics + 1 /\ UNCHANGED faults
NoFault == UNCHANGED bounds

--------------------------------------------------------------------------------
(* enqueue: the reader's lock makes the test of accepting and the offer one step; *)
(* a full queue refuses at once.  Without an id nothing is offered.               *)

\* Mutant: whether the Recorder accepts is not looked at under the lock.
RoomUnlocked == Len(queue) < QueueSize

\* Mutant: a full queue takes more.
RoomAlways == accepting

Room    == accepting /\ Len(queue) < QueueSize
Took(f) == Room /\ queue' = Append(queue, f) /\ accepted' = accepted \cup {f} /\ NoFault
Refused ==
  /\ \/ ~Room /\ NoFault
     \/ Fault
  /\ UNCHANGED recorder

(* DefaultDispatch: an event that was not taken has no valid trace.               *)

\* Mutant: the trace is valid whether or not the event was taken.
ObserveAnyEvent(e) ==
  /\ event[e] = "new" /\ event' = [event EXCEPT ![e] = "routing"]
  /\ trace' = trace \cup {e} /\ (Took(EventFact(e)) \/ Refused)
  /\ UNCHANGED <<notify, bindings, worker, runtime, rows, closing>>

ObserveEvent(e) ==
  /\ event[e] = "new" /\ event' = [event EXCEPT ![e] = "routing"]
  /\ \/ Took(EventFact(e)) /\ trace' = trace \cup {e}
     \/ Refused /\ UNCHANGED trace
  /\ UNCHANGED <<notify, bindings, worker, runtime, rows, closing>>

Of(e) == {n \in Notifies : EventOf[n] = e}
Filtered(e) == event[e] = "routing" /\ \A n \in Of(e) : notify[n].pc # "bound"
Gone(n) == [notify[n] EXCEPT !.pc = "gone", !.at = None]
Unbind(a) == bindings' = [bindings EXCEPT ![a] = Unbound]

(* BindNotify: the key is the address of the object, which another one had before; *)
(* without a valid trace what is bound there stays.                               *)
Bind(n, a) ==
  /\ Filtered(EventOf[n]) /\ notify[n].pc = "none"
  /\ \A m \in Notifies : notify[m].at # a
  /\ notify' = [notify EXCEPT ![n] = [@ EXCEPT !.pc = "bound", !.at = a]]
  /\ bindings' = IF EventOf[n] \in trace
                 THEN [bindings EXCEPT ![a] = [event |-> EventOf[n], route |-> None]]
                 ELSE bindings
  /\ UNCHANGED <<event, trace, recorder, worker, runtime, rows, closing, bounds>>

\* ObserveRouteForNotify: the binding b remains of the one at a.
Routed(n, a, b) ==
  LET found == bindings[a] # Unbound IN
    \/ ~found /\ b = Unbound /\ UNCHANGED recorder /\ NoFault
    \/ found /\ b = Unbound /\ Refused
    \/ found /\ b = [bindings[a] EXCEPT !.route = n] /\ Took(RouteFact(n, bindings[a].event))

\* filterNotify, and DetachNotify of a notification that did not pass.
Filter(n) ==
  /\ notify[n].pc = "bound"
  /\ LET a == notify[n].at IN
       \E b \in Trace :
         /\ Routed(n, a, b)
         /\ \/ /\ bindings' = [bindings EXCEPT ![a] = b]
               /\ notify' = [notify EXCEPT ![n].pc = "passed"]
            \/ Unbind(a) /\ notify' = [notify EXCEPT ![n] = Gone(n)]
  /\ UNCHANGED <<event, trace, worker, runtime, rows, closing>>

\* Every notification of the event was filtered; those that passed go their way.
Dispatched(e) ==
  /\ Filtered(e) /\ event' = [event EXCEPT ![e] = "done"]
  /\ UNCHANGED <<trace, notify, bindings, recorder, worker, runtime, rows, closing, bounds>>

\* A generator or a filter panics: nobody detaches what was bound.
DispatchPanics(e) ==
  /\ event[e] = "routing" /\ Panic /\ event' = [event EXCEPT ![e] = "done"]
  /\ notify' = [n \in Notifies |-> IF n \in Of(e) /\ notify[n].pc \in {"bound", "passed"}
                                   THEN Gone(n) ELSE notify[n]]
  /\ UNCHANGED <<trace, bindings, recorder, worker, runtime, rows, closing>>

(* ConcernNotify: RouteForNotify, then it may give the notification up, detached   *)
(* unless a hook or a template panicked.                                          *)
Begin(n) ==
  /\ notify[n].pc = "passed" /\ event[EventOf[n]] = "done"
  /\ LET a == notify[n].at
         t == IF bindings[a].route = None THEN Unbound ELSE bindings[a]
     IN \/ /\ notify' = [notify EXCEPT ![n] = [@ EXCEPT !.pc = "sending", !.trace = t]]
           /\ UNCHANGED bindings /\ NoFault
        \/ /\ notify' = [notify EXCEPT ![n] = Gone(n)]
           /\ \/ Unbind(a) /\ NoFault
              \/ UNCHANGED bindings /\ Panic
  /\ UNCHANGED <<event, trace, recorder, worker, runtime, rows, closing>>

\* The Messenger answered, or it was not asked; the goroutine detaches in the end.
Deliver(n) ==
  /\ notify[n].pc = "sending"
  /\ LET t == notify[n].trace IN
       \/ t.route # None /\ (Took(DeliveryFact(n, t.event, t.route)) \/ Refused)
       \/ UNCHANGED recorder /\ NoFault
  /\ Unbind(notify[n].at) /\ notify' = [notify EXCEPT ![n] = Gone(n)]
  /\ UNCHANGED <<event, trace, worker, runtime, rows, closing>>

--------------------------------------------------------------------------------
(* The Recorder's goroutine.                                                      *)

Free == worker.fact = None
Put(at, fact, hook) == worker' = [at |-> at, fact |-> fact, hook |-> hook]
Release == Put(worker.at, None, "no")

Take ==
  /\ Free /\ worker.at \in {"select", "drain"} /\ queue # <<>>
  /\ queue' = Tail(queue) /\ Put(worker.at, Head(queue), "no")
  /\ UNCHANGED <<calls, accepted, runtime, rows, closing, bounds>>

\* Mutant: the goroutine ends as soon as it is told to.
StopAtOnce ==
  /\ Free /\ worker.at = "select" /\ Stop
  /\ Put("ended", None, "no")
  /\ UNCHANGED <<calls, recorder, runtime, rows, closing, bounds>>

SeeStop ==
  /\ Free /\ worker.at = "select" /\ Stop
  /\ Put("drain", None, "no")
  /\ UNCHANGED <<calls, recorder, runtime, rows, closing, bounds>>

Drained ==
  /\ Free /\ worker.at = "drain" /\ queue = <<>>
  /\ Put("ended", None, "no")
  /\ UNCHANGED <<calls, recorder, runtime, rows, closing, bounds>>

\* The foreign keys of the tables.
Above(f) == /\ f.kind # "event" => EventFact(f.event) \in stored
            /\ f.kind = "delivery" => \E g \in stored : g.kind = "route" /\ g.by = f.route

(* One insert.  An error and a panic are counted and the fact is forgotten; the    *)
(* hook is called for a route that has its row.                                   *)
Insert ==
  /\ ~Free /\ worker.hook = "no"
  /\ LET f == worker.fact
         works == ~cancelled /\ ~StoreClosed /\ Above(f)
     IN \/ /\ works /\ stored' = stored \cup {f} /\ UNCHANGED failed /\ NoFault
           /\ IF f.kind = "route" THEN Put(worker.at, f, "route") ELSE Release
        \/ /\ \/ ~works /\ NoFault
              \/ Fault
           /\ failed' = failed \cup {f} /\ UNCHANGED stored /\ Release
  /\ UNCHANGED <<calls, recorder, runtime, closing>>

(* The route hook reads the event and resolves the mode; ENFORCE or an error end   *)
(* it.  A snapshot that cannot be normalised has its evaluation at once.          *)
(* Schedule looks at closed and stores the event.                                 *)
Hook ==
  /\ worker.hook = "route"
  /\ \/ Release /\ UNCHANGED evaluated
     \/ ~cancelled /\ Release /\ evaluated' = evaluated \cup {worker.fact.by}
     \/ ~cancelled /\ ~ShadowStop /\ Put(worker.at, worker.fact, "schedule") /\ UNCHANGED evaluated
  /\ UNCHANGED <<calls, recorder, jobs, shadow, rows, closing, bounds>>

\* The select of Schedule: it may find room although the workers were told to stop.
Schedule ==
  /\ worker.hook = "schedule" /\ Release
  /\ LET room == Len(jobs) < ShadowSize IN
       \/ room /\ jobs' = Append(jobs, worker.fact.by)
       \/ (ShadowStop \/ ~room) /\ UNCHANGED jobs
  /\ UNCHANGED <<calls, recorder, shadow, evaluated, rows, closing, bounds>>

--------------------------------------------------------------------------------
(* The Shadow workers; what they do with a decision is in EnforceGate.            *)

TakeJob(w) ==
  /\ shadow[w] = None /\ jobs # <<>>
  /\ jobs' = Tail(jobs) /\ shadow' = [shadow EXCEPT ![w] = Head(jobs)]
  /\ UNCHANGED <<calls, recorder, worker, evaluated, rows, closing, bounds>>

\* PutRouteEvaluation, its error ignored.
EvaluateJob(w) ==
  /\ shadow[w] \in Notifies /\ shadow' = [shadow EXCEPT ![w] = None]
  /\ \/ ~StoreClosed /\ evaluated' = evaluated \cup {shadow[w]}
     \/ UNCHANGED evaluated
  /\ UNCHANGED <<calls, recorder, worker, jobs, rows, closing, bounds>>

WorkerEnds(w) ==
  /\ shadow[w] = None /\ ShadowStop
  /\ shadow' = [shadow EXCEPT ![w] = "ended"]
  /\ UNCHANGED <<calls, recorder, worker, jobs, evaluated, rows, closing, bounds>>

--------------------------------------------------------------------------------
(* Server.Close.  Either wait ends after a second: the worker's context is then    *)
(* cancelled while it may still work, and the store is closed under the others.   *)

Advance(from, to) == close = from /\ close' = to
Quiet == UNCHANGED <<calls, recorder, worker, runtime, rows, bounds>>

RefuseFacts   == Advance("open", "refusing") /\ accepting' = FALSE /\ Quiet /\ UNCHANGED cancelled
CloseStop     == Advance("refusing", "stopped") /\ Quiet /\ UNCHANGED <<accepting, cancelled>>
AwaitRecorder == Advance("stopped", "recorder") /\ cancelled' = TRUE /\ Quiet /\ UNCHANGED accepting
CloseShadow   == Advance("recorder", "shadow") /\ Quiet /\ UNCHANGED <<accepting, cancelled>>
CloseStore    == Advance("shadow", "closed") /\ Quiet /\ UNCHANGED <<accepting, cancelled>>

--------------------------------------------------------------------------------
Recorder  == Take \/ SeeStop \/ Drained \/ Insert \/ Hook \/ Schedule
Worker(w) == TakeJob(w) \/ EvaluateJob(w) \/ WorkerEnds(w)

Next ==
  \/ \E e \in Events : ObserveEvent(e) \/ Dispatched(e) \/ DispatchPanics(e)
  \/ \E n \in Notifies : (\E a \in Addresses : Bind(n, a)) \/ Filter(n) \/ Begin(n) \/ Deliver(n)
  \/ Recorder
  \/ \E w \in Workers : Worker(w)
  \/ RefuseFacts \/ CloseStop \/ AwaitRecorder \/ CloseShadow \/ CloseStore

Spec == Init /\ [][Next]_vars

(* The goroutines run and the database answers or times out.                      *)
FairSpec == Spec /\ WF_vars(Recorder) /\ \A w \in Workers : WF_vars(Worker(w))

--------------------------------------------------------------------------------
(* Properties.                                                                    *)

(* Every fact the Recorder took is in one place: its queue, its goroutine's hand,  *)
(* a row, or the count of what could not be stored.  When the goroutine has ended *)
(* the queue is empty, and stays so.                                              *)
Hand == IF ~Free /\ worker.hook = "no" THEN {worker.fact} ELSE {}
FactsAreAccounted ==
  /\ accepted = Range(queue) \cup Hand \cup stored \cup failed
  /\ Cardinality(accepted) = Len(queue) + Cardinality(Hand) + Cardinality(stored) + Cardinality(failed)
  /\ worker.at = "ended" => queue = <<>>

(* No fact is offered whose event or route was not: as long as statements work and *)
(* the context lives, no insert is refused by a foreign key.                      *)
NothingRefused == faults = 0 /\ ~cancelled => failed = {}

(* A route is recorded under the event it came from, a delivery under its own      *)
(* route, as long as nothing panicked between a binding and its end.              *)
TracesAreOwn == panics = 0 => \A f \in accepted :
  /\ f.kind # "event" => f.event = EventOf[f.by]
  /\ f.kind = "delivery" => f.route = f.by

(* What the Shadow runtime has, or has judged, is a route with a row of its own:   *)
(* the hook comes after the durable write.                                        *)
JudgedAreStored ==
  Range(jobs) \cup (Range(shadow) \cap Notifies) \cup evaluated
    \subseteq {f.by : f \in {g \in stored : g.kind = "route"}}

(* The facts of an event hang together (docs/phase2/P2A_PASSIVE_OBSERVATION.md).   *)
ChainsAreTrue == NothingRefused /\ TracesAreOwn /\ JudgedAreStored

(* Everything that was taken is stored or counted in the end, shutdown included,   *)
(* and the Shadow queue empties unless its workers are told to stop.              *)
FactsAreSettled == []<>(accepted = stored \cup failed) /\ []<>(jobs = <<>> \/ ShadowStop)
================================================================================
