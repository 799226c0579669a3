------------------------ MODULE ObservationPipelineProofs ------------------------
(* What the recorder keeps for any number of events, notifications, addresses and *)
(* workers and any length of its queue: every accepted fact in one place, and     *)
(* facts that hang under their own event and route.                               *)
EXTENDS ObservationPipeline, TLAPS, FiniteSetTheorems

--------------------------------------------------------------------------------
(* The inductive invariant. *)

\* A notification under way is at an address, and at one of its own.
AtWork == {"bound", "passed", "sending"}
Placed ==
  /\ \A n \in Notifies : IF notify[n].pc \in AtWork THEN notify[n].at \in Addresses
                                                    ELSE notify[n].at = None
  /\ \A m, n \in Notifies : notify[m].at = notify[n].at /\ notify[m].at # None => m = n

\* How far the recorder is fits how far Close is.
StageInv ==
  /\ close # "open" => ~accepting
  /\ worker.at # "select" => Stop
  /\ worker.at = "ended" => queue = <<>> /\ Free
  /\ close \in {"recorder", "shadow", "closed"} => cancelled

\* A fact that was taken belongs to an event or a notification that is past it.
Past(f) ==
  /\ f.kind = "event" => event[f.by] # "new"
  /\ f.kind = "route" => notify[f.by].pc \notin {"none", "bound"}
  /\ f.kind = "delivery" => notify[f.by].pc = "gone"
FreshInv == \A f \in accepted : Past(f)

\* The places are apart and hold what was accepted.
PlacesInv ==
  /\ accepted = Range(queue) \cup Hand \cup stored \cup failed
  /\ \A i, j \in DOMAIN queue : queue[i] = queue[j] => i = j
  /\ \A i \in DOMAIN queue : queue[i] \notin Hand \cup stored \cup failed
  /\ Hand \cap (stored \cup failed) = {} /\ stored \cap failed = {}

CountInv ==
  /\ IsFiniteSet(accepted) /\ IsFiniteSet(stored) /\ IsFiniteSet(failed)
  /\ Cardinality(accepted)
       = Len(queue) + Cardinality(Hand) + Cardinality(stored) + Cardinality(failed)

\* What a trace names was accepted.
Sound(t, S) ==
  /\ t.event # None => EventFact(t.event) \in S
  /\ t.route # None => t.event # None /\ RouteFact(t.route, t.event) \in S
SourceInv ==
  /\ \A e \in trace : EventFact(e) \in accepted
  /\ \A a \in Addresses : Sound(bindings[a], accepted)
  /\ \A n \in Notifies : Sound(notify[n].trace, accepted)

\* What a fact refers to was accepted before it.
Rests(f, S) ==
  /\ f.kind # "event" => EventFact(f.event) \in S
  /\ f.kind = "delivery" => \E g \in S : g.kind = "route" /\ g.by = f.route
Out == Hand \cup stored \cup failed
Ahead(i) == {queue[j] : j \in 1..(i - 1)}
ChainInv ==
  /\ \A i \in DOMAIN queue : Rests(queue[i], Ahead(i) \cup Out)
  /\ \A f \in Hand : Rests(f, stored \cup failed)

\* Without a panic a binding is that of the notification at its address.
OwnTrace(t, n) == t.event = EventOf[n] /\ t.route \in {None, n}
BindingsAreOwn ==
  panics = 0 => \A a \in Addresses : bindings[a] # Unbound =>
    \E n \in Notifies : notify[n].at = a /\ OwnTrace(bindings[a], n)
RoutesAreOwn ==
  panics = 0 => \A n \in Notifies : notify[n].trace # Unbound => OwnTrace(notify[n].trace, n)
OwnInv == BindingsAreOwn /\ RoutesAreOwn

\* The hook is called for a route that has its row.
HookInv == worker.hook # "no" => worker.fact \in stored /\ worker.fact.kind = "route"

IInv == /\ TypeOK /\ Placed /\ StageInv /\ FreshInv /\ PlacesInv /\ CountInv
        /\ SourceInv /\ ChainInv /\ OwnInv /\ TracesAreOwn
        /\ HookInv /\ JudgedAreStored /\ NothingRefused

--------------------------------------------------------------------------------
(* Sequences. *)

LEMMA AppendFacts ==
  ASSUME NEW S, NEW s \in Seq(S), NEW x \in S
  PROVE  /\ Append(s, x) \in Seq(S) /\ Len(Append(s, x)) = Len(s) + 1
         /\ DOMAIN s = 1..Len(s) /\ DOMAIN Append(s, x) = 1..(Len(s) + 1)
         /\ \A i \in 1..Len(s) : Append(s, x)[i] = s[i]
         /\ Append(s, x)[Len(s) + 1] = x
         /\ Range(Append(s, x)) = Range(s) \cup {x}
<1>1. /\ Append(s, x) \in Seq(S) /\ Len(Append(s, x)) = Len(s) + 1 /\ Len(s) \in Nat
      /\ DOMAIN s = 1..Len(s) /\ DOMAIN Append(s, x) = 1..(Len(s) + 1)
      /\ \A i \in 1..Len(s) : Append(s, x)[i] = s[i]
      /\ Append(s, x)[Len(s) + 1] = x
  OBVIOUS
<1>2. Range(Append(s, x)) \subseteq Range(s) \cup {x}
  BY <1>1 DEF Range
<1>3. Range(s) \cup {x} \subseteq Range(Append(s, x))
  BY <1>1 DEF Range
<1> QED BY <1>1, <1>2, <1>3

LEMMA TailFacts ==
  ASSUME NEW S, NEW s \in Seq(S), s # <<>>
  PROVE  /\ Head(s) \in S /\ Tail(s) \in Seq(S) /\ Len(s) \in Nat \ {0} /\ Len(Tail(s)) = Len(s) - 1
         /\ DOMAIN s = 1..Len(s) /\ DOMAIN Tail(s) = 1..(Len(s) - 1)
         /\ Head(s) = s[1] /\ \A i \in 1..(Len(s) - 1) : Tail(s)[i] = s[i + 1]
         /\ Range(s) = Range(Tail(s)) \cup {Head(s)}
<1>1. /\ Head(s) \in S /\ Tail(s) \in Seq(S) /\ Len(s) \in Nat \ {0} /\ Len(Tail(s)) = Len(s) - 1
      /\ DOMAIN s = 1..Len(s) /\ DOMAIN Tail(s) = 1..(Len(s) - 1)
      /\ Head(s) = s[1] /\ \A i \in 1..(Len(s) - 1) : Tail(s)[i] = s[i + 1]
  OBVIOUS
<1>2. Range(s) \subseteq Range(Tail(s)) \cup {Head(s)}
  <2> SUFFICES ASSUME NEW i \in 1..Len(s), i # 1
               PROVE  s[i] \in Range(Tail(s))
    BY <1>1 DEF Range
  <2>1. i - 1 \in 1..(Len(s) - 1) /\ Tail(s)[i - 1] = s[i]
    BY <1>1
  <2> QED BY <1>1, <2>1 DEF Range
<1>3. Range(Tail(s)) \cup {Head(s)} \subseteq Range(s)
  <2>1. \A i \in 1..(Len(s) - 1) : i + 1 \in 1..Len(s)
    BY <1>1
  <2> QED BY <1>1, <2>1 DEF Range
<1> QED BY <1>1, <1>2, <1>3

--------------------------------------------------------------------------------
(* Facts and types. *)

LEMMA Facts ==
  /\ \A e \in Events : EventFact(e) \in Fact
  /\ \A n \in Notifies, e \in Events : RouteFact(n, e) \in Fact
  /\ \A n, r \in Notifies, e \in Events : DeliveryFact(n, e, r) \in Fact
  /\ None \notin Fact
  BY FactAssumption DEF Fact, EventFact, RouteFact, DeliveryFact

LEMMA FactShape ==
  ASSUME NEW f \in Fact
  PROVE  /\ f.kind \in {"event", "route", "delivery"} /\ f.event \in Events
         /\ f.kind = "event" => f.by \in Events
         /\ f.kind \in {"route", "delivery"} => f.by \in Notifies
  BY DEF Fact

LEMMA RecorderTypes ==
  ASSUME TypeOK, NEW f \in Fact, Took(f)
  PROVE  queue' \in Seq(Fact) /\ Len(queue') <= QueueSize /\ accepted' \subseteq Fact
<1>1. queue \in Seq(Fact) /\ Len(queue) < QueueSize /\ queue' = Append(queue, f) /\ Len(queue) \in Nat
  BY DEF TypeOK, Took, Room
<1>2. queue' \in Seq(Fact) /\ Len(queue') = Len(queue) + 1
  BY <1>1, AppendFacts
<1> QED BY <1>1, <1>2, SizeAssumption DEF TypeOK, Took

TroubleTypes == faults' \in Nat /\ panics' \in Nat
LEMMA Troubles ==
  ASSUME TypeOK
  PROVE  /\ NoFault => TroubleTypes
         /\ Fault => TroubleTypes
         /\ Panic => TroubleTypes
  BY DEF TypeOK, NoFault, Fault, Panic, TroubleTypes, bounds

\* A trace that is bound names an event.
LEMMA Named ==
  ASSUME NEW t \in Trace, Sound(t, accepted), t # Unbound
  PROVE  t.event \in Events /\ EventFact(t.event) \in accepted
<1>1. t.event # None
  BY DEF Trace, Unbound, Sound
<1> QED BY <1>1 DEF Trace, Sound

LEMMA UnboundFacts == Unbound \in Trace /\ Unbound.event = None /\ Unbound.route = None
  BY DEF Unbound, Trace

--------------------------------------------------------------------------------
(* Types. *)

CallTypes ==
  /\ event' \in [Events -> {"new", "routing", "done"}] /\ trace' \subseteq Events
  /\ notify' \in [Notifies -> Notification]
  /\ bindings' \in [Addresses -> Trace]
QueueTypes == queue' \in Seq(Fact) /\ Len(queue') <= QueueSize /\ accepted' \subseteq Fact

LEMMA CallsKeepTypes ==
  ASSUME TypeOK, CallTypes, QueueTypes, TroubleTypes, UNCHANGED <<worker, runtime, rows, closing>>
  PROVE  TypeOK'
  BY DEF TypeOK, CallTypes, QueueTypes, TroubleTypes, runtime, rows, closing

LEMMA RefusedTypes ==
  ASSUME TypeOK, Refused
  PROVE  QueueTypes /\ TroubleTypes
  BY Troubles DEF Refused, QueueTypes, recorder, TypeOK

LEMMA TookTypes ==
  ASSUME TypeOK, NEW f \in Fact, Took(f)
  PROVE  QueueTypes /\ TroubleTypes
  BY Troubles, RecorderTypes DEF Took, QueueTypes

LEMMA QuietTypes ==
  ASSUME TypeOK, UNCHANGED recorder
  PROVE  QueueTypes
  BY DEF QueueTypes, recorder, TypeOK

Pcs == {"none", "bound", "passed", "sending", "gone"}

LEMMA NewPc ==
  ASSUME NEW r \in Notification, NEW pc \in Pcs
  PROVE  /\ [r EXCEPT !.pc = pc] \in Notification
         /\ [r EXCEPT !.pc = pc].pc = pc /\ [r EXCEPT !.pc = pc].at = r.at
         /\ [r EXCEPT !.pc = pc].trace = r.trace
  BY DEF Notification, Pcs

\* Notification n moves on and no other does.
Moves(n, pc, a, t) ==
  /\ notify' \in [Notifies -> Notification]
  /\ notify'[n].pc = pc /\ notify'[n].at = a /\ notify'[n].trace = t
  /\ \A m \in Notifies \ {n} : notify'[m] = notify[m]

LEMMA OneMoves ==
  ASSUME TypeOK, NEW n \in Notifies, NEW r \in Notification, notify' = [notify EXCEPT ![n] = r]
  PROVE  Moves(n, r.pc, r.at, r.trace)
  BY DEF TypeOK, Moves

LEMMA MovesBound ==
  ASSUME TypeOK, NEW n \in Notifies, NEW a \in Addresses,
         notify' = [notify EXCEPT ![n] = [@ EXCEPT !.pc = "bound", !.at = a]]
  PROVE  Moves(n, "bound", a, notify[n].trace)
<1> DEFINE r == [notify[n] EXCEPT !.pc = "bound", !.at = a]
<1>1. notify[n] \in Notification /\ "bound" \in Pcs /\ a \in Addresses \cup {None}
  BY DEF TypeOK, Pcs
<1>2. r \in Notification /\ r.pc = "bound" /\ r.at = a /\ r.trace = notify[n].trace
  BY <1>1 DEF Notification, Pcs
<1>3. notify' = [notify EXCEPT ![n] = r]
  OBVIOUS
<1> HIDE DEF r
<1> QED BY <1>2, <1>3, OneMoves

LEMMA MovesPassed ==
  ASSUME TypeOK, NEW n \in Notifies, notify' = [notify EXCEPT ![n].pc = "passed"]
  PROVE  Moves(n, "passed", notify[n].at, notify[n].trace)
<1> DEFINE r == [notify[n] EXCEPT !.pc = "passed"]
<1>1. notify[n] \in Notification /\ "passed" \in Pcs
  BY DEF TypeOK, Pcs
<1>2. r \in Notification /\ r.pc = "passed" /\ r.at = notify[n].at /\ r.trace = notify[n].trace
  BY <1>1, NewPc
<1>3. notify' = [notify EXCEPT ![n] = r]
  OBVIOUS
<1> HIDE DEF r
<1> QED BY <1>2, <1>3, OneMoves

LEMMA MovesSending ==
  ASSUME TypeOK, NEW n \in Notifies, NEW t \in Trace,
         notify' = [notify EXCEPT ![n] = [@ EXCEPT !.pc = "sending", !.trace = t]]
  PROVE  Moves(n, "sending", notify[n].at, t)
<1> DEFINE r == [notify[n] EXCEPT !.pc = "sending", !.trace = t]
<1>1. notify[n] \in Notification /\ "sending" \in Pcs
  BY DEF TypeOK, Pcs
<1>2. r \in Notification /\ r.pc = "sending" /\ r.at = notify[n].at /\ r.trace = t
  BY <1>1 DEF Notification, Pcs
<1>3. notify' = [notify EXCEPT ![n] = r]
  OBVIOUS
<1> HIDE DEF r
<1> QED BY <1>2, <1>3, OneMoves

LEMMA GoneShape ==
  ASSUME TypeOK, NEW n \in Notifies
  PROVE  /\ Gone(n) \in Notification /\ Gone(n).pc = "gone" /\ Gone(n).at = None
         /\ Gone(n).trace = notify[n].trace
<1> DEFINE r == [notify[n] EXCEPT !.pc = "gone", !.at = None]
<1>1. notify[n] \in Notification /\ "gone" \in Pcs /\ None \in Addresses \cup {None}
  BY DEF TypeOK, Pcs
<1>2. r \in Notification /\ r.pc = "gone" /\ r.at = None /\ r.trace = notify[n].trace
  BY <1>1 DEF Notification, Pcs
<1>3. Gone(n) = r
  BY DEF Gone
<1> HIDE DEF r
<1> QED BY <1>2, <1>3

LEMMA MovesGone ==
  ASSUME TypeOK, NEW n \in Notifies, notify' = [notify EXCEPT ![n] = Gone(n)]
  PROVE  Moves(n, "gone", None, notify[n].trace)
  BY GoneShape, OneMoves

LEMMA TypeStep ==
  ASSUME TypeOK, Placed, SourceInv, HookInv, [Next]_vars
  PROVE  TypeOK'
<1>1. ASSUME NEW e \in Events, ObserveEvent(e)
      PROVE  TypeOK'
  <2>1. CallTypes
    BY <1>1 DEF ObserveEvent, CallTypes, TypeOK
  <2>2. QueueTypes /\ TroubleTypes
    BY <1>1, Facts, TookTypes, RefusedTypes DEF ObserveEvent
  <2> QED BY <1>1, <2>1, <2>2, CallsKeepTypes DEF ObserveEvent
<1>2. ASSUME NEW e \in Events, Dispatched(e) \/ DispatchPanics(e)
      PROVE  TypeOK'
  <2>1. notify' \in [Notifies -> Notification]
    <3>1. CASE Dispatched(e)
      BY <3>1 DEF Dispatched, TypeOK
    <3>2. CASE DispatchPanics(e)
      <4>1. \A n \in Notifies : Gone(n) \in Notification /\ notify[n] \in Notification
        BY GoneShape DEF TypeOK
      <4> QED BY <3>2, <4>1 DEF DispatchPanics
    <3> QED BY <1>2, <3>1, <3>2
  <2>3. CallTypes
    BY <1>2, <2>1 DEF Dispatched, DispatchPanics, CallTypes, TypeOK
  <2>2. QueueTypes /\ TroubleTypes
    BY <1>2, QuietTypes, Troubles DEF Dispatched, DispatchPanics, NoFault
  <2> QED BY <1>2, <2>3, <2>2, CallsKeepTypes DEF Dispatched, DispatchPanics
<1>3. ASSUME NEW n \in Notifies, NEW a \in Addresses, Bind(n, a)
      PROVE  TypeOK'
  <2>1. EventOf[n] \in Events
    BY NotifyAssumption
  <2>2. notify' \in [Notifies -> Notification]
    BY <1>3, MovesBound DEF Bind, Moves
  <2>3. bindings' \in [Addresses -> Trace]
    BY <1>3, <2>1 DEF Bind, TypeOK, Trace
  <2>4. CallTypes
    BY <1>3, <2>2, <2>3 DEF Bind, CallTypes, TypeOK
  <2>5. QueueTypes /\ TroubleTypes
    BY <1>3, QuietTypes, Troubles DEF Bind, NoFault
  <2> QED BY <1>3, <2>4, <2>5, CallsKeepTypes DEF Bind
<1>4. ASSUME NEW n \in Notifies, Filter(n)
      PROVE  TypeOK'
  <2> DEFINE a == notify[n].at
  <2>1. a \in Addresses /\ bindings[a] \in Trace /\ Sound(bindings[a], accepted)
    BY <1>4 DEF Filter, Placed, AtWork, SourceInv, TypeOK
  <2>2. PICK b \in Trace :
          /\ Routed(n, a, b)
          /\ \/ /\ bindings' = [bindings EXCEPT ![a] = b]
                /\ notify' = [notify EXCEPT ![n].pc = "passed"]
             \/ Unbind(a) /\ notify' = [notify EXCEPT ![n] = Gone(n)]
    BY <1>4 DEF Filter
  <2>5. notify' \in [Notifies -> Notification]
    BY <2>2, MovesPassed, MovesGone DEF Moves
  <2>6. bindings' \in [Addresses -> Trace]
    BY <2>2, UnboundFacts DEF Unbind, TypeOK
  <2>3. CallTypes
    BY <1>4, <2>5, <2>6 DEF Filter, CallTypes, TypeOK
  <2>4. QueueTypes /\ TroubleTypes
    <3>1. CASE bindings[a] = Unbound
      BY <2>2, <3>1, QuietTypes, Troubles DEF Routed
    <3>2. CASE bindings[a] # Unbound
      <4>1. RouteFact(n, bindings[a].event) \in Fact
        BY <2>1, <3>2, Named, Facts
      <4> QED BY <2>2, <3>2, <4>1, TookTypes, RefusedTypes DEF Routed
    <3> QED BY <3>1, <3>2
  <2> QED BY <1>4, <2>3, <2>4, CallsKeepTypes DEF Filter
<1>5. ASSUME NEW n \in Notifies, Begin(n)
      PROVE  TypeOK'
  <2> DEFINE a == notify[n].at
             t == IF bindings[a].route = None THEN Unbound ELSE bindings[a]
  <2>1. a \in Addresses /\ t \in Trace
    BY <1>5, UnboundFacts DEF Begin, Placed, AtWork, TypeOK
  <2>4. notify' \in [Notifies -> Notification]
    BY <1>5, <2>1, MovesSending, MovesGone DEF Begin, Moves
  <2>5. bindings' \in [Addresses -> Trace]
    BY <1>5, UnboundFacts DEF Begin, Unbind, TypeOK
  <2>2. CallTypes
    BY <1>5, <2>4, <2>5 DEF Begin, CallTypes, TypeOK
  <2>3. QueueTypes /\ TroubleTypes
    BY <1>5, QuietTypes, Troubles DEF Begin
  <2> QED BY <1>5, <2>2, <2>3, CallsKeepTypes DEF Begin
<1>6. ASSUME NEW n \in Notifies, Deliver(n)
      PROVE  TypeOK'
  <2> DEFINE t == notify[n].trace
  <2>3. notify' \in [Notifies -> Notification]
    BY <1>6, MovesGone DEF Deliver, Moves
  <2>4. bindings' \in [Addresses -> Trace]
    BY <1>6, UnboundFacts DEF Deliver, Unbind, TypeOK
  <2>1. CallTypes
    BY <1>6, <2>3, <2>4 DEF Deliver, CallTypes, TypeOK
  <2>2. QueueTypes /\ TroubleTypes
    <3>1. CASE t.route = None
      BY <1>6, <3>1, QuietTypes, Troubles DEF Deliver
    <3>2. CASE t.route # None
      <4>1. t \in Trace /\ Sound(t, accepted) /\ t # Unbound
        BY <3>2, UnboundFacts DEF SourceInv, TypeOK, Notification
      <4>2. DeliveryFact(n, t.event, t.route) \in Fact
        BY <3>2, <4>1, Named, Facts DEF Trace
      <4> QED BY <1>6, <4>2, TookTypes, RefusedTypes, QuietTypes, Troubles DEF Deliver
    <3> QED BY <3>1, <3>2
  <2> QED BY <1>6, <2>1, <2>2, CallsKeepTypes DEF Deliver
<1>7. ASSUME Take
      PROVE  TypeOK'
  <2>1. queue \in Seq(Fact) /\ queue # <<>>
    BY <1>7 DEF Take, TypeOK
  <2>2. Head(queue) \in Fact /\ Tail(queue) \in Seq(Fact) /\ Len(Tail(queue)) = Len(queue) - 1
        /\ Len(queue) \in Nat
    BY <2>1, TailFacts
  <2>3. queue' \in Seq(Fact) /\ Len(queue') <= QueueSize
    BY <1>7, <2>2, SizeAssumption DEF Take, TypeOK
  <2> QED BY <1>7, <2>2, <2>3 DEF Take, Put, TypeOK, calls, runtime, rows, closing, bounds
<1>8. ASSUME SeeStop \/ Drained
      PROVE  TypeOK'
  BY <1>8 DEF SeeStop, Drained, Put, TypeOK, calls, recorder, runtime, rows, closing, bounds
<1>9. ASSUME Insert
      PROVE  TypeOK'
  <2>1. worker.fact \in Fact
    BY <1>9 DEF Insert, Free, TypeOK
  <2>2. TroubleTypes
    BY <1>9, Troubles DEF Insert
  <2> QED BY <1>9, <2>1, <2>2
      DEF Insert, Put, Release, TypeOK, TroubleTypes, calls, recorder, runtime, closing
<1>10. ASSUME Hook
       PROVE  TypeOK'
  <2>1. worker.fact \in Fact /\ worker.fact.kind = "route"
    BY <1>10 DEF Hook, HookInv, TypeOK
  <2>2. worker.fact.by \in Notifies
    BY <2>1, FactShape
  <2> QED BY <1>10, <2>2
      DEF Hook, Put, Release, TypeOK, calls, recorder, rows, closing, bounds
<1>11. ASSUME Schedule
       PROVE  TypeOK'
  <2>1. worker.fact \in Fact /\ worker.fact.kind = "route"
    BY <1>11 DEF Schedule, HookInv, TypeOK
  <2>2. worker.fact.by \in Notifies /\ jobs \in Seq(Notifies) /\ Len(jobs) \in Nat
    BY <2>1, FactShape DEF TypeOK
  <2>3. jobs' \in Seq(Notifies) /\ Len(jobs') <= ShadowSize
    <3>1. CASE UNCHANGED jobs
      BY <3>1 DEF TypeOK
    <3>2. CASE Len(jobs) < ShadowSize /\ jobs' = Append(jobs, worker.fact.by)
      <4>1. jobs' \in Seq(Notifies) /\ Len(jobs') = Len(jobs) + 1
        BY <3>2, <2>2, AppendFacts
      <4> QED BY <3>2, <4>1, <2>2, SizeAssumption
    <3> QED BY <1>11, <3>1, <3>2 DEF Schedule
  <2> QED BY <1>11, <2>3
      DEF Schedule, Put, Release, TypeOK, calls, recorder, rows, closing, bounds
<1>12. ASSUME NEW w \in Workers, Worker(w)
       PROVE  TypeOK'
  <2>1. CASE TakeJob(w)
    <3>1. jobs \in Seq(Notifies) /\ jobs # <<>>
      BY <2>1 DEF TakeJob, TypeOK
    <3>2. /\ Head(jobs) \in Notifies /\ Tail(jobs) \in Seq(Notifies)
          /\ Len(jobs) \in Nat \ {0} /\ Len(Tail(jobs)) = Len(jobs) - 1
      BY <3>1, TailFacts
    <3>3. /\ jobs' \in Seq(Notifies) /\ Len(jobs') <= ShadowSize
          /\ shadow' \in [Workers -> Notifies \cup {None, "ended"}]
      BY <2>1, <3>2, SizeAssumption DEF TakeJob, TypeOK
    <3> QED BY <2>1, <3>3 DEF TakeJob, TypeOK, calls, recorder, rows, closing, bounds
  <2>2. CASE EvaluateJob(w) \/ WorkerEnds(w)
    BY <2>2 DEF EvaluateJob, WorkerEnds, TypeOK, calls, recorder, rows, closing, bounds
  <2> QED BY <1>12, <2>1, <2>2 DEF Worker
<1>13. ASSUME RefuseFacts \/ CloseStop \/ AwaitRecorder \/ CloseShadow \/ CloseStore
       PROVE  TypeOK'
  BY <1>13 DEF RefuseFacts, CloseStop, AwaitRecorder, CloseShadow, CloseStore, Advance, Quiet, Stages,
               TypeOK, calls, recorder, runtime, rows, bounds
<1>14. CASE UNCHANGED vars
  BY <1>14 DEF vars, TypeOK, calls, recorder, runtime, rows, closing, bounds
<1> QED BY <1>1, <1>2, <1>3, <1>4, <1>5, <1>6, <1>7, <1>8, <1>9, <1>10, <1>11, <1>12, <1>13, <1>14
    DEF Next, Recorder

--------------------------------------------------------------------------------
(* The places of a fact.  An offer puts a new one at the end of the queue, after   *)
(* everything it rests on.                                                        *)

Grows(f) ==
  /\ accepting /\ f \in Fact \ accepted /\ Rests(f, accepted)
  /\ queue' = Append(queue, f) /\ accepted' = accepted \cup {f}
Offered == /\ UNCHANGED <<worker, runtime, rows, closing>>
           /\ faults' = 0 => faults = 0
           /\ UNCHANGED recorder \/ \E f \in Fact : Grows(f)

LEMMA TroublesRemain ==
  ASSUME TypeOK, NoFault \/ Fault \/ Panic
  PROVE  (faults' = 0 => faults = 0) /\ (panics' = 0 => panics = 0) /\ (Panic => panics' # 0)
  BY DEF TypeOK, NoFault, Fault, Panic, bounds

LEMMA Offers ==
  ASSUME TypeOK, UNCHANGED <<worker, runtime, rows, closing>>,
         NEW f \in Fact, f \notin accepted, Rests(f, accepted),
         Took(f) \/ Refused
  PROVE  Offered /\ accepted \subseteq accepted' /\ accepted' \subseteq accepted \cup {f}
         /\ (panics' = 0 => panics = 0)
<1>1. CASE Took(f)
  BY <1>1, TroublesRemain DEF Took, Room, Offered, Grows
<1>2. CASE Refused
  BY <1>2, TroublesRemain DEF Refused, Offered, recorder
<1> QED BY <1>1, <1>2

LEMMA OffersNothing ==
  ASSUME TypeOK, UNCHANGED <<worker, runtime, rows, closing>>, UNCHANGED recorder, NoFault \/ Fault \/ Panic
  PROVE  Offered /\ accepted' = accepted /\ (panics' = 0 => panics = 0)
  BY TroublesRemain DEF Offered, recorder

LEMMA GrowsKeeps ==
  ASSUME TypeOK, PlacesInv, CountInv, ChainInv, NEW f \in Fact, Grows(f),
         UNCHANGED <<worker, stored, failed>>
  PROVE  PlacesInv' /\ CountInv' /\ ChainInv'
<1>1. queue \in Seq(Fact)
  BY DEF TypeOK
<1>2. /\ Len(queue') = Len(queue) + 1 /\ Len(queue) \in Nat
      /\ DOMAIN queue = 1..Len(queue) /\ DOMAIN queue' = 1..(Len(queue) + 1)
      /\ \A i \in 1..Len(queue) : queue'[i] = queue[i]
      /\ queue'[Len(queue) + 1] = f
      /\ Range(queue') = Range(queue) \cup {f}
  BY <1>1, AppendFacts DEF Grows
<1>3. Hand' = Hand
  BY DEF Hand, Free
<1>4. \A i \in 1..Len(queue) : queue[i] \in Range(queue)
  BY <1>2 DEF Range
<1>5. f \notin Range(queue) \cup Hand \cup stored \cup failed /\ accepted' = accepted \cup {f}
  BY DEF Grows, PlacesInv
<1>6. PlacesInv'
  <2>1. accepted' = Range(queue') \cup Hand' \cup stored' \cup failed'
    BY <1>2, <1>3, <1>5 DEF PlacesInv
  <2>2. \A i, j \in DOMAIN queue' : queue'[i] = queue'[j] => i = j
    BY <1>2, <1>4, <1>5 DEF PlacesInv
  <2>3. \A i \in DOMAIN queue' : queue'[i] \notin Hand' \cup stored' \cup failed'
    BY <1>2, <1>3, <1>5 DEF PlacesInv
  <2> QED BY <1>3, <2>1, <2>2, <2>3 DEF PlacesInv
<1>7. CountInv'
  <2>1. IsFiniteSet(accepted') /\ Cardinality(accepted') = Cardinality(accepted) + 1
    BY <1>5, FS_AddElement DEF CountInv, Grows
  <2>2. Cardinality(Hand) \in Nat /\ Cardinality(stored) \in Nat /\ Cardinality(failed) \in Nat
    BY FS_CardinalityType, FS_Singleton, FS_EmptySet DEF CountInv, Hand
  <2> QED BY <1>2, <1>3, <2>1, <2>2 DEF CountInv
<1>8. ChainInv'
  <2>1. \A i \in 1..(Len(queue) + 1) : Ahead(i)' = Ahead(i)
    BY <1>2 DEF Ahead
  <2>2. Ahead(Len(queue) + 1) = Range(queue)
    BY <1>2 DEF Ahead, Range
  <2>3. Out' = Out /\ Range(queue) \cup Out = accepted
    BY <1>3 DEF Out, PlacesInv
  <2>4. ASSUME NEW i \in DOMAIN queue'
        PROVE  Rests(queue'[i], Ahead(i)' \cup Out')
    <3>1. CASE i = Len(queue) + 1
      BY <1>2, <2>1, <2>2, <2>3, <3>1 DEF Grows
    <3>2. CASE i # Len(queue) + 1
      <4>1. i \in DOMAIN queue /\ queue'[i] = queue[i]
        BY <1>2, <3>2
      <4> QED BY <1>2, <2>1, <2>3, <4>1 DEF ChainInv
    <3> QED BY <3>1, <3>2
  <2> QED BY <1>3, <2>4 DEF ChainInv
<1> QED BY <1>6, <1>7, <1>8

LEMMA TakeKeeps ==
  ASSUME TypeOK, PlacesInv, CountInv, ChainInv, Take
  PROVE  PlacesInv' /\ CountInv' /\ ChainInv'
<1>1. queue \in Seq(Fact) /\ queue # <<>>
  BY DEF TypeOK, Take
<1>2. /\ Head(queue) \in Fact /\ Head(queue) = queue[1] /\ Len(queue) \in Nat \ {0}
      /\ DOMAIN queue = 1..Len(queue) /\ DOMAIN queue' = 1..(Len(queue) - 1)
      /\ Len(queue') = Len(queue) - 1
      /\ \A i \in 1..(Len(queue) - 1) : queue'[i] = queue[i + 1] /\ i + 1 \in DOMAIN queue
      /\ Range(queue) = Range(queue') \cup {queue[1]} /\ 1 \in DOMAIN queue
  BY <1>1, TailFacts DEF Take
<1>3. Hand = {} /\ Hand' = {queue[1]} /\ stored' = stored /\ failed' = failed /\ accepted' = accepted
  BY <1>2, FactAssumption DEF Take, Put, Hand, Free, rows
<1>4. PlacesInv'
  <2>1. accepted' = Range(queue') \cup Hand' \cup stored' \cup failed'
    BY <1>2, <1>3 DEF PlacesInv
  <2>2. \A i, j \in DOMAIN queue' : queue'[i] = queue'[j] => i = j
    BY <1>2 DEF PlacesInv
  <2>3. ASSUME NEW i \in DOMAIN queue'
        PROVE  queue'[i] \notin Hand' \cup stored' \cup failed'
    <3>1. queue'[i] = queue[i + 1] /\ i + 1 \in DOMAIN queue /\ i + 1 # 1
      BY <1>2
    <3> QED BY <1>2, <1>3, <3>1 DEF PlacesInv
  <2>4. Hand' \cap (stored' \cup failed') = {}
    BY <1>2, <1>3 DEF PlacesInv
  <2> QED BY <1>3, <2>1, <2>2, <2>3, <2>4 DEF PlacesInv
<1>5. CountInv'
  <2>1. Cardinality(Hand) = 0 /\ Cardinality(Hand') = 1
    BY <1>3, FS_EmptySet, FS_Singleton
  <2>2. Cardinality(stored) \in Nat /\ Cardinality(failed) \in Nat
    BY FS_CardinalityType DEF CountInv
  <2> QED BY <1>2, <1>3, <2>1, <2>2 DEF CountInv
<1>6. ChainInv'
  <2>1. Out' = Out \cup {queue[1]}
    BY <1>3 DEF Out
  <2>2. ASSUME NEW i \in DOMAIN queue'
        PROVE  Ahead(i + 1) = Ahead(i)' \cup {queue[1]}
    <3>1. \A j \in 1..(i - 1) : queue'[j] = queue[j + 1] /\ j + 1 \in 1..i
      BY <1>2
    <3>2. \A j \in 1..i : j = 1 \/ (j - 1 \in 1..(i - 1) /\ queue'[j - 1] = queue[j])
      BY <1>2
    <3>3. i \in Nat \ {0} /\ (i + 1) - 1 = i
      BY <1>2
    <3> QED BY <3>1, <3>2, <3>3 DEF Ahead
  <2>3. ASSUME NEW i \in DOMAIN queue'
        PROVE  Rests(queue'[i], Ahead(i)' \cup Out')
    <3>1. Rests(queue[i + 1], Ahead(i + 1) \cup Out) /\ queue'[i] = queue[i + 1]
      BY <1>2 DEF ChainInv
    <3>2. Ahead(i + 1) \cup Out = Ahead(i)' \cup Out'
      BY <2>1, <2>2
    <3> QED BY <3>1, <3>2
  <2>4. Rests(queue[1], stored \cup failed)
    <3>1. Rests(queue[1], Ahead(1) \cup Out)
      BY <1>2 DEF ChainInv
    <3>2. Ahead(1) \cup Out = stored \cup failed
      BY <1>3 DEF Ahead, Out
    <3> QED BY <3>1, <3>2
  <2> QED BY <1>3, <2>3, <2>4 DEF ChainInv
<1> QED BY <1>4, <1>5, <1>6

LEMMA InsertKeeps ==
  ASSUME TypeOK, PlacesInv, CountInv, ChainInv, Insert
  PROVE  PlacesInv' /\ CountInv' /\ ChainInv'
<1> DEFINE f == worker.fact
<1>1. Hand = {f} /\ f \notin stored \cup failed
  BY DEF Insert, Hand, PlacesInv
<1>2. Hand' = {}
  BY DEF Insert, Put, Release, Hand, Free
<1>3. /\ \/ stored' = stored \cup {f} /\ failed' = failed
         \/ stored' = stored /\ failed' = failed \cup {f}
      /\ queue' = queue /\ accepted' = accepted
  BY DEF Insert, recorder
<1> HIDE DEF f
<1>4. PlacesInv'
  BY <1>1, <1>2, <1>3 DEF PlacesInv
<1>5. CountInv'
  <2>1. Cardinality(Hand) = 1 /\ Cardinality(Hand') = 0
    BY <1>1, <1>2, FS_EmptySet, FS_Singleton
  <2>2. /\ IsFiniteSet(stored') /\ IsFiniteSet(failed')
        /\ Cardinality(stored') + Cardinality(failed') = Cardinality(stored) + Cardinality(failed) + 1
        /\ Cardinality(stored') \in Nat /\ Cardinality(failed') \in Nat
    <3>1. Cardinality(stored) \in Nat /\ Cardinality(failed) \in Nat
      BY FS_CardinalityType DEF CountInv
    <3>2. /\ IsFiniteSet(stored \cup {f}) /\ Cardinality(stored \cup {f}) = Cardinality(stored) + 1
          /\ IsFiniteSet(failed \cup {f}) /\ Cardinality(failed \cup {f}) = Cardinality(failed) + 1
      BY <1>1, FS_AddElement DEF CountInv
    <3>3. CASE stored' = stored \cup {f} /\ failed' = failed
      BY <3>1, <3>2, <3>3 DEF CountInv
    <3>4. CASE stored' = stored /\ failed' = failed \cup {f}
      BY <3>1, <3>2, <3>4 DEF CountInv
    <3> QED BY <1>3, <3>3, <3>4
  <2>3. Cardinality(stored) \in Nat /\ Cardinality(failed) \in Nat /\ Len(queue) \in Nat
    BY FS_CardinalityType DEF CountInv, TypeOK
  <2>4. Cardinality(accepted)
          = Len(queue) + Cardinality(Hand) + Cardinality(stored) + Cardinality(failed)
    BY DEF CountInv
  <2>5. Cardinality(accepted')
          = Len(queue') + Cardinality(Hand') + Cardinality(stored') + Cardinality(failed')
    BY <1>3, <2>1, <2>2, <2>3, <2>4
  <2> QED BY <1>3, <2>2, <2>5 DEF CountInv
<1>6. ChainInv'
  <2>1. Out' = Out /\ \A i \in DOMAIN queue : Ahead(i)' = Ahead(i)
    BY <1>1, <1>2, <1>3 DEF Out, Ahead
  <2> QED BY <1>2, <1>3, <2>1 DEF ChainInv
<1> QED BY <1>4, <1>5, <1>6

\* Any other step leaves the places alone.
LEMMA StillKeeps ==
  ASSUME TypeOK, PlacesInv, CountInv, ChainInv, Hand' = Hand, UNCHANGED <<queue, accepted, stored, failed>>
  PROVE  PlacesInv' /\ CountInv' /\ ChainInv'
<1>1. PlacesInv'
  BY DEF PlacesInv
<1>2. CountInv'
  BY DEF CountInv
<1>3. ChainInv'
  <2>1. Out' = Out /\ \A i \in DOMAIN queue : Ahead(i)' = Ahead(i)
    BY DEF Out, Ahead
  <2> QED BY <2>1 DEF ChainInv
<1> QED BY <1>1, <1>2, <1>3

--------------------------------------------------------------------------------
(* Where notifications and events are, and what the traces name. *)

CallInv == Placed /\ FreshInv /\ SourceInv /\ OwnInv /\ TracesAreOwn

LEMMA PlacedKept ==
  ASSUME Placed, NEW n \in Notifies, NEW pc, NEW a, NEW t, Moves(n, pc, a, t),
         pc \in AtWork => a \in Addresses /\ \A m \in Notifies \ {n} : notify[m].at # a,
         pc \notin AtWork => a = None
  PROVE  Placed'
<1>1. ASSUME NEW m \in Notifies
      PROVE  IF notify'[m].pc \in AtWork THEN notify'[m].at \in Addresses ELSE notify'[m].at = None
  BY DEF Placed, Moves
<1>2. ASSUME NEW k \in Notifies, NEW m \in Notifies, notify'[k].at = notify'[m].at, notify'[k].at # None
      PROVE  k = m
  BY <1>2 DEF Placed, Moves
<1> QED BY <1>1, <1>2 DEF Placed

Forward ==
  /\ \A e \in Events : event[e] # "new" => event'[e] # "new"
  /\ \A n \in Notifies : /\ notify[n].pc \notin {"none", "bound"} => notify'[n].pc \notin {"none", "bound"}
                         /\ notify[n].pc = "gone" => notify'[n].pc = "gone"

LEMMA FreshKept ==
  ASSUME TypeOK, FreshInv, Forward, NEW f, accepted' \subseteq accepted \cup {f}, Past(f)'
  PROVE  FreshInv'
<1> SUFFICES ASSUME NEW g \in accepted
             PROVE  Past(g)'
  BY DEF FreshInv
<1>1. g \in Fact /\ Past(g)
  BY DEF TypeOK, FreshInv
<1> QED BY <1>1, FactShape DEF Past, Forward

LEMMA FreshSame ==
  ASSUME TypeOK, FreshInv, Forward, accepted' = accepted
  PROVE  FreshInv'
<1> SUFFICES ASSUME NEW g \in accepted
             PROVE  Past(g)'
  BY DEF FreshInv
<1>1. g \in Fact /\ Past(g)
  BY DEF TypeOK, FreshInv
<1> QED BY <1>1, FactShape DEF Past, Forward

LEMMA MovesForward ==
  ASSUME NEW n \in Notifies, NEW pc, NEW a, NEW t, Moves(n, pc, a, t), event' = event,
         notify[n].pc # "gone", pc \in {"none", "bound"} => notify[n].pc \in {"none", "bound"}
  PROVE  Forward
  BY DEF Moves, Forward

LEMMA OwnKept ==
  ASSUME TracesAreOwn, NEW f, accepted' \subseteq accepted \cup {f}, panics' = 0 => panics = 0,
         panics = 0 => /\ f.kind # "event" => f.event = EventOf[f.by]
                       /\ f.kind = "delivery" => f.route = f.by
  PROVE  TracesAreOwn'
  BY DEF TracesAreOwn

LEMMA SourceKept ==
  ASSUME SourceInv, accepted \subseteq accepted',
         \A e \in trace' \ trace : EventFact(e) \in accepted',
         \A a \in Addresses : bindings'[a] = bindings[a] \/ Sound(bindings'[a], accepted'),
         \A n \in Notifies : notify'[n].trace = notify[n].trace \/ Sound(notify'[n].trace, accepted')
  PROVE  SourceInv'
<1>1. ASSUME NEW t, Sound(t, accepted)
      PROVE  Sound(t, accepted')
  BY <1>1 DEF Sound
<1>2. \A e \in trace' : EventFact(e) \in accepted'
  BY DEF SourceInv
<1>3. \A a \in Addresses : Sound(bindings'[a], accepted')
  BY <1>1 DEF SourceInv
<1>4. \A n \in Notifies : Sound(notify'[n].trace, accepted')
  BY <1>1 DEF SourceInv
<1> QED BY <1>2, <1>3, <1>4 DEF SourceInv

LEMMA UnboundSound == \A S : Sound(Unbound, S)
  BY UnboundFacts DEF Sound

\* What is bound at the address of n is n's own.
LEMMA Mine ==
  ASSUME OwnInv, Placed, panics = 0, NEW n \in Notifies, notify[n].pc \in AtWork,
         bindings[notify[n].at] # Unbound
  PROVE  OwnTrace(bindings[notify[n].at], n)
<1>1. notify[n].at \in Addresses
  BY DEF Placed
<1>2. PICK m \in Notifies : notify[m].at = notify[n].at /\ OwnTrace(bindings[notify[n].at], m)
  BY <1>1 DEF OwnInv, BindingsAreOwn
<1>3. m = n
  BY <1>1, <1>2, NoneAssumption DEF Placed
<1> QED BY <1>2, <1>3

\* The bindings stay each one's own when only the one of n changes with it.
LEMMA BindingsKept ==
  ASSUME TypeOK, Placed, OwnInv, panics' = 0 => panics = 0,
         NEW n \in Notifies, NEW a \in Addresses, NEW b,
         bindings' = [bindings EXCEPT ![a] = b],
         \A m \in Notifies \ {n} : notify'[m] = notify[m],
         notify[n].at \in {a, None},
         panics' = 0 /\ b # Unbound => \E m \in Notifies : notify'[m].at = a /\ OwnTrace(b, m)
  PROVE  BindingsAreOwn'
<1> SUFFICES ASSUME panics' = 0, NEW c \in Addresses, bindings'[c] # Unbound
             PROVE  \E m \in Notifies : notify'[m].at = c /\ OwnTrace(bindings'[c], m)
  BY DEF BindingsAreOwn
<1>1. CASE c = a
  BY <1>1 DEF TypeOK
<1>2. CASE c # a
  <2>1. bindings'[c] = bindings[c]
    BY <1>2 DEF TypeOK
  <2>2. PICK m \in Notifies : notify[m].at = c /\ OwnTrace(bindings[c], m)
    BY <2>1 DEF OwnInv, BindingsAreOwn
  <2>3. m # n
    BY <1>2, <2>2, NoneAssumption
  <2> QED BY <2>1, <2>2, <2>3
<1> QED BY <1>1, <1>2

LEMMA RoutesKept ==
  ASSUME OwnInv, panics' = 0 => panics = 0, NEW n \in Notifies, NEW pc, NEW a, NEW t, Moves(n, pc, a, t),
         panics' = 0 /\ t # Unbound => t = notify[n].trace \/ OwnTrace(t, n)
  PROVE  RoutesAreOwn'
  BY DEF OwnInv, RoutesAreOwn, Moves

LEMMA ObserveEventStep ==
  ASSUME TypeOK, CallInv, NEW e \in Events, ObserveEvent(e)
  PROVE  CallInv' /\ Offered
<1> DEFINE f == EventFact(e)
<1>1. f \in Fact /\ f.kind = "event" /\ f.by = e /\ event' = [event EXCEPT ![e] = "routing"] /\ event[e] = "new"
      /\ UNCHANGED <<notify, bindings>>
  BY Facts DEF ObserveEvent, EventFact
<1>2. f \notin accepted /\ Rests(f, accepted)
  BY <1>1 DEF CallInv, FreshInv, Past, Rests
<1>3. \/ Took(f) /\ trace' = trace \cup {e}
      \/ Refused /\ trace' = trace
  BY DEF ObserveEvent
<1>4. Offered /\ accepted \subseteq accepted' /\ accepted' \subseteq accepted \cup {f} /\ (panics' = 0 => panics = 0)
  BY <1>1, <1>2, <1>3, Offers DEF ObserveEvent
<1>5. Placed'
  BY <1>1 DEF CallInv, Placed
<1>6. FreshInv'
  <2>1. Forward /\ event'[e] = "routing"
    BY <1>1 DEF Forward, TypeOK
  <2>2. Past(f)'
    BY <1>1, <2>1 DEF Past
  <2> HIDE DEF f
  <2> QED BY <1>1, <1>4, <2>1, <2>2, FreshKept DEF CallInv
<1>7. SourceInv'
  <2>1. Took(f) => f \in accepted'
    BY DEF Took
  <2> QED BY <1>1, <1>3, <1>4, <2>1, SourceKept DEF CallInv
<1>8. OwnInv'
  BY <1>1, <1>4 DEF CallInv, OwnInv, BindingsAreOwn, RoutesAreOwn
<1>9. TracesAreOwn'
  <2> HIDE DEF f
  <2> QED BY <1>1, <1>4, OwnKept DEF CallInv
<1> QED BY <1>4, <1>5, <1>6, <1>7, <1>8, <1>9 DEF CallInv

LEMMA DispatchedStep ==
  ASSUME TypeOK, CallInv, NEW e \in Events, Dispatched(e)
  PROVE  CallInv' /\ Offered
<1>1. event' = [event EXCEPT ![e] = "done"] /\ UNCHANGED <<trace, notify, bindings, recorder, bounds>>
  BY DEF Dispatched
<1>2. Offered /\ accepted' = accepted /\ (panics' = 0 => panics = 0)
  BY <1>1, OffersNothing DEF Dispatched, NoFault
<1>3. Forward
  BY <1>1 DEF Forward, TypeOK
<1>4. FreshInv'
  BY <1>2, <1>3, FreshSame DEF CallInv
<1>5. Placed' /\ SourceInv' /\ OwnInv' /\ TracesAreOwn'
  BY <1>1, <1>2 DEF CallInv, Placed, SourceInv, OwnInv, BindingsAreOwn, RoutesAreOwn, TracesAreOwn
<1> QED BY <1>2, <1>4, <1>5 DEF CallInv

LEMMA DispatchPanicsStep ==
  ASSUME TypeOK, CallInv, NEW e \in Events, DispatchPanics(e)
  PROVE  CallInv' /\ Offered
<1>1. /\ event' = [event EXCEPT ![e] = "done"] /\ UNCHANGED <<trace, bindings, recorder>> /\ Panic
      /\ notify' = [n \in Notifies |-> IF n \in Of(e) /\ notify[n].pc \in {"bound", "passed"}
                                       THEN Gone(n) ELSE notify[n]]
  BY DEF DispatchPanics
<1>2. Offered /\ accepted' = accepted /\ panics' # 0
  BY <1>1, OffersNothing, TroublesRemain DEF DispatchPanics
<1>3. ASSUME NEW n \in Notifies
      PROVE  /\ notify'[n].trace = notify[n].trace
             /\ \/ notify'[n] = notify[n]
                \/ notify'[n].pc = "gone" /\ notify'[n].at = None /\ notify[n].pc \in {"bound", "passed"}
  BY <1>1, GoneShape
<1>4. Forward
  BY <1>1, <1>3 DEF Forward, TypeOK
<1>5. FreshInv'
  BY <1>2, <1>4, FreshSame DEF CallInv
<1>6. Placed'
  <2>1. ASSUME NEW m \in Notifies
        PROVE  IF notify'[m].pc \in AtWork THEN notify'[m].at \in Addresses ELSE notify'[m].at = None
    BY <1>3 DEF CallInv, Placed, AtWork
  <2>2. ASSUME NEW k \in Notifies, NEW m \in Notifies, notify'[k].at = notify'[m].at, notify'[k].at # None
        PROVE  k = m
    BY <1>3, <2>2 DEF CallInv, Placed
  <2> QED BY <2>1, <2>2 DEF Placed
<1>7. SourceInv'
  BY <1>1, <1>2, <1>3, SourceKept DEF CallInv
<1>8. OwnInv' /\ TracesAreOwn'
  BY <1>2 DEF OwnInv, BindingsAreOwn, RoutesAreOwn, TracesAreOwn
<1> QED BY <1>2, <1>5, <1>6, <1>7, <1>8 DEF CallInv

LEMMA BindStep ==
  ASSUME TypeOK, CallInv, NEW n \in Notifies, NEW a \in Addresses, Bind(n, a)
  PROVE  CallInv' /\ Offered
<1> DEFINE b == IF EventOf[n] \in trace THEN [event |-> EventOf[n], route |-> None] ELSE bindings[a]
<1>1. /\ notify[n].pc = "none" /\ \A m \in Notifies : notify[m].at # a
      /\ UNCHANGED <<event, trace, recorder, bounds>> /\ Moves(n, "bound", a, notify[n].trace)
  BY MovesBound DEF Bind
<1>2. bindings' = [bindings EXCEPT ![a] = b]
  BY DEF Bind, TypeOK
<1>3. Offered /\ accepted' = accepted /\ (panics' = 0 => panics = 0)
  BY <1>1, OffersNothing DEF Bind, NoFault
<1>4. Placed'
  BY <1>1, PlacedKept DEF CallInv, AtWork
<1>5. FreshInv'
  BY <1>1, <1>3, MovesForward, FreshSame DEF CallInv
<1>6. Sound(b, accepted)
  BY DEF CallInv, SourceInv, Sound
<1>7. SourceInv'
  <2> HIDE DEF b
  <2>1. \A c \in Addresses : bindings'[c] = bindings[c] \/ bindings'[c] = b
    BY <1>2 DEF TypeOK
  <2> QED BY <1>1, <1>3, <1>6, <2>1, SourceKept DEF CallInv, Moves
<1>8. OwnInv'
  <2>1. notify[n].at = None /\ notify'[n].at = a
    BY <1>1 DEF CallInv, Placed, AtWork, Moves
  <2>2. panics' = 0 /\ b # Unbound => OwnTrace(b, n)
    BY <1>1, <1>3 DEF CallInv, OwnInv, BindingsAreOwn, OwnTrace
  <2> HIDE DEF b
  <2>3. BindingsAreOwn'
    BY <1>1, <1>2, <1>3, <2>1, <2>2, BindingsKept DEF CallInv, Moves
  <2>4. RoutesAreOwn'
    BY <1>1, <1>3, RoutesKept DEF CallInv
  <2> QED BY <2>3, <2>4 DEF OwnInv
<1>9. TracesAreOwn'
  BY <1>3 DEF CallInv, TracesAreOwn
<1> QED BY <1>3, <1>4, <1>5, <1>7, <1>8, <1>9 DEF CallInv

LEMMA FilterStep ==
  ASSUME TypeOK, CallInv, NEW n \in Notifies, Filter(n)
  PROVE  CallInv' /\ Offered
<1> DEFINE a == notify[n].at
<1>0. PICK f : f = RouteFact(n, bindings[a].event)
  OBVIOUS
<1>1. notify[n].pc = "bound" /\ UNCHANGED <<event, trace, worker, runtime, rows, closing>>
  BY DEF Filter
<1>2. a \in Addresses /\ bindings[a] \in Trace /\ Sound(bindings[a], accepted)
  BY <1>1 DEF CallInv, Placed, AtWork, SourceInv, TypeOK
<1>3. PICK b \in Trace :
        /\ Routed(n, a, b)
        /\ \/ /\ bindings' = [bindings EXCEPT ![a] = b]
              /\ notify' = [notify EXCEPT ![n].pc = "passed"]
           \/ Unbind(a) /\ notify' = [notify EXCEPT ![n] = Gone(n)]
  BY DEF Filter
<1>4. f.kind = "route" /\ f.by = n /\ f.event = bindings[a].event
  BY <1>0 DEF RouteFact
<1>5. /\ Offered /\ accepted \subseteq accepted' /\ accepted' \subseteq accepted \cup {f}
      /\ panics' = 0 => panics = 0
      /\ bindings[a] = Unbound => accepted' = accepted
  <2>1. CASE bindings[a] = Unbound
    BY <1>1, <1>3, <2>1, OffersNothing DEF Routed
  <2>2. CASE bindings[a] # Unbound
    <3>1. f \in Fact /\ EventFact(f.event) \in accepted
      BY <1>0, <1>2, <1>4, <2>2, Named, Facts
    <3>2. f \notin accepted /\ Rests(f, accepted)
      BY <1>1, <1>4, <3>1 DEF CallInv, FreshInv, Past, Rests
    <3>3. Took(f) \/ Refused
      BY <1>0, <1>3, <2>2 DEF Routed
    <3> QED BY <1>1, <2>2, <3>1, <3>2, <3>3, Offers
  <2> QED BY <2>1, <2>2
<1>6. Sound(b, accepted')
  <2>1. CASE b = Unbound
    BY <2>1, UnboundSound
  <2>2. CASE b # Unbound
    <3>1. bindings[a] # Unbound /\ b = [bindings[a] EXCEPT !.route = n] /\ f \in accepted'
      BY <1>0, <1>3, <2>2 DEF Routed, Took
    <3>2. b.event = bindings[a].event /\ b.route = n
      BY <1>2, <3>1 DEF Trace
    <3>3. b.event # None /\ EventFact(b.event) \in accepted'
      BY <1>2, <1>5, <3>1, <3>2, Named, NoneAssumption
    <3> QED BY <1>0, <3>1, <3>2, <3>3 DEF Sound
  <2> QED BY <2>1, <2>2
<1>7. PICK c \in Trace, pc \in {"passed", "gone"} :
        /\ bindings' = [bindings EXCEPT ![a] = c]
        /\ c = b \/ c = Unbound
        /\ Moves(n, pc, IF pc = "passed" THEN a ELSE None, notify[n].trace)
        /\ pc = "gone" => c = Unbound
  <2>1. CASE bindings' = [bindings EXCEPT ![a] = b] /\ notify' = [notify EXCEPT ![n].pc = "passed"]
    BY <2>1, MovesPassed
  <2>2. CASE Unbind(a) /\ notify' = [notify EXCEPT ![n] = Gone(n)]
    BY <2>2, MovesGone, UnboundFacts DEF Unbind
  <2> QED BY <1>3, <2>1, <2>2
<1>8. notify'[n].pc = pc /\ notify'[n].trace = notify[n].trace /\ (pc = "passed" => notify'[n].at = a)
      /\ \A m \in Notifies \ {n} : notify'[m] = notify[m]
  BY <1>7 DEF Moves
<1>9. Placed'
  <2>1. \A m \in Notifies \ {n} : notify[m].at # a
    BY <1>2, NoneAssumption DEF CallInv, Placed
  <2> HIDE DEF a
  <2> QED BY <1>2, <1>7, <2>1, PlacedKept DEF CallInv, AtWork
<1>10. FreshInv'
  <2>1. Forward
    BY <1>1, <1>7, MovesForward
  <2>2. Past(f)'
    BY <1>4, <1>8 DEF Past
  <2> QED BY <1>5, <2>1, <2>2, FreshKept DEF CallInv
<1>11. SourceInv'
  <2>1. \A d \in Addresses : bindings'[d] = bindings[d] \/ Sound(bindings'[d], accepted')
    BY <1>6, <1>7, UnboundSound DEF TypeOK
  <2> QED BY <1>1, <1>5, <1>8, <2>1, SourceKept DEF CallInv
<1>12. panics = 0 /\ bindings[a] # Unbound => bindings[a].event = EventOf[n]
  BY <1>1, Mine DEF CallInv, AtWork, OwnTrace
<1>13. OwnInv'
  <2>1. panics' = 0 /\ c # Unbound => OwnTrace(c, n) /\ pc = "passed"
    <3> SUFFICES ASSUME panics' = 0, c # Unbound
                 PROVE  OwnTrace(c, n) /\ pc = "passed"
      OBVIOUS
    <3>1. bindings[a] # Unbound /\ c = [bindings[a] EXCEPT !.route = n]
      BY <1>3, <1>7 DEF Routed
    <3>2. c.event = bindings[a].event /\ c.route = n
      BY <1>2, <3>1 DEF Trace
    <3> QED BY <1>5, <1>7, <1>12, <3>1, <3>2 DEF OwnTrace
  <2>2. BindingsAreOwn'
    BY <1>2, <1>5, <1>7, <1>8, <2>1, BindingsKept DEF CallInv
  <2>3. RoutesAreOwn'
    BY <1>5, <1>7, RoutesKept DEF CallInv
  <2> QED BY <2>2, <2>3 DEF OwnInv
<1>14. TracesAreOwn'
  <2>1. CASE bindings[a] = Unbound
    BY <1>5, <2>1 DEF CallInv, TracesAreOwn
  <2>2. CASE bindings[a] # Unbound
    <3>1. panics = 0 => f.event = EventOf[f.by]
      BY <1>4, <1>12, <2>2
    <3> QED BY <1>4, <1>5, <3>1, OwnKept DEF CallInv
  <2> QED BY <2>1, <2>2
<1> QED BY <1>5, <1>9, <1>10, <1>11, <1>13, <1>14 DEF CallInv

LEMMA BeginStep ==
  ASSUME TypeOK, CallInv, NEW n \in Notifies, Begin(n)
  PROVE  CallInv' /\ Offered
<1> DEFINE a == notify[n].at
           t == IF bindings[a].route = None THEN Unbound ELSE bindings[a]
<1>1. /\ notify[n].pc = "passed" /\ UNCHANGED <<event, trace, recorder, worker, runtime, rows, closing>>
      /\ NoFault \/ Panic
  BY DEF Begin
<1>2. a \in Addresses /\ t \in Trace /\ Sound(t, accepted)
  BY <1>1, UnboundFacts, UnboundSound DEF CallInv, Placed, AtWork, SourceInv, TypeOK
<1>3. Offered /\ accepted' = accepted /\ (panics' = 0 => panics = 0)
  BY <1>1, OffersNothing
<1>4. \A m \in Notifies \ {n} : notify[m].at # a
  BY <1>2, NoneAssumption DEF CallInv, Placed
<1>5. TracesAreOwn'
  BY <1>3 DEF CallInv, TracesAreOwn
<1>6. CASE notify' = [notify EXCEPT ![n] = [@ EXCEPT !.pc = "sending", !.trace = t]] /\ UNCHANGED bindings
  <2>1. Moves(n, "sending", a, t)
    BY <1>2, <1>6, MovesSending
  <2>2. panics = 0 /\ t # Unbound => OwnTrace(t, n)
    BY <1>1, Mine DEF CallInv, AtWork
  <2> HIDE DEF a, t
  <2>3. Placed'
    BY <1>2, <1>4, <2>1, PlacedKept DEF CallInv, AtWork
  <2>4. FreshInv'
    BY <1>1, <1>3, <2>1, MovesForward, FreshSame DEF CallInv
  <2>5. SourceInv'
    BY <1>1, <1>2, <1>3, <1>6, <2>1, SourceKept DEF CallInv, Moves
  <2>6. RoutesAreOwn'
    BY <1>3, <2>1, <2>2, RoutesKept DEF CallInv
  <2>7. BindingsAreOwn'
    <3>1. \A m \in Notifies : notify'[m].at = notify[m].at
      BY <2>1 DEF Moves, a
    <3> QED BY <1>3, <1>6, <3>1 DEF CallInv, OwnInv, BindingsAreOwn
  <2> QED BY <1>3, <1>5, <2>3, <2>4, <2>5, <2>6, <2>7 DEF CallInv, OwnInv
<1>7. CASE /\ notify' = [notify EXCEPT ![n] = Gone(n)]
           /\ \/ Unbind(a) /\ NoFault
              \/ UNCHANGED bindings /\ Panic
  <2>1. Moves(n, "gone", None, notify[n].trace)
    BY <1>7, MovesGone
  <2>2. Placed'
    BY <2>1, PlacedKept DEF CallInv, AtWork
  <2>3. FreshInv'
    BY <1>1, <1>3, <2>1, MovesForward, FreshSame DEF CallInv
  <2>4. \A d \in Addresses : bindings'[d] = bindings[d] \/ Sound(bindings'[d], accepted')
    BY <1>7, UnboundSound DEF Unbind, TypeOK
  <2>5. SourceInv'
    BY <1>1, <1>3, <2>1, <2>4, SourceKept DEF CallInv, Moves
  <2>6. BindingsAreOwn'
    <3>1. CASE Panic
      BY <3>1, TroublesRemain DEF BindingsAreOwn
    <3>2. CASE Unbind(a)
      BY <1>2, <1>3, <2>1, <3>2, BindingsKept DEF CallInv, Moves, Unbind
    <3> QED BY <1>7, <3>1, <3>2
  <2>7. RoutesAreOwn'
    BY <1>3, <2>1, RoutesKept DEF CallInv
  <2> QED BY <1>3, <1>5, <2>2, <2>3, <2>5, <2>6, <2>7 DEF CallInv, OwnInv
<1> QED BY <1>6, <1>7 DEF Begin

LEMMA DeliverStep ==
  ASSUME TypeOK, CallInv, NEW n \in Notifies, Deliver(n)
  PROVE  CallInv' /\ Offered
<1> DEFINE a == notify[n].at
           t == notify[n].trace
<1>0. PICK f : f = DeliveryFact(n, t.event, t.route)
  OBVIOUS
<1>1. /\ notify[n].pc = "sending" /\ UNCHANGED <<event, trace, worker, runtime, rows, closing>>
      /\ bindings' = [bindings EXCEPT ![a] = Unbound] /\ Moves(n, "gone", None, t)
  BY MovesGone DEF Deliver, Unbind
<1>2. a \in Addresses /\ t \in Trace /\ Sound(t, accepted)
  BY <1>1 DEF CallInv, Placed, AtWork, SourceInv, TypeOK, Notification
<1>3. f.kind = "delivery" /\ f.by = n /\ f.event = t.event /\ f.route = t.route
  BY <1>0 DEF DeliveryFact
<1>4. \/ t.route # None /\ (Took(f) \/ Refused)
      \/ UNCHANGED recorder /\ NoFault
  BY <1>0 DEF Deliver
<1>5. /\ Offered /\ accepted \subseteq accepted' /\ accepted' \subseteq accepted \cup {f}
      /\ panics' = 0 => panics = 0
      /\ t.route = None => accepted' = accepted
  <2>1. CASE UNCHANGED recorder /\ NoFault
    BY <1>1, <2>1, OffersNothing
  <2>2. CASE t.route # None /\ (Took(f) \/ Refused)
    <3>1. t # Unbound /\ t.event # None /\ RouteFact(t.route, t.event) \in accepted
      BY <1>2, <2>2, UnboundFacts DEF Sound
    <3>2. f \in Fact /\ EventFact(f.event) \in accepted
      BY <1>0, <1>2, <1>3, <2>2, <3>1, Named, Facts DEF Trace
    <3>3. RouteFact(t.route, t.event).kind = "route" /\ RouteFact(t.route, t.event).by = f.route
      BY <1>3 DEF RouteFact
    <3>4. f \notin accepted /\ Rests(f, accepted)
      BY <1>1, <1>3, <3>1, <3>2, <3>3 DEF CallInv, FreshInv, Past, Rests
    <3> QED BY <1>1, <2>2, <3>2, <3>4, Offers
  <2> QED BY <1>4, <2>1, <2>2
<1>6. \A m \in Notifies \ {n} : notify[m].at # a
  BY <1>2, NoneAssumption DEF CallInv, Placed
<1>7. Placed'
  BY <1>1, PlacedKept DEF CallInv, AtWork
<1>8. FreshInv'
  <2>1. Forward
    BY <1>1, MovesForward
  <2>2. Past(f)'
    BY <1>1, <1>3 DEF Past, Moves
  <2> QED BY <1>5, <2>1, <2>2, FreshKept DEF CallInv
<1>9. SourceInv'
  <2>1. \A d \in Addresses : bindings'[d] = bindings[d] \/ Sound(bindings'[d], accepted')
    BY <1>1, UnboundSound DEF TypeOK
  <2> QED BY <1>1, <1>5, <2>1, SourceKept DEF CallInv, Moves
<1>10. OwnInv'
  <2>1. BindingsAreOwn'
    BY <1>1, <1>2, <1>5, BindingsKept DEF CallInv, Moves
  <2>2. RoutesAreOwn'
    BY <1>1, <1>5, RoutesKept DEF CallInv
  <2> QED BY <2>1, <2>2 DEF OwnInv
<1>11. TracesAreOwn'
  <2>1. CASE t.route = None
    BY <1>5, <2>1 DEF CallInv, TracesAreOwn
  <2>2. CASE t.route # None
    <3>1. panics = 0 => t.event = EventOf[n] /\ t.route = n
      BY <2>2, UnboundFacts DEF CallInv, OwnInv, RoutesAreOwn, OwnTrace
    <3> QED BY <1>3, <1>5, <3>1, OwnKept DEF CallInv
  <2> QED BY <2>1, <2>2
<1> QED BY <1>5, <1>7, <1>8, <1>9, <1>10, <1>11 DEF CallInv

\* Any other step leaves the calls alone.
LEMMA CallsStill ==
  ASSUME CallInv, UNCHANGED <<calls, accepted, panics>>
  PROVE  CallInv'
<1>1. event' = event /\ trace' = trace /\ notify' = notify /\ bindings' = bindings
      /\ accepted' = accepted /\ panics' = panics
  BY DEF calls
<1>2. Placed' /\ FreshInv'
  BY <1>1 DEF CallInv, Placed, FreshInv, Past
<1>3. SourceInv' /\ OwnInv' /\ TracesAreOwn'
  BY <1>1 DEF CallInv, SourceInv, OwnInv, BindingsAreOwn, RoutesAreOwn, TracesAreOwn
<1> QED BY <1>2, <1>3 DEF CallInv

--------------------------------------------------------------------------------
(* The goroutines and the shutdown. *)

PlaceInv == PlacesInv /\ CountInv /\ ChainInv
WorkInv  == StageInv /\ HookInv /\ JudgedAreStored /\ NothingRefused
Routes(S) == {f.by : f \in {g \in S : g.kind = "route"}}

LEMMA OfferedKeeps ==
  ASSUME TypeOK, PlaceInv, WorkInv, Offered
  PROVE  PlaceInv' /\ WorkInv'
<1>1. UNCHANGED <<worker, runtime, stored, failed, close, accepting, cancelled>> /\ (faults' = 0 => faults = 0)
  BY DEF Offered, rows, closing
<1>2. Hand' = Hand
  BY <1>1 DEF Hand, Free
<1>3. CASE UNCHANGED recorder
  <2>1. queue' = queue /\ accepted' = accepted
    BY <1>3 DEF recorder
  <2>2. PlaceInv'
    BY <1>1, <1>2, <2>1, StillKeeps DEF PlaceInv
  <2>3. WorkInv'
    BY <1>1, <2>1 DEF WorkInv, StageInv, Stop, Free, HookInv, JudgedAreStored, NothingRefused, runtime
  <2> QED BY <2>2, <2>3
<1>4. CASE \E f \in Fact : Grows(f)
  <2>1. PICK f \in Fact : Grows(f)
    BY <1>4
  <2>2. PlaceInv'
    BY <1>1, <2>1, GrowsKeeps DEF PlaceInv
  <2>3. worker.at # "ended"
    BY <2>1 DEF Grows, WorkInv, StageInv, Stop
  <2>4. StageInv'
    BY <1>1, <2>3 DEF WorkInv, StageInv, Stop, Free
  <2>5. HookInv' /\ JudgedAreStored' /\ NothingRefused'
    BY <1>1 DEF WorkInv, HookInv, JudgedAreStored, NothingRefused, runtime
  <2> QED BY <2>2, <2>4, <2>5 DEF WorkInv
<1> QED BY <1>3, <1>4 DEF Offered

LEMMA TakeStep ==
  ASSUME TypeOK, PlaceInv, WorkInv, Take
  PROVE  PlaceInv' /\ WorkInv' /\ UNCHANGED <<calls, accepted, panics>>
<1>1. /\ UNCHANGED <<calls, accepted, runtime, stored, failed, close, accepting, cancelled, faults, panics>>
      /\ worker' = [at |-> worker.at, fact |-> Head(queue), hook |-> "no"]
      /\ worker.at \in {"select", "drain"}
  BY DEF Take, Put, rows, closing, bounds
<1>2. PlaceInv'
  BY TakeKeeps DEF PlaceInv
<1>3. StageInv' /\ HookInv'
  BY <1>1 DEF WorkInv, StageInv, Stop, HookInv
<1>4. JudgedAreStored' /\ NothingRefused'
  BY <1>1 DEF WorkInv, JudgedAreStored, NothingRefused, runtime
<1> QED BY <1>1, <1>2, <1>3, <1>4 DEF WorkInv

LEMMA StopStep ==
  ASSUME TypeOK, PlaceInv, WorkInv, SeeStop \/ Drained
  PROVE  PlaceInv' /\ WorkInv' /\ UNCHANGED <<calls, accepted, panics>>
<1>1. /\ UNCHANGED <<calls, queue, accepted, runtime, stored, failed, close, accepting, cancelled, faults, panics>>
      /\ Stop /\ Free /\ worker'.fact = None /\ worker'.hook = "no"
      /\ worker'.at = "ended" => queue = <<>>
  BY DEF SeeStop, Drained, Put, recorder, rows, closing, bounds, WorkInv, StageInv
<1>2. Hand' = Hand
  BY <1>1 DEF Hand, Free
<1>3. PlaceInv'
  BY <1>1, <1>2, StillKeeps DEF PlaceInv
<1>4. StageInv' /\ HookInv'
  BY <1>1 DEF WorkInv, StageInv, Stop, HookInv, Free
<1>5. JudgedAreStored' /\ NothingRefused'
  BY <1>1 DEF WorkInv, JudgedAreStored, NothingRefused, runtime
<1> QED BY <1>1, <1>3, <1>4, <1>5 DEF WorkInv

LEMMA InsertStep ==
  ASSUME TypeOK, PlaceInv, WorkInv, Insert
  PROVE  PlaceInv' /\ WorkInv' /\ UNCHANGED <<calls, accepted, panics>>
<1> DEFINE f == worker.fact
<1>1. /\ UNCHANGED <<calls, queue, accepted, runtime, close, accepting, cancelled, panics>> /\ ~Free
      /\ worker.hook = "no" /\ worker'.at = worker.at
      /\ \/ /\ stored' = stored \cup {f} /\ failed' = failed /\ faults' = faults
            /\ \/ f.kind = "route" /\ worker'.fact = f
               \/ worker'.fact = None /\ worker'.hook = "no"
         \/ /\ stored' = stored /\ failed' = failed \cup {f}
            /\ worker'.fact = None /\ worker'.hook = "no"
  BY DEF Insert, Put, Release, recorder, closing, NoFault, Fault, bounds
<1>2. PlaceInv'
  BY InsertKeeps DEF PlaceInv
<1>3. StageInv'
  BY <1>1 DEF WorkInv, StageInv, Stop, Free
<1>4. HookInv'
  BY <1>1 DEF HookInv
<1>5. JudgedAreStored'
  BY <1>1 DEF WorkInv, JudgedAreStored, runtime
<1>6. NothingRefused'
  <2> SUFFICES ASSUME faults' = 0, ~cancelled', failed' # {}
               PROVE  FALSE
    BY DEF NothingRefused
  <2>1. ~cancelled /\ close # "closed"
    BY <1>1 DEF WorkInv, StageInv
  <2>2. faults = 0 /\ failed = {} /\ ~(faults' = faults + 1)
    BY <1>1, <2>1 DEF WorkInv, NothingRefused, Insert, NoFault, Fault, bounds, TypeOK
  <2>3. Hand = {f}
    BY <1>1 DEF Hand
  <2>4. Above(f)
    BY <2>2, <2>3 DEF PlaceInv, ChainInv, Rests, Above
  <2>5. failed' = failed
    BY <2>1, <2>2, <2>4 DEF Insert, StoreClosed, Fault
  <2> QED BY <2>2, <2>5
<1> QED BY <1>1, <1>2, <1>3, <1>4, <1>5, <1>6 DEF WorkInv

LEMMA HookStep ==
  ASSUME TypeOK, PlaceInv, WorkInv, Hook \/ Schedule
  PROVE  PlaceInv' /\ WorkInv' /\ UNCHANGED <<calls, accepted, panics>>
<1>1. /\ UNCHANGED <<calls, queue, accepted, shadow, stored, failed, close, accepting, cancelled, faults, panics>>
      /\ worker.hook # "no" /\ worker'.at = worker.at
      /\ \/ worker'.fact = None /\ worker'.hook = "no"
         \/ worker'.fact = worker.fact /\ worker'.hook = "schedule"
  BY DEF Hook, Schedule, Put, Release, recorder, rows, closing, bounds
<1>2. /\ evaluated' \subseteq evaluated \cup {worker.fact.by}
      /\ jobs' = jobs \/ jobs' = Append(jobs, worker.fact.by)
  BY DEF Hook, Schedule
<1>3. worker.fact \in stored /\ worker.fact.kind = "route" /\ worker.fact.by \in Routes(stored)
  BY <1>1 DEF WorkInv, HookInv, Routes
<1>4. Hand' = Hand
  BY <1>1 DEF Hand, Free
<1>5. PlaceInv'
  BY <1>1, <1>4, StillKeeps DEF PlaceInv
<1>6. StageInv' /\ HookInv'
  <2>1. worker.fact # None
    BY <1>3, FactAssumption DEF TypeOK
  <2> QED BY <1>1, <1>3, <2>1 DEF WorkInv, StageInv, Stop, Free, HookInv
<1>7. JudgedAreStored'
  <2>1. worker.fact.by \in Notifies /\ jobs \in Seq(Notifies)
    BY <1>3, FactShape DEF TypeOK
  <2>2. Range(jobs') \subseteq Range(jobs) \cup {worker.fact.by}
    <3>1. CASE jobs' = jobs
      BY <3>1
    <3>2. CASE jobs' = Append(jobs, worker.fact.by)
      <4>1. Range(Append(jobs, worker.fact.by)) = Range(jobs) \cup {worker.fact.by}
        BY <2>1, AppendFacts
      <4> QED BY <3>2, <4>1
    <3> QED BY <1>2, <3>1, <3>2
  <2> QED BY <1>1, <1>2, <1>3, <2>2 DEF WorkInv, JudgedAreStored, Routes
<1>8. NothingRefused'
  BY <1>1 DEF WorkInv, NothingRefused
<1> QED BY <1>1, <1>5, <1>6, <1>7, <1>8 DEF WorkInv

LEMMA WorkerStep ==
  ASSUME TypeOK, PlaceInv, WorkInv, NEW w \in Workers, Worker(w)
  PROVE  PlaceInv' /\ WorkInv' /\ UNCHANGED <<calls, accepted, panics>>
<1>1. UNCHANGED <<calls, queue, accepted, worker, stored, failed, close, accepting, cancelled, faults, panics>>
  BY DEF Worker, TakeJob, EvaluateJob, WorkerEnds, recorder, rows, closing, bounds
<1>2. Hand' = Hand
  BY <1>1 DEF Hand, Free
<1>3. PlaceInv'
  BY <1>1, <1>2, StillKeeps DEF PlaceInv
<1>4. StageInv' /\ HookInv' /\ NothingRefused'
  BY <1>1 DEF WorkInv, StageInv, Stop, Free, HookInv, NothingRefused
<1>5. JudgedAreStored'
  <2> DEFINE All == Range(jobs) \cup (Range(shadow) \cap Notifies) \cup evaluated
  <2>1. shadow \in [Workers -> Notifies \cup {None, "ended"}] /\ jobs \in Seq(Notifies)
    BY DEF TypeOK
  <2>2. \A x : Range([shadow EXCEPT ![w] = x]) \subseteq Range(shadow) \cup {x}
    BY <2>1 DEF Range
  <2>3. All' \subseteq All
    <3>1. CASE TakeJob(w)
      <4>1. Range(jobs) = Range(jobs') \cup {Head(jobs)} /\ evaluated' = evaluated
            /\ Range(shadow') \subseteq Range(shadow) \cup {Head(jobs)}
        BY <2>1, <2>2, <3>1, TailFacts DEF TakeJob
      <4> QED BY <4>1
    <3>2. CASE EvaluateJob(w)
      <4>1. jobs' = jobs /\ evaluated' \subseteq evaluated \cup {shadow[w]} /\ shadow[w] \in Notifies
            /\ Range(shadow') \subseteq Range(shadow) \cup {None} /\ shadow[w] \in Range(shadow)
        BY <2>1, <2>2, <3>2 DEF EvaluateJob, Range
      <4> QED BY <4>1, NoneAssumption
    <3>3. CASE WorkerEnds(w)
      <4>1. jobs' = jobs /\ evaluated' = evaluated /\ Range(shadow') \subseteq Range(shadow) \cup {"ended"}
        BY <2>2, <3>3 DEF WorkerEnds
      <4> QED BY <4>1, EndedAssumption
    <3> QED BY <3>1, <3>2, <3>3 DEF Worker
  <2> QED BY <1>1, <2>3 DEF WorkInv, JudgedAreStored
<1> QED BY <1>1, <1>3, <1>4, <1>5 DEF WorkInv

LEMMA CloseStep ==
  ASSUME TypeOK, PlaceInv, WorkInv,
         RefuseFacts \/ CloseStop \/ AwaitRecorder \/ CloseShadow \/ CloseStore
  PROVE  PlaceInv' /\ WorkInv' /\ UNCHANGED <<calls, accepted, panics>>
<1>1. /\ UNCHANGED <<calls, queue, accepted, worker, runtime, stored, failed, faults, panics>>
      /\ accepting' => accepting
      /\ close' # "open" /\ (close = "open" => ~accepting')
      /\ close \notin {"open", "refusing"} => close' \notin {"open", "refusing"}
      /\ cancelled => cancelled'
      /\ close' \in {"recorder", "shadow", "closed"} => cancelled' \/ close \in {"recorder", "shadow"}
  BY DEF RefuseFacts, CloseStop, AwaitRecorder, CloseShadow, CloseStore, Advance, Quiet,
         recorder, rows, bounds
<1>2. Hand' = Hand
  BY <1>1 DEF Hand, Free
<1>3. PlaceInv'
  BY <1>1, <1>2, StillKeeps DEF PlaceInv
<1>4. StageInv'
  BY <1>1 DEF WorkInv, StageInv, Stop, Free
<1>5. HookInv' /\ JudgedAreStored' /\ NothingRefused'
  BY <1>1 DEF WorkInv, HookInv, JudgedAreStored, NothingRefused, runtime
<1> QED BY <1>1, <1>3, <1>4, <1>5 DEF WorkInv

--------------------------------------------------------------------------------
(* The theorems. *)

LEMMA Parts == IInv <=> TypeOK /\ CallInv /\ PlaceInv /\ WorkInv
  BY DEF IInv, CallInv, PlaceInv, WorkInv

LEMMA InitHolds == Init => IInv
<1> SUFFICES ASSUME Init
             PROVE  IInv
  OBVIOUS
<1>2. TypeOK
  <2>1. \A n \in Notifies : notify[n] \in Notification
    BY UnboundFacts DEF Init, Notification
  <2>2. notify = [n \in Notifies |-> [pc |-> "none", at |-> None, trace |-> Unbound]]
    BY DEF Init
  <2>3. notify \in [Notifies -> Notification] /\ bindings \in [Addresses -> Trace]
    BY <2>1, <2>2, UnboundFacts DEF Init
  <2>4. queue \in Seq(Fact) /\ Len(queue) <= QueueSize /\ jobs \in Seq(Notifies) /\ Len(jobs) <= ShadowSize
    BY SizeAssumption DEF Init
  <2>5. worker \in [at : {"select", "drain", "ended"}, fact : Fact \cup {None},
                   hook : {"no", "route", "schedule"}]
    BY DEF Init
  <2> QED BY <2>3, <2>4, <2>5 DEF Init, TypeOK, Stages
<1>3. CallInv
  <2>1. Placed
    BY DEF Init, Placed, AtWork
  <2>2. SourceInv
    BY UnboundSound DEF Init, SourceInv
  <2>3. FreshInv /\ OwnInv /\ TracesAreOwn
    BY DEF Init, FreshInv, OwnInv, BindingsAreOwn, RoutesAreOwn, TracesAreOwn
  <2> QED BY <2>1, <2>2, <2>3 DEF CallInv
<1>4. PlaceInv
  <2>1. /\ queue = <<>> /\ DOMAIN queue = {} /\ Range(queue) = {} /\ Len(queue) = 0
        /\ Hand = {} /\ accepted = {} /\ stored = {} /\ failed = {}
    BY DEF Init, Hand, Free, Range
  <2>2. PlacesInv /\ ChainInv
    BY <2>1 DEF PlacesInv, ChainInv
  <2>3. CountInv
    BY <2>1, FS_EmptySet DEF CountInv
  <2> QED BY <2>2, <2>3 DEF PlaceInv
<1>5. WorkInv
  <2>1. StageInv /\ HookInv /\ NothingRefused
    BY DEF Init, StageInv, HookInv, NothingRefused
  <2>2. Range(jobs) = {} /\ Range(shadow) \cap Notifies = {} /\ evaluated = {}
    BY NoneAssumption DEF Init, Range
  <2>3. JudgedAreStored
    BY <2>2 DEF JudgedAreStored
  <2> QED BY <2>1, <2>3 DEF WorkInv
<1> QED BY <1>2, <1>3, <1>4, <1>5, Parts

LEMMA CallStep ==
  ASSUME IInv, \/ \E e \in Events : ObserveEvent(e) \/ Dispatched(e) \/ DispatchPanics(e)
               \/ \E n \in Notifies : (\E a \in Addresses : Bind(n, a)) \/ Filter(n) \/ Begin(n) \/ Deliver(n)
  PROVE  CallInv' /\ PlaceInv' /\ WorkInv'
<1>1. TypeOK /\ CallInv /\ PlaceInv /\ WorkInv
  BY Parts
<1>2. CallInv' /\ Offered
  BY <1>1, ObserveEventStep, DispatchedStep, DispatchPanicsStep, BindStep, FilterStep, BeginStep, DeliverStep
<1> QED BY <1>1, <1>2, OfferedKeeps

LEMMA StepKeeps ==
  ASSUME IInv, [Next]_vars
  PROVE  IInv'
<1>1. TypeOK /\ CallInv /\ PlaceInv /\ WorkInv
  BY Parts
<1>2. TypeOK' /\ (CallInv' /\ PlaceInv' /\ WorkInv' => IInv')
  BY <1>1, TypeStep DEF IInv, CallInv, PlaceInv, WorkInv
<1>3. CASE \/ \E e \in Events : ObserveEvent(e) \/ Dispatched(e) \/ DispatchPanics(e)
           \/ \E n \in Notifies : (\E a \in Addresses : Bind(n, a)) \/ Filter(n) \/ Begin(n) \/ Deliver(n)
  BY <1>2, <1>3, CallStep
<1>4. CASE Recorder
  BY <1>1, <1>2, <1>4, TakeStep, StopStep, InsertStep, HookStep, CallsStill DEF Recorder
<1>5. CASE \E w \in Workers : Worker(w)
  BY <1>1, <1>2, <1>5, WorkerStep, CallsStill
<1>6. CASE RefuseFacts \/ CloseStop \/ AwaitRecorder \/ CloseShadow \/ CloseStore
  BY <1>1, <1>2, <1>6, CloseStep, CallsStill
<1>7. CASE UNCHANGED vars
  <2>1. UNCHANGED <<calls, recorder, worker, runtime, rows, closing, bounds>>
    BY <1>7 DEF vars
  <2>2. UNCHANGED <<calls, queue, accepted, worker, runtime, stored, failed, close, accepting, cancelled,
                    faults, panics>>
    BY <2>1 DEF recorder, rows, closing, bounds
  <2>3. Offered
    BY <2>1, <2>2 DEF Offered
  <2> QED BY <1>1, <1>2, <2>2, <2>3, OfferedKeeps, CallsStill
<1> QED BY <1>3, <1>4, <1>5, <1>6, <1>7 DEF Next

(* The invariant holds in every behaviour of the pipeline.                        *)
THEOREM Invariant == Spec => []IInv
<1>1. Init => IInv
  BY InitHolds
<1>2. IInv /\ [Next]_vars => IInv'
  BY StepKeeps
<1> QED BY <1>1, <1>2, PTL DEF Spec

(* Every variable stays in its type; the queues never hold more than their size   *)
(* (the channels of recorder.go and shadow/runtime.go).                           *)
THEOREM TypeCorrect == Spec => []TypeOK
<1>1. IInv => TypeOK
  BY DEF IInv
<1> QED BY <1>1, Invariant, PTL

(* Every fact the Recorder took is in one place, and counted once (recorder.go,   *)
(* enqueue, run, drain and process).                                              *)
THEOREM FactsAccounted == Spec => []FactsAreAccounted
<1>1. IInv => FactsAreAccounted
  BY DEF IInv, PlacesInv, CountInv, StageInv, FactsAreAccounted
<1> QED BY <1>1, Invariant, PTL

(* The facts of an event hang together: nothing is refused by a foreign key,      *)
(* every trace is its own, and the Shadow runtime judges stored routes            *)
(* (lsp/notify.go, recorder.go, shadow/runtime.go).                               *)
THEOREM ChainsHold == Spec => []ChainsAreTrue
<1>1. IInv => ChainsAreTrue
  BY DEF IInv, ChainsAreTrue
<1> QED BY <1>1, Invariant, PTL
================================================================================
