------------------------ MODULE ConcernLifecycleProofs ------------------------
(* Theorems about the queue of ids, the goroutines behind it and Lsp.Stop, for any *)
(* table, any number of events, dispatchers, groups and panics, and channels of    *)
(* any capacity.                                                                  *)
EXTENDS ConcernLifecycle, TLAPS, FiniteSetTheorems

--------------------------------------------------------------------------------
(* Lists of ids. *)

(* A place holds what it is looked up for.                                         *)
LEMMA PlaceHolds ==
  ASSUME NEW i, i \in Range(list)
  PROVE  Place(i) \in DOMAIN list /\ list[Place(i)] = i
<1>1. \E j \in DOMAIN list : list[j] = i
  BY DEF Range
<1> QED BY <1>1 DEF Place

(* One more element at the end of a list without repetitions.                      *)
LEMMA ListAppend ==
  ASSUME NEW S, NEW s \in Seq(S), NEW i \in S, IsInjective(s), i \notin Range(s)
  PROVE  /\ Append(s, i) \in Seq(S) /\ IsInjective(Append(s, i))
         /\ Range(Append(s, i)) = Range(s) \cup {i}
<1> DEFINE t == Append(s, i)
<1>1. /\ t \in Seq(S) /\ Len(s) \in Nat /\ DOMAIN s = 1..Len(s) /\ DOMAIN t = 1..Len(s) + 1
      /\ \A j \in DOMAIN s : t[j] = s[j]
      /\ t[Len(s) + 1] = i
  OBVIOUS
<1> HIDE DEF t
<1>2. \A j : j \in DOMAIN t <=> j \in DOMAIN s \/ j = Len(s) + 1
  BY <1>1
<1>3. Len(s) + 1 \notin DOMAIN s
  BY <1>1
<1>4. IsInjective(t)
  BY <1>1, <1>2, <1>3 DEF IsInjective, Range
<1>5. Range(t) = Range(s) \cup {i}
  BY <1>1, <1>2, <1>3 DEF Range
<1> QED BY <1>1, <1>4, <1>5 DEF t

(* Two lists in one.                                                               *)
LEMMA ListConcat ==
  ASSUME NEW S, NEW a \in Seq(S), NEW b \in Seq(S)
  PROVE  /\ a \o b \in Seq(S) /\ Len(a \o b) = Len(a) + Len(b)
         /\ \A j \in 1..(Len(a) + Len(b)) : (a \o b)[j] = IF j <= Len(a) THEN a[j] ELSE b[j - Len(a)]
  OBVIOUS

(* A list without repetitions and without one of its elements.                     *)
LEMMA ListRemove ==
  ASSUME NEW S, NEW s \in Seq(S), IsInjective(s), NEW k \in DOMAIN s
  PROVE  /\ RemoveAt(s, k) \in Seq(S) /\ IsInjective(RemoveAt(s, k))
         /\ Range(RemoveAt(s, k)) = Range(s) \ {s[k]}
         /\ Len(RemoveAt(s, k)) = Len(s) - 1
         /\ \A j \in 1..(Len(s) - 1) : RemoveAt(s, k)[j] = IF j < k THEN s[j] ELSE s[j + 1]
<1> DEFINE a == SubSeq(s, 1, k - 1)  b == SubSeq(s, k + 1, Len(s))  t == RemoveAt(s, k)
<1>1. Len(s) \in Nat /\ DOMAIN s = 1..Len(s) /\ k \in 1..Len(s)
  OBVIOUS
<1>2. a \in Seq(S) /\ Len(a) = k - 1 /\ \A j \in 1..(k - 1) : a[j] = s[j]
  BY <1>1
<1>3. b \in Seq(S) /\ Len(b) = Len(s) - k /\ \A j \in 1..(Len(s) - k) : b[j] = s[k + j]
  BY <1>1
<1>4. t = a \o b
  BY DEF RemoveAt
<1> HIDE DEF a, b, t
<1>c. /\ a \o b \in Seq(S) /\ Len(a \o b) = Len(a) + Len(b)
      /\ \A j \in 1..(Len(a) + Len(b)) : (a \o b)[j] = IF j <= Len(a) THEN a[j] ELSE b[j - Len(a)]
  BY <1>2, <1>3, ListConcat
<1>5. t \in Seq(S) /\ Len(t) = Len(s) - 1 /\ DOMAIN t = 1..(Len(s) - 1)
  <2>1. Len(a) + Len(b) = Len(s) - 1
    BY <1>1, <1>2, <1>3
  <2>2. t \in Seq(S) /\ Len(t) = Len(s) - 1
    BY <1>c, <1>4, <2>1
  <2> QED BY <2>2
<1>d. \A j \in DOMAIN t : t[j] = IF j <= k - 1 THEN a[j] ELSE b[j - (k - 1)]
  <2>1. Len(a) + Len(b) = Len(s) - 1
    BY <1>1, <1>2, <1>3
  <2> QED BY <1>2, <1>4, <1>c, <1>5, <2>1
<1>6. \A j \in DOMAIN t : t[j] = IF j < k THEN s[j] ELSE s[j + 1]
  <2> TAKE j \in DOMAIN t
  <2>1. CASE j < k
    BY <1>1, <1>2, <1>d, <1>5, <2>1
  <2>2. CASE ~(j < k)
    <3>1. j - (k - 1) \in 1..(Len(s) - k) /\ k + (j - (k - 1)) = j + 1
      BY <1>1, <1>5, <2>2
    <3>2. t[j] = b[j - (k - 1)]
      BY <1>1, <1>d, <1>5, <2>2
    <3> QED BY <1>3, <2>2, <3>1, <3>2
  <2> QED BY <2>1, <2>2
<1>7. IsInjective(t)
  <2> SUFFICES ASSUME NEW x \in DOMAIN t, NEW y \in DOMAIN t, t[x] = t[y]
               PROVE  x = y
    BY DEF IsInjective
  <2> DEFINE X == IF x < k THEN x ELSE x + 1  Y == IF y < k THEN y ELSE y + 1
  <2>1. X \in DOMAIN s /\ Y \in DOMAIN s /\ s[X] = s[Y]
    BY <1>1, <1>5, <1>6
  <2>2. X = Y
    BY <2>1 DEF IsInjective
  <2> QED BY <1>1, <1>5, <2>2
<1>8. Range(t) = Range(s) \ {s[k]}
  <2>1. ASSUME NEW x \in DOMAIN t PROVE t[x] \in Range(s) \ {s[k]}
    <3> DEFINE X == IF x < k THEN x ELSE x + 1
    <3>1. X \in DOMAIN s /\ t[x] = s[X] /\ X # k
      BY <1>1, <1>5, <1>6
    <3>2. s[X] # s[k]
      BY <3>1 DEF IsInjective
    <3> QED BY <3>1, <3>2 DEF Range
  <2>2. ASSUME NEW x \in DOMAIN s, s[x] # s[k] PROVE s[x] \in Range(t)
    <3> DEFINE X == IF x < k THEN x ELSE x - 1
    <3>1. X \in DOMAIN t /\ t[X] = s[x]
      BY <1>1, <1>5, <1>6, <2>2
    <3> QED BY <3>1 DEF Range
  <2> QED BY <2>1, <2>2 DEF Range
<1> QED BY <1>5, <1>6, <1>7, <1>8 DEF t

(* A list without repetitions and without its head.                                *)
LEMMA ListTail ==
  ASSUME NEW S, NEW s \in Seq(S), IsInjective(s), s # <<>>
  PROVE  /\ Head(s) \in Range(s) /\ IsInjective(Tail(s))
         /\ Range(Tail(s)) = Range(s) \ {Head(s)}
<1> DEFINE t == Tail(s)
<1>1. /\ Len(s) \in Nat /\ DOMAIN s = 1..Len(s) /\ DOMAIN t = 1..(Len(s) - 1)
      /\ Head(s) = s[1] /\ 1 \in DOMAIN s
      /\ \A i \in DOMAIN t : t[i] = s[i + 1]
  OBVIOUS
<1> HIDE DEF t
<1>2. \A i \in DOMAIN t : i + 1 \in DOMAIN s /\ i + 1 # 1
  BY <1>1
<1>3. IsInjective(t)
  BY <1>1, <1>2 DEF IsInjective
<1>4. ASSUME NEW i \in DOMAIN t PROVE t[i] \in Range(s) \ {Head(s)}
  BY <1>1, <1>2, <1>4 DEF IsInjective, Range
<1>5. ASSUME NEW i \in DOMAIN s, s[i] # Head(s) PROVE s[i] \in Range(t)
  <2>1. i - 1 \in DOMAIN t /\ t[i - 1] = s[i]
    BY <1>1, <1>5
  <2> QED BY <2>1 DEF Range
<1> QED BY <1>1, <1>3, <1>4, <1>5 DEF Range, t

(* What follows an element, and what is left of a queue.                           *)
LEMMA ListAfter ==
  ASSUME NEW S, list \in Seq(S), IsInjective(list), NEW i \in Range(list)
  PROVE  After(i) = NoId \/ After(i) \in Range(list) \ {i}
<1>1. Place(i) \in DOMAIN list /\ list[Place(i)] = i
  BY PlaceHolds
<1>2. Len(list) \in Nat /\ DOMAIN list = 1..Len(list)
  OBVIOUS
<1>3. CASE Place(i) # Len(list)
  <2>1. Place(i) + 1 \in DOMAIN list /\ Place(i) + 1 # Place(i)
    BY <1>1, <1>2, <1>3
  <2>2. list[Place(i) + 1] # i
    BY <1>1, <2>1 DEF IsInjective
  <2> QED BY <1>3, <2>1, <2>2 DEF After, Range
<1> QED BY <1>3 DEF After

--------------------------------------------------------------------------------
(* Types. *)

(* What the goroutines may be, without the queue of ids.                           *)
WorkersOK ==
  /\ core \in [pc : {"test", "parking", "parked", "timer", "emit", "ended"}, id : Ids \cup {NoId}]
  /\ stop \in Range(Order)
  /\ fresher \in {"select", "fresh", "send", "panicked", "ended"}
  /\ fresh \subseteq Events /\ events \in Seq(Events)
  /\ dispatcher \in [Dispatchers -> [pc : {"range", "push", "panicked", "ended"},
                                     event : Events \cup {NoEvent}, left : Nat]]
  /\ large \in [Events -> Nat] /\ notify \in Seq(Events)
  /\ reader \in {"read", "acquire", "panicked", "ended"} \X (Events \cup {NoEvent})
  /\ outgoing \in [Events -> Nat] /\ handled \in [Events -> Nat]
  /\ fate \in [Events -> {"none", "quiet", "small", "large", "lost"}]
  /\ commands \in Nat /\ panics \in Nat
  /\ reader[2] \in Events <=> reader[1] = "acquire"
  /\ \A d \in Dispatchers : dispatcher[d].event \in Events <=> dispatcher[d].pc = "push"

FlagsOK == missed \in BOOLEAN /\ crashed \in BOOLEAN

ListOK == list \in Seq(Ids) /\ IsInjective(list) /\ cur \in Range(list) \cup {NoId}

LEMMA TypeParts == ListOK /\ WorkersOK /\ FlagsOK => TypeOK
  BY DEF TypeOK, ListOK, WorkersOK, FlagsOK

(* The points Stop can be at, each with its rank.                                  *)
LEMMA Ranks ==
  /\ Rank("none") = 1 /\ Rank("stored") = 2 /\ Rank("closed") = 3 /\ Rank("broadcast") = 4
  /\ Rank("cancel") = 5 /\ Rank("fresher") = 6 /\ Rank("dispatchers") = 7
  /\ Rank("reader") = 8 /\ Rank("sends") = 9 /\ Rank("done") = 10
<1>1. /\ DOMAIN Order = 1..10
      /\ Order[1] = "none" /\ Order[2] = "stored" /\ Order[3] = "closed" /\ Order[4] = "broadcast"
      /\ Order[5] = "cancel" /\ Order[6] = "fresher" /\ Order[7] = "dispatchers"
      /\ Order[8] = "reader" /\ Order[9] = "sends" /\ Order[10] = "done"
  BY DEF Order
<1>2. \A i \in 1..10 : i = 1 \/ i = 2 \/ i = 3 \/ i = 4 \/ i = 5 \/ i = 6 \/ i = 7 \/ i = 8 \/ i = 9
                        \/ i = 10
  OBVIOUS
<1>3. \A i, j \in 1..10 : Order[i] = Order[j] => i = j
  BY <1>1, <1>2
<1>4. ASSUME NEW k \in 1..10 PROVE Rank(Order[k]) = k
  <2>1. Rank(Order[k]) \in 1..10 /\ Order[Rank(Order[k])] = Order[k]
    BY <1>1 DEF Rank
  <2> QED BY <1>3, <2>1
<1> QED BY <1>1, <1>4

LEMMA Points ==
  Range(Order) = {"none", "stored", "closed", "broadcast", "cancel", "fresher", "dispatchers",
                  "reader", "sends", "done"}
<1>1. /\ DOMAIN Order = 1..10
      /\ Order[1] = "none" /\ Order[2] = "stored" /\ Order[3] = "closed" /\ Order[4] = "broadcast"
      /\ Order[5] = "cancel" /\ Order[6] = "fresher" /\ Order[7] = "dispatchers"
      /\ Order[8] = "reader" /\ Order[9] = "sends" /\ Order[10] = "done"
  BY DEF Order
<1>2. \A i : i \in 1..10 <=> i = 1 \/ i = 2 \/ i = 3 \/ i = 4 \/ i = 5 \/ i = 6 \/ i = 7 \/ i = 8
                             \/ i = 9 \/ i = 10
  OBVIOUS
<1>3. ASSUME NEW x
      PROVE  x \in Range(Order) <=>
               x \in {"none", "stored", "closed", "broadcast", "cancel", "fresher", "dispatchers",
                     "reader", "sends", "done"}
  <2>1. x \in Range(Order) <=> \E i \in DOMAIN Order : x = Order[i]
    BY DEF Range
  <2>2. x \in Range(Order) <=> \E i : i \in 1..10 /\ x = Order[i]
    BY <1>1, <2>1
  <2> QED BY <1>1, <1>2, <2>2
<1> QED BY <1>3

(* A dispatcher is one of these at each of its steps.                              *)
Workers == [pc : {"range", "push", "panicked", "ended"}, event : Events \cup {NoEvent}, left : Nat]

LEMMA WorkerKinds ==
  /\ \A s \in {"range", "panicked", "ended"} :
       /\ Idle(s) \in Workers /\ Idle(s).event \notin Events
       /\ Idle(s).pc = s /\ Idle(s).pc # "push"
  /\ \A e \in Events, n \in Nat : /\ Pushing(e, n) \in Workers /\ Pushing(e, n).event = e
                                  /\ Pushing(e, n).pc = "push" /\ Pushing(e, n).left = n
  BY IdAssumption DEF Idle, Pushing, Workers

(* The loop of the queue when it holds no id.                                       *)
LEMMA LoopKinds ==
  \A s \in {"test", "parking", "parked", "timer", "ended"} :
    /\ Loop(s) \in [pc : {"test", "parking", "parked", "timer", "emit", "ended"}, id : Ids \cup {NoId}]
    /\ Loop(s).pc = s
  BY DEF Loop

(* The goroutines start with nothing in hand.                                       *)
LEMMA InitTypes == Init => ListOK /\ WorkersOK /\ FlagsOK
<1> SUFFICES ASSUME Init PROVE ListOK /\ WorkersOK /\ FlagsOK
  OBVIOUS
<1>1. list \in Seq(Ids) /\ IsInjective(list)
  BY ListAssumption DEF Init
<1>2. cur \in Range(list) \cup {NoId}
  <2>1. CASE list # <<>>
    <3>1. Head(list) = list[1] /\ 1 \in DOMAIN list
      BY <1>1, <2>1
    <3> QED BY <2>1, <3>1 DEF Init, Range
  <2> QED BY <2>1 DEF Init
<1>3. "none" \in Range(Order)
  BY Points
<1>4. WorkersOK
  <2>2. fresh \subseteq Events /\ events \in Seq(Events) /\ notify \in Seq(Events)
    BY DEF Init
  <2>3. core \in [pc : {"test", "parking", "parked", "timer", "emit", "ended"}, id : Ids \cup {NoId}]
    BY LoopKinds DEF Init
  <2>4. dispatcher \in [Dispatchers -> [pc : {"range", "push", "panicked", "ended"},
                                       event : Events \cup {NoEvent}, left : Nat]]
    BY WorkerKinds DEF Init, Workers
  <2>5. large \in [Events -> Nat] /\ outgoing \in [Events -> Nat] /\ handled \in [Events -> Nat]
    BY DEF Init
  <2>6. fate \in [Events -> {"none", "quiet", "small", "large", "lost"}]
    BY DEF Init
  <2>7. reader \in {"read", "acquire", "panicked", "ended"} \X (Events \cup {NoEvent})
    BY DEF Init
  <2>8. fresher = "select" /\ stop = "none" /\ commands = 0 /\ panics = 0
    BY DEF Init
  <2>9. reader[1] = "read" /\ reader[2] = NoEvent /\ NoEvent \notin Events
    BY IdAssumption DEF Init
  <2>10. \A d \in Dispatchers : dispatcher[d].pc = "range" /\ dispatcher[d].event \notin Events
    BY WorkerKinds DEF Init
  <2> QED BY <1>3, <2>2, <2>3, <2>4, <2>5, <2>6, <2>7, <2>8, <2>9, <2>10 DEF WorkersOK
<1>5. FlagsOK
  BY Zenon DEF Init, FlagsOK
<1> QED BY <1>1, <1>2, <1>4, <1>5 DEF ListOK

(* The step of a queue of ids keeps its list and its cursor.                       *)
LEMMA ListStep == ListOK /\ WorkersOK /\ [Next]_vars => ListOK'
<1> SUFFICES ASSUME ListOK, WorkersOK, [Next]_vars PROVE ListOK'
  OBVIOUS
<1>1. CASE UNCHANGED <<list, cur>>
  BY <1>1 DEF ListOK
<1>2. ASSUME NEW i \in Ids, Add(i) PROVE ListOK'
  <2>1. list' \in Seq(Ids) /\ IsInjective(list') /\ Range(list) \subseteq Range(list')
    BY <1>2, ListAppend DEF Add, ListOK
  <2>2. CASE Len(list') = 1
    <3>1. i \in Range(list')
      <4>1. CASE i \in Range(list)
        BY <2>1, <4>1
      <4>2. CASE i \notin Range(list)
        BY <1>2, <4>2, ListAppend DEF Add, ListOK
      <4> QED BY <4>1, <4>2
    <3> QED BY <1>2, <2>1, <2>2, <3>1 DEF Add, ListOK
  <2>3. CASE Len(list') # 1
    BY <1>2, <2>1, <2>3 DEF Add, ListOK
  <2> QED BY <2>2, <2>3
<1>3. ASSUME NEW i \in Ids, Delete(i) PROVE ListOK'
  <2>1. i \in Range(list) /\ Place(i) \in DOMAIN list /\ list[Place(i)] = i
    BY <1>3, PlaceHolds DEF Delete
  <2>2. /\ list' \in Seq(Ids) /\ IsInjective(list')
        /\ Range(list') = Range(list) \ {i}
    BY <1>3, <2>1, ListRemove DEF Delete, ListOK
  <2>3. After(i) = NoId \/ After(i) \in Range(list) \ {i}
    BY <2>1, ListAfter DEF ListOK
  <2> QED BY <1>3, <2>2, <2>3 DEF Delete, ListOK
<1>4. CASE Take
  <2>1. CASE list = <<>>
    BY <1>4, <2>1 DEF Take, ListOK
  <2>2. CASE list # <<>>
    <3>1. Head(list) \in Range(list)
      <4>1. Head(list) = list[1] /\ 1 \in DOMAIN list
        BY <2>2 DEF ListOK
      <4> QED BY <4>1 DEF Range
    <3>2. PICK i \in Range(list) : cur' = After(i)
      BY <1>4, <2>2, <3>1 DEF Take, ListOK
    <3>3. After(i) = NoId \/ After(i) \in Range(list) \ {i}
      BY ListAfter DEF ListOK
    <3> QED BY <1>4, <3>2, <3>3 DEF Take, ListOK
  <2> QED BY <2>1, <2>2
<1>5. CASE CoreTest \/ CorePark \/ Emit \/ CoreEnds
  BY <1>1, <1>5 DEF CoreTest, CorePark, Emit, CoreEnds
<1>6. CASE Fresh
  BY <1>1, <1>6 DEF Fresh, Refresh, SendEvent, FreshAgain, FreshEnds, polling
<1>7. CASE Reader
  BY <1>1, <1>7 DEF Reader, Read, Acquire, ReadAgain, ReadEnds, polling
<1>8. CASE StoreStopped \/ Stopping
  BY <1>1, <1>8 DEF StoreStopped, Stopping, CloseStop, Broadcast, CloseEmit, Cancel, CloseEvents,
                  CloseNotify, AwaitReader, AwaitSends, Only
<1>9. ASSUME NEW d \in Dispatchers, Worker(d) PROVE ListOK'
  BY <1>1, <1>9 DEF Worker, Dispatch, Push, DispatchAgain, DispatchEnds, polling
<1>10. ASSUME NEW e \in Events, PushLarge(e) \/ Sent(e) PROVE ListOK'
  BY <1>1, <1>10 DEF PushLarge, Sent, polling
<1>11. CASE UNCHANGED vars
  BY <1>1, <1>11 DEF vars, polling
<1> QED BY <1>2, <1>3, <1>4, <1>5, <1>6, <1>7, <1>8, <1>9, <1>10, <1>11 DEF Next, Core

(* The sequence of events or of notifications that is left when its head is taken. *)
LEMMA TakeHead ==
  ASSUME NEW S, NEW s \in Seq(S), s # <<>>
  PROVE  Head(s) \in S /\ Tail(s) \in Seq(S)
  OBVIOUS

LEMMA AddLast ==
  ASSUME NEW S, NEW s \in Seq(S), NEW x \in S
  PROVE  Append(s, x) \in Seq(S)
  OBVIOUS

(* A step changes one dispatcher.                                                  *)
LEMMA OneWorker ==
  ASSUME WorkersOK, NEW d \in Dispatchers, NEW w \in Workers,
         w.event \in Events <=> w.pc = "push"
  PROVE  LET new == [dispatcher EXCEPT ![d] = w]
         IN  /\ new \in [Dispatchers -> Workers]
             /\ \A x \in Dispatchers : new[x].event \in Events <=> new[x].pc = "push"
  BY DEF WorkersOK, Workers

(* What a step of a dispatcher makes of it.                                        *)
LEMMA WorkerStates ==
  ASSUME WorkersOK, NEW d \in Dispatchers, Worker(d)
  PROVE  /\ dispatcher' \in [Dispatchers -> Workers]
         /\ \A x \in Dispatchers : dispatcher'[x].event \in Events <=> dispatcher'[x].pc = "push"
<1> DEFINE was == dispatcher[d]
<1>1. was \in Workers /\ (was.event \in Events <=> was.pc = "push") /\ was.left \in Nat
  BY DEF WorkersOK, Workers
<1>2. dispatcher' = dispatcher \/ \E w \in Workers :
        /\ w.event \in Events <=> w.pc = "push"
        /\ dispatcher' = [dispatcher EXCEPT ![d] = w]
  <2>1. CASE Dispatch(d)
    <3>1. Head(events) \in Events /\ Groups \in Nat
      BY <2>1, TakeHead, CapacityAssumption DEF Dispatch, WorkersOK
    <3>2. dispatcher' \in {dispatcher, [dispatcher EXCEPT ![d] = Pushing(Head(events), Groups)],
                          [dispatcher EXCEPT ![d] = Idle("panicked")]}
      BY <2>1 DEF Dispatch
    <3> QED BY <3>1, <3>2, WorkerKinds
  <2>2. CASE Push(d)
    <3>1. was.event \in Events /\ (was.left > 1 => was.left - 1 \in Nat)
      BY <1>1, <2>2 DEF Push
    <3>2. dispatcher' \in {[dispatcher EXCEPT ![d] = IF was.left > 1 THEN Pushing(was.event, was.left - 1)
                                                                  ELSE Idle("range")],
                          [dispatcher EXCEPT ![d] = Idle("panicked")]}
      BY <2>2 DEF Push
    <3> QED BY <3>1, <3>2, WorkerKinds
  <2>3. CASE DispatchAgain(d) \/ DispatchEnds(d)
    <3>1. dispatcher' \in {[dispatcher EXCEPT ![d] = Idle("range")], [dispatcher EXCEPT ![d] = Idle("ended")]}
      BY <2>3 DEF DispatchAgain, DispatchEnds
    <3> QED BY <3>1, WorkerKinds
  <2> QED BY <2>1, <2>2, <2>3 DEF Worker
<1>3. CASE dispatcher' = dispatcher
  BY <1>3 DEF WorkersOK, Workers
<1> QED BY <1>2, <1>3, OneWorker

(* The step of a goroutine leads to states of the same kind.                       *)
LEMMA WorkersStep == ListOK /\ WorkersOK /\ [Next]_vars => WorkersOK'
<1> SUFFICES ASSUME ListOK, WorkersOK, [Next]_vars PROVE WorkersOK'
  OBVIOUS
<1> USE DEF polling, finding, pushing, sending, history, bounds
<1>1. ASSUME NEW i \in Ids, Add(i) \/ Delete(i) PROVE WorkersOK'
  BY <1>1, LoopKinds DEF WorkersOK, Add, Delete, OneMore
<1>2. CASE Core
  <2>1. CASE CoreTest
    BY <2>1, LoopKinds DEF WorkersOK, CoreTest
  <2>2. CASE CorePark
    BY <2>2, LoopKinds DEF WorkersOK, CorePark
  <2>3. CASE Take
    <3>1. list # <<>> => Head(list) \in Ids
      BY TakeHead DEF WorkersOK, ListOK
    <3>2. cur \in Ids \cup {NoId}
      BY DEF WorkersOK, ListOK, Range
    <3>3. core' \in [pc : {"test", "parking", "parked", "timer", "emit", "ended"}, id : Ids \cup {NoId}]
      <4>1. CASE list = <<>>
        BY <2>3, <4>1, LoopKinds DEF WorkersOK, Take
      <4>2. CASE list # <<>>
        <5>1. PICK i \in Ids : core' = [pc |-> "emit", id |-> i]
          BY <2>3, <3>1, <3>2, <4>2 DEF WorkersOK, Take
        <5> QED BY <5>1
      <4> QED BY <4>1, <4>2
    <3> QED BY <2>3, <3>3 DEF WorkersOK, Take
  <2>4. CASE Emit
    BY <2>4, LoopKinds DEF WorkersOK, Emit
  <2>5. CASE CoreEnds
    BY <2>5, LoopKinds DEF WorkersOK, CoreEnds
  <2> QED BY <1>2, <2>1, <2>2, <2>3, <2>4, <2>5 DEF Core
<1>3. CASE Fresh
  <2>1. CASE Refresh
    BY <2>1 DEF WorkersOK, Refresh, Panic
  <2>2. CASE SendEvent
    BY <2>2 DEF WorkersOK, SendEvent
  <2>3. CASE FreshAgain
    BY <2>3 DEF WorkersOK, FreshAgain
  <2>4. CASE FreshEnds
    BY <2>4 DEF WorkersOK, FreshEnds
  <2> QED BY <1>3, <2>1, <2>2, <2>3, <2>4 DEF Fresh
<1>4. CASE Reader
  <2>1. CASE Read
    <3>1. Head(notify) \in Events /\ Tail(notify) \in Seq(Events)
      BY <2>1, TakeHead DEF WorkersOK, Read
    <3>2. /\ reader' \in {"read", "acquire", "panicked", "ended"} \X (Events \cup {NoEvent})
          /\ reader'[2] \in Events <=> reader'[1] = "acquire"
      BY <2>1, <3>1, IdAssumption DEF WorkersOK, Read
    <3>3. handled' \in [Events -> Nat]
      BY <2>1, <3>1 DEF WorkersOK, Read, Done
    <3>4. panics' \in Nat
      BY <2>1 DEF WorkersOK, Read, Panic
    <3> QED BY <2>1, <3>1, <3>2, <3>3, <3>4 DEF WorkersOK, Read
  <2>2. CASE Acquire
    <3>1. PICK e \in Events : e = reader[2]
      BY <2>2 DEF WorkersOK, Acquire
    <3>2. outgoing' \in [Events -> Nat]
      <4>1. outgoing' \in {outgoing, [outgoing EXCEPT ![e] = outgoing[e] + 1]}
        BY <2>2, <3>1 DEF Acquire
      <4>2. outgoing \in [Events -> Nat]
        BY DEF WorkersOK
      <4> QED BY <3>1, <4>1, <4>2
    <3>3. handled' \in [Events -> Nat]
      <4>1. handled' \in {handled, [handled EXCEPT ![e] = handled[e] + 1]}
        BY <2>2, <3>1 DEF WorkersOK, Acquire, Done
      <4> QED BY <3>1, <4>1 DEF WorkersOK
    <3>4. reader' = <<"read", NoEvent>> /\ NoEvent \notin Events
      BY <2>2, IdAssumption DEF WorkersOK, Acquire
    <3> QED BY <2>2, <3>2, <3>3, <3>4 DEF WorkersOK, Acquire
  <2>3. CASE ReadAgain
    BY <2>3 DEF WorkersOK, ReadAgain
  <2>4. CASE ReadEnds
    BY <2>4 DEF WorkersOK, ReadEnds
  <2> QED BY <1>4, <2>1, <2>2, <2>3, <2>4 DEF Reader
<1>5. CASE StoreStopped \/ Stopping
  <2> DEFINE Forward == \/ Advance("none", "stored") \/ Advance("stored", "closed")
                        \/ Advance("closed", "broadcast") \/ Advance("broadcast", "cancel")
                        \/ Advance("cancel", "fresher") \/ Advance("fresher", "dispatchers")
                        \/ Advance("dispatchers", "reader") \/ Advance("reader", "sends")
                        \/ Advance("sends", "done")
  <2>1. Only /\ Forward
    BY <1>5, LoopKinds DEF WorkersOK, StoreStopped, Stopping, CloseStop, Broadcast, CloseEmit, Cancel, CloseEvents,
                CloseNotify, AwaitReader, AwaitSends
  <2>2. stop' \in Range(Order)'
    <3>1. stop' \in Range(Order)
      BY <2>1, Points DEF WorkersOK, Advance
    <3> QED BY <3>1 DEF WorkersOK, Order
  <2>3. core' \in [pc : {"test", "parking", "parked", "timer", "emit", "ended"}, id : Ids \cup {NoId}]
    BY <1>5, LoopKinds DEF WorkersOK, StoreStopped, Stopping, CloseStop, Broadcast, CloseEmit, Cancel, CloseEvents,
                CloseNotify, AwaitReader, AwaitSends
  <2> QED BY <2>1, <2>2, <2>3 DEF WorkersOK, Only
<1>6. ASSUME NEW d \in Dispatchers, Worker(d) PROVE WorkersOK'
  <2>1. /\ dispatcher' \in [Dispatchers -> Workers]
        /\ \A x \in Dispatchers : dispatcher'[x].event \in Events <=> dispatcher'[x].pc = "push"
    BY <1>6, WorkerStates
  <2>2. events' \in Seq(Events)
    <3>1. events' = events \/ (events # <<>> /\ events' = Tail(events))
      <4>1. CASE Dispatch(d)
        BY <4>1 DEF Dispatch
      <4>2. CASE Push(d) \/ DispatchAgain(d) \/ DispatchEnds(d)
        BY <4>2 DEF Push, DispatchAgain, DispatchEnds
      <4> QED BY <1>6, <4>1, <4>2 DEF Worker
    <3>2. events \in Seq(Events)
      BY DEF WorkersOK
    <3> QED BY <3>1, <3>2, TakeHead
  <2>3. large' \in [Events -> Nat]
    <3>1. large' = large \/ large' = [large EXCEPT ![Head(events)] = Groups]
      BY <1>6 DEF WorkersOK, Worker, Dispatch, Push, DispatchAgain, DispatchEnds
    <3>2. large \in [Events -> Nat] /\ Groups \in Nat
      BY CapacityAssumption DEF WorkersOK
    <3> QED BY <3>1, <3>2
  <2>4. notify' \in Seq(Events)
    <3>1. notify' = notify \/ (dispatcher[d].pc = "push" /\ notify' = Append(notify, dispatcher[d].event))
      <4>1. CASE Push(d)
        BY <4>1 DEF Push
      <4>2. CASE Dispatch(d) \/ DispatchAgain(d) \/ DispatchEnds(d)
        BY <4>2 DEF Dispatch, DispatchAgain, DispatchEnds
      <4> QED BY <1>6, <4>1, <4>2 DEF Worker
    <3>2. (dispatcher[d].pc = "push" => dispatcher[d].event \in Events) /\ notify \in Seq(Events)
      BY <1>6 DEF WorkersOK
    <3> QED BY <1>6, <3>1, <3>2, AddLast
  <2>5. fate' \in [Events -> {"none", "quiet", "small", "large", "lost"}]
    BY <1>6 DEF WorkersOK, Worker, Dispatch, Push, DispatchAgain, DispatchEnds
  <2>6. panics' \in Nat
    BY <1>6 DEF WorkersOK, Worker, Dispatch, Push, DispatchAgain, DispatchEnds, Panic
  <2>7. UNCHANGED <<core, stop, fresher, fresh, sending, commands>>
    BY <1>6 DEF WorkersOK, Worker, Dispatch, Push, DispatchAgain, DispatchEnds
  <2> QED BY <2>1, <2>2, <2>3, <2>4, <2>5, <2>6, <2>7 DEF WorkersOK, Workers
<1>7. ASSUME NEW e \in Events, PushLarge(e) PROVE WorkersOK'
  <2>1. large' \in [Events -> Nat]
    BY <1>7 DEF WorkersOK, PushLarge
  <2>2. notify' \in Seq(Events)
    <3>1. notify' = notify \/ notify' = Append(notify, e)
      BY <1>7 DEF WorkersOK, PushLarge
    <3>2. notify \in Seq(Events)
      BY DEF WorkersOK
    <3> QED BY <1>7, <3>1, <3>2, AddLast
  <2>3. UNCHANGED <<core, stop, fresher, fresh, events, dispatcher, sending, fate, commands, panics>>
    BY <1>7 DEF WorkersOK, PushLarge
  <2> QED BY <2>1, <2>2, <2>3 DEF WorkersOK
<1>8. ASSUME NEW e \in Events, Sent(e) PROVE WorkersOK'
  BY <1>8 DEF WorkersOK, Sent, Done
<1>9. CASE UNCHANGED vars
  BY <1>9 DEF WorkersOK, vars
<1> QED BY <1>1, <1>2, <1>3, <1>4, <1>5, <1>6, <1>7, <1>8, <1>9 DEF Next

LEMMA FlagsStep == FlagsOK /\ [Next]_vars => FlagsOK'
<1> SUFFICES ASSUME FlagsOK, [Next]_vars PROVE FlagsOK'
  OBVIOUS
<1>1. missed' = missed \/ missed' = (core.pc = "parking")
  BY DEF Next, Core, CoreTest, CorePark, Take, Emit, CoreEnds, Fresh, Refresh, SendEvent, FreshAgain,
     FreshEnds, Reader, Read, Acquire, ReadAgain, ReadEnds, StoreStopped, Stopping, CloseStop, Broadcast,
     CloseEmit, Cancel, CloseEvents, CloseNotify, AwaitReader, AwaitSends, Worker, Dispatch, Push,
     DispatchAgain, DispatchEnds, PushLarge, Sent, Add, Delete, vars, history
<1>2. crashed' = crashed \/ crashed' = TRUE
  BY DEF Next, Core, CoreTest, CorePark, Take, Emit, CoreEnds, Fresh, Refresh, SendEvent, FreshAgain,
     FreshEnds, Reader, Read, Acquire, ReadAgain, ReadEnds, StoreStopped, Stopping, CloseStop, Broadcast,
     CloseEmit, Cancel, CloseEvents, CloseNotify, AwaitReader, AwaitSends, Worker, Dispatch, Push,
     DispatchAgain, DispatchEnds, PushLarge, Sent, Add, Delete, vars, bounds, Only
<1> QED BY <1>1, <1>2, Zenon DEF FlagsOK

Typed == ListOK /\ WorkersOK /\ FlagsOK

(* The variables stay in their types.                                              *)
THEOREM TypeCorrect == Spec => []TypeOK
<1>1. Init => Typed
  BY InitTypes DEF Typed
<1>2. Typed /\ [Next]_vars => Typed'
  BY ListStep, WorkersStep, FlagsStep DEF Typed
<1>3. Typed => TypeOK
  BY TypeParts DEF Typed
<1> QED BY <1>1, <1>2, <1>3, PTL DEF Spec

--------------------------------------------------------------------------------
(* The order of Stop. *)

(* How far the goroutines are when Stop has closed their channels, and what an     *)
(* ended one has left behind.                                                      *)
Phases ==
  /\ EmitClosed => core.pc = "ended"
  /\ EventsClosed => fresher \notin {"fresh", "send"}
  /\ \A d \in Dispatchers : dispatcher[d].pc = "ended" => EventsClosed /\ events = <<>>
  /\ panics = 0 /\ ~NotifyClosed => \A d \in Dispatchers : dispatcher[d].pc # "panicked"
  /\ panics = 0 /\ NotifyClosed => \A d \in Dispatchers : dispatcher[d].pc = "ended"

LEMMA InitPhases == Init => Phases
<1> SUFFICES ASSUME Init PROVE Phases
  OBVIOUS
<1>1. stop = "none" /\ ~EmitClosed /\ ~EventsClosed /\ ~NotifyClosed
  BY Ranks DEF Init, EmitClosed, EventsClosed, NotifyClosed, Reached
<1>2. \A d \in Dispatchers : dispatcher[d].pc = "range"
  BY WorkerKinds DEF Init
<1> QED BY <1>1, <1>2 DEF Phases

(* Stop goes on from one point to the next.                                        *)
LEMMA Closing ==
  ASSUME StoreStopped \/ Stopping
  PROVE  /\ EmitClosed' => EmitClosed \/ CloseEmit
         /\ EventsClosed' => EventsClosed \/ CloseEvents
         /\ NotifyClosed' => NotifyClosed \/ CloseNotify
         /\ EmitClosed => EmitClosed'
         /\ EventsClosed => EventsClosed'
         /\ NotifyClosed => NotifyClosed'
<1> USE Ranks DEF EmitClosed, EventsClosed, NotifyClosed, Reached, Advance
<1>1. CASE StoreStopped
  BY <1>1 DEF StoreStopped
<1>2. CASE CloseStop
  BY <1>2 DEF CloseStop
<1>3. CASE Broadcast
  BY <1>3 DEF Broadcast
<1>4. CASE CloseEmit
  BY <1>4 DEF CloseEmit
<1>5. CASE Cancel
  BY <1>5 DEF Cancel
<1>6. CASE CloseEvents
  BY <1>6 DEF CloseEvents
<1>7. CASE CloseNotify
  BY <1>7 DEF CloseNotify
<1>8. CASE AwaitReader
  BY <1>8 DEF AwaitReader
<1>9. CASE AwaitSends
  BY <1>9 DEF AwaitSends
<1> QED BY <1>1, <1>2, <1>3, <1>4, <1>5, <1>6, <1>7, <1>8, <1>9 DEF Stopping

LEMMA FixedFlags ==
  ASSUME UNCHANGED stop
  PROVE  (EmitClosed' <=> EmitClosed) /\ (EventsClosed' <=> EventsClosed) /\ (NotifyClosed' <=> NotifyClosed)
  BY DEF EmitClosed, EventsClosed, NotifyClosed, Reached, Rank, Order

(* The flags are set in this order.                                                *)
LEMMA FlagOrder == WorkersOK => (NotifyClosed => EventsClosed) /\ (EventsClosed => EmitClosed)
<1> SUFFICES ASSUME WorkersOK
             PROVE  (NotifyClosed => EventsClosed) /\ (EventsClosed => EmitClosed)
  OBVIOUS
<1>1. stop \in {"none", "stored", "closed", "broadcast", "cancel", "fresher", "dispatchers", "reader",
               "sends", "done"}
  BY Points, Zenon DEF WorkersOK
<1>2. Rank(stop) \in 1..10
  BY <1>1, Ranks
<1> QED BY <1>2, Ranks DEF EmitClosed, EventsClosed, NotifyClosed, Reached

(* A dispatcher goes from state to state; only an empty closed channel ends it, and *)
(* without a panic of its own only a closed notifyChan lets it fall.               *)
LEMMA WorkerEnds ==
  ASSUME WorkersOK, NEW d \in Dispatchers, Worker(d)
  PROVE  /\ \A x \in Dispatchers : x # d => dispatcher'[x] = dispatcher[x]
         /\ dispatcher[d].pc # "ended"
         /\ dispatcher'[d].pc = "ended" => EventsClosed /\ events = <<>> /\ events' = <<>>
         /\ dispatcher'[d].pc = "panicked" => NotifyClosed \/ panics' = panics + 1
         /\ events = <<>> => events' = <<>>
         /\ panics' = panics \/ panics' = panics + 1
         /\ UNCHANGED <<core, fresher, stop>>
<1> USE WorkerKinds DEF polling, finding, sending, history, bounds
<1>1. DOMAIN dispatcher = Dispatchers
  BY DEF WorkersOK
<1>2. CASE Dispatch(d)
  <2>1. Head(events) \in Events /\ Groups \in Nat
    BY <1>2, TakeHead, CapacityAssumption DEF Dispatch, WorkersOK
  <2>2. \/ dispatcher' = dispatcher
        \/ dispatcher' = [dispatcher EXCEPT ![d] = Pushing(Head(events), Groups)]
        \/ dispatcher' = [dispatcher EXCEPT ![d] = Idle("panicked")] /\ panics' = panics + 1
    BY <1>2 DEF Dispatch, Panic
  <2>3. dispatcher[d].pc = "range" /\ events # <<>> /\ (panics' = panics \/ panics' = panics + 1)
    BY <1>2 DEF Dispatch, Ranges, Panic
  <2> QED BY <1>1, <1>2, <2>1, <2>2, <2>3 DEF Dispatch
<1>3. CASE Push(d)
  <2>1. dispatcher[d].pc = "push" /\ dispatcher[d].event \in Events /\ dispatcher[d].left \in Nat
    BY <1>3 DEF Push, WorkersOK
  <2>2. \/ dispatcher' = [dispatcher EXCEPT ![d] =
             IF dispatcher[d].left > 1 THEN Pushing(dispatcher[d].event, dispatcher[d].left - 1)
                                       ELSE Idle("range")]
        \/ dispatcher' = [dispatcher EXCEPT ![d] = Idle("panicked")] /\ NotifyClosed
    BY <1>3 DEF Push
  <2>3. dispatcher[d].left > 1 => dispatcher[d].left - 1 \in Nat
    BY <2>1
  <2>4. dispatcher'[d].pc # "ended" /\ (dispatcher'[d].pc = "panicked" => NotifyClosed)
    BY <1>1, <2>1, <2>2, <2>3
  <2> QED BY <1>1, <1>3, <2>1, <2>2, <2>4 DEF Push
<1>4. CASE DispatchAgain(d)
  BY <1>1, <1>4 DEF DispatchAgain
<1>5. CASE DispatchEnds(d)
  BY <1>1, <1>5 DEF DispatchEnds, Ranges
<1> QED BY <1>2, <1>3, <1>4, <1>5 DEF Worker

LEMMA PhasesStep == WorkersOK /\ Phases /\ [Next]_vars => Phases'
<1> SUFFICES ASSUME WorkersOK, Phases, [Next]_vars PROVE Phases'
  OBVIOUS
<1>t. panics \in Nat /\ (NotifyClosed => EventsClosed) /\ (EventsClosed => EmitClosed)
  BY FlagOrder DEF WorkersOK
<1>1. ASSUME UNCHANGED <<core, stop, fresher, events, dispatcher>>, panics' = panics \/ panics' = panics + 1
      PROVE  Phases'
  BY <1>t, <1>1, FixedFlags DEF Phases
<1>2. ASSUME NEW i \in Ids, Add(i) \/ Delete(i) PROVE Phases'
  <2>1. UNCHANGED <<stop, fresher, events, dispatcher, panics>> /\ (core' = core \/ core.pc = "parked")
    BY <1>2 DEF Add, Delete, finding, pushing
  <2> QED BY <2>1, FixedFlags DEF Phases
<1>3. CASE Core
  <2>1. UNCHANGED <<stop, events, dispatcher, panics>> /\ core.pc # "ended"
    BY <1>3 DEF Core, CoreTest, CorePark, Take, Emit, CoreEnds, finding, pushing, bounds
  <2>2. ~EmitClosed
    BY <2>1 DEF Phases
  <2> QED BY <1>t, <2>1, <2>2, FixedFlags DEF Phases
<1>4. CASE Fresh
  <2>1. CASE SendEvent
    <3>1. ~EventsClosed /\ UNCHANGED <<core, stop, dispatcher, panics>>
      BY <2>1 DEF SendEvent, polling, pushing, bounds
    <3> QED BY <1>t, <3>1, FixedFlags DEF Phases
  <2>2. CASE Refresh
    <3>1. /\ fresher = "fresh" /\ UNCHANGED <<core, stop, events, dispatcher>>
          /\ panics' = panics \/ panics' = panics + 1
      BY <2>2 DEF Refresh, Panic, polling, pushing
    <3> QED BY <1>t, <3>1, FixedFlags DEF Phases
  <2>3. CASE FreshAgain \/ FreshEnds
    <3>1. fresher' \in {"select", "ended"} /\ UNCHANGED <<core, stop, events, dispatcher, panics>>
      BY <2>3 DEF FreshAgain, FreshEnds, polling, pushing, bounds
    <3> QED BY <3>1, FixedFlags DEF Phases
  <2> QED BY <1>4, <2>1, <2>2, <2>3 DEF Fresh
<1>5. CASE Reader
  <2>1. UNCHANGED <<core, stop, fresher, events, dispatcher>> /\ (panics' = panics \/ panics' = panics + 1)
    BY <1>5 DEF Reader, Read, Acquire, ReadAgain, ReadEnds, Panic, polling, finding, pushing, bounds
  <2> QED BY <1>1, <2>1
<1>6. CASE StoreStopped \/ Stopping
  <2>1. UNCHANGED <<fresher, events, dispatcher, panics>> /\ (core' = core \/ core.pc = "parked")
    BY <1>6 DEF StoreStopped, Stopping, CloseStop, Broadcast, CloseEmit, Cancel, CloseEvents,
                CloseNotify, AwaitReader, AwaitSends, Only, finding, pushing, bounds
  <2>2. CloseEmit => core.pc = "ended"
    BY DEF CloseEmit
  <2>3. CloseEvents => fresher \in Off
    BY DEF CloseEvents
  <2>4. CloseNotify => \A d \in Dispatchers : dispatcher[d].pc \in Off
    BY DEF CloseNotify
  <2>5. EmitClosed' => core'.pc = "ended"
    BY <1>6, <2>1, <2>2, Closing DEF Phases
  <2>6. EventsClosed' => fresher' \notin {"fresh", "send"}
    BY <1>6, <2>1, <2>3, Closing DEF Phases, Off
  <2>7. panics = 0 /\ NotifyClosed' => \A d \in Dispatchers : dispatcher[d].pc = "ended"
    BY <1>6, <2>4, Closing DEF Phases, Off
  <2> QED BY <1>6, <2>1, <2>5, <2>6, <2>7, Closing DEF Phases
<1>7. ASSUME NEW d \in Dispatchers, Worker(d) PROVE Phases'
  <2>1. ~(panics = 0 /\ NotifyClosed)
    BY <1>7, WorkerEnds DEF Phases
  <2>2. panics' = 0 => panics = 0
    BY <1>t, <1>7, WorkerEnds
  <2> QED BY <1>t, <1>7, <2>1, <2>2, WorkerEnds, FixedFlags DEF Phases
<1>8. ASSUME NEW e \in Events, PushLarge(e) \/ Sent(e) PROVE Phases'
  <2>1. UNCHANGED <<core, stop, fresher, events, dispatcher, panics>>
    BY <1>8 DEF PushLarge, Sent, polling, finding, pushing, bounds
  <2> QED BY <1>1, <2>1
<1>9. CASE UNCHANGED vars
  BY <1>1, <1>9 DEF vars, polling, finding, pushing, bounds
<1> QED BY <1>2, <1>3, <1>4, <1>5, <1>6, <1>7, <1>8, <1>9 DEF Next

(* The channels that Stop closes are not written to afterwards, but for the         *)
(* goroutine of a large event: fresher and dispatchers have ended, with nothing    *)
(* left in eventChan, unless one of them has just panicked.                        *)
THEOREM StopLeavesQuiet == Spec => []NothingAfterClose
<1>1. Init => Typed /\ Phases
  BY InitTypes, InitPhases DEF Typed
<1>2. Typed /\ Phases /\ [Next]_vars => (Typed /\ Phases)'
  BY ListStep, WorkersStep, FlagsStep, PhasesStep DEF Typed
<1>3. Typed /\ Phases => NothingAfterClose
  <2> SUFFICES ASSUME Phases PROVE NoSendOnClosed /\ ClosedAndQuiet
    BY DEF NothingAfterClose
  <2>1. NoSendOnClosed
    BY DEF Phases, NoSendOnClosed
  <2>2. ClosedAndQuiet
    <3> SUFFICES ASSUME NotifyClosed, panics = 0
                 PROVE  events = <<>> /\ \A d \in Dispatchers : dispatcher[d].pc = "ended"
      BY DEF ClosedAndQuiet
    <3>1. \A d \in Dispatchers : dispatcher[d].pc = "ended"
      BY DEF Phases
    <3>2. PICK d \in Dispatchers : TRUE
      BY ActorAssumption
    <3> QED BY <3>1, <3>2 DEF Phases
  <2> QED BY <2>1, <2>2
<1> QED BY <1>1, <1>2, <1>3, PTL DEF Spec

--------------------------------------------------------------------------------
(* How often an event occurs in a queue. *)

Places(s, e) == {i \in DOMAIN s : s[i] = e}
Copies(s, e) == Cardinality(Places(s, e))

LEMMA FewPlaces ==
  ASSUME NEW S, NEW s \in Seq(S), NEW e
  PROVE  IsFiniteSet(Places(s, e)) /\ Copies(s, e) \in Nat
<1>1. Places(s, e) \subseteq 1..Len(s) /\ Len(s) \in Nat
  BY DEF Places
<1>2. IsFiniteSet(1..Len(s))
  BY <1>1, FS_Interval
<1>3. IsFiniteSet(Places(s, e))
  BY <1>1, <1>2, FS_Subset
<1> QED BY <1>3, FS_CardinalityType DEF Copies

LEMMA CopiesEmpty == \A e : Copies(<<>>, e) = 0
<1>1. \A e : Places(<<>>, e) = {}
  BY DEF Places
<1> QED BY <1>1, FS_EmptySet DEF Copies

LEMMA CopiesAppend ==
  ASSUME NEW S, NEW s \in Seq(S), NEW x \in S, NEW e
  PROVE  Copies(Append(s, x), e) = IF x = e THEN Copies(s, e) + 1 ELSE Copies(s, e)
<1> DEFINE t == Append(s, x)
<1>1. /\ Len(s) \in Nat /\ DOMAIN s = 1..Len(s) /\ DOMAIN t = 1..Len(s) + 1
      /\ \A j \in DOMAIN s : t[j] = s[j]
      /\ t[Len(s) + 1] = x
  OBVIOUS
<1> HIDE DEF t
<1>2. \A j : j \in DOMAIN t <=> j \in DOMAIN s \/ j = Len(s) + 1
  BY <1>1
<1>3. Len(s) + 1 \notin Places(s, e) /\ IsFiniteSet(Places(s, e))
  <2>1. Len(s) + 1 \notin Places(s, e)
    BY <1>1 DEF Places
  <2> QED BY <2>1, FewPlaces
<1>4. CASE x = e
  <2>1. Places(t, e) = Places(s, e) \cup {Len(s) + 1}
    BY <1>1, <1>2, <1>4 DEF Places
  <2> QED BY <1>3, <1>4, <2>1, FS_AddElement DEF Copies, t
<1>5. CASE x # e
  <2>1. Places(t, e) = Places(s, e)
    BY <1>1, <1>2, <1>5 DEF Places
  <2> QED BY <1>5, <2>1 DEF Copies, t
<1> QED BY <1>4, <1>5

LEMMA CopiesTail ==
  ASSUME NEW S, NEW s \in Seq(S), s # <<>>, NEW e
  PROVE  Copies(s, e) = IF Head(s) = e THEN Copies(Tail(s), e) + 1 ELSE Copies(Tail(s), e)
<1> DEFINE t == Tail(s)  P == Places(s, e)  Q == Places(t, e)
<1>1. /\ t \in Seq(S) /\ Len(s) \in Nat /\ DOMAIN s = 1..Len(s) /\ DOMAIN t = 1..(Len(s) - 1)
      /\ Head(s) = s[1] /\ 1 \in DOMAIN s
      /\ \A i \in DOMAIN t : t[i] = s[i + 1]
  OBVIOUS
<1> HIDE DEF t
<1>2. IsFiniteSet(P) /\ Cardinality(P) \in Nat /\ IsFiniteSet(Q) /\ Cardinality(Q) \in Nat
  BY <1>1, FewPlaces DEF Copies
<1>3. Cardinality(P \ {1}) = Cardinality(Q)
  <2> DEFINE f == [i \in Q |-> i + 1]
  <2>1. \A i \in Q : f[i] \in P \ {1}
    BY <1>1 DEF Places
  <2>2. \A i, j \in Q : f[i] = f[j] => i = j
    BY <1>1 DEF Places
  <2>3. \A k \in P \ {1} : k - 1 \in Q /\ f[k - 1] = k
    BY <1>1 DEF Places
  <2>4. f \in Bijection(Q, P \ {1})
    <3>1. f \in [Q -> P \ {1}]
      BY <2>1
    <3> HIDE DEF f
    <3> QED BY <2>2, <2>3, <3>1 DEF Bijection, Injection, Surjection, IsInjective
  <2>5. ExistsBijection(Q, P \ {1})
    BY <2>4 DEF ExistsBijection
  <2> QED BY <1>2, <2>5, FS_Bijection
<1>4. CASE Head(s) = e
  <2>1. 1 \in P
    BY <1>1, <1>4 DEF Places
  <2>2. Cardinality(P \ {1}) = Cardinality(P) - 1
    BY <1>2, <2>1, FS_RemoveElement
  <2> QED BY <1>2, <1>3, <1>4, <2>2 DEF Copies, t
<1>5. CASE Head(s) # e
  <2>1. P \ {1} = P
    BY <1>1, <1>5 DEF Places
  <2> QED BY <1>3, <1>5, <2>1 DEF Copies, t
<1> QED BY <1>4, <1>5

--------------------------------------------------------------------------------
(* Every notification is in one place. *)

(* The notifications of an event that were written to notifyChan and not lost: in  *)
(* the channel, with the reader, being sent, handled.                              *)
InHand(e) == IF reader[1] = "acquire" /\ reader[2] = e THEN 1 ELSE 0
Written   == [e \in Events |-> Copies(notify, e) + InHand(e) + outgoing[e] + handled[e]]

(* An event is in one place too; what a dispatcher or the goroutine of a large      *)
(* event has yet to write makes up, with what is written, at most all of it, and   *)
(* for a small event exactly all of it unless something panicked.                  *)
Accounts ==
  /\ \A e \in fresh : e \notin Range(events) /\ fate[e] = "none"
  /\ \A e \in Range(events) : fate[e] = "none"
  /\ IsInjective(events)
  /\ \A e \in Events \ fresh : fate[e] = "none" => e \in Range(events)
  /\ \A e \in Events : fate[e] = "none" => Written[e] = 0 /\ large[e] = 0
  /\ \A e \in Events : Written[e] + large[e] <= Groups
  /\ \A d \in Dispatchers : dispatcher[d].pc = "push" =>
       LET e == dispatcher[d].event IN
       /\ fate[e] = "small" /\ dispatcher[d].left > 0
       /\ Written[e] + large[e] + dispatcher[d].left <= Groups
  /\ \A d, x \in Dispatchers :
       dispatcher[d].pc = "push" /\ dispatcher[x].pc = "push" /\ dispatcher[d].event = dispatcher[x].event
         => d = x
  /\ panics = 0 => \A e \in Events : fate[e] = "small" =>
       \/ Written[e] = Groups
       \/ \E d \in Dispatchers : dispatcher[d].pc = "push" /\ dispatcher[d].event = e
                                  /\ Written[e] + dispatcher[d].left = Groups

LEMMA WrittenIsNat == WorkersOK => \A e \in Events : Written[e] \in Nat
<1> SUFFICES ASSUME WorkersOK, NEW e \in Events PROVE Written[e] \in Nat
  OBVIOUS
<1>1. Copies(notify, e) \in Nat
  BY FewPlaces DEF WorkersOK
<1>2. InHand(e) \in Nat /\ outgoing[e] \in Nat /\ handled[e] \in Nat
  BY DEF InHand, WorkersOK
<1> QED BY <1>1, <1>2 DEF Written

LEMMA InitAccounts == Init => Accounts
<1> SUFFICES ASSUME Init PROVE Accounts
  OBVIOUS
<1>1. \A e \in Events : Written[e] = 0
  BY CopiesEmpty DEF Init, Written, InHand
<1>2. \A d \in Dispatchers : dispatcher[d].pc = "range"
  BY WorkerKinds DEF Init
<1>3. Range(events) = {} /\ IsInjective(events)
  BY DEF Init, Range, IsInjective
<1>4. \A e \in Events : fate[e] = "none" /\ large[e] = 0
  BY DEF Init
<1>5. fresh = Events /\ Groups \in Nat
  BY CapacityAssumption DEF Init
<1> QED BY <1>1, <1>2, <1>3, <1>4, <1>5 DEF Accounts

(* The reader and the goroutines that send move notifications on; only a panic of  *)
(* the reader loses one.                                                          *)
LEMMA ReaderMoves ==
  ASSUME WorkersOK, Reader \/ \E e \in Events : Sent(e)
  PROVE  \A e \in Events :
           \/ Written'[e] = Written[e]
           \/ Written'[e] <= Written[e] /\ panics' = panics + 1
<1>r. \A e \in Events : Copies(notify, e) \in Nat /\ outgoing[e] \in Nat /\ handled[e] \in Nat
  BY FewPlaces DEF WorkersOK
<1>f. outgoing \in [Events -> Nat] /\ handled \in [Events -> Nat]
  BY DEF WorkersOK
<1> SUFFICES ASSUME NEW e \in Events
             PROVE  \/ Written'[e] = Written[e]
                    \/ Written'[e] <= Written[e] /\ panics' = panics + 1
  OBVIOUS
<1>w. /\ Written[e] = Copies(notify, e) + InHand(e) + outgoing[e] + handled[e]
      /\ Written'[e] = Copies(notify', e) + InHand(e)' + outgoing'[e] + handled'[e]
  BY DEF Written, InHand
<1>1. CASE Read
  <2>1. notify \in Seq(Events) /\ notify # <<>> /\ notify' = Tail(notify) /\ UNCHANGED outgoing
    BY <1>1 DEF Read, WorkersOK
  <2>2. Copies(notify, e) = IF Head(notify) = e THEN Copies(notify', e) + 1 ELSE Copies(notify', e)
    BY <2>1, CopiesTail
  <2>3. InHand(e) = 0 /\ Copies(notify', e) \in Nat
    <3>1. notify' \in Seq(Events)
      BY <2>1
    <3> QED BY <1>1, <3>1, FewPlaces DEF Read, InHand
  <2>4. CASE Done(Head(notify)) /\ UNCHANGED reader
    <3>1. handled'[e] = IF Head(notify) = e THEN handled[e] + 1 ELSE handled[e]
      BY <1>f, <2>4 DEF Done
    <3>2. InHand(e)' = 0
      BY <2>3, <2>4 DEF InHand
    <3>3. Copies(notify', e) + handled'[e] = Copies(notify, e) + handled[e]
      BY <1>r, <2>2, <2>3, <3>1
    <3>4. /\ Written[e] = Copies(notify, e) + 0 + outgoing[e] + handled[e]
          /\ Written'[e] = Copies(notify', e) + 0 + outgoing[e] + handled'[e]
      BY <1>w, <2>1, <2>3, <3>2
    <3>5. handled'[e] \in Nat
      BY <1>r, <3>1
    <3> QED BY <1>r, <2>3, <3>3, <3>4, <3>5
  <2>5. CASE reader' = <<"acquire", Head(notify)>> /\ UNCHANGED handled
    <3>1. InHand(e)' = IF Head(notify) = e THEN 1 ELSE 0
      BY <2>5 DEF InHand
    <3> QED BY <1>r, <1>w, <2>1, <2>2, <2>3, <2>5, <3>1
  <2>6. CASE reader' = <<"panicked", NoEvent>> /\ UNCHANGED handled /\ panics' = panics + 1
    <3>1. InHand(e)' = 0
      BY <2>6 DEF InHand
    <3> QED BY <1>r, <1>w, <2>1, <2>2, <2>3, <2>6, <3>1
  <2> QED BY <1>1, <2>4, <2>5, <2>6 DEF Read, Panic
<1>2. CASE Acquire
  <2>1. reader[1] = "acquire" /\ reader' = <<"read", NoEvent>> /\ UNCHANGED notify
    BY <1>2 DEF Acquire, pushing
  <2>2. InHand(e)' = 0 /\ InHand(e) = IF reader[2] = e THEN 1 ELSE 0
    BY <2>1 DEF InHand
  <2>3. \/ /\ outgoing'[e] = IF reader[2] = e THEN outgoing[e] + 1 ELSE outgoing[e]
           /\ UNCHANGED handled
        \/ /\ handled'[e] = IF reader[2] = e THEN handled[e] + 1 ELSE handled[e]
           /\ UNCHANGED outgoing
    BY <1>2, <1>f DEF Acquire, Done
  <2> QED BY <1>r, <1>w, <2>1, <2>2, <2>3
<1>3. CASE ReadAgain \/ ReadEnds
  <2>1. UNCHANGED <<notify, outgoing, handled>> /\ InHand(e) = 0 /\ InHand(e)' = 0
    BY <1>3 DEF ReadAgain, ReadEnds, InHand, pushing
  <2> QED BY <1>w, <2>1
<1>4. ASSUME NEW s \in Events, Sent(s) PROVE Written'[e] = Written[e]
  <2>1. UNCHANGED <<notify, reader>> /\ InHand(e)' = InHand(e)
    BY <1>4 DEF Sent, InHand, pushing
  <2>2. outgoing[s] > 0
    BY <1>4 DEF Sent
  <2>3. /\ outgoing'[e] = IF s = e THEN outgoing[e] - 1 ELSE outgoing[e]
        /\ handled'[e] = IF s = e THEN handled[e] + 1 ELSE handled[e]
    BY <1>4, <1>f DEF Sent, Done
  <2>4. InHand(e) \in Nat
    BY DEF InHand
  <2>5. outgoing'[e] + handled'[e] = outgoing[e] + handled[e] /\ outgoing'[e] \in Nat /\ handled'[e] \in Nat
    BY <1>r, <1>4, <2>2, <2>3
  <2>6. /\ Written[e] = Copies(notify, e) + InHand(e) + outgoing[e] + handled[e]
        /\ Written'[e] = Copies(notify, e) + InHand(e) + outgoing'[e] + handled'[e]
    BY <1>w, <2>1
  <2> QED BY <1>r, <2>4, <2>5, <2>6
<1> QED BY <1>1, <1>2, <1>3, <1>4 DEF Reader

LEMMA WrittenStays == UNCHANGED <<notify, reader, outgoing, handled>> => Written' = Written
  BY DEF Written, InHand

(* Writing a notification.                                                        *)
LEMMA WrittenPushed ==
  ASSUME WorkersOK, NEW x \in Events, notify' = Append(notify, x), UNCHANGED <<reader, outgoing, handled>>
  PROVE  \A e \in Events : Written'[e] = IF e = x THEN Written[e] + 1 ELSE Written[e]
<1> SUFFICES ASSUME NEW e \in Events
             PROVE  Written'[e] = IF e = x THEN Written[e] + 1 ELSE Written[e]
  OBVIOUS
<1>1. Copies(notify', e) = IF x = e THEN Copies(notify, e) + 1 ELSE Copies(notify, e)
  BY CopiesAppend DEF WorkersOK
<1>2. Copies(notify, e) \in Nat /\ outgoing[e] \in Nat /\ handled[e] \in Nat
  BY FewPlaces DEF WorkersOK
<1>3. InHand(e) \in Nat
  BY DEF InHand
<1>4. /\ Written[e] = Copies(notify, e) + InHand(e) + outgoing[e] + handled[e]
      /\ Written'[e] = Copies(notify', e) + InHand(e) + outgoing[e] + handled[e]
  BY DEF Written, InHand
<1> QED BY <1>1, <1>2, <1>3, <1>4

(* Steps that move notifications on and touch nothing else.                        *)
LEMMA AccountsFrame ==
  ASSUME WorkersOK, WorkersOK', Accounts,
         UNCHANGED <<fresh, events, dispatcher, large, fate>>,
         panics' = panics \/ panics' = panics + 1,
         \A e \in Events :
           \/ Written'[e] = Written[e]
           \/ Written'[e] <= Written[e] /\ panics' = panics + 1
  PROVE  Accounts'
<1>1. panics \in Nat /\ Groups \in Nat
  BY CapacityAssumption DEF WorkersOK
<1>2. \A e \in Events : Written[e] \in Nat /\ Written'[e] \in Nat /\ Written'[e] <= Written[e]
  <2>1. \A e \in Events : Written'[e] \in Nat
    <3>1. (WorkersOK => \A e \in Events : Written[e] \in Nat)'
      BY WrittenIsNat, PTL
    <3> QED BY <3>1
  <2> QED BY <2>1, WrittenIsNat
<1>3. \A e \in Events : large[e] \in Nat
  BY DEF WorkersOK
<1>4. \A d \in Dispatchers :
        dispatcher[d].left \in Nat /\ (dispatcher[d].pc = "push" => dispatcher[d].event \in Events)
  BY DEF WorkersOK
<1>5. \A e \in Events : fate[e] = "none" => Written'[e] = 0 /\ large[e] = 0
  BY <1>2 DEF Accounts
<1>6. \A e \in Events : Written'[e] + large[e] <= Groups
  <2> SUFFICES ASSUME NEW e \in Events PROVE Written'[e] + large[e] <= Groups
    OBVIOUS
  <2>1. Written[e] + large[e] <= Groups
    BY DEF Accounts
  <2> QED BY <1>1, <1>2, <1>3, <2>1
<1>7. \A d \in Dispatchers : dispatcher[d].pc = "push" =>
        LET e == dispatcher[d].event IN
        /\ fate[e] = "small" /\ dispatcher[d].left > 0
        /\ Written'[e] + large[e] + dispatcher[d].left <= Groups
  <2> SUFFICES ASSUME NEW d \in Dispatchers, dispatcher[d].pc = "push"
               PROVE  LET e == dispatcher[d].event IN
                      /\ fate[e] = "small" /\ dispatcher[d].left > 0
                      /\ Written'[e] + large[e] + dispatcher[d].left <= Groups
    OBVIOUS
  <2>1. PICK e \in Events : e = dispatcher[d].event
    BY <1>4
  <2>2. /\ fate[e] = "small" /\ dispatcher[d].left > 0
        /\ Written[e] + large[e] + dispatcher[d].left <= Groups
    BY <2>1 DEF Accounts
  <2> QED BY <1>1, <1>2, <1>3, <1>4, <2>1, <2>2
<1>8. panics' = 0 => panics = 0 /\ \A e \in Events : Written'[e] = Written[e]
  BY <1>1
<1> QED BY <1>5, <1>6, <1>7, <1>8 DEF Accounts

(* An event that is found leaves the events that are yet to be found.              *)
LEMMA AccountsSendEvent == ASSUME WorkersOK, Accounts, SendEvent PROVE Accounts'
<1>1. PICK e \in fresh : events' = Append(events, e) /\ fresh' = fresh \ {e}
  BY DEF SendEvent
<1>2. UNCHANGED <<dispatcher, large, fate, panics>> /\ Written' = Written
  BY WrittenStays DEF SendEvent, pushing, sending, history, bounds
<1>3. e \in Events /\ events \in Seq(Events) /\ fresh \subseteq Events
  BY <1>1 DEF WorkersOK
<1>4. e \notin Range(events) /\ IsInjective(events) /\ fate[e] = "none"
  BY <1>1 DEF Accounts
<1>5. IsInjective(events') /\ Range(events') = Range(events) \cup {e}
  BY <1>1, <1>3, <1>4, ListAppend
<1>6. \A x \in fresh' : x \notin Range(events') /\ fate'[x] = "none"
  BY <1>1, <1>2, <1>5 DEF Accounts
<1>7. \A x \in Range(events') : fate'[x] = "none"
  BY <1>2, <1>4, <1>5 DEF Accounts
<1>8. \A x \in Events \ fresh' : fate'[x] = "none" => x \in Range(events')
  BY <1>1, <1>2, <1>5 DEF Accounts
<1> QED BY <1>2, <1>5, <1>6, <1>7, <1>8 DEF Accounts

(* An event that is dispatched had nothing written.                                *)
LEMMA AccountsDispatch ==
  ASSUME WorkersOK, Accounts, NEW d \in Dispatchers, Dispatch(d)
  PROVE  Accounts'
<1> DEFINE h == Head(events)
<1>1. /\ events' = Tail(events) /\ events # <<>> /\ events \in Seq(Events)
      /\ dispatcher[d].pc = "range" /\ fresh' = fresh /\ Written' = Written
  BY WrittenStays DEF Dispatch, Ranges, sending, WorkersOK
<1>2. /\ h \in Range(events) /\ IsInjective(events') /\ Range(events') = Range(events) \ {h}
      /\ h \in Events
  BY <1>1, ListTail, TakeHead DEF Accounts
<1> HIDE DEF h
<1>3. fate[h] = "none" /\ Written[h] = 0 /\ large[h] = 0 /\ h \notin fresh
  BY <1>2 DEF Accounts
<1>4. Groups \in Nat \ {0} /\ panics \in Nat
  BY CapacityAssumption DEF WorkersOK
<1>5. /\ dispatcher \in [Dispatchers -> Workers] /\ large \in [Events -> Nat]
      /\ fate \in [Events -> {"none", "quiet", "small", "large", "lost"}]
  BY DEF WorkersOK, Workers
<1>6. \A x \in Dispatchers : dispatcher[x].pc = "push" =>
        /\ dispatcher[x].event \in Events /\ dispatcher[x].event # h
        /\ x # d
  BY <1>1, <1>3 DEF WorkersOK, Accounts
<1>7. PICK f \in {"quiet", "small", "large", "lost"} :
        /\ fate' = [fate EXCEPT ![h] = f]
        /\ large' = IF f = "large" THEN [large EXCEPT ![h] = Groups] ELSE large
        /\ f = "small" => dispatcher' = [dispatcher EXCEPT ![d] = Pushing(h, Groups)]
        /\ f = "lost" => dispatcher' = [dispatcher EXCEPT ![d] = Idle("panicked")] /\ panics' = panics + 1
        /\ f \in {"quiet", "large"} => dispatcher' = dispatcher
        /\ f # "lost" => panics' = panics
  BY DEF Dispatch, Panic, h
<1>8. /\ Pushing(h, Groups).event = h /\ Pushing(h, Groups).pc = "push" /\ Pushing(h, Groups).left = Groups
      /\ Idle("panicked").pc # "push"
  BY <1>2, <1>4, WorkerKinds
<1>9. /\ \A e \in Events : e # h => fate'[e] = fate[e] /\ large'[e] = large[e]
      /\ fate'[h] = f /\ large'[h] = IF f = "large" THEN Groups ELSE 0
  BY <1>2, <1>3, <1>5, <1>7
<1>10. /\ \A x \in Dispatchers : x # d => dispatcher'[x] = dispatcher[x]
       /\ f = "small" => dispatcher'[d] = Pushing(h, Groups)
       /\ f # "small" => dispatcher'[d].pc # "push"
  BY <1>1, <1>5, <1>7, <1>8
<1>11. \A e \in fresh' : e \notin Range(events') /\ fate'[e] = "none"
  BY <1>1, <1>2, <1>3, <1>9 DEF Accounts, WorkersOK
<1>12. \A e \in Range(events') : fate'[e] = "none"
  <2>1. Range(events) \subseteq Events
    BY <1>1 DEF Range
  <2> QED BY <1>2, <1>9, <2>1 DEF Accounts
<1>13. \A e \in Events \ fresh' : fate'[e] = "none" => e \in Range(events')
  BY <1>1, <1>2, <1>9 DEF Accounts
<1>14. \A e \in Events : fate'[e] = "none" => Written'[e] = 0 /\ large'[e] = 0
  BY <1>1, <1>9 DEF Accounts
<1>15. \A e \in Events : Written'[e] + large'[e] <= Groups
  BY <1>1, <1>3, <1>4, <1>9 DEF Accounts
<1>16. \A x \in Dispatchers : dispatcher'[x].pc = "push" =>
         LET e == dispatcher'[x].event IN
         /\ fate'[e] = "small" /\ dispatcher'[x].left > 0
         /\ Written'[e] + large'[e] + dispatcher'[x].left <= Groups
  <2> SUFFICES ASSUME NEW x \in Dispatchers, dispatcher'[x].pc = "push"
               PROVE  LET e == dispatcher'[x].event IN
                      /\ fate'[e] = "small" /\ dispatcher'[x].left > 0
                      /\ Written'[e] + large'[e] + dispatcher'[x].left <= Groups
    OBVIOUS
  <2>1. CASE x = d
    BY <1>1, <1>3, <1>4, <1>8, <1>9, <1>10, <2>1
  <2>2. CASE x # d
    BY <1>1, <1>6, <1>9, <1>10, <2>2 DEF Accounts
  <2> QED BY <2>1, <2>2
<1>17. \A x, y \in Dispatchers :
         dispatcher'[x].pc = "push" /\ dispatcher'[y].pc = "push" /\ dispatcher'[x].event = dispatcher'[y].event
           => x = y
  BY <1>6, <1>8, <1>10 DEF Accounts
<1>18. panics' = 0 => \A e \in Events : fate'[e] = "small" =>
         \/ Written'[e] = Groups
         \/ \E x \in Dispatchers : dispatcher'[x].pc = "push" /\ dispatcher'[x].event = e
                                    /\ Written'[e] + dispatcher'[x].left = Groups
  <2> SUFFICES ASSUME panics' = 0, NEW e \in Events, fate'[e] = "small"
               PROVE  \/ Written'[e] = Groups
                      \/ \E x \in Dispatchers : dispatcher'[x].pc = "push" /\ dispatcher'[x].event = e
                                                 /\ Written'[e] + dispatcher'[x].left = Groups
    OBVIOUS
  <2>1. CASE e = h
    BY <1>1, <1>3, <1>4, <1>8, <1>9, <1>10, <2>1
  <2>2. CASE e # h
    <3>1. panics = 0 /\ fate[e] = "small"
      BY <1>4, <1>7, <1>9, <2>2
    <3> QED BY <1>1, <1>6, <1>10, <3>1 DEF Accounts
  <2> QED BY <2>1, <2>2
<1> QED BY <1>2, <1>11, <1>12, <1>13, <1>14, <1>15, <1>16, <1>17, <1>18 DEF Accounts

(* A dispatcher that starts again or ends had nothing to write.                    *)
LEMMA AccountsIdle ==
  ASSUME WorkersOK, Accounts, NEW d \in Dispatchers, DispatchAgain(d) \/ DispatchEnds(d)
  PROVE  Accounts'
<1>1. /\ UNCHANGED <<fresh, events, large, fate, panics>> /\ Written' = Written
      /\ dispatcher[d].pc # "push"
  BY WrittenStays DEF DispatchAgain, DispatchEnds, Ranges, finding, sending, history, bounds
<1>2. dispatcher \in [Dispatchers -> Workers]
  BY DEF WorkersOK, Workers
<1>3. (\A x \in Dispatchers : x # d => dispatcher'[x] = dispatcher[x]) /\ dispatcher'[d].pc # "push"
  BY <1>2, WorkerKinds DEF DispatchAgain, DispatchEnds
<1>4. \A x \in Dispatchers : (dispatcher'[x].pc = "push" <=> dispatcher[x].pc = "push")
                             /\ (dispatcher[x].pc = "push" => dispatcher'[x] = dispatcher[x])
  BY <1>1, <1>3
<1> QED BY <1>1, <1>4 DEF Accounts

(* A dispatcher writes one notification of its event, or falls on the closed         *)
(* channel.                                                                        *)
LEMMA AccountsPush ==
  ASSUME WorkersOK, Accounts, NEW d \in Dispatchers, Push(d)
  PROVE  Accounts'
<1> DEFINE v == dispatcher[d].event  n == dispatcher[d].left
<1>1. /\ UNCHANGED <<fresh, events, large, panics, reader, outgoing, handled>>
      /\ dispatcher[d].pc = "push" /\ v \in Events /\ n \in Nat
  BY DEF Push, WorkersOK, finding, sending, bounds
<1>2. /\ dispatcher \in [Dispatchers -> Workers] /\ large \in [Events -> Nat]
      /\ fate \in [Events -> {"none", "quiet", "small", "large", "lost"}]
      /\ \A e \in Events : Written[e] \in Nat
  BY WrittenIsNat DEF WorkersOK, Workers
<1>3. fate[v] = "small" /\ n > 0 /\ Written[v] + large[v] + n <= Groups
  BY <1>1 DEF Accounts
<1>4. \A x \in Dispatchers : dispatcher[x].pc = "push" =>
        dispatcher[x].event \in Events /\ (x # d => dispatcher[x].event # v)
  BY <1>1 DEF WorkersOK, Accounts
<1>5. Groups \in Nat \ {0} /\ panics \in Nat
  BY CapacityAssumption DEF WorkersOK
<1>6. CASE /\ notify' = Append(notify, v) /\ UNCHANGED fate
           /\ dispatcher' = [dispatcher EXCEPT ![d] = IF n > 1 THEN Pushing(v, n - 1) ELSE Idle("range")]
  <2>1. \A e \in Events : Written'[e] = IF e = v THEN Written[e] + 1 ELSE Written[e]
    BY <1>1, <1>6, WrittenPushed
  <2>2. /\ n > 1 => /\ Pushing(v, n - 1).event = v /\ Pushing(v, n - 1).pc = "push"
                    /\ Pushing(v, n - 1).left = n - 1
        /\ Idle("range").pc # "push"
    BY <1>1, WorkerKinds
  <2>3. /\ \A x \in Dispatchers : x # d => dispatcher'[x] = dispatcher[x]
        /\ n > 1 => dispatcher'[d].event = v /\ dispatcher'[d].pc = "push" /\ dispatcher'[d].left = n - 1
        /\ n <= 1 => n = 1 /\ dispatcher'[d].pc # "push"
    BY <1>1, <1>2, <1>3, <1>6, <2>2
  <2> HIDE DEF v, n
  <2>4. \A e \in Events : fate'[e] = "none" => Written'[e] = 0 /\ large'[e] = 0
    BY <1>1, <1>3, <1>6, <2>1 DEF Accounts
  <2>5. \A e \in Events : Written'[e] + large'[e] <= Groups
    BY <1>1, <1>2, <1>3, <1>5, <2>1 DEF Accounts
  <2>6. \A x \in Dispatchers : dispatcher'[x].pc = "push" =>
          LET e == dispatcher'[x].event IN
          /\ fate'[e] = "small" /\ dispatcher'[x].left > 0
          /\ Written'[e] + large'[e] + dispatcher'[x].left <= Groups
    <3> SUFFICES ASSUME NEW x \in Dispatchers, dispatcher'[x].pc = "push"
                 PROVE  LET e == dispatcher'[x].event IN
                        /\ fate'[e] = "small" /\ dispatcher'[x].left > 0
                        /\ Written'[e] + large'[e] + dispatcher'[x].left <= Groups
      OBVIOUS
    <3>1. CASE x = d
      <4>1. n > 1 /\ dispatcher'[x].event = v /\ dispatcher'[x].left = n - 1
        BY <1>1, <2>3, <3>1
      <4> QED BY <1>1, <1>2, <1>3, <1>5, <1>6, <2>1, <4>1
    <3>2. CASE x # d
      BY <1>1, <1>4, <1>6, <2>1, <2>3, <3>2 DEF Accounts
    <3> QED BY <3>1, <3>2
  <2>7. \A x, y \in Dispatchers :
          dispatcher'[x].pc = "push" /\ dispatcher'[y].pc = "push" /\ dispatcher'[x].event = dispatcher'[y].event
            => x = y
    BY <1>1, <1>4, <2>3 DEF Accounts
  <2>8. panics' = 0 => \A e \in Events : fate'[e] = "small" =>
          \/ Written'[e] = Groups
          \/ \E x \in Dispatchers : dispatcher'[x].pc = "push" /\ dispatcher'[x].event = e
                                     /\ Written'[e] + dispatcher'[x].left = Groups
    <3> SUFFICES ASSUME panics' = 0, NEW e \in Events, fate'[e] = "small"
                 PROVE  \/ Written'[e] = Groups
                        \/ \E x \in Dispatchers : dispatcher'[x].pc = "push" /\ dispatcher'[x].event = e
                                                   /\ Written'[e] + dispatcher'[x].left = Groups
      OBVIOUS
    <3>1. \/ Written[e] = Groups
          \/ \E x \in Dispatchers : dispatcher[x].pc = "push" /\ dispatcher[x].event = e
                                     /\ Written[e] + dispatcher[x].left = Groups
      BY <1>1, <1>6 DEF Accounts
    <3>2. CASE e = v
      <4>1. Written[v] + n = Groups
        <5>1. \A x \in Dispatchers : dispatcher[x].pc = "push" /\ dispatcher[x].event = v => x = d
          BY <1>4
        <5>2. Written[v] # Groups
          BY <1>1, <1>2, <1>3, <1>5
        <5> QED BY <3>1, <3>2, <5>1, <5>2 DEF n
      <4>2. CASE n > 1
        <5>1. Written'[e] + (n - 1) = Groups
          BY <1>1, <1>2, <2>1, <3>2, <4>1
        <5> QED BY <2>3, <3>2, <4>2, <5>1
      <4>3. CASE n <= 1
        BY <1>1, <1>2, <2>1, <2>3, <3>2, <4>1, <4>3
      <4> QED BY <1>1, <4>2, <4>3
    <3>3. CASE e # v
      <4>1. Written'[e] = Written[e]
        BY <2>1, <3>3
      <4>2. \A x \in Dispatchers : dispatcher[x].event = e => dispatcher'[x] = dispatcher[x]
        BY <2>3, <3>3 DEF v
      <4> QED BY <3>1, <4>1, <4>2
    <3> QED BY <3>2, <3>3
  <2> QED BY <1>1, <1>6, <2>4, <2>5, <2>6, <2>7, <2>8 DEF Accounts
<1>7. CASE /\ dispatcher' = [dispatcher EXCEPT ![d] = Idle("panicked")]
           /\ fate' = [fate EXCEPT ![v] = "lost"] /\ UNCHANGED notify
  <2>1. Written' = Written
    BY <1>1, <1>7, WrittenStays
  <2>2. (\A x \in Dispatchers : x # d => dispatcher'[x] = dispatcher[x]) /\ dispatcher'[d].pc # "push"
    BY <1>2, <1>7, WorkerKinds
  <2>3. (\A e \in Events : e # v => fate'[e] = fate[e]) /\ fate'[v] = "lost"
    BY <1>1, <1>2, <1>7
  <2> HIDE DEF v, n
  <2>4. v \notin fresh /\ v \notin Range(events)
    BY <1>3 DEF Accounts
  <2>5. fresh \subseteq Events /\ Range(events) \subseteq Events
    BY DEF WorkersOK, Range
  <2>6. \A e \in fresh' : e \notin Range(events') /\ fate'[e] = "none"
    BY <1>1, <2>3, <2>4, <2>5 DEF Accounts
  <2>7. \A e \in Range(events') : fate'[e] = "none"
    BY <1>1, <2>3, <2>4, <2>5 DEF Accounts
  <2>8. \A e \in Events \ fresh' : fate'[e] = "none" => e \in Range(events')
    BY <1>1, <2>3 DEF Accounts
  <2>9. \A e \in Events : fate'[e] = "none" => Written'[e] = 0 /\ large'[e] = 0
    BY <1>1, <2>1, <2>3 DEF Accounts
  <2>10. \A x \in Dispatchers : dispatcher'[x].pc = "push" =>
           x # d /\ dispatcher'[x] = dispatcher[x] /\ fate'[dispatcher[x].event] = fate[dispatcher[x].event]
    BY <1>4, <2>2, <2>3
  <2>11. panics' = 0 => \A e \in Events : fate'[e] = "small" =>
           \/ Written'[e] = Groups
           \/ \E x \in Dispatchers : dispatcher'[x].pc = "push" /\ dispatcher'[x].event = e
                                      /\ Written'[e] + dispatcher'[x].left = Groups
    <3> SUFFICES ASSUME panics' = 0, NEW e \in Events, fate'[e] = "small"
                 PROVE  \/ Written'[e] = Groups
                        \/ \E x \in Dispatchers : dispatcher'[x].pc = "push" /\ dispatcher'[x].event = e
                                                   /\ Written'[e] + dispatcher'[x].left = Groups
      OBVIOUS
    <3>1. e # v /\ fate[e] = "small"
      BY <2>3
    <3>2. \A x \in Dispatchers : dispatcher[x].event = e => dispatcher'[x] = dispatcher[x]
      BY <2>2, <3>1 DEF v
    <3> QED BY <1>1, <2>1, <3>1, <3>2 DEF Accounts
  <2> QED BY <1>1, <2>1, <2>6, <2>7, <2>8, <2>9, <2>10, <2>11 DEF Accounts
<1> QED BY <1>6, <1>7 DEF Push

(* The goroutine of a large event writes one of its notifications.                 *)
LEMMA AccountsPushLarge ==
  ASSUME WorkersOK, Accounts, NEW v \in Events, PushLarge(v),
         notify' = Append(notify, v), large' = [large EXCEPT ![v] = large[v] - 1]
  PROVE  Accounts'
<1>1. UNCHANGED <<fresh, events, dispatcher, fate, panics, reader, outgoing, handled>> /\ large[v] > 0
  BY DEF PushLarge, finding, sending, history
<1>2. /\ large \in [Events -> Nat] /\ Groups \in Nat \ {0}
      /\ \A e \in Events : Written[e] \in Nat /\ large[e] \in Nat
      /\ \A d \in Dispatchers : dispatcher[d].left \in Nat
                                 /\ (dispatcher[d].pc = "push" => dispatcher[d].event \in Events)
  BY WrittenIsNat, CapacityAssumption DEF WorkersOK
<1>3. \A e \in Events : Written'[e] = IF e = v THEN Written[e] + 1 ELSE Written[e]
  BY <1>1, WrittenPushed
<1>4. \A e \in Events : large'[e] = IF e = v THEN large[e] - 1 ELSE large[e]
  BY <1>2
<1>5. \A e \in Events : Written'[e] + large'[e] = Written[e] + large[e]
  <2> SUFFICES ASSUME NEW e \in Events PROVE Written'[e] + large'[e] = Written[e] + large[e]
    OBVIOUS
  <2>1. CASE e = v
    <3>1. Written'[e] = Written[e] + 1 /\ large'[e] = large[e] - 1 /\ Written[e] \in Nat /\ large[e] \in Nat
      BY <1>2, <1>3, <1>4, <2>1
    <3> QED BY <3>1
  <2>2. CASE e # v
    BY <1>3, <1>4, <2>2
  <2> QED BY <2>1, <2>2
<1>6. \A e \in Events : fate'[e] = "none" => Written'[e] = 0 /\ large'[e] = 0
  <2>1. fate[v] # "none"
    BY <1>1 DEF Accounts
  <2> QED BY <1>1, <1>3, <1>4, <2>1 DEF Accounts
<1>7. \A x \in Dispatchers : dispatcher'[x].pc = "push" =>
        LET e == dispatcher'[x].event IN
        /\ fate'[e] = "small" /\ dispatcher'[x].left > 0
        /\ Written'[e] + large'[e] + dispatcher'[x].left <= Groups
  BY <1>1, <1>2, <1>5 DEF Accounts
<1>8. panics' = 0 => \A e \in Events : fate'[e] = "small" =>
        \/ Written'[e] = Groups
        \/ \E x \in Dispatchers : dispatcher'[x].pc = "push" /\ dispatcher'[x].event = e
                                   /\ Written'[e] + dispatcher'[x].left = Groups
  <2> SUFFICES ASSUME panics' = 0, NEW e \in Events, fate'[e] = "small"
               PROVE  \/ Written'[e] = Groups
                      \/ \E x \in Dispatchers : dispatcher'[x].pc = "push" /\ dispatcher'[x].event = e
                                                 /\ Written'[e] + dispatcher'[x].left = Groups
    OBVIOUS
  <2>1. \/ Written[e] = Groups
        \/ \E x \in Dispatchers : dispatcher[x].pc = "push" /\ dispatcher[x].event = e
                                   /\ Written[e] + dispatcher[x].left = Groups
    BY <1>1 DEF Accounts
  <2>2. e # v
    <3> SUFFICES ASSUME e = v PROVE FALSE
      OBVIOUS
    <3>1. CASE Written[v] = Groups
      <4>1. Written[v] + large[v] <= Groups
        BY DEF Accounts
      <4> QED BY <1>1, <1>2, <3>1, <4>1
    <3>2. ASSUME NEW x \in Dispatchers, dispatcher[x].pc = "push", dispatcher[x].event = v,
                 Written[v] + dispatcher[x].left = Groups
          PROVE  FALSE
      <4>1. Written[v] + large[v] + dispatcher[x].left <= Groups
        BY <3>2 DEF Accounts
      <4> QED BY <1>1, <1>2, <3>2, <4>1
    <3> QED BY <2>1, <3>1, <3>2
  <2> QED BY <1>1, <1>3, <2>1, <2>2
<1>9. \A e \in Events : Written'[e] + large'[e] <= Groups
  BY <1>5 DEF Accounts
<1> QED BY <1>1, <1>6, <1>7, <1>8, <1>9 DEF Accounts

LEMMA AccountsStep == WorkersOK /\ WorkersOK' /\ Accounts /\ [Next]_vars => Accounts'
<1> SUFFICES ASSUME WorkersOK, WorkersOK', Accounts, [Next]_vars PROVE Accounts'
  OBVIOUS
<1>1. ASSUME UNCHANGED <<fresh, events, dispatcher, large, fate, notify, sending>>,
             panics' = panics \/ panics' = panics + 1
      PROVE  Accounts'
  <2>1. Written' = Written
    BY <1>1, WrittenStays DEF sending
  <2> QED BY <1>1, <2>1, AccountsFrame
<1>2. ASSUME NEW i \in Ids, Add(i) \/ Delete(i) PROVE Accounts'
  BY <1>1, <1>2 DEF Add, Delete, finding, pushing, history
<1>3. CASE Core
  BY <1>1, <1>3 DEF Core, CoreTest, CorePark, Take, Emit, CoreEnds, finding, pushing, history, bounds
<1>4. CASE SendEvent
  BY <1>4, AccountsSendEvent
<1>5. CASE Refresh \/ FreshAgain \/ FreshEnds
  BY <1>1, <1>5 DEF Refresh, FreshAgain, FreshEnds, Panic, pushing, history, bounds
<1>6. CASE Reader \/ \E e \in Events : Sent(e)
  <2>1. UNCHANGED <<fresh, events, dispatcher, large, fate>> /\ (panics' = panics \/ panics' = panics + 1)
    BY <1>6 DEF Reader, Read, Acquire, ReadAgain, ReadEnds, Sent, Panic, finding, pushing, history, bounds
  <2>2. \A e \in Events :
          \/ Written'[e] = Written[e]
          \/ Written'[e] <= Written[e] /\ panics' = panics + 1
    BY <1>6, ReaderMoves
  <2> QED BY <2>1, <2>2, AccountsFrame
<1>7. CASE StoreStopped \/ Stopping
  BY <1>1, <1>7 DEF StoreStopped, Stopping, CloseStop, Broadcast, CloseEmit, Cancel, CloseEvents,
                    CloseNotify, AwaitReader, AwaitSends, Only, finding, pushing, bounds
<1>8. ASSUME NEW d \in Dispatchers, Worker(d) PROVE Accounts'
  BY <1>8, AccountsDispatch, AccountsPush, AccountsIdle DEF Worker
<1>9. ASSUME NEW e \in Events, PushLarge(e) PROVE Accounts'
  <2>1. CASE notify' = Append(notify, e) /\ large' = [large EXCEPT ![e] = large[e] - 1]
    BY <1>9, <2>1, AccountsPushLarge
  <2>2. CASE UNCHANGED <<notify, large>>
    BY <1>1, <1>9, <2>2 DEF PushLarge, finding, history
  <2> QED BY <1>9, <2>1, <2>2 DEF PushLarge
<1>10. CASE UNCHANGED vars
  BY <1>1, <1>10 DEF vars, finding, pushing, history, bounds
<1> QED BY <1>2, <1>3, <1>4, <1>5, <1>6, <1>7, <1>8, <1>9, <1>10 DEF Next, Fresh

--------------------------------------------------------------------------------
(* What Stop waits for at its end. *)

(* Without a panic the reader has read everything when Stop goes on, and nothing    *)
(* is being sent when it returns.                                                 *)
Endings ==
  /\ reader[1] = "ended" => NotifyClosed /\ notify = <<>>
  /\ panics = 0 => reader[1] # "panicked"
  /\ panics = 0 /\ stop \in {"sends", "done"} => reader[1] = "ended"
  /\ panics = 0 /\ stop = "done" => \A e \in Events : outgoing[e] = 0

LEMMA NothingOutgoing ==
  ASSUME WorkersOK, Accounts, Sending = 0
  PROVE  \A e \in Events : outgoing[e] = 0
<1> DEFINE slots == UNION {{e} \X (1..outgoing[e]) : e \in Events}
<1>1. \A e \in Events : outgoing[e] \in Nat /\ outgoing[e] <= Groups
  <2> SUFFICES ASSUME NEW e \in Events PROVE outgoing[e] \in Nat /\ outgoing[e] <= Groups
    OBVIOUS
  <2>1. outgoing[e] \in Nat /\ handled[e] \in Nat /\ large[e] \in Nat /\ InHand(e) \in Nat
    BY DEF WorkersOK, InHand
  <2>2. Copies(notify, e) \in Nat
    BY FewPlaces DEF WorkersOK
  <2>3. Written[e] = Copies(notify, e) + InHand(e) + outgoing[e] + handled[e]
    BY DEF Written
  <2>4. Written[e] + large[e] <= Groups
    BY DEF Accounts
  <2> QED BY <2>1, <2>2, <2>3, <2>4, CapacityAssumption
<1>2. slots \subseteq Events \X (1..Groups)
  BY <1>1, CapacityAssumption
<1>3. IsFiniteSet(Events \X (1..Groups))
  <2>1. IsFiniteSet(1..Groups)
    BY CapacityAssumption, FS_Interval
  <2> QED BY <2>1, ActorAssumption, FS_Product
<1>4. IsFiniteSet(slots)
  BY <1>2, <1>3, FS_Subset
<1>5. slots = {}
  BY <1>4, FS_EmptySet DEF Sending
<1>6. ASSUME NEW e \in Events, outgoing[e] # 0 PROVE FALSE
  <2>1. 1 \in 1..outgoing[e]
    BY <1>1, <1>6
  <2>2. <<e, 1>> \in slots
    BY <1>6, <2>1
  <2> QED BY <1>5, <2>2
<1> QED BY <1>6

LEMMA InitEndings == Init => Endings
  BY DEF Init, Endings

LEMMA EndingsStep == WorkersOK /\ Accounts /\ Endings /\ [Next]_vars => Endings'
<1> SUFFICES ASSUME WorkersOK, Accounts, Endings, [Next]_vars PROVE Endings'
  OBVIOUS
<1>t. panics \in Nat
  BY DEF WorkersOK
<1>1. ASSUME UNCHANGED <<stop, notify, sending>>, panics' = panics \/ panics' = panics + 1
      PROVE  Endings'
  BY <1>t, <1>1, FixedFlags DEF Endings, sending
<1>2. ASSUME NEW i \in Ids, Add(i) \/ Delete(i) PROVE Endings'
  BY <1>1, <1>2 DEF Add, Delete, pushing
<1>3. CASE Core
  BY <1>1, <1>3 DEF Core, CoreTest, CorePark, Take, Emit, CoreEnds, pushing, bounds
<1>4. CASE Fresh
  BY <1>1, <1>4 DEF Fresh, Refresh, SendEvent, FreshAgain, FreshEnds, Panic, pushing, bounds
<1>5. CASE Reader
  <2>1. CASE ReadEnds
    <3>1. reader' = <<"ended", NoEvent>> /\ notify' = <<>> /\ NotifyClosed /\ UNCHANGED <<stop, panics, outgoing>>
      BY <2>1 DEF ReadEnds, pushing, bounds
    <3> QED BY <3>1, FixedFlags DEF Endings
  <2>2. CASE Read \/ Acquire \/ ReadAgain
    <3>1. /\ reader[1] # "ended" /\ UNCHANGED stop
          /\ \/ reader' \in {reader, <<"acquire", Head(notify)>>, <<"read", NoEvent>>}
             \/ reader' = <<"panicked", NoEvent>> /\ panics' = panics + 1
          /\ panics' = panics \/ panics' = panics + 1
      BY <2>2 DEF Read, Acquire, ReadAgain, Panic, bounds
    <3>2. panics = 0 => stop \notin {"sends", "done"}
      BY <3>1 DEF Endings
    <3>3. reader'[1] # "ended" /\ (panics' = 0 => panics = 0)
      BY <1>t, <3>1
    <3>4. panics' = 0 => reader'[1] # "panicked"
      BY <1>t, <3>1 DEF Endings
    <3> QED BY <3>1, <3>2, <3>3, <3>4 DEF Endings
  <2> QED BY <1>5, <2>1, <2>2 DEF Reader
<1>6. CASE StoreStopped \/ Stopping
  <2>1. UNCHANGED <<notify, panics, reader, outgoing>>
    BY <1>6 DEF StoreStopped, Stopping, CloseStop, Broadcast, CloseEmit, Cancel, CloseEvents,
                CloseNotify, AwaitReader, AwaitSends, Only, pushing, sending, bounds
  <2>2. CASE AwaitReader
    BY <1>6, <2>1, <2>2, Closing DEF AwaitReader, Advance, Off, Endings
  <2>3. CASE AwaitSends
    <3>1. \A e \in Events : outgoing[e] = 0
      BY <2>3, NothingOutgoing DEF AwaitSends
    <3> QED BY <1>6, <2>1, <2>3, <3>1, Closing DEF AwaitSends, Advance, Endings
  <2>4. CASE ~AwaitReader /\ ~AwaitSends
    <3>1. stop' \notin {"sends", "done"}
      BY <1>6, <2>4 DEF StoreStopped, Stopping, CloseStop, Broadcast, CloseEmit, Cancel, CloseEvents,
                        CloseNotify, Advance
    <3> QED BY <1>6, <2>1, <3>1, Closing DEF Endings
  <2> QED BY <2>2, <2>3, <2>4
<1>7. ASSUME NEW d \in Dispatchers, Worker(d) PROVE Endings'
  <2>1. /\ UNCHANGED <<stop, sending>> /\ (notify' = notify \/ ~NotifyClosed)
        /\ panics' = panics \/ panics' = panics + 1
    BY <1>7 DEF Worker, Dispatch, Push, DispatchAgain, DispatchEnds, Panic, bounds
  <2>2. reader[1] = "ended" => notify' = notify
    BY <2>1 DEF Endings
  <2> QED BY <1>t, <2>1, <2>2, FixedFlags DEF Endings, sending
<1>8. ASSUME NEW e \in Events, PushLarge(e) PROVE Endings'
  <2>1. UNCHANGED <<stop, sending, panics>> /\ (notify' = notify \/ ~NotifyClosed)
    BY <1>8 DEF PushLarge
  <2>2. reader[1] = "ended" => notify' = notify
    BY <2>1 DEF Endings
  <2> QED BY <2>1, <2>2, FixedFlags DEF Endings, sending
<1>9. ASSUME NEW s \in Events, Sent(s) PROVE Endings'
  <2>1. UNCHANGED <<stop, notify, panics, reader>> /\ outgoing[s] > 0
    BY <1>9 DEF Sent, pushing, bounds
  <2>2. ~(panics = 0 /\ stop = "done")
    BY <1>9, <2>1 DEF Endings
  <2> QED BY <2>1, <2>2, FixedFlags DEF Endings
<1>10. CASE UNCHANGED vars
  BY <1>1, <1>10 DEF vars, pushing, bounds
<1> QED BY <1>2, <1>3, <1>4, <1>5, <1>6, <1>7, <1>8, <1>9, <1>10 DEF Next

(* No notification is made twice, whoever panicked; and when Stop returns after a   *)
(* run without a panic, every event that was found was dispatched and every        *)
(* notification of a small one was handled.                                       *)
THEOREM EventsAreNotifiedOnce == Spec => []NotifiedOnce
<1> DEFINE Inv == Typed /\ Phases /\ Accounts /\ Endings
<1>1. Init => Inv
  BY InitTypes, InitPhases, InitAccounts, InitEndings DEF Typed
<1>2. Inv /\ [Next]_vars => Inv'
  BY ListStep, WorkersStep, FlagsStep, PhasesStep, AccountsStep, EndingsStep DEF Typed
<1>3. Inv => NotifiedOnce
  <2> SUFFICES ASSUME WorkersOK, Phases, Accounts, Endings PROVE NothingLost /\ NeverTwice
    BY DEF NotifiedOnce, Typed
  <2>1. ASSUME NEW e \in Events
        PROVE  /\ Copies(notify, e) \in Nat /\ InHand(e) \in Nat /\ outgoing[e] \in Nat /\ handled[e] \in Nat
               /\ large[e] \in Nat
               /\ Written[e] = Copies(notify, e) + InHand(e) + outgoing[e] + handled[e]
               /\ Written[e] + large[e] <= Groups
    BY <2>1, FewPlaces DEF WorkersOK, InHand, Written, Accounts
  <2>2. NeverTwice
    <3> SUFFICES ASSUME NEW e \in Events PROVE handled[e] + outgoing[e] <= Groups
      BY DEF NeverTwice
    <3> QED BY <2>1, CapacityAssumption
  <2>3. NothingLost
    <3> SUFFICES ASSUME stop = "done", panics = 0, NEW e \in Events \ fresh
                 PROVE  fate[e] # "none" /\ (fate[e] = "small" => handled[e] = Groups)
      BY DEF NothingLost
    <3>1. NotifyClosed
      BY Ranks DEF NotifyClosed, Reached
    <3>2. \A d \in Dispatchers : dispatcher[d].pc = "ended"
      BY <3>1 DEF Phases
    <3>3. events = <<>>
      BY <3>2, ActorAssumption DEF Phases
    <3>4. fate[e] # "none"
      <4>1. Range(events) = {}
        BY <3>3 DEF Range
      <4> QED BY <4>1 DEF Accounts
    <3>5. ASSUME fate[e] = "small" PROVE handled[e] = Groups
      <4>1. Written[e] = Groups
        BY <3>2, <3>5 DEF Accounts
      <4>2. notify = <<>> /\ reader[1] = "ended" /\ outgoing[e] = 0
        BY DEF Endings
      <4>3. Copies(notify, e) = 0 /\ InHand(e) = 0
        BY <4>2, CopiesEmpty DEF InHand
      <4>4. Written[e] = Copies(notify, e) + InHand(e) + outgoing[e] + handled[e] /\ handled[e] \in Nat
        BY <2>1
      <4> QED BY <4>1, <4>2, <4>3, <4>4
    <3> QED BY <3>4, <3>5
  <2> QED BY <2>2, <2>3
<1> QED BY <1>1, <1>2, <1>3, PTL DEF Spec

--------------------------------------------------------------------------------
(* Who waits for whom while Stop is under way.  Each operator is what the steps of *)
(* one goroutine wait for: it is at a step that waits for nothing, or what it      *)
(* waits for is there.                                                            *)

LoopGoes    == \/ core.pc \in {"test", "parking", "timer"}
               \/ core.pc = "emit" /\ (StopClosed \/ fresher = "select")
FresherGoes == \/ fresher \in {"fresh", "panicked"}
               \/ fresher = "send" /\ ~EventsClosed /\ Len(events) < EventCap
               \/ fresher = "select" /\ (EmitClosed \/ Cancelled)
WorkerGoes(d) == \/ dispatcher[d].pc = "panicked"
                 \/ dispatcher[d].pc = "range" /\ (events # <<>> \/ EventsClosed)
                 \/ dispatcher[d].pc = "push" /\ (NotifyClosed \/ Len(notify) < NotifyCap)
ReaderGoes  == \/ reader[1] \in {"acquire", "panicked"}
               \/ reader[1] = "read" /\ (notify # <<>> \/ NotifyClosed)
StopGoes    == \/ stop \in {"stored", "closed", "cancel"}
               \/ stop = "broadcast" /\ core.pc = "ended"
               \/ stop = "fresher" /\ fresher \in Off
               \/ stop = "dispatchers" /\ \A d \in Dispatchers : dispatcher[d].pc \in Off
               \/ stop = "reader" /\ reader[1] \in Off
               \/ stop = "sends" /\ Sending = 0

WorkersGo == ReaderGoes \/ \E d \in Dispatchers : WorkerGoes(d)

(* Stop goes on, or a goroutine does that it waits for: one it waits for itself, or *)
(* one further down the channels that keeps that one from its end.                *)
SomebodyGoes ==
  \/ StopGoes
  \/ stop = "broadcast" /\ LoopGoes
  \/ stop = "fresher" /\ (FresherGoes \/ WorkersGo)
  \/ stop = "dispatchers" /\ WorkersGo
  \/ stop = "reader" /\ ReaderGoes
  \/ stop = "sends" /\ \E e \in Events : outgoing[e] > 0

(* The loop sleeps on an empty list only, and after the broadcast not at all but    *)
(* for the wake-up that was missed.                                               *)
SleepsWhenEmpty == core.pc \in {"parking", "parked"} => list = <<>>
Awake == Reached("broadcast") /\ ~missed => core.pc \notin {"parking", "parked"}

Sleeping == SleepsWhenEmpty /\ Awake

LEMMA InitSleeping == Init => Sleeping
  BY LoopKinds DEF Init, Sleeping, SleepsWhenEmpty, Awake

(* Only the broadcast takes Stop past it.                                           *)
LEMMA Broadcasts ==
  ASSUME WorkersOK
  PROVE  /\ UNCHANGED stop => (Reached("broadcast")' <=> Reached("broadcast"))
         /\ StoreStopped \/ (Stopping /\ ~Broadcast) => (Reached("broadcast")' => Reached("broadcast"))
         /\ Reached("broadcast") => Stopped
<1>1. UNCHANGED stop => (Reached("broadcast")' <=> Reached("broadcast"))
  BY DEF Reached, Rank, Order
<1>2. ASSUME StoreStopped \/ (Stopping /\ ~Broadcast)
      PROVE  Reached("broadcast")' => Reached("broadcast")
  BY <1>2, Ranks DEF Reached, StoreStopped, Stopping, CloseStop, CloseEmit, Cancel, CloseEvents,
                     CloseNotify, AwaitReader, AwaitSends, Advance
<1>3. ASSUME Reached("broadcast") PROVE Stopped
  <2>1. stop \in {"none", "stored", "closed", "broadcast", "cancel", "fresher", "dispatchers", "reader",
                 "sends", "done"}
    BY Points, Zenon DEF WorkersOK
  <2>2. Rank(stop) \in 1..10
    BY <2>1, Ranks
  <2> QED BY <1>3, <2>2, Ranks DEF Reached, Stopped
<1> QED BY <1>1, <1>2, <1>3

LEMMA SleepingStep == ListOK /\ WorkersOK /\ Sleeping /\ [Next]_vars => Sleeping'
<1> SUFFICES ASSUME ListOK, WorkersOK, Sleeping, [Next]_vars PROVE Sleeping'
  OBVIOUS
<1>1. CASE UNCHANGED <<list, core, stop, missed>>
  BY <1>1, Broadcasts DEF Sleeping, SleepsWhenEmpty, Awake
<1>2. ASSUME NEW i \in Ids, Add(i) PROVE Sleeping'
  <2>1. CASE core.pc = "parked"
    <3>1. list = <<>> /\ i \notin Range(list)
      BY <2>1 DEF Sleeping, SleepsWhenEmpty, Range
    <3>2. Len(list') = 1
      BY <1>2, <3>1 DEF Add
    <3>3. core' = Loop("test")
      BY <1>2, <2>1, <3>2 DEF Add
    <3> QED BY <3>3, LoopKinds DEF Sleeping, SleepsWhenEmpty, Awake
  <2>2. CASE core.pc # "parked"
    <3>1. core' = core /\ core.pc \notin {"parking", "parked"}
      BY <1>2, <2>2 DEF Add, Unlocked
    <3> QED BY <3>1 DEF Sleeping, SleepsWhenEmpty, Awake
  <2> QED BY <2>1, <2>2
<1>3. ASSUME NEW i \in Ids, Delete(i) PROVE Sleeping'
  <2>1. list # <<>>
    BY <1>3 DEF Delete, Range
  <2>2. core' = core /\ core.pc \notin {"parking", "parked"}
    BY <1>3, <2>1 DEF Delete, Sleeping, SleepsWhenEmpty
  <2> QED BY <2>2 DEF Sleeping, SleepsWhenEmpty, Awake
<1>4. CASE CoreTest
  <2>1. core' = Loop(IF list = <<>> /\ ~Stopped THEN "parking" ELSE "timer") /\ UNCHANGED <<list, stop>>
    BY <1>4 DEF CoreTest
  <2>2. CASE list = <<>> /\ ~Stopped
    BY <2>1, <2>2, Broadcasts DEF Sleeping, SleepsWhenEmpty, Awake
  <2>3. CASE ~(list = <<>> /\ ~Stopped)
    BY <2>1, <2>3, LoopKinds DEF Sleeping, SleepsWhenEmpty, Awake
  <2> QED BY <2>2, <2>3
<1>5. CASE CorePark
  <2>1. /\ core.pc = "parking" /\ core' = Loop("parked") /\ UNCHANGED <<list, stop, missed>>
    BY <1>5 DEF CorePark, history
  <2> QED BY <2>1, Broadcasts DEF Sleeping, SleepsWhenEmpty, Awake
<1>6. CASE Take \/ Emit \/ CoreEnds
  <2>1. core' \in {Loop("test"), Loop("ended")} \/ core'.pc = "emit"
    BY <1>6 DEF Take, Emit, CoreEnds
  <2> QED BY <2>1, LoopKinds DEF Sleeping, SleepsWhenEmpty, Awake
<1>7. CASE Broadcast
  <2>1. /\ UNCHANGED list /\ missed' = (core.pc = "parking")
        /\ core' = IF core.pc = "parked" THEN Loop("test") ELSE core
    BY <1>7 DEF Broadcast, Only
  <2> QED BY <2>1, LoopKinds DEF Sleeping, SleepsWhenEmpty, Awake
<1>8. CASE StoreStopped \/ (Stopping /\ ~Broadcast)
  <2>1. UNCHANGED <<list, core, missed>>
    BY <1>8 DEF StoreStopped, Stopping, CloseStop, CloseEmit, Cancel, CloseEvents, CloseNotify,
                AwaitReader, AwaitSends, Only
  <2> QED BY <1>8, <2>1, Broadcasts DEF Sleeping, SleepsWhenEmpty, Awake
<1>9. CASE Fresh \/ Reader
  BY <1>1, <1>9 DEF Fresh, Refresh, SendEvent, FreshAgain, FreshEnds, Reader, Read, Acquire, ReadAgain,
                    ReadEnds, polling, history
<1>10. ASSUME NEW d \in Dispatchers, Worker(d) PROVE Sleeping'
  BY <1>1, <1>10 DEF Worker, Dispatch, Push, DispatchAgain, DispatchEnds, polling, history
<1>11. ASSUME NEW e \in Events, PushLarge(e) \/ Sent(e) PROVE Sleeping'
  BY <1>1, <1>11 DEF PushLarge, Sent, polling, history
<1>12. CASE UNCHANGED vars
  BY <1>1, <1>12 DEF vars, polling, history
<1> QED BY <1>2, <1>3, <1>4, <1>5, <1>6, <1>7, <1>8, <1>9, <1>10, <1>11, <1>12 DEF Next, Core

(* An id that is added to the list is not overlooked: whenever the loop of the       *)
(* queue sleeps, or is about to, the list is empty.                               *)
THEOREM NoIdIsSleptOn == Spec => []SleepsWhenEmpty
<1>1. Init => Typed /\ Sleeping
  BY InitTypes, InitSleeping DEF Typed
<1>2. Typed /\ Sleeping /\ [Next]_vars => (Typed /\ Sleeping)'
  BY ListStep, WorkersStep, FlagsStep, SleepingStep DEF Typed
<1>3. Typed /\ Sleeping => SleepsWhenEmpty
  BY DEF Sleeping
<1> QED BY <1>1, <1>2, <1>3, PTL DEF Spec

(* With eventChan or a dispatcher not at its end, a dispatcher or the reader goes:  *)
(* a full notifyChan is read, because the reader outlives the dispatchers.        *)
LEMMA ChannelsMove ==
  ASSUME WorkersOK, Endings, ~NotifyClosed, NEW d \in Dispatchers,
         \/ dispatcher[d].pc \in {"push", "panicked"}
         \/ dispatcher[d].pc = "range" /\ (events # <<>> \/ EventsClosed)
  PROVE  WorkersGo
<1>1. CASE dispatcher[d].pc # "push"
  BY <1>1 DEF WorkersGo, WorkerGoes
<1>2. CASE dispatcher[d].pc = "push"
  <2>1. CASE Len(notify) < NotifyCap
    BY <1>2, <2>1 DEF WorkersGo, WorkerGoes
  <2>2. CASE ~(Len(notify) < NotifyCap)
    <3>1. notify # <<>>
      BY <2>2, CapacityAssumption DEF WorkersOK
    <3>2. reader[1] \in {"read", "acquire", "panicked"}
      BY DEF WorkersOK, Endings
    <3> QED BY <3>1, <3>2 DEF WorkersGo, ReaderGoes
  <2> QED BY <2>1, <2>2
<1> QED BY <1>1, <1>2

(* At each of its waits Stop finds somebody at work.                                *)
LEMMA StopWaitsForWork ==
  ASSUME WorkersOK, Phases, Endings, Sleeping, stop \notin {"none", "done"}, ~missed
  PROVE  SomebodyGoes
<1>1. stop \in {"stored", "closed", "broadcast", "cancel", "fresher", "dispatchers", "reader", "sends"}
  BY Points, Zenon DEF WorkersOK
<1>2. CASE stop \in {"stored", "closed", "cancel"}
  BY <1>2 DEF SomebodyGoes, StopGoes
<1>3. CASE stop = "broadcast"
  <2>1. Reached("broadcast") /\ StopClosed
    BY <1>3, Ranks DEF Reached, StopClosed
  <2>2. core.pc \in {"test", "timer", "emit", "ended"}
    BY <2>1 DEF WorkersOK, Sleeping, Awake
  <2> QED BY <1>3, <2>1, <2>2 DEF SomebodyGoes, StopGoes, LoopGoes
<1>4. CASE stop = "fresher"
  <2>1. ~EventsClosed /\ ~NotifyClosed /\ Cancelled
    BY <1>4, Ranks DEF Reached, EventsClosed, NotifyClosed, Cancelled
  <2>2. CASE fresher # "send"
    BY <1>4, <2>1, <2>2 DEF SomebodyGoes, StopGoes, FresherGoes, Off, WorkersOK
  <2>3. CASE Len(events) < EventCap /\ fresher = "send"
    BY <1>4, <2>1, <2>3 DEF SomebodyGoes, FresherGoes
  <2>4. CASE ~(Len(events) < EventCap)
    <3>1. events # <<>>
      BY <2>4, CapacityAssumption DEF WorkersOK
    <3>2. PICK d \in Dispatchers : TRUE
      BY ActorAssumption
    <3>3. dispatcher[d].pc \in {"range", "push", "panicked"}
      BY <2>1 DEF WorkersOK, Phases
    <3> QED BY <1>4, <2>1, <3>1, <3>3, ChannelsMove DEF SomebodyGoes
  <2> QED BY <2>2, <2>3, <2>4
<1>5. CASE stop = "dispatchers"
  <2>1. EventsClosed /\ ~NotifyClosed
    BY <1>5, Ranks DEF Reached, EventsClosed, NotifyClosed
  <2>2. CASE \A d \in Dispatchers : dispatcher[d].pc \in Off
    BY <1>5, <2>2 DEF SomebodyGoes, StopGoes
  <2>3. ASSUME NEW d \in Dispatchers, dispatcher[d].pc \notin Off PROVE SomebodyGoes
    <3>1. dispatcher[d].pc \in {"range", "push"}
      BY <2>3 DEF WorkersOK, Off
    <3> QED BY <1>5, <2>1, <3>1, ChannelsMove DEF SomebodyGoes
  <2> QED BY <2>2, <2>3
<1>6. CASE stop = "reader"
  <2>1. NotifyClosed
    BY <1>6, Ranks DEF Reached, NotifyClosed
  <2>2. reader[1] \in {"read", "acquire", "panicked", "ended"}
    BY DEF WorkersOK
  <2> QED BY <1>6, <2>1, <2>2 DEF SomebodyGoes, StopGoes, ReaderGoes, Off
<1>7. CASE stop = "sends"
  <2>1. CASE \E e \in Events : outgoing[e] > 0
    BY <1>7, <2>1 DEF SomebodyGoes
  <2>2. CASE ~(\E e \in Events : outgoing[e] > 0)
    <3>1. \A e \in Events : 1..outgoing[e] = {}
      BY <2>2 DEF WorkersOK
    <3>2. UNION {{e} \X (1..outgoing[e]) : e \in Events} = {}
      BY <3>1
    <3>3. Sending = 0
      BY <3>2, FS_EmptySet DEF Sending
    <3> QED BY <1>7, <3>3 DEF SomebodyGoes, StopGoes
  <2> QED BY <2>1, <2>2
<1> QED BY <1>1, <1>2, <1>3, <1>4, <1>5, <1>6, <1>7

(* Lsp.Stop never waits for nobody: between its first step and its return, unless   *)
(* the wake-up was missed or the program died of a panic, it can go on itself or a *)
(* goroutine it waits for can, whatever the capacities, the numbers of events,     *)
(* dispatchers and notifications, and whoever panicked.                           *)
THEOREM StopIsNeverStuck ==
  Spec => [](stop \notin {"none", "done"} /\ ~crashed /\ ~missed => SomebodyGoes)
<1> DEFINE Inv == Typed /\ Phases /\ Accounts /\ Endings /\ Sleeping
<1>1. Init => Inv
  BY InitTypes, InitPhases, InitAccounts, InitEndings, InitSleeping DEF Typed
<1>2. Inv /\ [Next]_vars => Inv'
  BY ListStep, WorkersStep, FlagsStep, PhasesStep, AccountsStep, EndingsStep, SleepingStep DEF Typed
<1>3. Inv => (stop \notin {"none", "done"} /\ ~crashed /\ ~missed => SomebodyGoes)
  BY StopWaitsForWork DEF Typed
<1> QED BY <1>1, <1>2, <1>3, PTL DEF Spec

--------------------------------------------------------------------------------
(* Whose turn it is. *)

(* The turns the loop takes before that of a listed id: from the cursor to the end  *)
(* of the list, and on from its front.                                            *)
PlaceIn(s, i) == CHOOSE j \in DOMAIN s : s[j] = i
TurnsIn(s, c, i) ==
  IF c = NoId THEN PlaceIn(s, i) - 1
  ELSE IF PlaceIn(s, c) <= PlaceIn(s, i) THEN PlaceIn(s, i) - PlaceIn(s, c)
  ELSE Len(s) - PlaceIn(s, c) + PlaceIn(s, i)

Turns(i) == TurnsIn(list, cur, i)

(* A turn is the id's own or brings it one turn closer; nothing but its own turn    *)
(* and an addition to the end of the list puts an id further back, the addition by *)
(* one turn.                                                                      *)
TurnsAreKept ==
  [][\A i \in Range(list) \cap Range(list)' :
       /\ Take => core'.id = i \/ Turns(i)' = Turns(i) - 1
       /\ Turns(i)' > Turns(i) =>
            \/ Take /\ core'.id = i
            \/ \E a \in Ids : Add(a) /\ a \notin Range(list) /\ Turns(i)' = Turns(i) + 1]_vars

LEMMA PlaceOf == \A i : Place(i) = PlaceIn(list, i)
  BY DEF Place, PlaceIn

LEMMA PlacedAt ==
  ASSUME NEW S, NEW s \in Seq(S), IsInjective(s)
  PROVE  /\ \A j \in 1..Len(s) : PlaceIn(s, s[j]) = j
         /\ \A i \in Range(s) : PlaceIn(s, i) \in 1..Len(s) /\ s[PlaceIn(s, i)] = i
<1>1. DOMAIN s = 1..Len(s)
  OBVIOUS
<1>2. ASSUME NEW i \in Range(s) PROVE PlaceIn(s, i) \in DOMAIN s /\ s[PlaceIn(s, i)] = i
  <2>1. \E j \in DOMAIN s : s[j] = i
    BY DEF Range
  <2> QED BY <2>1 DEF PlaceIn
<1>3. ASSUME NEW j \in DOMAIN s PROVE PlaceIn(s, s[j]) = j
  <2>1. s[j] \in Range(s)
    BY DEF Range
  <2> QED BY <1>2, <2>1 DEF IsInjective
<1> QED BY <1>1, <1>2, <1>3

(* At most one round: every listed id is ahead of the cursor, within the length of   *)
(* the list.                                                                      *)
LEMMA OneRound ==
  ASSUME NEW S, NEW s \in Seq(S), IsInjective(s), NEW i \in Range(s), NEW c \in Range(s) \cup {NoId}
  PROVE  TurnsIn(s, c, i) \in 0..(Len(s) - 1)
<1>1. Len(s) \in Nat /\ PlaceIn(s, i) \in 1..Len(s)
  BY PlacedAt
<1>2. c # NoId => PlaceIn(s, c) \in 1..Len(s)
  BY PlacedAt
<1> QED BY <1>1, <1>2 DEF TurnsIn

(* The turn of the element at place k: it is the last before the front, or the      *)
(* cursor goes to the next place.                                                 *)
LEMMA TurnTaken ==
  ASSUME NEW S, NEW s \in Seq(S), IsInjective(s), NoId \notin S,
         NEW k \in 1..Len(s), NEW c, IF c = NoId THEN k = 1 ELSE c = s[k],
         NEW i \in Range(s), i # s[k]
  PROVE  TurnsIn(s, IF k = Len(s) THEN NoId ELSE s[k + 1], i) = TurnsIn(s, c, i) - 1
<1>1. Len(s) \in Nat /\ PlaceIn(s, i) \in 1..Len(s) /\ PlaceIn(s, i) # k
  BY PlacedAt
<1>2. c # NoId => PlaceIn(s, c) = k
  BY PlacedAt
<1>3. CASE k = Len(s)
  BY <1>1, <1>2, <1>3 DEF TurnsIn
<1>4. CASE k # Len(s)
  <2>1. k + 1 \in 1..Len(s) /\ s[k + 1] # NoId /\ PlaceIn(s, s[k + 1]) = k + 1
    BY <1>1, <1>4, PlacedAt
  <2> QED BY <1>1, <1>2, <1>4, <2>1 DEF TurnsIn
<1> QED BY <1>3, <1>4

(* An addition puts back by one turn what the cursor has passed, and nothing else.  *)
LEMMA TurnAfterAddition ==
  ASSUME NEW S, NEW s \in Seq(S), IsInjective(s), NoId \notin S, NEW a \in S, a \notin Range(s),
         NEW c \in Range(s) \cup {NoId}, NEW i \in Range(s)
  PROVE  TurnsIn(Append(s, a), c, i) \in {TurnsIn(s, c, i), TurnsIn(s, c, i) + 1}
<1> DEFINE t == Append(s, a)
<1>1. /\ t \in Seq(S) /\ IsInjective(t) /\ Len(t) = Len(s) + 1 /\ Len(s) \in Nat
      /\ \A j \in 1..Len(s) : t[j] = s[j]
  BY ListAppend
<1>2. ASSUME NEW x \in Range(s) PROVE PlaceIn(t, x) = PlaceIn(s, x) /\ PlaceIn(s, x) \in 1..Len(s)
  <2>1. PlaceIn(s, x) \in 1..Len(s) /\ s[PlaceIn(s, x)] = x
    BY PlacedAt
  <2>2. PlaceIn(s, x) \in 1..Len(t) /\ t[PlaceIn(s, x)] = x
    BY <1>1, <2>1
  <2> HIDE DEF t
  <2> QED BY <1>1, <2>1, <2>2, PlacedAt
<1> HIDE DEF t
<1>3. PlaceIn(t, i) = PlaceIn(s, i) /\ PlaceIn(s, i) \in 1..Len(s)
  BY <1>2
<1>4. c # NoId => PlaceIn(t, c) = PlaceIn(s, c) /\ PlaceIn(s, c) \in 1..Len(s)
  BY <1>2
<1>5. TurnsIn(t, c, i) \in {TurnsIn(s, c, i), TurnsIn(s, c, i) + 1}
  BY <1>1, <1>3, <1>4 DEF TurnsIn
<1> QED BY <1>5 DEF t

(* A removal puts nothing back: the cursor moves on from what is removed.          *)
LEMMA TurnAfterRemoval ==
  ASSUME NEW S, NEW s \in Seq(S), IsInjective(s), NoId \notin S, NEW k \in 1..Len(s),
         NEW c \in Range(s) \cup {NoId}, NEW i \in Range(s), i # s[k]
  PROVE  LET d == IF c = s[k] THEN IF k = Len(s) THEN NoId ELSE s[k + 1] ELSE c
         IN  TurnsIn(RemoveAt(s, k), d, i) <= TurnsIn(s, c, i)
<1> DEFINE t == RemoveAt(s, k)
           d == IF c = s[k] THEN IF k = Len(s) THEN NoId ELSE s[k + 1] ELSE c
<1>0. Len(s) \in Nat /\ DOMAIN s = 1..Len(s) /\ NoId \notin Range(s)
  BY DEF Range
<1>1. /\ t \in Seq(S) /\ IsInjective(t) /\ Len(t) = Len(s) - 1
      /\ \A j \in 1..(Len(s) - 1) : t[j] = IF j < k THEN s[j] ELSE s[j + 1]
  BY <1>0, ListRemove
<1> HIDE DEF t
<1>2. ASSUME NEW x \in Range(s), x # s[k]
      PROVE  /\ PlaceIn(s, x) \in 1..Len(s) /\ PlaceIn(s, x) # k
             /\ PlaceIn(t, x) = IF PlaceIn(s, x) < k THEN PlaceIn(s, x) ELSE PlaceIn(s, x) - 1
  <2> DEFINE p == PlaceIn(s, x)
             q == IF p < k THEN p ELSE p - 1
  <2>1. p \in 1..Len(s) /\ s[p] = x /\ p # k
    BY <1>2, PlacedAt
  <2>2. q \in 1..(Len(s) - 1) /\ (IF q < k THEN q ELSE q + 1) = p
    BY <1>0, <2>1
  <2>3. t[q] = x
    BY <1>1, <2>1, <2>2
  <2>4. PlaceIn(t, t[q]) = q
    BY <1>1, <2>2, PlacedAt
  <2> QED BY <2>1, <2>3, <2>4
<1>3. TurnsIn(t, d, i) <= TurnsIn(s, c, i)
  <2>1. CASE c = NoId
    <3>1. d = NoId
      BY <1>0, <2>1 DEF Range
    <3>2. TurnsIn(s, c, i) = PlaceIn(s, i) - 1 /\ TurnsIn(t, d, i) = PlaceIn(t, i) - 1
      BY <2>1, <3>1 DEF TurnsIn
    <3>3. /\ PlaceIn(s, i) \in 1..Len(s) /\ PlaceIn(s, i) # k
          /\ PlaceIn(t, i) = IF PlaceIn(s, i) < k THEN PlaceIn(s, i) ELSE PlaceIn(s, i) - 1
      BY <1>2
    <3> HIDE DEF d
    <3> QED BY <1>0, <3>2, <3>3
  <2>2. CASE c # NoId /\ c # s[k]
    <3>1. d = c
      BY <2>2
    <3> QED BY <1>0, <1>1, <1>2, <2>2, <3>1 DEF TurnsIn
  <2>3. CASE c = s[k] /\ k = Len(s)
    <3>1. d = NoId /\ c # NoId /\ PlaceIn(s, c) = k
      BY <1>0, <2>3, PlacedAt DEF Range
    <3> QED BY <1>0, <1>2, <2>3, <3>1 DEF TurnsIn
  <2>4. CASE c = s[k] /\ k # Len(s)
    <3>k. k + 1 \in 1..Len(s) /\ k \in 1..Len(s) /\ k + 1 # k
      <4>1. Len(s) \in Nat /\ k # Len(s)
        BY <1>0, <2>4
      <4> QED BY <4>1
    <3>0. d = s[k + 1] /\ s[k + 1] \in Range(s)
      BY <1>0, <2>4, <3>k DEF Range
    <3>1. k + 1 \in 1..Len(s) /\ d = s[k + 1] /\ d \in Range(s) /\ d # NoId /\ d # s[k]
      <4>1. s[k + 1] # s[k]
        BY <1>0, <3>k DEF IsInjective
      <4> QED BY <1>0, <3>k, <3>0, <4>1
    <3>2. c # NoId /\ PlaceIn(s, c) = k /\ PlaceIn(s, d) = k + 1
      BY <1>0, <2>4, <3>1, PlacedAt DEF Range
    <3>3. PlaceIn(t, d) = k
      <4> HIDE DEF d
      <4>1. PlaceIn(t, d) = IF PlaceIn(s, d) < k THEN PlaceIn(s, d) ELSE PlaceIn(s, d) - 1
        BY <1>2, <3>1
      <4> QED BY <3>2, <4>1
    <3>4. /\ PlaceIn(s, i) \in 1..Len(s) /\ PlaceIn(s, i) # k
          /\ PlaceIn(t, i) = IF PlaceIn(s, i) < k THEN PlaceIn(s, i) ELSE PlaceIn(s, i) - 1
      BY <1>2
    <3> HIDE DEF d
    <3>5. /\ TurnsIn(s, c, i) = IF k <= PlaceIn(s, i) THEN PlaceIn(s, i) - k
                                                     ELSE Len(s) - k + PlaceIn(s, i)
          /\ TurnsIn(t, d, i) = IF k <= PlaceIn(t, i) THEN PlaceIn(t, i) - k
                                                     ELSE Len(t) - k + PlaceIn(t, i)
      BY <3>1, <3>2, <3>3 DEF TurnsIn
    <3> QED BY <1>0, <1>1, <3>4, <3>5
  <2> QED BY <2>1, <2>2, <2>3, <2>4
<1> QED BY <1>3 DEF t

(* The step of the queue: a turn, an addition, a removal, or nothing for its list.  *)
LEMMA TurnSteps ==
  ASSUME [Next]_vars
  PROVE  \/ UNCHANGED <<list, cur>>
         \/ Take
         \/ \E a \in Ids : Add(a) \/ Delete(a)
  BY DEF Next, Core, CoreTest, CorePark, Emit, CoreEnds, Fresh, Refresh, SendEvent, FreshAgain, FreshEnds,
         Reader, Read, Acquire, ReadAgain, ReadEnds, StoreStopped, Stopping, CloseStop, Broadcast,
         CloseEmit, Cancel, CloseEvents, CloseNotify, AwaitReader, AwaitSends, Worker, Dispatch, Push,
         DispatchAgain, DispatchEnds, PushLarge, Sent, vars, polling, Only

(* What a turn does: it is the element's at the cursor, and the cursor goes to the   *)
(* place after it.                                                                *)
LEMMA TurnOfCursor ==
  ASSUME ListOK, WorkersOK, Take, list # <<>>
  PROVE  \E k \in 1..Len(list) :
           /\ IF cur = NoId THEN k = 1 ELSE cur = list[k]
           /\ core'.id = list[k]
           /\ cur' = IF k = Len(list) THEN NoId ELSE list[k + 1]
           /\ list' = list
<1>1. list \in Seq(Ids) /\ IsInjective(list) /\ cur \in Range(list) \cup {NoId}
  BY DEF ListOK
<1>2. Head(list) = list[1] /\ 1 \in 1..Len(list)
  BY <1>1
<1>3. PICK k \in 1..Len(list) : IF cur = NoId THEN k = 1 ELSE cur = list[k]
  <2>1. CASE cur = NoId
    BY <1>2, <2>1
  <2>2. CASE cur # NoId
    <3>1. PlaceIn(list, cur) \in 1..Len(list) /\ list[PlaceIn(list, cur)] = cur
      BY <1>1, <2>2, PlacedAt
    <3> QED BY <2>2, <3>1
  <2> QED BY <2>1, <2>2
<1>4. core'.id = list[k] /\ cur' = After(list[k]) /\ list' = list
  BY <1>2, <1>3 DEF Take
<1>5. Place(list[k]) = k
  BY <1>1, PlaceOf, PlacedAt
<1> QED BY <1>3, <1>4, <1>5 DEF After

(* Nobody is passed over: an id is at most one round away, every turn of another    *)
(* id brings it one turn closer, and commands put it back only by adding others.   *)
THEOREM NobodyIsPassedOver ==
  Spec => [](\A i \in Range(list) : Turns(i) \in 0..(Len(list) - 1)) /\ TurnsAreKept
<1>1. Init => Typed
  BY InitTypes DEF Typed
<1>2. Typed /\ [Next]_vars => Typed'
  BY ListStep, WorkersStep, FlagsStep DEF Typed
<1>3. Typed => \A i \in Range(list) : Turns(i) \in 0..(Len(list) - 1)
  BY OneRound DEF Typed, ListOK, Turns
<1> DEFINE Kept(i) ==
      /\ Take => core'.id = i \/ Turns(i)' = Turns(i) - 1
      /\ Turns(i)' > Turns(i) =>
           \/ Take /\ core'.id = i
           \/ \E a \in Ids : Add(a) /\ a \notin Range(list) /\ Turns(i)' = Turns(i) + 1
<1>4. Typed /\ [Next]_vars => \A i \in Range(list) \cap Range(list)' : Kept(i)
  <2> SUFFICES ASSUME ListOK, WorkersOK, [Next]_vars, NEW i \in Range(list), i \in Range(list)'
               PROVE  Kept(i)
    BY DEF Typed
  <2>1. /\ list \in Seq(Ids) /\ IsInjective(list) /\ cur \in Range(list) \cup {NoId} /\ NoId \notin Ids
        /\ TurnsIn(list, cur, i) \in Int
    BY OneRound, IdAssumption DEF ListOK
  <2>2. Turns(i) = TurnsIn(list, cur, i) /\ Turns(i)' = TurnsIn(list', cur', i)
    BY DEF Turns
  <2>3. list # <<>>
    BY DEF Range
  <2>4. CASE Take
    <3>1. PICK k \in 1..Len(list) :
            /\ IF cur = NoId THEN k = 1 ELSE cur = list[k]
            /\ core'.id = list[k]
            /\ cur' = IF k = Len(list) THEN NoId ELSE list[k + 1]
            /\ list' = list
      BY <2>3, <2>4, TurnOfCursor
    <3>2. i # list[k] => TurnsIn(list', cur', i) = TurnsIn(list, cur, i) - 1
      BY <2>1, <3>1, TurnTaken
    <3> QED BY <2>1, <2>2, <2>4, <3>1, <3>2
  <2>5. CASE UNCHANGED <<list, cur>> /\ ~Take
    BY <2>1, <2>2, <2>5
  <2>6. ASSUME NEW a \in Ids, Add(a), ~Take PROVE Kept(i)
    <3>1. CASE a \in Range(list)
      <4>1. list' = list
        BY <2>6, <3>1 DEF Add
      <4>2. CASE Len(list) # 1
        BY <2>1, <2>2, <2>6, <4>1, <4>2 DEF Add
      <4>3. CASE Len(list) = 1
        <5>1. cur' = a /\ cur' \in Range(list)
          BY <2>6, <3>1, <4>1, <4>3 DEF Add
        <5>2. TurnsIn(list, a, i) = 0 /\ TurnsIn(list, cur, i) = 0
          <6>1. /\ TurnsIn(list, a, i) \in 0..(Len(list) - 1)
                /\ TurnsIn(list, cur, i) \in 0..(Len(list) - 1)
            BY <2>1, <3>1, OneRound
          <6> QED BY <4>3, <6>1
        <5> QED BY <2>2, <2>6, <4>1, <5>1, <5>2
      <4> QED BY <4>2, <4>3
    <3>2. CASE a \notin Range(list)
      <4>1. list' = Append(list, a) /\ Len(list') = Len(list) + 1 /\ Len(list) \in Nat \ {0}
        BY <2>1, <2>3, <2>6, <3>2 DEF Add
      <4>2. cur' = cur
        BY <2>6, <4>1 DEF Add
      <4>3. TurnsIn(list', cur', i) \in {TurnsIn(list, cur, i), TurnsIn(list, cur, i) + 1}
        BY <2>1, <3>2, <4>1, <4>2, TurnAfterAddition
      <4> QED BY <2>1, <2>2, <2>6, <3>2, <4>3
    <3> QED BY <3>1, <3>2
  <2>7. ASSUME NEW a \in Ids, Delete(a), ~Take PROVE Kept(i)
    <3>1. a \in Range(list) /\ list' = RemoveAt(list, Place(a)) /\ cur' = IF cur = a THEN After(a) ELSE cur
      BY <2>7 DEF Delete
    <3>2. PICK k \in 1..Len(list) : k = Place(a) /\ list[k] = a
      BY <2>1, <3>1, PlaceOf, PlacedAt
    <3>3. After(a) = IF k = Len(list) THEN NoId ELSE list[k + 1]
      BY <3>2 DEF After
    <3>4. i # a
      <4>1. k \in DOMAIN list
        BY <2>1, <3>2
      <4>2. Range(list') = Range(list) \ {a}
        BY <2>1, <3>1, <3>2, <4>1, ListRemove
      <4> QED BY <4>2
    <3>5. TurnsIn(list', cur', i) <= TurnsIn(list, cur, i)
      BY <2>1, <3>1, <3>2, <3>3, <3>4, TurnAfterRemoval
    <3>6. TurnsIn(list', cur', i) \in Int
      <4>1. ListOK'
        BY ListStep
      <4> QED BY <4>1, OneRound DEF ListOK
    <3> QED BY <2>1, <2>2, <2>7, <3>5, <3>6
  <2> QED BY <2>4, <2>5, <2>6, <2>7, TurnSteps
<1>5. Typed /\ [Next]_vars => [\A i \in Range(list) \cap Range(list)' : Kept(i)]_vars
  BY <1>4
<1> QED BY <1>1, <1>2, <1>3, <1>5, PTL DEF Spec, TurnsAreKept
================================================================================
