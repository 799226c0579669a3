---------------------------- MODULE EnforceGateProofs ----------------------------
(* What the gate keeps for any number of notifications, Shadow jobs, releases,    *)
(* commands and failures: one provider call per event and release, a stored       *)
(* answer under every DROP, balanced slots and flights, and the administrator's   *)
(* last word.                                                                     *)
EXTENDS EnforceGate, TLAPS, FiniteSetTheorems

--------------------------------------------------------------------------------
(* The inductive invariant. *)

\* Who has a release; who has the row of its event and release to itself.
Keyed  == Inside \ {"release", "pass"}
Mine   == {"mark", "call", "finish"}
KeyInv == \A t \in Tasks : task[t].pc \in Keyed => task[t].release \in Releases

CallsOf(t)    == calls[EventOf[t]][task[t].release]
SameKey(t, u) == EventOf[t] = EventOf[u] /\ task[t].release = task[u].release
HolderInv ==
  /\ \A t \in Tasks : /\ At(t, "mark") => RowOf(t).status = "running"
                      /\ At(t, "call") => RowOf(t).status = "started" /\ CallsOf(t) = 0
                      /\ At(t, "finish") => RowOf(t).status = "started" /\ task[t].answer # "none"
  /\ \A t, u \in Tasks : task[t].pc \in Mine /\ task[u].pc \in Mine /\ SameKey(t, u) => t = u

RowInv == \A e \in Events, r \in Releases :
  /\ calls[e][r] <= 1
  /\ ai[e][r].status \in {"absent", "queued", "running"} => calls[e][r] = 0
  /\ ai[e][r].status = "completed" => ai[e][r].answer \in {"drop", "keep"}

\* An answer that is carried on was given, and a drop is stored.
Says(table, e, r) == table[e][r].status = "completed" /\ table[e][r].answer = "drop"
Carrying == {"close", "forget", "judge", "drop"}
AnswerInv == \A t \in Tasks :
  task[t].pc \in Carrying => /\ task[t].answer # "none"
                             /\ task[t].answer = "drop" => Says(ai, EventOf[t], task[t].release)
                             /\ task[t].pc = "drop" => task[t].answer = "drop"

\* A flight is its owner's while the owner is on it.
FlightInv ==
  /\ \A t \in Sends : task[t].pc \in Owning => FlightOf(t) = t
  /\ \A e \in Events, r \in Releases : flight[e][r] # NoTask =>
       LET o == flight[e][r] IN task[o].pc \in Owning /\ EventOf[o] = e /\ task[o].release = r

After == {"forget", "judge", "drop", "dropped", "pass"} \cup Ended
ResultInv == \A o \in Sends : /\ result[o] # "none" => task[o].pc \in After
                              /\ At(o, "forget") => result[o] = task[o].answer

AwaitsRightly(t) ==
  LET o == task[t].joined IN
    /\ o \in Sends /\ EventOf[o] = EventOf[t]
    /\ result[o] = "none" => task[o].pc \in Owning /\ task[o].release = task[t].release
    /\ result[o] = "drop" => Says(ai, EventOf[t], task[t].release)
WaitInv == \A t \in Sends : At(t, "wait") => AwaitsRightly(t)

DropInv ==
  /\ \A d \in drops : /\ Says(ai, EventOf[d.by], d.release)
                      /\ task[d.by].pc \in {"dropped", "suppressed", "gone"}
  /\ \A t \in Sends : task[t].pc \in {"dropped", "suppressed"} => \E d \in drops : d.by = t

\* A revoked approval is not live again.
ApprovalInv ==
  /\ void <= Len(approvals) /\ \A i \in DOMAIN approvals : approvals[i].live => i > void
  /\ \A t \in Tasks : At(t, "drop") => task[t].approval \in DOMAIN approvals

In == {t \in Sends : task[t].pc \in Inside}
SlotInv == slots = Cardinality(In) /\ slots <= MaxConcurrency

IInv == /\ TypeOK /\ KeyInv /\ HolderInv /\ RowInv /\ AnswerInv /\ FlightInv
        /\ ResultInv /\ WaitInv /\ DropInv /\ ApprovalInv /\ SlotInv

--------------------------------------------------------------------------------
(* What a step makes of one task. *)

Places == Before \cup Inside \cup Ended
\* Only task t changes.
Only(t) == task' \in [Tasks -> Task] /\ \A u \in Tasks \ {t} : task'[u] = task[u]

LEMMA PlaceNames ==
  /\ {"idle", "policy", "switch", "gate"} \subseteq Places
  /\ {"release", "ready", "flight", "wait", "judge", "drop", "dropped", "pass"} \subseteq Places
  /\ {"claim", "poll", "mark", "call", "finish", "close", "forget"} \subseteq Places
  /\ {"sent", "suppressed", "done", "gone"} \subseteq Places
  BY DEF Places, Before, Inside, Owning, Ended

LEMMA TaskShape ==
  ASSUME TypeOK, NEW t \in Tasks
  PROVE  /\ task[t] \in Task /\ task[t].pc \in Places /\ task[t].policy \in Policies
         /\ task[t].release \in Releases \cup {NoRelease} /\ task[t].approval \in Nat
         /\ task[t].answer \in Answers /\ task[t].joined \in Sends \cup {NoTask}
         /\ EventOf[t] \in Events
  BY EventAssumption DEF TypeOK, Task, Places

LEMMA Edited ==
  ASSUME TypeOK, NEW t \in Tasks, NEW r \in Task, task' = [task EXCEPT ![t] = r]
  PROVE  Only(t) /\ task'[t] = r
  BY DEF TypeOK, Only

LEMMA Went ==
  ASSUME TypeOK, NEW t \in Tasks, NEW pc \in Places, Go(t, pc)
  PROVE  /\ Only(t) /\ task'[t].pc = pc
         /\ task'[t].release = task[t].release /\ task'[t].approval = task[t].approval
         /\ task'[t].answer = task[t].answer /\ task'[t].joined = task[t].joined
<1> DEFINE r == [task[t] EXCEPT !.pc = pc]
<1>1. task[t] \in Task
  BY DEF TypeOK
<1>2. /\ r \in Task /\ r.pc = pc /\ r.release = task[t].release /\ r.approval = task[t].approval
      /\ r.answer = task[t].answer /\ r.joined = task[t].joined
  BY <1>1 DEF Task, Places
<1>3. task' = [task EXCEPT ![t] = r]
  BY DEF Go
<1> HIDE DEF r
<1> QED BY <1>2, <1>3, Edited

LEMMA Left ==
  ASSUME TypeOK, NEW t \in Tasks, NEW pc \in Places, Leave(t, pc)
  PROVE  Only(t) /\ task'[t].pc = pc
<1>1. With(pc) \in Task /\ With(pc).pc = pc
  BY PolicyAssumption DEF With, Task, Places, Answers
<1> QED BY <1>1, Edited DEF Leave

LEMMA SetPolicy ==
  ASSUME TypeOK, NEW t \in Tasks, NEW p \in Policies,
         task' = [task EXCEPT ![t] = [@ EXCEPT !.pc = "policy", !.policy = p]]
  PROVE  Only(t) /\ task'[t].pc = "policy"
<1> DEFINE r == [task[t] EXCEPT !.pc = "policy", !.policy = p]
<1>1. task[t] \in Task /\ "policy" \in Places
  BY PlaceNames DEF TypeOK
<1>2. r \in Task /\ r.pc = "policy"
  BY <1>1 DEF Task, Places
<1>3. task' = [task EXCEPT ![t] = r]
  OBVIOUS
<1> HIDE DEF r
<1> QED BY <1>2, <1>3, Edited

LEMMA SetRelease ==
  ASSUME TypeOK, NEW t \in Tasks, NEW pc \in {"switch", "ready", "claim"}, NEW x \in Releases \cup {NoRelease},
         task' = [task EXCEPT ![t] = [@ EXCEPT !.pc = pc, !.release = x]]
  PROVE  Only(t) /\ task'[t].pc = pc /\ task'[t].release = x
<1> DEFINE r == [task[t] EXCEPT !.pc = pc, !.release = x]
<1>1. task[t] \in Task /\ pc \in Places
  BY PlaceNames DEF TypeOK
<1>2. r \in Task /\ r.pc = pc /\ r.release = x
  BY <1>1 DEF Task, Places
<1>3. task' = [task EXCEPT ![t] = r]
  OBVIOUS
<1> HIDE DEF r
<1> QED BY <1>2, <1>3, Edited

LEMMA SetJoined ==
  ASSUME TypeOK, NEW t \in Tasks, NEW o \in Sends,
         task' = [task EXCEPT ![t] = [@ EXCEPT !.pc = "wait", !.joined = o]]
  PROVE  Only(t) /\ task'[t].pc = "wait" /\ task'[t].joined = o /\ task'[t].release = task[t].release
<1> DEFINE r == [task[t] EXCEPT !.pc = "wait", !.joined = o]
<1>1. task[t] \in Task /\ "wait" \in Places
  BY PlaceNames DEF TypeOK
<1>2. r \in Task /\ r.pc = "wait" /\ r.joined = o /\ r.release = task[t].release
  BY <1>1 DEF Task, Places
<1>3. task' = [task EXCEPT ![t] = r]
  OBVIOUS
<1> HIDE DEF r
<1> QED BY <1>2, <1>3, Edited

LEMMA SetAnswer ==
  ASSUME TypeOK, NEW t \in Tasks, NEW pc \in {"close", "judge", "finish"}, NEW a \in Answers,
         task' = [task EXCEPT ![t] = [@ EXCEPT !.pc = pc, !.answer = a]]
  PROVE  Only(t) /\ task'[t].pc = pc /\ task'[t].answer = a /\ task'[t].release = task[t].release
<1> DEFINE r == [task[t] EXCEPT !.pc = pc, !.answer = a]
<1>1. task[t] \in Task /\ pc \in Places
  BY PlaceNames DEF TypeOK
<1>2. r \in Task /\ r.pc = pc /\ r.answer = a /\ r.release = task[t].release
  BY <1>1 DEF Task, Places
<1>3. task' = [task EXCEPT ![t] = r]
  OBVIOUS
<1> HIDE DEF r
<1> QED BY <1>2, <1>3, Edited

LEMMA SetApproval ==
  ASSUME TypeOK, NEW t \in Tasks, NEW i \in Nat,
         task' = [task EXCEPT ![t] = [@ EXCEPT !.pc = "drop", !.approval = i]]
  PROVE  /\ Only(t) /\ task'[t].pc = "drop" /\ task'[t].approval = i
         /\ task'[t].release = task[t].release /\ task'[t].answer = task[t].answer
<1> DEFINE r == [task[t] EXCEPT !.pc = "drop", !.approval = i]
<1>1. task[t] \in Task /\ "drop" \in Places
  BY PlaceNames DEF TypeOK
<1>2. /\ r \in Task /\ r.pc = "drop" /\ r.approval = i
      /\ r.release = task[t].release /\ r.answer = task[t].answer
  BY <1>1 DEF Task, Places
<1>3. task' = [task EXCEPT ![t] = r]
  OBVIOUS
<1> HIDE DEF r
<1> QED BY <1>2, <1>3, Edited

\* An evaluation that has an answer closes its flight, a job is done.
LEMMA HasAnswer ==
  ASSUME TypeOK, NEW t \in Tasks, NEW a \in Answers, Answered(t, a)
  PROVE  /\ Only(t)
         /\ t \in Jobs => task'[t].pc = "done"
         /\ t \in Sends => task'[t].pc = "close" /\ task'[t].answer = a /\ task'[t].release = task[t].release
<1>1. CASE t \in Jobs
  <2>1. Leave(t, "done") /\ t \notin Sends
    BY <1>1, TaskAssumption DEF Answered
  <2> QED BY <2>1, Left, PlaceNames
<1>2. CASE t \notin Jobs
  BY <1>2, SetAnswer DEF Answered
<1> QED BY <1>1, <1>2

--------------------------------------------------------------------------------
(* Types. *)

TaskTypes ==
  /\ task' \in [Tasks -> Task]
  /\ ai' \in [Events -> [Releases -> Row]] /\ calls' \in [Events -> [Releases -> Nat]]
  /\ flight' \in [Events -> [Releases -> Sends \cup {NoTask}]] /\ result' \in [Sends -> Answers]
  /\ slots' \in Nat /\ drops' \subseteq Drop /\ trouble' \in Nat

LEMMA TaskStepTypes ==
  ASSUME TypeOK, TaskTypes, UNCHANGED <<config, recovered>>
  PROVE  TypeOK'
  BY DEF TypeOK, TaskTypes, config

LEMMA GateTypes == TypeOK /\ UNCHANGED gate => flight' \in [Events -> [Releases -> Sends \cup {NoTask}]]
                                                /\ result' \in [Sends -> Answers] /\ slots' \in Nat
  BY DEF TypeOK, gate
LEMMA DecidedTypes == TypeOK /\ UNCHANGED decided => ai' \in [Events -> [Releases -> Row]]
                                                      /\ calls' \in [Events -> [Releases -> Nat]]
  BY DEF TypeOK, decided
LEMMA TroubleTypes == TypeOK /\ (Fault \/ NoFault) => trouble' \in Nat
  BY DEF TypeOK, Fault, NoFault

LEMMA Wrote ==
  ASSUME TypeOK, NEW t \in Tasks, task[t].release \in Releases, NEW x \in Row, Write(t, x)
  PROVE  /\ ai' \in [Events -> [Releases -> Row]]
         /\ ai'[EventOf[t]][task[t].release] = x
         /\ \A e \in Events, r \in Releases :
              e # EventOf[t] \/ r # task[t].release => ai'[e][r] = ai[e][r]
<1> DEFINE k == EventOf[t]
           s == task[t].release
<1>1. k \in Events /\ s \in Releases
  BY TaskShape
<1>2. ai \in [Events -> [Releases -> Row]] /\ ai' = [ai EXCEPT ![k][s] = x]
  BY DEF Write, TypeOK
<1> HIDE DEF k, s
<1> QED BY <1>1, <1>2 DEF k, s

LEMMA Flew ==
  ASSUME TypeOK, NEW t \in Tasks, task[t].release \in Releases, NEW o \in Sends \cup {NoTask}, Fly(t, o)
  PROVE  /\ flight' \in [Events -> [Releases -> Sends \cup {NoTask}]]
         /\ flight'[EventOf[t]][task[t].release] = o
         /\ \A e \in Events, r \in Releases :
              e # EventOf[t] \/ r # task[t].release => flight'[e][r] = flight[e][r]
<1> DEFINE k == EventOf[t]
           s == task[t].release
<1>1. k \in Events /\ s \in Releases
  BY TaskShape
<1>2. /\ flight \in [Events -> [Releases -> Sends \cup {NoTask}]]
      /\ flight' = [flight EXCEPT ![k][s] = o]
  BY DEF Fly, TypeOK
<1> HIDE DEF k, s
<1> QED BY <1>1, <1>2 DEF k, s

LEMMA Called ==
  ASSUME TypeOK, NEW t \in Tasks, task[t].release \in Releases,
         calls' = [calls EXCEPT ![EventOf[t]][task[t].release] = @ + 1]
  PROVE  /\ calls' \in [Events -> [Releases -> Nat]]
         /\ calls'[EventOf[t]][task[t].release] = calls[EventOf[t]][task[t].release] + 1
         /\ \A e \in Events, r \in Releases :
              e # EventOf[t] \/ r # task[t].release => calls'[e][r] = calls[e][r]
<1> DEFINE k == EventOf[t]
           s == task[t].release
<1>1. k \in Events /\ s \in Releases
  BY TaskShape
<1>2. /\ calls \in [Events -> [Releases -> Nat]]
      /\ calls' = [calls EXCEPT ![k][s] = @ + 1]
  BY DEF TypeOK
<1> HIDE DEF k, s
<1> QED BY <1>1, <1>2 DEF k, s

LEMMA RowShape ==
  ASSUME TypeOK, NEW e \in Events, NEW r \in Releases
  PROVE  /\ ai[e][r] \in Row /\ ai[e][r].answer \in Answers /\ calls[e][r] \in Nat
         /\ ai[e][r].status \in {"absent", "queued", "running", "started", "completed", "failed"}
  BY DEF TypeOK, Row

LEMMA RowEdit ==
  ASSUME NEW x \in Row, NEW s \in {"absent", "queued", "running", "started", "completed", "failed"}
  PROVE  /\ [x EXCEPT !.status = s] \in Row /\ [x EXCEPT !.status = s].status = s
         /\ [x EXCEPT !.status = s].answer = x.answer
  BY DEF Row

--------------------------------------------------------------------------------
(* What a step of one task must respect. *)

SaysKept == \A e \in Events, r \in Releases : Says(ai, e, r) => Says(ai', e, r)

MainInv == /\ KeyInv /\ HolderInv /\ RowInv /\ AnswerInv /\ FlightInv
           /\ ResultInv /\ WaitInv /\ DropInv /\ ApprovalInv

LEMMA KeyKeeps ==
  ASSUME KeyInv, NEW t \in Tasks, Only(t), task'[t].pc \in Keyed => task'[t].release \in Releases
  PROVE  KeyInv'
  BY DEF KeyInv, Only

LEMMA HolderKeeps ==
  ASSUME HolderInv, NEW t \in Tasks, Only(t), UNCHANGED <<ai, calls>>, task'[t].pc \notin Mine
  PROVE  HolderInv'
  BY DEF HolderInv, Only, Mine, At, RowOf, CallsOf, SameKey

LEMMA RowKeeps ==
  ASSUME RowInv, UNCHANGED <<ai, calls>>
  PROVE  RowInv' /\ SaysKept
  BY DEF RowInv, SaysKept, Says

LEMMA AnswerKeeps ==
  ASSUME AnswerInv, KeyInv, SaysKept, NEW t \in Tasks, Only(t),
         task'[t].pc \in Carrying => /\ task'[t].answer # "none"
                                     /\ task'[t].answer = "drop" => Says(ai', EventOf[t], task'[t].release)
                                     /\ task'[t].pc = "drop" => task'[t].answer = "drop"
  PROVE  AnswerInv'
<1> SUFFICES ASSUME NEW u \in Tasks, task'[u].pc \in Carrying
             PROVE  /\ task'[u].answer # "none"
                    /\ task'[u].answer = "drop" => Says(ai', EventOf[u], task'[u].release)
                    /\ task'[u].pc = "drop" => task'[u].answer = "drop"
  BY DEF AnswerInv
<1>1. CASE u = t
  BY <1>1
<1>2. CASE u # t
  <2>1. task'[u] = task[u] /\ EventOf[u] \in Events /\ task[u].pc \in Keyed
    BY <1>2, EventAssumption DEF Only, Carrying, Keyed, Inside, Owning
  <2>2. task[u].release \in Releases
    BY <2>1 DEF KeyInv
  <2> QED BY <2>1, <2>2 DEF AnswerInv, SaysKept
<1> QED BY <1>1, <1>2

LEMMA FlightKeeps ==
  ASSUME TypeOK, FlightInv, NEW t \in Tasks, Only(t), UNCHANGED flight,
         t \in Sends => /\ task[t].pc \in Owning <=> task'[t].pc \in Owning
                        /\ task[t].pc \in Owning => task'[t].release = task[t].release
  PROVE  FlightInv'
<1>1. ASSUME NEW u \in Sends, task'[u].pc \in Owning
      PROVE  FlightOf(u)' = u
  <2>1. u \in Tasks
    BY DEF Tasks
  <2>2. task[u].pc \in Owning /\ task'[u].release = task[u].release
    BY <1>1, <2>1 DEF Only
  <2> QED BY <1>1, <2>2 DEF FlightInv, FlightOf
<1>2. ASSUME NEW e \in Events, NEW r \in Releases, flight'[e][r] # NoTask
      PROVE  LET o == flight'[e][r] IN task'[o].pc \in Owning /\ EventOf[o] = e /\ task'[o].release = r
  <2> DEFINE o == flight[e][r]
  <2>1. o \in Sends /\ o \in Tasks /\ flight'[e][r] = o
    BY <1>2 DEF TypeOK, Tasks
  <2>2. task[o].pc \in Owning /\ EventOf[o] = e /\ task[o].release = r
    BY <1>2 DEF FlightInv
  <2> HIDE DEF o
  <2>3. task'[o].pc \in Owning /\ task'[o].release = task[o].release
    BY <2>1, <2>2 DEF Only
  <2> QED BY <2>1, <2>2, <2>3
<1> QED BY <1>1, <1>2 DEF FlightInv

LEMMA ResultKeeps ==
  ASSUME ResultInv, NEW t \in Tasks, Only(t), UNCHANGED result,
         t \in Sends => /\ task[t].pc \in After => task'[t].pc \in After
                        /\ task'[t].pc # "forget"
  PROVE  ResultInv'
<1> SUFFICES ASSUME NEW o \in Sends
             PROVE  /\ result'[o] # "none" => task'[o].pc \in After
                    /\ task'[o].pc = "forget" => result'[o] = task'[o].answer
  BY DEF ResultInv, At
<1>1. o \in Tasks
  BY DEF Tasks
<1>2. CASE o = t
  BY <1>2 DEF ResultInv
<1>3. CASE o # t
  BY <1>1, <1>3 DEF ResultInv, Only, At
<1> QED BY <1>2, <1>3

LEMMA WaitKeeps ==
  ASSUME WaitInv, KeyInv, SaysKept, NEW t \in Tasks, Only(t), UNCHANGED result,
         t \in Sends => /\ task'[t].pc = "wait" => AwaitsRightly(t)'
                        /\ result[t] = "none" /\ task[t].pc \in Owning
                             => task'[t].pc \in Owning /\ task'[t].release = task[t].release
  PROVE  WaitInv'
<1> SUFFICES ASSUME NEW u \in Sends, task'[u].pc = "wait", u # t
             PROVE  AwaitsRightly(u)'
  BY DEF WaitInv, At
<1>1. u \in Tasks
  BY DEF Tasks
<1>2. task'[u] = task[u] /\ task[u].pc = "wait"
  BY <1>1 DEF Only
<1>3. EventOf[u] \in Events /\ task[u].release \in Releases
  BY <1>1, <1>2, EventAssumption DEF KeyInv, Keyed, Inside
<1> DEFINE o == task[u].joined
<1>4. /\ o \in Sends /\ EventOf[o] = EventOf[u] /\ o \in Tasks
      /\ result[o] = "none" => task[o].pc \in Owning /\ task[o].release = task[u].release
      /\ result[o] = "drop" => Says(ai, EventOf[u], task[u].release)
  BY <1>2 DEF WaitInv, AwaitsRightly, At, Tasks
<1> HIDE DEF o
<1>5. result[o] = "none" => task'[o].pc \in Owning /\ task'[o].release = task[u].release
  BY <1>4 DEF Only
<1> QED BY <1>2, <1>3, <1>4, <1>5 DEF SaysKept, AwaitsRightly, o

LEMMA DropKeeps ==
  ASSUME TypeOK, DropInv, SaysKept, NEW t \in Tasks, Only(t), UNCHANGED drops,
         t \in Sends => /\ task[t].pc \in {"dropped", "suppressed", "gone"}
                             => task'[t].pc \in {"dropped", "suppressed", "gone"}
                        /\ task'[t].pc \in {"dropped", "suppressed"} => task[t].pc \in {"dropped", "suppressed"}
  PROVE  DropInv'
<1>1. ASSUME NEW d \in drops
      PROVE  Says(ai', EventOf[d.by], d.release) /\ task'[d.by].pc \in {"dropped", "suppressed", "gone"}
  <2>1. d.by \in Sends /\ d.by \in Tasks /\ d.release \in Releases
    BY DEF TypeOK, Drop, Tasks
  <2>2. EventOf[d.by] \in Events
    BY <2>1, EventAssumption
  <2> QED BY <2>1, <2>2 DEF DropInv, SaysKept, Only
<1>2. ASSUME NEW u \in Sends, task'[u].pc \in {"dropped", "suppressed"}
      PROVE  \E d \in drops : d.by = u
  <2>1. u \in Tasks
    BY DEF Tasks
  <2>2. task[u].pc \in {"dropped", "suppressed"}
    BY <1>2, <2>1 DEF Only
  <2> QED BY <2>2 DEF DropInv
<1> QED BY <1>1, <1>2 DEF DropInv

LEMMA ApprovalKeeps ==
  ASSUME ApprovalInv, NEW t \in Tasks, Only(t), UNCHANGED <<approvals, void>>,
         task'[t].pc = "drop" => task'[t].approval \in DOMAIN approvals
  PROVE  ApprovalInv'
  BY DEF ApprovalInv, Only, At

LEMMA SlotKeeps ==
  ASSUME SlotInv, NEW t \in Tasks, Only(t), UNCHANGED slots,
         t \in Sends => (task[t].pc \in Inside <=> task'[t].pc \in Inside)
  PROVE  SlotInv'
<1>1. \A u \in Sends : task[u].pc \in Inside <=> task'[u].pc \in Inside
  BY DEF Only, Tasks
<1>2. In' = In
  BY <1>1 DEF In
<1> QED BY <1>2 DEF SlotInv

\* A step that leaves rows, flights and decisions alone.
LEMMA QuietStep ==
  ASSUME TypeOK, MainInv, NEW t \in Tasks, Only(t),
         UNCHANGED <<config, decided, flight, result, drops>>,
         task'[t].pc \notin Mine \cup Carrying \cup {"wait"},
         task'[t].pc \in Keyed => task'[t].release \in Releases,
         t \in Sends =>
           /\ task[t].pc \in Owning <=> task'[t].pc \in Owning
           /\ task[t].pc \in Owning => task'[t].release = task[t].release
           /\ task[t].pc \in After => task'[t].pc \in After
           /\ task[t].pc \in {"dropped", "suppressed", "gone"} => task'[t].pc \in {"dropped", "suppressed", "gone"}
           /\ task'[t].pc \in {"dropped", "suppressed"} => task[t].pc \in {"dropped", "suppressed"}
  PROVE  MainInv'
<1>1. /\ KeyInv /\ HolderInv /\ RowInv /\ AnswerInv /\ FlightInv
      /\ ResultInv /\ WaitInv /\ DropInv /\ ApprovalInv
      /\ UNCHANGED <<ai, calls, approvals, void>>
  BY DEF MainInv, decided, config
<1>2. SaysKept /\ RowInv'
  BY <1>1, RowKeeps
<1>3. task'[t].pc \notin Mine /\ task'[t].pc \notin Carrying /\ task'[t].pc # "wait"
      /\ task'[t].pc # "forget" /\ task'[t].pc # "drop"
  BY DEF Carrying
<1>4. KeyInv' /\ HolderInv'
  BY <1>1, <1>3, KeyKeeps, HolderKeeps
<1>5. AnswerInv'
  BY <1>1, <1>2, <1>3, AnswerKeeps
<1>6. FlightInv' /\ ResultInv'
  BY <1>1, <1>3, FlightKeeps, ResultKeeps
<1>7. WaitInv'
  BY <1>1, <1>2, <1>3, WaitKeeps
<1>8. DropInv' /\ ApprovalInv'
  BY <1>1, <1>2, <1>3, DropKeeps, ApprovalKeeps
<1> QED BY <1>2, <1>4, <1>5, <1>6, <1>7, <1>8 DEF MainInv

\* What a step that leaves the table and the gate alone keeps of the types.
LEMMA QuietTypes ==
  ASSUME TypeOK, NEW t \in Tasks, Only(t), UNCHANGED <<config, decided, flight, result, drops, recovered>>,
         slots' \in Nat, Fault \/ NoFault
  PROVE  TypeOK'
<1>1. TaskTypes
  BY DecidedTypes, TroubleTypes DEF TaskTypes, Only, TypeOK
<1> QED BY <1>1, TaskStepTypes

StepInv == TypeOK /\ MainInv /\ SlotInv

Early == {"idle", "policy", "switch", "gate", "release", "ready", "flight", "pass", "sent"}
LEMMA EarlyFacts ==
  ASSUME NEW pc \in Early
  PROVE  /\ pc \in Places /\ pc \notin Mine \cup Carrying \cup {"wait"} /\ pc \notin Owning
         /\ pc \notin {"dropped", "suppressed", "gone"}
         /\ pc \in Keyed => pc \in {"ready", "flight"}
         /\ pc \in After => pc \in {"pass", "sent"}
         /\ pc \in Inside <=> pc \in {"release", "ready", "flight", "pass"}
  BY DEF Early, Places, Before, Inside, Ended, Mine, Carrying, Owning, Keyed, After

\* A step of an evaluation before its flight or after its decision.
LEMMA EarlyStep ==
  ASSUME StepInv, NEW t \in Sends, Only(t), UNCHANGED <<config, decided, flight, result, drops, recovered>>,
         Fault \/ NoFault,
         task[t].pc \in Early \ {"pass", "sent"}, task'[t].pc \in Early,
         task'[t].pc \in {"ready", "flight"} => task'[t].release \in Releases
  PROVE  /\ MainInv' /\ (slots' \in Nat => TypeOK')
         /\ UNCHANGED slots /\ (task[t].pc \in Inside <=> task'[t].pc \in Inside) => SlotInv'
<1>1. t \in Tasks /\ TypeOK /\ MainInv /\ SlotInv
  BY DEF StepInv, Tasks
<1>2. task[t].pc \in Early /\ task[t].pc \notin After
  BY EarlyFacts
<1>3. MainInv'
  BY <1>1, <1>2, EarlyFacts, QuietStep
<1>4. slots' \in Nat => TypeOK'
  BY <1>1, QuietTypes
<1>5. UNCHANGED slots /\ (task[t].pc \in Inside <=> task'[t].pc \in Inside) => SlotInv'
  BY <1>1, SlotKeeps
<1> QED BY <1>3, <1>4, <1>5

LEMMA InFinite == IsFiniteSet(In) /\ Cardinality(In) \in Nat
<1>1. In \subseteq Sends
  BY DEF In
<1>2. IsFiniteSet(In)
  BY <1>1, TaskAssumption, FS_Subset
<1> QED BY <1>2, FS_CardinalityType

LEMMA BeforeGate ==
  ASSUME StepInv, NEW t \in Sends, ResolveRoute(t) \/ ObserveRelease(t) \/ CheckSwitch(t)
  PROVE  StepInv'
<1>1. t \in Tasks /\ TypeOK
  BY DEF StepInv, Tasks
<1>2. /\ UNCHANGED <<config, decided, flight, result, slots, drops, recovered>>
      /\ Fault \/ NoFault
      /\ task[t].pc \in {"idle", "policy", "switch"}
  BY DEF ResolveRoute, ObserveRelease, CheckSwitch, gate, NoFault, At
<1>3. Only(t) /\ task'[t].pc \in {"policy", "sent", "switch", "gate"}
  <2>1. CASE ResolveRoute(t)
    BY <1>1, <2>1, SetPolicy, Left, PlaceNames DEF ResolveRoute, TypeOK
  <2>2. CASE ObserveRelease(t)
    BY <1>1, <2>2, SetRelease DEF ObserveRelease, TypeOK
  <2>3. CASE CheckSwitch(t)
    BY <1>1, <2>3, Went, Left, PlaceNames DEF CheckSwitch
  <2> QED BY <2>1, <2>2, <2>3
<1>4. task[t].pc \in Early \ {"pass", "sent"} /\ task'[t].pc \in Early
      /\ task[t].pc \notin Inside /\ task'[t].pc \notin Inside /\ slots' \in Nat
  BY <1>1, <1>2, <1>3, EarlyFacts DEF Early, TypeOK
<1>5. task'[t].pc \notin {"ready", "flight"}
  BY <1>3
<1> QED BY <1>2, <1>3, <1>4, <1>5, EarlyStep DEF StepInv

LEMMA AcquireStep ==
  ASSUME StepInv, NEW t \in Sends, Acquire(t)
  PROVE  StepInv'
<1>1. t \in Tasks /\ TypeOK /\ SlotInv
  BY DEF StepInv, Tasks
<1>2. /\ UNCHANGED <<config, decided, flight, result, drops, recovered>> /\ NoFault
      /\ task[t].pc = "gate"
  BY DEF Acquire, NoFault, At
<1>3. CASE slots < MaxConcurrency /\ slots' = slots + 1 /\ Go(t, "release")
  <2>1. Only(t) /\ task'[t].pc = "release"
    BY <1>1, <1>3, Went, PlaceNames
  <2>2. task[t].pc \in Early \ {"pass", "sent"} /\ task'[t].pc \in Early
        /\ task[t].pc \notin Inside /\ task'[t].pc \in Inside /\ slots' \in Nat
    BY <1>1, <1>2, <1>3, <2>1, EarlyFacts DEF Early, TypeOK
  <2>3. MainInv' /\ TypeOK'
    BY <1>2, <2>1, <2>2, EarlyStep
  <2>4. In' = In \cup {t} /\ t \notin In
    BY <1>1, <2>1, <2>2 DEF In, Only, Tasks
  <2>5. Cardinality(In') = Cardinality(In) + 1
    BY <2>4, InFinite, FS_AddElement
  <2>6. SlotInv'
    BY <1>1, <1>3, <2>5, InFinite, CapacityAssumption DEF SlotInv
  <2> QED BY <2>3, <2>6 DEF StepInv
<1>4. CASE UNCHANGED slots /\ Leave(t, "sent")
  <2>1. Only(t) /\ task'[t].pc = "sent"
    BY <1>1, <1>4, Left, PlaceNames
  <2>2. task[t].pc \in Early \ {"pass", "sent"} /\ task'[t].pc \in Early
        /\ task[t].pc \notin Inside /\ task'[t].pc \notin Inside /\ slots' \in Nat
    BY <1>1, <1>2, <1>4, <2>1, EarlyFacts DEF Early, TypeOK
  <2> QED BY <1>2, <1>4, <2>1, <2>2, EarlyStep DEF StepInv
<1> QED BY <1>3, <1>4 DEF Acquire

LEMMA CheckStep ==
  ASSUME StepInv, NEW t \in Sends, CheckRelease(t) \/ CheckReady(t)
  PROVE  StepInv'
<1>1. t \in Tasks /\ TypeOK /\ MainInv
  BY DEF StepInv, Tasks
<1>2. /\ UNCHANGED <<config, decided, flight, result, slots, drops, recovered>>
      /\ Fault \/ NoFault
      /\ task[t].pc \in {"release", "ready"}
  BY DEF CheckRelease, CheckReady, gate, NoFault, At
<1>3. /\ Only(t) /\ task'[t].pc \in {"ready", "flight", "pass"}
      /\ task'[t].pc \in {"ready", "flight"} => task'[t].release \in Releases
  <2>1. CASE CheckRelease(t)
    <3>1. CASE Go(t, "pass")
      BY <1>1, <3>1, Went, PlaceNames
    <3>2. CASE ~Go(t, "pass")
      <4>1. active \in Releases /\ task' = [task EXCEPT ![t] = [@ EXCEPT !.pc = "ready", !.release = active]]
        BY <1>1, <2>1, <3>2 DEF CheckRelease, TypeOK
      <4> QED BY <1>1, <4>1, SetRelease
    <3> QED BY <3>1, <3>2
  <2>2. CASE CheckReady(t)
    <3>1. task[t].release \in Releases
      BY <1>1, <2>2 DEF CheckReady, At, MainInv, KeyInv, Keyed, Inside
    <3> QED BY <1>1, <2>2, <3>1, Went, PlaceNames DEF CheckReady
  <2> QED BY <2>1, <2>2
<1>4. task[t].pc \in Early \ {"pass", "sent"} /\ task'[t].pc \in Early
      /\ task[t].pc \in Inside /\ task'[t].pc \in Inside /\ slots' \in Nat
  BY <1>1, <1>2, <1>3, EarlyFacts DEF Early, TypeOK
<1> QED BY <1>2, <1>3, <1>4, EarlyStep DEF StepInv

--------------------------------------------------------------------------------
(* Flights and decisions. *)

\* The parts that do not look at the gate.
TableInv == KeyInv /\ HolderInv /\ RowInv /\ AnswerInv /\ DropInv /\ ApprovalInv
CarriesOn(t) ==
  task'[t].pc \in Carrying =>
    /\ task'[t].answer # "none"
    /\ task'[t].answer = "drop" => Says(ai, EventOf[t], task'[t].release)
    /\ task'[t].pc = "drop" => task'[t].answer = "drop" /\ task'[t].approval \in DOMAIN approvals

LEMMA TableStep ==
  ASSUME TypeOK, MainInv, NEW t \in Sends, Only(t), UNCHANGED <<config, decided, drops>>,
         task'[t].pc \notin Mine, task'[t].pc \in Keyed => task'[t].release \in Releases, CarriesOn(t),
         task[t].pc \notin {"dropped", "suppressed", "gone"},
         task'[t].pc \notin {"dropped", "suppressed", "gone"}
  PROVE  TableInv' /\ SaysKept
<1>1. /\ t \in Tasks /\ KeyInv /\ HolderInv /\ RowInv /\ AnswerInv /\ DropInv /\ ApprovalInv
      /\ UNCHANGED <<ai, calls, approvals, void>>
  BY DEF MainInv, decided, config, Tasks
<1>2. SaysKept /\ RowInv'
  BY <1>1, RowKeeps
<1>3. KeyInv' /\ HolderInv'
  BY <1>1, KeyKeeps, HolderKeeps
<1>4. AnswerInv'
  <2>1. task'[t].pc \in Carrying => /\ task'[t].answer # "none"
                                    /\ task'[t].answer = "drop" => Says(ai', EventOf[t], task'[t].release)
                                    /\ task'[t].pc = "drop" => task'[t].answer = "drop"
    BY <1>1 DEF CarriesOn
  <2> QED BY <1>1, <1>2, <2>1, AnswerKeeps
<1>5. ApprovalInv'
  <2>1. task'[t].pc = "drop" => task'[t].approval \in DOMAIN approvals
    BY DEF CarriesOn, Carrying
  <2> QED BY <1>1, <2>1, ApprovalKeeps
<1>6. DropInv'
  BY <1>1, <1>2, DropKeeps
<1> QED BY <1>2, <1>3, <1>4, <1>5, <1>6 DEF TableInv

\* The types after a step of the gate.
LEMMA GateStepTypes ==
  ASSUME TypeOK, NEW t \in Tasks, Only(t), UNCHANGED <<config, decided, slots, drops, recovered>>,
         flight' \in [Events -> [Releases -> Sends \cup {NoTask}]], result' \in [Sends -> Answers],
         Fault \/ NoFault
  PROVE  TypeOK'
<1>1. TaskTypes
  BY DecidedTypes, TroubleTypes DEF TaskTypes, Only, TypeOK
<1> QED BY <1>1, TaskStepTypes

LEMMA OwnFlight ==
  ASSUME StepInv, NEW t \in Sends, At(t, "flight"), FlightOf(t) = NoTask, Fly(t, t), Go(t, "claim"), NoFault,
         UNCHANGED <<config, decided, result, slots, drops, recovered>>
  PROVE  StepInv'
<1>1. /\ t \in Tasks /\ TypeOK /\ MainInv /\ SlotInv /\ t # NoTask
      /\ KeyInv /\ FlightInv /\ ResultInv /\ WaitInv
  BY TaskAssumption DEF StepInv, MainInv, Tasks
<1>2. /\ Only(t) /\ task[t].pc = "flight" /\ task'[t].pc = "claim" /\ task'[t].release = task[t].release
      /\ task[t].release \in Releases
  BY <1>1, Went, PlaceNames DEF At, KeyInv, Keyed, Inside
<1>3. /\ flight' \in [Events -> [Releases -> Sends \cup {NoTask}]]
      /\ flight'[EventOf[t]][task[t].release] = t
      /\ \A e \in Events, r \in Releases :
           e # EventOf[t] \/ r # task[t].release => flight'[e][r] = flight[e][r]
  BY <1>1, <1>2, Flew
<1>4. TypeOK'
  BY <1>1, <1>2, <1>3, GateStepTypes DEF TypeOK
<1>5. TableInv' /\ SaysKept
  BY <1>1, <1>2, TableStep DEF Mine, Keyed, Carrying, CarriesOn
<1>6. FlightInv'
  <2>1. ASSUME NEW u \in Sends, task'[u].pc \in Owning
        PROVE  FlightOf(u)' = u
    <3>1. CASE u = t
      BY <1>2, <1>3, <3>1 DEF FlightOf
    <3>2. CASE u # t
      <4>1. u \in Tasks /\ task'[u] = task[u] /\ u # NoTask /\ EventOf[u] \in Events
        BY <1>2, <3>2, TaskAssumption, EventAssumption DEF Only, Tasks
      <4>2. FlightOf(u) = u /\ task[u].release \in Releases
        BY <1>1, <2>1, <4>1 DEF FlightInv, KeyInv, Keyed, Inside, Owning
      <4>3. ~SameKey(u, t)
        BY <4>1, <4>2 DEF SameKey, FlightOf
      <4> QED BY <1>3, <4>1, <4>2, <4>3 DEF SameKey, FlightOf
    <3> QED BY <3>1, <3>2
  <2>2. ASSUME NEW e \in Events, NEW r \in Releases, flight'[e][r] # NoTask
        PROVE  LET o == flight'[e][r] IN task'[o].pc \in Owning /\ EventOf[o] = e /\ task'[o].release = r
    <3>1. CASE e = EventOf[t] /\ r = task[t].release
      BY <1>2, <1>3, <3>1 DEF Owning
    <3>2. CASE ~(e = EventOf[t] /\ r = task[t].release)
      <4> DEFINE o == flight[e][r]
      <4>1. /\ flight'[e][r] = o /\ o \in Tasks
            /\ task[o].pc \in Owning /\ EventOf[o] = e /\ task[o].release = r
        BY <1>1, <1>3, <2>2, <3>2 DEF FlightInv, TypeOK, Tasks
      <4> HIDE DEF o
      <4>2. o # t
        BY <1>2, <4>1 DEF Owning
      <4> QED BY <1>2, <4>1, <4>2 DEF Only
    <3> QED BY <3>1, <3>2
  <2> QED BY <2>1, <2>2 DEF FlightInv
<1>7. ResultInv'
  BY <1>1, <1>2, ResultKeeps DEF After, Ended
<1>8. WaitInv'
  BY <1>1, <1>2, <1>5, WaitKeeps DEF Owning
<1>9. SlotInv'
  BY <1>1, <1>2, SlotKeeps DEF Inside, Owning
<1>10. MainInv'
  BY <1>5, <1>6, <1>7, <1>8 DEF MainInv, TableInv
<1> QED BY <1>4, <1>9, <1>10 DEF StepInv

\* The owner of a flight, seen by who joins it.
LEMMA Joined ==
  ASSUME StepInv, NEW t \in Sends, At(t, "flight"), FlightOf(t) # NoTask
  PROVE  LET o == FlightOf(t) IN
           /\ o \in Sends /\ o # t /\ task[o].pc \in Owning
           /\ EventOf[o] = EventOf[t] /\ task[o].release = task[t].release
           /\ result[o] = "drop" => Says(ai, EventOf[t], task[t].release)
<1> DEFINE o == FlightOf(t)
<1>1. t \in Tasks /\ EventOf[t] \in Events /\ task[t].release \in Releases
  BY EventAssumption DEF StepInv, MainInv, KeyInv, Keyed, Inside, At, Tasks
<1>2. o \in Sends /\ o \in Tasks /\ task[o].pc \in Owning /\ SameKey(o, t)
  BY <1>1 DEF StepInv, MainInv, FlightInv, TypeOK, FlightOf, SameKey, Tasks
<1> HIDE DEF o
<1>3. o # t
  BY <1>2 DEF Owning, At
<1>4. ASSUME result[o] = "drop"
      PROVE  Says(ai, EventOf[t], task[t].release)
  <2>1. task[o].pc = "forget" /\ task[o].answer = "drop"
    BY <1>2, <1>4 DEF StepInv, MainInv, ResultInv, After, Ended, Owning, At
  <2> QED BY <1>2, <2>1 DEF StepInv, MainInv, AnswerInv, Carrying, SameKey
<1> QED BY <1>2, <1>3, <1>4 DEF SameKey, o

LEMMA JoinStep ==
  ASSUME StepInv, NEW t \in Sends, JoinFlight(t)
  PROVE  StepInv'
<1>1. /\ t \in Tasks /\ TypeOK /\ MainInv /\ SlotInv
      /\ KeyInv /\ FlightInv /\ ResultInv /\ WaitInv
  BY DEF StepInv, MainInv, Tasks
<1>2. /\ UNCHANGED <<config, decided, result, slots, drops, recovered>> /\ At(t, "flight")
      /\ Fault \/ NoFault
      /\ task[t].pc = "flight" /\ task[t].release \in Releases
  BY <1>1 DEF JoinFlight, At, KeyInv, Keyed, Inside
<1>3. CASE FlightOf(t) = NoTask /\ Fly(t, t) /\ Go(t, "claim") /\ NoFault
  BY <1>2, <1>3, OwnFlight
<1>4. CASE FlightOf(t) # NoTask /\ UNCHANGED flight
             /\ task' = [task EXCEPT ![t] = [@ EXCEPT !.pc = "wait", !.joined = FlightOf(t)]]
  <2> DEFINE o == FlightOf(t)
  <2>1. /\ o \in Sends /\ o # t /\ o \in Tasks /\ task[o].pc \in Owning
        /\ EventOf[o] = EventOf[t] /\ task[o].release = task[t].release
        /\ result[o] = "drop" => Says(ai, EventOf[t], task[t].release)
    BY <1>2, <1>4, Joined DEF Tasks
  <2>2. Only(t) /\ task'[t].pc = "wait" /\ task'[t].joined = o /\ task'[t].release = task[t].release
    BY <1>1, <1>4, <2>1, SetJoined
  <2> HIDE DEF o
  <2>3. TypeOK'
    BY <1>1, <1>2, <1>4, <2>2, GateStepTypes DEF TypeOK
  <2>4. TableInv' /\ SaysKept
    BY <1>1, <1>2, <2>2, TableStep DEF Mine, Keyed, Carrying, CarriesOn
  <2>5. FlightInv' /\ ResultInv'
    BY <1>1, <1>2, <1>4, <2>2, FlightKeeps, ResultKeeps DEF Owning, After, Ended
  <2>6. AwaitsRightly(t)'
    <3>1. task'[o] = task[o] /\ result' = result /\ ai' = ai
      BY <1>2, <2>1, <2>2 DEF Only, decided
    <3> QED BY <2>1, <2>2, <3>1 DEF AwaitsRightly
  <2>7. WaitInv'
    BY <1>1, <1>2, <2>2, <2>4, <2>6, WaitKeeps DEF Owning
  <2>8. SlotInv'
    BY <1>1, <1>2, <2>2, SlotKeeps DEF Inside
  <2> QED BY <2>3, <2>4, <2>5, <2>7, <2>8 DEF StepInv, MainInv, TableInv
<1>5. CASE UNCHANGED flight /\ Go(t, "pass")
  <2>1. Only(t) /\ task'[t].pc = "pass"
    BY <1>1, <1>5, Went, PlaceNames
  <2>2. task[t].pc \in Early \ {"pass", "sent"} /\ task'[t].pc \in Early
        /\ task[t].pc \in Inside /\ task'[t].pc \in Inside /\ slots' \in Nat
    BY <1>1, <1>2, <2>1, EarlyFacts DEF Early, TypeOK
  <2> QED BY <1>2, <1>5, <2>1, <2>2, EarlyStep DEF StepInv
<1> QED BY <1>3, <1>4, <1>5 DEF JoinFlight

\* A flight that is neither begun nor ended by t.
LEMMA GateKept ==
  ASSUME TypeOK, MainInv, SlotInv, SaysKept, NEW t \in Sends, Only(t), UNCHANGED gate,
         task[t].pc \in Owning <=> task'[t].pc \in Owning,
         task[t].pc \in Owning => task'[t].release = task[t].release,
         task[t].pc \in After => task'[t].pc \in After,
         task'[t].pc \notin {"forget", "wait"},
         task[t].pc \in Inside <=> task'[t].pc \in Inside
  PROVE  FlightInv' /\ ResultInv' /\ WaitInv' /\ SlotInv'
<1>1. /\ t \in Tasks /\ KeyInv /\ FlightInv /\ ResultInv /\ WaitInv /\ UNCHANGED <<flight, result, slots>>
  BY DEF MainInv, gate, Tasks
<1> QED BY <1>1, FlightKeeps, ResultKeeps, WaitKeeps, SlotKeeps

LEMMA WaitStep ==
  ASSUME StepInv, NEW t \in Sends, Wait(t)
  PROVE  StepInv'
<1> DEFINE o == task[t].joined
<1>1. /\ t \in Tasks /\ TypeOK /\ MainInv /\ SlotInv /\ WaitInv /\ KeyInv
  BY DEF StepInv, MainInv, Tasks
<1>2. /\ UNCHANGED <<config, decided, gate, slots, drops, recovered>> /\ NoFault
      /\ task[t].pc = "wait" /\ result[o] # "none"
      /\ task' = [task EXCEPT ![t] = [@ EXCEPT !.pc = "judge", !.answer = result[o]]]
  BY DEF Wait, At, gate, NoFault
<1>3. /\ o \in Sends /\ result[o] \in Answers /\ task[t].release \in Releases
      /\ result[o] = "drop" => Says(ai, EventOf[t], task[t].release)
  BY <1>1, <1>2 DEF WaitInv, AwaitsRightly, At, TypeOK, KeyInv, Keyed, Inside
<1>4. Only(t) /\ task'[t].pc = "judge" /\ task'[t].answer = result[o] /\ task'[t].release = task[t].release
  BY <1>1, <1>2, <1>3, SetAnswer
<1> HIDE DEF o
<1>5. TypeOK'
  BY <1>1, <1>2, <1>4, GateStepTypes DEF TypeOK, gate
<1>6. TableInv' /\ SaysKept
  BY <1>1, <1>2, <1>3, <1>4, TableStep DEF Mine, Carrying, CarriesOn
<1>7. FlightInv' /\ ResultInv' /\ WaitInv' /\ SlotInv'
  BY <1>1, <1>2, <1>4, <1>6, GateKept DEF Owning, After, Ended, Inside
<1> QED BY <1>5, <1>6, <1>7 DEF StepInv, MainInv, TableInv

LEMMA CloseStep ==
  ASSUME StepInv, NEW t \in Sends, Close(t)
  PROVE  StepInv'
<1>1. /\ t \in Tasks /\ TypeOK /\ MainInv /\ SlotInv
      /\ KeyInv /\ AnswerInv /\ FlightInv /\ ResultInv /\ WaitInv
  BY DEF StepInv, MainInv, Tasks
<1>2. /\ UNCHANGED <<config, decided, flight, slots, drops, recovered>> /\ NoFault
      /\ task[t].pc = "close" /\ result' = [result EXCEPT ![t] = task[t].answer]
      /\ Go(t, "forget")
  BY DEF Close, At, NoFault
<1>3. /\ task[t].release \in Releases /\ task[t].answer \in Answers \ {"none"}
      /\ task[t].answer = "drop" => Says(ai, EventOf[t], task[t].release)
      /\ result[t] = "none"
  BY <1>1, <1>2, TaskShape DEF KeyInv, Keyed, Inside, Owning, AnswerInv, Carrying, ResultInv, After, Ended
<1>4. Only(t) /\ task'[t].pc = "forget" /\ task'[t].answer = task[t].answer /\ task'[t].release = task[t].release
  BY <1>1, <1>2, Went, PlaceNames
<1>5. /\ result' \in [Sends -> Answers] /\ result'[t] = task[t].answer
      /\ \A o \in Sends \ {t} : result'[o] = result[o]
  BY <1>1, <1>2, <1>3 DEF TypeOK
<1>6. TypeOK'
  BY <1>1, <1>2, <1>4, <1>5, GateStepTypes DEF TypeOK
<1>7. TableInv' /\ SaysKept
  BY <1>1, <1>2, <1>3, <1>4, TableStep DEF Mine, Carrying, CarriesOn
<1>8. FlightInv'
  BY <1>1, <1>2, <1>4, FlightKeeps DEF Owning
<1>9. ResultInv'
  <2> SUFFICES ASSUME NEW o \in Sends
               PROVE  /\ result'[o] # "none" => task'[o].pc \in After
                      /\ task'[o].pc = "forget" => result'[o] = task'[o].answer
    BY DEF ResultInv, At
  <2>1. CASE o = t
    BY <1>4, <1>5, <2>1 DEF After
  <2>2. CASE o # t
    BY <1>1, <1>4, <1>5, <2>2 DEF ResultInv, Only, At, Tasks
  <2> QED BY <2>1, <2>2
<1>10. WaitInv'
  <2> SUFFICES ASSUME NEW u \in Sends, task'[u].pc = "wait"
               PROVE  AwaitsRightly(u)'
    BY DEF WaitInv, At
  <2> DEFINE o == task[u].joined
  <2>1. u \in Tasks /\ task'[u] = task[u] /\ AwaitsRightly(u) /\ task[u].pc = "wait"
    BY <1>1, <1>4 DEF WaitInv, At, Only, Tasks
  <2>2. /\ o \in Sends /\ EventOf[o] = EventOf[u] /\ o \in Tasks
        /\ result[o] = "none" => task[o].pc \in Owning /\ task[o].release = task[u].release
        /\ result[o] = "drop" => Says(ai, EventOf[u], task[u].release)
    BY <2>1 DEF AwaitsRightly, Tasks
  <2>3. ai' = ai
    BY <1>2 DEF decided
  <2> HIDE DEF o
  <2>4. CASE o = t
    BY <1>3, <1>5, <2>1, <2>2, <2>3, <2>4 DEF AwaitsRightly, o
  <2>5. CASE o # t
    <3>1. task'[o] = task[o] /\ result'[o] = result[o]
      BY <1>4, <1>5, <2>2, <2>5 DEF Only
    <3> QED BY <2>1, <2>2, <2>3, <3>1 DEF AwaitsRightly, o
  <2> QED BY <2>4, <2>5
<1>11. SlotInv'
  BY <1>1, <1>2, <1>4, SlotKeeps DEF Inside, Owning
<1> QED BY <1>6, <1>7, <1>8, <1>9, <1>10, <1>11 DEF StepInv, MainInv, TableInv

LEMMA ForgetStep ==
  ASSUME StepInv, NEW t \in Sends, Forget(t)
  PROVE  StepInv'
<1>1. /\ t \in Tasks /\ TypeOK /\ MainInv /\ SlotInv
      /\ KeyInv /\ AnswerInv /\ FlightInv /\ ResultInv /\ WaitInv
  BY DEF StepInv, MainInv, Tasks
<1>2. /\ UNCHANGED <<config, decided, result, slots, drops, recovered>> /\ NoFault
      /\ task[t].pc = "forget" /\ Fly(t, NoTask) /\ Go(t, "judge")
  BY DEF Forget, At, NoFault
<1>3. /\ task[t].release \in Releases /\ task[t].answer # "none" /\ result[t] = task[t].answer
      /\ task[t].answer = "drop" => Says(ai, EventOf[t], task[t].release)
      /\ FlightOf(t) = t
  BY <1>1, <1>2 DEF KeyInv, Keyed, Inside, Owning, AnswerInv, Carrying, ResultInv, FlightInv, At
<1>4. Only(t) /\ task'[t].pc = "judge" /\ task'[t].answer = task[t].answer /\ task'[t].release = task[t].release
  BY <1>1, <1>2, Went, PlaceNames
<1>5. /\ flight' \in [Events -> [Releases -> Sends \cup {NoTask}]]
      /\ flight'[EventOf[t]][task[t].release] = NoTask
      /\ \A e \in Events, r \in Releases :
           e # EventOf[t] \/ r # task[t].release => flight'[e][r] = flight[e][r]
  BY <1>1, <1>2, <1>3, Flew
<1>6. TypeOK'
  BY <1>1, <1>2, <1>4, <1>5, GateStepTypes DEF TypeOK
<1>7. TableInv' /\ SaysKept
  BY <1>1, <1>2, <1>3, <1>4, TableStep DEF Mine, Carrying, CarriesOn
<1>8. FlightInv'
  <2>1. ASSUME NEW u \in Sends, task'[u].pc \in Owning
        PROVE  FlightOf(u)' = u
    <3>1. u # t /\ u \in Tasks /\ task'[u] = task[u] /\ EventOf[u] \in Events
      BY <1>4, <2>1, EventAssumption DEF Owning, Only, Tasks
    <3>2. FlightOf(u) = u /\ task[u].release \in Releases
      BY <1>1, <2>1, <3>1 DEF FlightInv, KeyInv, Keyed, Inside, Owning
    <3>3. ~SameKey(u, t)
      BY <1>3, <3>1, <3>2 DEF SameKey, FlightOf
    <3> QED BY <1>5, <3>1, <3>2, <3>3 DEF SameKey, FlightOf
  <2>2. ASSUME NEW e \in Events, NEW r \in Releases, flight'[e][r] # NoTask
        PROVE  LET o == flight'[e][r] IN task'[o].pc \in Owning /\ EventOf[o] = e /\ task'[o].release = r
    <3> DEFINE o == flight[e][r]
    <3>1. ~(e = EventOf[t] /\ r = task[t].release) /\ flight'[e][r] = o
      BY <1>5, <2>2
    <3>2. o \in Tasks /\ task[o].pc \in Owning /\ EventOf[o] = e /\ task[o].release = r
      BY <1>1, <2>2, <3>1 DEF FlightInv, TypeOK, Tasks
    <3> HIDE DEF o
    <3>3. o # t
      BY <3>1, <3>2
    <3> QED BY <1>4, <3>1, <3>2, <3>3 DEF Only
  <2> QED BY <2>1, <2>2 DEF FlightInv
<1>9. ResultInv'
  BY <1>1, <1>2, <1>4, ResultKeeps DEF After
<1>10. WaitInv'
  BY <1>1, <1>2, <1>3, <1>4, <1>7, WaitKeeps
<1>11. SlotInv'
  BY <1>1, <1>2, <1>4, SlotKeeps DEF Inside, Owning
<1> QED BY <1>6, <1>7, <1>8, <1>9, <1>10, <1>11 DEF StepInv, MainInv, TableInv

LEMMA JudgeStep ==
  ASSUME StepInv, NEW t \in Sends, Judge(t)
  PROVE  StepInv'
<1>1. /\ t \in Tasks /\ TypeOK /\ MainInv /\ SlotInv /\ AnswerInv /\ KeyInv
  BY DEF StepInv, MainInv, Tasks
<1>2. /\ UNCHANGED <<config, decided, gate, slots, drops, recovered>> /\ NoFault
      /\ task[t].pc = "judge" /\ task[t].release \in Releases
      /\ task[t].answer = "drop" => Says(ai, EventOf[t], task[t].release)
  BY <1>1 DEF Judge, At, gate, NoFault, AnswerInv, Carrying, KeyInv, Keyed, Inside
<1>3. /\ Only(t) /\ task'[t].pc \in {"pass", "drop"} /\ CarriesOn(t)
      /\ task'[t].pc = "drop" => task'[t].release \in Releases
  <2>1. CASE Go(t, "pass")
    BY <1>1, <2>1, Went, PlaceNames DEF CarriesOn, Carrying
  <2>2. CASE /\ task[t].answer = "drop"
             /\ \E i \in DOMAIN approvals :
                  task' = [task EXCEPT ![t] = [@ EXCEPT !.pc = "drop", !.approval = i]]
    <3>1. PICK i \in DOMAIN approvals :
            task' = [task EXCEPT ![t] = [@ EXCEPT !.pc = "drop", !.approval = i]]
      BY <2>2
    <3>2. i \in Nat
      BY <1>1, <3>1 DEF TypeOK
    <3>3. /\ Only(t) /\ task'[t].pc = "drop" /\ task'[t].approval = i
          /\ task'[t].release = task[t].release /\ task'[t].answer = task[t].answer
      BY <1>1, <3>1, <3>2, SetApproval
    <3> QED BY <1>2, <2>2, <3>1, <3>3 DEF CarriesOn
  <2> QED BY <2>1, <2>2 DEF Judge
<1>4. TypeOK'
  BY <1>1, <1>2, <1>3, GateStepTypes DEF TypeOK, gate
<1>5. TableInv' /\ SaysKept
  BY <1>1, <1>2, <1>3, TableStep DEF Mine, Keyed
<1>6. FlightInv' /\ ResultInv' /\ WaitInv' /\ SlotInv'
  BY <1>1, <1>2, <1>3, <1>5, GateKept DEF Owning, After, Inside
<1> QED BY <1>4, <1>5, <1>6 DEF StepInv, MainInv, TableInv

LEMMA PersistStep ==
  ASSUME StepInv, NEW t \in Sends, PersistDrop(t)
  PROVE  StepInv'
<1>1. /\ t \in Tasks /\ TypeOK /\ MainInv /\ SlotInv
      /\ KeyInv /\ HolderInv /\ RowInv /\ AnswerInv /\ DropInv /\ ApprovalInv
  BY DEF StepInv, MainInv, Tasks
<1>2. /\ UNCHANGED <<config, decided, gate, slots, recovered, ai, calls, approvals, void>>
      /\ Fault \/ NoFault
      /\ task[t].pc = "drop" /\ task[t].release \in Releases /\ Says(ai, EventOf[t], task[t].release)
  BY <1>1 DEF PersistDrop, At, gate, decided, config, AnswerInv, Carrying, KeyInv, Keyed, Inside
<1>3. CASE UNCHANGED drops /\ Go(t, "pass")
  <2>1. Only(t) /\ task'[t].pc = "pass"
    BY <1>1, <1>3, Went, PlaceNames
  <2>2. TypeOK'
    BY <1>1, <1>2, <1>3, <2>1, GateStepTypes DEF TypeOK, gate
  <2>3. TableInv' /\ SaysKept
    BY <1>1, <1>2, <1>3, <2>1, TableStep DEF Mine, Keyed, CarriesOn, Carrying
  <2>4. FlightInv' /\ ResultInv' /\ WaitInv' /\ SlotInv'
    BY <1>1, <1>2, <2>1, <2>3, GateKept DEF Owning, After, Inside
  <2> QED BY <2>2, <2>3, <2>4 DEF StepInv, MainInv, TableInv
<1>4. CASE /\ Go(t, "dropped") /\ NoFault
           /\ drops' = drops \cup {[by |-> t, release |-> task[t].release, approval |-> task[t].approval]}
  <2> DEFINE d == [by |-> t, release |-> task[t].release, approval |-> task[t].approval]
  <2>1. Only(t) /\ task'[t].pc = "dropped" /\ task'[t].release = task[t].release
    BY <1>1, <1>4, Went, PlaceNames
  <2>2. d \in Drop /\ d.by = t /\ d.release = task[t].release
    BY <1>1, <1>2, TaskShape DEF Drop
  <2>3. drops' \subseteq Drop
    BY <1>1, <1>4, <2>2 DEF TypeOK
  <2>4. TypeOK'
    <3>1. TaskTypes
      BY <1>1, <1>2, <2>1, <2>3, DecidedTypes, GateTypes, TroubleTypes DEF TaskTypes, Only
    <3> QED BY <1>1, <1>2, <3>1, TaskStepTypes
  <2>5. SaysKept /\ RowInv'
    BY <1>1, <1>2, RowKeeps
  <2>6. KeyInv' /\ HolderInv' /\ AnswerInv' /\ ApprovalInv'
    BY <1>1, <1>2, <2>1, <2>5, KeyKeeps, HolderKeeps, AnswerKeeps, ApprovalKeeps DEF Mine, Carrying
  <2>7. DropInv'
    <3>1. ASSUME NEW g \in drops'
          PROVE  Says(ai', EventOf[g.by], g.release) /\ task'[g.by].pc \in {"dropped", "suppressed", "gone"}
      <4>1. CASE g = d
        BY <1>2, <2>1, <2>2, <4>1
      <4>2. CASE g # d
        <5>1. g \in drops /\ g.by \in Sends /\ g.by \in Tasks
          BY <1>1, <1>4, <4>2 DEF TypeOK, Drop, Tasks
        <5>2. Says(ai, EventOf[g.by], g.release) /\ task[g.by].pc \in {"dropped", "suppressed", "gone"}
          BY <1>1, <5>1 DEF DropInv
        <5>3. g.by # t
          BY <1>2, <5>2
        <5> QED BY <1>2, <2>1, <5>1, <5>2, <5>3 DEF Only
      <4> QED BY <4>1, <4>2
    <3>2. ASSUME NEW u \in Sends, task'[u].pc \in {"dropped", "suppressed"}
          PROVE  \E g \in drops' : g.by = u
      <4>1. CASE u = t
        BY <1>4, <2>2, <4>1
      <4>2. CASE u # t
        <5>1. task'[u] = task[u]
          BY <2>1, <4>2 DEF Only, Tasks
        <5> QED BY <1>1, <1>4, <3>2, <5>1 DEF DropInv
      <4> QED BY <4>1, <4>2
    <3> QED BY <3>1, <3>2 DEF DropInv
  <2>8. FlightInv' /\ ResultInv' /\ WaitInv' /\ SlotInv'
    BY <1>1, <1>2, <2>1, <2>5, GateKept DEF Owning, After, Inside
  <2> QED BY <2>4, <2>5, <2>6, <2>7, <2>8 DEF StepInv, MainInv
<1> QED BY <1>3, <1>4 DEF PersistDrop

LEMMA ReturnStep ==
  ASSUME StepInv, NEW t \in Sends, Return(t)
  PROVE  StepInv'
<1>1. t \in Tasks /\ TypeOK /\ MainInv /\ SlotInv
  BY DEF StepInv, Tasks
<1>2. /\ UNCHANGED <<config, decided, flight, result, drops, recovered>> /\ NoFault /\ slots' = slots - 1
      /\ \/ task[t].pc = "dropped" /\ Leave(t, "suppressed")
         \/ task[t].pc = "pass" /\ Leave(t, "sent")
  BY DEF Return, At, NoFault
<1>3. /\ Only(t)
      /\ \/ task[t].pc = "dropped" /\ task'[t].pc = "suppressed"
         \/ task[t].pc = "pass" /\ task'[t].pc = "sent"
  BY <1>1, <1>2, Left, PlaceNames
<1>4. /\ task'[t].pc \notin Mine \cup Carrying \cup {"wait"} /\ task'[t].pc \notin Keyed
      /\ task[t].pc \notin Owning /\ task'[t].pc \notin Owning /\ task'[t].pc \in After
      /\ task[t].pc \in Inside /\ task'[t].pc \notin Inside
  BY <1>3 DEF Mine, Carrying, Keyed, Owning, After, Ended, Inside
<1>5. MainInv'
  BY <1>1, <1>2, <1>3, <1>4, QuietStep
<1>6. In' = In \ {t} /\ t \in In
  BY <1>1, <1>3, <1>4 DEF In, Only, Tasks
<1>7. Cardinality(In') = Cardinality(In) - 1 /\ Cardinality(In') \in Nat
  <2>1. Cardinality(In') = Cardinality(In) - 1
    BY <1>6, InFinite, FS_RemoveElement
  <2>2. IsFiniteSet(In')
    BY <1>6, InFinite, FS_Subset
  <2> QED BY <2>1, <2>2, FS_CardinalityType
<1>8. SlotInv' /\ slots' \in Nat
  BY <1>1, <1>2, <1>7, InFinite, CapacityAssumption DEF SlotInv
<1>9. TypeOK'
  BY <1>1, <1>2, <1>3, <1>8, QuietTypes
<1> QED BY <1>5, <1>8, <1>9 DEF StepInv

--------------------------------------------------------------------------------
(* The classification. *)

Classing == {"claim", "poll"} \cup Mine

\* A step that changes one row, which nobody else has to itself.
LEMMA RowStep ==
  ASSUME HolderInv, RowInv, NEW t \in Tasks, Only(t), NEW k \in Events, NEW s \in Releases,
         \A e \in Events, r \in Releases :
           e # k \/ r # s => ai'[e][r] = ai[e][r] /\ calls'[e][r] = calls[e][r],
         KeyInv, KeyInv',
         \A u \in Tasks \ {t} : task[u].pc \in Mine => ~(EventOf[u] = k /\ task[u].release = s),
         task'[t].pc \in Mine => EventOf[t] = k /\ task'[t].release = s,
         /\ task'[t].pc = "mark" => ai'[k][s].status = "running"
         /\ task'[t].pc = "call" => ai'[k][s].status = "started" /\ calls'[k][s] = 0
         /\ task'[t].pc = "finish" => ai'[k][s].status = "started" /\ task'[t].answer # "none",
         /\ calls'[k][s] <= 1
         /\ ai'[k][s].status \in {"absent", "queued", "running"} => calls'[k][s] = 0
         /\ ai'[k][s].status = "completed" => ai'[k][s].answer \in {"drop", "keep"},
         ~Says(ai, k, s)
  PROVE  HolderInv' /\ RowInv' /\ SaysKept
<1>1. RowInv' /\ SaysKept
  BY DEF RowInv, SaysKept, Says
<1>2. ASSUME NEW u \in Tasks \ {t}, task[u].pc \in Mine
      PROVE  /\ task'[u] = task[u] /\ ai'[EventOf[u]][task[u].release] = RowOf(u)
             /\ calls'[EventOf[u]][task[u].release] = CallsOf(u)
  <2>1. EventOf[u] \in Events /\ task[u].release \in Releases
    BY <1>2, EventAssumption DEF KeyInv, Mine, Keyed, Inside, Owning
  <2> QED BY <1>2, <2>1 DEF Only, RowOf, CallsOf
<1>3. ASSUME NEW u \in Tasks
      PROVE  /\ task'[u].pc = "mark" => RowOf(u)'.status = "running"
             /\ task'[u].pc = "call" => RowOf(u)'.status = "started" /\ CallsOf(u)' = 0
             /\ task'[u].pc = "finish" => RowOf(u)'.status = "started" /\ task'[u].answer # "none"
  <2>1. CASE u = t
    BY <2>1 DEF RowOf, CallsOf, Mine
  <2>2. CASE u # t
    <3>1. task'[u] = task[u]
      BY <2>2 DEF Only
    <3>2. CASE task[u].pc \in Mine
      BY <1>2, <2>2, <3>1, <3>2 DEF HolderInv, RowOf, CallsOf, At
    <3> QED BY <3>1, <3>2 DEF Mine
  <2> QED BY <2>1, <2>2
<1>4. ASSUME NEW u \in Tasks, NEW v \in Tasks,
             task'[u].pc \in Mine, task'[v].pc \in Mine,
             EventOf[u] = EventOf[v], task'[u].release = task'[v].release
      PROVE  u = v
  <2>1. CASE u # t /\ v # t
    <3>1. task'[u] = task[u] /\ task'[v] = task[v]
      BY <2>1 DEF Only
    <3> QED BY <1>4, <3>1 DEF HolderInv, SameKey
  <2>2. CASE u = t /\ v # t
    BY <1>4, <2>2 DEF Only
  <2>3. CASE u # t /\ v = t
    BY <1>4, <2>3 DEF Only
  <2> QED BY <2>1, <2>2, <2>3
<1>5. HolderInv'
  BY <1>3, <1>4 DEF HolderInv, At, SameKey
<1> QED BY <1>1, <1>5

\* Nobody has a row to itself whose status does not say so.
LEMMA FreeRow ==
  ASSUME HolderInv, NEW k \in Events, NEW s \in Releases, ai[k][s].status \notin {"running", "started"}
  PROVE  \A u \in Tasks : task[u].pc \in Mine => ~(EventOf[u] = k /\ task[u].release = s)
  BY DEF HolderInv, Mine, At, RowOf

Proceeds(t) ==
  \/ t \in Jobs /\ (task'[t].pc = "done" \/ (task'[t].pc \in Classing /\ task'[t].release \in Releases))
  \/ /\ t \in Sends /\ task[t].pc \in Classing /\ task'[t].release = task[t].release
     /\ \/ task'[t].pc \in Classing
        \/ /\ task'[t].pc = "close" /\ task'[t].answer # "none"
           /\ task'[t].answer = "drop" => Says(ai', EventOf[t], task'[t].release)

LEMMA ClassKeys ==
  ASSUME KeyInv, NEW t \in Tasks, Only(t), Proceeds(t)
  PROVE  KeyInv'
<1>1. task'[t].pc \in Keyed => task'[t].release \in Releases
  BY DEF KeyInv, Proceeds, Keyed, Classing, Mine, Inside, Owning
<1> QED BY <1>1, KeyKeeps

\* What remains to be seen of a step of the classification, once its row is right.
LEMMA ClassStep ==
  ASSUME StepInv, NEW t \in Tasks, Only(t), Proceeds(t),
         UNCHANGED <<config, gate, drops, recovered>>, Fault \/ NoFault,
         ai' \in [Events -> [Releases -> Row]], calls' \in [Events -> [Releases -> Nat]],
         HolderInv', RowInv', SaysKept
  PROVE  StepInv'
<1>1. /\ TypeOK /\ KeyInv /\ AnswerInv /\ FlightInv /\ ResultInv /\ WaitInv /\ DropInv /\ ApprovalInv
      /\ SlotInv /\ UNCHANGED <<flight, result, slots, approvals, void>>
  BY DEF StepInv, MainInv, gate, config
<1>2. TypeOK'
  <2>1. TaskTypes
    BY <1>1, GateTypes, TroubleTypes DEF TaskTypes, Only, TypeOK
  <2> QED BY <1>1, <2>1, TaskStepTypes
<1>3. KeyInv'
  BY <1>1, ClassKeys
<1>4. AnswerInv'
  <2>1. task'[t].pc \in Carrying => /\ task'[t].answer # "none"
                                    /\ task'[t].answer = "drop" => Says(ai', EventOf[t], task'[t].release)
                                    /\ task'[t].pc = "drop" => task'[t].answer = "drop"
    BY DEF Proceeds, Carrying, Classing, Mine
  <2> QED BY <1>1, <2>1, AnswerKeeps
<1>5. t \in Sends => /\ task[t].pc \in Owning /\ task'[t].pc \in Owning /\ task'[t].release = task[t].release
                     /\ task[t].pc \notin After /\ task'[t].pc \notin {"forget", "wait", "dropped", "suppressed"}
                     /\ task[t].pc \notin {"dropped", "suppressed", "gone"}
                     /\ task[t].pc \in Inside /\ task'[t].pc \in Inside
  BY TaskAssumption DEF Proceeds, Classing, Mine, Owning, After, Ended, Inside
<1>6. FlightInv' /\ ResultInv'
  BY <1>1, <1>5, FlightKeeps, ResultKeeps
<1>7. WaitInv'
  BY <1>1, <1>5, WaitKeeps
<1>8. DropInv' /\ SlotInv'
  BY <1>1, <1>5, DropKeeps, SlotKeeps
<1>9. ApprovalInv'
  <2>1. task'[t].pc # "drop"
    BY DEF Proceeds, Classing, Mine
  <2> QED BY <1>1, <2>1, ApprovalKeeps
<1> QED BY <1>2, <1>3, <1>4, <1>6, <1>7, <1>8, <1>9 DEF StepInv, MainInv

\* A step that leaves the table alone and has no row to itself afterwards.
LEMMA ReadStep ==
  ASSUME StepInv, NEW t \in Tasks, Only(t), Proceeds(t), task'[t].pc \notin Mine,
         UNCHANGED <<config, decided, gate, drops, recovered>>, Fault \/ NoFault
  PROVE  StepInv'
<1>1. TypeOK /\ HolderInv /\ RowInv /\ UNCHANGED <<ai, calls>>
  BY DEF StepInv, MainInv, decided
<1>2. HolderInv' /\ RowInv' /\ SaysKept
  BY <1>1, HolderKeeps, RowKeeps
<1>3. ai' \in [Events -> [Releases -> Row]] /\ calls' \in [Events -> [Releases -> Nat]]
  BY <1>1 DEF TypeOK
<1> QED BY <1>2, <1>3, ClassStep

\* An answer read from the table is one, and a drop is stored.
LEMMA ReadAnswer ==
  ASSUME StepInv, NEW t \in Tasks, task[t].pc \in Classing
  PROVE  /\ task[t].release \in Releases /\ AnswerOf(RowOf(t)) \in {"drop", "keep", "error"}
         /\ AnswerOf(RowOf(t)) = "drop" => Says(ai, EventOf[t], task[t].release)
<1>1. /\ EventOf[t] \in Events /\ task[t].release \in Releases
  BY EventAssumption DEF StepInv, MainInv, KeyInv, Keyed, Inside, Owning, Classing, Mine
<1> QED BY <1>1 DEF StepInv, MainInv, RowInv, AnswerOf, RowOf, Says

LEMMA AnswerStep ==
  ASSUME StepInv, NEW t \in Tasks, task[t].pc \in Classing,
         NEW a \in Answers \ {"none"}, Answered(t, a), a = "drop" => Says(ai', EventOf[t], task[t].release)
  PROVE  Only(t) /\ Proceeds(t) /\ task'[t].pc \notin Mine
<1>1. /\ Only(t)
      /\ t \in Jobs => task'[t].pc = "done"
      /\ t \in Sends => task'[t].pc = "close" /\ task'[t].answer = a /\ task'[t].release = task[t].release
  BY HasAnswer DEF StepInv
<1> QED BY <1>1 DEF Proceeds, Mine, Tasks

\* A poll, a claim of a row that is somebody else's, and every failed statement.
LEMMA PollStep ==
  ASSUME StepInv, NEW t \in Tasks, Poll(t)
  PROVE  StepInv'
<1>1. /\ UNCHANGED <<config, decided, gate, drops, recovered, ai>> /\ NoFault
      /\ task[t].pc \in Classing
      /\ Answered(t, AnswerOf(RowOf(t))) \/ Answered(t, "error")
  BY DEF Poll, At, Classing, NoFault, decided
<1>2. /\ AnswerOf(RowOf(t)) \in Answers \ {"none"} /\ "error" \in Answers \ {"none"}
      /\ AnswerOf(RowOf(t)) = "drop" => Says(ai', EventOf[t], task[t].release)
  BY <1>1, ReadAnswer DEF Answers, Says
<1>3. Only(t) /\ Proceeds(t) /\ task'[t].pc \notin Mine
  BY <1>1, <1>2, AnswerStep
<1> QED BY <1>1, <1>3, ReadStep

LEMMA FailedStep ==
  ASSUME StepInv, NEW t \in Tasks, task[t].pc \in Classing, Answered(t, "error"), Fault,
         UNCHANGED <<config, decided, gate, drops, recovered>>
  PROVE  StepInv'
<1>1. Only(t) /\ Proceeds(t) /\ task'[t].pc \notin Mine
  BY AnswerStep DEF Answers
<1> QED BY <1>1, ReadStep

LEMMA ClaimStep ==
  ASSUME StepInv, NEW t \in Tasks, Claim(t)
  PROVE  StepInv'
<1> DEFINE k == EventOf[t]
           s == task[t].release
           x == [RowOf(t) EXCEPT !.status = "running"]
<1>1. /\ TypeOK /\ KeyInv /\ HolderInv /\ RowInv
      /\ UNCHANGED <<config, calls, gate, drops, recovered>> /\ task[t].pc = "claim" /\ task[t].pc \in Classing
  BY DEF StepInv, MainInv, Claim, At, Classing
<1>2. k \in Events /\ s \in Releases
  BY <1>1, ReadAnswer, EventAssumption
<1>3. CASE RowOf(t).status \in {"absent", "queued"} /\ NoFault /\ Write(t, x) /\ Go(t, "mark")
  <2>1. x \in Row /\ x.status = "running"
    BY <1>1, <1>2, RowShape, RowEdit DEF RowOf
  <2>2. /\ Only(t) /\ task'[t].pc = "mark" /\ task'[t].release = s
    BY <1>1, <1>3, Went, PlaceNames
  <2>3. Proceeds(t)
    BY <1>1, <1>2, <2>2 DEF Proceeds, Classing, Mine, Tasks
  <2> HIDE DEF x
  <2>4. /\ ai' \in [Events -> [Releases -> Row]] /\ ai'[k][s] = x
        /\ \A e \in Events, r \in Releases : e # k \/ r # s => ai'[e][r] = ai[e][r]
    BY <1>1, <1>2, <1>3, <2>1, Wrote
  <2>5. ai[k][s].status \in {"absent", "queued"} /\ calls[k][s] = 0
    BY <1>1, <1>2, <1>3 DEF RowOf, RowInv
  <2> HIDE DEF k, s
  <2>6. KeyInv'
    BY <1>1, <2>2, <2>3, ClassKeys
  <2>7. \A u \in Tasks : task[u].pc \in Mine => ~(EventOf[u] = k /\ task[u].release = s)
    BY <1>1, <1>2, <2>5, FreeRow
  <2>8. /\ calls' = calls /\ calls' \in [Events -> [Releases -> Nat]] /\ calls'[k][s] = 0 /\ ~Says(ai, k, s)
    BY <1>1, <2>5 DEF TypeOK, Says
  <2>9. HolderInv' /\ RowInv' /\ SaysKept
    BY <1>1, <1>2, <2>1, <2>2, <2>4, <2>6, <2>7, <2>8, RowStep DEF k
  <2> QED BY <1>1, <1>3, <2>2, <2>3, <2>4, <2>8, <2>9, ClassStep
<1>4. CASE UNCHANGED ai /\ NoFault /\ Answered(t, AnswerOf(RowOf(t)))
  <2>1. /\ AnswerOf(RowOf(t)) \in Answers \ {"none"}
        /\ AnswerOf(RowOf(t)) = "drop" => Says(ai', EventOf[t], task[t].release)
    BY <1>1, <1>4, ReadAnswer DEF Answers, Says
  <2>2. Only(t) /\ Proceeds(t) /\ task'[t].pc \notin Mine
    BY <1>1, <1>4, <2>1, AnswerStep
  <2> QED BY <1>1, <1>4, <2>2, ReadStep DEF decided
<1>5. CASE UNCHANGED ai /\ NoFault /\ Go(t, "poll")
  <2>1. Only(t) /\ task'[t].pc = "poll" /\ task'[t].release = s
    BY <1>1, <1>5, Went, PlaceNames
  <2>2. Proceeds(t) /\ task'[t].pc \notin Mine
    BY <1>1, <1>2, <2>1 DEF Proceeds, Classing, Mine, Tasks
  <2> QED BY <1>1, <1>5, <2>1, <2>2, ReadStep DEF decided
<1>6. CASE Fault /\ UNCHANGED ai /\ Answered(t, "error")
  BY <1>1, <1>6, FailedStep DEF decided
<1> QED BY <1>3, <1>4, <1>5, <1>6 DEF Claim

LEMMA MarkStep ==
  ASSUME StepInv, NEW t \in Tasks, Mark(t)
  PROVE  StepInv'
<1> DEFINE k == EventOf[t]
           s == task[t].release
           x == [RowOf(t) EXCEPT !.status = "started"]
<1>1. /\ TypeOK /\ KeyInv /\ HolderInv /\ RowInv
      /\ UNCHANGED <<config, calls, gate, drops, recovered>> /\ task[t].pc = "mark" /\ task[t].pc \in Classing
  BY DEF StepInv, MainInv, Mark, At, Classing, Mine
<1>2. k \in Events /\ s \in Releases
  BY <1>1, ReadAnswer, EventAssumption
<1>3. CASE NoFault /\ Write(t, x) /\ Go(t, "call")
  <2>1. x \in Row /\ x.status = "started"
    BY <1>1, <1>2, RowShape, RowEdit DEF RowOf
  <2>2. /\ Only(t) /\ task'[t].pc = "call" /\ task'[t].release = s
    BY <1>1, <1>3, Went, PlaceNames
  <2>3. Proceeds(t)
    BY <1>1, <1>2, <2>2 DEF Proceeds, Classing, Mine, Tasks
  <2> HIDE DEF x
  <2>4. /\ ai' \in [Events -> [Releases -> Row]] /\ ai'[k][s] = x
        /\ \A e \in Events, r \in Releases : e # k \/ r # s => ai'[e][r] = ai[e][r]
    BY <1>1, <1>2, <1>3, <2>1, Wrote
  <2>5. ai[k][s].status = "running" /\ calls[k][s] = 0
    BY <1>1, <1>2 DEF RowOf, RowInv, HolderInv, At
  <2>6. \A u \in Tasks \ {t} : task[u].pc \in Mine => ~(EventOf[u] = k /\ task[u].release = s)
    BY <1>1 DEF HolderInv, SameKey, Mine
  <2> HIDE DEF k, s
  <2>7. KeyInv'
    BY <1>1, <2>2, <2>3, ClassKeys
  <2>8. /\ calls' = calls /\ calls' \in [Events -> [Releases -> Nat]] /\ calls'[k][s] = 0 /\ ~Says(ai, k, s)
    BY <1>1, <2>5 DEF TypeOK, Says
  <2>9. HolderInv' /\ RowInv' /\ SaysKept
    BY <1>1, <1>2, <2>1, <2>2, <2>4, <2>6, <2>7, <2>8, RowStep DEF k
  <2> QED BY <1>1, <1>3, <2>2, <2>3, <2>4, <2>8, <2>9, ClassStep
<1>4. CASE Fault /\ UNCHANGED ai /\ Answered(t, "error")
  BY <1>1, <1>4, FailedStep DEF decided
<1> QED BY <1>3, <1>4 DEF Mark

LEMMA CallStep ==
  ASSUME StepInv, NEW t \in Tasks, Call(t)
  PROVE  StepInv'
<1> DEFINE k == EventOf[t]
           s == task[t].release
<1>1. /\ TypeOK /\ KeyInv /\ HolderInv /\ RowInv
      /\ UNCHANGED <<config, ai, gate, drops, recovered>> /\ NoFault
      /\ task[t].pc = "call" /\ task[t].pc \in Classing
  BY DEF StepInv, MainInv, Call, At, Classing, Mine, NoFault
<1>2. k \in Events /\ s \in Releases
  BY <1>1, ReadAnswer, EventAssumption
<1>3. PICK a \in {"drop", "keep", "error"} :
        task' = [task EXCEPT ![t] = [@ EXCEPT !.pc = "finish", !.answer = a]]
  BY DEF Call
<1>4. /\ Only(t) /\ task'[t].pc = "finish" /\ task'[t].answer # "none" /\ task'[t].release = s
  BY <1>1, <1>3, SetAnswer DEF Answers
<1>5. Proceeds(t)
  BY <1>1, <1>2, <1>4 DEF Proceeds, Classing, Mine, Tasks
<1>6. ai[k][s].status = "started" /\ calls[k][s] = 0
  BY <1>1 DEF RowOf, CallsOf, HolderInv, At
<1>7. \A u \in Tasks \ {t} : task[u].pc \in Mine => ~(EventOf[u] = k /\ task[u].release = s)
  BY <1>1 DEF HolderInv, SameKey, Mine
<1>8. /\ calls' \in [Events -> [Releases -> Nat]] /\ calls'[k][s] <= 1
      /\ \A e \in Events, r \in Releases : e # k \/ r # s => calls'[e][r] = calls[e][r]
  <2>1. CASE UNCHANGED calls
    BY <1>1, <1>6, <2>1 DEF TypeOK
  <2>2. CASE calls' = [calls EXCEPT ![EventOf[t]][task[t].release] = @ + 1]
    <3>1. /\ calls' \in [Events -> [Releases -> Nat]]
          /\ calls'[k][s] = calls[k][s] + 1
          /\ \A e \in Events, r \in Releases : e # k \/ r # s => calls'[e][r] = calls[e][r]
      BY <1>1, <1>2, <2>2, Called
    <3> QED BY <1>6, <3>1
  <2> QED BY <2>1, <2>2 DEF Call
<1> HIDE DEF k, s
<1>9. KeyInv' /\ ~Says(ai, k, s)
  BY <1>1, <1>4, <1>5, <1>6, ClassKeys DEF Says
<1>10. ai' = ai /\ ai' \in [Events -> [Releases -> Row]]
  BY <1>1 DEF TypeOK
<1>11. HolderInv' /\ RowInv' /\ SaysKept
  BY <1>1, <1>2, <1>4, <1>6, <1>7, <1>8, <1>9, <1>10, RowStep DEF k
<1> QED BY <1>1, <1>4, <1>5, <1>8, <1>10, <1>11, ClassStep

LEMMA FinishStep ==
  ASSUME StepInv, NEW t \in Tasks, Finish(t)
  PROVE  StepInv'
<1> DEFINE k == EventOf[t]
           s == task[t].release
           a == task[t].answer
           x == [status |-> IF a = "error" THEN "failed" ELSE "completed", answer |-> a]
<1>1. /\ TypeOK /\ KeyInv /\ HolderInv /\ RowInv
      /\ UNCHANGED <<config, calls, gate, drops, recovered>> /\ task[t].pc = "finish" /\ task[t].pc \in Classing
  BY DEF StepInv, MainInv, Finish, At, Classing, Mine
<1>2. k \in Events /\ s \in Releases
  BY <1>1, ReadAnswer, EventAssumption
<1>3. a \in Answers \ {"none"} /\ a \in {"drop", "keep", "error"}
  BY <1>1, TaskShape DEF HolderInv, At, Answers
<1>4. CASE /\ Write(t, x)
           /\ \/ Answered(t, a) /\ NoFault
              \/ Answered(t, "error") /\ Fault
  <2>1. /\ x \in Row /\ x.status \in {"failed", "completed"} /\ x.answer = a
        /\ x.status = "completed" => a \in {"drop", "keep"}
        /\ a = "drop" => x.status = "completed"
    BY <1>3 DEF Row, Answers
  <2> HIDE DEF x
  <2>2. /\ ai' \in [Events -> [Releases -> Row]] /\ ai'[k][s] = x
        /\ \A e \in Events, r \in Releases : e # k \/ r # s => ai'[e][r] = ai[e][r]
    BY <1>1, <1>2, <1>4, <2>1, Wrote
  <2>3. a = "drop" => Says(ai', k, s)
    BY <2>1, <2>2 DEF Says
  <2>4. Only(t) /\ Proceeds(t) /\ task'[t].pc \notin Mine
    <3>1. CASE Answered(t, a)
      BY <1>1, <1>3, <2>3, <3>1, AnswerStep
    <3>2. CASE Answered(t, "error")
      BY <1>1, <3>2, AnswerStep DEF Answers
    <3> QED BY <1>4, <3>1, <3>2
  <2>5. ai[k][s].status = "started" /\ calls[k][s] <= 1
    BY <1>1, <1>2 DEF RowOf, HolderInv, RowInv, At
  <2>6. \A u \in Tasks \ {t} : task[u].pc \in Mine => ~(EventOf[u] = k /\ task[u].release = s)
    BY <1>1 DEF HolderInv, SameKey, Mine
  <2> HIDE DEF k, s, a
  <2>7. KeyInv'
    BY <1>1, <2>4, ClassKeys
  <2>8. /\ calls' = calls /\ calls' \in [Events -> [Releases -> Nat]] /\ calls'[k][s] <= 1 /\ ~Says(ai, k, s)
    BY <1>1, <2>5 DEF TypeOK, Says
  <2>9. HolderInv' /\ RowInv' /\ SaysKept
    BY <1>1, <1>2, <2>1, <2>2, <2>4, <2>6, <2>7, <2>8, RowStep DEF Mine
  <2> QED BY <1>1, <1>4, <2>2, <2>4, <2>8, <2>9, ClassStep
<1>5. CASE Fault /\ UNCHANGED ai /\ Answered(t, "error")
  BY <1>1, <1>5, FailedStep DEF decided
<1> QED BY <1>4, <1>5 DEF Finish

LEMMA ScheduleStep ==
  ASSUME StepInv, NEW t \in Jobs, Schedule(t)
  PROVE  StepInv'
<1> DEFINE k == EventOf[t]
           x == [ai[k][active] EXCEPT !.status = "failed"]
<1>1. /\ TypeOK /\ KeyInv /\ HolderInv /\ RowInv /\ t \in Tasks /\ k \in Events
      /\ UNCHANGED <<config, calls, gate, drops, recovered>> /\ NoFault
  BY EventAssumption DEF StepInv, MainInv, Schedule, NoFault, Tasks
<1>2. active # NoRelease => active \in Releases
  BY <1>1 DEF TypeOK
<1>3. CASE UNCHANGED ai /\ Leave(t, "done")
  <2>1. Only(t) /\ Proceeds(t) /\ task'[t].pc \notin Mine
    BY <1>1, <1>3, Left, PlaceNames DEF Proceeds, Mine
  <2> QED BY <1>1, <1>3, <2>1, ReadStep DEF decided
<1>4. CASE /\ active # NoRelease /\ UNCHANGED ai
           /\ task' = [task EXCEPT ![t] = [@ EXCEPT !.pc = "claim", !.release = active]]
  <2>1. Only(t) /\ task'[t].pc = "claim" /\ task'[t].release = active
    BY <1>1, <1>2, <1>4, SetRelease
  <2>2. Proceeds(t) /\ task'[t].pc \notin Mine
    BY <1>2, <1>4, <2>1 DEF Proceeds, Classing, Mine
  <2> QED BY <1>1, <1>4, <2>1, <2>2, ReadStep DEF decided
<1>5. CASE /\ active # NoRelease /\ Leave(t, "done") /\ ai[k][active].status = "absent"
           /\ ai' = [ai EXCEPT ![EventOf[t]][active].status = "failed"]
  <2>1. Only(t) /\ Proceeds(t) /\ task'[t].pc \notin Mine
    BY <1>1, <1>5, Left, PlaceNames DEF Proceeds, Mine
  <2>2. x \in Row /\ x.status = "failed"
    BY <1>1, <1>2, <1>5, RowShape, RowEdit
  <2>3. /\ ai \in [Events -> [Releases -> Row]] /\ ai' = [ai EXCEPT ![k][active] = x]
    BY <1>1, <1>5 DEF TypeOK
  <2> HIDE DEF k, x
  <2>4. /\ ai' \in [Events -> [Releases -> Row]] /\ ai'[k][active] = x
        /\ \A e \in Events, r \in Releases : e # k \/ r # active => ai'[e][r] = ai[e][r]
    BY <1>1, <1>2, <1>5, <2>2, <2>3
  <2>5. /\ KeyInv' /\ \A u \in Tasks : task[u].pc \in Mine => ~(EventOf[u] = k /\ task[u].release = active)
    BY <1>1, <1>2, <1>5, <2>1, ClassKeys, FreeRow
  <2>6. /\ calls' = calls /\ calls' \in [Events -> [Releases -> Nat]] /\ calls'[k][active] <= 1
        /\ ~Says(ai, k, active)
    BY <1>1, <1>2, <1>5 DEF TypeOK, Says, RowInv
  <2>7. HolderInv' /\ RowInv' /\ SaysKept
    BY <1>1, <1>2, <1>5, <2>1, <2>2, <2>4, <2>5, <2>6, RowStep DEF Mine
  <2> QED BY <1>1, <2>1, <2>4, <2>6, <2>7, ClassStep
<1> QED BY <1>3, <1>4, <1>5 DEF Schedule

--------------------------------------------------------------------------------
(* The administrator's commands. *)

ConfigTypes ==
  /\ active' \in Releases \cup {NoRelease} /\ provider' \in Releases \cup {NoRelease}
  /\ client' \in Releases \cup {NoRelease} /\ policy' \in Policies
  /\ critical' \subseteq Releases /\ emergency' \in BOOLEAN /\ memory' \in BOOLEAN
  /\ request' \in [Requests -> Request]
\* Approvals are added and revoked, none is removed or revived.
Approvals ==
  /\ approvals' \in Seq(Approval) /\ void' \in Nat /\ void' <= Len(approvals')
  /\ DOMAIN approvals \subseteq DOMAIN approvals'
  /\ \A i \in DOMAIN approvals' : approvals'[i].live => i > void'

LEMMA ApprovalsKept ==
  ASSUME TypeOK, ApprovalInv, UNCHANGED <<approvals, void>>
  PROVE  Approvals
  BY DEF TypeOK, ApprovalInv, Approvals

LEMMA RevokedShape ==
  ASSUME TypeOK
  PROVE  /\ Revoked \in Seq(Approval) /\ Len(Revoked) = Len(approvals) /\ Len(approvals) \in Nat
         /\ DOMAIN Revoked = DOMAIN approvals /\ DOMAIN approvals = 1 .. Len(approvals)
         /\ \A i \in DOMAIN approvals : ~Revoked[i].live
<1>1. approvals \in Seq(Approval) /\ DOMAIN approvals = 1 .. Len(approvals) /\ Len(approvals) \in Nat
  BY DEF TypeOK
<1>2. \A i \in DOMAIN approvals : /\ [approvals[i] EXCEPT !.live = FALSE] \in Approval
                                  /\ ~[approvals[i] EXCEPT !.live = FALSE].live
  <2>1. \A x \in Approval : [x EXCEPT !.live = FALSE] \in Approval /\ ~[x EXCEPT !.live = FALSE].live
    BY DEF Approval
  <2> QED BY <1>1, <2>1
<1>3. Revoked \in [1 .. Len(approvals) -> Approval] /\ \A i \in DOMAIN approvals : ~Revoked[i].live
  BY <1>1, <1>2 DEF Revoked
<1> QED BY <1>1, <1>3

LEMMA ApprovalsRevoked ==
  ASSUME TypeOK, RevokeAll
  PROVE  Approvals
  BY RevokedShape DEF RevokeAll, Approvals

LEMMA ApprovalsAdded ==
  ASSUME TypeOK, NEW a \in Approval, approvals' = Append(Revoked, a), void' = Len(approvals)
  PROVE  Approvals
<1>1. /\ approvals' \in Seq(Approval) /\ Len(approvals') = Len(approvals) + 1
      /\ \A i \in DOMAIN approvals : approvals'[i] = Revoked[i]
      /\ DOMAIN approvals' = 1 .. (Len(approvals) + 1) /\ DOMAIN approvals = 1 .. Len(approvals)
      /\ Len(approvals) \in Nat
  BY RevokedShape
<1>2. ASSUME NEW i \in DOMAIN approvals', approvals'[i].live
      PROVE  i > void'
  <2>1. i \notin DOMAIN approvals
    BY <1>1, <1>2, RevokedShape
  <2> QED BY <1>1, <2>1
<1> QED BY <1>1, <1>2 DEF Approvals

LEMMA RequestEdited ==
  ASSUME TypeOK, NEW q \in Requests
  PROVE  /\ \A pc \in {"idle", "memory", "release", "activate", "client", "done"} :
              /\ request' = [request EXCEPT ![q].pc = pc] => request' \in [Requests -> Request]
              /\ request' = [request EXCEPT ![q] = Awaiting(pc)] => request' \in [Requests -> Request]
              /\ \A r \in Releases \cup {NoRelease} :
                   request' = [request EXCEPT ![q] = [@ EXCEPT !.pc = pc, !.release = r]]
                     => request' \in [Requests -> Request]
              /\ \A on \in BOOLEAN :
                   request' = [request EXCEPT ![q] = [@ EXCEPT !.pc = pc, !.on = on]]
                     => request' \in [Requests -> Request]
         /\ request[q].release \in Releases \cup {NoRelease} /\ request[q].on \in BOOLEAN
<1>1. request \in [Requests -> Request] /\ request[q] \in Request
  BY DEF TypeOK
<1>2. ASSUME NEW pc \in {"idle", "memory", "release", "activate", "client", "done"}
      PROVE  /\ [request[q] EXCEPT !.pc = pc] \in Request /\ Awaiting(pc) \in Request
             /\ \A r \in Releases \cup {NoRelease} : [request[q] EXCEPT !.pc = pc, !.release = r] \in Request
             /\ \A on \in BOOLEAN : [request[q] EXCEPT !.pc = pc, !.on = on] \in Request
  BY <1>1 DEF Request, Awaiting
<1>3. request[q].release \in Releases \cup {NoRelease} /\ request[q].on \in BOOLEAN
  BY <1>1 DEF Request
<1> HIDE DEF Request, Awaiting
<1> QED BY <1>1, <1>2, <1>3

LEMMA CommandTypes ==
  ASSUME TypeOK, ApprovalInv, NEW q \in Requests, Command(q) \/ CommandFails(q)
  PROVE  ConfigTypes /\ Approvals /\ UNCHANGED <<decided, task, gate, drops, recovered>> /\ trouble' \in Nat
<1> DEFINE Changed == ConfigTypes /\ Approvals
           Rest == UNCHANGED <<decided, task, gate, drops, recovered>>
<1>1. /\ active \in Releases \cup {NoRelease} /\ provider \in Releases \cup {NoRelease}
      /\ client \in Releases \cup {NoRelease} /\ policy \in Policies /\ critical \subseteq Releases
      /\ emergency \in BOOLEAN /\ memory \in BOOLEAN /\ trouble \in Nat
  BY DEF TypeOK
<1>2. \A pc : Becomes(q, pc) /\ pc \in {"done"} => request' \in [Requests -> Request]
  BY RequestEdited DEF Becomes
<1>3. ASSUME NEW p \in Policies, Approve(q, p)
      PROVE  Changed
  <2>1. active \in Releases
    BY <1>1, <1>3 DEF Approve
  <2>2. [release |-> active, policy |-> p, live |-> TRUE] \in Approval
    BY <2>1 DEF Approval
  <2>3. Approvals
    BY <1>3, <2>2, ApprovalsAdded DEF Approve
  <2> QED BY <1>1, <1>2, <1>3, <2>3 DEF Approve, ConfigTypes
<1>4. ASSUME NEW p \in Policies, SavePolicy(q, p)
      PROVE  Changed
  BY <1>1, <1>2, <1>4, ApprovalsRevoked DEF SavePolicy, ConfigTypes
<1>5. ASSUME RevokeApprovals(q)
      PROVE  Changed
  BY <1>1, <1>2, <1>5, ApprovalsRevoked DEF RevokeApprovals, ConfigTypes
<1>6. ASSUME NEW r \in Releases, ActivateRelease(q, r) \/ CreateFeedback(q, r) \/ ResolveFeedback(q, r)
      PROVE  Changed
  <2>1. request' \in [Requests -> Request]
    BY <1>2, <1>6 DEF ActivateRelease, CreateFeedback, ResolveFeedback
  <2> QED BY <1>1, <1>6, <2>1, ApprovalsKept DEF ActivateRelease, CreateFeedback, ResolveFeedback, ConfigTypes
<1>7. ASSUME NEW r \in Releases \cup {NoRelease}, SaveProvider(q, r)
      PROVE  Changed
  <2>1. request' \in [Requests -> Request]
    BY <1>7, RequestEdited DEF SaveProvider
  <2> QED BY <1>1, <1>7, <2>1, ApprovalsKept DEF SaveProvider, ConfigTypes
<1>8. ASSUME NEW on \in BOOLEAN, StoreSwitch(q, on)
      PROVE  Changed
  <2>1. request' \in [Requests -> Request]
    BY <1>8, RequestEdited DEF StoreSwitch
  <2> QED BY <1>1, <1>8, <2>1, ApprovalsKept DEF StoreSwitch, ConfigTypes
<1>9. ASSUME SaveRelease(q) \/ SetClient(q) \/ SetMemory(q)
      PROVE  Changed
  <2>1. request' \in [Requests -> Request]
    BY <1>9, RequestEdited DEF SaveRelease, SetClient, SetMemory
  <2>2. request[q].release \in Releases \cup {NoRelease} /\ request[q].on \in BOOLEAN
    BY RequestEdited
  <2> QED BY <1>1, <1>9, <2>1, <2>2, ApprovalsKept DEF SaveRelease, SetClient, SetMemory, ConfigTypes
<1>10. CASE Command(q)
  <2>1. Rest /\ trouble' \in Nat
    BY <1>1, <1>10 DEF Command
  <2> QED BY <1>3, <1>4, <1>5, <1>6, <1>7, <1>8, <1>9, <1>10, <2>1 DEF Command
<1>11. CASE CommandFails(q)
  <2>1. request' \in [Requests -> Request]
    BY <1>11, RequestEdited DEF CommandFails
  <2> QED BY <1>1, <1>11, <2>1, ApprovalsKept, TroubleTypes DEF CommandFails, ConfigTypes
<1> QED BY <1>10, <1>11

LEMMA CommandStep ==
  ASSUME StepInv, NEW q \in Requests, Command(q) \/ CommandFails(q)
  PROVE  StepInv'
<1>1. /\ TypeOK /\ KeyInv /\ HolderInv /\ RowInv /\ AnswerInv /\ FlightInv /\ ResultInv /\ WaitInv
      /\ DropInv /\ ApprovalInv /\ SlotInv
  BY DEF StepInv, MainInv
<1>2. /\ ConfigTypes /\ Approvals /\ trouble' \in Nat
      /\ UNCHANGED <<ai, calls, task, flight, result, slots, drops, recovered>>
  BY <1>1, CommandTypes DEF decided, gate
<1>3. TypeOK'
  BY <1>1, <1>2 DEF TypeOK, ConfigTypes, Approvals
<1>4. KeyInv' /\ HolderInv' /\ RowInv' /\ AnswerInv'
  BY <1>1, <1>2 DEF KeyInv, HolderInv, RowInv, AnswerInv, At, RowOf, CallsOf, SameKey, Says
<1>5. FlightInv' /\ ResultInv' /\ WaitInv'
  BY <1>1, <1>2 DEF FlightInv, ResultInv, WaitInv, AwaitsRightly, FlightOf, At, Says
<1>6. DropInv' /\ SlotInv'
  BY <1>1, <1>2 DEF DropInv, SlotInv, In, Says
<1>7. ApprovalInv'
  BY <1>1, <1>2 DEF ApprovalInv, Approvals, At
<1> QED BY <1>3, <1>4, <1>5, <1>6, <1>7 DEF StepInv, MainInv

--------------------------------------------------------------------------------
(* The next process. *)

LEMMA RecoveredRow ==
  ASSUME NEW x \in Row
  PROVE  /\ Recovered(x) \in Row /\ Recovered(x).answer = x.answer
         /\ Recovered(x).status = "completed" <=> x.status = "completed"
         /\ Recovered(x).status \in {"absent", "queued", "running"} => x.status \in {"absent", "queued", "running"}
<1>1. CASE x.status = "running"
  BY <1>1, RowEdit DEF Recovered
<1>2. CASE x.status = "started"
  BY <1>2, RowEdit DEF Recovered
<1>3. CASE x.status \notin {"running", "started"}
  BY <1>3 DEF Recovered
<1> QED BY <1>1, <1>2, <1>3

LEMMA RecoveredTable ==
  ASSUME TypeOK, RowInv, Restart
  PROVE  ai' \in [Events -> [Releases -> Row]] /\ RowInv' /\ SaysKept
<1>1. calls' = calls /\ ai \in [Events -> [Releases -> Row]]
  BY DEF Restart, TypeOK
<1>2. CASE ai' = ai
  BY <1>1, <1>2, RowKeeps
<1>3. CASE ai' = [e \in Events |-> [r \in Releases |-> Recovered(ai[e][r])]]
  <2>1. \A e \in Events, r \in Releases : ai[e][r] \in Row /\ ai'[e][r] = Recovered(ai[e][r])
    BY <1>1, <1>3
  <2>2. ai' \in [Events -> [Releases -> Row]]
    BY <1>1, <1>3, RecoveredRow
  <2>3. RowInv'
    BY <1>1, <2>1, RecoveredRow DEF RowInv
  <2>4. SaysKept
    BY <2>1, RecoveredRow DEF SaysKept, Says
  <2> QED BY <2>2, <2>3, <2>4
<1> QED BY <1>2, <1>3 DEF Restart

LEMMA RestartStep ==
  ASSUME StepInv, Restart
  PROVE  StepInv'
<1>1. /\ TypeOK /\ KeyInv /\ RowInv /\ DropInv /\ ApprovalInv /\ SlotInv
  BY DEF StepInv, MainInv
<1>2. ai' \in [Events -> [Releases -> Row]] /\ RowInv' /\ SaysKept
  BY <1>1, RecoveredTable
<1>3. With("gone") \in Task /\ With("gone").pc = "gone"
  BY PolicyAssumption DEF With, Task, Answers, Ended
<1>4. ASSUME NEW t \in Tasks
      PROVE  /\ task'[t] \in Task /\ task'[t].pc \in {"idle"} \cup Ended
             /\ task'[t] = task[t] \/ task'[t].pc = "gone"
  BY <1>1, <1>3 DEF Restart, TypeOK, Ended
<1>5. task' \in [Tasks -> Task]
  BY <1>4 DEF Restart
<1>6. \A t \in Tasks : /\ task'[t].pc \notin Keyed /\ task'[t].pc \notin Mine /\ task'[t].pc \notin Carrying
                       /\ task'[t].pc \notin Owning /\ task'[t].pc \notin Inside
                       /\ task'[t].pc # "wait" /\ task'[t].pc # "drop" /\ task'[t].pc # "dropped"
                       /\ task'[t].pc # "forget"
  BY <1>4 DEF Keyed, Mine, Carrying, Owning, Inside, Ended
<1>7. \A e \in Events, r \in Releases : flight'[e][r] = NoTask
  BY DEF Restart
<1>8. TypeOK'
  <2>1. /\ flight' \in [Events -> [Releases -> Sends \cup {NoTask}]] /\ result' \in [Sends -> Answers]
        /\ slots' = 0 /\ client' \in Releases \cup {NoRelease} /\ memory' \in BOOLEAN /\ recovered' \in BOOLEAN
        /\ trouble' \in Nat
    BY <1>1, TroubleTypes DEF Restart, TypeOK, Answers
  <2>2. request' \in [Requests -> Request]
    <3>1. Awaiting("done") \in Request
      BY DEF Awaiting, Request
    <3> QED BY <1>1, <3>1 DEF Restart, TypeOK
  <2> QED BY <1>1, <1>2, <1>5, <2>1, <2>2 DEF Restart, TypeOK
<1>9. KeyInv' /\ HolderInv' /\ AnswerInv'
  BY <1>6 DEF KeyInv, HolderInv, AnswerInv, At, Mine
<1>10. FlightInv' /\ ResultInv' /\ WaitInv'
  <2>1. \A t \in Sends : result'[t] = "none" /\ t \in Tasks
    BY DEF Restart, Tasks
  <2> QED BY <1>6, <1>7, <2>1 DEF FlightInv, ResultInv, WaitInv, At
<1>11. DropInv'
  <2>1. ASSUME NEW d \in drops
        PROVE  Says(ai', EventOf[d.by], d.release) /\ task'[d.by].pc \in {"dropped", "suppressed", "gone"}
    <3>1. d.by \in Tasks /\ d.release \in Releases /\ EventOf[d.by] \in Events
      BY <1>1, EventAssumption DEF TypeOK, Drop, Tasks
    <3> QED BY <1>1, <1>2, <1>4, <3>1 DEF DropInv, SaysKept
  <2>2. ASSUME NEW t \in Sends, task'[t].pc \in {"dropped", "suppressed"}
        PROVE  \E d \in drops : d.by = t
    BY <1>1, <1>4, <2>2 DEF DropInv, Tasks
  <2>3. drops' = drops
    BY DEF Restart
  <2> QED BY <2>1, <2>2, <2>3 DEF DropInv
<1>12. ApprovalInv'
  BY <1>1, <1>6 DEF ApprovalInv, At, Restart
<1>13. SlotInv'
  <2>1. In' = {} /\ slots' = 0
    BY <1>6 DEF In, Restart, Tasks
  <2> QED BY <2>1, FS_EmptySet, CapacityAssumption DEF SlotInv
<1> QED BY <1>2, <1>8, <1>9, <1>10, <1>11, <1>12, <1>13 DEF StepInv, MainInv

--------------------------------------------------------------------------------
(* The invariant. *)

LEMMA StepParts == IInv <=> StepInv
  BY DEF IInv, StepInv, MainInv

LEMMA InitHolds == Init => IInv
<1> SUFFICES ASSUME Init PROVE IInv
  OBVIOUS
<1>1. With("idle") \in Task /\ With("idle").pc = "idle"
  BY PolicyAssumption DEF With, Task, Answers, Before
<1>2. \A t \in Tasks : task[t].pc = "idle"
  BY <1>1 DEF Init
<1>3. \A t \in Tasks : /\ task[t].pc \notin Keyed /\ task[t].pc \notin Mine /\ task[t].pc \notin Carrying
                       /\ task[t].pc \notin Owning /\ task[t].pc \notin Inside
                       /\ task[t].pc # "wait" /\ task[t].pc # "forget"
  BY <1>2 DEF Keyed, Mine, Carrying, Owning, Inside
<1>4. /\ approvals \in Seq(Approval) /\ Len(approvals) = 1
      /\ \A i \in DOMAIN approvals : i > 0
  BY ReleaseAssumption, PolicyAssumption DEF Init, Approval
<1>5. TypeOK
  <2>1. /\ active \in Releases \cup {NoRelease} /\ provider \in Releases \cup {NoRelease}
        /\ client \in Releases \cup {NoRelease} /\ policy \in Policies /\ critical \subseteq Releases
        /\ emergency \in BOOLEAN /\ memory \in BOOLEAN /\ slots \in Nat /\ drops \subseteq Drop
        /\ recovered \in BOOLEAN /\ void \in Nat /\ trouble \in Nat
    BY ReleaseAssumption, PolicyAssumption DEF Init
  <2>2. request \in [Requests -> Request] /\ result \in [Sends -> Answers]
    BY DEF Init, Request, Awaiting, Answers
  <2>3. /\ ai \in [Events -> [Releases -> Row]] /\ calls \in [Events -> [Releases -> Nat]]
        /\ flight \in [Events -> [Releases -> Sends \cup {NoTask}]] /\ task \in [Tasks -> Task]
    BY <1>1 DEF Init, Row, Answers
  <2> QED BY <1>4, <2>1, <2>2, <2>3 DEF TypeOK
<1>6. KeyInv /\ HolderInv /\ AnswerInv
  BY <1>2, <1>3 DEF KeyInv, HolderInv, AnswerInv, At, Mine
<1>7. RowInv
  BY DEF Init, RowInv
<1>8. FlightInv /\ ResultInv /\ WaitInv
  BY <1>3 DEF Init, FlightInv, ResultInv, WaitInv, At, Tasks
<1>9. DropInv
  BY <1>2 DEF Init, DropInv, Tasks
<1>10. ApprovalInv
  BY <1>2, <1>4 DEF Init, ApprovalInv, At
<1>11. SlotInv
  <2>1. In = {} /\ slots = 0
    BY <1>3 DEF In, Init, Tasks
  <2> QED BY <2>1, FS_EmptySet, CapacityAssumption DEF SlotInv
<1> QED BY <1>5, <1>6, <1>7, <1>8, <1>9, <1>10, <1>11 DEF IInv

LEMMA StutterKeeps == IInv /\ UNCHANGED vars => IInv'
<1> SUFFICES ASSUME IInv, UNCHANGED vars PROVE IInv'
  OBVIOUS
<1>1. UNCHANGED <<active, provider, client, policy, approvals, critical, emergency, memory, request, void,
                  ai, calls, task, flight, result, slots, drops, recovered, trouble>>
  BY DEF vars, config, decided, gate
<1>2. TypeOK' /\ KeyInv' /\ HolderInv' /\ RowInv' /\ AnswerInv'
  BY <1>1 DEF IInv, TypeOK, KeyInv, HolderInv, RowInv, AnswerInv, At, RowOf, CallsOf, SameKey, Says
<1>3. FlightInv' /\ ResultInv' /\ WaitInv' /\ DropInv'
  BY <1>1 DEF IInv, FlightInv, ResultInv, WaitInv, AwaitsRightly, FlightOf, At, DropInv, Says
<1>4. ApprovalInv' /\ SlotInv'
  BY <1>1 DEF IInv, ApprovalInv, At, SlotInv, In
<1> QED BY <1>2, <1>3, <1>4 DEF IInv

LEMMA NextKeeps == IInv /\ Next => IInv'
<1> SUFFICES ASSUME StepInv, Next PROVE StepInv'
  BY StepParts DEF IInv, StepInv, MainInv
<1>1. ASSUME NEW t \in Tasks, Classify(t)
      PROVE  StepInv'
  BY <1>1, ClaimStep, PollStep, MarkStep, CallStep, FinishStep DEF Classify
<1>2. ASSUME NEW t \in Sends, Evaluate(t)
      PROVE  StepInv'
  <2>1. CASE ResolveRoute(t) \/ ObserveRelease(t) \/ CheckSwitch(t) \/ Acquire(t)
    BY <2>1, BeforeGate, AcquireStep
  <2>2. CASE CheckRelease(t) \/ CheckReady(t) \/ JoinFlight(t) \/ Wait(t)
    BY <2>2, CheckStep, JoinStep, WaitStep
  <2>3. CASE Close(t) \/ Forget(t) \/ Judge(t) \/ PersistDrop(t) \/ Return(t)
    BY <2>3, CloseStep, ForgetStep, JudgeStep, PersistStep, ReturnStep
  <2> QED BY <1>2, <2>1, <2>2, <2>3 DEF Evaluate
<1>3. CASE \E t \in Sends : Evaluate(t) \/ Classify(t)
  BY <1>1, <1>2, <1>3 DEF Tasks
<1>4. CASE \E j \in Jobs : Schedule(j) \/ Classify(j)
  BY <1>1, <1>4, ScheduleStep DEF Tasks
<1>5. CASE \E q \in Requests : Command(q) \/ CommandFails(q)
  BY <1>5, CommandStep
<1> QED BY <1>3, <1>4, <1>5, RestartStep DEF Next

(* Every reachable state satisfies the inductive invariant: who may touch a row,   *)
(* which flight is whose, and what stands behind every answer that is carried on. *)
THEOREM Invariant == Spec => []IInv
<1>1. IInv /\ [Next]_vars => IInv'
  BY NextKeeps, StutterKeeps
<1> QED BY InitHolds, <1>1, PTL DEF Spec

(* The variables keep their types whatever the gate, the worker and the commands   *)
(* do, failures and restarts included.                                            *)
THEOREM TypeCorrect == Spec => []TypeOK
<1>1. IInv => TypeOK
  BY DEF IInv
<1> QED BY Invariant, <1>1, PTL

(* At most one provider call per event and release: a row that was called is      *)
(* started, completed or failed, and none of these is ever claimed again.         *)
THEOREM CallsOnce == Spec => []OneCall
<1>1. IInv => OneCall
  BY DEF IInv, RowInv, OneCall
<1> QED BY Invariant, <1>1, PTL

(* A notification is suppressed exactly when its DROP was committed, and every     *)
(* DROP follows a stored AI decision that says drop.                              *)
THEOREM DropsFounded == Spec => []DropsAreFounded
<1>1. IInv => DropsAreFounded
  <2> SUFFICES ASSUME DropInv PROVE DropsAreFounded
    BY DEF IInv
  <2>1. RecordedIsTaken
    BY DEF DropInv, RecordedIsTaken
  <2>2. DropsFollowDecisions
    BY DEF DropInv, DropsFollowDecisions, Says
  <2> QED BY <2>1, <2>2 DEF DropsAreFounded
<1> QED BY Invariant, <1>1, PTL

\* The owners of two flights are two: there are no more flights than evaluations inside.
LEMMA FlightsFit ==
  ASSUME IInv
  PROVE  Cardinality({k \in Events \X Releases : flight[k[1]][k[2]] # NoTask}) <= slots
<1> DEFINE F == {k \in Events \X Releases : flight[k[1]][k[2]] # NoTask}
           own == [k \in F |-> flight[k[1]][k[2]]]
<1>1. ASSUME NEW k \in F
      PROVE  /\ k[1] \in Events /\ k[2] \in Releases /\ k = <<k[1], k[2]>> /\ own[k] \in In
             /\ EventOf[own[k]] = k[1] /\ task[own[k]].release = k[2]
  <2>1. k[1] \in Events /\ k[2] \in Releases /\ k = <<k[1], k[2]>> /\ own[k] = flight[k[1]][k[2]]
        /\ flight[k[1]][k[2]] # NoTask
    OBVIOUS
  <2>2. /\ task[own[k]].pc \in Owning /\ EventOf[own[k]] = k[1] /\ task[own[k]].release = k[2]
        /\ own[k] \in Sends
    BY <2>1 DEF IInv, FlightInv, TypeOK
  <2> QED BY <2>1, <2>2 DEF In, Inside
<1>2. own \in Injection(F, In)
  <2>1. own \in [F -> In]
    BY <1>1
  <2>2. ASSUME NEW k \in F, NEW l \in F, own[k] = own[l]
        PROVE  k = l
    <3> HIDE DEF F, own
    <3>1. k = <<k[1], k[2]>> /\ k[1] = EventOf[own[k]] /\ k[2] = task[own[k]].release
      BY <1>1
    <3>2. l = <<l[1], l[2]>> /\ l[1] = EventOf[own[l]] /\ l[2] = task[own[l]].release
      BY <1>1
    <3> QED BY <2>2, <3>1, <3>2
  <2> QED BY <2>1, <2>2 DEF Injection, IsInjective
<1>3. Cardinality(F) <= Cardinality(In)
  BY <1>2, InFinite, FS_Injection
<1> QED BY <1>3 DEF IInv, SlotInv

(* No slot is lost or taken twice, every flight holds one of them, and nobody      *)
(* waits for a flight that will not answer.                                       *)
THEOREM FlightsBalanced == Spec => []FlightsBalance
<1>1. IInv => SlotsAreHeld
  BY FlightsFit DEF IInv, SlotInv, In, SlotsAreHeld
<1>2. IInv => WaitsForSomebody
  BY TaskAssumption DEF IInv, WaitInv, AwaitsRightly, WaitsForSomebody, Tasks
<1>3. IInv => FlightsBalance
  BY <1>1, <1>2 DEF FlightsBalance
<1> QED BY Invariant, <1>3, PTL

(* The administrator has the last word: what an evaluation read on its way is      *)
(* checked again by the transaction that commits its DROP, against every          *)
(* revocation, switch, release and feedback stored by then.                       *)
THEOREM AdministratorHasLastWord == Spec => FinalWord
<1> DEFINE Word == \A d \in drops' \ drops : /\ ~emergency /\ d.approval > void
                                             /\ active = d.release /\ d.release \notin critical
<1>1. ASSUME ApprovalInv, NEW t \in Sends, PersistDrop(t)
      PROVE  Word
  <2>1. CASE /\ Allowed(t)
             /\ drops' = drops \cup {[by |-> t, release |-> task[t].release, approval |-> task[t].approval]}
    <3>1. /\ task[t].pc = "drop" /\ ~emergency /\ active = task[t].release /\ task[t].release \notin critical
          /\ approvals[task[t].approval].live
      BY <1>1, <2>1 DEF PersistDrop, Allowed, Covers, At
    <3>2. task[t].approval > void
      BY <1>1, <3>1 DEF ApprovalInv, At, Tasks
    <3> QED BY <2>1, <3>1, <3>2
  <2>2. CASE UNCHANGED drops
    BY <2>2
  <2> QED BY <1>1, <2>1, <2>2 DEF PersistDrop
<1>2. ASSUME Next, ~\E t \in Sends : PersistDrop(t)
      PROVE  drops' = drops
  <2>1. ASSUME NEW t \in Tasks, Classify(t)
        PROVE  drops' = drops
    BY <2>1 DEF Classify, Claim, Poll, Mark, Call, Finish
  <2>2. ASSUME NEW t \in Sends, Evaluate(t)
        PROVE  drops' = drops
    BY <1>2, <2>2 DEF Evaluate, ResolveRoute, ObserveRelease, CheckSwitch, Acquire, CheckRelease, CheckReady,
                      JoinFlight, Wait, Close, Forget, Judge, Return
  <2>3. ASSUME NEW j \in Jobs, Schedule(j)
        PROVE  drops' = drops
    BY <2>3 DEF Schedule
  <2>4. ASSUME NEW q \in Requests, Command(q) \/ CommandFails(q)
        PROVE  drops' = drops
    BY <2>4 DEF Command, CommandFails
  <2>5. CASE Restart
    BY <2>5 DEF Restart
  <2> QED BY <1>2, <2>1, <2>2, <2>3, <2>4, <2>5 DEF Next, Tasks
<1>3. IInv /\ [Next]_vars => [Word]_vars
  BY <1>1, <1>2 DEF IInv
<1> QED BY Invariant, <1>3, PTL DEF Spec, FinalWord
================================================================================
