-------------------------- MODULE DeliveryLedgerProofs --------------------------
(* What the delivery ledger keeps for any number of notifications, replay and     *)
(* retry requests, segments and mishaps.                                          *)
EXTENDS DeliveryLedger, FiniteSetTheorems, TLAPS

--------------------------------------------------------------------------------
(* The inductive invariant.                                                      *)
Stored(i, who) == i \in DOMAIN ledger /\ ledger[i].by = who /\ ledger[i].of = 0

\* How far a notification's calls have come bounds their number.
CallsFit ==
  \A n \in Notifies : /\ send[n].stage = "segments" => send[n].call <= MaxSegments
                      /\ send[n].stage = "without all" => send[n].call <= MaxSegments + 1
\* The rows that somebody holds an id of are his: the row between the two writes
\* of a hook, the ids of a route, the row of a replay.
RowsFit ==
  /\ \A n \in Notifies : send[n].pc \in {"skipped", "enter"} =>
       Stored(send[n].row, n) /\ ledger[send[n].row].call = send[n].call
  /\ \A n \in Notifies : \A k \in DOMAIN active[n] : Stored(active[n][k], n)
  /\ \A q \in Replays : replay[q].row # 0 => Stored(replay[q].row, q)
\* What a stage takes for granted of the one before.
StagesFit ==
  /\ \A n \in Notifies : send[n].pc = "record" => told[n][send[n].call] # "none"
  /\ \A q \in Replays :
       /\ replay[q].pc \in {"created", "sending", "sent", "unwritten"} => replay[q].row # 0
       /\ replay[q].pc = "sent" => replay[q].result \in {"sent", "unknown", "rejected"}
  /\ \A t \in Retries : retry[t].pc = "read" =>
       retry[t].of \in DOMAIN ledger /\ ledger[retry[t].of].status \in Retryable
\* Nobody but a notification's Messenger call queues.
ReplaysDoNotQueue ==
  \A i \in DOMAIN ledger : ledger[i].by \in Replays /\ ledger[i].of = 0 => ledger[i].status # "queued"

\* While no call of a notification panicked, its queue holds at most the row of the
\* call that is on the wire, and only calls that ended have rows with a result.
OneAtATime ==
  \A n \in Notifies \ panicked :
    /\ Len(active[n]) <= 1
    /\ active[n] # <<>> => /\ send[n].pc \in {"wire", "record"}
                           /\ ledger[active[n][1]].call = send[n].call
    /\ \A i \in DOMAIN ledger : Stored(i, n) =>
         /\ ledger[i].call <= send[n].call
         /\ ledger[i].status \in Results /\ ledger[i].call = send[n].call => send[n].pc \in {"done", "gone"}

\* One handler of the key is between its claim and its completion, and it has not
\* sent before it is in sending.
Live(q) == replay[q].pc \in {"claimed", "created", "sending", "sent", "unwritten", "written"}
OneHandler ==
  /\ claim.state = "absent" => sends = 0
  /\ \A q \in Replays : Live(q) => claim.state = "in_progress"
  /\ \A q, p \in Replays : Live(q) /\ Live(p) => q = p
  /\ \A q \in Replays : replay[q].pc \in {"claimed", "created", "sending"} => sends = 0
\* What a handler knows of its row and of the send as it goes on.
Knows(q) ==
  LET h == replay[q] IN
  /\ h.pc \in {"sending", "sent", "unwritten"} => ledger[h.row].status = "sending"
  /\ h.pc \in {"sent", "unwritten"} => sends = 1
  /\ h.pc = "written" /\ h.row = 0 => h.error /\ sends = 0
  /\ h.pc = "written" /\ h.row # 0 =>
       sends = 1 /\ ledger[h.row].status \in (IF h.error THEN {"sending", "unknown"} ELSE Results \cap Terminal)
HandlersKnow == \A q \in Replays : Knows(q)
\* A stored status is of the row of a replay, not of a retry's copy.
StoredIsAReplays ==
  claim.state = "completed" /\ claim.status \notin {"error", "empty"} => \E q \in Replays : Stored(claim.row, q)

Fit  == CallsFit /\ RowsFit /\ StagesFit /\ ReplaysDoNotQueue
IInv == /\ TypeOK /\ Fit /\ RetriesFollowFailures /\ SendingIsTracked
        /\ OneAtATime /\ Paired /\ OneHandler /\ ReplaySendsOnce
        /\ HandlersKnow /\ StoredIsAReplays /\ StoredAnswerHolds

--------------------------------------------------------------------------------
(* The three ways a statement changes the table. *)
Grows(r) ==
  /\ ledger' \in Seq(Row) /\ r \in Row
  /\ Inserted \in Nat \ {0} /\ Inserted \notin DOMAIN ledger
  /\ DOMAIN ledger' = DOMAIN ledger \cup {Inserted}
  /\ ledger'[Inserted] = r
  /\ \A i \in DOMAIN ledger : ledger'[i] = ledger[i] /\ i < Inserted

Moves(i, to) ==
  /\ ledger' \in Seq(Row) /\ i \in DOMAIN ledger /\ to \in Statuses
  /\ TransitionAllowed(ledger[i].status, to)
  /\ DOMAIN ledger' = DOMAIN ledger
  /\ ledger'[i] = [ledger[i] EXCEPT !.status = to]
  /\ \A j \in DOMAIN ledger : j # i => ledger'[j] = ledger[j]

Abandons ==
  /\ ledger' \in Seq(Row)
  /\ DOMAIN ledger' = DOMAIN ledger
  /\ \A i \in DOMAIN ledger :
       ledger'[i] = IF ledger[i].status = "sending"
                    THEN [ledger[i] EXCEPT !.status = "abandoned_restart"] ELSE ledger[i]

(* An inserted row is the last one, and its id is new.                            *)
LEMMA InsertGrows ==
  ASSUME ledger \in Seq(Row), NEW r \in Row, Insert(r) PROVE Grows(r)
<1>1. /\ Append(ledger, r) \in Seq(Row) /\ Len(ledger) \in Nat
      /\ DOMAIN ledger = 1..Len(ledger) /\ DOMAIN Append(ledger, r) = 1..(Len(ledger) + 1)
      /\ \A i \in 1..Len(ledger) : Append(ledger, r)[i] = ledger[i]
      /\ Append(ledger, r)[Len(ledger) + 1] = r
  OBVIOUS
<1>2. ledger' = Append(ledger, r)
  BY DEF Insert
<1> QED BY <1>1, <1>2 DEF Grows, Inserted

(* No status of a row allows a transition out of the statuses.                    *)
LEMMA AllowedIsStatus ==
  ASSUME NEW from \in Statuses, NEW to, TransitionAllowed(from, to) PROVE to \in Statuses
  BY DEF TransitionAllowed, Statuses, Results, Terminal

LEMMA TransitionMoves ==
  ASSUME ledger \in Seq(Row), NEW i, NEW to, CanTransition(i, to), Transition(i, to)
  PROVE  Moves(i, to)
<1>1. i \in DOMAIN ledger /\ ledger[i] \in Row
  BY DEF CanTransition
<1>2. to \in Statuses
  BY <1>1, AllowedIsStatus DEF CanTransition, Row
<1>3. [ledger[i] EXCEPT !.status = to] \in Row
  BY <1>1, <1>2 DEF Row
<1>4. ledger' = [ledger EXCEPT ![i] = [ledger[i] EXCEPT !.status = to]]
  BY DEF Transition
<1>5. ledger' \in Seq(Row) /\ DOMAIN ledger' = DOMAIN ledger
  BY <1>1, <1>3, <1>4
<1> QED BY <1>1, <1>2, <1>4, <1>5 DEF Moves, CanTransition

LEMMA MarkingAbandons ==
  ASSUME ledger \in Seq(Row), MarkSendingAbandoned PROVE Abandons
<1> DEFINE new(i) == IF i \in InSending THEN [ledger[i] EXCEPT !.status = "abandoned_restart"]
                                        ELSE ledger[i]
<1>1. ledger' = [i \in DOMAIN ledger |-> new(i)]
  BY DEF MarkSendingAbandoned
<1>2. \A i \in DOMAIN ledger : new(i) \in Row
  <2> TAKE i \in DOMAIN ledger
  <2>1. ledger[i] \in Row /\ "abandoned_restart" \in Statuses
    BY DEF Statuses, Terminal
  <2>2. [ledger[i] EXCEPT !.status = "abandoned_restart"] \in Row
    BY <2>1 DEF Row
  <2> QED BY <2>1, <2>2
<1>3. Len(ledger) \in Nat /\ DOMAIN ledger = 1..Len(ledger)
  OBVIOUS
<1>4. ledger' \in Seq(Row) /\ DOMAIN ledger' = DOMAIN ledger
  <2> HIDE DEF new
  <2> QED BY <1>1, <1>2, <1>3
<1> QED BY <1>1, <1>4 DEF Abandons, InSending

(* A transition whose error is ignored moves the row, finds that it may not, or   *)
(* fails and leaves a row in sending to the lost ones.                            *)
LEMMA Tried ==
  ASSUME ledger \in Seq(Row), NEW i, NEW to, TryTransition(i, to)
  PROVE  /\ UNCHANGED panicked
         /\ \/ Moves(i, to) /\ UNCHANGED <<lost, trouble>>
            \/ ~CanTransition(i, to) /\ UNCHANGED <<ledger, lost, trouble>>
            \/ /\ i \in DOMAIN ledger /\ UNCHANGED ledger
               /\ trouble' = trouble + 1
               /\ lost' = IF ledger[i].status = "sending" THEN lost \cup {i} ELSE lost
  BY TransitionMoves DEF TryTransition, NoFault, Fault, Trouble, mishaps

(* After any of the three a row keeps its origin, and a finished row its status.   *)
Kept(i) ==
  /\ i \in DOMAIN ledger'
  /\ ledger'[i].by = ledger[i].by /\ ledger'[i].of = ledger[i].of
  /\ ledger'[i].call = ledger[i].call /\ ledger'[i].attempt = ledger[i].attempt
  /\ ledger[i].status \in Terminal => ledger'[i].status = ledger[i].status

LEMMA TableKept ==
  ASSUME ledger \in Seq(Row),
         \/ ledger' = ledger
         \/ \E r : Grows(r)
         \/ \E i, to : Moves(i, to)
         \/ Abandons
  PROVE  \A i \in DOMAIN ledger : Kept(i)
<1> SUFFICES ASSUME NEW i \in DOMAIN ledger PROVE Kept(i)
  OBVIOUS
<1>1. ledger[i] \in Row
  OBVIOUS
<1>2. CASE ledger' = ledger
  BY <1>1, <1>2 DEF Kept, Row, Statuses, Results, Terminal
<1>3. CASE \E r : Grows(r)
  BY <1>1, <1>3 DEF Kept, Grows, Row, Statuses, Results, Terminal
<1>4. CASE \E j, to : Moves(j, to)
  <2>1. PICK j, to : Moves(j, to)
    BY <1>4
  <2>2. CASE j = i
    <3>1. /\ ledger'[i] = [ledger[i] EXCEPT !.status = to] /\ i \in DOMAIN ledger'
          /\ TransitionAllowed(ledger[i].status, to)
      BY <2>1, <2>2 DEF Moves
    <3>2. ledger[i].status \in Terminal => to = ledger[i].status
      BY <3>1 DEF TransitionAllowed, Terminal
    <3> QED BY <1>1, <3>1, <3>2 DEF Kept, Row
  <2>3. CASE j # i
    <3>1. ledger'[i] = ledger[i] /\ i \in DOMAIN ledger'
      BY <2>1, <2>3 DEF Moves
    <3> QED BY <1>1, <3>1 DEF Kept, Row, Statuses, Results, Terminal
  <2> QED BY <2>2, <2>3
<1>5. CASE Abandons
  BY <1>1, <1>5 DEF Kept, Abandons, Row, Statuses, Results, Terminal
<1> QED BY <1>2, <1>3, <1>4, <1>5

--------------------------------------------------------------------------------
(* The steps of a notification. *)
StageFits(s) == /\ s.stage = "segments" => s.call <= MaxSegments
                /\ s.stage = "without all" => s.call <= MaxSegments + 1

LEMMA CallIsNat ==
  ASSUME TypeOK, NEW n \in Notifies PROVE  send[n].call \in Nat \ {0} /\ send[n].call \in Calls
<1>1. send[n].call \in Calls
  BY DEF TypeOK, Send
<1> QED BY <1>1, SegmentAssumption DEF Calls

LEMMA NextCall ==
  ASSUME NEW c \in Nat
  PROVE  /\ c <= MaxSegments + 1 => c + 1 \in Calls
         /\ c <= MaxSegments => c <= MaxSegments + 1 /\ c + 1 <= MaxSegments + 1
         /\ c < MaxSegments => c <= MaxSegments /\ c + 1 <= MaxSegments
  BY SegmentAssumption DEF Calls

(* What a step of notification n may do, whichever action it is.                  *)
Shape(n) ==
  /\ UNCHANGED admin
  /\ \E s \in Send : StageFits(s) /\ send' = [send EXCEPT ![n] = s]
  /\ \E a \in Seq(Nat) : active' = [active EXCEPT ![n] = a]
  /\ \E f \in [Calls -> Evidence] : told' = [told EXCEPT ![n] = f]
  /\ panicked \subseteq panicked' /\ panicked' \subseteq panicked \cup {n}
  /\ trouble' \in Nat
  /\ lost \subseteq lost' /\ lost' \subseteq DOMAIN ledger
  /\ \/ ledger' = ledger
     \/ Grows(NewRow(n, send[n].call))
     \/ \E i, to : Stored(i, n) /\ Moves(i, to)

(* A call that returns ends its notification or begins the next call.             *)
Back(n) ==
  \E s \in Send :
    /\ StageFits(s) /\ send' = [send EXCEPT ![n] = s]
    /\ \/ s = [send[n] EXCEPT !.pc = "done"]
       \/ s.pc = "ready" /\ s.call = send[n].call + 1

LEMMA Returning ==
  ASSUME TypeOK, CallsFit, NEW n \in Notifies, NEW ok, NEW elements, Return(n, ok, elements)
  PROVE  Back(n)
<1>1. send[n] \in Send /\ StageFits(send[n])
  BY DEF TypeOK, CallsFit, StageFits
<1> DEFINE next(stage) == [send[n] EXCEPT !.pc = "ready", !.stage = stage, !.call = send[n].call + 1,
                                          !.again = FALSE, !.row = 0]
           over == [send[n] EXCEPT !.pc = "done"]
<1>2. MaxSegments \in Nat \ {0}
  BY SegmentAssumption
<1>3. over \in Send /\ StageFits(over)
  BY <1>1 DEF Send, StageFits
<1>4. ASSUME NEW stage \in {"without all", "segments", "at list"}, send' = [send EXCEPT ![n] = next(stage)],
             \/ stage = "without all" /\ send[n].stage = "segments"
             \/ stage = "segments" /\ send[n].stage = "segments" /\ send[n].call < MaxSegments
             \/ stage = "at list" /\ send[n].stage = "without all"
      PROVE  Back(n)
  <2> HIDE DEF next, over
  <2>1. send[n].call \in Nat
    BY CallIsNat
  <2>2. /\ stage = "without all" => send[n].call <= MaxSegments
        /\ stage = "segments" => send[n].call < MaxSegments
        /\ stage = "at list" => send[n].call <= MaxSegments + 1
    BY <1>1, <1>4 DEF StageFits
  <2>3. /\ send[n].call + 1 \in Calls
        /\ stage = "segments" => send[n].call + 1 <= MaxSegments
        /\ stage = "without all" => send[n].call + 1 <= MaxSegments + 1
    BY <2>1, <2>2, NextCall
  <2>4. /\ next(stage) \in Send /\ next(stage).stage = stage
        /\ next(stage).pc = "ready" /\ next(stage).call = send[n].call + 1
    BY <1>1, <1>4, <2>3 DEF Send, next
  <2>5. StageFits(next(stage))
    BY <2>3, <2>4 DEF StageFits
  <2> HIDE DEF next
  <2> QED BY <1>4, <2>4, <2>5 DEF Back
<1>5. \/ send' = [send EXCEPT ![n] = over]
      \/ send' = [send EXCEPT ![n] = next("without all")] /\ send[n].stage = "segments"
      \/ /\ send' = [send EXCEPT ![n] = next("segments")] /\ send[n].stage = "segments"
         /\ send[n].call < MaxSegments
      \/ send' = [send EXCEPT ![n] = next("at list")] /\ send[n].stage = "without all"
  <2>1. \A pc : Goes(n, pc) => send' = [send EXCEPT ![n] = [send[n] EXCEPT !.pc = pc]]
    BY DEF Goes
  <2>2. \A stage : Another(n, stage) => send' = [send EXCEPT ![n] = next(stage)]
    BY DEF Another
  <2> HIDE DEF next
  <2> QED BY <2>1, <2>2 DEF Return, FallsBack
<1> HIDE DEF next, over
<1>6. CASE send' = [send EXCEPT ![n] = over]
  BY <1>3, <1>6 DEF Back, over
<1> QED BY <1>4, <1>5, <1>6

LEMMA Going ==
  ASSUME TypeOK, CallsFit, NEW n \in Notifies, NEW pc, Goes(n, pc),
         pc \in {"skip", "create", "wire", "record", "done"}
  PROVE  \E s \in Send : /\ StageFits(s) /\ send' = [send EXCEPT ![n] = s]
                         /\ s = [send[n] EXCEPT !.pc = pc]
<1>1. send[n] \in Send /\ StageFits(send[n])
  BY DEF TypeOK, CallsFit, StageFits
<1>2. [send[n] EXCEPT !.pc = pc] \in Send /\ StageFits([send[n] EXCEPT !.pc = pc])
  BY <1>1 DEF Send, StageFits
<1>3. send' = [send EXCEPT ![n] = [send[n] EXCEPT !.pc = pc]]
  BY DEF Goes
<1> QED BY <1>2, <1>3

LEMMA NewRowIsRow ==
  ASSUME NEW by \in Notifies \cup Replays, NEW call \in Nat
  PROVE  /\ NewRow(by, call) \in Row
         /\ NewRow(by, call).status = "planned" /\ NewRow(by, call).by = by
         /\ NewRow(by, call).call = call /\ NewRow(by, call).of = 0
  BY DEF NewRow, Row, Statuses

(* A refused, failed or successful insert and transition keep the shape.          *)
LEMMA NotifyShape ==
  ASSUME TypeOK, Fit, NEW n \in Notifies, NotifyStep(n)
  PROVE  Shape(n)
<1> USE DEF Fit
<1> DEFINE Same == /\ active' = active /\ told' = told
           Calm == panicked' = panicked /\ trouble' = trouble
<1>1. /\ ledger \in Seq(Row) /\ active[n] \in Seq(Nat) /\ told[n] \in [Calls -> Evidence]
      /\ active = [active EXCEPT ![n] = active[n]] /\ told = [told EXCEPT ![n] = told[n]]
      /\ trouble \in Nat /\ trouble + 1 \in Nat /\ lost \subseteq DOMAIN ledger
      /\ panicked \subseteq Notifies /\ send[n] \in Send /\ StageFits(send[n])
  <2>1. active \in [Notifies -> Seq(Nat)] /\ told \in [Notifies -> [Calls -> Evidence]]
    BY DEF TypeOK
  <2>2. active = [active EXCEPT ![n] = active[n]] /\ told = [told EXCEPT ![n] = told[n]]
    BY <2>1
  <2>3. trouble \in Nat /\ trouble + 1 \in Nat
    BY DEF TypeOK
  <2> QED BY <2>1, <2>2, <2>3 DEF TypeOK, CallsFit, StageFits
<1>2. NewRow(n, send[n].call) \in Row
  BY CallIsNat, NewRowIsRow
<1>3. ASSUME Back(n) PROVE \E s \in Send : StageFits(s) /\ send' = [send EXCEPT ![n] = s]
  BY <1>3 DEF Back
<1>4. ASSUME NEW i, NEW to, TryTransition(i, to), Stored(i, n)
      PROVE  /\ panicked \subseteq panicked' /\ panicked' \subseteq panicked \cup {n}
             /\ trouble' \in Nat /\ lost \subseteq lost' /\ lost' \subseteq DOMAIN ledger
             /\ ledger' = ledger \/ \E j, st : Stored(j, n) /\ Moves(j, st)
  BY <1>1, <1>4, Tried
<1>5. CASE Refuse(n)
  BY <1>1, <1>3, <1>5, Returning DEF Refuse, Shape, mishaps
<1>6. CASE Empty(n) \/ Pass(n)
  BY <1>1, <1>6, Going DEF Empty, Pass, Shape, mishaps
<1>7. CASE SkipCreate(n) \/ Create(n)
  <2>1. CASE Insert(NewRow(n, send[n].call)) /\ NoFault
    <3>1. Grows(NewRow(n, send[n].call))
      BY <1>1, <1>2, <2>1, InsertGrows
    <3>2. \E s \in Send : StageFits(s) /\ send' = [send EXCEPT ![n] = s]
      <4>1. PICK pc \in {"skipped", "enter"} : send' = [send EXCEPT ![n].pc = pc, ![n].row = Inserted]
        BY <1>7, <2>1, <3>1 DEF SkipCreate, Create, Insert, Grows
      <4>2. /\ [send[n] EXCEPT !.pc = pc, !.row = Inserted] \in Send
            /\ StageFits([send[n] EXCEPT !.pc = pc, !.row = Inserted])
        BY <1>1, <3>1 DEF Send, StageFits, Grows
      <4>3. send' = [send EXCEPT ![n] = [send[n] EXCEPT !.pc = pc, !.row = Inserted]]
        BY <4>1 DEF TypeOK
      <4> QED BY <4>2, <4>3
    <3> QED BY <1>1, <1>7, <2>1, <3>1, <3>2 DEF SkipCreate, Create, Shape, NoFault, mishaps
  <2>2. CASE ~(Insert(NewRow(n, send[n].call)) /\ NoFault)
    <3>1. \E s \in Send : StageFits(s) /\ send' = [send EXCEPT ![n] = s]
      BY <1>3, <1>7, <2>2, Returning, Going DEF SkipCreate, Create
    <3> QED BY <1>1, <1>7, <2>2, <3>1 DEF SkipCreate, Create, Shape, Fault, Trouble
  <2> QED BY <2>1, <2>2
<1>8. CASE SkipClose(n)
  <2>1. Stored(send[n].row, n)
    BY <1>8 DEF SkipClose, RowsFit
  <2>2. TryTransition(send[n].row, "skipped_empty") /\ Back(n) /\ UNCHANGED <<active, told, admin>>
    BY <1>8, Returning DEF SkipClose
  <2> QED BY <1>1, <1>3, <1>4, <2>1, <2>2 DEF Shape
<1>9. CASE Enter(n)
  <2>1. Stored(send[n].row, n)
    BY <1>9 DEF Enter, RowsFit
  <2>2. \E s \in Send : StageFits(s) /\ send' = [send EXCEPT ![n] = s]
    BY <1>9, Going DEF Enter
  <2>3. CASE CanTransition(send[n].row, "sending") /\ Transition(send[n].row, "sending") /\ NoFault
             /\ active' = [active EXCEPT ![n] = Append(@, send[n].row)]
    <3>1. Moves(send[n].row, "sending")
      BY <1>1, <2>3, TransitionMoves
    <3>2. Append(active[n], send[n].row) \in Seq(Nat)
      <4>1. send[n].row \in Nat /\ active[n] \in Seq(Nat)
        BY <1>1 DEF Send
      <4> QED BY <4>1
    <3>3. active' = [active EXCEPT ![n] = Append(active[n], send[n].row)]
      BY <2>3
    <3>4. UNCHANGED <<told, admin, lost>> /\ UNCHANGED <<panicked, trouble>>
      BY <1>9, <2>3 DEF Enter, NoFault, mishaps
    <3> QED BY <1>1, <2>1, <2>2, <3>1, <3>2, <3>3, <3>4 DEF Shape
  <2>4. CASE Fault /\ UNCHANGED <<ledger, active>>
    <3>1. UNCHANGED <<told, admin, lost>> /\ trouble' = trouble + 1 /\ UNCHANGED panicked
      BY <1>9, <2>4 DEF Enter, Fault, Trouble
    <3> QED BY <1>1, <2>2, <2>4, <3>1 DEF Shape
  <2> QED BY <1>9, <2>3, <2>4 DEF Enter
<1>10. CASE Answer(n)
  <2>1. PICK e \in Outcomes : told' = [told EXCEPT ![n][send[n].call] = e]
    BY <1>10 DEF Answer
  <2>2. e \in Evidence
    BY OutcomeAssumption DEF Evidence
  <2>3. /\ [told[n] EXCEPT ![send[n].call] = e] \in [Calls -> Evidence]
        /\ told' = [told EXCEPT ![n] = [told[n] EXCEPT ![send[n].call] = e]]
    BY <1>1, <2>1, <2>2, CallIsNat
  <2>4. \E s \in Send : StageFits(s) /\ send' = [send EXCEPT ![n] = s]
    BY <1>10, Going DEF Answer
  <2> QED BY <1>1, <1>10, <2>3, <2>4 DEF Answer, Shape, mishaps
<1>11. CASE Panic(n)
  <2>1. \E s \in Send : StageFits(s) /\ send' = [send EXCEPT ![n] = s]
    <3>1. CASE send[n].again
      BY <1>3, <1>11, <3>1, Returning DEF Panic
    <3>2. CASE ~send[n].again
      <4>1. send' = [send EXCEPT ![n] = [send[n] EXCEPT !.pc = "ready", !.again = TRUE, !.row = 0]]
        BY <1>11, <3>2 DEF Panic
      <4>2. /\ [send[n] EXCEPT !.pc = "ready", !.again = TRUE, !.row = 0] \in Send
            /\ StageFits([send[n] EXCEPT !.pc = "ready", !.again = TRUE, !.row = 0])
        BY <1>1 DEF Send, StageFits
      <4> QED BY <4>1, <4>2
    <3> QED BY <3>1, <3>2
  <2> QED BY <1>1, <1>11, <2>1 DEF Panic, Shape, Trouble
<1>12. CASE Record(n)
  <2>1. Back(n) /\ UNCHANGED <<told, admin>>
    BY <1>12, Returning DEF Record
  <2>2. CASE active[n] = <<>>
    <3>1. UNCHANGED <<ledger, active, lost, panicked, trouble>>
      BY <1>12, <2>2 DEF Record, NoFault, mishaps
    <3> QED BY <1>1, <1>3, <2>1, <3>1 DEF Shape
  <2>3. CASE active[n] # <<>>
    <3>1. /\ active' = [active EXCEPT ![n] = Tail(active[n])]
          /\ TryTransition(Head(active[n]), Status(told[n][send[n].call]))
      BY <1>12, <2>3 DEF Record, Pop
    <3>2. Tail(active[n]) \in Seq(Nat) /\ Head(active[n]) = active[n][1] /\ 1 \in DOMAIN active[n]
      BY <1>1, <2>3
    <3>3. Stored(Head(active[n]), n)
      BY <3>2 DEF RowsFit
    <3> QED BY <1>1, <1>3, <1>4, <2>1, <3>1, <3>2, <3>3 DEF Shape
  <2> QED BY <2>2, <2>3
<1> QED BY <1>5, <1>6, <1>7, <1>8, <1>9, <1>10, <1>11, <1>12 DEF NotifyStep

--------------------------------------------------------------------------------
(* The steps of a replay, of a retry and of a restart. *)
ReplayShape(q) ==
  /\ UNCHANGED <<sending, retry, panicked>>
  /\ \E h \in Handler : replay' = [replay EXCEPT ![q] = h]
  /\ claim' \in Command /\ sends' \in Nat /\ trouble' \in Nat
  /\ lost \subseteq lost' /\ lost' \subseteq DOMAIN ledger
  /\ \/ ledger' = ledger
     \/ Grows(NewRow(q, 0))
     \/ \E i, to : Stored(i, q) /\ Moves(i, to) /\ to # "queued"

LEMMA HandlerChange ==
  ASSUME TypeOK, NEW q \in Replays
  PROVE  /\ replay[q] \in Handler
         /\ \A from, to : Handles(q, from, to) /\ to \in {"claimed", "done", "sending", "unwritten"} =>
              \E h \in Handler : replay' = [replay EXCEPT ![q] = h]
         /\ \A row \in Nat, error \in BOOLEAN : Ends(q, row, error) =>
              \E h \in Handler : replay' = [replay EXCEPT ![q] = h]
<1>1. replay[q] \in Handler
  BY DEF TypeOK
<1>2. ASSUME NEW from, NEW to \in {"claimed", "done", "sending", "unwritten"}, Handles(q, from, to)
      PROVE  \E h \in Handler : replay' = [replay EXCEPT ![q] = h]
  <2>1. [replay[q] EXCEPT !.pc = to] \in Handler
    BY <1>1 DEF Handler
  <2>2. replay' = [replay EXCEPT ![q] = [replay[q] EXCEPT !.pc = to]]
    BY <1>2 DEF Handles
  <2> QED BY <2>1, <2>2
<1>3. ASSUME NEW row \in Nat, NEW error \in BOOLEAN, Ends(q, row, error)
      PROVE  \E h \in Handler : replay' = [replay EXCEPT ![q] = h]
  <2>1. [replay[q] EXCEPT !.pc = "written", !.row = row, !.error = error] \in Handler
    BY <1>1 DEF Handler
  <2>2. replay' = [replay EXCEPT ![q] = [replay[q] EXCEPT !.pc = "written", !.row = row, !.error = error]]
    BY <1>3 DEF Ends
  <2> QED BY <2>1, <2>2
<1> QED BY <1>1, <1>2, <1>3

LEMMA ReplayKeepsShape ==
  ASSUME TypeOK, Fit, NEW q \in Replays, Claim(q) \/ ReplayStep(q)
  PROVE  ReplayShape(q)
<1>1. /\ ledger \in Seq(Row) /\ lost \subseteq DOMAIN ledger /\ trouble \in Nat
      /\ trouble + 1 \in Nat /\ sends \in Nat /\ sends + 1 \in Nat
      /\ claim \in Command /\ replay[q] \in Handler
  BY HandlerChange DEF TypeOK
<1>2. /\ replay[q].pc \in {"created", "sending", "sent", "unwritten"} => Stored(replay[q].row, q)
      /\ replay[q].row # 0 => Stored(replay[q].row, q)
      /\ replay[q].row \in Nat /\ replay[q].result \in Results
      /\ replay[q].pc = "sent" => replay[q].result # "queued"
  BY <1>1 DEF Fit, RowsFit, StagesFit, Handler
<1>3. /\ NewRow(q, 0) \in Row /\ FALSE \in BOOLEAN /\ TRUE \in BOOLEAN /\ 0 \in Nat
      /\ {"error", "empty", "planned"} \subseteq Statuses \cup {"error", "empty"}
  BY NewRowIsRow DEF Statuses
<1>4. ASSUME NoFault \/ Fault PROVE trouble' \in Nat /\ UNCHANGED panicked
  BY <1>1, <1>4 DEF NoFault, Fault, Trouble, mishaps
<1>5. CASE Claim(q)
  <2>1. [claim EXCEPT !.state = "in_progress"] \in Command
    BY <1>1 DEF Command
  <2>2. claim' \in Command
    BY <1>1, <1>5, <2>1 DEF Claim
  <2>3. \E h \in Handler : replay' = [replay EXCEPT ![q] = h]
    BY <1>5, HandlerChange DEF Claim
  <2> QED BY <1>1, <1>5, <2>2, <2>3 DEF Claim, ReplayShape, mishaps
<1>6. CASE ReplayCreate(q)
  <2>1. CASE Insert(NewRow(q, 0)) /\ NoFault
             /\ replay' = [replay EXCEPT ![q].pc = "created", ![q].row = Inserted]
    <3>1. Grows(NewRow(q, 0))
      BY <1>1, <1>3, <2>1, InsertGrows
    <3>2. [replay[q] EXCEPT !.pc = "created", !.row = Inserted] \in Handler
      BY <1>1, <3>1 DEF Handler, Grows
    <3>3. replay' = [replay EXCEPT ![q] = [replay[q] EXCEPT !.pc = "created", !.row = Inserted]]
      BY <2>1 DEF TypeOK
    <3> QED BY <1>1, <1>4, <1>6, <2>1, <3>1, <3>2, <3>3 DEF ReplayCreate, ReplayShape
  <2>2. CASE UNCHANGED ledger /\ Ends(q, 0, TRUE) /\ (NoFault \/ Fault)
    BY <1>1, <1>3, <1>4, <1>6, <2>2, HandlerChange DEF ReplayCreate, ReplayShape
  <2> QED BY <1>6, <2>1, <2>2 DEF ReplayCreate
<1>7. CASE ReplayEnter(q)
  <2>1. CASE CanTransition(replay[q].row, "sending") /\ Transition(replay[q].row, "sending")
             /\ Handles(q, "created", "sending") /\ NoFault
    <3>1. Moves(replay[q].row, "sending") /\ Stored(replay[q].row, q)
      BY <1>1, <1>2, <1>7, <2>1, TransitionMoves DEF ReplayEnter
    <3>2. \E h \in Handler : replay' = [replay EXCEPT ![q] = h]
      BY <2>1, HandlerChange
    <3> QED BY <1>1, <1>4, <1>7, <2>1, <3>1, <3>2 DEF ReplayEnter, ReplayShape
  <2>2. CASE UNCHANGED ledger /\ Ends(q, 0, TRUE) /\ Fault
    BY <1>1, <1>3, <1>4, <1>7, <2>2, HandlerChange DEF ReplayEnter, ReplayShape
  <2> QED BY <1>7, <2>1, <2>2 DEF ReplayEnter
<1>8. CASE ReplaySend(q)
  <2>1. PICK s \in {"sent", "unknown", "rejected"} :
          replay' = [replay EXCEPT ![q].pc = "sent", ![q].result = s]
    BY <1>8 DEF ReplaySend
  <2>2. [replay[q] EXCEPT !.pc = "sent", !.result = s] \in Handler
    BY <1>1 DEF Handler, Results
  <2>3. replay' = [replay EXCEPT ![q] = [replay[q] EXCEPT !.pc = "sent", !.result = s]]
    BY <2>1 DEF TypeOK
  <2> QED BY <1>1, <1>8, <2>2, <2>3 DEF ReplaySend, ReplayShape, mishaps
<1>9. CASE ReplayRecord(q)
  <2>1. CASE CanTransition(replay[q].row, replay[q].result) /\ NoFault
             /\ Transition(replay[q].row, replay[q].result) /\ Ends(q, replay[q].row, FALSE)
    <3>1. /\ Moves(replay[q].row, replay[q].result) /\ Stored(replay[q].row, q)
          /\ replay[q].result # "queued"
      BY <1>1, <1>2, <1>9, <2>1, TransitionMoves DEF ReplayRecord
    <3>2. \E h \in Handler : replay' = [replay EXCEPT ![q] = h]
      BY <1>2, <1>3, <2>1, HandlerChange
    <3> QED BY <1>1, <1>4, <1>9, <2>1, <3>1, <3>2 DEF ReplayRecord, ReplayShape
  <2>2. CASE Fault /\ UNCHANGED ledger /\ Handles(q, "sent", "unwritten")
    BY <1>1, <1>4, <1>9, <2>2, HandlerChange DEF ReplayRecord, ReplayShape
  <2> QED BY <1>9, <2>1, <2>2 DEF ReplayRecord
<1>10. CASE ReplayUnknown(q)
  <2>1. Stored(replay[q].row, q) /\ TryTransition(replay[q].row, "unknown")
    BY <1>2, <1>10 DEF ReplayUnknown
  <2>2. \E h \in Handler : replay' = [replay EXCEPT ![q] = h]
    BY <1>2, <1>3, <1>10, HandlerChange DEF ReplayUnknown
  <2>3. /\ UNCHANGED panicked /\ trouble' \in Nat
        /\ lost \subseteq lost' /\ lost' \subseteq DOMAIN ledger
        /\ ledger' = ledger \/ Moves(replay[q].row, "unknown")
    BY <1>1, <2>1, Tried
  <2> QED BY <1>1, <1>10, <2>1, <2>2, <2>3 DEF ReplayUnknown, ReplayShape
<1>11. CASE ReplayComplete(q)
  <2>1. ReadBack(q) \in Statuses \cup {"error"}
    <3>1. CASE replay[q].row = 0
      BY <3>1 DEF ReadBack
    <3>2. CASE replay[q].row # 0
      <4>1. replay[q].row \in DOMAIN ledger
        BY <1>2, <3>2 DEF Stored
      <4>2. ledger[replay[q].row] \in Row
        BY <1>1, <4>1
      <4> QED BY <3>2, <4>2 DEF ReadBack, Row
    <3> QED BY <3>1, <3>2
  <2>2. claim' \in Command
    BY <1>1, <1>2, <1>3, <1>11, <2>1 DEF ReplayComplete, Command
  <2>3. \E h \in Handler : replay' = [replay EXCEPT ![q] = h]
    BY <1>11, HandlerChange DEF ReplayComplete
  <2>4. NoFault \/ Fault
    BY <1>11 DEF ReplayComplete
  <2> QED BY <1>1, <1>4, <1>11, <2>2, <2>3, <2>4 DEF ReplayComplete, ReplayShape
<1> QED BY <1>5, <1>6, <1>7, <1>8, <1>9, <1>10, <1>11 DEF ReplayStep

(* A retry only reads, or appends a copy of the row it read as a new attempt.      *)
RetryShape(t) ==
  /\ UNCHANGED <<sending, claim, replay, sends, lost, panicked>>
  /\ trouble' \in Nat
  /\ \/ /\ ledger' = ledger /\ retry[t].pc = "idle"
        /\ \E i \in DOMAIN ledger : ledger[i].status \in Retryable
                                    /\ retry' = [retry EXCEPT ![t] = [pc |-> "read", of |-> i]]
     \/ /\ retry[t].pc = "read" /\ retry' = [retry EXCEPT ![t].pc = "done"]
        /\ \/ ledger' = ledger
           \/ \E r : /\ Grows(r) /\ r.status = "planned" /\ r.of = retry[t].of
                     /\ r.attempt = ledger[retry[t].of].attempt + 1

LEMMA RetryKeepsShape ==
  ASSUME TypeOK, Fit, NEW t \in Retries, RetryRead(t) \/ RetryInsert(t)
  PROVE  RetryShape(t)
<1>1. ledger \in Seq(Row) /\ trouble \in Nat /\ trouble + 1 \in Nat
  BY DEF TypeOK
<1>2. CASE RetryRead(t)
  BY <1>1, <1>2 DEF RetryRead, RetryShape, mishaps
<1>3. CASE RetryInsert(t)
  <2> DEFINE i == retry[t].of
             r == [ledger[i] EXCEPT !.status = "planned", !.attempt = ledger[i].attempt + 1, !.of = i]
  <2>1. i \in DOMAIN ledger
    BY <1>3 DEF RetryInsert, Fit, StagesFit
  <2>2. ledger[i] \in Row /\ i \in Nat
    BY <1>1, <2>1
  <2>3. r \in Row /\ r.status = "planned" /\ r.of = i /\ r.attempt = ledger[i].attempt + 1
    <3>1. "planned" \in Statuses /\ ledger[i].attempt \in Nat \ {0}
      BY <2>2 DEF Row, Statuses
    <3>2. ledger[i].attempt + 1 \in Nat \ {0}
      BY <3>1
    <3> QED BY <2>2, <3>1, <3>2 DEF Row
  <2>4. CASE Insert(r) /\ NoFault
    <3>1. Grows(r)
      BY <1>1, <2>3, <2>4, InsertGrows
    <3> HIDE DEF r
    <3> QED BY <1>1, <1>3, <2>3, <2>4, <3>1 DEF RetryInsert, RetryShape, NoFault, mishaps
  <2>5. CASE UNCHANGED ledger /\ Fault
    BY <1>1, <1>3, <2>5 DEF RetryInsert, RetryShape, Fault, Trouble
  <2> QED BY <1>3, <2>4, <2>5 DEF RetryInsert
<1> QED BY <1>2, <1>3

(* A restart ends every handler that was not idle and every send that had begun.   *)
RestartShape ==
  /\ UNCHANGED <<told, claim, sends, panicked>> /\ trouble' \in Nat
  /\ active' = [n \in Notifies |-> <<>>]
  /\ send' \in [Notifies -> Send]
  /\ \A n \in Notifies : (send'[n] = send[n] /\ send[n].pc \in {"done", "ready"})
                         \/ send'[n] = [send[n] EXCEPT !.pc = "gone"]
  /\ replay' \in [Replays -> Handler]
  /\ \A q \in Replays : (replay'[q] = replay[q] /\ replay[q].pc \in {"idle", "done"})
                        \/ replay'[q] = [replay[q] EXCEPT !.pc = "gone"]
  /\ retry' \in [Retries -> [pc : {"idle", "read", "done", "gone"}, of : Nat]]
  /\ \A t \in Retries : retry'[t].pc # "read"
  /\ \/ Abandons /\ lost' = lost
     \/ ledger' = ledger /\ lost' = lost \cup InSending

LEMMA RestartKeepsShape == ASSUME TypeOK, Restart PROVE RestartShape
<1>1. /\ ledger \in Seq(Row) /\ trouble' \in Nat /\ send \in [Notifies -> Send]
      /\ replay \in [Replays -> Handler]
      /\ retry \in [Retries -> [pc : {"idle", "read", "done", "gone"}, of : Nat]]
  BY DEF TypeOK, Restart, Trouble
<1>2. \A n \in Notifies : [send[n] EXCEPT !.pc = "gone"] \in Send
  BY <1>1 DEF Send
<1>3. \A q \in Replays : [replay[q] EXCEPT !.pc = "gone"] \in Handler
  BY <1>1 DEF Handler
<1>4. \A t \in Retries : /\ [retry[t] EXCEPT !.pc = "gone"] \in [pc : {"idle", "read", "done", "gone"}, of : Nat]
                         /\ [retry[t] EXCEPT !.pc = "gone"].pc = "gone"
  BY <1>1
<1>5. /\ send' \in [Notifies -> Send]
      /\ \A n \in Notifies : (send'[n] = send[n] /\ send[n].pc \in {"done", "ready"})
                             \/ send'[n] = [send[n] EXCEPT !.pc = "gone"]
  BY <1>1, <1>2 DEF Restart
<1>6. /\ replay' \in [Replays -> Handler]
      /\ \A q \in Replays : (replay'[q] = replay[q] /\ replay[q].pc \in {"idle", "done"})
                            \/ replay'[q] = [replay[q] EXCEPT !.pc = "gone"]
  <2>1. replay' = [q \in Replays |-> IF replay[q].pc \in {"idle", "done"} THEN replay[q]
                                     ELSE [replay[q] EXCEPT !.pc = "gone"]]
    BY <1>1 DEF Restart, Dies
  <2> QED BY <1>1, <1>3, <2>1
<1>7. /\ retry' \in [Retries -> [pc : {"idle", "read", "done", "gone"}, of : Nat]]
      /\ \A t \in Retries : retry'[t].pc # "read"
  <2>1. retry' = [t \in Retries |-> IF retry[t].pc \in {"idle", "done"} THEN retry[t]
                                    ELSE [retry[t] EXCEPT !.pc = "gone"]]
    BY <1>1 DEF Restart, Dies
  <2> QED BY <1>1, <1>4, <2>1
<1>8. \/ Abandons /\ lost' = lost
      \/ ledger' = ledger /\ lost' = lost \cup InSending
  BY <1>1, MarkingAbandons DEF Restart
<1> QED BY <1>1, <1>5, <1>6, <1>7, <1>8 DEF Restart, RestartShape

--------------------------------------------------------------------------------
(* Types and fits. *)
LEMMA Shapes ==
  ASSUME TypeOK, Fit, [Next]_vars
  PROVE  \/ \E n \in Notifies : NotifyStep(n) /\ Shape(n)
         \/ \E q \in Replays : (Claim(q) \/ ReplayStep(q)) /\ ReplayShape(q)
         \/ \E t \in Retries : RetryShape(t)
         \/ RestartShape
         \/ UNCHANGED vars
  BY NotifyShape, ReplayKeepsShape, RetryKeepsShape, RestartKeepsShape DEF Next

(* Every step keeps the rows' origins and the finished rows' statuses.            *)
LEMMA StepsKeepTable ==
  ASSUME TypeOK, Fit, [Next]_vars
  PROVE  ledger' \in Seq(Row) /\ \A i \in DOMAIN ledger : Kept(i)
<1>1. ledger \in Seq(Row)
  BY DEF TypeOK
<1>2. \/ ledger' = ledger
      \/ \E r : Grows(r)
      \/ \E i, to : Moves(i, to)
      \/ Abandons
  BY Shapes DEF Shape, ReplayShape, RetryShape, RestartShape, vars
<1>3. ledger' \in Seq(Row)
  BY <1>1, <1>2 DEF Grows, Moves, Abandons
<1> QED BY <1>1, <1>2, <1>3, TableKept

LEMMA TypeStep == ASSUME TypeOK, Fit, [Next]_vars PROVE TypeOK'
<1>1. ledger' \in Seq(Row) /\ DOMAIN ledger \subseteq DOMAIN ledger'
  BY StepsKeepTable DEF Kept
<1>2. CASE \E n \in Notifies : Shape(n)
  <2>1. PICK n \in Notifies : Shape(n)
    BY <1>2
  <2>2. send' \in [Notifies -> Send] /\ active' \in [Notifies -> Seq(Nat)]
        /\ told' \in [Notifies -> [Calls -> Evidence]]
    BY <2>1 DEF TypeOK, Shape
  <2>3. claim' = claim /\ replay' = replay /\ retry' = retry /\ sends' = sends
    BY <2>1 DEF Shape, admin
  <2> QED BY <1>1, <2>1, <2>2, <2>3 DEF TypeOK, Shape
<1>3. CASE \E q \in Replays : ReplayShape(q)
  <2>1. PICK q \in Replays : ReplayShape(q)
    BY <1>3
  <2>2. replay' \in [Replays -> Handler]
    BY <2>1 DEF TypeOK, ReplayShape
  <2>3. send' = send /\ active' = active /\ told' = told /\ retry' = retry
    BY <2>1 DEF ReplayShape, sending
  <2> QED BY <1>1, <2>1, <2>2, <2>3 DEF TypeOK, ReplayShape
<1>4. CASE \E t \in Retries : RetryShape(t)
  <2>1. PICK t \in Retries : RetryShape(t)
    BY <1>4
  <2>2. retry' \in [Retries -> [pc : {"idle", "read", "done", "gone"}, of : Nat]]
    <3>1. /\ retry \in [Retries -> [pc : {"idle", "read", "done", "gone"}, of : Nat]]
          /\ \A i \in DOMAIN ledger : i \in Nat
      BY DEF TypeOK
    <3>2. /\ \A i \in Nat : [pc |-> "read", of |-> i] \in [pc : {"idle", "read", "done", "gone"}, of : Nat]
          /\ [retry[t] EXCEPT !.pc = "done"] \in [pc : {"idle", "read", "done", "gone"}, of : Nat]
      BY <3>1
    <3>3. retry' = [retry EXCEPT ![t].pc = "done"] =>
            retry' = [retry EXCEPT ![t] = [retry[t] EXCEPT !.pc = "done"]]
      BY <3>1
    <3> QED BY <2>1, <3>1, <3>2, <3>3 DEF RetryShape
  <2>3. send' = send /\ active' = active /\ told' = told /\ claim' = claim /\ replay' = replay
    BY <2>1 DEF RetryShape, sending
  <2> QED BY <1>1, <2>1, <2>2, <2>3 DEF TypeOK, RetryShape
<1>5. CASE RestartShape
  <2>1. active' \in [Notifies -> Seq(Nat)]
    BY <1>5 DEF RestartShape
  <2>2. lost' \subseteq DOMAIN ledger
    BY <1>5 DEF TypeOK, RestartShape, InSending
  <2> QED BY <1>1, <1>5, <2>1, <2>2 DEF TypeOK, RestartShape
<1>6. CASE UNCHANGED vars
  BY <1>6 DEF TypeOK, vars, Calls
<1> QED BY <1>2, <1>3, <1>4, <1>5, <1>6, Shapes

(* What a step leaves alone: the rows of everybody but the one who takes it.      *)
Untouched(who) ==
  \A i \in DOMAIN ledger' : ledger'[i].by = who /\ ledger'[i].of = 0 =>
    i \in DOMAIN ledger /\ ledger'[i] = ledger[i]

LEMMA OthersUntouched ==
  ASSUME TypeOK, Fit, [Next]_vars, NEW who
  PROVE  /\ \A n \in Notifies : Shape(n) /\ who # n => Untouched(who)
         /\ \A q \in Replays : ReplayShape(q) /\ who # q => Untouched(who)
         /\ \A t \in Retries : RetryShape(t) => Untouched(who)
<1>1. ledger' \in Seq(Row) /\ ledger \in Seq(Row)
  BY StepsKeepTable DEF TypeOK
<1>2. ASSUME ledger' = ledger PROVE Untouched(who)
  BY <1>2 DEF Untouched
<1>3. ASSUME NEW r, Grows(r), r.by # who \/ r.of # 0 PROVE Untouched(who)
  BY <1>3 DEF Untouched, Grows
<1>4. ASSUME NEW i, NEW to, NEW own, Stored(i, own), Moves(i, to), own # who PROVE Untouched(who)
  <2>1. ledger'[i].by = own
    <3>1. ledger[i] \in Row
      BY <1>1, <1>4 DEF Stored
    <3> QED BY <1>4, <3>1 DEF Stored, Moves, Row
  <2> QED BY <1>4, <2>1 DEF Untouched, Moves
<1>5. ASSUME NEW n \in Notifies, Shape(n), who # n PROVE Untouched(who)
  <2>1. NewRow(n, send[n].call).by = n
    BY CallIsNat, NewRowIsRow
  <2> QED BY <1>2, <1>3, <1>4, <1>5, <2>1 DEF Shape
<1>6. ASSUME NEW q \in Replays, ReplayShape(q), who # q PROVE Untouched(who)
  <2>1. NewRow(q, 0).by = q
    BY NewRowIsRow
  <2> QED BY <1>2, <1>3, <1>4, <1>6, <2>1 DEF ReplayShape
<1>7. ASSUME NEW t \in Retries, RetryShape(t) PROVE Untouched(who)
  <2>1. CASE ledger' = ledger
    BY <1>2, <2>1
  <2>2. CASE ledger' # ledger
    <3>1. PICK r : Grows(r) /\ r.of = retry[t].of /\ retry[t].pc = "read"
      BY <1>7, <2>2 DEF RetryShape
    <3>2. retry[t].of # 0
      BY <1>1, <3>1 DEF Fit, StagesFit
    <3> QED BY <1>3, <3>1, <3>2
  <2> QED BY <2>1, <2>2
<1> QED BY <1>5, <1>6, <1>7

--------------------------------------------------------------------------------
(* What holds of one notification. *)
\* the ids it holds are of its own rows, and an answer was noted before it is recorded,
Owns(n) ==
  /\ send[n].pc \in {"skipped", "enter"} =>
       Stored(send[n].row, n) /\ ledger[send[n].row].call = send[n].call
  /\ \A k \in DOMAIN active[n] : Stored(active[n][k], n)
  /\ send[n].pc = "record" => told[n][send[n].call] # "none"
\* it has one row at most on the wire,
Single(n) ==
  /\ Len(active[n]) <= 1
  /\ active[n] # <<>> => /\ send[n].pc \in {"wire", "record"}
                         /\ ledger[active[n][1]].call = send[n].call
  /\ \A i \in DOMAIN ledger : Stored(i, n) =>
       /\ ledger[i].call <= send[n].call
       /\ ledger[i].status \in Results /\ ledger[i].call = send[n].call => send[n].pc \in {"done", "gone"}
\* and its results are those of their calls.
Matched(n) ==
  \A i \in DOMAIN ledger : Stored(i, n) /\ ledger[i].status \in Results =>
    told[n][ledger[i].call] # "none" /\ ledger[i].status = Status(told[n][ledger[i].call])

LEMMA ByNotification ==
  /\ OneAtATime <=> \A n \in Notifies \ panicked : Single(n)
  /\ Paired <=> \A n \in Notifies \ panicked : Matched(n)
  BY DEF OneAtATime, Single, Paired, Matched, Stored

LEMMA OwnsFits ==
  TypeOK => (Fit => \A n \in Notifies : Owns(n))
  BY DEF Fit, RowsFit, StagesFit, Owns

(* A step of somebody else changes none of it.                                    *)
LEMMA OthersKeep ==
  ASSUME TypeOK, Fit, [Next]_vars, NEW n \in Notifies, Untouched(n),
         send'[n] = send[n], active'[n] = active[n], told'[n] = told[n]
  PROVE  Owns(n)' /\ (Single(n) => Single(n)') /\ (Matched(n) => Matched(n)')
<1>1. \A i \in DOMAIN ledger : Stored(i, n) => Stored(i, n)' /\ ledger'[i] = ledger[i]
  BY StepsKeepTable DEF Kept, Stored, Untouched
<1>2. \A i \in DOMAIN ledger' : Stored(i, n)' => i \in DOMAIN ledger /\ Stored(i, n) /\ ledger'[i] = ledger[i]
  BY DEF Stored, Untouched
<1>3. Owns(n)'
  BY <1>1, OwnsFits DEF Owns, Stored
<1>4. ASSUME Single(n) PROVE Single(n)'
  <2>1. active[n] # <<>> => 1 \in DOMAIN active[n]
    BY DEF TypeOK
  <2>2. active[n] # <<>> => ledger'[active[n][1]] = ledger[active[n][1]]
    BY <1>1, <2>1, OwnsFits DEF Owns, Stored
  <2> QED BY <1>2, <1>4, <2>2 DEF Single
<1>5. ASSUME Matched(n) PROVE Matched(n)'
  BY <1>2, <1>5 DEF Matched
<1> QED BY <1>3, <1>4, <1>5

(* Its own steps keep it.                                                          *)
LEMMA BackPc ==
  ASSUME TypeOK, NEW n \in Notifies, Back(n)
  PROVE  \/ send'[n].pc = "done" /\ send'[n].call = send[n].call
         \/ send'[n].pc = "ready" /\ send'[n].call = send[n].call + 1
<1>1. send \in [Notifies -> Send]
  BY DEF TypeOK
<1>2. PICK s \in Send : /\ send' = [send EXCEPT ![n] = s]
                        /\ \/ s = [send[n] EXCEPT !.pc = "done"]
                           \/ s.pc = "ready" /\ s.call = send[n].call + 1
  BY DEF Back
<1> QED BY <1>1, <1>2 DEF Send

LEMMA GoesPc ==
  ASSUME TypeOK, NEW n \in Notifies, NEW pc, Goes(n, pc)
  PROVE  send'[n].pc = pc /\ send'[n].call = send[n].call /\ send'[n].row = send[n].row
  BY DEF TypeOK, Goes, Send

LEMMA OwnStep ==
  ASSUME TypeOK, Fit, NEW n \in Notifies, NotifyStep(n)
  PROVE  /\ Owns(n)'
         /\ n \notin panicked' /\ Single(n) /\ Matched(n) => Single(n)' /\ Matched(n)'
<1> DEFINE c == send[n].call
           Calm == /\ \A i \in DOMAIN ledger : Stored(i, n) => Stored(i, n)' /\ ledger'[i] = ledger[i]
                   /\ \A i \in DOMAIN ledger' : Stored(i, n)' => i \in DOMAIN ledger /\ Stored(i, n)
<1>1. /\ ledger \in Seq(Row) /\ ledger' \in Seq(Row) /\ c \in Nat /\ active[n] \in Seq(Nat)
      /\ \A i \in DOMAIN ledger : Kept(i) /\ ledger[i].call \in Nat
      /\ Owns(n) /\ [Next]_vars
  <2>1. [Next]_vars
    BY DEF Next
  <2>2. \A i \in DOMAIN ledger : ledger[i] \in Row
    BY DEF TypeOK
  <2> QED BY <2>1, <2>2, StepsKeepTable, CallIsNat, OwnsFits DEF TypeOK, Row
<1>2. \A i : Stored(i, n) => Stored(i, n)'
  BY <1>1 DEF Kept, Stored
<1>3. ledger' = ledger => Calm
  BY DEF Stored
<1>4. ASSUME Back(n), ledger' = ledger, active' = active, told' = told, send[n].pc \notin {"wire", "record"}
      PROVE  Owns(n)' /\ (Single(n) /\ Matched(n) => Single(n)' /\ Matched(n)')
  <2>1. Owns(n)'
    BY <1>1, <1>2, <1>4, BackPc DEF Owns
  <2>2. ASSUME Single(n) PROVE Single(n)'
    <3>1. active'[n] = <<>>
      BY <1>4, <2>2 DEF Single
    <3> QED BY <1>1, <1>3, <1>4, <2>2, <3>1, BackPc DEF Single
  <2>3. Matched(n) => Matched(n)'
    BY <1>4 DEF Matched, Stored
  <2> QED BY <2>1, <2>2, <2>3
<1>5. CASE Refuse(n)
  BY <1>4, <1>5, Returning DEF Refuse, Fit, mishaps
<1>6. CASE Empty(n) \/ Pass(n)
  <2>1. /\ send'[n].pc \in {"skip", "create"} /\ send'[n].call = c /\ send[n].pc = "ready"
        /\ ledger' = ledger /\ active' = active /\ told' = told
    BY <1>6, GoesPc DEF Empty, Pass
  <2> QED BY <1>1, <1>2, <1>3, <2>1 DEF Owns, Single, Matched, Stored
<1>7. CASE (SkipCreate(n) \/ Create(n)) /\ Insert(NewRow(n, c))
  <2>1. Grows(NewRow(n, c)) /\ NewRow(n, c).by = n /\ NewRow(n, c).of = 0
        /\ NewRow(n, c).call = c /\ NewRow(n, c).status = "planned"
    BY <1>1, <1>7, InsertGrows, NewRowIsRow
  <2>2. /\ send'[n].call = c /\ send[n].pc \in {"skip", "create"} /\ active' = active /\ told' = told
        /\ send'[n].pc \in {"skipped", "enter"} /\ send'[n].row = Inserted
    <3>1. ledger' # ledger
      BY <2>1 DEF Grows
    <3>2. PICK pc \in {"skipped", "enter"} : send' = [send EXCEPT ![n].pc = pc, ![n].row = Inserted]
      BY <1>7, <3>1 DEF SkipCreate, Create
    <3>3. send[n] \in Send /\ send \in [Notifies -> Send]
      BY DEF TypeOK
    <3> QED BY <1>7, <3>2, <3>3 DEF SkipCreate, Create, Send
  <2>3. /\ Inserted \in DOMAIN ledger' /\ ledger'[Inserted].by = n /\ ledger'[Inserted].of = 0
        /\ ledger'[Inserted].call = c /\ ledger'[Inserted].status = "planned"
    BY <2>1 DEF Grows
  <2>4. \A i \in DOMAIN ledger' : i = Inserted \/ (i \in DOMAIN ledger /\ ledger'[i] = ledger[i])
    BY <2>1 DEF Grows
  <2>5. Owns(n)'
    BY <1>1, <1>2, <2>2, <2>3 DEF Owns, Stored
  <2>6. ASSUME Single(n), Matched(n) PROVE Single(n)' /\ Matched(n)'
    <3>1. active'[n] = <<>>
      BY <2>2, <2>6 DEF Single
    <3>2. "planned" \notin Results
      BY DEF Results
    <3>3. Single(n)'
      BY <1>1, <2>2, <2>3, <2>4, <2>6, <3>1, <3>2 DEF Single, Stored
    <3>4. Matched(n)'
      BY <2>2, <2>3, <2>4, <2>6, <3>2 DEF Matched, Stored
    <3> QED BY <3>3, <3>4
  <2> QED BY <2>5, <2>6
<1>8. CASE (SkipCreate(n) \/ Create(n)) /\ ~Insert(NewRow(n, c))
  <2>1. CASE SkipCreate(n)
    BY <1>4, <1>8, <2>1, Returning DEF SkipCreate, Fit
  <2>2. CASE Create(n)
    <3>1. /\ send'[n].pc = "wire" /\ send'[n].call = c /\ send[n].pc = "create"
          /\ ledger' = ledger /\ active' = active /\ told' = told
      BY <1>8, <2>2, GoesPc DEF Create
    <3> QED BY <1>1, <1>2, <1>3, <3>1 DEF Owns, Single, Matched, Stored
  <2> QED BY <1>8, <2>1, <2>2
<1>9. CASE SkipClose(n)
  <2>1. Back(n) /\ active' = active /\ told' = told /\ send[n].pc = "skipped"
        /\ TryTransition(send[n].row, "skipped_empty")
    BY <1>9, Returning DEF SkipClose, Fit
  <2>2. CASE ledger' = ledger
    BY <1>4, <2>1, <2>2
  <2>3. CASE ledger' # ledger
    <3>1. Moves(send[n].row, "skipped_empty")
      BY <1>1, <2>1, <2>3, Tried
    <3>2. /\ "skipped_empty" \notin Results /\ ledger'[send[n].row].status = "skipped_empty"
          /\ DOMAIN ledger' = DOMAIN ledger
          /\ \A i \in DOMAIN ledger : i # send[n].row => ledger'[i] = ledger[i]
      <4>1. ledger[send[n].row] \in Row
        BY <1>1, <3>1 DEF Moves
      <4> QED BY <3>1, <4>1 DEF Moves, Results, Row
    <3>3. \A i \in DOMAIN ledger' : i \in DOMAIN ledger /\ (Stored(i, n)' => Stored(i, n))
      BY <1>1, <3>2 DEF Stored, Kept
    <3>4. Owns(n)'
      BY <1>1, <1>2, <2>1, BackPc DEF Owns
    <3>5. ASSUME Single(n), Matched(n) PROVE Single(n)' /\ Matched(n)'
      <4>1. active'[n] = <<>>
        BY <2>1, <3>5 DEF Single
      <4>2. Single(n)'
        BY <1>1, <2>1, <3>2, <3>3, <3>5, <4>1, BackPc DEF Single, Kept
      <4>3. Matched(n)'
        BY <2>1, <3>2, <3>3, <3>5 DEF Matched
      <4> QED BY <4>2, <4>3
    <3> QED BY <3>4, <3>5
  <2> QED BY <2>2, <2>3
<1>10. CASE Enter(n)
  <2>1. /\ send'[n].pc = "wire" /\ send'[n].call = c /\ send[n].pc = "enter"
        /\ told' = told /\ UNCHANGED lost
        /\ Stored(send[n].row, n) /\ ledger[send[n].row].call = c
    BY <1>1, <1>10, GoesPc DEF Enter, Owns
  <2>2. CASE UNCHANGED <<ledger, active>>
    BY <1>1, <1>2, <1>3, <2>1, <2>2 DEF Owns, Single, Matched, Stored
  <2>3. CASE /\ CanTransition(send[n].row, "sending") /\ Transition(send[n].row, "sending")
             /\ active' = [active EXCEPT ![n] = Append(@, send[n].row)]
    <3>1. Moves(send[n].row, "sending")
      BY <1>1, <2>3, TransitionMoves
    <3>2. /\ "sending" \notin Results /\ ledger'[send[n].row].status = "sending"
          /\ DOMAIN ledger' = DOMAIN ledger
          /\ \A i \in DOMAIN ledger : i # send[n].row => ledger'[i] = ledger[i]
      <4>1. ledger[send[n].row] \in Row
        BY <1>1, <3>1 DEF Moves
      <4> QED BY <3>1, <4>1 DEF Moves, Results, Row
    <3>3. \A i \in DOMAIN ledger' : i \in DOMAIN ledger /\ (Stored(i, n)' => Stored(i, n))
      BY <1>1, <3>2 DEF Stored, Kept
    <3>4. active'[n] = Append(active[n], send[n].row)
      BY <2>3 DEF TypeOK
    <3>5. \A k \in DOMAIN active'[n] : \/ active'[n][k] = send[n].row
                                       \/ k \in DOMAIN active[n] /\ active'[n][k] = active[n][k]
      <4>1. active[n] \in Seq(Nat) /\ send[n].row \in Nat
        BY <1>1 DEF TypeOK, Send
      <4> QED BY <3>4, <4>1
    <3>6. Owns(n)'
      BY <1>1, <1>2, <2>1, <3>5 DEF Owns, Stored
    <3>7. ASSUME Single(n), Matched(n) PROVE Single(n)' /\ Matched(n)'
      <4>1. active[n] = <<>>
        BY <2>1, <3>7 DEF Single
      <4>2. Len(active'[n]) = 1 /\ active'[n][1] = send[n].row
        BY <3>4, <4>1
      <4>3. ledger'[send[n].row].call = c
        BY <1>1, <2>1 DEF Stored, Kept
      <4>4. Single(n)'
        BY <1>1, <2>1, <3>2, <3>3, <3>7, <4>2, <4>3 DEF Single, Kept
      <4>5. Matched(n)'
        BY <2>1, <3>2, <3>3, <3>7 DEF Matched
      <4> QED BY <4>4, <4>5
    <3> QED BY <3>6, <3>7
  <2> QED BY <1>10, <2>2, <2>3 DEF Enter
<1>11. CASE Answer(n)
  <2>1. /\ send'[n].pc = "record" /\ send'[n].call = c /\ send[n].pc = "wire"
        /\ ledger' = ledger /\ active' = active
    BY <1>11, GoesPc DEF Answer
  <2>2. PICK e \in Outcomes : told' = [told EXCEPT ![n][c] = e]
    BY <1>11 DEF Answer
  <2>3. /\ told'[n][c] = e /\ e # "none"
        /\ \A d \in Nat : d # c => told'[n][d] = told[n][d]
    <3>1. c \in Calls /\ told \in [Notifies -> [Calls -> Evidence]]
      BY CallIsNat DEF TypeOK
    <3>2. e # "none"
      BY OutcomeAssumption
    <3> QED BY <2>2, <3>1, <3>2
  <2>4. Owns(n)'
    BY <1>1, <1>2, <2>1, <2>3 DEF Owns
  <2>5. ASSUME Single(n), Matched(n) PROVE Single(n)' /\ Matched(n)'
    <3>1. Single(n)'
      BY <1>3, <2>1, <2>5 DEF Single, Stored
    <3>2. \A i \in DOMAIN ledger : Stored(i, n) /\ ledger[i].status \in Results => ledger[i].call # c
      BY <2>1, <2>5 DEF Single
    <3>3. Matched(n)'
      BY <1>1, <2>1, <2>3, <2>5, <3>2 DEF Matched, Stored
    <3> QED BY <3>1, <3>3
  <2> QED BY <2>4, <2>5
<1>12. CASE Panic(n)
  <2>1. n \in panicked' /\ send'[n].pc \in {"done", "ready"} /\ ledger' = ledger /\ active' = active
    <3>1. CASE send[n].again
      BY <1>12, <3>1, Returning, BackPc DEF Panic, Fit
    <3>2. CASE ~send[n].again
      <4>1. send' = [send EXCEPT ![n] = [send[n] EXCEPT !.pc = "ready", !.again = TRUE, !.row = 0]]
        BY <1>12, <3>2 DEF Panic
      <4> QED BY <1>12, <4>1 DEF Panic, TypeOK, Send
    <3> QED BY <3>1, <3>2
  <2> QED BY <1>1, <1>2, <2>1 DEF Owns
<1>13. CASE Record(n)
  <2>1. Back(n) /\ told' = told /\ send[n].pc = "record" /\ told[n][c] # "none"
    BY <1>1, <1>13, Returning DEF Record, Fit, Owns
  <2>2. CASE active[n] = <<>>
    <3>1. ledger' = ledger /\ active' = active
      BY <1>13, <2>2 DEF Record
    <3>2. Owns(n)'
      BY <1>1, <1>2, <2>1, <3>1, BackPc DEF Owns
    <3> QED BY <1>1, <1>3, <2>1, <2>2, <3>1, <3>2, BackPc DEF Single, Matched, Stored
  <2>3. CASE active[n] # <<>>
    <3> DEFINE h == active[n][1]
               to == Status(told[n][c])
    <3>1. active' = [active EXCEPT ![n] = Tail(active[n])] /\ TryTransition(Head(active[n]), to)
      BY <1>13, <2>3 DEF Record, Pop
    <3>2. /\ 1 \in DOMAIN active[n] /\ Head(active[n]) = h
          /\ \A k \in DOMAIN Tail(active[n]) : k + 1 \in DOMAIN active[n] /\ Tail(active[n])[k] = active[n][k + 1]
          /\ Len(active[n]) <= 1 => Tail(active[n]) = <<>>
      BY <1>1, <2>3
    <3>3. active'[n] = Tail(active[n])
      BY <3>1 DEF TypeOK
    <3>4. Stored(h, n)
      BY <1>1, <3>2 DEF Owns
    <3>5. Owns(n)'
      BY <1>1, <1>2, <2>1, <3>2, <3>3, BackPc DEF Owns
    <3>6. /\ DOMAIN ledger' = DOMAIN ledger
          /\ \A i \in DOMAIN ledger : i # h => ledger'[i] = ledger[i]
          /\ ledger'[h] = ledger[h] \/ ledger'[h].status = to
      <4>1. Moves(h, to) \/ ledger' = ledger
        BY <1>1, <3>1, <3>2, Tried
      <4>2. ledger[h] \in Row
        BY <1>1, <3>4 DEF Stored
      <4> QED BY <4>1, <4>2 DEF Moves, Row
    <3>7. \A i \in DOMAIN ledger' : i \in DOMAIN ledger /\ (Stored(i, n)' => Stored(i, n))
      BY <1>1, <3>6 DEF Stored, Kept
    <3>8. ASSUME Single(n), Matched(n) PROVE Single(n)' /\ Matched(n)'
      <4>1. active'[n] = <<>> /\ ledger[h].call = c /\ ledger'[h].call = c
        BY <1>1, <2>3, <3>2, <3>3, <3>4, <3>8 DEF Single, Kept, Stored
      <4>2. Single(n)'
        <5>1. Len(active'[n]) <= 1
          BY <4>1
        <5>2. \A i \in DOMAIN ledger' : Stored(i, n)' =>
                ledger'[i].call = ledger[i].call /\ ledger[i].call <= c
          BY <1>1, <3>7, <3>8 DEF Single, Kept
        <5>3. \A i \in DOMAIN ledger' : Stored(i, n)' =>
                 /\ ledger'[i].call <= send'[n].call
                 /\ ledger'[i].call = send'[n].call => send'[n].pc \in {"done", "gone"}
          BY <1>1, <2>1, <3>7, <5>2, BackPc
        <5> QED BY <4>1, <5>1, <5>3 DEF Single
      <4>3. Matched(n)'
        BY <2>1, <3>6, <3>7, <3>8, <4>1 DEF Matched
      <4> QED BY <4>2, <4>3
    <3> QED BY <3>5, <3>8
  <2> QED BY <2>2, <2>3
<1> QED BY <1>5, <1>6, <1>7, <1>8, <1>9, <1>10, <1>11, <1>12, <1>13 DEF NotifyStep

(* A restart empties the queues and lets nobody go on.                            *)
LEMMA RestartKeeps ==
  ASSUME TypeOK, Fit, RestartShape, NEW n \in Notifies
  PROVE  Owns(n)' /\ (Single(n) => Single(n)') /\ (Matched(n) => Matched(n)')
<1>1. /\ send'[n].pc \in {"done", "ready", "gone"} /\ send'[n].call = send[n].call
      /\ send'[n].pc = "ready" => send[n].pc = "ready"
      /\ active'[n] = <<>> /\ Len(active'[n]) = 0 /\ told' = told
  <2>1. send[n] \in Send
    BY DEF TypeOK
  <2> QED BY <2>1 DEF RestartShape, Send
<1>2. /\ DOMAIN ledger' = DOMAIN ledger
      /\ \A i \in DOMAIN ledger :
           /\ ledger'[i].by = ledger[i].by /\ ledger'[i].of = ledger[i].of /\ ledger'[i].call = ledger[i].call
           /\ ledger'[i].status = ledger[i].status \/ ledger'[i].status = "abandoned_restart"
  <2>1. \A i \in DOMAIN ledger : ledger[i] \in Row
    BY DEF TypeOK
  <2> QED BY <2>1 DEF RestartShape, Abandons, Row
<1>3. "abandoned_restart" \notin Results
  BY DEF Results
<1>4. \A i \in DOMAIN ledger' : Stored(i, n)' => i \in DOMAIN ledger /\ Stored(i, n)
  BY <1>2 DEF Stored
<1>5. Owns(n)'
  BY <1>1 DEF Owns
<1>6. ASSUME Single(n) PROVE Single(n)'
  <2>1. \A i \in DOMAIN ledger' : Stored(i, n)' /\ ledger'[i].status \in Results /\ ledger'[i].call = send'[n].call =>
          send'[n].pc \in {"done", "gone"}
    BY <1>1, <1>2, <1>3, <1>4, <1>6 DEF Single
  <2> QED BY <1>1, <1>2, <1>4, <1>6, <2>1 DEF Single
<1>7. ASSUME Matched(n) PROVE Matched(n)'
  BY <1>1, <1>2, <1>3, <1>4, <1>7 DEF Matched
<1> QED BY <1>5, <1>6, <1>7

(* One notification's facts through every step.                                   *)
LEMMA NotificationStep ==
  ASSUME TypeOK, Fit, [Next]_vars, NEW n \in Notifies
  PROVE  /\ Owns(n)'
         /\ n \notin panicked' /\ Single(n) /\ Matched(n) => Single(n)' /\ Matched(n)'
         /\ n \in panicked => n \in panicked'
<1>1. ASSUME NEW m \in Notifies, NotifyStep(m), Shape(m)
      PROVE  /\ Owns(n)' /\ (n \in panicked => n \in panicked')
             /\ n \notin panicked' /\ Single(n) /\ Matched(n) => Single(n)' /\ Matched(n)'
  <2>1. CASE m = n
    BY <1>1, <2>1, OwnStep DEF Shape
  <2>2. CASE m # n
    <3>1. Untouched(n)
      BY <1>1, <2>2, OthersUntouched
    <3>2. send'[n] = send[n] /\ active'[n] = active[n] /\ told'[n] = told[n]
      BY <1>1, <2>2 DEF Shape, TypeOK
    <3> QED BY <1>1, <3>1, <3>2, OthersKeep DEF Shape
  <2> QED BY <2>1, <2>2
<1>2. ASSUME \/ \E q \in Replays : ReplayShape(q)
             \/ \E t \in Retries : RetryShape(t)
             \/ UNCHANGED vars
      PROVE  /\ Owns(n)' /\ (Single(n) => Single(n)') /\ (Matched(n) => Matched(n)')
             /\ panicked' = panicked
  <2>1. Untouched(n)
    <3>1. \A q \in Replays : n # q
      BY OriginAssumption
    <3>2. ledger' = ledger => Untouched(n)
      BY DEF Untouched
    <3> QED BY <1>2, <3>1, <3>2, OthersUntouched DEF vars
  <2>2. UNCHANGED <<send, active, told, panicked>>
    BY <1>2 DEF ReplayShape, RetryShape, sending, vars
  <2> QED BY <2>1, <2>2, OthersKeep
<1>3. CASE RestartShape
  BY <1>3, RestartKeeps DEF RestartShape
<1> QED BY <1>1, <1>2, <1>3, Shapes

LEMMA PairedStep ==
  ASSUME TypeOK, Fit, OneAtATime, Paired, [Next]_vars PROVE OneAtATime' /\ Paired'
<1>1. \A n \in Notifies \ panicked : Single(n) /\ Matched(n)
  BY ByNotification
<1>2. \A n \in Notifies \ panicked' : Single(n)' /\ Matched(n)'
  BY <1>1, NotificationStep
<1>3. \A n \in Notifies \ panicked' : Single(n)'
  BY <1>2
<1>4. \A n \in Notifies \ panicked' : Matched(n)'
  BY <1>2
<1>5. OneAtATime'
  BY <1>3 DEF OneAtATime, Single
<1>6. Paired'
  BY <1>4 DEF Paired, Matched, Stored
<1> QED BY <1>5, <1>6

--------------------------------------------------------------------------------
(* The fits of replays and retries, and what a retry follows. *)
\* Stored of a row in the next state.
StoredNow(i, who) == i \in DOMAIN ledger' /\ ledger'[i].by = who /\ ledger'[i].of = 0

LEMMA FitStep == ASSUME TypeOK, Fit, [Next]_vars PROVE Fit'
<1>1. /\ ledger \in Seq(Row) /\ ledger' \in Seq(Row)
      /\ \A i \in DOMAIN ledger : Kept(i)
      /\ TypeOK'
  BY StepsKeepTable, TypeStep DEF TypeOK
<1>2. \A n \in Notifies : Owns(n)'
  BY NotificationStep
<1>3. CallsFit'
  <2>1. CallsFit
    BY DEF Fit
  <2>2. CASE \E n \in Notifies : Shape(n)
    BY <2>1, <2>2 DEF Shape, CallsFit, StageFits, TypeOK
  <2>3. CASE RestartShape
    <3>1. \A n \in Notifies : send'[n].stage = send[n].stage /\ send'[n].call = send[n].call
      <4> TAKE n \in Notifies
      <4>1. send[n] \in Send
        BY DEF TypeOK
      <4>2. send'[n] = send[n] \/ send'[n] = [send[n] EXCEPT !.pc = "gone"]
        BY <2>3 DEF RestartShape
      <4> QED BY <4>1, <4>2 DEF Send
    <3> QED BY <2>1, <3>1 DEF CallsFit
  <2>4. CASE send' = send
    BY <2>1, <2>4 DEF CallsFit
  <2> QED BY <2>2, <2>3, <2>4, Shapes DEF ReplayShape, RetryShape, sending, vars
<1>4. ReplaysDoNotQueue'
  <2>1. ReplaysDoNotQueue
    BY DEF Fit
  <2>2. ASSUME NEW n \in Notifies, Shape(n) PROVE ReplaysDoNotQueue'
    <3>1. \A who \in Replays : Untouched(who)
      BY <2>2, OthersUntouched, OriginAssumption
    <3> QED BY <2>1, <3>1 DEF ReplaysDoNotQueue, Untouched
  <2>3. ASSUME NEW q \in Replays, ReplayShape(q) PROVE ReplaysDoNotQueue'
    <3>1. \A who : who # q => Untouched(who)
      BY <2>3, OthersUntouched
    <3>2. NewRow(q, 0).status = "planned"
      BY NewRowIsRow
    <3>3. \A i \in DOMAIN ledger' : ledger'[i].by = q /\ ledger'[i].of = 0 => ledger'[i].status # "queued"
      <4>1. CASE ledger' = ledger
        BY <2>1, <4>1 DEF ReplaysDoNotQueue
      <4>2. CASE Grows(NewRow(q, 0))
        BY <2>1, <3>2, <4>2 DEF ReplaysDoNotQueue, Grows
      <4>3. CASE \E j, to : Stored(j, q) /\ Moves(j, to) /\ to # "queued"
        <5>1. PICK j, to : Stored(j, q) /\ Moves(j, to) /\ to # "queued"
          BY <4>3
        <5>2. ledger'[j].status = to
          BY <1>1, <5>1 DEF Moves, Row
        <5> QED BY <2>1, <5>1, <5>2 DEF ReplaysDoNotQueue, Moves
      <4> QED BY <2>3, <4>1, <4>2, <4>3 DEF ReplayShape
    <3> QED BY <2>1, <3>1, <3>3 DEF ReplaysDoNotQueue, Untouched
  <2>4. ASSUME NEW t \in Retries, RetryShape(t) PROVE ReplaysDoNotQueue'
    <3>1. \A who \in Replays : Untouched(who)
      BY <2>4, OthersUntouched
    <3> QED BY <2>1, <3>1 DEF ReplaysDoNotQueue, Untouched
  <2>5. ASSUME RestartShape PROVE ReplaysDoNotQueue'
    <3>1. /\ DOMAIN ledger' = DOMAIN ledger
          /\ \A i \in DOMAIN ledger : ledger'[i].status \in {ledger[i].status, "abandoned_restart"}
      <4>1. \A i \in DOMAIN ledger : ledger[i] \in Row
        BY <1>1
      <4> QED BY <2>5, <4>1 DEF RestartShape, Abandons, Row
    <3> QED BY <1>1, <2>1, <3>1 DEF ReplaysDoNotQueue, Kept
  <2>6. ASSUME UNCHANGED vars PROVE ReplaysDoNotQueue'
    BY <2>1, <2>6 DEF ReplaysDoNotQueue, vars
  <2> QED BY <2>2, <2>3, <2>4, <2>5, <2>6, Shapes
<1>5. \A q \in Replays : /\ replay'[q].row # 0 => StoredNow(replay'[q].row, q)
                         /\ replay'[q].pc \in {"created", "sending", "sent", "unwritten"} => replay'[q].row # 0
                         /\ replay'[q].pc = "sent" => replay'[q].result \in {"sent", "unknown", "rejected"}
  <2> SUFFICES ASSUME NEW q \in Replays
      PROVE  /\ replay'[q].row # 0 => StoredNow(replay'[q].row, q)
             /\ replay'[q].pc \in {"created", "sending", "sent", "unwritten"} => replay'[q].row # 0
             /\ replay'[q].pc = "sent" => replay'[q].result \in {"sent", "unknown", "rejected"}
    OBVIOUS
  <2>1. /\ replay[q].row # 0 => Stored(replay[q].row, q)
        /\ replay[q].pc \in {"created", "sending", "sent", "unwritten"} => replay[q].row # 0
        /\ replay[q].pc = "sent" => replay[q].result \in {"sent", "unknown", "rejected"}
        /\ replay[q] \in Handler /\ replay \in [Replays -> Handler]
    BY DEF Fit, RowsFit, StagesFit, TypeOK
  <2>2. \A i : Stored(i, q) => StoredNow(i, q)
    BY <1>1 DEF Stored, StoredNow, Kept
  <2>3. CASE replay'[q] = replay[q]
    BY <2>1, <2>2, <2>3
  <2>4. CASE RestartShape
    <3>1. replay'[q].row = replay[q].row /\ (replay'[q] = replay[q] \/ replay'[q].pc = "gone")
      BY <2>1, <2>4 DEF RestartShape, Handler
    <3> QED BY <2>1, <2>2, <3>1
  <2>5. CASE (Claim(q) \/ ReplayStep(q)) /\ ReplayShape(q)
    <3>1. \A from, to : Handles(q, from, to) => replay' = [replay EXCEPT ![q].pc = to] /\ replay[q].pc = from
      BY DEF Handles
    <3>2. \A to : replay' = [replay EXCEPT ![q].pc = to] =>
            replay'[q].pc = to /\ replay'[q].row = replay[q].row /\ replay'[q].result = replay[q].result
      BY <2>1 DEF Handler
    <3>3. \A row, error : Ends(q, row, error) => replay'[q].pc = "written" /\ replay'[q].row = row
      BY <2>1 DEF Ends, Handler
    <3>4. CASE Claim(q)
      BY <2>1, <2>2, <3>1, <3>2, <3>4 DEF Claim
    <3>5. CASE ReplayCreate(q)
      <4>1. CASE Insert(NewRow(q, 0)) /\ replay' = [replay EXCEPT ![q].pc = "created", ![q].row = Inserted]
        <5>1. Grows(NewRow(q, 0)) /\ NewRow(q, 0).by = q /\ NewRow(q, 0).of = 0
          BY <1>1, <4>1, InsertGrows, NewRowIsRow
        <5>2. replay'[q].pc = "created" /\ replay'[q].row = Inserted
          BY <2>1, <4>1 DEF Handler
        <5> QED BY <5>1, <5>2 DEF Grows, StoredNow
      <4>2. CASE Ends(q, 0, TRUE)
        BY <3>3, <4>2
      <4> QED BY <3>5, <4>1, <4>2 DEF ReplayCreate
    <3>6. CASE ReplayEnter(q)
      <4>1. CASE Handles(q, "created", "sending")
        BY <2>1, <2>2, <3>1, <3>2, <4>1
      <4>2. CASE Ends(q, 0, TRUE)
        BY <3>3, <4>2
      <4> QED BY <3>6, <4>1, <4>2 DEF ReplayEnter
    <3>7. CASE ReplaySend(q)
      <4>1. PICK s \in {"sent", "unknown", "rejected"} :
              replay' = [replay EXCEPT ![q].pc = "sent", ![q].result = s]
        BY <3>7 DEF ReplaySend
      <4>2. replay'[q].pc = "sent" /\ replay'[q].row = replay[q].row /\ replay'[q].result = s
        BY <2>1, <4>1 DEF Handler
      <4> QED BY <2>1, <2>2, <3>7, <4>2 DEF ReplaySend
    <3>8. CASE ReplayRecord(q)
      BY <2>1, <2>2, <3>1, <3>2, <3>3, <3>8 DEF ReplayRecord
    <3>9. CASE ReplayUnknown(q)
      BY <2>1, <2>2, <3>3, <3>9 DEF ReplayUnknown
    <3>10. CASE ReplayComplete(q)
      BY <2>1, <2>2, <3>1, <3>2, <3>10 DEF ReplayComplete
    <3> QED BY <2>5, <3>4, <3>5, <3>6, <3>7, <3>8, <3>9, <3>10 DEF ReplayStep
  <2>6. CASE \E p \in Replays : p # q /\ ReplayShape(p)
    BY <2>1, <2>3, <2>6 DEF ReplayShape
  <2> QED BY <2>3, <2>4, <2>5, <2>6, Shapes DEF Shape, RetryShape, admin, vars
<1>6. \A t \in Retries : retry'[t].pc = "read" =>
        retry'[t].of \in DOMAIN ledger' /\ ledger'[retry'[t].of].status \in Retryable
  <2>1. \A i \in DOMAIN ledger : ledger[i].status \in Retryable =>
          i \in DOMAIN ledger' /\ ledger'[i].status \in Retryable
    BY <1>1 DEF Kept, Retryable, Terminal
  <2>2. \A t \in Retries : retry[t].pc = "read" =>
          retry[t].of \in DOMAIN ledger /\ ledger[retry[t].of].status \in Retryable
    BY DEF Fit, StagesFit
  <2>3. CASE retry' = retry
    BY <2>1, <2>2, <2>3
  <2>4. CASE \E t \in Retries : RetryShape(t)
    <3>1. PICK t \in Retries : RetryShape(t)
      BY <2>4
    <3>2. \A s \in Retries : s # t => retry'[s] = retry[s]
      BY <3>1 DEF RetryShape, TypeOK
    <3>3. \/ retry'[t].pc # "read"
          \/ \E i \in DOMAIN ledger : ledger[i].status \in Retryable /\ retry'[t].of = i
      BY <3>1 DEF RetryShape, TypeOK
    <3> QED BY <2>1, <2>2, <3>2, <3>3
  <2>5. CASE RestartShape
    BY <2>5 DEF RestartShape
  <2> QED BY <2>3, <2>4, <2>5, Shapes DEF Shape, ReplayShape, admin, vars
<1>7. RowsFit' /\ StagesFit'
  BY <1>2, <1>5, <1>6 DEF RowsFit, StagesFit, Owns, Stored, StoredNow
<1> QED BY <1>3, <1>4, <1>7 DEF Fit

LEMMA RetryStep ==
  ASSUME TypeOK, Fit, RetriesFollowFailures, [Next]_vars PROVE RetriesFollowFailures'
<1>1. /\ ledger \in Seq(Row) /\ ledger' \in Seq(Row)
      /\ \A i \in DOMAIN ledger : Kept(i)
  BY StepsKeepTable DEF TypeOK
<1> DEFINE Follows(i, p) == p # 0 => p < i /\ ledger'[p].status \in Retryable
                                     /\ ledger'[i].attempt = ledger'[p].attempt + 1
<1>2. \A i \in DOMAIN ledger : Follows(i, ledger'[i].of)
  <2> TAKE i \in DOMAIN ledger
  <2> DEFINE p == ledger[i].of
  <2>1. ledger'[i].of = p /\ ledger'[i].attempt = ledger[i].attempt
    BY <1>1 DEF Kept
  <2>2. p # 0 => p < i /\ ledger[p].status \in Retryable /\ ledger[i].attempt = ledger[p].attempt + 1
    BY DEF RetriesFollowFailures
  <2>3. p # 0 => p \in DOMAIN ledger
    <3>1. ledger[i] \in Row /\ DOMAIN ledger = 1..Len(ledger) /\ Len(ledger) \in Nat
      BY <1>1
    <3>2. p \in Nat
      BY <3>1 DEF Row
    <3> QED BY <2>2, <3>1, <3>2
  <2>4. p # 0 => ledger'[p].status \in Retryable /\ ledger'[p].attempt = ledger[p].attempt
    BY <1>1, <2>2, <2>3 DEF Kept, Retryable, Terminal
  <2> QED BY <2>1, <2>2, <2>4
<1>3. \A i \in DOMAIN ledger' : i \in DOMAIN ledger \/ Follows(i, ledger'[i].of)
  <2>1. ASSUME NEW r, Grows(r), r.of = 0 PROVE \A i \in DOMAIN ledger' : i \in DOMAIN ledger \/ Follows(i, ledger'[i].of)
    BY <2>1 DEF Grows
  <2>2. ASSUME NEW t \in Retries, RetryShape(t)
        PROVE  \A i \in DOMAIN ledger' : i \in DOMAIN ledger \/ Follows(i, ledger'[i].of)
    <3>1. CASE ledger' = ledger
      BY <3>1
    <3>2. CASE ledger' # ledger
      <4>1. PICK r : /\ Grows(r) /\ r.of = retry[t].of
                     /\ r.attempt = ledger[retry[t].of].attempt + 1 /\ retry[t].pc = "read"
        BY <2>2, <3>2 DEF RetryShape
      <4>2. retry[t].of \in DOMAIN ledger /\ ledger[retry[t].of].status \in Retryable
        BY <4>1 DEF Fit, StagesFit
      <4> QED BY <4>1, <4>2 DEF Grows
    <3> QED BY <3>1, <3>2
  <2>3. \A by \in Notifies \cup Replays, call \in Nat : NewRow(by, call).of = 0
    BY NewRowIsRow
  <2>4. CASE \E n \in Notifies : Shape(n)
    BY <2>1, <2>3, <2>4, CallIsNat DEF Shape, Moves
  <2>5. CASE \E q \in Replays : ReplayShape(q)
    BY <2>1, <2>3, <2>5 DEF ReplayShape, Moves
  <2>6. CASE RestartShape \/ UNCHANGED vars
    BY <2>6 DEF RestartShape, Abandons, vars
  <2> QED BY <2>2, <2>4, <2>5, <2>6, Shapes
<1> QED BY <1>2, <1>3 DEF RetriesFollowFailures

--------------------------------------------------------------------------------
(* Who has the rows in sending. *)
LEMMA TrackedByNotification ==
  ASSUME TypeOK, Fit, SendingIsTracked, NEW n \in Notifies, NotifyStep(n), Shape(n)
  PROVE  SendingIsTracked'
<1>1. /\ ledger \in Seq(Row) /\ active[n] \in Seq(Nat) /\ lost \subseteq lost' /\ replay' = replay
      /\ \A i \in DOMAIN ledger : Kept(i) /\ ledger[i] \in Row
      /\ \A m \in Notifies : m # n => active'[m] = active[m]
  <2>1. \A m \in Notifies : m # n => active'[m] = active[m]
    BY DEF Shape, TypeOK
  <2>2. [Next]_vars
    BY DEF Next
  <2> QED BY <2>1, <2>2, StepsKeepTable DEF TypeOK, Shape, admin
<1> SUFFICES ASSUME NEW i \in DOMAIN ledger', ledger'[i].status = "sending"
             PROVE  Held(i)' \/ i \in lost'
  BY DEF SendingIsTracked, InSending
<1>2. ASSUME i \in DOMAIN ledger, ledger[i].status = "sending",
             i \in Range(active[n]) => i \in Range(active'[n]) \/ i \in lost'
      PROVE  Held(i)' \/ i \in lost'
  <2>1. Held(i) \/ i \in lost
    BY <1>2 DEF SendingIsTracked, InSending
  <2>2. ledger'[i].by = ledger[i].by
    BY <1>1, <1>2 DEF Kept
  <2> QED BY <1>1, <1>2, <2>1, <2>2 DEF Held
<1>3. ASSUME ledger' = ledger, active' = active PROVE Held(i)' \/ i \in lost'
  BY <1>2, <1>3
<1>4. CASE (SkipCreate(n) \/ Create(n)) /\ Insert(NewRow(n, send[n].call))
  <2>1. Grows(NewRow(n, send[n].call)) /\ NewRow(n, send[n].call).status = "planned"
    BY <1>1, <1>4, CallIsNat, NewRowIsRow, InsertGrows
  <2>2. i \in DOMAIN ledger /\ ledger[i].status = "sending"
    BY <2>1 DEF Grows
  <2> QED BY <1>2, <1>4, <2>2 DEF SkipCreate, Create
<1>5. CASE SkipClose(n) /\ ledger' # ledger
  <2>1. Moves(send[n].row, "skipped_empty") /\ active' = active
    BY <1>1, <1>5, Tried DEF SkipClose
  <2>2. i # send[n].row
    BY <1>1, <2>1 DEF Moves, Row
  <2> QED BY <1>2, <2>1, <2>2 DEF Moves
<1>6. CASE Enter(n) /\ ledger' # ledger
  <2>1. /\ Moves(send[n].row, "sending") /\ active' = [active EXCEPT ![n] = Append(@, send[n].row)]
        /\ Stored(send[n].row, n)
    BY <1>1, <1>6, TransitionMoves DEF Enter, Fit, RowsFit
  <2>2. Range(active'[n]) = Range(active[n]) \cup {send[n].row}
    <3> DEFINE s == active[n]
               r == send[n].row
    <3>1. r \in Nat /\ s \in Seq(Nat) /\ active'[n] = Append(s, r)
      BY <2>1 DEF TypeOK, Send
    <3> HIDE DEF s, r
    <3>2. /\ DOMAIN Append(s, r) = DOMAIN s \cup {Len(s) + 1}
          /\ Append(s, r)[Len(s) + 1] = r
          /\ \A k \in DOMAIN s : Append(s, r)[k] = s[k]
      BY <3>1
    <3>3. Range(Append(s, r)) = Range(s) \cup {r}
      BY <3>2, Zenon DEF Range
    <3> QED BY <3>1, <3>3 DEF s, r
  <2>3. CASE i = send[n].row
    <3>1. ledger'[i].by = n
      BY <1>1, <2>1, <2>3 DEF Stored, Kept
    <3> QED BY <2>2, <2>3, <3>1 DEF Held
  <2>4. CASE i # send[n].row
    BY <1>2, <2>1, <2>2, <2>4 DEF Moves
  <2> QED BY <2>3, <2>4
<1>7. CASE Record(n) /\ active[n] # <<>>
  <2> DEFINE h == active[n][1]
             to == Status(told[n][send[n].call])
  <2>1. active' = [active EXCEPT ![n] = Tail(active[n])] /\ TryTransition(Head(active[n]), to)
    BY <1>7 DEF Record, Pop
  <2>2. Head(active[n]) = h /\ Range(active[n]) \subseteq Range(Tail(active[n])) \cup {h}
    <3>1. /\ 1 \in DOMAIN active[n] /\ Head(active[n]) = h
          /\ \A k \in DOMAIN active[n] : k = 1 \/ (k - 1 \in DOMAIN Tail(active[n]) /\ Tail(active[n])[k - 1] = active[n][k])
      BY <1>1, <1>7
    <3>2. \A k \in DOMAIN active[n] : active[n][k] \in Range(Tail(active[n])) \cup {h}
      <4> TAKE k \in DOMAIN active[n]
      <4>1. k = 1 \/ (k - 1 \in DOMAIN Tail(active[n]) /\ Tail(active[n])[k - 1] = active[n][k])
        BY <3>1
      <4> HIDE DEF to
      <4> QED BY <4>1 DEF Range
    <3> QED BY <3>1, <3>2 DEF Range
  <2>3. active'[n] = Tail(active[n])
    BY <2>1 DEF TypeOK
  <2>4. to \in Results
    <3>1. told[n][send[n].call] \in Evidence /\ told[n][send[n].call] # "none"
      BY <1>7, CallIsNat DEF Record, Fit, StagesFit, TypeOK
    <3> QED BY <3>1 DEF Status, Results, Evidence
  <2>5. /\ ledger' = ledger \/ (Moves(h, to) /\ ledger'[h].status # "sending")
        /\ ledger' = ledger /\ h \in DOMAIN ledger /\ ledger[h].status = "sending" => h \in lost'
    <3>1. ASSUME h \in DOMAIN ledger, ledger[h].status = "sending" PROVE CanTransition(h, to)
      BY <2>4, <3>1 DEF CanTransition, TransitionAllowed
    <3>2. Moves(h, to) => ledger'[h].status = to
      BY <1>1 DEF Moves, Row
    <3>3. to # "sending"
      BY <2>4 DEF Results
    <3>4. h \in DOMAIN ledger /\ ledger[h].status = "sending" /\ ledger' = ledger => ~Moves(h, to)
      BY <3>2, <3>3
    <3> HIDE DEF h, to
    <3> QED BY <1>1, <2>1, <2>2, <3>1, <3>2, <3>3, <3>4, Tried
  <2>6. i \in DOMAIN ledger /\ ledger[i].status = "sending"
    BY <2>5 DEF Moves
  <2>7. i = h => i \in lost'
    BY <2>5, <2>6
  <2> QED BY <1>2, <2>2, <2>3, <2>6, <2>7
<1>8. CASE Record(n) /\ active[n] = <<>>
  BY <1>3, <1>8 DEF Record
<1>9. CASE Refuse(n) \/ Empty(n) \/ Pass(n) \/ Answer(n) \/ Panic(n)
  BY <1>3, <1>9 DEF Refuse, Empty, Pass, Answer, Panic
<1>10. CASE (SkipCreate(n) \/ Create(n)) /\ ~Insert(NewRow(n, send[n].call))
  BY <1>3, <1>10 DEF SkipCreate, Create
<1>11. CASE SkipClose(n) /\ ledger' = ledger
  BY <1>3, <1>11 DEF SkipClose
<1>12. CASE Enter(n) /\ ledger' = ledger
  <2>1. \/ active' = active
        \/ active' = [active EXCEPT ![n] = Append(@, send[n].row)]
    BY <1>12 DEF Enter
  <2>2. Range(active[n]) \subseteq Range(active'[n])
    <3>1. send[n].row \in Nat /\ active[n] \in Seq(Nat)
          /\ active'[n] \in {active[n], Append(active[n], send[n].row)}
      BY <2>1 DEF TypeOK, Send
    <3>2. \A k \in DOMAIN active[n] : k \in DOMAIN active'[n] /\ active'[n][k] = active[n][k]
      <4> DEFINE a == active[n]
                 r == send[n].row
      <4>1. \A k \in DOMAIN a : k \in DOMAIN Append(a, r) /\ Append(a, r)[k] = a[k]
        <5>1. a \in Seq(Nat) /\ r \in Nat
          BY <3>1
        <5> HIDE DEF a, r
        <5> QED BY <5>1
      <4>2. active'[n] = a \/ active'[n] = Append(a, r)
        BY <3>1
      <4> HIDE DEF r
      <4> QED BY <4>1, <4>2
    <3> QED BY <3>2 DEF Range
  <2> QED BY <1>2, <1>12, <2>2
<1> QED BY <1>4, <1>5, <1>6, <1>7, <1>8, <1>9, <1>10, <1>11, <1>12 DEF NotifyStep

\* The stages of a replay at which the row in sending is its handler's.
Holding == {"sending", "sent", "unwritten"}

LEMMA TrackedByReplay ==
  ASSUME TypeOK, Fit, SendingIsTracked, NEW q \in Replays, Claim(q) \/ ReplayStep(q), ReplayShape(q)
  PROVE  SendingIsTracked'
<1>1. /\ ledger \in Seq(Row) /\ active' = active /\ lost \subseteq lost' /\ replay[q] \in Handler
      /\ \A i \in DOMAIN ledger : Kept(i) /\ ledger[i] \in Row
      /\ \A p \in Replays : p # q => replay'[p] = replay[p]
  <2>1. \A p \in Replays : p # q => replay'[p] = replay[p]
    BY DEF ReplayShape, TypeOK
  <2>2. [Next]_vars
    BY DEF Next
  <2> QED BY <2>1, <2>2, StepsKeepTable DEF TypeOK, ReplayShape, sending
<1> SUFFICES ASSUME NEW i \in DOMAIN ledger', ledger'[i].status = "sending"
             PROVE  Held(i)' \/ i \in lost'
  BY DEF SendingIsTracked, InSending
<1>2. ASSUME i \in DOMAIN ledger, ledger[i].status = "sending",
             replay[q].row = i /\ replay[q].pc \in Holding =>
               (replay'[q].row = i /\ replay'[q].pc \in Holding) \/ i \in lost'
      PROVE  Held(i)' \/ i \in lost'
  <2>1. Held(i) \/ i \in lost
    BY <1>2 DEF SendingIsTracked, InSending
  <2>2. ledger'[i].by = ledger[i].by
    BY <1>1, <1>2 DEF Kept
  <2> QED BY <1>1, <1>2, <2>1, <2>2 DEF Held, Holding
<1>3. \A from, to : Handles(q, from, to) =>
        replay[q].pc = from /\ replay'[q].pc = to /\ replay'[q].row = replay[q].row
  BY DEF Handles, TypeOK, Handler
<1>4. CASE Claim(q)
  BY <1>2, <1>3, <1>4 DEF Claim, Holding
<1>5. CASE ReplayCreate(q)
  <2>1. replay[q].pc \notin Holding
    BY <1>5 DEF ReplayCreate, Holding
  <2>2. NewRow(q, 0) \in Row /\ NewRow(q, 0).status = "planned"
    BY NewRowIsRow
  <2>3. ledger' = ledger \/ Grows(NewRow(q, 0))
    BY <1>1, <1>5, <2>2, InsertGrows DEF ReplayCreate
  <2>4. i \in DOMAIN ledger /\ ledger[i].status = "sending"
    BY <2>2, <2>3 DEF Grows
  <2> QED BY <1>2, <2>1, <2>4
<1>6. CASE ReplayEnter(q)
  <2>1. replay[q].pc \notin Holding
    BY <1>6 DEF ReplayEnter, Holding
  <2>2. CASE ledger' = ledger
    BY <1>2, <2>1, <2>2
  <2>3. CASE ledger' # ledger
    <3>1. Moves(replay[q].row, "sending") /\ Handles(q, "created", "sending")
      BY <1>1, <1>6, <2>3, TransitionMoves DEF ReplayEnter
    <3>2. CASE i = replay[q].row
      BY <1>3, <3>1, <3>2 DEF Held
    <3>3. CASE i # replay[q].row
      BY <1>2, <2>1, <3>1, <3>3 DEF Moves
    <3> QED BY <3>2, <3>3
  <2> QED BY <2>2, <2>3
<1>7. CASE ReplaySend(q)
  <2>1. replay'[q].pc = "sent" /\ replay'[q].row = replay[q].row
    <3>1. PICK s : replay' = [replay EXCEPT ![q].pc = "sent", ![q].result = s]
      BY <1>7 DEF ReplaySend
    <3> QED BY <3>1 DEF TypeOK, Handler
  <2> QED BY <1>2, <1>7, <2>1 DEF ReplaySend, Holding
<1>8. ASSUME NEW to \in Results, Moves(replay[q].row, to) PROVE Held(i)' \/ i \in lost'
  <2>1. ledger'[replay[q].row].status = to /\ to # "sending"
    BY <1>1, <1>8 DEF Moves, Row, Results
  <2> QED BY <1>2, <1>8, <2>1 DEF Moves
<1>9. CASE ReplayRecord(q)
  <2>1. replay[q].result \in Results
    BY <1>1 DEF Handler
  <2>2. CASE ledger' = ledger /\ Handles(q, "sent", "unwritten")
    BY <1>2, <1>3, <2>2 DEF Holding
  <2>3. CASE CanTransition(replay[q].row, replay[q].result) /\ Transition(replay[q].row, replay[q].result)
    BY <1>1, <1>8, <2>1, <2>3, TransitionMoves
  <2> QED BY <1>9, <2>2, <2>3 DEF ReplayRecord
<1>10. CASE ReplayUnknown(q)
  <2>1. Stored(replay[q].row, q) /\ TryTransition(replay[q].row, "unknown") /\ "unknown" \in Results
    BY <1>10 DEF ReplayUnknown, Fit, StagesFit, RowsFit, Results
  <2>2. CASE Moves(replay[q].row, "unknown")
    BY <1>8, <2>1, <2>2
  <2>3. CASE ledger' = ledger
    <3>1. ledger[i].status = "sending" /\ i = replay[q].row => CanTransition(i, "unknown")
      BY <2>1, <2>3 DEF CanTransition, TransitionAllowed
    <3>2. ~Moves(replay[q].row, "unknown") =>
            (ledger[i].status = "sending" /\ i = replay[q].row => i \in lost')
      BY <1>1, <2>1, <3>1, Tried
    <3> QED BY <1>2, <2>2, <2>3, <3>2
  <2> QED BY <1>1, <2>1, <2>2, <2>3, Tried
<1>11. CASE ReplayComplete(q)
  BY <1>2, <1>3, <1>11 DEF ReplayComplete, Holding
<1> QED BY <1>4, <1>5, <1>6, <1>7, <1>9, <1>10, <1>11 DEF ReplayStep

LEMMA TrackedStep ==
  ASSUME TypeOK, Fit, SendingIsTracked, [Next]_vars PROVE SendingIsTracked'
<1>1. ASSUME NEW t \in Retries, RetryShape(t) PROVE SendingIsTracked'
  <2>1. UNCHANGED <<active, replay, lost>>
    BY <1>1 DEF RetryShape, sending
  <2>2. \A i \in DOMAIN ledger' : ledger'[i].status = "sending" =>
          i \in DOMAIN ledger /\ ledger'[i] = ledger[i]
    BY <1>1 DEF RetryShape, Grows
  <2> QED BY <2>1, <2>2 DEF SendingIsTracked, InSending, Held
<1>2. CASE RestartShape
  <2>1. CASE Abandons
    <3>1. \A i \in DOMAIN ledger : ledger[i] \in Row
      BY DEF TypeOK
    <3>2. \A i \in DOMAIN ledger' : ledger'[i].status # "sending"
      BY <2>1, <3>1 DEF Abandons, Row
    <3> QED BY <3>2 DEF SendingIsTracked, InSending
  <2>2. CASE ledger' = ledger /\ lost' = lost \cup InSending
    BY <2>2 DEF SendingIsTracked, InSending
  <2> QED BY <1>2, <2>1, <2>2 DEF RestartShape
<1>3. CASE UNCHANGED vars
  BY <1>3 DEF SendingIsTracked, InSending, Held, vars
<1> QED BY <1>1, <1>2, <1>3, Shapes, TrackedByNotification, TrackedByReplay

--------------------------------------------------------------------------------
(* The one handler of a key, and what it leaves stored. *)
LEMMA HandlerStep ==
  ASSUME TypeOK, Fit, OneHandler, ReplaySendsOnce, [Next]_vars
  PROVE  OneHandler' /\ ReplaySendsOnce'
<1>1. sends \in Nat /\ sends <= 1
  BY DEF TypeOK, ReplaySendsOnce
<1>2. ASSUME UNCHANGED <<claim, sends>>,
             \A q \in Replays : \/ replay'[q].pc = replay[q].pc
                                \/ replay'[q].pc \in {"done", "gone"}
      PROVE  OneHandler' /\ ReplaySendsOnce'
  BY <1>1, <1>2 DEF OneHandler, ReplaySendsOnce, Live
<1>3. ASSUME NEW q \in Replays, Claim(q) \/ ReplayStep(q), ReplayShape(q)
      PROVE  OneHandler' /\ ReplaySendsOnce'
  <2>1. /\ \A p \in Replays : p # q => replay'[p] = replay[p]
        /\ \A from, to : Handles(q, from, to) => replay[q].pc = from /\ replay'[q].pc = to
        /\ \A row, error : Ends(q, row, error) => replay'[q].pc = "written"
    <3>1. replay \in [Replays -> Handler]
      BY DEF TypeOK
    <3>2. \A p \in Replays : p # q => replay'[p] = replay[p]
      BY <1>3, <3>1 DEF ReplayShape
    <3>3. replay[q] \in Handler
      BY <3>1
    <3> QED BY <3>1, <3>2, <3>3 DEF Handles, Ends, Handler
  <2>2. CASE Claim(q) /\ claim.state = "absent"
    <3>1. replay'[q].pc = "claimed" /\ sends' = sends /\ claim'.state = "in_progress"
      BY <2>1, <2>2 DEF Claim, TypeOK, Command
    <3>2. sends = 0 /\ \A p \in Replays : ~Live(p)
      BY <2>2 DEF OneHandler
    <3> QED BY <1>1, <2>1, <3>1, <3>2 DEF OneHandler, ReplaySendsOnce, Live
  <2>3. CASE Claim(q) /\ claim.state # "absent"
    BY <1>2, <2>1, <2>3 DEF Claim
  <2>4. ASSUME Live(q), claim' = claim, Live(q)', sends' = sends,
               replay'[q].pc \in {"claimed", "created", "sending"} => replay[q].pc \in {"claimed", "created", "sending"}
        PROVE  OneHandler' /\ ReplaySendsOnce'
    BY <1>1, <2>1, <2>4 DEF OneHandler, ReplaySendsOnce, Live
  <2>5. CASE ReplayCreate(q)
    <3>1. replay[q].pc = "claimed" /\ replay'[q].pc \in {"created", "written"} /\ claim' = claim /\ sends' = sends
      BY <2>1, <2>5 DEF ReplayCreate, TypeOK, Handler
    <3> QED BY <2>4, <3>1 DEF Live
  <2>6. CASE ReplayEnter(q)
    <3>1. replay[q].pc = "created" /\ replay'[q].pc \in {"sending", "written"} /\ claim' = claim /\ sends' = sends
      BY <2>1, <2>6 DEF ReplayEnter
    <3> QED BY <2>4, <3>1 DEF Live
  <2>7. CASE ReplaySend(q)
    <3>1. replay[q].pc = "sending" /\ replay'[q].pc = "sent" /\ claim' = claim /\ sends' = sends + 1
      <4>1. PICK s : replay' = [replay EXCEPT ![q].pc = "sent", ![q].result = s]
        BY <2>7 DEF ReplaySend
      <4> QED BY <2>7, <4>1 DEF ReplaySend, TypeOK, Handler
    <3>2. sends = 0 /\ claim.state = "in_progress" /\ \A p \in Replays : Live(p) => p = q
      BY <3>1 DEF OneHandler, Live
    <3> QED BY <2>1, <3>1, <3>2 DEF OneHandler, ReplaySendsOnce, Live
  <2>8. CASE ReplayRecord(q)
    <3>1. replay[q].pc = "sent" /\ replay'[q].pc \in {"unwritten", "written"} /\ claim' = claim /\ sends' = sends
      BY <2>1, <2>8 DEF ReplayRecord
    <3> QED BY <2>4, <3>1 DEF Live
  <2>9. CASE ReplayUnknown(q)
    <3>1. replay[q].pc = "unwritten" /\ replay'[q].pc = "written" /\ claim' = claim /\ sends' = sends
      BY <2>1, <2>9 DEF ReplayUnknown
    <3> QED BY <2>4, <3>1 DEF Live
  <2>10. CASE ReplayComplete(q)
    <3>1. /\ replay[q].pc = "written" /\ replay'[q].pc = "done" /\ sends' = sends
          /\ claim' = claim \/ claim'.state = "completed"
      BY <2>1, <2>10 DEF ReplayComplete
    <3>2. claim.state = "in_progress" /\ \A p \in Replays : Live(p) => p = q
      BY <3>1 DEF OneHandler, Live
    <3> QED BY <1>1, <2>1, <3>1, <3>2 DEF OneHandler, ReplaySendsOnce, Live
  <2> QED BY <1>3, <2>2, <2>3, <2>5, <2>6, <2>7, <2>8, <2>9, <2>10 DEF ReplayStep
<1>4. CASE RestartShape
  <2>1. \A q \in Replays : replay'[q].pc \in {replay[q].pc, "gone"}
    <3> TAKE q \in Replays
    <3>1. replay[q] \in Handler
      BY DEF TypeOK
    <3> QED BY <1>4, <3>1 DEF RestartShape, Handler
  <2> QED BY <1>2, <1>4, <2>1 DEF RestartShape
<1>5. CASE UNCHANGED <<claim, sends, replay>>
  BY <1>2, <1>5
<1> QED BY <1>3, <1>4, <1>5, Shapes DEF Shape, RetryShape, admin, vars

(* What a handler knows of its row follows it through its stages. *)
LEMMA KnowsStep ==
  ASSUME TypeOK, Fit, OneHandler, HandlersKnow, [Next]_vars
  PROVE  HandlersKnow'
<1> SUFFICES ASSUME NEW q \in Replays PROVE Knows(q)'
  BY DEF HandlersKnow
<1>1. /\ ledger \in Seq(Row) /\ replay \in [Replays -> Handler] /\ replay[q] \in Handler
      /\ replay[q].row \in Nat /\ Knows(q)
      /\ replay[q].row # 0 => Stored(replay[q].row, q)
      /\ replay[q].pc \in {"created", "sending", "sent", "unwritten"} => Stored(replay[q].row, q)
      /\ \A i \in DOMAIN ledger : Kept(i)
      /\ 0 \in Nat /\ 0 \notin DOMAIN ledger
  BY StepsKeepTable DEF TypeOK, Handler, HandlersKnow, Fit, RowsFit, StagesFit
<1>2. ASSUME replay'[q] = replay[q], sends' = sends \/ ~Live(q), Untouched(q) PROVE Knows(q)'
  <2>1. Stored(replay[q].row, q) => ledger'[replay[q].row] = ledger[replay[q].row]
    BY <1>1, <1>2 DEF Stored, Untouched, Kept
  <2> QED BY <1>1, <1>2, <2>1 DEF Knows, Live
<1>3. CASE \/ \E n \in Notifies : Shape(n)
           \/ \E t \in Retries : RetryShape(t)
           \/ UNCHANGED vars
  <2>1. \A n \in Notifies : q # n
    BY OriginAssumption
  <2>2. Untouched(q)
    BY <1>3, <2>1, OthersUntouched DEF Untouched, vars
  <2>3. replay' = replay /\ sends' = sends
    BY <1>3 DEF Shape, RetryShape, admin, vars
  <2> QED BY <1>2, <2>2, <2>3
<1>4. CASE RestartShape
  <2>1. replay'[q].pc \in {"idle", "done", "gone"}
    BY <1>1, <1>4 DEF RestartShape, Handler
  <2> QED BY <2>1 DEF Knows
<1>5. ASSUME NEW p \in Replays, Claim(p) \/ ReplayStep(p), ReplayShape(p), p # q PROVE Knows(q)'
  <2>1. replay'[q] = replay[q] /\ Untouched(q)
    BY <1>1, <1>5, OthersUntouched DEF ReplayShape
  <2>2. sends' = sends \/ ReplaySend(p)
    BY <1>5 DEF Claim, ReplayStep, ReplayCreate, ReplayEnter, ReplayRecord, ReplayUnknown, ReplayComplete
  <2>3. ReplaySend(p) => ~Live(q)
    BY <1>5 DEF ReplaySend, OneHandler, Live
  <2> QED BY <1>2, <2>1, <2>2, <2>3
<1>6. ASSUME Claim(q) \/ ReplayStep(q) PROVE Knows(q)'
  <2>1. /\ \A from, to : Handles(q, from, to) =>
             replay[q].pc = from /\ replay'[q].pc = to /\ replay'[q].row = replay[q].row
        /\ \A row, error : Ends(q, row, error) =>
             replay'[q].pc = "written" /\ replay'[q].row = row /\ replay'[q].error = error
    <3>1. ASSUME NEW from, NEW to, Handles(q, from, to)
          PROVE  replay[q].pc = from /\ replay'[q].pc = to /\ replay'[q].row = replay[q].row
      BY <1>1, <3>1 DEF Handles, Handler
    <3>2. ASSUME NEW row, NEW error, Ends(q, row, error)
          PROVE  replay'[q].pc = "written" /\ replay'[q].row = row /\ replay'[q].error = error
      <4>1. replay' = [replay EXCEPT ![q] = [@ EXCEPT !.pc = "written", !.row = row, !.error = error]]
        BY <3>2 DEF Ends
      <4>2. replay'[q] = [replay[q] EXCEPT !.pc = "written", !.row = row, !.error = error]
        BY <1>1, <4>1
      <4> QED BY <1>1, <4>2 DEF Handler
    <3> QED BY <3>1, <3>2
  <2>2. CASE Claim(q) \/ ReplayComplete(q)
    BY <2>1, <2>2 DEF Claim, ReplayComplete, Knows
  <2>3. CASE ReplayCreate(q)
    <3>1. sends' = sends /\ sends = 0
      BY <2>3 DEF ReplayCreate, OneHandler
    <3>2. CASE Ends(q, 0, TRUE)
      BY <2>1, <3>1, <3>2 DEF Knows
    <3>3. CASE replay' = [replay EXCEPT ![q].pc = "created", ![q].row = Inserted]
      <4>1. replay'[q].pc = "created"
        BY <1>1, <3>3 DEF Handler
      <4> QED BY <4>1 DEF Knows
    <3> QED BY <2>3, <3>2, <3>3 DEF ReplayCreate
  <2>4. CASE ReplayEnter(q)
    <3>1. sends' = sends /\ sends = 0 /\ replay[q].pc = "created"
      BY <2>4 DEF ReplayEnter, OneHandler
    <3>2. CASE Ends(q, 0, TRUE)
      BY <2>1, <3>1, <3>2 DEF Knows
    <3>3. CASE CanTransition(replay[q].row, "sending") /\ Transition(replay[q].row, "sending")
               /\ Handles(q, "created", "sending")
      <4>1. Moves(replay[q].row, "sending")
        BY <1>1, <3>3, TransitionMoves
      <4>2. ledger[replay[q].row] \in Row
        BY <1>1, <4>1 DEF Moves
      <4>3. ledger'[replay[q].row].status = "sending"
        BY <4>1, <4>2 DEF Moves, Row
      <4> QED BY <2>1, <3>1, <3>3, <4>3 DEF Knows
    <3> QED BY <2>4, <3>2, <3>3 DEF ReplayEnter
  <2>5. CASE ReplaySend(q)
    <3>1. sends' = 1 /\ ledger' = ledger /\ replay[q].pc = "sending"
      BY <2>5 DEF ReplaySend, OneHandler
    <3>2. PICK s : replay' = [replay EXCEPT ![q].pc = "sent", ![q].result = s]
      BY <2>5 DEF ReplaySend
    <3>3. replay'[q].pc = "sent" /\ replay'[q].row = replay[q].row
      BY <1>1, <3>2 DEF Handler
    <3> QED BY <1>1, <3>1, <3>3 DEF Knows
  <2>6. CASE ReplayRecord(q)
    <3>1. /\ sends' = sends /\ sends = 1 /\ replay[q].pc = "sent"
          /\ replay[q].result \in {"sent", "unknown", "rejected"} /\ replay[q].row # 0
      BY <1>1, <2>6 DEF ReplayRecord, Knows, Fit, StagesFit
    <3>2. CASE UNCHANGED ledger /\ Handles(q, "sent", "unwritten")
      BY <1>1, <2>1, <3>1, <3>2 DEF Knows
    <3>3. CASE CanTransition(replay[q].row, replay[q].result)
               /\ Transition(replay[q].row, replay[q].result) /\ Ends(q, replay[q].row, FALSE)
      <4>1. Moves(replay[q].row, replay[q].result)
        BY <1>1, <3>3, TransitionMoves
      <4>2. ledger[replay[q].row] \in Row
        BY <1>1, <4>1 DEF Moves
      <4>3. ledger'[replay[q].row].status \in Results \cap Terminal
        BY <3>1, <4>1, <4>2 DEF Moves, Row, Results, Terminal
      <4> QED BY <2>1, <3>1, <3>3, <4>3 DEF Knows
    <3> QED BY <2>6, <3>2, <3>3 DEF ReplayRecord
  <2>7. CASE ReplayUnknown(q)
    <3>1. /\ sends' = sends /\ sends = 1 /\ replay[q].row # 0
          /\ ledger[replay[q].row].status = "sending"
      BY <1>1, <2>7 DEF ReplayUnknown, Knows, Fit, StagesFit
    <3>2. Ends(q, replay[q].row, TRUE) /\ TryTransition(replay[q].row, "unknown")
      BY <2>7 DEF ReplayUnknown
    <3>3. ledger' = ledger \/ Moves(replay[q].row, "unknown")
      BY <1>1, <3>2, Tried DEF TypeOK
    <3>4. ledger'[replay[q].row].status \in {"sending", "unknown"}
      <4>1. CASE ledger' = ledger
        BY <3>1, <4>1
      <4>2. CASE Moves(replay[q].row, "unknown")
        <5>1. ledger[replay[q].row] \in Row
          BY <1>1, <4>2 DEF Moves
        <5> QED BY <4>2, <5>1 DEF Moves, Row
      <4> QED BY <3>3, <4>1, <4>2
    <3> QED BY <2>1, <3>1, <3>2, <3>4 DEF Knows
  <2> QED BY <1>6, <2>2, <2>3, <2>4, <2>5, <2>6, <2>7 DEF ReplayStep
<1> QED BY <1>3, <1>4, <1>5, <1>6, Shapes

(* Once the command is completed nobody writes a replay's row any more but the     *)
(* pass of a restart over what is in sending.                                      *)
LEMMA ReplayRowsStand ==
  ASSUME TypeOK, Fit, OneHandler, claim.state = "completed", [Next]_vars
  PROVE  /\ claim' = claim /\ sends' = sends
         /\ \A q \in Replays : \A i : Stored(i, q) =>
              \/ ledger'[i] = ledger[i]
              \/ ledger[i].status = "sending" /\ ledger'[i].status = "abandoned_restart"
<1>1. /\ ledger \in Seq(Row) /\ \A i \in DOMAIN ledger : Kept(i) /\ ledger[i] \in Row
  BY StepsKeepTable DEF TypeOK
<1>2. \A q \in Replays : ~Live(q)
  BY DEF OneHandler
<1>3. ASSUME NEW q \in Replays, Untouched(q), NEW i, Stored(i, q) PROVE ledger'[i] = ledger[i]
  BY <1>1, <1>3 DEF Untouched, Stored, Kept
<1>4. CASE \E n \in Notifies : Shape(n)
  <2>1. \A q \in Replays : Untouched(q)
    BY <1>4, OriginAssumption, OthersUntouched
  <2> QED BY <1>3, <1>4, <2>1 DEF Shape, admin
<1>5. CASE \E t \in Retries : RetryShape(t)
  <2>1. \A q \in Replays : Untouched(q)
    BY <1>5, OthersUntouched
  <2> QED BY <1>3, <1>5, <2>1 DEF RetryShape
<1>6. ASSUME NEW q \in Replays, Claim(q) \/ ReplayStep(q)
      PROVE  UNCHANGED <<ledger, claim, sends>>
  <2>1. ~ReplayStep(q)
    BY <1>2 DEF ReplayStep, ReplayCreate, ReplayEnter, ReplaySend, ReplayRecord, ReplayUnknown,
                ReplayComplete, Handles, Live
  <2> QED BY <1>6, <2>1 DEF Claim
<1>7. CASE RestartShape
  <2>1. \A i \in DOMAIN ledger : \/ ledger'[i] = ledger[i]
                                 \/ ledger[i].status = "sending" /\ ledger'[i].status = "abandoned_restart"
    BY <1>1, <1>7 DEF RestartShape, Abandons, Row
  <2> QED BY <1>7, <2>1 DEF RestartShape, Stored
<1> QED BY <1>4, <1>5, <1>6, <1>7, Shapes DEF vars

(* What is stored keeps telling the truth, and is the truth when it is stored.     *)
LEMMA StoredStep ==
  ASSUME TypeOK, Fit, OneHandler, HandlersKnow, StoredIsAReplays, StoredAnswerHolds, [Next]_vars
  PROVE  StoredIsAReplays' /\ StoredAnswerHolds'
<1>1. /\ ledger \in Seq(Row) /\ \A i \in DOMAIN ledger : Kept(i) /\ ledger[i] \in Row
      /\ claim \in Command
  BY StepsKeepTable DEF TypeOK
<1>2. CASE claim.state = "completed"
  <2>1. claim' = claim /\ sends' = sends
    BY <1>2, ReplayRowsStand
  <2>3. StoredIsAReplays'
    <3>1. ASSUME NEW q \in Replays, Stored(claim.row, q) PROVE StoredNow(claim.row, q)
      BY <1>1, <3>1 DEF Stored, StoredNow, Kept
    <3> QED BY <1>2, <2>1, <3>1 DEF StoredIsAReplays, Stored, StoredNow
  <2>4. ASSUME TellsTheResult PROVE TellsTheResult'
    <3>1. /\ claim.row \in DOMAIN ledger' /\ ledger'[claim.row].by = ledger[claim.row].by
          /\ ledger'[claim.row].status = ledger[claim.row].status
      BY <1>1, <2>4 DEF TellsTheResult, ReplayRow, Kept
    <3> QED BY <2>1, <2>4, <3>1 DEF TellsTheResult, ReplayRow
  <2>5. ASSUME TellsOfARefusal PROVE TellsOfARefusal'
    BY <2>1, <2>5 DEF TellsOfARefusal
  <2>6. ASSUME TellsNoOutcome PROVE TellsNoOutcome'
    <3>1. PICK q \in Replays : Stored(claim.row, q)
      BY <1>2, <2>6 DEF TellsNoOutcome, StoredIsAReplays
    <3>2. ledger'[claim.row].status \in {"sending", "unknown", "abandoned_restart"}
      BY <1>2, <2>6, <3>1, ReplayRowsStand DEF TellsNoOutcome
    <3>3. claim.row \in DOMAIN ledger' /\ ledger'[claim.row].by = ledger[claim.row].by
      BY <1>1, <2>6 DEF TellsNoOutcome, ReplayRow, Kept
    <3> QED BY <2>1, <2>6, <3>2, <3>3 DEF TellsNoOutcome, ReplayRow
  <2>7. ASSUME TellsNothing PROVE TellsNothing'
    <3>1. PICK i \in DOMAIN ledger : ReplayRow(i) /\ ledger[i].status \in Results \cap Terminal
      BY <2>7 DEF TellsNothing
    <3>2. /\ i \in DOMAIN ledger' /\ ledger'[i].by = ledger[i].by
          /\ ledger'[i].status = ledger[i].status
      BY <1>1, <3>1 DEF Kept
    <3> QED BY <2>1, <2>7, <3>1, <3>2 DEF TellsNothing, ReplayRow
  <2>8. StoredAnswerHolds'
    BY <1>2, <2>4, <2>5, <2>6, <2>7 DEF StoredAnswerHolds
  <2> QED BY <2>3, <2>8
<1>3. ASSUME NEW q \in Replays, ReplayComplete(q), claim' # claim
      PROVE  StoredIsAReplays' /\ StoredAnswerHolds'
  <2>1. ledger' = ledger /\ sends' = sends /\ replay[q].pc = "written"
    BY <1>3 DEF ReplayComplete, Handles
  <2>2. Knows(q) /\ (replay[q].row # 0 => Stored(replay[q].row, q))
    BY DEF HandlersKnow, Fit, RowsFit
  <2>3. replay[q].row # 0 => ReplayRow(replay[q].row)
    BY <2>2 DEF ReplayRow, Stored
  <2>4. CASE claim' = [state |-> "completed", row |-> replay[q].row, status |-> ReadBack(q)]
    <3>1. CASE replay[q].row = 0
      <4>1. claim'.status = "error" /\ sends = 0
        BY <2>1, <2>2, <2>4, <3>1 DEF ReadBack, Knows
      <4> QED BY <2>1, <4>1 DEF StoredIsAReplays, StoredAnswerHolds, TellsOfARefusal
    <3>2. CASE replay[q].row # 0
      <4>1. /\ claim'.row = replay[q].row /\ claim'.status = ledger[replay[q].row].status
            /\ sends = 1 /\ ledger[replay[q].row].status \in {"sending", "unknown"} \cup (Results \cap Terminal)
        BY <2>1, <2>2, <2>4, <3>2 DEF ReadBack, Knows
      <4>2. StoredIsAReplays'
        BY <2>1, <2>2, <3>2, <4>1 DEF StoredIsAReplays, Stored
      <4>3. TellsTheResult' \/ TellsNoOutcome'
        BY <2>1, <2>3, <3>2, <4>1 DEF TellsTheResult, TellsNoOutcome, ReplayRow, Terminal
      <4> QED BY <4>2, <4>3 DEF StoredAnswerHolds
    <3> QED BY <3>1, <3>2
  <2>5. CASE /\ replay[q].error /\ replay[q].row # 0
             /\ claim' = [state |-> "completed", row |-> replay[q].row, status |-> "planned"]
    <3>1. sends = 1 /\ ledger[replay[q].row].status \in {"sending", "unknown"}
      BY <2>1, <2>2, <2>5 DEF Knows
    <3>2. StoredIsAReplays'
      BY <2>1, <2>2, <2>5 DEF StoredIsAReplays, Stored
    <3>3. TellsNoOutcome'
      BY <2>1, <2>3, <2>5, <3>1 DEF TellsNoOutcome, ReplayRow
    <3> QED BY <3>2, <3>3 DEF StoredAnswerHolds
  <2>6. CASE ~replay[q].error /\ claim' = [state |-> "completed", row |-> 0, status |-> "empty"]
    <3>1. sends = 1 /\ replay[q].row # 0 /\ ledger[replay[q].row].status \in Results \cap Terminal
      BY <2>1, <2>2, <2>6 DEF Knows
    <3>2. StoredIsAReplays'
      BY <2>6 DEF StoredIsAReplays
    <3>3. TellsNothing'
      BY <2>1, <2>3, <2>6, <3>1 DEF TellsNothing, ReplayRow
    <3> QED BY <3>2, <3>3 DEF StoredAnswerHolds
  <2> QED BY <1>3, <2>4, <2>5, <2>6 DEF ReplayComplete
<1>4. CASE claim' # claim /\ claim.state # "completed"
  <2>1. \/ \E q \in Replays : ReplayComplete(q)
        \/ claim'.state = "in_progress"
    <3>1. PICK q \in Replays : Claim(q) \/ ReplayStep(q)
      BY <1>4, Shapes DEF Shape, RetryShape, RestartShape, admin, vars
    <3> QED BY <1>1, <1>4, <3>1 DEF Claim, ReplayStep, ReplayCreate, ReplayEnter, ReplaySend,
                                    ReplayRecord, ReplayUnknown, Command
  <2> QED BY <1>3, <1>4, <2>1 DEF StoredIsAReplays, StoredAnswerHolds
<1>5. CASE claim' = claim /\ claim.state # "completed"
  BY <1>5 DEF StoredIsAReplays, StoredAnswerHolds
<1> QED BY <1>2, <1>4, <1>5

--------------------------------------------------------------------------------
(* The tally of a notification: its rows with a result against the calls that      *)
(* ended with it, that is, all answered calls but the one about to be recorded.    *)
(* A panic may shift results to other rows; it makes no result of its own.        *)
RowsIn(L, n, r)    == {i \in DOMAIN L : L[i].by = n /\ L[i].of = 0 /\ L[i].status = r}
EndedWith(f, s, r) == {c \in Calls : f[c] # "none" /\ Status(f[c]) = r /\ (s.pc = "record" => c # s.call)}

Untold(n)  == \A c \in Calls : told[n][c] # "none" =>
                \/ c < send[n].call
                \/ c = send[n].call /\ send[n].pc \in {"record", "done", "gone"}
Counted(n) == \A r \in Results :
                Cardinality(RowsIn(ledger, n, r)) <= Cardinality(EndedWith(told[n], send[n], r))
TallyInv   == \A n \in Notifies : Untold(n) /\ Counted(n)

LEMMA TallySetsFinite ==
  ASSUME NEW L \in Seq(Row), NEW n, NEW f, NEW s, NEW r
  PROVE  /\ IsFiniteSet(RowsIn(L, n, r)) /\ Cardinality(RowsIn(L, n, r)) \in Nat
         /\ IsFiniteSet(EndedWith(f, s, r)) /\ Cardinality(EndedWith(f, s, r)) \in Nat
<1>1. IsFiniteSet(DOMAIN L)
  <2>1. DOMAIN L = 1..Len(L) /\ Len(L) \in Int /\ 1 \in Int
    OBVIOUS
  <2> QED BY <2>1, FS_Interval
<1>2. IsFiniteSet(Calls)
  <2>1. MaxSegments + 2 \in Int /\ 1 \in Int
    BY SegmentAssumption
  <2> QED BY <2>1, FS_Interval DEF Calls
<1>3. RowsIn(L, n, r) \subseteq DOMAIN L /\ EndedWith(f, s, r) \subseteq Calls
  BY DEF RowsIn, EndedWith
<1>4. IsFiniteSet(RowsIn(L, n, r)) /\ IsFiniteSet(EndedWith(f, s, r))
  BY <1>1, <1>2, <1>3, FS_Subset
<1> QED BY <1>4, FS_CardinalityType

(* At most one row more needs one call more.                                       *)
LEMMA TallyKept ==
  ASSUME NEW L \in Seq(Row), NEW M \in Seq(Row), NEW n, NEW f, NEW s, NEW g, NEW t, NEW r,
         Cardinality(RowsIn(L, n, r)) <= Cardinality(EndedWith(f, s, r)),
         EndedWith(f, s, r) \subseteq EndedWith(g, t, r),
         \/ RowsIn(M, n, r) \subseteq RowsIn(L, n, r)
         \/ \E h, c : /\ RowsIn(M, n, r) \subseteq RowsIn(L, n, r) \cup {h}
                      /\ c \in EndedWith(g, t, r) \ EndedWith(f, s, r)
  PROVE  Cardinality(RowsIn(M, n, r)) <= Cardinality(EndedWith(g, t, r))
<1> DEFINE A == RowsIn(L, n, r)
           B == RowsIn(M, n, r)
           C == EndedWith(f, s, r)
           D == EndedWith(g, t, r)
<1>1. /\ IsFiniteSet(A) /\ IsFiniteSet(B) /\ IsFiniteSet(C) /\ IsFiniteSet(D)
      /\ Cardinality(A) \in Nat /\ Cardinality(B) \in Nat /\ Cardinality(C) \in Nat /\ Cardinality(D) \in Nat
  BY TallySetsFinite
<1>2. Cardinality(A) <= Cardinality(C) /\ C \subseteq D
  OBVIOUS
<1>3. \/ B \subseteq A
      \/ \E h, c : B \subseteq A \cup {h} /\ c \in D \ C
  OBVIOUS
<1> HIDE DEF A, B, C, D
<1>4. Cardinality(C) <= Cardinality(D)
  BY <1>1, <1>2, FS_Subset
<1>5. CASE B \subseteq A
  <2>1. Cardinality(B) <= Cardinality(A)
    BY <1>1, <1>5, FS_Subset
  <2> QED BY <1>1, <1>2, <1>4, <2>1 DEF B, D
<1>6. CASE \E h, c : B \subseteq A \cup {h} /\ c \in D \ C
  <2>1. PICK h, c : B \subseteq A \cup {h} /\ c \in D \ C
    BY <1>6
  <2>2. /\ IsFiniteSet(A \cup {h}) /\ Cardinality(A \cup {h}) <= Cardinality(A) + 1
        /\ Cardinality(A \cup {h}) \in Nat
    <3>1. /\ IsFiniteSet(A \cup {h})
          /\ Cardinality(A \cup {h}) = IF h \in A THEN Cardinality(A) ELSE Cardinality(A) + 1
      BY <1>1, FS_AddElement
    <3> QED BY <1>1, <3>1
  <2>3. Cardinality(B) <= Cardinality(A \cup {h})
    BY <2>1, <2>2, FS_Subset
  <2>4. IsFiniteSet(C \cup {c}) /\ Cardinality(C \cup {c}) = Cardinality(C) + 1
    BY <1>1, <2>1, FS_AddElement
  <2>5. C \cup {c} \subseteq D
    BY <1>2, <2>1
  <2>6. Cardinality(C \cup {c}) <= Cardinality(D)
    BY <1>1, <2>5, FS_Subset
  <2> QED BY <1>1, <1>2, <2>2, <2>3, <2>4, <2>6 DEF B, D
<1> QED BY <1>3, <1>5, <1>6

(* A step that gives none of a notification's rows a result keeps its tally.       *)
Quiet(n) ==
  /\ told'[n] = told[n]
  /\ \/ send'[n] = send[n]
     \/ /\ send'[n].pc # "record"
        /\ \/ send'[n].call = send[n].call + 1
           \/ send'[n].call = send[n].call /\ (send[n].pc \in {"record", "done", "gone"} => send'[n].pc \in {"done", "gone"})
  /\ \A r \in Results : RowsIn(ledger', n, r) \subseteq RowsIn(ledger, n, r)

LEMMA QuietTally ==
  ASSUME TypeOK, ledger' \in Seq(Row), NEW n \in Notifies, Quiet(n), Untold(n), Counted(n)
  PROVE  Untold(n)' /\ Counted(n)'
<1>1. ledger \in Seq(Row) /\ send[n].call \in Nat
  BY CallIsNat DEF TypeOK
<1>2. Calls \subseteq Nat
  BY SegmentAssumption DEF Calls
<1>3. Untold(n)'
  <2> SUFFICES ASSUME NEW c \in Calls, told'[n][c] # "none"
               PROVE  \/ c < send'[n].call
                      \/ c = send'[n].call /\ send'[n].pc \in {"record", "done", "gone"}
    BY DEF Untold
  <2>1. /\ c \in Nat
        /\ \/ c < send[n].call
           \/ c = send[n].call /\ send[n].pc \in {"record", "done", "gone"}
    <3>1. c \in Nat
      BY <1>2
    <3>2. told[n][c] # "none"
      BY DEF Quiet
    <3> QED BY <3>1, <3>2 DEF Untold
  <2>2. CASE send'[n] = send[n]
    BY <2>1, <2>2
  <2>3. CASE send'[n].call = send[n].call + 1
    BY <1>1, <2>1, <2>3
  <2>4. CASE /\ send'[n].call = send[n].call
             /\ send[n].pc \in {"record", "done", "gone"} => send'[n].pc \in {"done", "gone"}
    BY <2>1, <2>4
  <2> QED BY <2>2, <2>3, <2>4 DEF Quiet
<1>4. ASSUME NEW r \in Results
      PROVE  Cardinality(RowsIn(ledger', n, r)) <= Cardinality(EndedWith(told'[n], send'[n], r))
  <2>1. EndedWith(told[n], send[n], r) \subseteq EndedWith(told'[n], send'[n], r)
    BY DEF Quiet, EndedWith
  <2>2. RowsIn(ledger', n, r) \subseteq RowsIn(ledger, n, r)
    BY DEF Quiet
  <2>3. Cardinality(RowsIn(ledger, n, r)) <= Cardinality(EndedWith(told[n], send[n], r))
    BY DEF Counted
  <2> QED BY <1>1, <2>1, <2>2, <2>3, TallyKept
<1> QED BY <1>3, <1>4 DEF Counted

(* What a change of the table does to the rows with a result.                      *)
LEMMA RowsWithResult ==
  ASSUME ledger \in Seq(Row), NEW n
  PROVE  /\ ledger' = ledger => \A r \in Results : RowsIn(ledger', n, r) \subseteq RowsIn(ledger, n, r)
         /\ \A x : Grows(x) /\ (x.status = "planned" \/ x.by # n \/ x.of # 0) =>
              \A r \in Results : RowsIn(ledger', n, r) \subseteq RowsIn(ledger, n, r)
         /\ \A i, to : Moves(i, to) => \A r \in Results :
              RowsIn(ledger', n, r) \subseteq RowsIn(ledger, n, r) \cup (IF r = to THEN {i} ELSE {})
         /\ Abandons => \A r \in Results : RowsIn(ledger', n, r) \subseteq RowsIn(ledger, n, r)
         /\ Untouched(n) => \A r \in Results : RowsIn(ledger', n, r) \subseteq RowsIn(ledger, n, r)
<1>1. \A i \in DOMAIN ledger : ledger[i] \in Row
  OBVIOUS
<1>2. "planned" \notin Results /\ "abandoned_restart" \notin Results
  BY DEF Results
<1>3. ASSUME NEW x, Grows(x), x.status = "planned" \/ x.by # n \/ x.of # 0, NEW r \in Results
      PROVE  RowsIn(ledger', n, r) \subseteq RowsIn(ledger, n, r)
  BY <1>2, <1>3 DEF Grows, RowsIn
<1>4. ASSUME NEW i, NEW to, Moves(i, to), NEW r \in Results
      PROVE  RowsIn(ledger', n, r) \subseteq RowsIn(ledger, n, r) \cup (IF r = to THEN {i} ELSE {})
  <2>1. /\ DOMAIN ledger' = DOMAIN ledger /\ i \in DOMAIN ledger
        /\ ledger'[i].status = to
        /\ \A j \in DOMAIN ledger : j # i => ledger'[j] = ledger[j]
    BY <1>1, <1>4 DEF Moves, Row
  <2> QED BY <2>1 DEF RowsIn
<1>5. ASSUME Abandons, NEW r \in Results
      PROVE  RowsIn(ledger', n, r) \subseteq RowsIn(ledger, n, r)
  <2>1. /\ DOMAIN ledger' = DOMAIN ledger
        /\ \A i \in DOMAIN ledger : ledger'[i] = ledger[i] \/ ledger'[i].status = "abandoned_restart"
    BY <1>1, <1>5 DEF Abandons, Row
  <2> QED BY <1>2, <2>1 DEF RowsIn
<1>6. ASSUME Untouched(n), NEW r \in Results
      PROVE  RowsIn(ledger', n, r) \subseteq RowsIn(ledger, n, r)
  BY <1>6 DEF Untouched, RowsIn
<1> QED BY <1>3, <1>4, <1>5, <1>6

LEMMA OwnTally ==
  ASSUME TypeOK, Fit, NEW n \in Notifies, NotifyStep(n), ledger' \in Seq(Row), Untold(n), Counted(n)
  PROVE  Untold(n)' /\ Counted(n)'
<1> DEFINE c == send[n].call
           Calm == \A r \in Results : RowsIn(ledger', n, r) \subseteq RowsIn(ledger, n, r)
<1>1. /\ ledger \in Seq(Row) /\ c \in Nat /\ c \in Calls /\ Calls \subseteq Nat
      /\ told \in [Notifies -> [Calls -> Evidence]] /\ send \in [Notifies -> Send]
  BY CallIsNat, SegmentAssumption DEF TypeOK, Calls
<1>0. ASSUME NEW ok, NEW elements, Return(n, ok, elements) PROVE Back(n)
  BY <1>0, Returning DEF Fit
<1>2. ASSUME Back(n), told' = told, send[n].pc # "record", Calm PROVE Quiet(n)
  <2>1. \/ send'[n].pc = "done" /\ send'[n].call = send[n].call
        \/ send'[n].pc = "ready" /\ send'[n].call = send[n].call + 1
    BY <1>2, BackPc
  <2> QED BY <1>2, <2>1 DEF Quiet
<1>3. ASSUME NEW pc, pc # "record", told' = told, Calm, Goes(n, pc), send[n].pc \notin {"record", "done", "gone"}
      PROVE  Quiet(n)
  BY <1>3, GoesPc DEF Quiet
<1>4. ASSUME ledger' = ledger PROVE Calm
  BY <1>1, <1>4, RowsWithResult
<1>5. ASSUME NEW i, NEW to, TryTransition(i, to), to \notin Results PROVE Calm
  <2>1. Moves(i, to) \/ ledger' = ledger
    BY <1>1, <1>5, Tried
  <2>2. CASE Moves(i, to)
    BY <1>1, <1>5, <2>2, RowsWithResult
  <2> QED BY <1>4, <2>1, <2>2
<1>15. ASSUME NEW i, NEW to, Moves(i, to), to \notin Results PROVE Calm
  BY <1>1, <1>15, RowsWithResult
<1>6. ASSUME Insert(NewRow(n, c)) PROVE Calm
  <2>1. NewRow(n, c) \in Row /\ NewRow(n, c).status = "planned"
    BY <1>1, NewRowIsRow
  <2>2. Grows(NewRow(n, c))
    BY <1>1, <1>6, <2>1, InsertGrows
  <2> QED BY <1>1, <2>1, <2>2, RowsWithResult
<1> HIDE DEF Calm
<1>7. CASE Refuse(n)
  BY <1>2, <1>4, <1>7, QuietTally, <1>0 DEF Refuse
<1>8. CASE Empty(n) \/ Pass(n)
  BY <1>3, <1>4, <1>8, QuietTally DEF Empty, Pass
<1>9. CASE SkipCreate(n) \/ Create(n)
  <2>1. Calm /\ told' = told
    BY <1>4, <1>6, <1>9 DEF SkipCreate, Create
  <2>2. CASE Insert(NewRow(n, c)) /\ NoFault
    <3>0. Grows(NewRow(n, c))
      BY <1>1, <2>2, NewRowIsRow, InsertGrows
    <3>1. PICK pc \in {"skipped", "enter"} : send' = [send EXCEPT ![n].pc = pc, ![n].row = Inserted]
      BY <1>1, <1>9, <2>2, <3>0 DEF SkipCreate, Create, Grows
    <3>2. send'[n].pc = pc /\ send'[n].call = c
      BY <1>1, <3>1 DEF Send
    <3>3. send[n].pc \in {"skip", "create"}
      BY <1>9 DEF SkipCreate, Create
    <3> QED BY <2>1, <3>2, <3>3, QuietTally DEF Quiet, Calm
  <2>3. CASE ~(Insert(NewRow(n, c)) /\ NoFault)
    BY <1>2, <1>3, <1>9, <2>1, <2>3, QuietTally, <1>0 DEF SkipCreate, Create
  <2> QED BY <2>2, <2>3
<1>10. CASE SkipClose(n)
  <2>1. Calm /\ told' = told
    BY <1>5, <1>10 DEF SkipClose, Results
  <2> QED BY <1>2, <1>10, <2>1, QuietTally, <1>0 DEF SkipClose
<1>11. CASE Enter(n)
  <2>1. Calm /\ told' = told
    <3>1. CASE CanTransition(send[n].row, "sending") /\ Transition(send[n].row, "sending")
      <4>1. Moves(send[n].row, "sending") /\ "sending" \notin Results
        BY <1>1, <3>1, TransitionMoves DEF Results
      <4>2. told' = told
        BY <1>11 DEF Enter
      <4>3. Calm
        BY <4>1, <1>15
      <4> QED BY <4>2, <4>3
    <3> QED BY <1>4, <1>11, <3>1 DEF Enter
  <2> QED BY <1>3, <1>11, <2>1, QuietTally DEF Enter
<1>12. CASE Panic(n)
  <2>1. Calm /\ told' = told
    BY <1>4, <1>12 DEF Panic
  <2>2. CASE send[n].again
    BY <1>2, <1>12, <2>1, <2>2, QuietTally, <1>0 DEF Panic
  <2>3. CASE ~send[n].again
    <3>1. send' = [send EXCEPT ![n] = [send[n] EXCEPT !.pc = "ready", !.again = TRUE, !.row = 0]]
      BY <1>12, <2>3 DEF Panic
    <3>2. send'[n].pc = "ready" /\ send'[n].call = c /\ send[n].pc = "wire"
      BY <1>1, <1>12, <3>1 DEF Panic, Send
    <3> QED BY <2>1, <3>2, QuietTally DEF Quiet, Calm
  <2> QED BY <2>2, <2>3
<1>13. CASE Answer(n)
  <2>1. PICK e \in Outcomes : told' = [told EXCEPT ![n][c] = e]
    BY <1>13 DEF Answer
  <2>2. told'[n] = [told[n] EXCEPT ![c] = e]
    BY <1>1, <2>1
  <2>3. send'[n].pc = "record" /\ send'[n].call = c /\ send[n].pc = "wire" /\ ledger' = ledger
    BY <1>13, GoesPc DEF Answer
  <2>4. told[n][c] = "none"
    BY <1>1, <2>3 DEF Untold
  <2>5. Untold(n)'
    BY <1>1, <2>2, <2>3 DEF Untold
  <2>6. \A r \in Results : EndedWith(told'[n], send'[n], r) = EndedWith(told[n], send[n], r)
    BY <1>1, <2>2, <2>3, <2>4 DEF EndedWith
  <2>7. Counted(n)'
    BY <2>3, <2>6 DEF Counted
  <2> QED BY <2>5, <2>7
<1>14. CASE Record(n)
  <2> DEFINE e == told[n][c]
  <2>1. e \in Evidence \ {"none"} /\ send[n].pc = "record" /\ told' = told
    BY <1>1, <1>14 DEF Record, Fit, StagesFit
  <2>2. \/ send'[n].pc = "done" /\ send'[n].call = c
        \/ send'[n].pc = "ready" /\ send'[n].call = c + 1
    BY <1>14, BackPc, <1>0 DEF Record
  <2>3. Untold(n)'
    BY <1>1, <2>1, <2>2 DEF Untold
  <2>4. \A r \in Results : EndedWith(told[n], send[n], r) \subseteq EndedWith(told'[n], send'[n], r)
    BY <2>1, <2>2 DEF EndedWith
  <2>5. c \in EndedWith(told'[n], send'[n], Status(e)) \ EndedWith(told[n], send[n], Status(e))
    BY <1>1, <2>1, <2>2 DEF EndedWith
  <2>6. \E h : \A r \in Results : RowsIn(ledger', n, r) \subseteq
                                    RowsIn(ledger, n, r) \cup (IF r = Status(e) THEN {h} ELSE {})
    <3>1. CASE ledger' = ledger
      BY <1>4, <3>1 DEF Calm
    <3>2. CASE ledger' # ledger
      <4>1. TryTransition(Head(active[n]), Status(e))
        BY <1>14, <3>2 DEF Record
      <4>2. Moves(Head(active[n]), Status(e))
        BY <1>1, <3>2, <4>1, Tried
      <4>3. \A r \in Results : RowsIn(ledger', n, r) \subseteq
              RowsIn(ledger, n, r) \cup (IF r = Status(e) THEN {Head(active[n])} ELSE {})
        <5> HIDE DEF e
        <5> QED BY <1>1, <4>2, RowsWithResult
      <4> QED BY <4>3
    <3> QED BY <3>1, <3>2
  <2>7. ASSUME NEW r \in Results
        PROVE  Cardinality(RowsIn(ledger', n, r)) <= Cardinality(EndedWith(told'[n], send'[n], r))
    <3>1. Cardinality(RowsIn(ledger, n, r)) <= Cardinality(EndedWith(told[n], send[n], r))
      BY DEF Counted
    <3>2. \/ RowsIn(ledger', n, r) \subseteq RowsIn(ledger, n, r)
          \/ \E h, k : /\ RowsIn(ledger', n, r) \subseteq RowsIn(ledger, n, r) \cup {h}
                       /\ k \in EndedWith(told'[n], send'[n], r) \ EndedWith(told[n], send[n], r)
      BY <2>5, <2>6
    <3> QED BY <1>1, <2>4, <3>1, <3>2, TallyKept
  <2> QED BY <2>3, <2>7 DEF Counted
<1> QED BY <1>7, <1>8, <1>9, <1>10, <1>11, <1>12, <1>13, <1>14 DEF NotifyStep

LEMMA TallyStep ==
  ASSUME TypeOK, Fit, TallyInv, [Next]_vars PROVE TallyInv'
<1> SUFFICES ASSUME NEW n \in Notifies PROVE Untold(n)' /\ Counted(n)'
  BY DEF TallyInv
<1>1. ledger \in Seq(Row) /\ ledger' \in Seq(Row) /\ Untold(n) /\ Counted(n)
  BY StepsKeepTable DEF TypeOK, TallyInv
<1>2. ASSUME NEW m \in Notifies, NotifyStep(m), Shape(m) PROVE Untold(n)' /\ Counted(n)'
  <2>1. CASE m = n
    BY <1>1, <1>2, <2>1, OwnTally
  <2>2. CASE m # n
    <3>1. Untouched(n)
      BY <1>2, <2>2, OthersUntouched
    <3>2. send'[n] = send[n] /\ told'[n] = told[n]
      BY <1>2, <2>2 DEF Shape, TypeOK
    <3> QED BY <1>1, <3>1, <3>2, RowsWithResult, QuietTally DEF Quiet
  <2> QED BY <2>1, <2>2
<1>3. CASE \/ \E q \in Replays : ReplayShape(q)
           \/ \E t \in Retries : RetryShape(t)
           \/ UNCHANGED vars
  <2>1. Untouched(n)
    <3>1. \A q \in Replays : n # q
      BY OriginAssumption
    <3>2. ledger' = ledger => Untouched(n)
      BY DEF Untouched
    <3> QED BY <1>3, <3>1, <3>2, OthersUntouched DEF vars
  <2>2. UNCHANGED <<send, told>>
    BY <1>3 DEF ReplayShape, RetryShape, sending, vars
  <2> QED BY <1>1, <2>1, <2>2, RowsWithResult, QuietTally DEF Quiet
<1>4. CASE RestartShape
  <2>1. \/ send'[n] = send[n]
        \/ send'[n].pc = "gone" /\ send'[n].call = send[n].call
    <3>1. send[n] \in Send
      BY DEF TypeOK
    <3> QED BY <1>4, <3>1 DEF RestartShape, Send
  <2>2. \A r \in Results : RowsIn(ledger', n, r) \subseteq RowsIn(ledger, n, r)
    BY <1>1, <1>4, RowsWithResult DEF RestartShape
  <2> QED BY <1>1, <1>4, <2>1, <2>2, QuietTally DEF Quiet, RestartShape
<1> QED BY <1>2, <1>3, <1>4, Shapes

LEMMA TallyInit == Init => TallyInv
<1> SUFFICES ASSUME Init, NEW n \in Notifies PROVE Untold(n) /\ Counted(n)
  BY DEF TallyInv
<1>1. ledger = <<>> /\ ledger \in Seq(Row) /\ DOMAIN ledger = {} /\ told[n] = [c \in Calls |-> "none"]
  BY DEF Init
<1>2. ASSUME NEW r \in Results
      PROVE  Cardinality(RowsIn(ledger, n, r)) <= Cardinality(EndedWith(told[n], send[n], r))
  <2>1. RowsIn(ledger, n, r) = {}
    BY <1>1 DEF RowsIn
  <2>2. Cardinality(RowsIn(ledger, n, r)) = 0 /\ Cardinality(EndedWith(told[n], send[n], r)) \in Nat
    BY <1>1, <2>1, FS_EmptySet, TallySetsFinite
  <2> QED BY <2>2
<1> QED BY <1>1, <1>2 DEF Untold, Counted

(* The tally against all answered calls.                                           *)
LEMMA TallyBounds == TypeOK /\ TallyInv => NothingInvented
<1> SUFFICES ASSUME TypeOK, TallyInv, NEW n \in Notifies, NEW r \in Results
             PROVE  Cardinality(RowsWith(n, r)) <= Cardinality(Answered(n, r))
  BY DEF NothingInvented
<1>1. RowsWith(n, r) = RowsIn(ledger, n, r)
  BY DEF RowsWith, RowsIn
<1>2. EndedWith(told[n], send[n], r) \subseteq Answered(n, r)
  <2> SUFFICES ASSUME NEW c \in Calls, told[n][c] # "none", Status(told[n][c]) = r PROVE c \in Answered(n, r)
    BY DEF EndedWith
  <2>1. told[n][c] \in Evidence \ {"none"}
    BY DEF TypeOK
  <2> QED BY <2>1 DEF Answered, Status, Evidence, Results
<1>3. IsFiniteSet(Answered(n, r))
  <2>1. MaxSegments + 2 \in Int /\ 1 \in Int
    BY SegmentAssumption
  <2>2. IsFiniteSet(Calls)
    BY <2>1, FS_Interval DEF Calls
  <2>3. Answered(n, r) \subseteq Calls
    BY DEF Answered
  <2> QED BY <2>2, <2>3, FS_Subset
<1>4. Cardinality(EndedWith(told[n], send[n], r)) <= Cardinality(Answered(n, r))
  BY <1>2, <1>3, FS_Subset
<1>5. Cardinality(RowsIn(ledger, n, r)) <= Cardinality(EndedWith(told[n], send[n], r))
  BY DEF TallyInv, Counted
<1>6. /\ Cardinality(RowsIn(ledger, n, r)) \in Nat
      /\ Cardinality(EndedWith(told[n], send[n], r)) \in Nat /\ Cardinality(Answered(n, r)) \in Nat
  BY <1>3, TallySetsFinite, FS_CardinalityType DEF TypeOK
<1> QED BY <1>1, <1>4, <1>5, <1>6

--------------------------------------------------------------------------------
(* The theorems. *)
LEMMA InitInv == Init => IInv
<1> SUFFICES ASSUME Init PROVE IInv
  OBVIOUS
<1>1. PICK atAll \in [Notifies -> BOOLEAN] :
        send = [n \in Notifies |-> [pc |-> "ready", stage |-> "segments", atAll |-> atAll[n],
                                    call |-> 1, again |-> FALSE, row |-> 0]]
  BY DEF Init
<1>2. /\ ledger = <<>> /\ DOMAIN ledger = {} /\ ledger \in Seq(Row) /\ lost = {}
      /\ active \in [Notifies -> Seq(Nat)] /\ \A n \in Notifies : active[n] = <<>> /\ Len(active[n]) = 0
                                                                  /\ DOMAIN active[n] = {}
  BY DEF Init
<1>3. 1 \in Calls /\ 1 <= MaxSegments /\ 1 <= MaxSegments + 1
  BY SegmentAssumption DEF Calls
<1>4. send \in [Notifies -> Send]
  BY <1>1, <1>3 DEF Send
<1>5. TypeOK
  BY <1>2, <1>4 DEF Init, TypeOK, Evidence, Command, Statuses, Results, Handler
<1>6. Fit
  BY <1>1, <1>2, <1>3 DEF Init, Fit, CallsFit, RowsFit, StagesFit, ReplaysDoNotQueue
<1>7. RetriesFollowFailures /\ SendingIsTracked /\ OneAtATime /\ Paired
  BY <1>2 DEF RetriesFollowFailures, SendingIsTracked, InSending, OneAtATime, Paired
<1>8. OneHandler /\ ReplaySendsOnce /\ HandlersKnow /\ StoredIsAReplays /\ StoredAnswerHolds
  BY DEF Init, OneHandler, Live, ReplaySendsOnce, HandlersKnow, Knows, StoredIsAReplays, StoredAnswerHolds
<1> QED BY <1>5, <1>6, <1>7, <1>8 DEF IInv

LEMMA StepInv == IInv /\ [Next]_vars => IInv'
<1> SUFFICES ASSUME IInv, [Next]_vars PROVE IInv'
  OBVIOUS
<1>1. TypeOK' /\ Fit'
  BY TypeStep, FitStep DEF IInv
<1>2. RetriesFollowFailures' /\ SendingIsTracked'
  BY RetryStep, TrackedStep DEF IInv
<1>3. OneAtATime' /\ Paired'
  BY PairedStep DEF IInv
<1>4. OneHandler' /\ ReplaySendsOnce' /\ HandlersKnow' /\ StoredIsAReplays' /\ StoredAnswerHolds'
  BY HandlerStep, KnowsStep, StoredStep DEF IInv
<1> QED BY <1>1, <1>2, <1>3, <1>4 DEF IInv

THEOREM LedgerInvariant == Spec => []IInv
  BY InitInv, StepInv, PTL DEF Spec

(* The shapes of the rows, the queues, the handlers and the stored command.        *)
THEOREM TypeCorrect == Spec => []TypeOK
<1>1. IInv => TypeOK
  BY DEF IInv
<1> QED BY <1>1, LedgerInvariant, PTL

(* As long as no call of a notification panicked, every row with a result has the  *)
(* result of its own call, whichever statements failed (the queue per route of the *)
(* delivery hook, admin/server.go).                                                *)
THEOREM ResultsArePaired == Spec => []Paired
<1>1. IInv => Paired
  BY DEF IInv
<1> QED BY <1>1, LedgerInvariant, PTL

(* A row in sending waits for a result, is a live replay's, or could not be        *)
(* written: nothing stays in sending unnoticed.                                    *)
THEOREM SendingRowsAreTracked == Spec => []SendingIsTracked
<1>1. IInv => SendingIsTracked
  BY DEF IInv
<1> QED BY <1>1, LedgerInvariant, PTL

(* A notification that is done, and of which no call panicked, leaves no id behind. *)
THEOREM NothingWaitsAfterwards == Spec => []NoneLeftWaiting
<1>1. IInv => NoneLeftWaiting
  BY DEF IInv, OneAtATime, NoneLeftWaiting
<1> QED BY <1>1, LedgerInvariant, PTL

(* The three together.                                                             *)
THEOREM ResultsAreFiled == Spec => []ResultsReachTheirRow
  BY ResultsArePaired, SendingRowsAreTracked, NothingWaitsAfterwards, PTL DEF ResultsReachTheirRow

(* A retry follows a row that is not_sent or rejected and stays it.                *)
THEOREM RetriesAreOfFailures == Spec => []RetriesFollowFailures
<1>1. IInv => RetriesFollowFailures
  BY DEF IInv
<1> QED BY <1>1, LedgerInvariant, PTL

(* Any number of requests with one key send at most once.                          *)
THEOREM OneSendPerKey == Spec => []ReplaySendsOnce
<1>1. IInv => ReplaySendsOnce
  BY DEF IInv
<1> QED BY <1>1, LedgerInvariant, PTL

(* Whatever is stored for a repeat of a replay is the lasting status of its row, a *)
(* refusal before anything was sent, a status from before an outcome the ledger    *)
(* does not know either, or an empty record of a delivery that has its result      *)
(* (replay/service.go 186-250): it never contradicts the ledger.                   *)
THEOREM StoredAnswersHold == Spec => []StoredAnswerHolds
<1>1. IInv => StoredAnswerHolds
  BY DEF IInv
<1> QED BY <1>1, LedgerInvariant, PTL

(* Both together.                                                                  *)
THEOREM ReplaysHappenOnce == Spec => []ReplayOnce
  BY OneSendPerKey, StoredAnswersHold, PTL DEF ReplayOnce

(* No actor and no restart gives a finished row another status.                    *)
THEOREM FinishedRowsStay == Spec => TerminalStays
<1>1. IInv /\ [Next]_vars =>
        [\A i \in DOMAIN ledger : ledger[i].status \in Terminal => ledger'[i].status = ledger[i].status]_vars
  BY StepsKeepTable DEF IInv, Kept
<1> QED BY <1>1, LedgerInvariant, PTL DEF Spec, TerminalStays

(* The ledger claims no outcome the Messenger did not provide: a notification has   *)
(* no more rows with a result than calls were answered so, whatever panicked, was   *)
(* lost or was restarted.                                                          *)
THEOREM NoResultIsInvented == Spec => []NothingInvented
<1>1. IInv /\ TallyInv /\ [Next]_vars => TallyInv'
  BY TallyStep DEF IInv
<1>2. IInv /\ TallyInv => NothingInvented
  BY TallyBounds DEF IInv
<1> QED BY <1>1, <1>2, TallyInit, LedgerInvariant, PTL DEF Spec
================================================================================
