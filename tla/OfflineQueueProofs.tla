--------------------------- MODULE OfflineQueueProofs ---------------------------
(* Theorems about the messenger's offline queue, for any messages, sizes, number *)
(* of callback goroutines and queue bound.                                       *)
EXTENDS OfflineQueue, SequenceTheorems, TLAPS

--------------------------------------------------------------------------------
(* Lines of entries. *)

(* The parts in an empty line, in a line with one more entry, in a line without   *)
(* its head.                                                                      *)
LEMMA EmptyLine == InLine(<<>>) = {} /\ Apart(<<>>) /\ <<>> \in Seq(Entries)
  BY DEF InLine, Apart

LEMMA OneEntry == ASSUME NEW e \in Entries
                  PROVE  <<e>> \in Seq(Entries) /\ InLine(<<e>>) = e /\ Apart(<<e>>) /\ <<e>> # <<>>
  BY DEF InLine, Apart

LEMMA LineAppend ==
  ASSUME NEW s \in Seq(Entries), NEW e \in Entries
  PROVE  /\ Append(s, e) \in Seq(Entries) /\ Append(s, e) # <<>>
         /\ Len(Append(s, e)) = Len(s) + 1
         /\ InLine(Append(s, e)) = InLine(s) \cup e
         /\ Apart(s) /\ InLine(s) \cap e = {} => Apart(Append(s, e))
<1> DEFINE t == Append(s, e)
<1>1. /\ t \in Seq(Entries) /\ t # <<>> /\ Len(t) = Len(s) + 1
      /\ DOMAIN t = 1..Len(s) + 1 /\ DOMAIN s = 1..Len(s)
      /\ \A i \in DOMAIN s : t[i] = s[i]
      /\ t[Len(s) + 1] = e /\ Len(s) \in Nat
  OBVIOUS
<1> HIDE DEF t
<1>2. InLine(t) = InLine(s) \cup e
  <2>1. ASSUME NEW p PROVE p \in InLine(t) <=> p \in InLine(s) \cup e
    <3>1. p \in InLine(t) <=> \E i \in DOMAIN t : p \in t[i]
      BY DEF InLine
    <3>2. p \in InLine(s) <=> \E i \in DOMAIN s : p \in s[i]
      BY DEF InLine
    <3>3. \A i : i \in DOMAIN t <=> i \in DOMAIN s \/ i = Len(s) + 1
      BY <1>1
    <3> QED BY <1>1, <3>1, <3>2, <3>3
  <2> QED BY <2>1
<1>3. ASSUME Apart(s), InLine(s) \cap e = {} PROVE Apart(t)
  <2>1. \A i \in DOMAIN s : s[i] \cap e = {}
    BY <1>3 DEF InLine
  <2>2. \A i : i \in DOMAIN t <=> i \in DOMAIN s \/ i = Len(s) + 1
    BY <1>1
  <2> QED BY <1>1, <1>3, <2>1, <2>2 DEF Apart
<1> QED BY <1>1, <1>2, <1>3 DEF t

LEMMA LineTail ==
  ASSUME NEW s \in Seq(Entries), s # <<>>
  PROVE  /\ Tail(s) \in Seq(Entries) /\ Head(s) \in Entries
         /\ Len(s) \in Nat \ {0} /\ Len(Tail(s)) = Len(s) - 1
         /\ Len(s) = 1 <=> Tail(s) = <<>>
         /\ InLine(s) = Head(s) \cup InLine(Tail(s))
         /\ Apart(s) => Apart(Tail(s)) /\ Head(s) \cap InLine(Tail(s)) = {}
<1> DEFINE t == Tail(s)
<1>1. /\ t \in Seq(Entries) /\ Head(s) \in Entries /\ Len(s) \in Nat \ {0} /\ Len(t) = Len(s) - 1
      /\ DOMAIN s = 1..Len(s) /\ DOMAIN t = 1..Len(s) - 1
      /\ Head(s) = s[1]
      /\ \A i \in DOMAIN t : t[i] = s[i + 1]
  OBVIOUS
<1>2. Len(s) = 1 <=> t = <<>>
  <2>1. Len(t) = 0 <=> t = <<>>
    BY <1>1, EmptySeq
  <2>2. Len(t) = Len(s) - 1 /\ Len(s) \in Nat
    BY <1>1
  <2> HIDE DEF t
  <2> QED BY <2>1, <2>2
<1> HIDE DEF t
<1>3. \A i \in DOMAIN s : i = 1 \/ (i - 1 \in DOMAIN t /\ s[i] = t[i - 1])
  BY <1>1
<1>4. \A i \in DOMAIN t : i + 1 \in DOMAIN s /\ t[i] = s[i + 1] /\ i + 1 # 1
  BY <1>1
<1>5. 1 \in DOMAIN s
  BY <1>1
<1>6. InLine(s) = Head(s) \cup InLine(t)
  <2>1. ASSUME NEW p PROVE p \in InLine(s) <=> p \in Head(s) \cup InLine(t)
    <3>1. p \in InLine(t) <=> \E i \in DOMAIN t : p \in t[i]
      BY DEF InLine
    <3>2. p \in InLine(s) <=> \E i \in DOMAIN s : p \in s[i]
      BY DEF InLine
    <3> QED BY <1>1, <1>3, <1>4, <1>5, <3>1, <3>2
  <2> QED BY <2>1
<1>7. ASSUME Apart(s) PROVE Apart(t) /\ Head(s) \cap InLine(t) = {}
  <2>1. Apart(t)
    <3>1. SUFFICES ASSUME NEW i \in DOMAIN t, NEW j \in DOMAIN t, i # j PROVE t[i] \cap t[j] = {}
      BY DEF Apart
    <3>2. i \in Int /\ j \in Int
      BY <1>1
    <3> QED BY <1>4, <1>7, <3>1, <3>2 DEF Apart
  <2>2. \A i \in DOMAIN t : Head(s) \cap t[i] = {}
    BY <1>1, <1>4, <1>5, <1>7 DEF Apart
  <2> QED BY <2>1, <2>2 DEF InLine
<1> QED BY <1>1, <1>2, <1>6, <1>7 DEF t

LEMMA ChunksLine ==
  ASSUME NEW m \in Messages
  PROVE  /\ Chunks(m) \in Seq(Entries) /\ Chunks(m) # <<>>
         /\ InLine(Chunks(m)) = Whole(m) /\ Apart(Chunks(m))
<1>1. Size[m] \in Nat \ {0}
  BY SizeAssumption
<1>2. \A i \in 1..Size[m] : Chunks(m)[i] = {<<m, i>>} /\ {<<m, i>>} \in Entries
  BY DEF Chunks, Entries, Parts
<1>3. DOMAIN Chunks(m) = 1..Size[m]
  BY DEF Chunks
<1>4. Chunks(m) \in [1..Size[m] -> Entries]
  BY <1>2 DEF Chunks
<1>5. Chunks(m) \in Seq(Entries) /\ Len(Chunks(m)) = Size[m]
  BY <1>1, <1>4
<1>6. Chunks(m) # <<>>
  BY <1>1, <1>5, EmptySeq
<1>7. InLine(Chunks(m)) = Whole(m)
  <2>1. ASSUME NEW p PROVE p \in InLine(Chunks(m)) <=> p \in Whole(m)
    <3>1. p \in InLine(Chunks(m)) <=> \E i \in 1..Size[m] : p = <<m, i>>
      BY <1>2, <1>3 DEF InLine
    <3> QED BY <3>1 DEF Whole
  <2> QED BY <2>1
<1>8. Apart(Chunks(m))
  <2>1. SUFFICES ASSUME NEW i \in 1..Size[m], NEW j \in 1..Size[m], i # j
                 PROVE  Chunks(m)[i] \cap Chunks(m)[j] = {}
    BY <1>3 DEF Apart
  <2>2. Chunks(m)[i] = {<<m, i>>} /\ Chunks(m)[j] = {<<m, j>>} /\ <<m, i>> # <<m, j>>
    BY <1>2, <2>1
  <2> QED BY <2>2
<1> QED BY <1>5, <1>6, <1>7, <1>8

LEMMA Wholes ==
  /\ \A m \in Messages : Whole(m) \in Entries
  /\ \A p \in Parts : \E m \in Messages : p \in Whole(m)
  /\ \A m, n \in Messages : m # n => Whole(m) \cap Whole(n) = {}
  /\ \A m \in Messages : \E p \in Whole(m) : TRUE
<1>1. \A m \in Messages : Whole(m) \in SUBSET Parts
  BY DEF Whole, Parts
<1>2. \A p \in Parts : \E m \in Messages : p \in Whole(m)
  BY DEF Whole, Parts
<1>3. \A m, n \in Messages : m # n => Whole(m) \cap Whole(n) = {}
  BY DEF Whole
<1>4. ASSUME NEW m \in Messages PROVE \E p \in Whole(m) : TRUE
  <2>1. Size[m] \in Nat \ {0}
    BY SizeAssumption
  <2>2. <<m, 1>> \in Whole(m)
    BY <2>1 DEF Whole
  <2> QED BY <2>2
<1> QED BY <1>1, <1>2, <1>3, <1>4 DEF Entries

--------------------------------------------------------------------------------
(* The inductive invariant. *)

(* Who has entries to deal with. *)
LinesInv == /\ \A m \in Messages : callers[m].todo # <<>> <=> callers[m].pc \in {"send", "save"}
            /\ \A w \in Callbacks : callbacks[w].pc # "resend" => callbacks[w].batch = <<>>

(* Nothing has happened to a message before its call. *)
Untouched == \A m \in Messages : callers[m].pc = "idle" =>
               \A p \in Whole(m) : /\ fate[p] = "open" /\ p \notin Parked
                                    /\ \A w \in Callbacks : p \notin Taken(w)

(* A direct send has sent the chunks it no longer holds. *)
Sending == \A m \in Messages : callers[m].pc = "send" =>
             \A p \in Whole(m) : p \in ToDo(m) \/ fate[p] = "sent"

DataInv == /\ TypeOK /\ LinesInv /\ NothingLost /\ NothingTwice /\ WrittenOnce /\ FinalAnswers
           /\ Untouched /\ Sending

LEMMA InitData == Init => DataInv
<1> SUFFICES ASSUME Init PROVE DataInv
  OBVIOUS
<1> USE EmptyLine DEF Init
<1>1. TypeOK
  <2>1. <<>> \in Seq(Entries) /\ Len(<<>>) = 0 /\ 0 <= QueueMax
    BY QueueMaxAssumption
  <2> QED BY <2>1 DEF TypeOK, Caller, Callback, Gone, Fates
<1>2. Parked = {} /\ (\A m \in Messages : ToDo(m) = {}) /\ \A w \in Callbacks : Taken(w) = {}
  BY DEF Parked, ToDo, Taken, Gone
<1>3. \A m \in Messages : \A p \in Whole(m) : p \in Parts
  BY Wholes DEF Entries
<1>4. LinesInv /\ Untouched /\ Sending
  BY <1>2, <1>3 DEF LinesInv, Untouched, Sending, Gone
<1>5. NothingLost /\ NothingTwice /\ WrittenOnce /\ FinalAnswers
  BY <1>2, <1>3 DEF NothingLost, NothingTwice, WrittenOnce, FinalAnswers, Gone
<1> QED BY <1>1, <1>4, <1>5 DEF DataInv

(* Steps that move no entry and settle nothing. *)
LEMMA QuietStep ==
  ASSUME DataInv, TypeOK', UNCHANGED <<queue, callers, fate, written>>,
         \A w \in Callbacks : callbacks'[w].batch = callbacks[w].batch,
         \A w \in Callbacks : callbacks'[w].pc # "resend" => callbacks'[w].batch = <<>>
  PROVE  DataInv'
<1>1. /\ Parked' = Parked /\ \A m \in Messages : ToDo(m)' = ToDo(m)
      /\ \A w \in Callbacks : Taken(w)' = Taken(w)
  BY DEF Parked, ToDo, Taken
<1>2. LinesInv' /\ Untouched' /\ Sending'
  BY <1>1 DEF DataInv, LinesInv, Untouched, Sending
<1>3. NothingLost' /\ NothingTwice'
  BY <1>1 DEF DataInv, NothingLost, NothingTwice
<1>4. WrittenOnce' /\ FinalAnswers'
  BY DEF DataInv, WrittenOnce, FinalAnswers
<1> QED BY <1>2, <1>3, <1>4 DEF DataInv

--------------------------------------------------------------------------------
(* What the helpers of the actions do. *)
CallerPcs   == {"idle", "send", "save", "arm"} \cup Answers
CallbackPcs == {"idle", "fired", "wait", "flush", "resend", "stay up", "come up"}

LEMMA AtFacts ==
  ASSUME TypeOK, NEW m \in Messages, NEW to \in CallerPcs, NEW entries \in Seq(Entries),
         At(m, to, entries)
  PROVE  /\ callers' \in [Messages -> Caller]
         /\ callers'[m].pc = to /\ callers'[m].todo = entries
         /\ \A n \in Messages : n # m => callers'[n] = callers[n]
         /\ ToDo(m)' = InLine(entries)
         /\ \A n \in Messages : n # m => ToDo(n)' = ToDo(n)
<1>1. callers \in [Messages -> Caller]
  BY DEF TypeOK
<1>2. [pc |-> to, todo |-> entries] \in Caller
  BY DEF Caller, CallerPcs
<1>3. /\ callers' \in [Messages -> Caller]
      /\ callers'[m] = [pc |-> to, todo |-> entries]
      /\ \A n \in Messages : n # m => callers'[n] = callers[n]
  BY <1>1, <1>2 DEF At
<1> QED BY <1>3 DEF ToDo

LEMMA GoesFacts ==
  ASSUME TypeOK, NEW w \in Callbacks, NEW to \in CallbackPcs, NEW entries \in Seq(Entries),
         NEW failed \in BOOLEAN, Goes(w, to, entries, failed)
  PROVE  /\ callbacks' \in [Callbacks -> Callback]
         /\ callbacks'[w].pc = to /\ callbacks'[w].batch = entries /\ callbacks'[w].failed = failed
         /\ \A v \in Callbacks : v # w => callbacks'[v] = callbacks[v]
         /\ Taken(w)' = InLine(entries)
         /\ \A v \in Callbacks : v # w => Taken(v)' = Taken(v)
<1>1. callbacks \in [Callbacks -> Callback]
  BY DEF TypeOK
<1>2. [pc |-> to, batch |-> entries, failed |-> failed] \in Callback
  BY DEF Callback, CallbackPcs
<1>3. /\ callbacks' \in [Callbacks -> Callback]
      /\ callbacks'[w] = [pc |-> to, batch |-> entries, failed |-> failed]
      /\ \A v \in Callbacks : v # w => callbacks'[v] = callbacks[v]
  BY <1>1, <1>2 DEF Goes
<1> QED BY <1>3 DEF Taken

(* The entry a full queue loses when another one is pushed. *)
Dropped == IF Len(queue) >= QueueMax THEN Head(queue) ELSE {}

LEMMA PushFacts ==
  ASSUME TypeOK, Apart(queue), NEW e \in Entries, e \cap Parked = {}, Push(e)
  PROVE  /\ queue' \in Seq(Entries) /\ Len(queue') <= QueueMax /\ queue' # <<>>
         /\ Apart(queue')
         /\ Dropped \subseteq Parked
         /\ Parked' = (Parked \ Dropped) \cup e
         /\ fate' \in [Parts -> Fates]
         /\ \A p \in Parts : fate'[p] = IF p \in Dropped THEN "evicted" ELSE fate[p]
<1>1. queue \in Seq(Entries) /\ Len(queue) \in Nat /\ Len(queue) <= QueueMax /\ fate \in [Parts -> Fates]
      /\ QueueMax \in Nat \ {0}
  BY QueueMaxAssumption DEF TypeOK
<1>2. CASE Len(queue) >= QueueMax
  <2>1. queue # <<>>
    BY <1>1, <1>2, EmptySeq
  <2>2. /\ Tail(queue) \in Seq(Entries) /\ Len(Tail(queue)) = Len(queue) - 1
        /\ Parked = Head(queue) \cup InLine(Tail(queue))
        /\ Apart(Tail(queue)) /\ Head(queue) \cap InLine(Tail(queue)) = {}
    BY <1>1, <2>1, LineTail DEF Parked
  <2>3. queue' = Append(Tail(queue), e) /\ fate' = Settle(fate, Head(queue), "evicted") /\ Dropped = Head(queue)
    BY <1>2 DEF Push, Dropped
  <2>4. /\ queue' \in Seq(Entries) /\ queue' # <<>> /\ Len(queue') = Len(queue)
        /\ InLine(queue') = InLine(Tail(queue)) \cup e /\ Apart(queue')
    <3>1. InLine(Tail(queue)) \cap e = {}
      BY <2>2
    <3>2. /\ queue' \in Seq(Entries) /\ queue' # <<>> /\ Len(queue') = Len(Tail(queue)) + 1
          /\ InLine(queue') = InLine(Tail(queue)) \cup e /\ Apart(queue')
      BY <2>2, <2>3, <3>1, LineAppend
    <3> QED BY <1>1, <2>2, <3>2
  <2> QED BY <1>1, <2>2, <2>3, <2>4 DEF Parked, Settle, Fates
<1>3. CASE ~(Len(queue) >= QueueMax)
  <2>1. queue' = Append(queue, e) /\ fate' = fate /\ Dropped = {}
    BY <1>3 DEF Push, Dropped
  <2>2. /\ queue' \in Seq(Entries) /\ queue' # <<>> /\ Len(queue') = Len(queue) + 1
        /\ InLine(queue') = InLine(queue) \cup e /\ Apart(queue')
    BY <1>1, <2>1, LineAppend DEF Parked
  <2> QED BY <1>1, <1>3, <2>1, <2>2 DEF Parked
<1> QED BY <1>2, <1>3

LEMMA InParts ==
  ASSUME TypeOK
  PROVE  /\ Parked \subseteq Parts
         /\ \A m \in Messages : ToDo(m) \subseteq Parts /\ Whole(m) \subseteq Parts
         /\ \A w \in Callbacks : Taken(w) \subseteq Parts
<1>1. ASSUME NEW s \in Seq(Entries) PROVE InLine(s) \subseteq Parts
  BY DEF InLine, Entries
<1>2. /\ queue \in Seq(Entries)
      /\ \A m \in Messages : callers[m].todo \in Seq(Entries)
      /\ \A w \in Callbacks : callbacks[w].batch \in Seq(Entries)
  BY DEF TypeOK, Caller, Callback
<1> QED BY <1>1, <1>2, Wholes DEF Parked, ToDo, Taken, Entries

(* The entry at the head of what a caller, or a flush, has to deal with. *)
LEMMA ToDoHead ==
  ASSUME TypeOK, NothingTwice, NEW m \in Messages, callers[m].todo # <<>>
  PROVE  LET e == Head(callers[m].todo)
             t == Tail(callers[m].todo)
         IN  /\ e \in Entries /\ t \in Seq(Entries) /\ Apart(t)
             /\ ToDo(m) = e \cup InLine(t) /\ e \cap InLine(t) = {}
             /\ Len(callers[m].todo) = 1 <=> t = <<>>
  BY LineTail DEF TypeOK, Caller, NothingTwice, ToDo

LEMMA BatchHead ==
  ASSUME TypeOK, NothingTwice, NEW w \in Callbacks, callbacks[w].batch # <<>>
  PROVE  LET e == Head(callbacks[w].batch)
             t == Tail(callbacks[w].batch)
         IN  /\ e \in Entries /\ t \in Seq(Entries) /\ Apart(t)
             /\ Taken(w) = e \cup InLine(t) /\ e \cap InLine(t) = {}
  BY LineTail DEF TypeOK, Callback, NothingTwice, Taken

LEMMA SettleFacts ==
  ASSUME NEW f \in [Parts -> Fates], NEW ps, NEW how \in Fates
  PROVE  /\ Settle(f, ps, how) \in [Parts -> Fates]
         /\ \A p \in Parts : Settle(f, ps, how)[p] = IF p \in ps THEN how ELSE f[p]
  BY DEF Settle

LEMMA DeliverFacts ==
  ASSUME TypeOK, NEW e, NEW outcome, Deliver(e, outcome)
  PROVE  /\ written' \in [Parts -> Nat]
         /\ \A p \in Parts : written'[p] = IF p \in e /\ outcome # "not_sent" THEN written[p] + 1
                                            ELSE written[p]
  BY DEF TypeOK, Deliver

--------------------------------------------------------------------------------
(* The steps that move entries. *)
LEMMA CheckKeeps == ASSUME DataInv, NEW m \in Messages, Check(m) PROVE DataInv'
<1> USE DEF DataInv
<1>1. PICK to \in {"send", "save"}, line \in Seq(Entries) :
        /\ At(m, to, line) /\ line # <<>> /\ Apart(line) /\ InLine(line) = Whole(m)
  <2>1. CASE Connected
    BY <2>1, ChunksLine DEF Check
  <2>2. CASE ~Connected
    BY <2>2, OneEntry, Wholes DEF Check
  <2> QED BY <2>1, <2>2
<1>2. /\ callers' \in [Messages -> Caller]
      /\ callers'[m].pc = to /\ callers'[m].todo = line
      /\ \A n \in Messages : n # m => callers'[n] = callers[n]
      /\ ToDo(m)' = Whole(m)
      /\ \A n \in Messages : n # m => ToDo(n)' = ToDo(n)
  BY <1>1, AtFacts DEF CallerPcs
<1>3. /\ callers[m].pc = "idle"
      /\ UNCHANGED <<link, online, stopped, queue, timer, callbacks, fate, written>>
  BY DEF Check
<1>4. Parked' = Parked /\ \A w \in Callbacks : Taken(w)' = Taken(w)
  BY <1>3 DEF Parked, Taken
<1>5. TypeOK'
  BY <1>2, <1>3 DEF TypeOK
<1>6. LinesInv' /\ Untouched' /\ Sending'
  BY <1>1, <1>2, <1>3, <1>4 DEF LinesInv, Untouched, Sending
<1>7. NothingLost'
  BY <1>2, <1>3, <1>4 DEF NothingLost
<1>8. NothingTwice'
  BY <1>1, <1>2, <1>3, <1>4 DEF NothingTwice, Untouched
<1>9. WrittenOnce' /\ FinalAnswers'
  BY <1>1, <1>2, <1>3 DEF WrittenOnce, FinalAnswers
<1> QED BY <1>5, <1>6, <1>7, <1>8, <1>9

LEMMA ArmKeeps == ASSUME DataInv, NEW m \in Messages, Arm(m) PROVE DataInv'
<1> USE DEF DataInv
<1>1. /\ callers[m].pc = "arm" /\ At(m, "queued", <<>>) /\ timer' = TRUE
      /\ UNCHANGED <<link, online, stopped, queue, callbacks, fate, written>>
  BY DEF Arm
<1>2. /\ callers' \in [Messages -> Caller]
      /\ callers'[m].pc = "queued" /\ callers'[m].todo = <<>>
      /\ \A n \in Messages : n # m => callers'[n] = callers[n]
      /\ ToDo(m)' = {}
      /\ \A n \in Messages : n # m => ToDo(n)' = ToDo(n)
  BY <1>1, AtFacts, EmptyLine DEF CallerPcs, Answers
<1>3. ToDo(m) = {}
  BY <1>1, EmptyLine DEF LinesInv, ToDo
<1>4. Parked' = Parked /\ \A w \in Callbacks : Taken(w)' = Taken(w)
  BY <1>1 DEF Parked, Taken
<1>5. TypeOK'
  BY <1>1, <1>2 DEF TypeOK
<1>6. LinesInv' /\ Untouched' /\ Sending'
  BY <1>1, <1>2, <1>4 DEF LinesInv, Untouched, Sending
<1>7. NothingLost'
  BY <1>1, <1>2, <1>3, <1>4 DEF NothingLost
<1>8. NothingTwice'
  BY <1>1, <1>2, <1>4, EmptyLine DEF NothingTwice
<1>9. WrittenOnce' /\ FinalAnswers'
  BY <1>1, <1>2 DEF WrittenOnce, FinalAnswers
<1> QED BY <1>5, <1>6, <1>7, <1>8, <1>9

LEMMA SaveKeeps == ASSUME DataInv, NEW m \in Messages, Save(m) PROVE DataInv'
<1> USE DEF DataInv
<1> DEFINE e == Head(callers[m].todo)
           t == Tail(callers[m].todo)
<1>1. /\ callers[m].pc = "save" /\ Push(e)
      /\ At(m, IF Len(callers[m].todo) = 1 THEN "arm" ELSE "save", t)
      /\ UNCHANGED <<link, online, stopped, timer, callbacks, written>>
  BY DEF Save
<1>2. callers[m].todo # <<>>
  BY <1>1 DEF LinesInv
<1>3. /\ e \in Entries /\ t \in Seq(Entries) /\ Apart(t)
      /\ ToDo(m) = e \cup InLine(t) /\ e \cap InLine(t) = {}
      /\ Len(callers[m].todo) = 1 <=> t = <<>>
  BY <1>2, ToDoHead
<1> HIDE DEF e, t
<1>4. PICK to \in {"arm", "save"} : At(m, to, t) /\ (to = "arm" <=> t = <<>>)
  BY <1>1, <1>3
<1>5. /\ callers' \in [Messages -> Caller]
      /\ callers'[m].pc = to /\ callers'[m].todo = t
      /\ \A n \in Messages : n # m => callers'[n] = callers[n]
      /\ ToDo(m)' = InLine(t)
      /\ \A n \in Messages : n # m => ToDo(n)' = ToDo(n)
  BY <1>3, <1>4, AtFacts DEF CallerPcs
<1>6. e \cap Parked = {}
  BY <1>3 DEF NothingTwice
<1>7. /\ queue' \in Seq(Entries) /\ Len(queue') <= QueueMax
      /\ Apart(queue')
      /\ Dropped \subseteq Parked
      /\ Parked' = (Parked \ Dropped) \cup e
      /\ fate' \in [Parts -> Fates]
      /\ \A p \in Parts : fate'[p] = IF p \in Dropped THEN "evicted" ELSE fate[p]
  BY <1>1, <1>3, <1>6, PushFacts DEF NothingTwice
<1>8. \A w \in Callbacks : Taken(w)' = Taken(w)
  BY <1>1 DEF Taken
<1>9. e \subseteq Whole(m) /\ \A n \in Messages : Whole(n) \subseteq Parts
  BY <1>3, Wholes DEF NothingTwice, Entries
<1>10. TypeOK'
  BY <1>1, <1>5, <1>7 DEF TypeOK
<1>11. LinesInv' /\ Sending'
  BY <1>1, <1>4, <1>5, <1>7, <1>8, <1>9 DEF LinesInv, Sending, NothingTwice
<1>12. Untouched'
  BY <1>1, <1>5, <1>7, <1>8, <1>9, Wholes DEF Untouched
<1>13. NothingLost'
  BY <1>1, <1>3, <1>5, <1>7, <1>8, <1>9 DEF NothingLost
<1>14. NothingTwice'
  <2>1. /\ Apart(queue') /\ \A n \in Messages : Apart(callers'[n].todo)
        /\ \A w \in Callbacks : Apart(callbacks'[w].batch)
    BY <1>1, <1>3, <1>5, <1>7 DEF NothingTwice
  <2>2. \A p \in Parked' : fate'[p] = "open"
    BY <1>3, <1>7, InParts DEF NothingTwice
  <2>3. \A n \in Messages : \A p \in ToDo(n)' : /\ p \in ToDo(n) /\ p \notin e
    BY <1>3, <1>5, <1>9, Wholes DEF NothingTwice
  <2>4. \A n \in Messages : \A p \in ToDo(n)' :
           p \in Whole(n) /\ fate'[p] = "open" /\ p \notin Parked' /\ \A w \in Callbacks : p \notin Taken(w)'
    BY <1>7, <1>8, <1>9, <2>3 DEF NothingTwice
  <2>5. \A w \in Callbacks : \A p \in Taken(w)' :
           fate'[p] = "open" /\ p \notin Parked' /\ \A v \in Callbacks : v # w => p \notin Taken(v)'
    BY <1>3, <1>7, <1>8, InParts DEF NothingTwice
  <2> QED BY <2>1, <2>2, <2>4, <2>5 DEF NothingTwice
<1>15. WrittenOnce'
  BY <1>1, <1>7 DEF WrittenOnce, NothingTwice
<1>16. FinalAnswers'
  BY <1>1, <1>5, <1>7, <1>9 DEF FinalAnswers, NothingTwice
<1> QED BY <1>10, <1>11, <1>12, <1>13, <1>14, <1>15, <1>16


LEMMA SendKeeps == ASSUME DataInv, NEW m \in Messages, SendChunk(m) PROVE DataInv'
<1> USE DEF DataInv
<1> DEFINE e == Head(callers[m].todo)
           t == Tail(callers[m].todo)
<1>1. callers[m].pc = "send" /\ UNCHANGED <<link, online, stopped, queue, timer, callbacks>>
  BY DEF SendChunk
<1>2. callers[m].todo # <<>>
  BY <1>1 DEF LinesInv
<1>3. /\ e \in Entries /\ t \in Seq(Entries) /\ Apart(t)
      /\ ToDo(m) = e \cup InLine(t) /\ e \cap InLine(t) = {}
      /\ Len(callers[m].todo) = 1 <=> t = <<>>
  BY <1>2, ToDoHead
<1>4. PICK outcome \in Outcomes :
        /\ Deliver(e, outcome)
        /\ CASE outcome = "sent" ->
                  /\ At(m, IF Len(callers[m].todo) = 1 THEN "sent" ELSE "send", t)
                  /\ fate' = Settle(fate, e, "sent")
             [] outcome \in {"unknown", "rejected"} ->
                  /\ At(m, outcome, <<>>)
                  /\ fate' = Settle(Settle(fate, InLine(callers[m].todo), "abandoned"), e, outcome)
             [] outcome = "not_sent" ->
                  At(m, "save", callers[m].todo) /\ UNCHANGED fate
  BY DEF SendChunk
<1> HIDE DEF e, t
<1>5. outcome \in {"sent", "unknown", "rejected", "not_sent"}
  BY DEF Outcomes
<1>6. /\ written' \in [Parts -> Nat]
      /\ \A p \in Parts : written'[p] = IF p \in e /\ outcome # "not_sent" THEN written[p] + 1
                                         ELSE written[p]
  BY <1>4, DeliverFacts
<1>7. Parked' = Parked /\ \A w \in Callbacks : Taken(w)' = Taken(w)
  BY <1>1 DEF Parked, Taken
<1>8. /\ e \subseteq Whole(m) /\ ToDo(m) \subseteq Whole(m)
      /\ \A n \in Messages : Whole(n) \subseteq Parts
      /\ \A n \in Messages : n # m => Whole(m) \cap Whole(n) = {}
      /\ fate \in [Parts -> Fates]
  BY <1>3, InParts, Wholes DEF NothingTwice, TypeOK
<1>9. CASE outcome = "sent"
  <2>1. PICK to \in {"sent", "send"} : At(m, to, t) /\ (to = "sent" <=> t = <<>>)
    BY <1>3, <1>4, <1>9
  <2>2. /\ callers' \in [Messages -> Caller]
        /\ callers'[m].pc = to /\ callers'[m].todo = t
        /\ \A n \in Messages : n # m => callers'[n] = callers[n]
        /\ ToDo(m)' = InLine(t)
        /\ \A n \in Messages : n # m => ToDo(n)' = ToDo(n)
    BY <1>3, <2>1, AtFacts DEF CallerPcs, Answers
  <2>3. /\ fate' \in [Parts -> Fates]
        /\ \A p \in Parts : fate'[p] = IF p \in e THEN "sent" ELSE fate[p]
    BY <1>4, <1>8, <1>9, SettleFacts DEF Fates
  <2>4. TypeOK'
    BY <1>1, <1>6, <2>2, <2>3 DEF TypeOK
  <2>5. LinesInv' /\ Untouched'
    BY <1>1, <1>7, <1>8, <2>1, <2>2, <2>3 DEF LinesInv, Untouched
  <2>6. Sending'
    BY <1>1, <1>3, <1>8, <2>1, <2>2, <2>3 DEF Sending
  <2>7. NothingLost'
    BY <1>1, <1>3, <1>7, <1>8, <2>2, <2>3 DEF NothingLost
  <2>8. NothingTwice'
    BY <1>1, <1>3, <1>7, <1>8, <2>2, <2>3, InParts DEF NothingTwice
  <2>9. WrittenOnce'
    BY <1>3, <1>6, <1>8, <1>9, <2>3 DEF WrittenOnce, NothingTwice, TypeOK
  <2>10. FinalAnswers'
    <3>1. t = <<>> => InLine(t) = {}
      BY EmptyLine
    <3>2. to = "sent" => \A p \in Whole(m) : fate'[p] = "sent"
      BY <1>1, <1>3, <1>8, <2>1, <2>3, <3>1 DEF Sending
    <3> QED BY <1>8, <2>2, <2>3, <3>2 DEF FinalAnswers
  <2> QED BY <2>4, <2>5, <2>6, <2>7, <2>8, <2>9, <2>10
<1>10. CASE outcome \in {"unknown", "rejected"}
  <2>1. At(m, outcome, <<>>) /\ fate' = Settle(Settle(fate, ToDo(m), "abandoned"), e, outcome)
    BY <1>4, <1>10 DEF ToDo
  <2>2. /\ callers' \in [Messages -> Caller]
        /\ callers'[m].pc = outcome /\ callers'[m].todo = <<>>
        /\ \A n \in Messages : n # m => callers'[n] = callers[n]
        /\ ToDo(m)' = {}
        /\ \A n \in Messages : n # m => ToDo(n)' = ToDo(n)
    BY <1>10, <2>1, AtFacts, EmptyLine DEF CallerPcs, Answers
  <2>3. /\ fate' \in [Parts -> Fates]
        /\ \A p \in Parts : fate'[p] = IF p \in e THEN outcome
                                        ELSE IF p \in ToDo(m) THEN "abandoned" ELSE fate[p]
    <3>1. /\ Settle(fate, ToDo(m), "abandoned") \in [Parts -> Fates]
          /\ \A p \in Parts : Settle(fate, ToDo(m), "abandoned")[p]
                                 = IF p \in ToDo(m) THEN "abandoned" ELSE fate[p]
      BY <1>8, SettleFacts DEF Fates
    <3>2. outcome \in Fates
      BY <1>10 DEF Fates
    <3> QED BY <2>1, <3>1, <3>2, SettleFacts
  <2>4. TypeOK'
    BY <1>1, <1>6, <2>2, <2>3 DEF TypeOK
  <2>5. LinesInv' /\ Untouched' /\ Sending'
    BY <1>1, <1>7, <1>8, <1>10, <2>2, <2>3 DEF LinesInv, Untouched, Sending
  <2>6. NothingLost'
    <3>1. \A p \in Whole(m) : fate'[p] = "open" => fate[p] = "open" /\ p \notin ToDo(m)
      BY <1>3, <1>8, <1>10, <2>3
    <3>2. \A n \in Messages : n # m => \A p \in Whole(n) : fate'[p] = fate[p]
      BY <1>8, <2>3
    <3> QED BY <1>1, <1>7, <2>2, <3>1, <3>2 DEF NothingLost
  <2>7. NothingTwice'
    BY <1>1, <1>3, <1>7, <1>8, <2>2, <2>3, InParts, EmptyLine DEF NothingTwice
  <2>8. WrittenOnce'
    BY <1>3, <1>6, <1>8, <1>10, <2>3 DEF WrittenOnce, NothingTwice, TypeOK
  <2>9. FinalAnswers'
    <3>1. \E p \in e : TRUE
      BY <1>3 DEF Entries
    <3>2. /\ \E p \in Whole(m) : fate'[p] = outcome
          /\ \A p \in Whole(m) : fate'[p] # "open"
      BY <1>1, <1>8, <1>10, <2>3, <3>1 DEF Sending
    <3> QED BY <1>8, <1>10, <2>2, <2>3, <3>2 DEF FinalAnswers
  <2> QED BY <2>4, <2>5, <2>6, <2>7, <2>8, <2>9
<1>11. CASE outcome = "not_sent"
  <2>1. At(m, "save", callers[m].todo) /\ fate' = fate
    BY <1>4, <1>11
  <2>2. /\ callers' \in [Messages -> Caller]
        /\ callers'[m].pc = "save" /\ callers'[m].todo = callers[m].todo
        /\ \A n \in Messages : n # m => callers'[n] = callers[n]
        /\ \A n \in Messages : ToDo(n)' = ToDo(n)
    BY <2>1, AtFacts DEF CallerPcs, TypeOK, Caller, ToDo
  <2>3. written' = written
    BY <1>4, <1>11 DEF Deliver
  <2>4. TypeOK' /\ LinesInv' /\ Untouched' /\ Sending'
    BY <1>1, <1>2, <1>7, <2>1, <2>2, <2>3 DEF TypeOK, LinesInv, Untouched, Sending
  <2>5. NothingLost' /\ NothingTwice'
    BY <1>1, <1>7, <2>1, <2>2 DEF NothingLost, NothingTwice
  <2>6. WrittenOnce' /\ FinalAnswers'
    BY <2>1, <2>2, <2>3 DEF WrittenOnce, FinalAnswers
  <2> QED BY <2>4, <2>5, <2>6
<1> QED BY <1>5, <1>9, <1>10, <1>11

LEMMA FlushKeeps == ASSUME DataInv, NEW w \in Callbacks, Flush(w) PROVE DataInv'
<1> USE DEF DataInv
<1>1. /\ callbacks[w].pc = "flush" /\ callbacks[w].batch = <<>>
      /\ UNCHANGED <<link, online, stopped, timer, callers, fate, written>>
  BY DEF Flush, LinesInv
<1>2. CASE Connected /\ queue # <<>>
  <2>1. Goes(w, "resend", queue, FALSE) /\ queue' = <<>> /\ queue \in Seq(Entries)
    BY <1>2 DEF Flush, TypeOK
  <2>2. /\ callbacks' \in [Callbacks -> Callback]
        /\ callbacks'[w].pc = "resend" /\ callbacks'[w].batch = queue
        /\ \A v \in Callbacks : v # w => callbacks'[v] = callbacks[v]
        /\ Taken(w)' = Parked
        /\ \A v \in Callbacks : v # w => Taken(v)' = Taken(v)
    BY <2>1, GoesFacts DEF CallbackPcs, Parked
  <2>3. Parked' = {} /\ Taken(w) = {} /\ \A m \in Messages : ToDo(m)' = ToDo(m)
    BY <1>1, <2>1, EmptyLine DEF Parked, Taken, ToDo
  <2>4. TypeOK'
    <3>1. <<>> \in Seq(Entries) /\ Len(<<>>) = 0 /\ 0 <= QueueMax
      BY QueueMaxAssumption
    <3> QED BY <1>1, <2>1, <2>2, <3>1 DEF TypeOK
  <2>5. LinesInv' /\ Untouched' /\ Sending'
    BY <1>1, <2>2, <2>3 DEF LinesInv, Untouched, Sending
  <2>6. NothingLost'
    BY <1>1, <2>2, <2>3 DEF NothingLost
  <2>7. NothingTwice'
    BY <1>1, <2>1, <2>2, <2>3, EmptyLine DEF NothingTwice
  <2>8. WrittenOnce' /\ FinalAnswers'
    BY <1>1 DEF WrittenOnce, FinalAnswers
  <2> QED BY <2>4, <2>5, <2>6, <2>7, <2>8
<1>3. CASE ~(Connected /\ queue # <<>>)
  <2>1. Goes(w, "idle", <<>>, FALSE) /\ queue' = queue
    BY <1>3 DEF Flush
  <2>2. /\ callbacks' \in [Callbacks -> Callback] /\ callbacks'[w].batch = <<>>
        /\ \A v \in Callbacks : v # w => callbacks'[v] = callbacks[v]
    BY <2>1, GoesFacts, EmptyLine DEF CallbackPcs
  <2>3. TypeOK'
    BY <1>1, <2>1, <2>2 DEF TypeOK
  <2> QED BY <1>1, <2>1, <2>2, <2>3, QuietStep DEF LinesInv
<1> QED BY <1>2, <1>3

LEMMA SettleHeadKeeps ==
  ASSUME DataInv, NEW w \in Callbacks, callbacks[w].pc = "resend", callbacks[w].batch # <<>>,
         NEW how \in {"sent", "unknown", "rejected", "expired"}, NEW failed \in BOOLEAN,
         Goes(w, "resend", Tail(callbacks[w].batch), failed),
         fate' = Settle(fate, Head(callbacks[w].batch), how),
         written' \in [Parts -> Nat],
         \A p \in Parts : written'[p] = IF p \in Head(callbacks[w].batch) /\ how # "expired"
                                        THEN written[p] + 1 ELSE written[p],
         UNCHANGED <<link, online, stopped, queue, timer, callers>>
  PROVE  DataInv'
<1> USE DEF DataInv
<1> DEFINE e == Head(callbacks[w].batch)
           t == Tail(callbacks[w].batch)
<1>1. /\ e \in Entries /\ t \in Seq(Entries) /\ Apart(t)
      /\ Taken(w) = e \cup InLine(t) /\ e \cap InLine(t) = {}
  BY BatchHead
<1>2. /\ callbacks' \in [Callbacks -> Callback]
      /\ callbacks'[w].pc = "resend" /\ callbacks'[w].batch = t
      /\ \A v \in Callbacks : v # w => callbacks'[v] = callbacks[v]
      /\ Taken(w)' = InLine(t)
      /\ \A v \in Callbacks : v # w => Taken(v)' = Taken(v)
  <2>1. CASE failed = TRUE
    BY <1>1, <2>1, GoesFacts DEF CallbackPcs
  <2>2. CASE failed = FALSE
    BY <1>1, <2>2, GoesFacts DEF CallbackPcs
  <2> QED BY <2>1, <2>2
<1>3. /\ fate' \in [Parts -> Fates]
      /\ \A p \in Parts : fate'[p] = IF p \in e THEN how ELSE fate[p]
  <2>1. fate \in [Parts -> Fates] /\ how \in Fates /\ fate' = Settle(fate, e, how)
    BY DEF Fates, TypeOK
  <2> HIDE DEF e
  <2> QED BY <2>1, SettleFacts
<1>4. \A p \in Parts : written'[p] = IF p \in e /\ how # "expired" THEN written[p] + 1 ELSE written[p]
  OBVIOUS
<1> HIDE DEF e, t
<1>5. Parked' = Parked /\ \A m \in Messages : ToDo(m)' = ToDo(m)
  BY DEF Parked, ToDo
<1>6. /\ \A m \in Messages : Whole(m) \subseteq Parts
      /\ \A p \in e : fate[p] = "open"
      /\ how # "open"
  BY <1>1, InParts DEF NothingTwice
<1>7. TypeOK'
  BY <1>2, <1>3 DEF TypeOK
<1>8. LinesInv' /\ Sending'
  BY <1>2, <1>3, <1>5, <1>6 DEF LinesInv, Sending
<1>9. Untouched'
  BY <1>1, <1>2, <1>3, <1>5, <1>6 DEF Untouched
<1>10. NothingLost'
  <2>1. SUFFICES ASSUME NEW m \in Messages, callers'[m].pc # "idle", NEW p \in Whole(m), fate'[p] = "open"
                 PROVE  p \in ToDo(m)' \/ p \in Parked' \/ \E v \in Callbacks : p \in Taken(v)'
    BY DEF NothingLost
  <2>2. fate[p] = "open" /\ p \notin e
    BY <1>3, <1>6, <2>1
  <2> QED BY <1>1, <1>2, <1>5, <2>1, <2>2 DEF NothingLost
<1>11. NothingTwice'
  <2>1. /\ Apart(queue') /\ \A m \in Messages : Apart(callers'[m].todo)
        /\ \A v \in Callbacks : Apart(callbacks'[v].batch)
    BY <1>1, <1>2 DEF NothingTwice
  <2>2. \A p \in Parked' : fate'[p] = "open"
    BY <1>1, <1>3, <1>5, InParts DEF NothingTwice
  <2>3. \A v \in Callbacks : \A p \in Taken(v)' : p \in Taken(v) /\ p \notin e
    BY <1>1, <1>2 DEF NothingTwice
  <2>4. \A m \in Messages : \A p \in ToDo(m)' :
           p \in Whole(m) /\ fate'[p] = "open" /\ p \notin Parked' /\ \A v \in Callbacks : p \notin Taken(v)'
    BY <1>1, <1>3, <1>5, <1>6, <2>3 DEF NothingTwice
  <2>5. \A u, v \in Callbacks : u # v => Taken(u)' \cap Taken(v)' = {}
    BY <2>3 DEF NothingTwice
  <2>6. \A v \in Callbacks : \A p \in Taken(v)' :
           fate'[p] = "open" /\ p \notin Parked' /\ \A u \in Callbacks : u # v => p \notin Taken(u)'
    BY <1>3, <1>5, <2>3, <2>5, InParts DEF NothingTwice
  <2> QED BY <2>1, <2>2, <2>4, <2>6 DEF NothingTwice
<1>12. WrittenOnce'
  BY <1>3, <1>4, <1>6 DEF WrittenOnce, TypeOK
<1>13. FinalAnswers'
  BY <1>3, <1>6 DEF FinalAnswers
<1> QED BY <1>7, <1>8, <1>9, <1>10, <1>11, <1>12, <1>13

LEMMA PutBackKeeps ==
  ASSUME DataInv, NEW w \in Callbacks, callbacks[w].pc = "resend", callbacks[w].batch # <<>>,
         Goes(w, "resend", Tail(callbacks[w].batch), TRUE),
         Push(Head(callbacks[w].batch)),
         UNCHANGED <<link, online, stopped, timer, callers, written>>
  PROVE  DataInv'
<1> USE DEF DataInv
<1> DEFINE e == Head(callbacks[w].batch)
           t == Tail(callbacks[w].batch)
<1>1. /\ e \in Entries /\ t \in Seq(Entries) /\ Apart(t)
      /\ Taken(w) = e \cup InLine(t) /\ e \cap InLine(t) = {}
  BY BatchHead
<1>2. /\ callbacks' \in [Callbacks -> Callback]
      /\ callbacks'[w].pc = "resend" /\ callbacks'[w].batch = t
      /\ \A v \in Callbacks : v # w => callbacks'[v] = callbacks[v]
      /\ Taken(w)' = InLine(t)
      /\ \A v \in Callbacks : v # w => Taken(v)' = Taken(v)
  BY <1>1, GoesFacts DEF CallbackPcs
<1>3. e \cap Parked = {}
  BY <1>1 DEF NothingTwice
<1>4. Push(e)
  OBVIOUS
<1> HIDE DEF e, t
<1>5. /\ queue' \in Seq(Entries) /\ Len(queue') <= QueueMax
      /\ Apart(queue')
      /\ Dropped \subseteq Parked
      /\ Parked' = (Parked \ Dropped) \cup e
      /\ fate' \in [Parts -> Fates]
      /\ \A p \in Parts : fate'[p] = IF p \in Dropped THEN "evicted" ELSE fate[p]
  BY <1>1, <1>3, <1>4, PushFacts DEF NothingTwice
<1>6. \A m \in Messages : ToDo(m)' = ToDo(m)
  BY DEF ToDo
<1>7. /\ \A m \in Messages : Whole(m) \subseteq Parts
      /\ \A p \in e \cup Dropped : fate[p] = "open"
      /\ e \cap Dropped = {}
  BY <1>1, <1>3, <1>5, InParts DEF NothingTwice
<1>8. TypeOK'
  BY <1>2, <1>5 DEF TypeOK
<1>9. LinesInv' /\ Sending'
  BY <1>2, <1>5, <1>6, <1>7 DEF LinesInv, Sending
<1>10. Untouched'
  BY <1>1, <1>2, <1>5, <1>7 DEF Untouched
<1>11. NothingLost'
  <2>1. SUFFICES ASSUME NEW m \in Messages, callers'[m].pc # "idle", NEW p \in Whole(m), fate'[p] = "open"
                 PROVE  p \in ToDo(m)' \/ p \in Parked' \/ \E v \in Callbacks : p \in Taken(v)'
    BY DEF NothingLost
  <2>2. fate[p] = "open" /\ p \notin Dropped
    BY <1>5, <1>7, <2>1
  <2> QED BY <1>1, <1>2, <1>5, <1>6, <2>1, <2>2 DEF NothingLost
<1>12. NothingTwice'
  <2>1. /\ Apart(queue') /\ \A m \in Messages : Apart(callers'[m].todo)
        /\ \A v \in Callbacks : Apart(callbacks'[v].batch)
    BY <1>1, <1>2, <1>5 DEF NothingTwice
  <2>2. \A p \in Parked' : fate'[p] = "open"
    BY <1>1, <1>5, <1>7, InParts DEF NothingTwice
  <2>3. \A m \in Messages : \A p \in ToDo(m)' :
           p \in Whole(m) /\ fate'[p] = "open" /\ p \notin Parked' /\ \A v \in Callbacks : p \notin Taken(v)'
    BY <1>1, <1>2, <1>5, <1>6, <1>7 DEF NothingTwice
  <2>4. \A v \in Callbacks : \A p \in Taken(v)' : p \in Taken(v) /\ p \notin e
    BY <1>1, <1>2 DEF NothingTwice
  <2>5. \A u, v \in Callbacks : u # v => Taken(u)' \cap Taken(v)' = {}
    BY <2>4 DEF NothingTwice
  <2>6. \A v \in Callbacks : \A p \in Taken(v)' :
           fate'[p] = "open" /\ p \notin Parked' /\ \A u \in Callbacks : u # v => p \notin Taken(u)'
    BY <1>5, <2>4, <2>5, InParts DEF NothingTwice
  <2> QED BY <2>1, <2>2, <2>3, <2>6 DEF NothingTwice
<1>13. WrittenOnce'
  BY <1>5, <1>7 DEF WrittenOnce
<1>14. FinalAnswers'
  BY <1>5, <1>7 DEF FinalAnswers
<1> QED BY <1>8, <1>9, <1>10, <1>11, <1>12, <1>13, <1>14

LEMMA ResendKeeps == ASSUME DataInv, NEW w \in Callbacks, Expire(w) \/ Resend(w) PROVE DataInv'
<1> USE DEF DataInv
<1>1. CASE Expire(w)
  <2>1. \A p \in Parts : written'[p] = written[p]
    BY <1>1 DEF Expire
  <2>2. CASE callbacks[w].failed = TRUE
    BY <1>1, <2>1, <2>2, SettleHeadKeeps DEF Expire, TypeOK
  <2>3. CASE callbacks[w].failed = FALSE
    BY <1>1, <2>1, <2>3, SettleHeadKeeps DEF Expire, TypeOK
  <2> QED BY <2>2, <2>3 DEF TypeOK, Callback
<1>2. CASE Resend(w)
  <2> DEFINE e == Head(callbacks[w].batch)
  <2>1. PICK outcome \in Outcomes :
          /\ Deliver(e, outcome)
          /\ Goes(w, "resend", Tail(callbacks[w].batch), callbacks[w].failed \/ outcome = "not_sent")
          /\ IF outcome = "not_sent"
               THEN Push(e)
               ELSE fate' = Settle(fate, e, outcome) /\ UNCHANGED queue
    BY <1>2 DEF Resend
  <2>2. /\ callbacks[w].pc = "resend" /\ callbacks[w].batch # <<>>
        /\ UNCHANGED <<link, online, stopped, timer, callers>>
        /\ outcome \in {"sent", "unknown", "rejected", "not_sent"}
    BY <1>2 DEF Resend, Outcomes
  <2>3. CASE outcome = "not_sent"
    <3>1. callbacks[w].failed \/ outcome = "not_sent" <=> TRUE
      BY <2>3
    <3>2. Goes(w, "resend", Tail(callbacks[w].batch), TRUE) /\ Push(e) /\ written' = written
      BY <2>1, <2>3, <3>1 DEF Deliver
    <3> QED BY <2>2, <3>2, PutBackKeeps
  <2>4. CASE outcome # "not_sent"
    <3>1. /\ written' \in [Parts -> Nat]
          /\ \A p \in Parts : written'[p] = IF p \in e THEN written[p] + 1 ELSE written[p]
      BY <2>1, <2>4, DeliverFacts
    <3>2. fate' = Settle(fate, e, outcome) /\ UNCHANGED queue
      BY <2>1, <2>4
    <3>3. PICK failed \in BOOLEAN : Goes(w, "resend", Tail(callbacks[w].batch), failed)
      BY <2>1
    <3>4. outcome \in {"sent", "unknown", "rejected", "expired"} /\ outcome # "expired"
      BY <2>2, <2>4
    <3>5. CASE failed = TRUE
      BY <2>2, <3>1, <3>2, <3>3, <3>4, <3>5, SettleHeadKeeps
    <3>6. CASE failed = FALSE
      BY <2>2, <3>1, <3>2, <3>3, <3>4, <3>6, SettleHeadKeeps
    <3> QED BY <3>5, <3>6
  <2> QED BY <2>3, <2>4
<1> QED BY <1>1, <1>2

(* The steps of callbacks and events that only move from one point to another.    *)
MovesOn(w) == \/ Fire(w) \/ Decide(w) \/ Wait(w) \/ Finish(w)
              \/ Lifecycle(w) \/ HeartbeatUp(w) \/ HeartbeatStore(w)

LEMMA MovesOnFacts ==
  ASSUME DataInv, NEW w \in Callbacks, MovesOn(w)
  PROVE  /\ \E to \in CallbackPcs \ {"resend"} : Goes(w, to, <<>>, FALSE)
         /\ callbacks[w].batch = <<>>
         /\ online' \in BOOLEAN /\ timer' \in BOOLEAN
         /\ UNCHANGED <<link, stopped, queue, callers, fate, written>>
<1> USE DEF DataInv, LinesInv, CallbackPcs, TypeOK
<1>1. CASE Fire(w)
  BY <1>1 DEF Fire
<1>2. CASE Decide(w)
  BY <1>2 DEF Decide
<1>3. CASE Wait(w)
  BY <1>3 DEF Wait
<1>4. CASE Finish(w)
  BY <1>4 DEF Finish
<1>5. CASE Lifecycle(w)
  BY <1>5 DEF Lifecycle
<1>6. CASE HeartbeatUp(w)
  BY <1>6 DEF HeartbeatUp
<1>7. CASE HeartbeatStore(w)
  BY <1>7 DEF HeartbeatStore
<1> QED BY <1>1, <1>2, <1>3, <1>4, <1>5, <1>6, <1>7 DEF MovesOn

LEMMA MovesOnKeeps == ASSUME DataInv, NEW w \in Callbacks, MovesOn(w) PROVE DataInv'
<1>1. PICK to \in CallbackPcs \ {"resend"} : Goes(w, to, <<>>, FALSE)
  BY MovesOnFacts
<1>2. /\ callbacks' \in [Callbacks -> Callback]
      /\ callbacks'[w].pc = to /\ callbacks'[w].batch = <<>>
      /\ \A v \in Callbacks : v # w => callbacks'[v] = callbacks[v]
  BY <1>1, GoesFacts, EmptyLine DEF DataInv
<1>3. /\ callbacks[w].batch = <<>>
      /\ online' \in BOOLEAN /\ timer' \in BOOLEAN
      /\ UNCHANGED <<link, stopped, queue, callers, fate, written>>
  BY MovesOnFacts
<1>4. TypeOK'
  BY <1>2, <1>3 DEF DataInv, TypeOK
<1> QED BY <1>2, <1>3, <1>4, QuietStep DEF DataInv, LinesInv

(* Steps of the connection, of Stop and of an offline heartbeat. *)
Environment == LinkUp \/ LinkDown \/ Stop \/ HeartbeatDown

LEMMA EnvironmentFacts ==
  ASSUME TypeOK, Environment
  PROVE  TypeOK' /\ UNCHANGED <<queue, timer, callers, callbacks, fate, written>>
  BY DEF Environment, LinkUp, LinkDown, Stop, HeartbeatDown, TypeOK

LEMMA NextCases ==
  ASSUME Next
  PROVE  \/ \E m \in Messages : Check(m) \/ SendChunk(m) \/ Save(m) \/ Arm(m)
         \/ \E w \in Callbacks : Flush(w) \/ (Expire(w) \/ Resend(w)) \/ MovesOn(w)
         \/ Environment
  BY DEF Next, Caller_, Callback_, MovesOn, Environment

LEMMA StepData == DataInv /\ [Next]_vars => DataInv'
<1> SUFFICES ASSUME DataInv, [Next]_vars PROVE DataInv'
  OBVIOUS
<1>1. CASE UNCHANGED vars
  <2>1. TypeOK'
    BY <1>1 DEF vars, DataInv, TypeOK
  <2> QED BY <1>1, <2>1, QuietStep DEF vars, DataInv, LinesInv
<1>2. ASSUME NEW m \in Messages, Check(m) \/ SendChunk(m) \/ Save(m) \/ Arm(m) PROVE DataInv'
  BY <1>2, CheckKeeps, SendKeeps, SaveKeeps, ArmKeeps
<1>3. ASSUME NEW w \in Callbacks, Flush(w) \/ (Expire(w) \/ Resend(w)) \/ MovesOn(w) PROVE DataInv'
  BY <1>3, FlushKeeps, ResendKeeps, MovesOnKeeps
<1>4. CASE Environment
  BY <1>4, EnvironmentFacts, QuietStep DEF DataInv, LinesInv
<1> QED BY <1>1, <1>2, <1>3, <1>4, NextCases

(* Every reachable state satisfies the inductive invariant. *)
THEOREM DataInvariant == Spec => []DataInv
  BY InitData, StepData, PTL DEF Spec

--------------------------------------------------------------------------------
(* The shapes of the queue, of calls and of callbacks; the queue never holds more *)
(* than its bound (saveOfflineMsg).                                               *)
THEOREM TypeCorrect == Spec => []TypeOK
<1>1. DataInv => TypeOK
  BY DEF DataInv
<1> QED BY <1>1, DataInvariant, PTL

(* Until it is settled, a part is with its caller, in the queue or with a flush.  *)
THEOREM PartsAreKept == Spec => []NothingLost
<1>1. DataInv => NothingLost
  BY DEF DataInv
<1> QED BY <1>1, DataInvariant, PTL

(* ... in one place, and in none once it is settled. *)
THEOREM PartsAreSingle == Spec => []NothingTwice
<1>1. DataInv => NothingTwice
  BY DEF DataInv
<1> QED BY <1>1, DataInvariant, PTL

(* Both together: an unsettled part is in exactly one place.                      *)
THEOREM PartsAreInOnePlace == Spec => []InOnePlace
  BY PartsAreKept, PartsAreSingle, PTL DEF InOnePlace

(* A part goes over the wire at most once. *)
THEOREM NoDuplicates == Spec => []WrittenOnce
<1>1. DataInv => WrittenOnce
  BY DEF DataInv
<1> QED BY <1>1, DataInvariant, PTL

(* After an answer other than "queued" nothing of the message is left to send.    *)
THEOREM AnswersAreFinal == Spec => []FinalAnswers
<1>1. DataInv => FinalAnswers
  BY DEF DataInv
<1> QED BY <1>1, DataInvariant, PTL

(* Both together: what callers are told is what went over the wire.               *)
THEOREM AnswersAgree == Spec => []AnswersMatchTheWire
  BY NoDuplicates, AnswersAreFinal, PTL DEF AnswersMatchTheWire

--------------------------------------------------------------------------------
(* Who watches the queue.  A flush that ends without having put anything back     *)
(* may leave only if somebody else watches what was parked meanwhile.             *)
OthersWatch == \/ timer
               \/ \E w \in Callbacks : callbacks[w].pc \in Watching \ {"resend"}
               \/ \E m \in Messages : callers[m].pc \in {"save", "arm"}

OneFlush == \A v, w \in Callbacks : callbacks[v].pc = "resend" /\ callbacks[w].pc = "resend" => v = w

Guarded  == \A w \in Callbacks :
              ~stopped /\ queue # <<>> /\ callbacks[w].pc = "resend" /\ ~callbacks[w].failed => OthersWatch

WatchInv == DataInv /\ OneFlush /\ Guarded

LEMMA WatchedBy == Watched <=> OthersWatch \/ \E w \in Callbacks : callbacks[w].pc = "resend"
  BY DEF Watched, OthersWatch, Watching

(* Only a flush that finds the connection down takes away a watcher that does not *)
(* hold the mutex, while there is something to watch.                             *)
LEMMA OthersStay ==
  ASSUME DataInv, [Next]_vars, OthersWatch, ~stopped, queue' # <<>>
  PROVE  OthersWatch' \/ \E w \in Callbacks : Flush(w) /\ ~Connected
<1>1. TypeOK
  BY DEF DataInv
<1>2. CASE UNCHANGED vars
  BY <1>2 DEF vars, OthersWatch
<1>3. ASSUME NEW m \in Messages, Check(m) \/ SendChunk(m) \/ Save(m) \/ Arm(m) PROVE OthersWatch'
  <2>1. callers \in [Messages -> Caller]
    BY <1>1 DEF TypeOK
  <2>2. CASE Check(m)
    BY <2>1, <2>2 DEF Check, At, OthersWatch
  <2>3. CASE SendChunk(m)
    <3>1. /\ callers[m].pc = "send" /\ UNCHANGED <<timer, callbacks>>
          /\ \A n \in Messages : n # m => callers'[n] = callers[n]
      BY <2>1, <2>3 DEF SendChunk, At, Outcomes
    <3> QED BY <3>1 DEF OthersWatch
  <2>4. CASE Save(m)
    BY <2>1, <2>4 DEF Save, At, OthersWatch
  <2>5. CASE Arm(m)
    BY <2>5 DEF Arm, OthersWatch
  <2> QED BY <1>3, <2>2, <2>3, <2>4, <2>5
<1>4. ASSUME NEW w \in Callbacks, Expire(w) \/ Resend(w) \/ MovesOn(w) PROVE OthersWatch'
  <2>1. callbacks \in [Callbacks -> Callback]
    BY <1>1 DEF TypeOK
  <2> USE <2>1 DEF Goes, OthersWatch, Watching
  <2>2. CASE Expire(w)
    BY <2>2 DEF Expire
  <2>3. CASE Resend(w)
    <3>1. PICK b, f : Goes(w, "resend", b, f)
      BY <2>3 DEF Resend
    <3> QED BY <2>3, <3>1 DEF Resend
  <2>4. CASE Fire(w)
    BY <2>4 DEF Fire
  <2>5. CASE Decide(w)
    BY <2>5 DEF Decide
  <2>6. CASE Wait(w)
    BY <2>6 DEF Wait
  <2>7. CASE Finish(w)
    BY <2>7 DEF Finish
  <2>8. CASE Lifecycle(w)
    BY <2>8 DEF Lifecycle
  <2>9. CASE HeartbeatUp(w)
    BY <2>9 DEF HeartbeatUp
  <2>10. CASE HeartbeatStore(w)
    BY <2>10 DEF HeartbeatStore
  <2> QED BY <1>4, <2>2, <2>3, <2>4, <2>5, <2>6, <2>7, <2>8, <2>9, <2>10 DEF MovesOn
<1>5. ASSUME NEW w \in Callbacks, Flush(w), Connected PROVE OthersWatch' \/ queue' = <<>>
  BY <1>5 DEF Flush
<1>6. CASE Environment
  BY <1>1, <1>6, EnvironmentFacts DEF OthersWatch
<1> QED BY <1>2, <1>3, <1>4, <1>5, <1>6, NextCases

(* How a step changes the callbacks that hold the mutex. *)
LEMMA Holders ==
  ASSUME DataInv, [Next]_vars, NEW w \in Callbacks, callbacks'[w].pc = "resend"
  PROVE  \/ /\ Flush(w) /\ ~Flushing /\ queue' = <<>>
            /\ \A v \in Callbacks : v # w => callbacks'[v].pc # "resend"
         \/ /\ callbacks[w].pc = "resend" /\ callbacks[w].failed => callbacks'[w].failed
            /\ \A v \in Callbacks : callbacks'[v].pc = "resend" => callbacks[v].pc = "resend"
<1>1. TypeOK
  BY DEF DataInv
<1>2. callbacks \in [Callbacks -> Callback]
  BY <1>1 DEF TypeOK
<1>3. CASE UNCHANGED callbacks
  BY <1>3
<1>4. ASSUME NEW v \in Callbacks, Flush(v)
      PROVE  \/ v = w /\ ~Flushing /\ queue' = <<>> /\ \A u \in Callbacks : u # w => callbacks'[u].pc # "resend"
             \/ FALSE
  <2>1. ~Flushing /\ \A u \in Callbacks : u # v => callbacks'[u] = callbacks[u]
    BY <1>2, <1>4 DEF Flush, Goes
  <2>2. v = w
    BY <2>1 DEF Flushing
  <2>3. queue' = <<>>
    BY <1>2, <1>4, <2>2 DEF Flush, Goes
  <2> QED BY <2>1, <2>2, <2>3 DEF Flushing
<1>5. ASSUME NEW v \in Callbacks, Expire(v) \/ Resend(v)
      PROVE  /\ callbacks[w].pc = "resend" /\ callbacks[w].failed => callbacks'[w].failed
             /\ \A u \in Callbacks : callbacks'[u].pc = "resend" => callbacks[u].pc = "resend"
  <2>1. callbacks[v].pc = "resend"
    BY <1>5 DEF Expire, Resend
  <2>2. \A u \in Callbacks : u # v => callbacks'[u] = callbacks[u]
    BY <1>2, <1>5 DEF Expire, Resend, Goes
  <2>3. callbacks[v].failed => callbacks'[v].failed
    <3>1. CASE Expire(v)
      BY <1>2, <3>1 DEF Expire, Goes
    <3>2. CASE Resend(v)
      <4>1. PICK outcome \in Outcomes :
              Goes(v, "resend", Tail(callbacks[v].batch), callbacks[v].failed \/ outcome = "not_sent")
        BY <3>2 DEF Resend
      <4>2. callbacks'[v].failed = (callbacks[v].failed \/ outcome = "not_sent")
        BY <1>2, <4>1 DEF Goes
      <4> QED BY <4>2
    <3> QED BY <1>5, <3>1, <3>2
  <2> QED BY <2>1, <2>2, <2>3
<1>6. ASSUME NEW v \in Callbacks, MovesOn(v)
      PROVE  /\ callbacks[w].pc = "resend" /\ callbacks'[w] = callbacks[w]
             /\ \A u \in Callbacks : callbacks'[u].pc = "resend" => callbacks[u].pc = "resend"
  <2>1. PICK to \in CallbackPcs \ {"resend"} : Goes(v, to, <<>>, FALSE)
    BY <1>6, MovesOnFacts
  <2>2. callbacks'[v].pc # "resend" /\ \A u \in Callbacks : u # v => callbacks'[u] = callbacks[u]
    BY <1>2, <2>1 DEF Goes
  <2> QED BY <2>2
<1>7. \A m \in Messages : Check(m) \/ SendChunk(m) \/ Save(m) \/ Arm(m) => UNCHANGED callbacks
  BY DEF Check, SendChunk, Save, Arm
<1>8. Environment => UNCHANGED callbacks
  BY <1>1, EnvironmentFacts
<1>9. UNCHANGED vars => UNCHANGED callbacks
  BY DEF vars
<1> QED BY <1>3, <1>4, <1>5, <1>6, <1>7, <1>8, <1>9, NextCases

(* What puts something into an empty queue watches it, or has failed. *)
LEMMA Fillers ==
  ASSUME DataInv, [Next]_vars, queue = <<>>, queue' # <<>>
  PROVE  OthersWatch' \/ \E w \in Callbacks : callbacks[w].pc = "resend" /\ callbacks'[w].failed
<1>1. TypeOK
  BY DEF DataInv
<1>2. callers \in [Messages -> Caller] /\ callbacks \in [Callbacks -> Callback]
  BY <1>1 DEF TypeOK
<1>3. ASSUME NEW m \in Messages, Check(m) \/ SendChunk(m) \/ Save(m) \/ Arm(m) PROVE OthersWatch'
  <2>1. Save(m)
    BY <1>3 DEF Check, SendChunk, Arm
  <2>2. callers'[m].pc \in {"save", "arm"}
    BY <1>2, <2>1 DEF Save, At
  <2> QED BY <2>2 DEF OthersWatch
<1>4. ASSUME NEW w \in Callbacks, Expire(w) \/ Resend(w)
      PROVE  callbacks[w].pc = "resend" /\ callbacks'[w].failed
  <2>1. Resend(w)
    BY <1>4 DEF Expire
  <2>2. callbacks[w].pc = "resend" /\ \E b : Goes(w, "resend", b, TRUE)
    BY <2>1 DEF Resend
  <2> QED BY <1>2, <2>2 DEF Goes
<1>5. ASSUME NEW w \in Callbacks, Flush(w) \/ MovesOn(w) PROVE FALSE
  BY <1>5, MovesOnFacts DEF Flush
<1>6. ~Environment /\ ~UNCHANGED vars
  BY <1>1, EnvironmentFacts DEF vars
<1> QED BY <1>3, <1>4, <1>5, <1>6, NextCases

LEMMA NextStopped == ASSUME [Next]_vars, stopped PROVE stopped'
<1>1. \A m \in Messages : Check(m) \/ SendChunk(m) \/ Save(m) \/ Arm(m) => UNCHANGED stopped
  BY DEF Check, SendChunk, Save, Arm
<1>2. \A w \in Callbacks : Flush(w) \/ (Expire(w) \/ Resend(w)) \/ MovesOn(w) => UNCHANGED stopped
  BY DEF Flush, Expire, Resend, MovesOn, Fire, Decide, Wait, Finish, Lifecycle, HeartbeatUp, HeartbeatStore
<1>3. Environment => stopped'
  BY DEF Environment, LinkUp, LinkDown, Stop, HeartbeatDown
<1>4. UNCHANGED vars => stopped'
  BY DEF vars
<1> QED BY <1>1, <1>2, <1>3, <1>4, NextCases

LEMMA WatchedAfter == Watched' <=> OthersWatch' \/ \E w \in Callbacks : callbacks'[w].pc = "resend"
  BY DEF Watched, OthersWatch, Watching

(* The flush that holds the mutex leaves a watched queue behind. *)
LEMMA LeavesWatched ==
  ASSUME WatchInv, [Next]_vars, ~stopped, queue' # <<>>, NEW w \in Callbacks, callbacks[w].pc = "resend"
  PROVE  OthersWatch \/ OthersWatch' \/ callbacks'[w].pc = "resend"
<1> USE DEF WatchInv
<1>1. callbacks \in [Callbacks -> Callback]
  BY DEF DataInv, TypeOK
<1>2. ASSUME NEW v \in Callbacks, v # w, Flush(v) \/ (Expire(v) \/ Resend(v)) \/ MovesOn(v)
      PROVE  callbacks'[w] = callbacks[w]
  BY <1>1, <1>2 DEF Flush, Expire, Resend, MovesOn, Fire, Decide, Wait, Finish, Lifecycle, HeartbeatUp,
                    HeartbeatStore, Goes
<1>3. CASE Flush(w) \/ (Expire(w) \/ Resend(w))
  BY <1>1, <1>3 DEF Flush, Expire, Resend, Goes
<1>4. CASE MovesOn(w)
  <2>1. Finish(w)
    BY <1>4 DEF MovesOn, Fire, Decide, Wait, Lifecycle, HeartbeatUp, HeartbeatStore
  <2>2. CASE callbacks[w].failed
    BY <2>1, <2>2 DEF Finish, OthersWatch
  <2>3. CASE ~callbacks[w].failed
    BY <2>1, <2>3 DEF Finish, Guarded
  <2> QED BY <2>2, <2>3
<1>5. \A m \in Messages : Check(m) \/ SendChunk(m) \/ Save(m) \/ Arm(m) => UNCHANGED callbacks
  BY DEF Check, SendChunk, Save, Arm
<1>6. Environment \/ UNCHANGED vars => UNCHANGED callbacks
  BY EnvironmentFacts DEF vars, DataInv
<1> QED BY <1>2, <1>3, <1>4, <1>5, <1>6, NextCases

LEMMA StepWatch == WatchInv /\ [Next]_vars => WatchInv'
<1> SUFFICES ASSUME WatchInv, [Next]_vars PROVE WatchInv'
  OBVIOUS
<1> USE DEF WatchInv
<1>1. DataInv'
  BY StepData
<1>2. OneFlush'
  BY Holders DEF OneFlush
<1>3. Guarded'
  <2>1. SUFFICES ASSUME NEW w \in Callbacks, ~stopped', queue' # <<>>,
                        callbacks'[w].pc = "resend", ~callbacks'[w].failed
                 PROVE  OthersWatch'
    BY DEF Guarded
  <2>2. /\ callbacks[w].pc = "resend" /\ ~callbacks[w].failed
        /\ \A v \in Callbacks : callbacks'[v].pc = "resend" => callbacks[v].pc = "resend"
    BY <2>1, Holders
  <2>3. ~stopped
    <3>1. stopped => stopped'
      BY NextStopped
    <3> QED BY <2>1, <3>1
  <2>4. CASE queue = <<>>
    BY <2>1, <2>2, <2>4, Fillers DEF OneFlush
  <2>5. CASE queue # <<>>
    <3>1. OthersWatch
      BY <2>2, <2>3, <2>5 DEF Guarded
    <3>2. \A v \in Callbacks : ~Flush(v)
      BY <2>2 DEF Flush, Flushing
    <3> QED BY <2>1, <2>3, <3>1, <3>2, OthersStay
  <2> QED BY <2>4, <2>5
<1> QED BY <1>1, <1>2, <1>3

THEOREM WatchInvariant == Spec => []WatchInv
<1>1. Init => WatchInv
  BY InitData DEF Init, WatchInv, OneFlush, Guarded, Gone
<1> QED BY <1>1, StepWatch, PTL DEF Spec

(* Except for a flush that finds the connection down after it got the mutex, no   *)
(* step leaves parked messages without anybody who will look at them.             *)
THEOREM QueueKeepsItsWatch == Spec => OnlyAFlushGivesUp
<1>1. WatchInv /\ [Next]_vars => [LosesWatch]_vars
  <2> SUFFICES ASSUME WatchInv, [Next]_vars, ~stopped, Watched, ~Watched', queue' # <<>>
               PROVE  FlushGivesUp
    BY DEF LosesWatch
  <2> USE DEF WatchInv
  <2>1. ~OthersWatch' /\ \A w \in Callbacks : callbacks'[w].pc # "resend"
    BY WatchedAfter
  <2>2. CASE OthersWatch
    <3>1. PICK w \in Callbacks : Flush(w) /\ ~Connected
      BY <2>1, <2>2, OthersStay
    <3>2. callbacks \in [Callbacks -> Callback]
      BY DEF DataInv, TypeOK
    <3>3. callbacks[w].pc = "flush" /\ callbacks'[w].pc = "idle"
      BY <3>1, <3>2 DEF Flush, Goes
    <3> QED BY <3>1, <3>3 DEF FlushGivesUp
  <2>3. CASE ~OthersWatch
    <3>1. PICK w \in Callbacks : callbacks[w].pc = "resend"
      BY <2>3, WatchedBy
    <3>2. FALSE
      BY <2>1, <2>3, <3>1, LeavesWatched
    <3> QED BY <3>2
  <2> QED BY <2>2, <2>3
<1> QED BY <1>1, WatchInvariant, PTL DEF Spec, OnlyAFlushGivesUp

--------------------------------------------------------------------------------
(* The way of a part: from its caller to the queue, from the queue to a flush,   *)
(* and from any of them to its fate.                                              *)
Settled(p) == fate[p] # "open"

(* What is settled is not sent or settled again; what a caller holds it sends or  *)
(* parks; what is parked waits until a flush takes it or a full queue drops it;   *)
(* what a flush took it settles, and gives back only if there was no connection.  *)
GoesOn ==
  \A p \in Parts :
    /\ Settled(p) => fate'[p] = fate[p] /\ written'[p] = written[p]
    /\ \A m \in Messages : p \in ToDo(m) => Settled(p)' \/ p \in ToDo(m)' \/ p \in Parked'
    /\ p \in Parked =>
         fate'[p] = "evicted" \/ p \in Parked' \/ \E w \in Callbacks : p \in Taken(w)'
    /\ \A w \in Callbacks :
         p \in Taken(w) => Settled(p)' \/ p \in Taken(w)' \/ (~link /\ p \in Parked')
PartsGoOn == [][GoesOn]_vars

\* A step that moves no entry and settles nothing.
LEMMA QuietGoesOn ==
  ASSUME UNCHANGED <<queue, fate, written>>,
         \A m \in Messages : ToDo(m) \subseteq ToDo(m)',
         \A w \in Callbacks : Taken(w) \subseteq Taken(w)'
  PROVE  GoesOn
<1>1. Parked' = Parked
  BY DEF Parked
<1> QED BY <1>1 DEF GoesOn

LEMMA CallGoesOn ==
  ASSUME DataInv, NEW m \in Messages, Check(m) \/ Arm(m)
  PROVE  GoesOn
<1> USE DEF DataInv
<1>1. /\ callers[m].pc \notin {"send", "save"}
      /\ UNCHANGED <<queue, callbacks, fate, written>>
      /\ \A n \in Messages : n # m => callers'[n] = callers[n]
  BY DEF Check, Arm, At, TypeOK
<1>2. ToDo(m) = {}
  BY <1>1, EmptyLine DEF LinesInv, ToDo
<1> QED BY <1>1, <1>2, QuietGoesOn DEF ToDo, Taken

LEMMA SaveGoesOn ==
  ASSUME DataInv, NEW m \in Messages, Save(m)
  PROVE  GoesOn
<1> USE DEF DataInv
<1> DEFINE e == Head(callers[m].todo)
           t == Tail(callers[m].todo)
<1>1. /\ callers[m].todo # <<>> /\ Push(e)
      /\ UNCHANGED <<callbacks, written>>
  BY DEF Save, LinesInv
<1>2. e \in Entries /\ t \in Seq(Entries) /\ ToDo(m) = e \cup InLine(t)
  BY <1>1, ToDoHead
<1>3. \E to \in {"arm", "save"} : At(m, to, t)
  BY DEF Save
<1> HIDE DEF e, t
<1>4. ToDo(m)' = InLine(t) /\ \A n \in Messages : n # m => ToDo(n)' = ToDo(n)
  BY <1>2, <1>3, AtFacts DEF CallerPcs
<1>5. e \cap Parked = {}
  BY <1>2 DEF NothingTwice
<1>6. /\ Dropped \subseteq Parked /\ Parked' = (Parked \ Dropped) \cup e
      /\ \A p \in Parts : fate'[p] = IF p \in Dropped THEN "evicted" ELSE fate[p]
  BY <1>1, <1>2, <1>5, PushFacts DEF NothingTwice
<1>7. \A p \in Parked : ~Settled(p)
  BY DEF NothingTwice, Settled
<1>8. \A w \in Callbacks : Taken(w)' = Taken(w)
  BY <1>1 DEF Taken
<1>9. SUFFICES ASSUME NEW p \in Parts PROVE GoesOn!(p)
  BY DEF GoesOn
<1>10. Settled(p) => fate'[p] = fate[p] /\ written'[p] = written[p]
  BY <1>1, <1>6, <1>7
<1>11. \A n \in Messages : p \in ToDo(n) => p \in ToDo(n)' \/ p \in Parked'
  BY <1>2, <1>4, <1>6
<1>12. p \in Parked => fate'[p] = "evicted" \/ p \in Parked'
  BY <1>6
<1> QED BY <1>8, <1>10, <1>11, <1>12

LEMMA ChunkGoesOn ==
  ASSUME DataInv, NEW m \in Messages, SendChunk(m)
  PROVE  GoesOn
<1> USE DEF DataInv
<1> DEFINE e == Head(callers[m].todo)
           t == Tail(callers[m].todo)
<1>1. /\ callers[m].todo # <<>>
      /\ UNCHANGED <<queue, callbacks>>
  BY DEF SendChunk, LinesInv
<1>2. e \in Entries /\ t \in Seq(Entries) /\ ToDo(m) = e \cup InLine(t)
  BY <1>1, ToDoHead
<1>3. PICK outcome \in Outcomes :
        /\ Deliver(e, outcome)
        /\ CASE outcome = "sent" ->
                  /\ At(m, IF Len(callers[m].todo) = 1 THEN "sent" ELSE "send", t)
                  /\ fate' = Settle(fate, e, "sent")
             [] outcome \in {"unknown", "rejected"} ->
                  /\ At(m, outcome, <<>>)
                  /\ fate' = Settle(Settle(fate, InLine(callers[m].todo), "abandoned"), e, outcome)
             [] outcome = "not_sent" ->
                  At(m, "save", callers[m].todo) /\ UNCHANGED fate
  BY DEF SendChunk
<1> HIDE DEF e, t
<1>4. outcome \in {"sent", "unknown", "rejected", "not_sent"}
  BY DEF Outcomes
<1>5. \A p \in Parts : p \notin e => written'[p] = written[p]
  BY <1>3, DeliverFacts
<1>6. \A p \in ToDo(m) : ~Settled(p)
  BY DEF NothingTwice, Settled
<1>7. Parked' = Parked /\ \A w \in Callbacks : Taken(w)' = Taken(w)
  BY <1>1 DEF Parked, Taken
<1>8. \A n \in Messages : n # m => ToDo(n)' = ToDo(n)
  BY <1>3, <1>4 DEF At, ToDo, TypeOK
<1>9. \A p \in Parts : p \notin ToDo(m) => fate'[p] = fate[p]
  <2>1. outcome = "sent" => \A p \in Parts : p \notin e => fate'[p] = fate[p]
    BY <1>3 DEF Settle
  <2>2. outcome \in {"unknown", "rejected"} => \A p \in Parts : p \notin ToDo(m) => fate'[p] = fate[p]
    BY <1>2, <1>3 DEF Settle, ToDo
  <2> QED BY <1>2, <1>3, <1>4, <2>1, <2>2
<1>10. \A p \in ToDo(m) : p \in Parts => Settled(p)' \/ p \in ToDo(m)'
  <2>1. CASE outcome = "sent"
    <3>1. \A p \in Parts : p \in e => fate'[p] = "sent"
      BY <1>3, <2>1 DEF Settle
    <3>2. \E to \in {"sent", "send"} : At(m, to, t)
      BY <1>3, <2>1
    <3>3. ToDo(m)' = InLine(t)
      BY <1>2, <3>2, AtFacts DEF CallerPcs, Answers
    <3> QED BY <1>2, <3>1, <3>3 DEF Settled
  <2>2. CASE outcome \in {"unknown", "rejected"}
    <3>1. \A p \in Parts : p \in ToDo(m) => fate'[p] \in {outcome, "abandoned"}
      BY <1>2, <1>3, <2>2 DEF Settle, ToDo
    <3> QED BY <2>2, <3>1 DEF Settled
  <2>3. CASE outcome = "not_sent"
    <3>1. At(m, "save", callers[m].todo)
      BY <1>3, <2>3
    <3>2. ToDo(m)' = ToDo(m)
      BY <3>1, AtFacts DEF CallerPcs, TypeOK, Caller, ToDo
    <3> QED BY <3>2
  <2> QED BY <1>4, <2>1, <2>2, <2>3
<1>11. SUFFICES ASSUME NEW p \in Parts PROVE GoesOn!(p)
  BY DEF GoesOn
<1>12. Settled(p) => fate'[p] = fate[p] /\ written'[p] = written[p]
  BY <1>2, <1>5, <1>6, <1>9
<1>13. \A n \in Messages : p \in ToDo(n) => Settled(p)' \/ p \in ToDo(n)'
  BY <1>8, <1>10
<1> QED BY <1>7, <1>12, <1>13

LEMMA FlushGoesOn ==
  ASSUME DataInv, NEW w \in Callbacks, Flush(w)
  PROVE  GoesOn
<1> USE DEF DataInv
<1>1. callbacks[w].batch = <<>> /\ UNCHANGED <<callers, fate, written>>
  BY DEF Flush, LinesInv
<1>2. Taken(w) = {} /\ \A m \in Messages : ToDo(m)' = ToDo(m)
  BY <1>1, EmptyLine DEF Taken, ToDo
<1>3. \A v \in Callbacks : v # w => Taken(v)' = Taken(v)
  BY DEF Flush, Goes, Taken, TypeOK
<1>4. CASE Goes(w, "resend", queue, FALSE)
  <2>1. Taken(w)' = Parked
    BY <1>4, GoesFacts DEF CallbackPcs, Parked, TypeOK
  <2> QED BY <1>1, <1>2, <1>3, <2>1 DEF GoesOn
<1>5. CASE UNCHANGED queue
  BY <1>1, <1>2, <1>3, <1>5, QuietGoesOn
<1> QED BY <1>4, <1>5 DEF Flush

\* A flush takes the entry at the head of its batch, and settles it or, without
\* a connection, puts it back.
LEMMA BatchGoesOn ==
  ASSUME DataInv, NEW w \in Callbacks, Expire(w) \/ Resend(w)
  PROVE  GoesOn
<1> USE DEF DataInv
<1> DEFINE e == Head(callbacks[w].batch)
           t == Tail(callbacks[w].batch)
<1>1. callbacks[w].batch # <<>> /\ UNCHANGED callers
  BY DEF Expire, Resend
<1>2. e \in Entries /\ t \in Seq(Entries) /\ Taken(w) = e \cup InLine(t)
  BY <1>1, BatchHead
<1>3. /\ \E failed : Goes(w, "resend", t, failed)
      /\ \A p \in Parts : p \notin e => written'[p] = written[p]
      /\ \/ UNCHANGED queue /\ \E how \in Fates \ {"open"} : fate' = Settle(fate, e, how)
         \/ Push(e) /\ ~link /\ written' = written
  <2>1. CASE Expire(w)
    BY <2>1 DEF Expire, Fates
  <2>2. CASE Resend(w)
    <3>1. PICK outcome \in Outcomes :
            /\ Deliver(e, outcome)
            /\ Goes(w, "resend", t, callbacks[w].failed \/ outcome = "not_sent")
            /\ IF outcome = "not_sent"
                 THEN Push(e)
                 ELSE fate' = Settle(fate, e, outcome) /\ UNCHANGED queue
      BY <2>2 DEF Resend
    <3>2. \A p \in Parts : p \notin e => written'[p] = written[p]
      BY <3>1, DeliverFacts
    <3>3. outcome = "not_sent" => ~link /\ written' = written
      BY <3>1 DEF Outcomes, Deliver
    <3>4. outcome # "not_sent" => outcome \in Fates \ {"open"}
      BY DEF Outcomes, Fates
    <3> QED BY <3>1, <3>2, <3>3, <3>4
  <2> QED BY <2>1, <2>2
<1> HIDE DEF e, t
<1>4. /\ \A v \in Callbacks : v # w => Taken(v)' = Taken(v)
      /\ Taken(w)' = InLine(t)
  BY <1>3 DEF Goes, Taken, TypeOK
<1>5. \A m \in Messages : ToDo(m)' = ToDo(m)
  BY <1>1 DEF ToDo
<1>6. \A p \in Taken(w) : ~Settled(p) /\ p \notin Parked
  BY DEF NothingTwice, Settled
<1>7. SUFFICES ASSUME NEW p \in Parts PROVE GoesOn!(p)
  BY DEF GoesOn
<1>8. CASE UNCHANGED queue /\ \E how \in Fates \ {"open"} : fate' = Settle(fate, e, how)
  <2>1. Parked' = Parked
    BY <1>8 DEF Parked
  <2>2. /\ p \in e => Settled(p)'
        /\ p \notin e => fate'[p] = fate[p]
    BY <1>8 DEF Settle, Settled
  <2>3. Settled(p) => fate'[p] = fate[p] /\ written'[p] = written[p]
    BY <1>2, <1>3, <1>6, <2>2
  <2>4. \A v \in Callbacks : p \in Taken(v) => Settled(p)' \/ p \in Taken(v)'
    BY <1>2, <1>4, <2>2
  <2> QED BY <1>5, <2>1, <2>3, <2>4
<1>9. CASE Push(e) /\ ~link /\ written' = written
  <2>1. e \cap Parked = {}
    BY <1>2, <1>6
  <2>2. /\ Dropped \subseteq Parked /\ Parked' = (Parked \ Dropped) \cup e
        /\ fate'[p] = IF p \in Dropped THEN "evicted" ELSE fate[p]
    BY <1>2, <1>9, <2>1, PushFacts DEF NothingTwice
  <2>3. Settled(p) => fate'[p] = fate[p] /\ written'[p] = written[p]
    BY <1>9, <2>2 DEF NothingTwice, Settled
  <2>4. \A v \in Callbacks : p \in Taken(v) => p \in Taken(v)' \/ p \in Parked'
    BY <1>2, <1>4, <2>2
  <2>5. p \in Parked => fate'[p] = "evicted" \/ p \in Parked'
    BY <2>2
  <2> QED BY <1>5, <1>9, <2>3, <2>4, <2>5
<1> QED BY <1>3, <1>8, <1>9

(* However sends, flushes and lost connections interleave, a part only goes       *)
(* forward on its way to its fate, and what is settled is left alone; the one way *)
(* back is from a flush to the queue while there is no connection (DrainsWhen-    *)
(* Watched rests on it: no flush is in vain while the bot is connected).          *)
THEOREM PartsGoForward == Spec => PartsGoOn
<1>1. DataInv /\ [Next]_vars => [GoesOn]_vars
  <2> SUFFICES ASSUME DataInv, Next PROVE GoesOn \/ UNCHANGED vars
    OBVIOUS
  <2>1. ASSUME NEW m \in Messages, Check(m) \/ SendChunk(m) \/ Save(m) \/ Arm(m) PROVE GoesOn
    BY <2>1, CallGoesOn, ChunkGoesOn, SaveGoesOn
  <2>2. ASSUME NEW w \in Callbacks, MovesOn(w) PROVE GoesOn
    <3>1. callbacks[w].batch = <<>> /\ UNCHANGED <<queue, callers, fate, written>>
      BY <2>2, MovesOnFacts
    <3>2. PICK to : Goes(w, to, <<>>, FALSE)
      BY <2>2, MovesOnFacts
    <3>3. \A v \in Callbacks : Taken(v)' = Taken(v)
      BY <3>1, <3>2 DEF Goes, Taken, DataInv, TypeOK
    <3> QED BY <3>1, <3>3, QuietGoesOn DEF ToDo
  <2>3. CASE Environment
    BY <2>3, EnvironmentFacts, QuietGoesOn DEF DataInv, ToDo, Taken
  <2> QED BY <2>1, <2>2, <2>3, NextCases, FlushGoesOn, BatchGoesOn
<1> QED BY <1>1, DataInvariant, PTL DEF Spec, PartsGoOn

================================================================================
