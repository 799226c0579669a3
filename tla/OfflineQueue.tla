------------------------------ MODULE OfflineQueue ------------------------------
(* The messenger's send path and its offline queue (adapter/messenger.go).  A    *)
(* send that finds the bot disconnected is parked; a send that is cut off before *)
(* it is written parks what is left of it.  A retry timer and the OneBot events  *)
(* lifecycle and heartbeat, each handled in a goroutine of its own (wsclient.go, *)
(* readLoop), flush the queue.  Senders, timer callbacks, event goroutines, the  *)
(* WebSocket and Stop interleave.  The queue is enabled (bot.offlineQueue.enable). *)
EXTENDS Integers, Sequences

CONSTANTS Messages,    \* calls of SendGroupMessage or SendPrivateMessage
          Size,        \* Size[m]: chunks buildMessageChunks makes of m
          Callbacks,   \* goroutines of timers and events alive at a time
          QueueMax     \* offlineQueueMaxSize

ASSUME SizeAssumption     == Size \in [Messages -> Nat \ {0}]
ASSUME QueueMaxAssumption == QueueMax \in Nat \ {0}

VARIABLES
  link,       \* WSClient.isConnected
  online,     \* Messenger.Online, the account status
  stopped,    \* stopChan is closed
  queue,      \* offlineQueue: each entry is the set of parts one send will carry
  timer,      \* offlineFlushScheduled, with the pending time.AfterFunc
  callers,    \* each send call: where it is and the entries it still has to deal with
  callbacks,  \* each callback goroutine: where it is, the entries a flush took
  fate,       \* what became of each part
  written     \* requests written to a connection that carried each part

vars == <<link, online, stopped, queue, timer, callers, callbacks, fate, written>>

--------------------------------------------------------------------------------
Parts == UNION {{m} \X (1..Size[m]) : m \in Messages}
Whole(m)  == {m} \X (1..Size[m])
Chunks(m) == [i \in 1..Size[m] |-> {<<m, i>>}]

Answers   == {"sent", "queued", "unknown", "rejected"}
Fates     == {"open", "sent", "unknown", "rejected", "abandoned", "expired", "evicted"}
Entries   == (SUBSET Parts) \ {{}}

Caller   == [pc : {"idle", "send", "save", "arm"} \cup Answers, todo : Seq(Entries)]
Callback == [pc : {"idle", "fired", "wait", "flush", "resend",
                   "stay up", "come up"},
             batch : Seq(Entries), failed : BOOLEAN]
Gone     == [pc |-> "idle", batch |-> <<>>, failed |-> FALSE]

Connected == online /\ link

TypeOK == /\ link \in BOOLEAN /\ online \in BOOLEAN /\ stopped \in BOOLEAN /\ timer \in BOOLEAN
          /\ queue \in Seq(Entries) /\ Len(queue) <= QueueMax
          /\ callers \in [Messages -> Caller]
          /\ callbacks \in [Callbacks -> Callback]
          /\ fate \in [Parts -> Fates]
          /\ written \in [Parts -> Nat]

Init == /\ link = FALSE /\ online = FALSE /\ stopped = FALSE /\ timer = FALSE
        /\ queue = <<>>
        /\ callers = [m \in Messages |-> [pc |-> "idle", todo |-> <<>>]]
        /\ callbacks = [w \in Callbacks |-> Gone]
        /\ fate = [p \in Parts |-> "open"]
        /\ written = [p \in Parts |-> 0]

--------------------------------------------------------------------------------
(* Helpers. *)
Settle(f, parts, how) == [p \in Parts |-> IF p \in parts THEN how ELSE f[p]]
InLine(entries)       == UNION {entries[i] : i \in DOMAIN entries}

\* A mutant: the capacity is tested with > instead of >=.
PushOneMore(entry) ==
  /\ queue' = Append(IF Len(queue) > QueueMax THEN Tail(queue) ELSE queue, entry)
  /\ fate' = IF Len(queue) > QueueMax THEN Settle(fate, Head(queue), "evicted") ELSE fate

(* saveOfflineMsg: a full queue drops its head. *)
Push(entry) ==
  /\ queue' = Append(IF Len(queue) >= QueueMax THEN Tail(queue) ELSE queue, entry)
  /\ fate' = IF Len(queue) >= QueueMax THEN Settle(fate, Head(queue), "evicted") ELSE fate

(* One call of the adapter (SendAndWait).  Without a connection nothing is       *)
(* written; a request that was written is acknowledged, rejected, or its result  *)
(* stays unknown: write error, connection ended, timeout, or an unmarked error.  *)
Outcomes == IF link THEN {"sent", "rejected", "unknown"} ELSE {"not_sent"}
Deliver(entry, outcome) ==
  written' = IF outcome = "not_sent" THEN written
             ELSE [p \in Parts |-> IF p \in entry THEN written[p] + 1 ELSE written[p]]

\* At(m, to, entries), Goes(w, to, entries, failed): where a caller or callback is next.
At(m, to, entries) == callers' = [callers EXCEPT ![m] = [pc |-> to, todo |-> entries]]
Goes(w, to, entries, failed) ==
  callbacks' = [callbacks EXCEPT ![w] = [pc |-> to, batch |-> entries, failed |-> failed]]

--------------------------------------------------------------------------------
(* SendGroupMessage and SendPrivateMessage. *)
Check(m) ==
  /\ callers[m].pc = "idle"
  /\ IF Connected THEN At(m, "send", Chunks(m)) ELSE At(m, "save", <<Whole(m)>>)
  /\ UNCHANGED <<link, online, stopped, queue, timer, callbacks, fate, written>>

\* A mutant: a chunk that fails is logged and the loop goes on.
SendGoesOn(m) ==
  /\ callers[m].pc = "send"
  /\ \E outcome \in Outcomes :
       /\ Deliver(Head(callers[m].todo), outcome)
       /\ IF outcome = "not_sent"
            THEN At(m, "save", callers[m].todo) /\ UNCHANGED fate
            ELSE /\ At(m, IF Len(callers[m].todo) = 1 THEN "sent" ELSE "send", Tail(callers[m].todo))
                 /\ fate' = Settle(fate, Head(callers[m].todo), outcome)
  /\ UNCHANGED <<link, online, stopped, queue, timer, callbacks>>

SendChunk(m) ==
  /\ callers[m].pc = "send"
  /\ \E outcome \in Outcomes :
       /\ Deliver(Head(callers[m].todo), outcome)
       /\ CASE outcome = "sent" ->
                 /\ At(m, IF Len(callers[m].todo) = 1 THEN "sent" ELSE "send", Tail(callers[m].todo))
                 /\ fate' = Settle(fate, Head(callers[m].todo), "sent")
            [] outcome \in {"unknown", "rejected"} ->
                 /\ At(m, outcome, <<>>)
                 /\ fate' = Settle(Settle(fate, InLine(callers[m].todo), "abandoned"),
                                   Head(callers[m].todo), outcome)
            [] outcome = "not_sent" ->
                 At(m, "save", callers[m].todo) /\ UNCHANGED fate
  /\ UNCHANGED <<link, online, stopped, queue, timer, callbacks>>

(* queueUnsentChunks and the offline branch: one saveOfflineMsg per entry. *)
Save(m) ==
  /\ callers[m].pc = "save"
  /\ Push(Head(callers[m].todo))
  /\ At(m, IF Len(callers[m].todo) = 1 THEN "arm" ELSE "save", Tail(callers[m].todo))
  /\ UNCHANGED <<link, online, stopped, timer, callbacks, written>>

Arm(m) ==
  /\ callers[m].pc = "arm"
  /\ timer' = TRUE
  /\ At(m, "queued", <<>>)
  /\ UNCHANGED <<link, online, stopped, queue, callbacks, fate, written>>

--------------------------------------------------------------------------------
(* scheduleOfflineQueueFlush's timer and its callback. *)
Fire(w) ==
  /\ timer /\ callbacks[w].pc = "idle"
  /\ timer' = FALSE
  /\ Goes(w, "fired", <<>>, FALSE)
  /\ UNCHANGED <<link, online, stopped, queue, callers, fate, written>>

Decide(w) ==
  /\ callbacks[w].pc = "fired"
  /\ Goes(w, IF stopped THEN "idle" ELSE IF Connected THEN "flush" ELSE "wait", <<>>, FALSE)
  /\ UNCHANGED <<link, online, stopped, queue, timer, callers, fate, written>>

Wait(w) ==
  /\ callbacks[w].pc = "wait"
  /\ timer' = (timer \/ queue # <<>>)
  /\ Goes(w, "idle", <<>>, FALSE)
  /\ UNCHANGED <<link, online, stopped, queue, callers, fate, written>>

(* flushOfflineQueue, under offlineQueueFlushMu.  The connection is looked at    *)
(* again once the mutex is held.                                                 *)
Flushing == \E w \in Callbacks : callbacks[w].pc = "resend"

\* A mutant: the flush works on a copy (loadOfflineMsgs) of the queue.
FlushCopies(w) ==
  /\ callbacks[w].pc = "flush" /\ ~Flushing
  /\ Goes(w, IF Connected /\ queue # <<>> THEN "resend" ELSE "idle",
          IF Connected THEN queue ELSE <<>>, FALSE)
  /\ UNCHANGED <<link, online, stopped, queue, timer, callers, fate, written>>

Flush(w) ==
  /\ callbacks[w].pc = "flush" /\ ~Flushing
  /\ IF Connected /\ queue # <<>>
       THEN Goes(w, "resend", queue, FALSE) /\ queue' = <<>>
       ELSE Goes(w, "idle", <<>>, FALSE) /\ UNCHANGED queue
  /\ UNCHANGED <<link, online, stopped, timer, callers, fate, written>>

Expire(w) ==
  /\ callbacks[w].pc = "resend" /\ callbacks[w].batch # <<>>
  /\ fate' = Settle(fate, Head(callbacks[w].batch), "expired")
  /\ Goes(w, "resend", Tail(callbacks[w].batch), callbacks[w].failed)
  /\ UNCHANGED <<link, online, stopped, queue, timer, callers, written>>

Resend(w) ==
  /\ callbacks[w].pc = "resend" /\ callbacks[w].batch # <<>>
  /\ \E outcome \in Outcomes :
       /\ Deliver(Head(callbacks[w].batch), outcome)
       /\ Goes(w, "resend", Tail(callbacks[w].batch),
               callbacks[w].failed \/ outcome = "not_sent")
       /\ IF outcome = "not_sent"
            THEN Push(Head(callbacks[w].batch))
            ELSE fate' = Settle(fate, Head(callbacks[w].batch), outcome) /\ UNCHANGED queue
  /\ UNCHANGED <<link, online, stopped, timer, callers>>

\* Mutants: what failed is not scheduled again; an early return keeps the mutex.
FinishForgets(w) ==
  /\ callbacks[w].pc = "resend" /\ callbacks[w].batch = <<>>
  /\ Goes(w, "idle", <<>>, FALSE)
  /\ UNCHANGED <<link, online, stopped, queue, timer, callers, fate, written>>
FinishLocked(w) ==
  /\ callbacks[w].pc = "resend" /\ callbacks[w].batch = <<>>
  /\ timer' = (timer \/ callbacks[w].failed)
  /\ IF callbacks[w].failed THEN Goes(w, "resend", <<>>, TRUE) ELSE Goes(w, "idle", <<>>, FALSE)
  /\ UNCHANGED <<link, online, stopped, queue, callers, fate, written>>

Finish(w) ==
  /\ callbacks[w].pc = "resend" /\ callbacks[w].batch = <<>>
  /\ timer' = (timer \/ callbacks[w].failed)
  /\ Goes(w, "idle", <<>>, FALSE)
  /\ UNCHANGED <<link, online, stopped, queue, callers, fate, written>>

--------------------------------------------------------------------------------
(* OneBot events.  Each is handled in a goroutine of its own, in any order and    *)
(* possibly after the connection that brought it has dropped again, so link is    *)
(* not asked.  Lifecycle swaps Online; a heartbeat reads it and then stores the   *)
(* status (for "offline" only the store matters).                                 *)
Lifecycle(w) ==
  /\ callbacks[w].pc = "idle" /\ ~stopped
  /\ online' = TRUE
  /\ Goes(w, IF online THEN "idle" ELSE "flush", <<>>, FALSE)
  /\ UNCHANGED <<link, stopped, queue, timer, callers, fate, written>>

HeartbeatDown ==
  /\ ~stopped
  /\ online' = FALSE
  /\ UNCHANGED <<link, stopped, queue, timer, callers, callbacks, fate, written>>

HeartbeatUp(w) ==
  /\ callbacks[w].pc = "idle" /\ ~stopped
  /\ Goes(w, IF online THEN "stay up" ELSE "come up", <<>>, FALSE)
  /\ UNCHANGED <<link, online, stopped, queue, timer, callers, fate, written>>

HeartbeatStore(w) ==
  /\ callbacks[w].pc \in {"stay up", "come up"}
  /\ online' = TRUE
  /\ Goes(w, IF callbacks[w].pc = "come up" THEN "flush" ELSE "idle", <<>>, FALSE)
  /\ UNCHANGED <<link, stopped, queue, timer, callers, fate, written>>

(* The WebSocket (connectLoop, handleConnection) and Messenger.Stop. *)
LinkUp   == /\ ~link /\ ~stopped /\ link' = TRUE
            /\ UNCHANGED <<online, stopped, queue, timer, callers, callbacks, fate, written>>
LinkDown == /\ link /\ link' = FALSE
            /\ UNCHANGED <<online, stopped, queue, timer, callers, callbacks, fate, written>>
Stop     == /\ ~stopped /\ stopped' = TRUE /\ link' = FALSE
            /\ UNCHANGED <<online, queue, timer, callers, callbacks, fate, written>>

Caller_(m)   == Check(m) \/ SendChunk(m) \/ Save(m) \/ Arm(m)
Callback_(w) == \/ Decide(w) \/ Wait(w) \/ Flush(w) \/ Expire(w) \/ Resend(w) \/ Finish(w)
                \/ HeartbeatStore(w)

Next == \/ \E m \in Messages : Caller_(m)
        \/ \E w \in Callbacks : Fire(w) \/ Callback_(w) \/ Lifecycle(w) \/ HeartbeatUp(w)
        \/ HeartbeatDown \/ LinkUp \/ LinkDown \/ Stop

Spec == Init /\ [][Next]_vars

(* Goroutines that are ready run and every adapter call returns (SendAndWait has *)
(* a timeout), so callers and callbacks make progress; a pending timer gets its  *)
(* goroutine whatever events arrive (strong fairness: here events and timers     *)
(* share the bounded Callbacks).  Calls, events, connections and Stop come or do *)
(* not come.                                                                     *)
Fairness == /\ \A m \in Messages : WF_vars(SendChunk(m) \/ Save(m) \/ Arm(m))
            /\ \A w \in Callbacks : WF_vars(Callback_(w))
            /\ SF_vars(\E w \in Callbacks : Fire(w))

FairSpec == Spec /\ Fairness

--------------------------------------------------------------------------------
(* Properties. *)
\* Entries of one line carry different parts.
Apart(entries) == \A i, j \in DOMAIN entries : i # j => entries[i] \cap entries[j] = {}
Parked    == InLine(queue)
ToDo(m)   == InLine(callers[m].todo)
Taken(w)  == InLine(callbacks[w].batch)

(* Until its fate is settled, every part of a send is somewhere: with its caller, *)
(* in the queue, or with the flush that took it.  Races between saveOfflineMsg,   *)
(* takeOfflineMsgs and a flush that puts entries back lose nothing.               *)
NothingLost ==
  \A m \in Messages : callers[m].pc # "idle" =>
    \A p \in Whole(m) : fate[p] = "open" =>
      p \in ToDo(m) \/ p \in Parked \/ \E w \in Callbacks : p \in Taken(w)

(* ... and in one place only; what is settled (sent, unknown, rejected, expired,  *)
(* evicted) is in none, so no later flush sends it again.                         *)
NothingTwice ==
  /\ Apart(queue)
  /\ \A m \in Messages : Apart(callers[m].todo)
  /\ \A w \in Callbacks : Apart(callbacks[w].batch)
  /\ \A p \in Parked : fate[p] = "open"
  /\ \A m \in Messages : \A p \in ToDo(m) :
       p \in Whole(m) /\ fate[p] = "open" /\ p \notin Parked /\ \A w \in Callbacks : p \notin Taken(w)
  /\ \A w \in Callbacks : \A p \in Taken(w) :
       fate[p] = "open" /\ p \notin Parked /\ \A v \in Callbacks : v # w => p \notin Taken(v)

(* An unsettled part is in exactly one place, a settled one in none.              *)
InOnePlace == NothingLost /\ NothingTwice

(* The messenger never causes a duplicate: a part goes over the wire at most      *)
(* once, once when it was sent, rejected or its result is unknown, and never when *)
(* it expired, was evicted or abandoned, however sends, flushes and drops         *)
(* interleave.                                                                    *)
WrittenOnce ==
  \A p \in Parts : written[p] = IF fate[p] \in {"sent", "unknown", "rejected"} THEN 1 ELSE 0

(* An answer other than "queued" is final (SendResp.Status): "sent" is told only  *)
(* when every chunk was sent, and after "unknown" or "rejected" nothing of the    *)
(* message is still waiting to be sent, so a caller that retries (notify.go)      *)
(* does not compete with the queue.                                               *)
FinalAnswers ==
  \A m \in Messages :
    /\ callers[m].pc = "sent" => \A p \in Whole(m) : fate[p] = "sent"
    /\ callers[m].pc \in {"unknown", "rejected"} =>
         /\ \E p \in Whole(m) : fate[p] = callers[m].pc
         /\ \A p \in Whole(m) : fate[p] # "open"

(* What callers are told, what counts as settled and what went over the wire agree, *)
(* whoever sent the chunks, the caller or a flush.                                *)
AnswersMatchTheWire == WrittenOnce /\ FinalAnswers

(* Somebody will look at the queue: the timer is set, or its callback or a flush  *)
(* is on its way, or a caller is about to set the timer.                          *)
Watching == {"fired", "wait", "come up", "flush", "resend"}
Watched  == \/ timer
            \/ \E w \in Callbacks : callbacks[w].pc \in Watching
            \/ \E m \in Messages : callers[m].pc \in {"save", "arm"}

(* A queue that is not empty loses its last watcher in one way only: a flush got  *)
(* the mutex and found the connection down (flushOfflineQueue's second check).    *)
(* No interleaving of schedule, fire, save and put-back forgets the queue.        *)
FlushGivesUp == ~Connected /\ \E w \in Callbacks : callbacks[w].pc = "flush" /\ callbacks'[w].pc = "idle"
LosesWatch   == ~stopped /\ Watched /\ ~Watched' /\ queue' # <<>> => FlushGivesUp
OnlyAFlushGivesUp == [][LosesWatch]_vars

(* A watched queue drains: once the bot stays connected every parked message is   *)
(* sent, expired or evicted, unless the queue had lost its last watcher.          *)
DrainsWhenWatched ==
  (<>[](Connected /\ ~stopped) /\ [](queue # <<>> => Watched)) => []<>(queue = <<>>)

(* What the comments at messenger.go:246 and :1838 promise: after a reconnection  *)
(* no parked message stays for good.                                              *)
QueueDrains == <>[](Connected /\ ~stopped) => []<>(queue = <<>>)
================================================================================
