---------------------------- MODULE ConcernLifecycle ----------------------------
(* From the queue of ids to the notifications, and how it is stopped: the         *)
(* goroutine of one EmitQueue (utils/emitQueue.go), the fresher and the           *)
(* dispatchers of its StateManager (lsp/concern/stateManager.go), the goroutines  *)
(* of large notifications, the reader of the notify channel (lsp/notify.go) and   *)
(* Lsp.Stop, which closes the channels in turn (lsp/module.go, concern/           *)
(* registry.go).  A channel operation, a critical section or a call on a          *)
(* WaitGroup is one step.  The goroutines are running in the initial state.       *)
EXTENDS Naturals, Sequences, FiniteSets, SequencesExt

CONSTANTS Ids, NoId,      \* subscribed ids; none
          Lists,          \* bound: what Start may find in the table, in its order
          Events, NoEvent,\* bound: the events the fresher finds; none
          Dispatchers,
          Groups,         \* notifications of an event that has any
          EventCap, NotifyCap, \* capacities of eventChan and notifyChan
          MsgLimit,       \* sends at a time
          MaxCommands,    \* bound: Add and Delete together
          MaxPanics       \* bound: panics of generators, filters and hooks

ASSUME IdAssumption == NoId \notin Ids /\ NoEvent \notin Events
ASSUME ListAssumption == /\ Lists \subseteq Seq(Ids)
                         /\ \A s \in Lists : IsInjective(s)
ASSUME CapacityAssumption == /\ EventCap \in Nat \ {0} /\ NotifyCap \in Nat \ {0}
                             /\ MsgLimit \in Nat \ {0} /\ Groups \in Nat \ {0}
ASSUME ActorAssumption == IsFiniteSet(Events) /\ Dispatchers # {}

VARIABLES
  list, cur,    \* eqlist and eqlistCur
  core,         \* the goroutine of the queue
  stop,         \* how far Lsp.Stop is
  fresher,      \* StateManager.Fresh
  fresh,        \* events that were not found yet
  events,       \* eventChan
  dispatcher,   \* StateManager.Dispatch
  large,        \* what the goroutine of each large event has yet to write
  notify,       \* notifyChan
  reader,       \* ConcernNotify
  outgoing,     \* notifications that are being sent, by event
  handled,      \* notifications that were sent, skipped or discarded, by event
  fate,         \* history: what the dispatcher made of each event
  missed,       \* history: the queue was about to wait when Stop broadcast
  commands, panics, crashed

polling  == <<list, cur, core>>
finding  == <<fresher, fresh, events>>
pushing  == <<dispatcher, large, notify>>
sending  == <<reader, outgoing, handled>>
history  == <<fate, missed>>
bounds   == <<commands, panics, crashed>>
vars     == <<polling, stop, finding, pushing, sending, history, bounds>>

--------------------------------------------------------------------------------
(* Lsp.Stop, in its order.  StateManager.Stop is everything from "queue" to        *)
(* "dispatchers", EmitQueue.Stop the part up to "broadcast".                      *)
Order == <<"none", "stored", "closed", "broadcast", "cancel", "fresher", "dispatchers", "reader",
           "sends", "done">>
Rank(s)     == CHOOSE i \in DOMAIN Order : Order[i] = s
Reached(s)  == Rank(stop) >= Rank(s)

Stopped      == Reached("stored")       \* EmitQueue.stopped
StopClosed   == Reached("closed")       \* EmitQueue.stop is closed
EmitClosed   == Reached("cancel")       \* emitChan is closed
Cancelled    == Reached("fresher")      \* the context is done
EventsClosed == Reached("dispatchers")  \* eventChan is closed
NotifyClosed == Reached("reader")       \* notifyChan is closed

TypeOK ==
  /\ list \in Seq(Ids) /\ IsInjective(list)
  /\ cur \in Range(list) \cup {NoId}
  /\ core \in [pc : {"test", "parking", "parked", "timer", "emit", "ended"}, id : Ids \cup {NoId}]
  /\ stop \in Range(Order)
  /\ fresher \in {"select", "fresh", "send", "panicked", "ended"}
  /\ fresh \subseteq Events /\ events \in Seq(Events)
  /\ dispatcher \in [Dispatchers -> [pc : {"range", "push", "panicked", "ended"},
                                     event : Events \cup {NoEvent}, left : Nat]]
  /\ large \in [Events -> Nat] /\ notify \in Seq(Events)
  /\ reader \in {"read", "acquire", "panicked", "ended"} \X (Events \cup {NoEvent})
  /\ outgoing \in [Events -> Nat] /\ handled \in [Events -> Nat]
  /\ fate \in [Events -> {"none", "quiet", "small", "large", "lost"}]
  /\ missed \in BOOLEAN /\ commands \in Nat /\ panics \in Nat /\ crashed \in BOOLEAN

Loop(pc)         == [pc |-> pc, id |-> NoId]
Idle(pc)         == [pc |-> pc, event |-> NoEvent, left |-> 0]
Pushing(e, left) == [pc |-> "push", event |-> e, left |-> left]

Init ==
  /\ list \in Lists /\ cur = IF list = <<>> THEN NoId ELSE Head(list)
  /\ core = Loop("test") /\ stop = "none"
  /\ fresher = "select" /\ fresh = Events /\ events = <<>>
  /\ dispatcher = [d \in Dispatchers |-> Idle("range")]
  /\ large = [e \in Events |-> 0] /\ notify = <<>> /\ reader = <<"read", NoEvent>>
  /\ outgoing = [e \in Events |-> 0] /\ handled = [e \in Events |-> 0]
  /\ fate = [e \in Events |-> "none"] /\ missed = FALSE
  /\ commands = 0 /\ panics = 0 /\ crashed = FALSE

Up == ~crashed
Panic == panics < MaxPanics /\ panics' = panics + 1

--------------------------------------------------------------------------------
(* EmitQueue.  Add, Delete and the loop take turns under the lock of cond; the    *)
(* loop holds it from its test until it is registered as a waiter.                *)

Place(i) == CHOOSE j \in DOMAIN list : list[j] = i
After(i) == IF Place(i) = Len(list) THEN NoId ELSE list[Place(i) + 1]

Unlocked == core.pc # "parking"
OneMore  == commands < MaxCommands /\ commands' = commands + 1

\* The first id of an empty list wakes the loop.
Add(i) ==
  /\ Up /\ Unlocked /\ OneMore
  /\ list' = IF i \in Range(list) THEN list ELSE Append(list, i)
  /\ IF Len(list') = 1
     THEN /\ cur' = i
          /\ core' = IF core.pc = "parked" THEN Loop("test") ELSE core
     ELSE UNCHANGED <<cur, core>>
  /\ UNCHANGED <<stop, finding, pushing, sending, history, panics, crashed>>

\* Mutant: the cursor stays on the element that is removed.
DeleteKeepsCursor(i) ==
  /\ Up /\ Unlocked /\ OneMore
  /\ i \in Range(list)
  /\ list' = RemoveAt(list, Place(i)) /\ UNCHANGED cur
  /\ UNCHANGED <<core, stop, finding, pushing, sending, history, panics, crashed>>

Delete(i) ==
  /\ Up /\ Unlocked /\ OneMore
  /\ i \in Range(list)
  /\ list' = RemoveAt(list, Place(i))
  /\ cur' = IF cur = i THEN After(i) ELSE cur
  /\ UNCHANGED <<core, stop, finding, pushing, sending, history, panics, crashed>>

CoreTest ==
  /\ Up /\ core.pc = "test"
  /\ core' = Loop(IF list = <<>> /\ ~Stopped THEN "parking" ELSE "timer")
  /\ UNCHANGED <<list, cur, stop, finding, pushing, sending, history, bounds>>

CorePark ==
  /\ Up /\ core.pc = "parking"
  /\ core' = Loop("parked")
  /\ UNCHANGED <<list, cur, stop, finding, pushing, sending, history, bounds>>

\* Mutant: the cursor returns to the front after every id.
TakeFront ==
  /\ Up /\ core.pc = "timer"
  /\ IF list = <<>>
     THEN core' = Loop("test") /\ UNCHANGED cur
     ELSE core' = [pc |-> "emit", id |-> Head(list)] /\ cur' = Head(list)
  /\ UNCHANGED <<list, stop, finding, pushing, sending, history, bounds>>

\* The timer fires; the list may have been emptied meanwhile.
Take ==
  /\ Up /\ core.pc = "timer"
  /\ IF list = <<>>
     THEN core' = Loop("test") /\ UNCHANGED cur
     ELSE LET i == IF cur = NoId THEN Head(list) ELSE cur
          IN core' = [pc |-> "emit", id |-> i] /\ cur' = After(i)
  /\ UNCHANGED <<list, stop, finding, pushing, sending, history, bounds>>

\* emitChan has no buffer: the fresher takes the id, which may be unlisted by now.
Emit ==
  /\ Up /\ core.pc = "emit" /\ fresher = "select"
  /\ core' = Loop("test")
  /\ fresher' = "fresh"
  /\ UNCHANGED <<list, cur, stop, fresh, events, pushing, sending, history, bounds>>

CoreEnds ==
  /\ Up /\ core.pc \in {"timer", "emit"} /\ StopClosed
  /\ core' = Loop("ended")
  /\ UNCHANGED <<list, cur, stop, finding, pushing, sending, history, bounds>>

--------------------------------------------------------------------------------
(* The fresher (EmitQueueFresher).                                                *)

\* Nothing to refresh or an error; some events; a panic.
Refresh ==
  /\ Up /\ fresher = "fresh"
  /\ \/ fresher' = "select" /\ UNCHANGED panics
     \/ fresh # {} /\ fresher' = "send" /\ UNCHANGED panics
     \/ Panic /\ fresher' = "panicked"
  /\ UNCHANGED <<polling, stop, fresh, events, pushing, sending, history, commands, crashed>>

SendEvent ==
  /\ Up /\ fresher = "send" /\ ~EventsClosed /\ Len(events) < EventCap
  /\ \E e \in fresh : events' = Append(events, e) /\ fresh' = fresh \ {e}
  /\ \/ fresher' = "select"
     \/ fresh' # {} /\ UNCHANGED fresher
  /\ UNCHANGED <<polling, stop, pushing, sending, history, bounds>>

\* A panic ends the goroutine, counts it off freshWg and starts another one.
FreshAgain ==
  /\ Up /\ fresher = "panicked"
  /\ fresher' = "select"
  /\ UNCHANGED <<polling, stop, fresh, events, pushing, sending, history, bounds>>

FreshEnds ==
  /\ Up /\ fresher = "select" /\ (EmitClosed \/ Cancelled)
  /\ fresher' = "ended"
  /\ UNCHANGED <<polling, stop, fresh, events, pushing, sending, history, bounds>>

--------------------------------------------------------------------------------
(* DefaultDispatch.                                                               *)

Ranges(d) == Up /\ dispatcher[d].pc = "range"

\* Nobody subscribes the event or every notification is filtered; few of them; many
\* of them, which a goroutine of its own writes; a generator or a filter panics.
Dispatch(d) ==
  /\ Ranges(d) /\ events # <<>>
  /\ events' = Tail(events)
  /\ LET e == Head(events) IN
       \/ /\ fate' = [fate EXCEPT ![e] = "quiet"]
          /\ UNCHANGED <<dispatcher, large, panics>>
       \/ /\ fate' = [fate EXCEPT ![e] = "small"]
          /\ dispatcher' = [dispatcher EXCEPT ![d] = Pushing(e, Groups)]
          /\ UNCHANGED <<large, panics>>
       \/ /\ fate' = [fate EXCEPT ![e] = "large"]
          /\ large' = [large EXCEPT ![e] = Groups]
          /\ UNCHANGED <<dispatcher, panics>>
       \/ /\ Panic /\ fate' = [fate EXCEPT ![e] = "lost"]
          /\ dispatcher' = [dispatcher EXCEPT ![d] = Idle("panicked")] /\ UNCHANGED large
  /\ UNCHANGED <<polling, stop, fresher, fresh, notify, sending, missed, commands, crashed>>

\* Writing to the closed channel is a panic, recovered like any other.
Push(d) ==
  /\ Up /\ dispatcher[d].pc = "push"
  /\ \/ /\ ~NotifyClosed /\ Len(notify) < NotifyCap
        /\ notify' = Append(notify, dispatcher[d].event)
        /\ dispatcher' = [dispatcher EXCEPT ![d] =
             IF @.left > 1 THEN Pushing(@.event, @.left - 1) ELSE Idle("range")]
        /\ UNCHANGED fate
     \/ /\ NotifyClosed
        /\ dispatcher' = [dispatcher EXCEPT ![d] = Idle("panicked")]
        /\ fate' = [fate EXCEPT ![dispatcher[d].event] = "lost"]
        /\ UNCHANGED notify
  /\ UNCHANGED <<polling, stop, finding, large, sending, missed, bounds>>

DispatchAgain(d) ==
  /\ Up /\ dispatcher[d].pc = "panicked"
  /\ dispatcher' = [dispatcher EXCEPT ![d] = Idle("range")]
  /\ UNCHANGED <<polling, stop, finding, large, notify, sending, history, bounds>>

DispatchEnds(d) ==
  /\ Ranges(d) /\ events = <<>> /\ EventsClosed
  /\ dispatcher' = [dispatcher EXCEPT ![d] = Idle("ended")]
  /\ UNCHANGED <<polling, stop, finding, large, notify, sending, history, bounds>>

\* One notification per tick; nobody recovers a panic of this goroutine.
PushLarge(e) ==
  /\ Up /\ large[e] > 0
  /\ \/ /\ ~NotifyClosed /\ Len(notify) < NotifyCap
        /\ notify' = Append(notify, e) /\ large' = [large EXCEPT ![e] = @ - 1]
        /\ UNCHANGED crashed
     \/ NotifyClosed /\ crashed' = TRUE /\ UNCHANGED <<notify, large>>
  /\ UNCHANGED <<polling, stop, finding, dispatcher, sending, history, commands, panics>>

--------------------------------------------------------------------------------
(* ConcernNotify: one reader for all concerns.                                    *)

Done(e) == handled' = [handled EXCEPT ![e] = @ + 1]

\* Muted, no concern, an empty message and a Telegram group end here.
Read ==
  /\ Up /\ reader[1] = "read" /\ notify # <<>>
  /\ notify' = Tail(notify)
  /\ LET e == Head(notify) IN
       \/ Done(e) /\ UNCHANGED <<reader, panics>>
       \/ reader' = <<"acquire", e>> /\ UNCHANGED <<handled, panics>>
       \/ Panic /\ reader' = <<"panicked", NoEvent>> /\ UNCHANGED handled
  /\ UNCHANGED <<polling, stop, finding, dispatcher, large, outgoing, history, commands,
                 crashed>>

Sending == Cardinality(UNION {{e} \X (1..outgoing[e]) : e \in Events})

\* After a minute without a free place the notification is discarded.
Acquire ==
  /\ Up /\ reader[1] = "acquire"
  /\ \/ /\ Sending < MsgLimit
        /\ outgoing' = [outgoing EXCEPT ![reader[2]] = @ + 1] /\ UNCHANGED handled
     \/ Sending >= MsgLimit /\ Done(reader[2]) /\ UNCHANGED outgoing
  /\ reader' = <<"read", NoEvent>>
  /\ UNCHANGED <<polling, stop, finding, pushing, history, bounds>>

\* The goroutine of a notification ends, by a recovered panic or otherwise.
Sent(e) ==
  /\ Up /\ outgoing[e] > 0
  /\ outgoing' = [outgoing EXCEPT ![e] = @ - 1] /\ Done(e)
  /\ UNCHANGED <<polling, stop, finding, pushing, reader, history, bounds>>

ReadAgain ==
  /\ Up /\ reader[1] = "panicked"
  /\ reader' = <<"read", NoEvent>>
  /\ UNCHANGED <<polling, stop, finding, pushing, outgoing, handled, history, bounds>>

ReadEnds ==
  /\ Up /\ reader[1] = "read" /\ notify = <<>> /\ NotifyClosed
  /\ reader' = <<"ended", NoEvent>>
  /\ UNCHANGED <<polling, stop, finding, pushing, outgoing, handled, history, bounds>>

--------------------------------------------------------------------------------
(* Lsp.Stop.                                                                      *)

Advance(from, to) == Up /\ stop = from /\ stop' = to
Only == UNCHANGED <<list, cur, finding, pushing, sending, fate, bounds>>

StoreStopped == Advance("none", "stored") /\ Only /\ UNCHANGED <<core, missed>>
CloseStop    == Advance("stored", "closed") /\ Only /\ UNCHANGED <<core, missed>>

\* Mutant: nobody is woken.
BroadcastNot == Advance("closed", "broadcast") /\ Only /\ UNCHANGED <<core, missed>>

\* Broadcast does not take the lock: a loop that is about to wait is not woken.
Broadcast ==
  /\ Advance("closed", "broadcast") /\ Only
  /\ core' = IF core.pc = "parked" THEN Loop("test") ELSE core
  /\ missed' = (core.pc = "parking")

(* Each Wait returns when every goroutine it counts has counted itself off; one   *)
(* that panicked has, although another one is about to take its place.            *)
Off == {"ended", "panicked"}

CloseEmit   == core.pc = "ended" /\ Advance("broadcast", "cancel") /\ Only /\ UNCHANGED <<core, missed>>
Cancel      == Advance("cancel", "fresher") /\ Only /\ UNCHANGED <<core, missed>>

\* Mutant: eventChan is closed without waiting for the fresher.
CloseEventsEarly == Advance("fresher", "dispatchers") /\ Only /\ UNCHANGED <<core, missed>>

CloseEvents == fresher \in Off /\ Advance("fresher", "dispatchers") /\ Only /\ UNCHANGED <<core, missed>>

CloseNotify == /\ \A d \in Dispatchers : dispatcher[d].pc \in Off
               /\ Advance("dispatchers", "reader") /\ Only /\ UNCHANGED <<core, missed>>

\* Mutant: the reader is not waited for.
AwaitNobody == Advance("reader", "sends") /\ Only /\ UNCHANGED <<core, missed>>

AwaitReader == reader[1] \in Off /\ Advance("reader", "sends") /\ Only /\ UNCHANGED <<core, missed>>
AwaitSends  == Sending = 0 /\ Advance("sends", "done") /\ Only /\ UNCHANGED <<core, missed>>

--------------------------------------------------------------------------------
Core      == CoreTest \/ CorePark \/ Take \/ Emit \/ CoreEnds
Fresh     == Refresh \/ SendEvent \/ FreshAgain \/ FreshEnds
Worker(d) == Dispatch(d) \/ Push(d) \/ DispatchAgain(d) \/ DispatchEnds(d)
Reader    == Read \/ Acquire \/ ReadAgain \/ ReadEnds
Stopping  == CloseStop \/ Broadcast \/ CloseEmit \/ Cancel \/ CloseEvents \/ CloseNotify
               \/ AwaitReader \/ AwaitSends

Next == \/ Core \/ Fresh \/ Reader \/ StoreStopped \/ Stopping
        \/ \E d \in Dispatchers : Worker(d)
        \/ \E e \in Events : PushLarge(e) \/ Sent(e)
        \/ \E i \in Ids : Add(i) \/ Delete(i)

Spec == Init /\ [][Next]_vars

(* Goroutines run, timers fire and requests time out, and a select between two      *)
(* ready channels takes each of them now and then; nobody has to stop the bot or  *)
(* to type a command.                                                             *)
FairSpec == /\ Spec
            /\ WF_vars(Core) /\ SF_vars(CoreEnds) /\ WF_vars(Fresh) /\ WF_vars(Reader) /\ WF_vars(Stopping)
            /\ \A d \in Dispatchers : WF_vars(Worker(d))
            /\ \A e \in Events : WF_vars(PushLarge(e)) /\ WF_vars(Sent(e))

--------------------------------------------------------------------------------
(* Properties.                                                                    *)

(* The fresher never has an event for a closed eventChan: the order of Stop keeps  *)
(* it from starting another round, panics and restarts of it included.            *)
NoSendOnClosed == fresher = "send" => ~EventsClosed

(* concern/registry.go: nothing may be written to notifyChan once StopAll has      *)
(* closed it.  Without a panic only the goroutine of a large event still can.     *)
ClosedAndQuiet == NotifyClosed /\ panics = 0 =>
  events = <<>> /\ \A d \in Dispatchers : dispatcher[d].pc = "ended"

(* Nothing is written to a channel that Stop has closed, but for that goroutine.   *)
NothingAfterClose == NoSendOnClosed /\ ClosedAndQuiet

(* When Stop returns and nothing panicked, every event that was found was          *)
(* dispatched and every notification of a small one was handled, exactly once.    *)
NothingLost == stop = "done" /\ panics = 0 /\ ~crashed =>
  \A e \in Events \ fresh : /\ fate[e] # "none"
                            /\ fate[e] = "small" => handled[e] = Groups

(* Nothing is notified twice, whoever panicked and was started again.              *)
NeverTwice == \A e \in Events : handled[e] + outgoing[e] <= Groups

(* An event that was found is notified, to each group once.                       *)
NotifiedOnce == NothingLost /\ NeverTwice

(* Every listed id gets its turn.                                                  *)
EveryIdIsPolled == \A i \in Ids :
  i \in Range(list) ~> core.id = i \/ i \notin Range(list) \/ stop # "none"

(* Stop returns, but for one lost wake-up: the loop tested the empty list before   *)
(* Stop stored its flag and starts to wait after the broadcast.                   *)
StopReturns == stop # "none" ~> stop = "done" \/ missed \/ crashed
================================================================================
