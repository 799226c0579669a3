------------------------------ MODULE ConcernState ------------------------------
(* One StateManager (lsp/concern/stateManager.go): the table of subscriptions in *)
(* BuntDB and the EmitQueue of ids to poll (utils/emitQueue.go), which is kept   *)
(* in memory.  A command commits its transaction, reads the id's types over all  *)
(* groups in a second transaction and only then changes the queue; commands of   *)
(* several users, of the HTTP API and of the refresh loop interleave.            *)
EXTENDS Integers, FiniteSets

CONSTANTS Groups, Ids, Types,
          Workers,            \* goroutines that run a command
          MaxGroupConcern,    \* limit of ids per group, 0: none
          NoId                \* an idle worker's id

ASSUME IdsAssumption   == IsFiniteSet(Ids) /\ NoId \notin Ids
ASSUME LimitAssumption == MaxGroupConcern \in Nat

VARIABLES
  table,     \* GroupConcernState: the types of each group and id; {} is no row
  queue,     \* EmitQueue.eqlist: the types polled for each id that is listed
  worker,    \* each command that committed and has yet to change the queue
  raced,     \* history: ids on which a removal overlapped another command
  leftover   \* history: ids a RemoveAllByGroupCode took rows from

vars == <<table, queue, worker, raced, leftover>>

Job  == [pc : {"read", "emit"}, op : {"add", "remove"}, id : Ids, seen : SUBSET Types]
Idle == [pc |-> "idle", op |-> "none", id |-> NoId, seen |-> {}]

TypeOK == /\ table \in [Groups -> [Ids -> SUBSET Types]]
          /\ \E listed \in SUBSET Ids : queue \in [listed -> SUBSET Types]
          /\ worker \in [Workers -> Job \cup {Idle}]
          /\ raced \subseteq Ids /\ leftover \subseteq Ids

Init == /\ table = [g \in Groups |-> [i \in Ids |-> {}]]
        /\ queue = [i \in {} |-> {}]
        /\ worker = [w \in Workers |-> Idle]
        /\ raced = {} /\ leftover = {}

--------------------------------------------------------------------------------
(* GetConcern: the types of an id in all groups; the ids a group subscribes. *)
Concern(i)  == UNION {table[g][i] : g \in Groups}
Held(g)     == {i \in Ids : table[g][i] # {}}

\* Mutants: a listed id is skipped; its types are replaced.
MergedNot(q, i, types)  == [j \in DOMAIN q \cup {i} |-> IF j \in DOMAIN q THEN q[j] ELSE types]
MergedOver(q, i, types) == [j \in DOMAIN q \cup {i} |-> IF j = i THEN types ELSE q[j]]

(* EmitQueue.Add merges, Update replaces the types of a listed id, Delete unlists. *)
Merged(q, i, types) == [j \in DOMAIN q \cup {i} |->
                          IF j # i THEN q[j] ELSE IF i \in DOMAIN q THEN q[i] \cup types ELSE types]
Updated(q, i, types) == [j \in DOMAIN q |-> IF j = i THEN types ELSE q[j]]
Deleted(q, i)        == [j \in DOMAIN q \ {i} |-> q[j]]

\* Commands on i that are between their commit and the change of the queue.
Busy(i)      == {w \in Workers : worker[w].id = i}
Meets(i, op) == \E w \in Busy(i) : op = "remove" \/ worker[w].op = "remove"
Committed(w, op, i) ==
  /\ worker' = [worker EXCEPT ![w] = [pc |-> "read", op |-> op, id |-> i, seen |-> {}]]
  /\ raced' = IF Meets(i, op) THEN raced \cup {i} ELSE raced

--------------------------------------------------------------------------------
(* AddGroupConcern.  The limit is tested in the transaction that writes the row. *)
BelowLimit(g) == MaxGroupConcern > 0 => Cardinality(Held(g)) < MaxGroupConcern

AddGroupConcern(w, g, i, t) ==
  /\ worker[w] = Idle
  /\ t \notin table[g][i] /\ BelowLimit(g)
  /\ table' = [table EXCEPT ![g][i] = @ \cup {t}]
  /\ Committed(w, "add", i)
  /\ UNCHANGED <<queue, leftover>>

(* RemoveGroupConcern; the clean-up command removes several types at once. *)
RemoveGroupConcern(w, g, i, types) ==
  /\ worker[w] = Idle
  /\ types # {} /\ types \subseteq table[g][i]
  /\ table' = [table EXCEPT ![g][i] = @ \ types]
  /\ Committed(w, "remove", i)
  /\ UNCHANGED <<queue, leftover>>

(* Both then call GetConcern outside their transaction ... *)
GetConcern(w) ==
  /\ worker[w].pc = "read"
  /\ worker' = [worker EXCEPT ![w].pc = "emit", ![w].seen = Concern(worker[w].id)]
  /\ UNCHANGED <<table, queue, raced, leftover>>

\* A mutant: a removal is treated as an addition and the command keeps its id.
EmitKeepsId(w) ==
  /\ worker[w].pc = "emit"
  /\ queue' = Merged(queue, worker[w].id, worker[w].seen)
  /\ worker' = [worker EXCEPT ![w].pc = "idle"]
  /\ UNCHANGED <<table, raced, leftover>>

(* ... and change the queue by what they read. *)
Emit(w) ==
  /\ worker[w].pc = "emit"
  /\ queue' = CASE worker[w].op = "add" -> Merged(queue, worker[w].id, worker[w].seen)
                [] worker[w].op = "remove" /\ worker[w].seen # {} ->
                     Updated(queue, worker[w].id, worker[w].seen)
                [] OTHER -> Deleted(queue, worker[w].id)
  /\ leftover' = IF worker[w].op = "remove" THEN leftover \ {worker[w].id} ELSE leftover
  /\ worker' = [worker EXCEPT ![w] = Idle]
  /\ UNCHANGED <<table, raced>>

(* RemoveAllById, called by the refresh loop for an id that is gone for good: the *)
(* rows and the queue entry go in one transaction.                               *)
RemoveAllById(i) ==
  /\ table' = [g \in Groups |-> [table[g] EXCEPT ![i] = {}]]
  /\ queue' = Deleted(queue, i)
  /\ raced' = IF Busy(i) # {} THEN raced \cup {i} ELSE raced
  /\ leftover' = leftover \ {i}
  /\ UNCHANGED worker

(* RemoveAllByGroupCode, when the bot leaves a group: the queue is not touched. *)
RemoveAllByGroupCode(g) ==
  /\ table' = [table EXCEPT ![g] = [i \in Ids |-> {}]]
  /\ raced' = raced \cup {i \in Held(g) : Busy(i) # {}}
  /\ leftover' = leftover \cup Held(g)
  /\ UNCHANGED <<queue, worker>>

(* The process ends between any two steps; Start lists what the table holds. *)
Start ==
  /\ queue' = [i \in {j \in Ids : Concern(j) # {}} |-> Concern(i)]
  /\ worker' = [w \in Workers |-> Idle] /\ raced' = {} /\ leftover' = {}
  /\ UNCHANGED table

Next == \/ \E w \in Workers, g \in Groups, i \in Ids :
             \/ \E t \in Types : AddGroupConcern(w, g, i, t)
             \/ \E types \in SUBSET Types : RemoveGroupConcern(w, g, i, types)
        \/ \E w \in Workers : GetConcern(w) \/ Emit(w)
        \/ \E i \in Ids : RemoveAllById(i)
        \/ \E g \in Groups : RemoveAllByGroupCode(g)
        \/ Start

Spec == Init /\ [][Next]_vars

--------------------------------------------------------------------------------
(* Properties. *)
(* No interleaving of commands takes a group over its limit (the list and the    *)
(* write of AddGroupConcern are one transaction).                                *)
LimitKept == MaxGroupConcern > 0 => \A g \in Groups : Cardinality(Held(g)) <= MaxGroupConcern

Polled(i)  == IF i \in DOMAIN queue THEN queue[i] ELSE {}
Settled(i) == i \in Ids \ raced /\ Busy(i) = {}

(* Every subscription is polled once the commands on its id have ended, however  *)
(* additions overlap; only a removal that overlapped another command on the same *)
(* id may have broken that since the last start.                                 *)
SubscribedIsPolled == \A i \in Ids : Settled(i) => Concern(i) \subseteq Polled(i)

(* Nothing is polled that nobody subscribes, except on account of such a removal *)
(* or of RemoveAllByGroupCode.                                                   *)
PolledIsSubscribed ==
  \A i \in DOMAIN queue : Settled(i) /\ i \notin leftover => queue[i] = Concern(i) /\ Concern(i) # {}

(* The queue lists what the table holds, whatever commands ran before, as long as *)
(* no removal overlapped another command on the id.                              *)
QueueFollowsTable == SubscribedIsPolled /\ PolledIsSubscribed

(* The one way to forget a subscription, in any interleaving: a removal acts on  *)
(* what it read before another command committed.  A type is cared for while it  *)
(* is polled or an addition that will list it is under way.                      *)
CaredFor(i) == Polled(i) \cup UNION {IF worker[w].pc = "read" THEN Types ELSE worker[w].seen :
                                       w \in {v \in Busy(i) : worker[v].op = "add"}}
StaleRemoval(i) == \E w \in Busy(i) : /\ worker[w].op = "remove" /\ worker[w].pc = "emit"
                                      /\ worker[w].seen # Concern(i)
                                      /\ worker'[w] = Idle
Forgets(i) == Concern(i) \subseteq CaredFor(i) /\ ~(Concern(i)' \subseteq CaredFor(i)')
OnlyAStaleRemovalForgets ==
  [][\A i \in Ids : Forgets(i) => StaleRemoval(i)]_vars
================================================================================
