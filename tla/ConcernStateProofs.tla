--------------------------- MODULE ConcernStateProofs ---------------------------
(* What ConcernState's commands keep for any number of groups, ids, types and    *)
(* workers: the group limit, and a poll queue that agrees with the table on      *)
(* every id whose removals did not overlap other commands.                       *)
EXTENDS ConcernState, TLAPS, FiniteSetTheorems

--------------------------------------------------------------------------------
(* The inductive invariant.  For an id that no removal raced on: *)
\* a removal under way has the id to itself,
Alone ==
  \A i \in Ids \ raced : \A w, v \in Workers :
    w # v /\ worker[w].id = i /\ worker[v].id = i => worker[w].op = "add"
\* each type of the table is polled, or an addition that will list it is under way,
Covered == \A i \in Ids \ raced : Concern(i) \subseteq CaredFor(i)
\* a removal's read is still what the table holds,
FreshRemovals ==
  \A w \in Workers :
    worker[w].id \in Ids \ raced /\ worker[w].op = "remove" /\ worker[w].pc = "emit" =>
      worker[w].seen = Concern(worker[w].id)
\* what an addition read is still in the table, and the id has a row,
AddsHold ==
  \A w \in Workers : worker[w].id \in Ids \ raced /\ worker[w].op = "add" =>
    Concern(worker[w].id) # {} /\ worker[w].seen \subseteq Concern(worker[w].id)
\* and what is polled is subscribed unless a removal is under way.
Exact ==
  \A i \in DOMAIN queue :
    i \notin raced \cup leftover
      /\ (\A w \in Workers : worker[w].id = i => worker[w].op = "add") =>
      Concern(i) # {} /\ queue[i] \subseteq Concern(i)

IInv == TypeOK /\ Alone /\ Covered /\ FreshRemovals /\ AddsHold /\ Exact

--------------------------------------------------------------------------------
(* Types. *)
(* The three operations of the EmitQueue keep a function from ids to types.      *)
LEMMA QueueTypes ==
  ASSUME NEW listed \in SUBSET Ids, NEW q \in [listed -> SUBSET Types],
         NEW i \in Ids, NEW types \in SUBSET Types
  PROVE  /\ Merged(q, i, types) \in [listed \cup {i} -> SUBSET Types]
         /\ Updated(q, i, types) \in [listed -> SUBSET Types]
         /\ Deleted(q, i) \in [listed \ {i} -> SUBSET Types]
  BY DEF Merged, Updated, Deleted

(* An idle worker works on no id of the system.                                  *)
LEMMA WorkerTypes ==
  ASSUME TypeOK, NEW w \in Workers
  PROVE  /\ worker[w].pc \in {"read", "emit"} => worker[w] \in Job
         /\ worker[w].id \in Ids => worker[w] \in Job
         /\ worker[w] = Idle \/ worker[w] \in Job
         /\ Idle.id \notin Ids /\ Idle.pc = "idle" /\ Idle.op = "none"
  BY IdsAssumption DEF TypeOK, Job, Idle

LEMMA TypeStep == TypeOK /\ [Next]_vars => TypeOK'
<1> SUFFICES ASSUME TypeOK, [Next]_vars PROVE TypeOK'
  OBVIOUS
<1> USE DEF TypeOK
<1>1. ASSUME NEW w \in Workers, NEW g \in Groups, NEW i \in Ids, NEW t \in Types,
             AddGroupConcern(w, g, i, t)
      PROVE  TypeOK'
  BY <1>1 DEF AddGroupConcern, Committed, Job
<1>2. ASSUME NEW w \in Workers, NEW g \in Groups, NEW i \in Ids, NEW types \in SUBSET Types,
             RemoveGroupConcern(w, g, i, types)
      PROVE  TypeOK'
  BY <1>2 DEF RemoveGroupConcern, Committed, Job
<1>3. ASSUME NEW w \in Workers, GetConcern(w) PROVE TypeOK'
  <2>1. worker[w] \in Job /\ Concern(worker[w].id) \in SUBSET Types
    BY <1>3, WorkerTypes DEF GetConcern, Concern, Job
  <2>2. worker' \in [Workers -> Job \cup {Idle}]
    BY <1>3, <2>1 DEF GetConcern, Job
  <2> QED BY <1>3, <2>2 DEF GetConcern
<1>4. ASSUME NEW w \in Workers, Emit(w) PROVE TypeOK'
  <2>1. worker[w] \in Job /\ worker[w].id \in Ids /\ worker[w].seen \in SUBSET Types
    BY <1>4, WorkerTypes DEF Emit, Job
  <2>2. \E listed \in SUBSET Ids : queue' \in [listed -> SUBSET Types]
    <3>1. PICK listed \in SUBSET Ids : queue \in [listed -> SUBSET Types]
      OBVIOUS
    <3>2. /\ Merged(queue, worker[w].id, worker[w].seen) \in [listed \cup {worker[w].id} -> SUBSET Types]
          /\ Updated(queue, worker[w].id, worker[w].seen) \in [listed -> SUBSET Types]
          /\ Deleted(queue, worker[w].id) \in [listed \ {worker[w].id} -> SUBSET Types]
      BY <2>1, <3>1, QueueTypes
    <3>3. queue' \in {Merged(queue, worker[w].id, worker[w].seen),
                      Updated(queue, worker[w].id, worker[w].seen),
                      Deleted(queue, worker[w].id)}
      BY <1>4 DEF Emit
    <3> QED BY <2>1, <3>1, <3>2, <3>3
  <2> QED BY <1>4, <2>2 DEF Emit
<1>5. ASSUME NEW i \in Ids, RemoveAllById(i) PROVE TypeOK'
  <2>1. PICK listed \in SUBSET Ids : queue \in [listed -> SUBSET Types]
    OBVIOUS
  <2>2. Deleted(queue, i) \in [listed \ {i} -> SUBSET Types]
    BY <2>1, QueueTypes
  <2> QED BY <1>5, <2>2 DEF RemoveAllById
<1>6. ASSUME NEW g \in Groups, RemoveAllByGroupCode(g) PROVE TypeOK'
  BY <1>6 DEF RemoveAllByGroupCode, Held
<1>7. ASSUME Start PROVE TypeOK'
  <2>1. queue' \in [{j \in Ids : Concern(j) # {}} -> SUBSET Types]
    BY <1>7 DEF Start, Concern
  <2>2. \E listed \in SUBSET Ids : queue' \in [listed -> SUBSET Types]
    BY <2>1
  <2> QED BY <1>7, <2>2 DEF Start, Job, Idle
<1>8. CASE UNCHANGED vars
  BY <1>8 DEF vars
<1> QED BY <1>1, <1>2, <1>3, <1>4, <1>5, <1>6, <1>7, <1>8 DEF Next

LEMMA TypeInit == Init => TypeOK
  <1> SUFFICES ASSUME Init PROVE TypeOK
    OBVIOUS
  <1>1. queue \in [{} -> SUBSET Types]
    BY DEF Init
  <1> QED BY <1>1 DEF Init, TypeOK, Idle

(* TypeOK: the shapes of the table, the queue and the commands under way.        *)
THEOREM TypeCorrect == Spec => []TypeOK
  BY TypeInit, TypeStep, PTL DEF Spec

--------------------------------------------------------------------------------
(* The limit. *)
LEMMA HeldIsFinite ==
  ASSUME NEW g \in Groups
  PROVE  IsFiniteSet(Held(g)) /\ Cardinality(Held(g)) \in Nat
  BY IdsAssumption, FS_Subset, FS_CardinalityType DEF Held

(* A step that gives a group no new id keeps it within the limit.                *)
LEMMA FewerHeld ==
  ASSUME NEW S, NEW T, IsFiniteSet(S), T \subseteq S
  PROVE  Cardinality(T) <= Cardinality(S) /\ Cardinality(T) \in Nat /\ Cardinality(S) \in Nat
  BY FS_Subset, FS_CardinalityType

LEMMA LimitStep == TypeOK /\ TypeOK' /\ LimitKept /\ [Next]_vars => LimitKept'
<1> SUFFICES ASSUME TypeOK, TypeOK', LimitKept, [Next]_vars, MaxGroupConcern > 0, NEW h \in Groups
             PROVE  Cardinality(Held(h)') <= MaxGroupConcern
  BY DEF LimitKept, Held
<1>1. IsFiniteSet(Held(h)) /\ Cardinality(Held(h)) \in Nat /\ Cardinality(Held(h)) <= MaxGroupConcern
  BY HeldIsFinite DEF LimitKept
<1>2. CASE \E w \in Workers, g \in Groups, i \in Ids, t \in Types : AddGroupConcern(w, g, i, t)
  <2>1. PICK w \in Workers, g \in Groups, i \in Ids, t \in Types : AddGroupConcern(w, g, i, t)
    BY <1>2
  <2>2. CASE h = g
    <3>1. Cardinality(Held(h)) < MaxGroupConcern
      BY <2>1, <2>2 DEF AddGroupConcern, BelowLimit
    <3>2. Held(h)' \subseteq Held(h) \cup {i}
      BY <2>1, <2>2 DEF AddGroupConcern, Held, TypeOK
    <3>3. /\ IsFiniteSet(Held(h) \cup {i})
          /\ Cardinality(Held(h) \cup {i}) <= Cardinality(Held(h)) + 1
      BY <1>1, FS_AddElement
    <3>4. Cardinality(Held(h)') <= Cardinality(Held(h) \cup {i})
          /\ Cardinality(Held(h)') \in Nat /\ Cardinality(Held(h) \cup {i}) \in Nat
      BY <3>2, <3>3, FewerHeld
    <3> QED BY <1>1, <3>1, <3>3, <3>4, LimitAssumption
  <2>3. CASE h # g
    <3>1. Held(h)' = Held(h)
      BY <2>1, <2>3 DEF AddGroupConcern, Held, TypeOK
    <3> QED BY <1>1, <3>1
  <2> QED BY <2>2, <2>3
<1>3. CASE ~ \E w \in Workers, g \in Groups, i \in Ids, t \in Types : AddGroupConcern(w, g, i, t)
  <2>1. Held(h)' \subseteq Held(h)
    <3>1. ASSUME NEW w \in Workers, NEW g \in Groups, NEW i \in Ids, NEW types \in SUBSET Types,
                 RemoveGroupConcern(w, g, i, types)
          PROVE  Held(h)' \subseteq Held(h)
      BY <3>1 DEF RemoveGroupConcern, Held, TypeOK
    <3>2. ASSUME NEW i \in Ids, RemoveAllById(i) PROVE Held(h)' \subseteq Held(h)
      BY <3>2 DEF RemoveAllById, Held, TypeOK
    <3>3. ASSUME NEW g \in Groups, RemoveAllByGroupCode(g) PROVE Held(h)' \subseteq Held(h)
      BY <3>3 DEF RemoveAllByGroupCode, Held, TypeOK
    <3>4. ASSUME table' = table PROVE Held(h)' \subseteq Held(h)
      BY <3>4 DEF Held
    <3> QED BY <1>3, <3>1, <3>2, <3>3, <3>4 DEF Next, vars, GetConcern, Emit, Start
  <2> QED BY <1>1, <2>1, FewerHeld, LimitAssumption
<1> QED BY <1>2, <1>3

LEMMA LimitInit == Init => LimitKept
  <1> SUFFICES ASSUME Init, NEW g \in Groups PROVE Cardinality(Held(g)) <= MaxGroupConcern
    BY DEF LimitKept
  <1>1. Held(g) = {}
    BY DEF Init, Held
  <1> QED BY <1>1, FS_EmptySet, LimitAssumption

(* No interleaving of commands, removals and restarts takes a group over its     *)
(* limit (AddGroupConcern tests it in the transaction that writes the row).      *)
THEOREM GroupsStayWithinLimit == Spec => []LimitKept
  BY TypeInit, TypeStep, LimitInit, LimitStep, PTL DEF Spec

--------------------------------------------------------------------------------
(* Forgetting. *)
\* The membership forms of Concern and CaredFor.
InTable(i, t) == \E g \in Groups : t \in table[g][i]
InCare(i, t)  == \/ i \in DOMAIN queue /\ t \in queue[i]
                 \/ \E w \in Workers : /\ worker[w].id = i /\ worker[w].op = "add"
                                       /\ worker[w].pc = "read" \/ t \in worker[w].seen

LEMMA Members ==
  ASSUME NEW i \in Ids, NEW t \in Types
  PROVE  /\ t \in Concern(i) <=> InTable(i, t)
         /\ (t \in Concern(i))' <=> InTable(i, t)'
         /\ t \in CaredFor(i) <=> InCare(i, t)
         /\ (t \in CaredFor(i))' <=> InCare(i, t)'
<1>1. (t \in Concern(i) <=> InTable(i, t)) /\ ((t \in Concern(i))' <=> InTable(i, t)')
  BY DEF Concern, InTable
<1>2. t \in CaredFor(i) <=> InCare(i, t)
  BY DEF CaredFor, InCare, Polled, Busy
<1>3. (t \in CaredFor(i))' <=> InCare(i, t)'
  BY DEF CaredFor, InCare, Polled, Busy
<1> QED BY <1>1, <1>2, <1>3

LEMMA ForgetStep == TypeOK /\ TypeOK' /\ [Next]_vars => \A i \in Ids : Forgets(i) => StaleRemoval(i)
<1> SUFFICES ASSUME TypeOK, TypeOK', [Next]_vars, NEW j \in Ids, Concern(j) \subseteq CaredFor(j),
                    ~StaleRemoval(j), NEW u \in Types, InTable(j, u)'
             PROVE  InCare(j, u)'
  <2>1. TypeOK' => \A j \in Ids : Concern(j)' \subseteq Types
    BY DEF Concern, TypeOK
  <2>2. \A j \in Ids : \A u \in Types : /\ (u \in Concern(j))' <=> InTable(j, u)'
                                        /\ (u \in CaredFor(j))' <=> InCare(j, u)'
    BY Members
  <2> QED BY <2>1, <2>2 DEF Forgets
<1>0. InTable(j, u) => InCare(j, u)
  BY Members
<1>1. ASSUME NEW w \in Workers, NEW g \in Groups, NEW i \in Ids, NEW t \in Types,
             AddGroupConcern(w, g, i, t)
      PROVE  InCare(j, u)'
  <2>0. queue' = queue /\ worker[w] = Idle
    BY <1>1 DEF AddGroupConcern
  <2>1. \A v \in Workers : worker'[v] = IF v = w THEN [pc |-> "read", op |-> "add", id |-> i, seen |-> {}]
                                                ELSE worker[v]
    BY <1>1 DEF AddGroupConcern, Committed, TypeOK
  <2>2. InCare(j, u) => InCare(j, u)'
    BY <2>0, <2>1, WorkerTypes DEF InCare
  <2>3. CASE j = i
    BY <2>1, <2>3 DEF InCare
  <2>4. CASE j # i
    <3>1. InTable(j, u)
      BY <1>1, <2>4 DEF AddGroupConcern, InTable, TypeOK
    <3> QED BY <1>0, <2>2, <3>1
  <2> QED BY <2>3, <2>4
<1>2. ASSUME NEW w \in Workers, NEW g \in Groups, NEW i \in Ids, NEW types \in SUBSET Types,
             RemoveGroupConcern(w, g, i, types)
      PROVE  InCare(j, u)'
  <2>0. queue' = queue /\ worker[w] = Idle
    BY <1>2 DEF RemoveGroupConcern
  <2>1. \A v \in Workers : v # w => worker'[v] = worker[v]
    BY <1>2 DEF RemoveGroupConcern, Committed, TypeOK
  <2>2. InCare(j, u) => InCare(j, u)'
    BY <2>0, <2>1, WorkerTypes DEF InCare
  <2>3. InTable(j, u)
    BY <1>2 DEF RemoveGroupConcern, InTable, TypeOK
  <2> QED BY <1>0, <2>2, <2>3
<1>3. ASSUME NEW w \in Workers, GetConcern(w) PROVE InCare(j, u)'
  <2>0. table' = table /\ queue' = queue /\ worker[w] \in Job
    BY <1>3, WorkerTypes DEF GetConcern
  <2>1. \A v \in Workers : /\ v # w => worker'[v] = worker[v]
                           /\ worker'[v].id = worker[v].id /\ worker'[v].op = worker[v].op
    BY <1>3, <2>0 DEF GetConcern, TypeOK, Job
  <2>2. worker'[w].seen = Concern(worker[w].id)
    BY <1>3, <2>0 DEF GetConcern, TypeOK, Job
  <2>3. InTable(j, u) /\ u \in Concern(j)
    BY <2>0, Members DEF InTable
  <2> QED BY <1>0, <2>0, <2>1, <2>2, <2>3 DEF InCare
<1>4. ASSUME NEW w \in Workers, Emit(w) PROVE InCare(j, u)'
  <2>0. /\ table' = table /\ worker[w] \in Job /\ worker[w].pc = "emit"
        /\ \A v \in Workers : worker'[v] = IF v = w THEN Idle ELSE worker[v]
    BY <1>4, WorkerTypes DEF Emit, TypeOK
  <2>1. InCare(j, u) /\ u \in Concern(j)
    BY <1>0, <2>0, Members DEF InTable
  <2>2. CASE worker[w].op = "add"
    <3>1. queue' = Merged(queue, worker[w].id, worker[w].seen)
      BY <1>4, <2>2 DEF Emit
    <3>2. CASE worker[w].id = j
      BY <2>0, <2>1, <3>1, <3>2 DEF InCare, Merged, TypeOK
    <3>3. CASE worker[w].id # j
      BY <2>0, <2>1, <3>1, <3>3 DEF InCare, Merged, TypeOK
    <3> QED BY <3>2, <3>3
  <2>3. CASE worker[w].op # "add"
    <3>1. worker[w].op = "remove"
      BY <2>0, <2>3 DEF Job
    <3>2. queue' = IF worker[w].seen # {} THEN Updated(queue, worker[w].id, worker[w].seen)
                                         ELSE Deleted(queue, worker[w].id)
      BY <1>4, <3>1 DEF Emit
    <3>3. CASE worker[w].id # j
      <4>1. (j \in DOMAIN queue' <=> j \in DOMAIN queue) /\ (j \in DOMAIN queue => queue'[j] = queue[j])
        BY <3>2, <3>3 DEF Updated, Deleted, TypeOK
      <4> QED BY <2>0, <2>1, <3>1, <4>1 DEF InCare
    <3>4. CASE worker[w].id = j
      <4>1. worker[w].seen = Concern(j)
        BY <2>0, <3>1, <3>4 DEF StaleRemoval, Busy
      <4>2. queue' = Updated(queue, j, Concern(j))
        BY <2>1, <3>2, <3>4, <4>1
      <4> QED BY <2>0, <2>1, <3>1, <4>2 DEF InCare, Updated, TypeOK
    <3> QED BY <3>3, <3>4
  <2> QED BY <2>2, <2>3
<1>5. ASSUME NEW i \in Ids, RemoveAllById(i) PROVE InCare(j, u)'
  <2>1. j # i /\ InTable(j, u)
    BY <1>5 DEF RemoveAllById, InTable, TypeOK
  <2>2. worker' = worker /\ queue' = Deleted(queue, i)
    BY <1>5 DEF RemoveAllById
  <2> QED BY <1>0, <2>1, <2>2 DEF InCare, Deleted, TypeOK
<1>6. ASSUME NEW g \in Groups, RemoveAllByGroupCode(g) PROVE InCare(j, u)'
  <2>1. InTable(j, u)
    BY <1>6 DEF RemoveAllByGroupCode, InTable, TypeOK
  <2> QED BY <1>0, <1>6, <2>1 DEF RemoveAllByGroupCode, InCare
<1>7. ASSUME Start PROVE InCare(j, u)'
  <2>1. InTable(j, u)
    BY <1>7 DEF Start, InTable
  <2>2. u \in Concern(j)
    BY <2>1, Members
  <2> QED BY <1>7, <2>2 DEF Start, InCare
<1>8. CASE UNCHANGED vars
  BY <1>0, <1>8 DEF vars, InTable, InCare
<1> QED BY <1>1, <1>2, <1>3, <1>4, <1>5, <1>6, <1>7, <1>8 DEF Next

(* A subscription loses its poll in one way: a removal acts on a read that       *)
(* another command has made stale.  Additions, restarts and the removals of      *)
(* whole ids or groups never do it, whatever the interleaving.                   *)
THEOREM SubscriptionsAreForgottenOnlyByStaleRemovals == Spec => OnlyAStaleRemovalForgets
<1>1. TypeOK /\ TypeOK' /\ [Next]_vars => [\A i \in Ids : Forgets(i) => StaleRemoval(i)]_vars
  BY ForgetStep
<1> QED BY <1>1, TypeCorrect, PTL DEF Spec, OnlyAStaleRemovalForgets

--------------------------------------------------------------------------------
(* The queue agrees with the table. *)
Own == Alone /\ FreshRemovals /\ AddsHold /\ Exact

(* A command's commit on i: it is the only one there, or all are additions, or i *)
(* counts as raced on.                                                           *)
LEMMA CommitStep ==
  ASSUME TypeOK, NEW w \in Workers, NEW op \in {"add", "remove"}, NEW i \in Ids,
         worker[w] = Idle, Committed(w, op, i)
  PROVE  /\ \A v \in Workers : worker'[v] = IF v = w THEN [pc |-> "read", op |-> op, id |-> i, seen |-> {}]
                                                  ELSE worker[v]
         /\ raced \subseteq raced' /\ raced' \subseteq raced \cup {i}
         /\ i \notin raced' => \A v \in Workers :
              worker[v].id = i => op = "add" /\ worker[v].op # "remove"
  BY DEF Committed, Meets, Busy, TypeOK

LEMMA AddOwn ==
  ASSUME TypeOK, Own, NEW w \in Workers, NEW g \in Groups, NEW i \in Ids, NEW t \in Types,
         AddGroupConcern(w, g, i, t)
  PROVE  Own'
<1>1. /\ \A v \in Workers : worker'[v] = IF v = w THEN [pc |-> "read", op |-> "add", id |-> i, seen |-> {}]
                                                 ELSE worker[v]
      /\ raced \subseteq raced' /\ queue' = queue /\ leftover' = leftover /\ worker[w] = Idle
      /\ i \notin raced' => \A v \in Workers : worker[v].id = i => worker[v].op # "remove"
  BY CommitStep DEF AddGroupConcern
<1>2. \A j \in Ids : Concern(j)' = IF j = i THEN Concern(j) \cup {t} ELSE Concern(j)
  BY DEF AddGroupConcern, Concern, TypeOK
<1>3. \A v \in Workers : worker[v] = Idle \/ worker[v] \in Job
  BY WorkerTypes
<1>4. DOMAIN queue \subseteq Ids
  BY DEF TypeOK
<1>5. Alone'
  BY <1>1, <1>3, IdsAssumption DEF Own, Alone, Job, Idle
<1>6. FreshRemovals'
  BY <1>1, <1>2, <1>3 DEF Own, FreshRemovals, Job, Idle
<1>7. AddsHold'
  BY <1>1, <1>2, <1>3 DEF Own, AddsHold, Job, Idle
<1>8. Exact'
  BY <1>1, <1>2, <1>3, <1>4, IdsAssumption DEF Own, Exact, Job, Idle
<1> QED BY <1>5, <1>6, <1>7, <1>8 DEF Own

LEMMA RemoveOwn ==
  ASSUME TypeOK, Own, NEW w \in Workers, NEW g \in Groups, NEW i \in Ids, NEW types \in SUBSET Types,
         RemoveGroupConcern(w, g, i, types)
  PROVE  Own'
<1>1. /\ \A v \in Workers : worker'[v] = IF v = w THEN [pc |-> "read", op |-> "remove", id |-> i, seen |-> {}]
                                                 ELSE worker[v]
      /\ raced \subseteq raced' /\ queue' = queue /\ leftover' = leftover /\ worker[w] = Idle
      /\ i \notin raced' => \A v \in Workers : worker[v].id # i
  BY CommitStep DEF RemoveGroupConcern
<1>2. \A j \in Ids : j # i => Concern(j)' = Concern(j)
  BY DEF RemoveGroupConcern, Concern, TypeOK
<1>3. \A v \in Workers : worker[v] = Idle \/ worker[v] \in Job
  BY WorkerTypes
<1>4. DOMAIN queue \subseteq Ids
  BY DEF TypeOK
<1>5. Alone'
  BY <1>1, <1>3, IdsAssumption DEF Own, Alone, Job, Idle
<1>6. FreshRemovals'
  BY <1>1, <1>2, <1>3 DEF Own, FreshRemovals, Job, Idle
<1>7. AddsHold'
  BY <1>1, <1>2, <1>3 DEF Own, AddsHold, Job, Idle
<1>8. Exact'
  BY <1>1, <1>2, <1>3, <1>4, IdsAssumption DEF Own, Exact, Job, Idle
<1> QED BY <1>5, <1>6, <1>7, <1>8 DEF Own

LEMMA ReadOwn ==
  ASSUME TypeOK, Own, NEW w \in Workers, GetConcern(w)
  PROVE  Own'
<1>1. /\ table' = table /\ queue' = queue /\ raced' = raced /\ leftover' = leftover
      /\ worker[w] \in Job /\ worker[w].pc = "read"
  BY WorkerTypes DEF GetConcern
<1>2. \A v \in Workers : /\ v # w => worker'[v] = worker[v]
                         /\ worker'[v].id = worker[v].id /\ worker'[v].op = worker[v].op
  BY <1>1 DEF GetConcern, TypeOK, Job
<1>3. worker'[w].seen = Concern(worker[w].id)
  BY <1>1 DEF GetConcern, TypeOK, Job
<1>4. \A j \in Ids : Concern(j)' = Concern(j)
  BY <1>1 DEF Concern
<1>5. DOMAIN queue \subseteq Ids
  BY DEF TypeOK
<1>6. Alone'
  BY <1>1, <1>2 DEF Own, Alone
<1>7. FreshRemovals'
  BY <1>1, <1>2, <1>3, <1>4 DEF Own, FreshRemovals
<1>8. AddsHold'
  BY <1>1, <1>2, <1>3, <1>4 DEF Own, AddsHold
<1>9. Exact'
  BY <1>1, <1>2, <1>4, <1>5 DEF Own, Exact
<1> QED BY <1>6, <1>7, <1>8, <1>9 DEF Own

LEMMA EmitOwn ==
  ASSUME TypeOK, Own, NEW w \in Workers, Emit(w)
  PROVE  Own'
<1>1. /\ table' = table /\ raced' = raced /\ worker[w] \in Job /\ worker[w].pc = "emit"
      /\ \A v \in Workers : worker'[v] = IF v = w THEN Idle ELSE worker[v]
  BY WorkerTypes DEF Emit, TypeOK
<1>2. \A j \in Ids : Concern(j)' = Concern(j)
  BY <1>1 DEF Concern
<1>3. Idle.id \notin Ids /\ worker[w].id \in Ids /\ worker[w].op \in {"add", "remove"}
  BY <1>1, IdsAssumption DEF Idle, Job
<1>4. Alone'
  BY <1>1, <1>3 DEF Own, Alone
<1>5. FreshRemovals'
  BY <1>1, <1>2, <1>3 DEF Own, FreshRemovals
<1>6. AddsHold'
  BY <1>1, <1>2, <1>3 DEF Own, AddsHold
<1>7. Exact'
  <2> SUFFICES ASSUME NEW j \in DOMAIN queue', j \notin raced, j \notin leftover', j \in Ids,
                      \A v \in Workers : worker'[v].id = j => worker'[v].op = "add"
               PROVE  Concern(j) # {} /\ queue'[j] \subseteq Concern(j)
    <3>1. DOMAIN queue' \subseteq Ids
      BY TypeStep DEF Next, TypeOK
    <3> QED BY <1>1, <1>2, <3>1 DEF Exact
  <2>1. \A v \in Workers : v # w /\ worker[v].id = j => worker[v].op = "add"
    BY <1>1
  <2>2. CASE worker[w].op = "add"
    <3>1. queue' = Merged(queue, worker[w].id, worker[w].seen) /\ leftover' = leftover
      BY <1>3, <2>2 DEF Emit
    <3>2. j \in DOMAIN queue => Concern(j) # {} /\ queue[j] \subseteq Concern(j)
      BY <2>1, <2>2, <3>1 DEF Own, Exact
    <3>3. j = worker[w].id => Concern(j) # {} /\ worker[w].seen \subseteq Concern(j)
      BY <2>2, <1>1 DEF Own, AddsHold
    <3> QED BY <3>1, <3>2, <3>3 DEF Merged, TypeOK
  <2>3. CASE worker[w].op = "remove"
    <3>1. queue' = IF worker[w].seen # {} THEN Updated(queue, worker[w].id, worker[w].seen)
                                         ELSE Deleted(queue, worker[w].id)
      BY <1>3, <2>3 DEF Emit
    <3>2. CASE j = worker[w].id
      <4>1. worker[w].seen = Concern(j)
        BY <1>1, <2>3, <3>2 DEF Own, FreshRemovals
      <4> QED BY <3>1, <3>2, <4>1 DEF Updated, Deleted, TypeOK
    <3>3. CASE j # worker[w].id
      <4>1. j \in DOMAIN queue /\ queue'[j] = queue[j]
        BY <3>1, <3>3 DEF Updated, Deleted, TypeOK
      <4>2. j \notin leftover
        BY <2>3, <3>3 DEF Emit
      <4> QED BY <2>1, <3>3, <4>1, <4>2 DEF Own, Exact
    <3> QED BY <3>2, <3>3
  <2> QED BY <1>3, <2>2, <2>3
<1> QED BY <1>4, <1>5, <1>6, <1>7 DEF Own

LEMMA ByIdOwn ==
  ASSUME TypeOK, Own, NEW i \in Ids, RemoveAllById(i)
  PROVE  Own'
<1>1. /\ worker' = worker /\ queue' = Deleted(queue, i) /\ raced \subseteq raced'
      /\ \A w \in Workers : worker[w].id = i => i \in raced'
      /\ leftover' = leftover \ {i}
  BY DEF RemoveAllById, Busy
<1>2. \A j \in Ids : j # i => Concern(j)' = Concern(j)
  BY DEF RemoveAllById, Concern, TypeOK
<1>3. DOMAIN queue' = DOMAIN queue \ {i} /\ DOMAIN queue \subseteq Ids
      /\ \A j \in DOMAIN queue' : queue'[j] = queue[j]
  BY <1>1 DEF Deleted, TypeOK
<1>4. Alone' /\ FreshRemovals'
  BY <1>1, <1>2 DEF Own, Alone, FreshRemovals
<1>5. AddsHold'
  BY <1>1, <1>2 DEF Own, AddsHold
<1>6. Exact'
  BY <1>1, <1>2, <1>3 DEF Own, Exact
<1> QED BY <1>4, <1>5, <1>6 DEF Own

LEMMA ByGroupOwn ==
  ASSUME TypeOK, Own, NEW g \in Groups, RemoveAllByGroupCode(g)
  PROVE  Own'
<1>1. /\ worker' = worker /\ queue' = queue /\ raced \subseteq raced'
      /\ \A w \in Workers : worker[w].id \in Held(g) => worker[w].id \in raced'
      /\ leftover' = leftover \cup Held(g)
  BY DEF RemoveAllByGroupCode, Busy, Held
<1>2. \A j \in Ids \ Held(g) : Concern(j)' = Concern(j)
  BY DEF RemoveAllByGroupCode, Concern, Held, TypeOK
<1>3. DOMAIN queue \subseteq Ids
  BY DEF TypeOK
<1>4. Alone' /\ FreshRemovals'
  BY <1>1, <1>2 DEF Own, Alone, FreshRemovals
<1>5. AddsHold'
  BY <1>1, <1>2 DEF Own, AddsHold
<1>6. Exact'
  BY <1>1, <1>2, <1>3 DEF Own, Exact
<1> QED BY <1>4, <1>5, <1>6 DEF Own

LEMMA StartOwn ==
  ASSUME TypeOK, Start
  PROVE  Own' /\ Covered'
<1>1. /\ \A j \in Ids : Concern(j)' = Concern(j)
      /\ \A w \in Workers : worker'[w] = Idle
      /\ DOMAIN queue' = {j \in Ids : Concern(j) # {}}
      /\ \A j \in DOMAIN queue' : queue'[j] = Concern(j)
  BY DEF Start, Concern
<1>2. Own'
  BY <1>1, IdsAssumption DEF Own, Alone, FreshRemovals, AddsHold, Exact, Idle
<1>3. \A j \in Ids : Concern(j)' \subseteq Polled(j)'
  BY <1>1 DEF Polled
<1>4. Covered'
  BY <1>3 DEF Covered, CaredFor
<1> QED BY <1>2, <1>4

(* An id stays covered, since on an id that is not raced on no removal's read is *)
(* stale: this is ForgetStep.                                                    *)
LEMMA CoveredStep ==
  TypeOK /\ TypeOK' /\ Own /\ Covered /\ [Next]_vars => Covered'
<1> SUFFICES ASSUME TypeOK, TypeOK', Own, Covered, [Next]_vars, ~Start, NEW i \in Ids, i \notin raced'
             PROVE  (Concern(i) \subseteq CaredFor(i))'
  BY StartOwn DEF Covered
<1>1. i \notin raced
  BY DEF Next, vars, AddGroupConcern, RemoveGroupConcern, Committed, GetConcern, Emit,
         RemoveAllById, RemoveAllByGroupCode
<1>2. ~StaleRemoval(i)
  BY <1>1 DEF Own, FreshRemovals, StaleRemoval, Busy
<1>3. Concern(i) \subseteq CaredFor(i)
  BY <1>1 DEF Covered
<1> QED BY <1>2, <1>3, ForgetStep DEF Forgets

LEMMA IInvStep == IInv /\ [Next]_vars => IInv'
<1> SUFFICES ASSUME IInv, [Next]_vars PROVE IInv'
  OBVIOUS
<1>1. TypeOK /\ Own /\ Covered
  BY DEF IInv, Own
<1>2. TypeOK'
  BY <1>1, TypeStep
<1>3. Covered'
  BY <1>1, <1>2, CoveredStep
<1>4. Own'
  <2>1. CASE UNCHANGED vars
    BY <1>1, <2>1 DEF vars, Own, Alone, FreshRemovals, AddsHold, Exact, Concern
  <2> QED BY <1>1, <2>1, AddOwn, RemoveOwn, ReadOwn, EmitOwn, ByIdOwn, ByGroupOwn, StartOwn DEF Next
<1> QED BY <1>2, <1>3, <1>4 DEF IInv, Own

LEMMA IInvInit == Init => IInv
<1> SUFFICES ASSUME Init PROVE IInv
  OBVIOUS
<1>1. TypeOK /\ \A i \in Ids : Concern(i) = {}
  BY TypeInit DEF Init, Concern
<1> QED BY <1>1, IdsAssumption DEF IInv, Init, Alone, Covered, FreshRemovals, AddsHold, Exact, Idle

LEMMA Invariance == Spec => []IInv
  BY IInvInit, IInvStep, PTL DEF Spec

(* Once the commands on an id have ended all its subscriptions are polled,       *)
(* however additions overlapped, unless a removal overlapped another command.    *)
THEOREM SubscriptionsArePolled == Spec => []SubscribedIsPolled
<1>1. IInv => SubscribedIsPolled
  <2> SUFFICES ASSUME Covered, NEW i \in Ids, Settled(i) PROVE Concern(i) \subseteq Polled(i)
    BY DEF IInv, SubscribedIsPolled
  <2>1. Concern(i) \subseteq CaredFor(i)
    BY DEF Covered, Settled
  <2>2. CaredFor(i) = Polled(i)
    BY DEF CaredFor, Settled
  <2> QED BY <2>1, <2>2
<1> QED BY <1>1, Invariance, PTL

(* ... and nothing else is, unless a group was removed as a whole.               *)
THEOREM NothingElseIsPolled == Spec => []PolledIsSubscribed
<1>1. IInv /\ SubscribedIsPolled => PolledIsSubscribed
  BY DEF IInv, TypeOK, Exact, SubscribedIsPolled, PolledIsSubscribed, Settled, Busy, Polled
<1> QED BY <1>1, Invariance, SubscriptionsArePolled, PTL

(* Both together: the queue lists what the table holds.                          *)
THEOREM QueueAndTableAgree == Spec => []QueueFollowsTable
  BY SubscriptionsArePolled, NothingElseIsPolled, PTL DEF QueueFollowsTable
================================================================================
