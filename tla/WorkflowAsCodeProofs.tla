------------------------ MODULE WorkflowAsCodeProofs ------------------------
(***************************************************************************)
(* Proofs about WorkflowAsCode, for any script and any number of workers.  *)
(* First, whatever happens: an id is given to one step, a child ends once, *)
(* and so a result in the checkpoint is that of a child.  Then, as long as *)
(* a crash and a failed push do not come together and no tasks follow an   *)
(* approval: the row, the checkpoint and the children that are under way   *)
(* belong to the same dispatch, so that the count of the row is right.     *)
(***************************************************************************)
EXTENDS WorkflowAsCode, FiniteSetTheorems, WellFoundedInduction, TLAPS
-----------------------------------------------------------------------------
(* Ids and results, whatever happens.                                      *)

\* A child is a step's: it was pushed for it, or somebody has its id for it.
Has(c, k) ==
    \/ child[c] # "none" /\ childKey[c] = k
    \/ pending.ids[k] = c
    \/ \E p \in Proc : proc[p].ids[k] = c

OneKey ==
    \A c \in Child : \A k, l \in Key :
        /\ Has(c, k) => Kind[k[1]] = "tasks"
        /\ Has(c, k) /\ Has(c, l) => k = l

\* A step that is still to be pushed has an id that no job has, and no other
\* thread is going to push.
IdsAreNew ==
    \A p \in Proc : proc[p].pc = "push" =>
        /\ proc[p].todo # {}
        /\ \A k \in proc[p].todo :
              /\ proc[p].ids[k] \in Child /\ child[proc[p].ids[k]] = "none"
              /\ \A q \in Proc : proc[q].pc = "push" /\ proc[q].ids[k] = proc[p].ids[k] => p = q

Works(p) == proc[p].pc \in {"run", "read", "report"}

\* A child is run, and reported, by one thread.
OneWorker ==
    /\ \A p, q \in Proc : Works(p) /\ Works(q) /\ proc[p].child = proc[q].child => p = q
    /\ \A p \in Proc : Works(p) =>
          /\ proc[p].child \in Child
          /\ proc[p].pc = "run" => child[proc[p].child] = "running"
          /\ proc[p].pc # "run" => child[proc[p].child] = proc[p].result

\* What a run of the script has found is in the checkpoint, and what it waits for
\* is a stage of that kind.
WaitsForStage ==
    pending.mode \in {"tasks", "approval", "sleep"} =>
        \A k \in pending.keys : Kind[k[1]] = pending.mode

DoneIsSaved ==
    \A p \in Proc : proc[p].pc = "replay" =>
        \A k \in Key : proc[p].done[k] # "none" => completed[k] # "none"

ResultInv ==
    /\ TypeOK /\ OneKey /\ IdsAreNew /\ OneWorker /\ WaitsForStage /\ DoneIsSaved
    /\ ResultsAreReal
-----------------------------------------------------------------------------
(* The dispatch, in orderly runs.                                          *)

NoTasksAfterApproval ==
    \A i, j \in Stage : Kind[i] = "approval" /\ i < j => Kind[j] # "tasks"

TasksDone == \A k \in Key : Kind[k[1]] = "tasks" => completed[k] # "none"
Waiting == {k \in pending.keys : completed[k] = "none"}

\* The worker that drives the parent, and the row.
DriverInv ==
    /\ \A p, q \in Proc : Driving(p) /\ Driving(q) => p = q
    /\ \A p \in Proc : Driving(p) =>
          /\ row = "running"
          /\ proc[p].pc # "push" => until = "null"
          /\ proc[p].pc = "push" =>
                /\ until = "future" /\ pending.mode = "tasks"
                /\ proc[p].ids = pending.ids /\ proc[p].todo \subseteq Waiting
          /\ proc[p].pc = "replay" => proc[p].done = completed /\ pending.mode \in {"none", "tasks"}
          /\ proc[p].pc = "fail" => pending.mode = "none"
    /\ row = "queued" => until = "null"
    /\ ~InQueue => until = "null" /\ pending.mode = "none"
    /\ pushErrors > 0 /\ InQueue => \E p \in Proc : proc[p].pc = "fail"
    /\ crashes = 0 /\ row = "running" /\ until = "null" => \E p \in Proc : Driving(p)

\* The count of the row, and that of the approvals it does not take part in.
CountInv ==
    /\ pending.mode = "tasks" => Waiting # {}
    /\ pending.mode = "tasks" /\ until # "null" => suspend = Cardinality(Waiting)
    /\ pending.mode = "none" /\ until # "null" => suspend = 0
    /\ LinkIsOut \/ (\E r \in Request : request[r].pc = "write") => TasksDone

\* A child that is under way is one the parent waits for.
UnderWay(c) ==
    \/ child[c] \in {"queued", "canceled", "running"}
    \/ \E p \in Proc : Works(p) /\ proc[p].child = c

FamilyInv ==
    /\ InQueue /\ pushErrors = 0 =>
          /\ \A c \in Child : UnderWay(c) =>
                /\ pending.mode = "tasks" /\ until = "future"
                /\ childKey[c] \in Waiting /\ pending.ids[childKey[c]] = c
          /\ \A p \in Proc : proc[p].pc = "report" => proc[p].ids = pending.ids
    /\ \A p \in Proc : proc[p].pc = "report" =>
          proc[p].ids[childKey[proc[p].child]] = proc[p].child

InTodo(k) == \E p \in Proc : proc[p].pc = "push" /\ k \in proc[p].todo
Tries(k) == {c \in Child : child[c] # "none" /\ childKey[c] = k}
Settled(k) == completed[k] # "none" \/ InTodo(k) \/ \E c \in Child : UnderWay(c) /\ childKey[c] = k

\* No dispatch follows.
Over == ~InQueue \/ pushErrors > 0

\* A step that neither has a result nor is under way has lost a worker.
TriesInv ==
    \A k \in Key :
        Cardinality(Tries(k)) + (IF InTodo(k) THEN 1 ELSE 0)
            <= crashes + pushErrors + (IF Settled(k) \/ Over THEN 1 ELSE 0)

WakeInv ==
    crashes = 0 /\ pending.mode = "tasks" =>
        \A k \in Waiting : InTodo(k) \/ \E c \in Child : UnderWay(c) /\ pending.ids[k] = c

OrderlyInv == DriverInv /\ CountInv /\ FamilyInv /\ TriesInv /\ WakeInv
DispatchInv == Orderly => OrderlyInv
-----------------------------------------------------------------------------
(* Keys, ids and the records of threads.                                   *)

\* What the constants are.
LEMMA WacFacts ==
    /\ NStages \in Nat /\ NStages >= 1 /\ MaxChildren \in Nat
    /\ MaxCrashes \in Nat /\ MaxPushErrors \in Nat /\ MaxMessages \in Nat
    /\ \A i \in Stage : i \in Nat /\ i < NStages /\ Width[i] \in Nat /\ Width[i] >= 1
    /\ \A c \in Child : c \in Nat /\ c >= 1 /\ c <= MaxChildren /\ c # NoChild
    /\ NoChild = 0 /\ NoChild \notin Child
BY WorkflowAssumption DEF Stage, Child, NoChild

\* The steps of the stages.
LEMMA KeyFacts ==
    /\ Key # {}
    /\ \A k \in Key : k[1] \in Stage /\ k[2] \in Nat /\ k[2] <= Width[k[1]] /\ k[2] >= 1
    /\ \A k, l \in Key : k[1] = l[1] /\ k[2] = l[2] => k = l
    /\ \A i \in Stage : KeysOf(i) = {i} \X (1 .. Width[i]) /\ KeysOf(i) \subseteq Key
<1>1. \A k : k \in Key <=> \E i \in Stage : k \in {i} \X (1 .. Width[i])
  BY DEF Key
<1>2. \A k \in Key : k[1] \in Stage /\ k[2] \in 1 .. Width[k[1]] /\ k = <<k[1], k[2]>>
  BY <1>1
<1>3. \A k \in Key : k[2] \in Nat /\ k[2] <= Width[k[1]] /\ k[2] >= 1
  BY <1>2, WacFacts
<1>4. \A k, l \in Key : k[1] = l[1] /\ k[2] = l[2] => k = l
  BY <1>2
<1>5. Key # {}
  <2>1. 0 \in Stage /\ 1 \in 1 .. Width[0]
    BY WorkflowAssumption DEF Stage
  <2>2. <<0, 1>> \in {0} \X (1 .. Width[0])
    BY <2>1
  <2> QED
    BY <1>1, <2>1, <2>2
<1>6. ASSUME NEW i \in Stage PROVE KeysOf(i) = {i} \X (1 .. Width[i])
  BY <1>1, <1>2 DEF KeysOf
<1> QED
  BY <1>2, <1>3, <1>4, <1>5, <1>6 DEF KeysOf

\* Sets of steps of a stage are counted as sets are.
LEMMA StageSets ==
    \A i \in Stage : \A S \in SUBSET KeysOf(i) : IsFiniteSet(S) /\ Cardinality(S) \in Nat
<1> SUFFICES ASSUME NEW i \in Stage, NEW S \in SUBSET KeysOf(i)
             PROVE  IsFiniteSet(S) /\ Cardinality(S) \in Nat
  OBVIOUS
<1>1. IsFiniteSet({i})
  BY FS_Singleton
<1>2. IsFiniteSet(1 .. Width[i])
  <2>1. 1 \in Int /\ Width[i] \in Int
    BY WacFacts
  <2> QED
    BY <2>1, FS_Interval
<1>3. IsFiniteSet({i} \X (1 .. Width[i]))
  BY <1>1, <1>2, FS_Product
<1>4. IsFiniteSet(KeysOf(i))
  BY <1>3, KeyFacts, Zenon
<1>5. IsFiniteSet(S)
  BY <1>4, FS_Subset
<1> QED
  BY <1>5, FS_CardinalityType

\* There are finitely many steps.
LEMMA KeysAreFinite ==
    \A S \in SUBSET Key : IsFiniteSet(S) /\ Cardinality(S) \in Nat
<1> DEFINE F == [i \in Stage |-> {i} \X (1 .. Width[i])]
           T == {{i} \X (1 .. Width[i]) : i \in Stage}
<1>1. IsFiniteSet(Stage)
  <2>1. 0 \in Int /\ NStages - 1 \in Int
    BY WacFacts
  <2> QED
    BY <2>1, FS_Interval DEF Stage
<1>2. F \in Surjection(Stage, T)
  BY DEF Surjection
<1>3. IsFiniteSet(T)
  BY <1>1, <1>2, FS_Surjection
<1>4. \A S \in T : IsFiniteSet(S)
  <2> SUFFICES ASSUME NEW i \in Stage PROVE IsFiniteSet({i} \X (1 .. Width[i]))
    OBVIOUS
  <2>1. {i} \X (1 .. Width[i]) = KeysOf(i)
    BY KeyFacts
  <2> QED
    BY <2>1, StageSets
<1>5. IsFiniteSet(Key)
  BY <1>3, <1>4, FS_UNION DEF Key
<1> QED
  BY <1>5, FS_Subset, FS_CardinalityType

\* A set of natural numbers has a least element.
LEMMA LeastExists ==
    ASSUME NEW S \in SUBSET Nat, S # {}
    PROVE  \E x \in S : \A y \in S : x <= y
<1>1. PICK x \in S : \A y \in S : ~(<<y, x>> \in OpToRel(<, Nat))
  BY WFMin, NatLessThanWellFounded
<1>2. \A y \in S : ~(y < x)
  BY <1>1, Zenon DEF OpToRel
<1> QED
  BY <1>2

\* The same from above, for a bounded set.
LEMMA GreatestExists ==
    ASSUME NEW m \in Nat, NEW S \in SUBSET (0 .. m), S # {}
    PROVE  \E x \in S : \A y \in S : y <= x
<1> DEFINE T == {m - x : x \in S}
<1>1. T \in SUBSET Nat /\ T # {}
  <2>1. \A x \in S : m - x \in Nat
    OBVIOUS
  <2> QED BY <2>1, Zenon
<1>2. PICK u \in T : \A v \in T : u <= v
  BY <1>1, LeastExists
<1>3. PICK x \in S : u = m - x
  BY <1>2
<1>4. \A y \in S : m - x <= m - y
  BY <1>2, <1>3
<1> QED
  BY <1>4

\* The step that is pushed first is one of those to push.
LEMMA FirstOfTodo ==
    ASSUME NEW T \in SUBSET Key, T # {}
    PROVE  (CHOOSE x \in T : \A y \in T : x[2] <= y[2]) \in T
<1> DEFINE S == {x[2] : x \in T}
<1>1. S \in SUBSET Nat /\ S # {}
  BY KeyFacts
<1>2. PICK m \in S : \A y \in S : m <= y
  BY <1>1, LeastExists
<1>3. PICK x \in T : m = x[2]
  BY <1>2
<1>4. \A y \in T : x[2] <= y[2]
  BY <1>2, <1>3
<1> QED
  BY <1>4

\* The first stage without all of its results.
LEMMA ReachedFacts ==
    ASSUME NEW done \in [Key -> Result]
    PROVE  /\ Reached(done) \in Nat /\ Reached(done) <= NStages
           /\ Reached(done) < NStages =>
                /\ Reached(done) \in Stage
                /\ \E k \in KeysOf(Reached(done)) : done[k] = "none"
           /\ \A k \in Key : k[1] < Reached(done) => done[k] # "none"
<1> DEFINE open == {i \in Stage : \E k \in KeysOf(i) : done[k] = "none"}
<1>1. \A k \in Key : done[k] = "none" => k[1] \in open
  BY KeyFacts DEF KeysOf
<1>2. CASE open = {}
  BY <1>1, <1>2, WacFacts DEF Reached
<1>3. CASE open # {}
  <2>1. open \in SUBSET Nat
    BY WacFacts
  <2>2. \E x \in open : \A y \in open : x <= y
    BY <1>3, <2>1, LeastExists
  <2>3. Reached(done) \in open /\ \A y \in open : Reached(done) <= y
    BY <1>3, <2>2 DEF Reached
  <2>4. \A k \in Key : k[1] < Reached(done) => done[k] # "none"
    BY <1>1, <2>1, <2>3
  <2> HIDE DEF open
  <2>5. Reached(done) \in Stage /\ \E k \in KeysOf(Reached(done)) : done[k] = "none"
    BY <2>3 DEF open
  <2> QED
    BY <2>4, <2>5, WacFacts
<1> QED
  BY <1>2, <1>3

\* The last id in use is the greatest one.
LEMMA LastIdFacts ==
    LastId \in Nat /\ \A d \in Used : d <= LastId
<1>1. Used \cup {NoChild} \in SUBSET (0 .. MaxChildren) /\ Used \cup {NoChild} # {}
  BY WacFacts DEF Used
<1>2. PICK x \in Used \cup {NoChild} : \A y \in Used \cup {NoChild} : y <= x
  BY <1>1, WacFacts, GreatestExists
<1>3. LastId \in Used \cup {NoChild} /\ \A d \in Used : d <= LastId
  BY <1>2 DEF LastId
<1> QED
  BY <1>1, <1>3

\* New ids are not in use, and each step has one of its own.
LEMMA NewIdsFacts ==
    ASSUME NEW i \in Stage, NEW keys \in SUBSET KeysOf(i),
           LastId + Cardinality(keys) <= MaxChildren
    PROVE  /\ NewIds(keys) \in [Key -> Child \cup {NoChild}]
           /\ \A k \in keys : NewIds(keys)[k] \in Child /\ NewIds(keys)[k] \notin Used
           /\ \A k \in Key : k \notin keys => NewIds(keys)[k] = NoChild
           /\ \A k, l \in keys : NewIds(keys)[k] = NewIds(keys)[l] => k = l
<1> DEFINE upTo(k) == {l \in keys : l[2] <= k[2]}
<1>1. keys \subseteq Key /\ \A k \in keys : k[1] = i /\ k[2] \in Nat
  BY KeyFacts DEF KeysOf
<1>2. IsFiniteSet(keys) /\ Cardinality(keys) \in Nat
  BY StageSets
<1>3. \A k \in keys : /\ IsFiniteSet(upTo(k)) /\ Cardinality(upTo(k)) \in Nat
                      /\ Cardinality(upTo(k)) <= Cardinality(keys)
  BY <1>2, FS_Subset, FS_CardinalityType
<1>4. \A k \in keys : Cardinality(upTo(k)) # 0
  <2> SUFFICES ASSUME NEW k \in keys, Cardinality(upTo(k)) = 0 PROVE FALSE
    OBVIOUS
  <2>1. upTo(k) = {}
    BY <1>3, FS_EmptySet
  <2>2. k \in upTo(k)
    BY <1>1
  <2> QED
    BY <2>1, <2>2
<1>5. ASSUME NEW k \in keys, NEW l \in keys, k[2] < l[2]
      PROVE  Cardinality(upTo(k)) < Cardinality(upTo(l))
  <2>1. l \notin upTo(k) /\ upTo(k) \cup {l} \subseteq upTo(l)
    BY <1>1, <1>5
  <2>2. Cardinality(upTo(k) \cup {l}) = Cardinality(upTo(k)) + 1
    BY <1>3, <2>1, FS_AddElement
  <2>3. Cardinality(upTo(k) \cup {l}) <= Cardinality(upTo(l))
    BY <1>3, <2>1, FS_Subset
  <2>4. Cardinality(upTo(k)) \in Nat /\ Cardinality(upTo(l)) \in Nat
    BY <1>3
  <2> HIDE DEF upTo
  <2> QED
    BY <2>2, <2>3, <2>4
<1>6. \A k \in keys : NewIds(keys)[k] = LastId + Cardinality(upTo(k))
  BY <1>1 DEF NewIds
<1> HIDE DEF upTo
<1>7. ASSUME NEW k \in keys
      PROVE  NewIds(keys)[k] \in Child /\ NewIds(keys)[k] \notin Used
  <2>1. /\ NewIds(keys)[k] \in Nat /\ NewIds(keys)[k] >= 1
        /\ NewIds(keys)[k] <= MaxChildren /\ NewIds(keys)[k] > LastId
    BY <1>2, <1>3, <1>4, <1>6, LastIdFacts, WacFacts
  <2>2. NewIds(keys)[k] \in Child
    BY <2>1, WacFacts DEF Child
  <2> QED
    BY <2>1, <2>2, LastIdFacts
<1>8. \A k, l \in keys : NewIds(keys)[k] = NewIds(keys)[l] => k = l
  <2> SUFFICES ASSUME NEW k \in keys, NEW l \in keys, k # l
               PROVE  NewIds(keys)[k] # NewIds(keys)[l]
    OBVIOUS
  <2>1. k[2] < l[2] \/ l[2] < k[2]
    BY <1>1, KeyFacts
  <2>2. Cardinality(upTo(k)) # Cardinality(upTo(l))
    BY <1>3, <1>5, <2>1
  <2> QED
    BY <1>3, <1>6, <2>2, LastIdFacts
<1>9. \A k \in Key : k \notin keys => NewIds(keys)[k] = NoChild
  BY DEF NewIds
<1> QED
  BY <1>7, <1>8, <1>9 DEF NewIds

Pcs == {"idle", "pulled", "replay", "push", "fail", "run", "read", "report"}
Ids == [Key -> Child \cup {NoChild}]
Thread == [pc : Pcs, done : [Key -> Result], child : Child \cup {NoChild}, ids : Ids,
           result : {"ok", "error"}, todo : SUBSET Key]
PendingSteps == [mode : {"none", "tasks", "approval", "sleep"}, keys : SUBSET Key, ids : Ids]
Message == [approved : BOOLEAN, for : SUBSET Key]
RequestRow == [pc : {"idle", "write"}, approved : BOOLEAN, suspend : Nat, for : SUBSET Key]

\* TypeOK with the sets of records named.
Types ==
    /\ row \in {"queued", "running"} \cup Ended
    /\ suspend \in Nat
    /\ until \in {"null", "future", "past"}
    /\ completed \in [Key -> Result] /\ pending \in PendingSteps
    /\ child \in [Child -> ChildState] /\ childKey \in [Child -> Key]
    /\ proc \in [Proc -> Thread]
    /\ resume_job \in Seq(Message) /\ request \in [Request -> RequestRow]
    /\ messages \in 0 .. MaxMessages /\ crashes \in 0 .. MaxCrashes
    /\ pushErrors \in 0 .. MaxPushErrors

\* The two say the same.
LEMMA TypesAreTypeOK == Types <=> TypeOK
BY DEF Types, TypeOK, PendingSteps, Thread, Ids, Pcs, Message, RequestRow

\* The same after a step.
LEMMA TypesNext == Types' => TypeOK'
BY DEF Types, TypeOK, PendingSteps, Thread, Ids, Pcs, Message, RequestRow

\* The records that threads, the checkpoint and requests begin with.
LEMMA EmptyRecords ==
    /\ NoIds \in Ids /\ \A k \in Key : NoIds[k] = NoChild
    /\ Nothing \in [Key -> Result]
    /\ Idle \in Thread /\ Idle.pc = "idle" /\ Idle.ids = NoIds /\ Idle.child = NoChild
    /\ Idle.result = "ok" /\ Idle.todo = {} /\ Idle.done = Nothing
    /\ NoPending \in PendingSteps /\ NoPending.mode = "none" /\ NoPending.keys = {}
    /\ NoPending.ids = NoIds
    /\ NoRequest \in RequestRow /\ NoRequest.pc = "idle"
<1>1. NoIds \in Ids /\ \A k \in Key : NoIds[k] = NoChild
  BY DEF NoIds, Ids
<1>2. Nothing \in [Key -> Result]
  BY DEF Nothing, Result
<1>3. Idle \in Thread /\ Idle.pc = "idle" /\ Idle.ids = NoIds /\ Idle.child = NoChild
      /\ Idle.result = "ok" /\ Idle.todo = {} /\ Idle.done = Nothing
  BY <1>1, <1>2 DEF Idle, Thread, Pcs
<1>4. NoPending \in PendingSteps /\ NoPending.mode = "none" /\ NoPending.keys = {}
      /\ NoPending.ids = NoIds
  BY <1>1 DEF NoPending, PendingSteps
<1>5. NoRequest \in RequestRow /\ NoRequest.pc = "idle"
  BY DEF NoRequest, RequestRow
<1> QED
  BY <1>1, <1>2, <1>3, <1>4, <1>5

\* The fields of a thread and of the checkpoint.
LEMMA Fields ==
    /\ \A t \in Thread : /\ t.pc \in Pcs /\ t.done \in [Key -> Result]
                         /\ t.child \in Child \cup {NoChild} /\ t.ids \in Ids
                         /\ t.result \in {"ok", "error"} /\ t.todo \in SUBSET Key
    /\ \A x \in PendingSteps : /\ x.mode \in {"none", "tasks", "approval", "sleep"}
                               /\ x.keys \in SUBSET Key /\ x.ids \in Ids
    /\ \A f \in Ids : \A k \in Key : f[k] \in Child \cup {NoChild}
BY DEF Thread, PendingSteps, Ids

\* A thread p of which t is made, the others as they were.
Becomes(p, t) ==
    /\ proc'[p] = t /\ t \in Thread
    /\ proc' \in [Proc -> Thread]
    /\ \A q \in Proc : q # p => proc'[q] = proc[q]

\* An assignment to one thread is such a change.
LEMMA ThreadBecomes ==
    ASSUME Types, NEW p \in Proc, NEW t \in Thread, proc' = [proc EXCEPT ![p] = t]
    PROVE  Becomes(p, t)
BY DEF Types, Becomes

\* A thread that has come to its end.
LEMMA IdleThread ==
    ASSUME Types, NEW p \in Proc, proc' = [proc EXCEPT ![p] = Idle]
    PROVE  Becomes(p, proc'[p]) /\ proc'[p] = Idle
<1>1. Becomes(p, Idle)
  BY ThreadBecomes, EmptyRecords
<1> QED
  BY <1>1 DEF Becomes

\* A record of which fields are set.
LEMMA SetFields ==
    /\ \A t \in Thread : \A x \in Pcs :
          LET u == [t EXCEPT !.pc = x] IN
          /\ u \in Thread /\ u.pc = x /\ u.done = t.done /\ u.child = t.child
          /\ u.ids = t.ids /\ u.result = t.result /\ u.todo = t.todo
    /\ \A t \in Thread : \A f \in [Key -> Result] :
          LET u == [t EXCEPT !.done = f] IN
          /\ u \in Thread /\ u.pc = t.pc /\ u.done = f /\ u.child = t.child
          /\ u.ids = t.ids /\ u.result = t.result /\ u.todo = t.todo
    /\ \A t \in Thread : \A S \in SUBSET Key :
          LET u == [t EXCEPT !.todo = S] IN
          /\ u \in Thread /\ u.pc = t.pc /\ u.done = t.done /\ u.child = t.child
          /\ u.ids = t.ids /\ u.result = t.result /\ u.todo = S
<1>1. ASSUME NEW t \in Thread, NEW x \in Pcs
      PROVE  LET u == [t EXCEPT !.pc = x] IN
             /\ u \in Thread /\ u.pc = x /\ u.done = t.done /\ u.child = t.child
             /\ u.ids = t.ids /\ u.result = t.result /\ u.todo = t.todo
  BY DEF Thread
<1>2. ASSUME NEW t \in Thread, NEW f \in [Key -> Result]
      PROVE  LET u == [t EXCEPT !.done = f] IN
             /\ u \in Thread /\ u.pc = t.pc /\ u.done = f /\ u.child = t.child
             /\ u.ids = t.ids /\ u.result = t.result /\ u.todo = t.todo
  BY DEF Thread
<1>3. ASSUME NEW t \in Thread, NEW S \in SUBSET Key
      PROVE  LET u == [t EXCEPT !.todo = S] IN
             /\ u \in Thread /\ u.pc = t.pc /\ u.done = t.done /\ u.child = t.child
             /\ u.ids = t.ids /\ u.result = t.result /\ u.todo = S
  BY DEF Thread
<1> QED
  BY <1>1, <1>2, <1>3
-----------------------------------------------------------------------------
(* What each operation does.                                               *)

\* The parent is claimed.
LEMMA PullParentEffect ==
    ASSUME Types, NEW p \in Proc, PullParent(p)
    PROVE  /\ Types'
           /\ Becomes(p, proc'[p]) /\ proc[p].pc = "idle"
           /\ proc'[p].pc = "pulled" /\ proc'[p].ids = NoIds
           /\ row = "queued" \/ (row = "running" /\ Resumable)
           /\ row' = "running" /\ until' = "null"
           /\ UNCHANGED <<suspend, completed, pending, child, childKey, resume_job, request,
                          messages, crashes, pushErrors>>
<1> DEFINE t == [Idle EXCEPT !.pc = "pulled"]
<1>1. t \in Thread /\ t.pc = "pulled" /\ t.ids = NoIds
  BY EmptyRecords, SetFields DEF Pcs
<1>2. proc' = [proc EXCEPT ![p] = t]
  BY DEF PullParent
<1> HIDE DEF t
<1>3. Becomes(p, t)
  BY <1>1, <1>2, ThreadBecomes
<1>4. /\ proc[p].pc = "idle"
      /\ row = "queued" \/ (row = "running" /\ Resumable)
      /\ row' = "running" /\ until' = "null"
      /\ UNCHANGED <<suspend, completed, pending, child, childKey, resume_job, request,
                     messages, crashes, pushErrors>>
  BY DEF PullParent, checkpoint, children, approvals, faults
<1>5. Types'
  BY <1>3, <1>4 DEF Types, Becomes
<1> QED
  BY <1>1, <1>3, <1>4, <1>5 DEF Becomes

\* The checkpoint is read, and the outcome of an approval or of a sleep saved.
LEMMA LoadEffect ==
    ASSUME Types, NEW p \in Proc, Load(p)
    PROVE  /\ Types'
           /\ Becomes(p, proc'[p]) /\ proc[p].pc = "pulled"
           /\ proc'[p].pc = "replay" /\ proc'[p].ids = proc[p].ids
           /\ proc'[p].done = completed'
           /\ \A k \in Key : completed'[k] # completed[k] =>
                /\ k \in pending.keys /\ pending.mode \in {"approval", "sleep"}
                /\ completed'[k] # "none"
           /\ pending.mode \in {"approval", "sleep"} =>
                pending' = NoPending /\ \A k \in pending.keys : completed'[k] # "none"
           /\ pending.mode \notin {"approval", "sleep"} => UNCHANGED <<completed, pending>>
           /\ UNCHANGED <<row, suspend, until, child, childKey, resume_job, request,
                          messages, crashes, pushErrors>>
<1> DEFINE outcome == IF pending.mode = "approval" THEN Answer ELSE "ok"
           f == [k \in Key |-> IF k \in pending.keys THEN outcome ELSE completed[k]]
           t == [proc[p] EXCEPT !.pc = "replay", !.done = completed']
<1>0. proc[p] \in Thread /\ completed \in [Key -> Result] /\ pending \in PendingSteps
  BY DEF Types
<1>1. outcome \in Result \ {"none"}
  BY DEF Answer, Result
<1> HIDE DEF outcome
<1>2. f \in [Key -> Result] /\ \A k \in Key : f[k] = IF k \in pending.keys THEN outcome ELSE completed[k]
  BY <1>0, <1>1
<1>3. /\ pending.mode \in {"approval", "sleep"} => completed' = f /\ pending' = NoPending
      /\ pending.mode \notin {"approval", "sleep"} => completed' = completed /\ pending' = pending
  BY DEF Load, checkpoint, outcome
<1> HIDE DEF f
<1>4. completed' \in [Key -> Result] /\ pending' \in PendingSteps
  BY <1>0, <1>2, <1>3, EmptyRecords
<1>5. t \in Thread /\ t.pc = "replay" /\ t.ids = proc[p].ids /\ t.done = completed'
  BY <1>0, <1>4 DEF Thread, Pcs
<1>6. proc' = [proc EXCEPT ![p] = t]
  BY DEF Load
<1> HIDE DEF t
<1>7. Becomes(p, t)
  BY <1>5, <1>6, ThreadBecomes
<1>8. /\ proc[p].pc = "pulled"
      /\ UNCHANGED <<row, suspend, until, child, childKey, resume_job, request, messages,
                     crashes, pushErrors>>
  BY DEF Load, parent, children, approvals, faults
<1>9. Types'
  BY <1>4, <1>7, <1>8 DEF Types, Becomes
<1>10. \A k \in Key : completed'[k] # completed[k] =>
          /\ k \in pending.keys /\ pending.mode \in {"approval", "sleep"}
          /\ completed'[k] # "none"
  BY <1>1, <1>2, <1>3
<1>11. pending.mode \in {"approval", "sleep"} =>
          pending' = NoPending /\ \A k \in pending.keys : completed'[k] # "none"
  <2>1. pending.keys \subseteq Key
    BY <1>0, Fields
  <2> QED
    BY <1>1, <1>2, <1>3, <2>1
<1> QED
  BY <1>3, <1>5, <1>7, <1>8, <1>9, <1>10, <1>11 DEF Becomes

\* What is missing, at a stage of the kind.
LEMMA AtFacts ==
    ASSUME Types, NEW p \in Proc, NEW kind, At(p, kind)
    PROVE  /\ proc[p].pc = "replay" /\ Reached(proc[p].done) \in Stage
           /\ Missing(p) \in SUBSET KeysOf(Reached(proc[p].done)) /\ Missing(p) # {}
           /\ Missing(p) \in SUBSET Key
           /\ \A k \in Missing(p) : Kind[k[1]] = kind /\ proc[p].done[k] = "none"
           /\ \A k \in Missing(p) : k[1] = Reached(proc[p].done)
           /\ \A k \in Key : k[1] < Reached(proc[p].done) => proc[p].done[k] # "none"
<1>1. proc[p].done \in [Key -> Result]
  BY Fields DEF Types
<1>2. Reached(proc[p].done) < NStages /\ Kind[Reached(proc[p].done)] = kind
      /\ proc[p].pc = "replay"
  BY DEF At
<1>3. /\ Reached(proc[p].done) \in Stage
      /\ \E k \in KeysOf(Reached(proc[p].done)) : proc[p].done[k] = "none"
      /\ \A k \in Key : k[1] < Reached(proc[p].done) => proc[p].done[k] # "none"
  BY <1>1, <1>2, ReachedFacts
<1> QED
  BY <1>2, <1>3 DEF Missing, KeysOf

\* Ids are given out and the parent is suspended.
LEMMA DispatchEffect ==
    ASSUME Types, NEW p \in Proc, Dispatch(p)
    PROVE  /\ Types'
           /\ At(p, "tasks")
           /\ Becomes(p, proc'[p]) /\ proc[p].pc = "replay"
           /\ proc'[p].pc = "push" /\ proc'[p].ids = pending'.ids /\ proc'[p].todo = Missing(p)
           /\ pending'.mode = "tasks" /\ pending'.keys = Missing(p)
           /\ \A k \in Missing(p) : pending'.ids[k] \in Child /\ pending'.ids[k] \notin Used
           /\ \A k \in Key : k \notin Missing(p) => pending'.ids[k] = NoChild
           /\ \A k, l \in Missing(p) : pending'.ids[k] = pending'.ids[l] => k = l
           /\ InQueue => suspend' = Cardinality(Missing(p)) /\ until' = "future"
           /\ ~InQueue => UNCHANGED <<suspend, until>>
           /\ UNCHANGED <<row, completed, child, childKey, resume_job, request, messages,
                          crashes, pushErrors>>
<1> DEFINE t == [proc[p] EXCEPT !.pc = "push", !.ids = NewIds(Missing(p)), !.todo = Missing(p)]
<1>1. At(p, "tasks") /\ LastId + Cardinality(Missing(p)) <= MaxChildren
  BY DEF Dispatch
<1>2. /\ proc[p].pc = "replay" /\ Reached(proc[p].done) \in Stage
      /\ Missing(p) \in SUBSET KeysOf(Reached(proc[p].done)) /\ Missing(p) \in SUBSET Key
  BY <1>1, AtFacts
<1>3. /\ NewIds(Missing(p)) \in Ids
      /\ \A k \in Missing(p) : NewIds(Missing(p))[k] \in Child /\ NewIds(Missing(p))[k] \notin Used
      /\ \A k \in Key : k \notin Missing(p) => NewIds(Missing(p))[k] = NoChild
      /\ \A k, l \in Missing(p) : NewIds(Missing(p))[k] = NewIds(Missing(p))[l] => k = l
  BY <1>1, <1>2, NewIdsFacts DEF Ids
<1>4. pending' = [mode |-> "tasks", keys |-> Missing(p), ids |-> NewIds(Missing(p))]
      /\ proc' = [proc EXCEPT ![p] = t]
  BY DEF Dispatch
<1>5. pending' \in PendingSteps /\ pending'.mode = "tasks" /\ pending'.keys = Missing(p)
      /\ pending'.ids = NewIds(Missing(p))
  BY <1>2, <1>3, <1>4 DEF PendingSteps
<1>6. t \in Thread /\ t.pc = "push" /\ t.ids = NewIds(Missing(p)) /\ t.todo = Missing(p)
  <2>1. proc[p] \in Thread
    BY DEF Types
  <2> QED
    BY <1>2, <1>3, <2>1 DEF Thread, Pcs
<1> HIDE DEF t
<1>7. Becomes(p, t)
  BY <1>4, <1>6, ThreadBecomes
<1>8. /\ InQueue => suspend' = Cardinality(Missing(p)) /\ until' = "future"
      /\ ~InQueue => UNCHANGED <<suspend, until>>
      /\ UNCHANGED <<row, completed, child, childKey, resume_job, request, messages,
                     crashes, pushErrors>>
  BY DEF Dispatch, SuspendCount, children, approvals, faults
<1>9. Cardinality(Missing(p)) \in Nat
  BY <1>2, StageSets
<1>10. Types'
  BY <1>5, <1>7, <1>8, <1>9 DEF Types, Becomes
<1> QED
  BY <1>1, <1>2, <1>3, <1>5, <1>6, <1>7, <1>8, <1>10 DEF Becomes

\* A child is pushed: one that has the id of a step to push.
LEMMA PushChildEffect ==
    ASSUME Types, NEW p \in Proc, PushChild(p), IdsAreNew
    PROVE  /\ Types'
           /\ \E k \in proc[p].todo :
                /\ proc[p].ids[k] \in Child /\ child[proc[p].ids[k]] = "none"
                /\ child'[proc[p].ids[k]] = "queued" /\ childKey'[proc[p].ids[k]] = k
                /\ \A c \in Child : c # proc[p].ids[k] =>
                      child'[c] = child[c] /\ childKey'[c] = childKey[c]
                /\ proc[p].todo = {k} => proc'[p] = Idle
                /\ proc[p].todo # {k} =>
                      /\ proc'[p].pc = "push" /\ proc'[p].ids = proc[p].ids
                      /\ proc'[p].todo = proc[p].todo \ {k}
           /\ Becomes(p, proc'[p]) /\ proc[p].pc = "push"
           /\ UNCHANGED <<row, suspend, until, completed, pending, resume_job, request,
                          messages, crashes, pushErrors>>
<1> DEFINE k == CHOOSE x \in proc[p].todo : \A y \in proc[p].todo : x[2] <= y[2]
           c == proc[p].ids[k]
           left == proc[p].todo \ {k}
           t == IF left = {} THEN Idle ELSE [proc[p] EXCEPT !.todo = left]
<1>1. proc[p] \in Thread /\ proc[p].todo \in SUBSET Key
  BY Fields DEF Types
<1>2. proc[p].pc = "push" /\ proc[p].todo # {}
  BY DEF PushChild, IdsAreNew
<1>3. k \in proc[p].todo
  BY <1>1, <1>2, FirstOfTodo
<1>4. /\ child' = [child EXCEPT ![c] = "queued"]
      /\ childKey' = [childKey EXCEPT ![c] = k]
      /\ proc' = [proc EXCEPT ![p] = t]
  BY DEF PushChild
<1>5. UNCHANGED <<row, suspend, until, completed, pending, resume_job, request, messages,
                  crashes, pushErrors>>
  BY DEF PushChild, parent, checkpoint, approvals, faults
<1> HIDE DEF k
<1>6. c \in Child /\ child[c] = "none"
  BY <1>2, <1>3 DEF IdsAreNew
<1>7. left = {} <=> proc[p].todo = {k}
  BY <1>3
<1>8. /\ t \in Thread
      /\ left = {} => t = Idle
      /\ left # {} => t.pc = "push" /\ t.ids = proc[p].ids /\ t.todo = left
  BY <1>1, <1>2, EmptyRecords, SetFields
<1> HIDE DEF t, c
<1>9. Becomes(p, t)
  BY <1>4, <1>8, ThreadBecomes
<1>10. child' \in [Child -> ChildState] /\ childKey' \in [Child -> Key]
  BY <1>1, <1>3, <1>4, <1>6 DEF Types, ChildState
<1>11. Types'
  BY <1>5, <1>9, <1>10 DEF Types, Becomes
<1>12. /\ child'[c] = "queued" /\ childKey'[c] = k
       /\ \A d \in Child : d # c => child'[d] = child[d] /\ childKey'[d] = childKey[d]
  BY <1>4, <1>6 DEF Types
<1> QED
  BY <1>2, <1>3, <1>5, <1>6, <1>7, <1>8, <1>9, <1>11, <1>12 DEF Becomes, c

\* A push fails: what was pushed is cancelled.
LEMMA PushFailsEffect ==
    ASSUME Types, NEW p \in Proc, PushFails(p)
    PROVE  /\ Types'
           /\ Becomes(p, proc'[p]) /\ proc[p].pc = "push"
           /\ proc'[p].pc = "fail" /\ proc'[p].ids = NoIds
           /\ \A c \in Child : child'[c] = child[c] \/ (child[c] = "queued" /\ child'[c] = "canceled")
           /\ pending' = NoPending /\ suspend' = 0 /\ until' = "null"
           /\ pushErrors' = pushErrors + 1
           /\ UNCHANGED <<row, completed, childKey, resume_job, request, messages, crashes>>
<1> DEFINE t == [Idle EXCEPT !.pc = "fail"]
           pushed == {proc[p].ids[k] : k \in pending.keys \ proc[p].todo}
<1>1. t \in Thread /\ t.pc = "fail" /\ t.ids = NoIds
  BY EmptyRecords, SetFields DEF Pcs
<1>2. proc' = [proc EXCEPT ![p] = t]
  BY DEF PushFails
<1> HIDE DEF t
<1>3. Becomes(p, t)
  BY <1>1, <1>2, ThreadBecomes
<1>4. child' = [c \in Child |-> IF c \in pushed /\ child[c] = "queued" THEN "canceled" ELSE child[c]]
  BY DEF PushFails
<1> HIDE DEF pushed
<1>5. /\ child' \in [Child -> ChildState]
      /\ \A c \in Child : child'[c] = child[c] \/ (child[c] = "queued" /\ child'[c] = "canceled")
  BY <1>4 DEF Types, ChildState
<1>6. /\ proc[p].pc = "push" /\ pushErrors < MaxPushErrors
      /\ pending' = NoPending /\ suspend' = 0 /\ until' = "null"
      /\ pushErrors' = pushErrors + 1
      /\ UNCHANGED <<row, completed, childKey, resume_job, request, messages, crashes>>
  BY DEF PushFails, approvals
<1>7. pushErrors' \in 0 .. MaxPushErrors
  BY <1>6, WacFacts DEF Types
<1>8. Types'
  BY <1>3, <1>5, <1>6, <1>7, EmptyRecords DEF Types, Becomes
<1> QED
  BY <1>1, <1>3, <1>5, <1>6, <1>8 DEF Becomes

\* The script waits for an approval, or for a clock.
LEMMA WaitEffect ==
    ASSUME Types, NEW p \in Proc, Wait(p)
    PROVE  /\ Types'
           /\ At(p, "approval") \/ At(p, "sleep")
           /\ Becomes(p, proc'[p]) /\ proc[p].pc = "replay" /\ proc'[p] = Idle
           /\ pending'.mode = Kind[Reached(proc[p].done)]
           /\ pending'.mode \in {"approval", "sleep"}
           /\ pending'.keys = Missing(p) /\ pending'.ids = NoIds
           /\ InQueue => suspend' = 1 /\ until' = "future"
           /\ ~InQueue => UNCHANGED <<suspend, until>>
           /\ UNCHANGED <<row, completed, child, childKey, resume_job, request, messages,
                          crashes, pushErrors>>
<1>1. At(p, "approval") \/ At(p, "sleep")
  BY DEF Wait
<1>2. proc[p].pc = "replay" /\ Missing(p) \in SUBSET Key
  BY <1>1, AtFacts
<1>3. Kind[Reached(proc[p].done)] \in {"approval", "sleep"}
  BY <1>1 DEF At
<1>4. pending' = [mode |-> Kind[Reached(proc[p].done)], keys |-> Missing(p), ids |-> NoIds]
      /\ proc' = [proc EXCEPT ![p] = Idle]
  BY DEF Wait
<1>5. /\ pending' \in PendingSteps /\ pending'.mode = Kind[Reached(proc[p].done)]
      /\ pending'.keys = Missing(p) /\ pending'.ids = NoIds
  BY <1>2, <1>3, <1>4, EmptyRecords DEF PendingSteps
<1>6. Becomes(p, proc'[p]) /\ proc'[p] = Idle
  BY <1>4, IdleThread
<1>7. /\ InQueue => suspend' = 1 /\ until' = "future"
      /\ ~InQueue => UNCHANGED <<suspend, until>>
      /\ UNCHANGED <<row, completed, child, childKey, resume_job, request, messages,
                     crashes, pushErrors>>
  BY DEF Wait, children, approvals, faults
<1>8. Types'
  BY <1>5, <1>6, <1>7 DEF Types, Becomes
<1> QED
  BY <1>1, <1>2, <1>3, <1>5, <1>6, <1>7, <1>8

\* An inline step.
LEMMA InlineEffect ==
    ASSUME Types, NEW p \in Proc, NEW fast \in BOOLEAN, Inline(p, fast)
    PROVE  /\ Types'
           /\ At(p, "inline")
           /\ Becomes(p, proc'[p]) /\ proc[p].pc = "replay"
           /\ \A k \in Missing(p) : completed'[k] = "ok"
           /\ \A k \in Key : k \notin Missing(p) => completed'[k] = completed[k]
           /\ \/ /\ proc'[p].pc = "replay" /\ proc'[p].ids = proc[p].ids
                 /\ \A k \in Missing(p) : proc'[p].done[k] = "ok"
                 /\ \A k \in Key : k \notin Missing(p) => proc'[p].done[k] = proc[p].done[k]
                 /\ row' = row
              \/ /\ proc'[p] = Idle
                 /\ InQueue => row' = "queued"
                 /\ ~InQueue => row' = row
           /\ UNCHANGED <<suspend, until, pending, child, childKey, resume_job, request,
                          messages, crashes, pushErrors>>
<1> DEFINE save(f) == [k \in Key |-> IF k \in Missing(p) THEN "ok" ELSE f[k]]
<1>1. At(p, "inline") /\ proc[p].pc = "replay" /\ Missing(p) \in SUBSET Key
  <2>1. At(p, "inline")
    BY DEF Inline
  <2> QED
    BY <2>1, AtFacts
<1>2. completed' = save(completed)
      /\ UNCHANGED <<suspend, until, pending, child, childKey, resume_job, request, messages,
                     crashes, pushErrors>>
  BY DEF Inline, children, approvals, faults
<1>3. fast => proc' = [proc EXCEPT ![p].done = save(proc[p].done)] /\ row' = row
  BY DEF Inline
<1>4. ~fast => proc' = [proc EXCEPT ![p] = Idle] /\ row' = IF InQueue THEN "queued" ELSE row
  BY DEF Inline
<1>5. \A f \in [Key -> Result] :
         /\ save(f) \in [Key -> Result]
         /\ \A k \in Missing(p) : save(f)[k] = "ok"
         /\ \A k \in Key : k \notin Missing(p) => save(f)[k] = f[k]
  BY <1>1 DEF Result
<1>6. completed' \in [Key -> Result]
  BY <1>2, <1>5 DEF Types
<1> HIDE DEF save
<1>7. /\ \A k \in Missing(p) : completed'[k] = "ok"
      /\ \A k \in Key : k \notin Missing(p) => completed'[k] = completed[k]
  BY <1>2, <1>5 DEF Types
<1>8. ASSUME fast
      PROVE  /\ Becomes(p, proc'[p]) /\ proc'[p].pc = "replay" /\ proc'[p].ids = proc[p].ids
             /\ \A k \in Missing(p) : proc'[p].done[k] = "ok"
             /\ \A k \in Key : k \notin Missing(p) => proc'[p].done[k] = proc[p].done[k]
  <2> DEFINE t == [proc[p] EXCEPT !.done = save(proc[p].done)]
  <2>1. proc[p] \in Thread /\ proc[p].done \in [Key -> Result]
    BY Fields DEF Types
  <2>2. save(proc[p].done) \in [Key -> Result]
    BY <1>5, <2>1
  <2>3. t \in Thread /\ t.pc = "replay" /\ t.ids = proc[p].ids /\ t.done = save(proc[p].done)
    BY <1>1, <2>1, <2>2, SetFields
  <2>4. proc' = [proc EXCEPT ![p] = t]
    BY <1>3, <1>8
  <2> HIDE DEF t
  <2>5. Becomes(p, t)
    BY <2>3, <2>4, ThreadBecomes
  <2> QED
    BY <1>5, <2>1, <2>3, <2>5 DEF Becomes
<1>9. ASSUME ~fast
      PROVE  Becomes(p, proc'[p]) /\ proc'[p] = Idle
  BY <1>4, <1>9, IdleThread
<1>10. Becomes(p, proc'[p])
  BY <1>8, <1>9
<1>11. row' \in {"queued", "running"} \cup Ended
  BY <1>3, <1>4 DEF Types
<1>12. Types'
  BY <1>2, <1>6, <1>10, <1>11 DEF Types, Becomes
<1>13. \/ /\ proc'[p].pc = "replay" /\ proc'[p].ids = proc[p].ids
          /\ \A k \in Missing(p) : proc'[p].done[k] = "ok"
          /\ \A k \in Key : k \notin Missing(p) => proc'[p].done[k] = proc[p].done[k]
          /\ row' = row
       \/ /\ proc'[p] = Idle
          /\ InQueue => row' = "queued"
          /\ ~InQueue => row' = row
  BY <1>3, <1>4, <1>8, <1>9
<1> QED
  BY <1>1, <1>2, <1>7, <1>10, <1>12, <1>13

\* The parent leaves the queue.
Ends(s) ==
    /\ InQueue => row' = s /\ suspend' = 0 /\ until' = "null" /\ pending' = NoPending
    /\ ~InQueue => UNCHANGED <<row, suspend, until, pending>>

\* The script ends.
LEMMA FinishEffect ==
    ASSUME Types, NEW p \in Proc, Finish(p)
    PROVE  /\ Types'
           /\ Becomes(p, proc'[p]) /\ proc[p].pc \in {"replay", "fail"} /\ proc'[p] = Idle
           /\ \/ Ends("success") /\ proc[p].pc = "replay" /\ \A k \in Key : proc[p].done[k] # "none"
              \/ Ends("failure")
           /\ UNCHANGED <<completed, child, childKey, resume_job, request, messages, crashes,
                          pushErrors>>
<1>1. Becomes(p, proc'[p]) /\ proc'[p] = Idle
  BY IdleThread DEF Finish
<1>2. UNCHANGED <<completed, child, childKey, resume_job, request, messages, crashes, pushErrors>>
  BY DEF Finish, children, approvals, faults
<1>3. proc[p].pc \in {"replay", "fail"}
  BY DEF Finish
<1>4. \/ Ends("success") /\ proc[p].pc = "replay" /\ Reached(proc[p].done) = NStages
      \/ Ends("failure")
  BY DEF Finish, End, Ends, parent
<1>5. Reached(proc[p].done) = NStages => \A k \in Key : proc[p].done[k] # "none"
  <2>1. proc[p].done \in [Key -> Result]
    BY Fields DEF Types
  <2> QED
    BY <2>1, ReachedFacts, KeyFacts, WacFacts
<1>6. Types'
  BY <1>1, <1>2, <1>4, EmptyRecords DEF Types, Becomes, Ends, Ended
<1> QED
  BY <1>1, <1>2, <1>3, <1>4, <1>5, <1>6

\* A child is claimed.
LEMMA PullChildEffect ==
    ASSUME Types, NEW p \in Proc, NEW c \in Child, PullChild(p, c)
    PROVE  /\ Types'
           /\ Becomes(p, proc'[p]) /\ proc[p].pc = "idle"
           /\ proc'[p].pc = "run" /\ proc'[p].child = c /\ proc'[p].ids = NoIds
           /\ child[c] \in {"queued", "canceled"} /\ child'[c] = "running"
           /\ \A d \in Child : d # c => child'[d] = child[d]
           /\ UNCHANGED <<row, suspend, until, completed, pending, childKey, resume_job, request,
                          messages, crashes, pushErrors>>
<1> DEFINE t == [Idle EXCEPT !.pc = "run", !.child = c,
                             !.result = IF child[c] = "canceled" THEN "error" ELSE "ok"]
<1>1. t \in Thread /\ t.pc = "run" /\ t.ids = NoIds /\ t.child = c
  BY EmptyRecords DEF Thread, Pcs
<1>2. proc' = [proc EXCEPT ![p] = t]
  BY DEF PullChild
<1> HIDE DEF t
<1>3. Becomes(p, t)
  BY <1>1, <1>2, ThreadBecomes
<1>4. /\ proc[p].pc = "idle" /\ child[c] \in {"queued", "canceled"}
      /\ child' = [child EXCEPT ![c] = "running"]
      /\ UNCHANGED <<row, suspend, until, completed, pending, childKey, resume_job, request,
                     messages, crashes, pushErrors>>
  BY DEF PullChild, parent, checkpoint, approvals, faults
<1>5. child' \in [Child -> ChildState] /\ child'[c] = "running"
      /\ \A d \in Child : d # c => child'[d] = child[d]
  BY <1>4 DEF Types, ChildState
<1>6. Types'
  BY <1>3, <1>4, <1>5 DEF Types, Becomes
<1> QED
  BY <1>1, <1>3, <1>4, <1>5, <1>6 DEF Becomes

\* A child ends.
LEMMA EndChildEffect ==
    ASSUME Types, NEW p \in Proc, NEW result \in {"ok", "error"}, EndChild(p, result),
           proc[p].child \in Child
    PROVE  /\ Types'
           /\ Becomes(p, proc'[p]) /\ proc[p].pc = "run"
           /\ child'[proc[p].child] = result
           /\ \A d \in Child : d # proc[p].child => child'[d] = child[d]
           /\ proc'[p].ids \in {proc[p].ids, NoIds, pending.ids}
           /\ \/ proc'[p] = Idle /\ pending.mode = "none"
              \/ /\ proc'[p].pc \in {"read", "report"} /\ proc'[p].child = proc[p].child
                 /\ proc'[p].result = result
                 /\ proc'[p].pc = "report" => proc'[p].ids = pending.ids /\ pending.mode # "none"
           /\ UNCHANGED <<row, suspend, until, completed, pending, childKey, resume_job, request,
                          messages, crashes, pushErrors>>
<1> DEFINE read == [proc[p] EXCEPT !.pc = "read", !.result = "error"]
           report == [proc[p] EXCEPT !.pc = "report", !.ids = pending.ids]
           t == IF result = "error" THEN read ELSE IF pending.mode = "none" THEN Idle ELSE report
<1>1. proc[p] \in Thread /\ pending.ids \in Ids /\ proc[p].result \in {"ok", "error"}
  BY Fields DEF Types
<1>2. read \in Thread /\ read.pc = "read" /\ read.child = proc[p].child /\ read.ids = proc[p].ids
      /\ read.result = "error"
  BY <1>1 DEF Thread, Pcs
<1>3. report \in Thread /\ report.pc = "report" /\ report.child = proc[p].child
      /\ report.ids = pending.ids /\ report.result = proc[p].result
  BY <1>1 DEF Thread, Pcs
<1>4. proc' = [proc EXCEPT ![p] = t]
  BY DEF EndChild
<1>5. proc[p].pc = "run" /\ (proc[p].result = "error" => result = "error")
      /\ child' = [child EXCEPT ![proc[p].child] = result]
      /\ UNCHANGED <<row, suspend, until, completed, pending, childKey, resume_job, request,
                     messages, crashes, pushErrors>>
  BY DEF EndChild, parent, checkpoint, approvals, faults
<1> HIDE DEF read, report
<1>6. /\ t \in Thread /\ t.ids \in {proc[p].ids, NoIds, pending.ids}
      /\ \/ t = Idle /\ pending.mode = "none"
         \/ /\ t.pc \in {"read", "report"} /\ t.child = proc[p].child /\ t.result = result
            /\ t.pc = "report" => t.ids = pending.ids /\ pending.mode # "none"
  BY <1>1, <1>2, <1>3, <1>5, EmptyRecords
<1> HIDE DEF t
<1>7. Becomes(p, t)
  BY <1>4, <1>6, ThreadBecomes
<1>8. child' \in [Child -> ChildState] /\ child'[proc[p].child] = result
      /\ \A d \in Child : d # proc[p].child => child'[d] = child[d]
  BY <1>5 DEF Types, ChildState
<1>9. Types'
  BY <1>5, <1>7, <1>8 DEF Types, Becomes
<1> QED
  BY <1>5, <1>6, <1>7, <1>8, <1>9 DEF Becomes

\* The ids are read again.
LEMMA ReadIdsEffect ==
    ASSUME Types, NEW p \in Proc, ReadIds(p)
    PROVE  /\ Types'
           /\ Becomes(p, proc'[p]) /\ proc[p].pc = "read"
           /\ \/ proc'[p] = Idle /\ pending.mode = "none"
              \/ /\ proc'[p].pc = "report" /\ proc'[p].child = proc[p].child
                 /\ proc'[p].result = proc[p].result /\ proc'[p].ids = pending.ids
                 /\ pending.mode # "none"
           /\ UNCHANGED <<row, suspend, until, completed, pending, child, childKey, resume_job,
                          request, messages, crashes, pushErrors>>
<1> DEFINE report == [proc[p] EXCEPT !.pc = "report", !.ids = pending.ids]
           t == IF pending.mode = "none" THEN Idle ELSE report
<1>1. proc[p] \in Thread /\ pending.ids \in Ids
  BY Fields DEF Types
<1>2. report \in Thread /\ report.pc = "report" /\ report.child = proc[p].child
      /\ report.ids = pending.ids /\ report.result = proc[p].result
  BY <1>1 DEF Thread, Pcs
<1>3. proc' = [proc EXCEPT ![p] = t]
  BY DEF ReadIds
<1>4. proc[p].pc = "read"
      /\ UNCHANGED <<row, suspend, until, completed, pending, child, childKey, resume_job,
                     request, messages, crashes, pushErrors>>
  BY DEF ReadIds, parent, checkpoint, children, approvals, faults
<1> HIDE DEF report
<1>5. /\ t \in Thread
      /\ \/ t = Idle /\ pending.mode = "none"
         \/ t.pc = "report" /\ t.child = proc[p].child /\ t.result = proc[p].result
            /\ t.ids = pending.ids /\ pending.mode # "none"
  BY <1>2, EmptyRecords
<1> HIDE DEF t
<1>6. Becomes(p, t)
  BY <1>3, <1>5, ThreadBecomes
<1>7. Types'
  BY <1>4, <1>6 DEF Types, Becomes
<1> QED
  BY <1>4, <1>5, <1>6, <1>7 DEF Becomes

\* A result is merged: the step has it, and the parent waits for one less.
Merges(t) ==
    \E k \in Key :
        /\ t.ids[k] = t.child
        /\ completed'[k] = t.result /\ \A l \in Key : l # k => completed'[l] = completed[l]
        /\ suspend' = Decrement
        /\ pending' = (IF Decrement = 0 THEN NoPending ELSE pending)
        /\ UNCHANGED <<row, until>>

\* A child is reported.
LEMMA ReportEffect ==
    ASSUME Types, NEW p \in Proc, Report(p)
    PROVE  /\ Types'
           /\ Becomes(p, proc'[p]) /\ proc[p].pc = "report" /\ proc'[p] = Idle
           /\ \/ ~InQueue /\ UNCHANGED <<row, suspend, until, completed, pending>>
              \/ InQueue /\ Merges(proc[p])
              \/ /\ InQueue /\ \A k \in Key : proc[p].ids[k] # proc[p].child
                 /\ UNCHANGED completed
                 /\ \/ suspend' = Decrement /\ UNCHANGED <<row, until, pending>>
                    \/ Ends("failure")
           /\ UNCHANGED <<child, childKey, resume_job, request, messages, crashes, pushErrors>>
<1> DEFINE keys == {k \in Key : proc[p].ids[k] = proc[p].child}
<1>1. Becomes(p, proc'[p]) /\ proc'[p] = Idle
  BY IdleThread DEF Report
<1>2. proc[p].pc = "report"
      /\ UNCHANGED <<child, childKey, resume_job, request, messages, crashes, pushErrors>>
  BY DEF Report, children, approvals, faults
<1>3. suspend \in Nat /\ Decrement \in Nat
  BY DEF Types, Decrement
<1>4. CASE ~InQueue
  <2>1. UNCHANGED <<row, suspend, until, completed, pending>>
    BY <1>4 DEF Report, parent, checkpoint
  <2>2. Types'
    BY <1>1, <1>2, <2>1 DEF Types, Becomes
  <2> QED
    BY <1>1, <1>2, <1>4, <2>1, <2>2
<1>5. CASE InQueue /\ keys # {}
  <2>1. PICK k \in keys : completed' = [completed EXCEPT ![k] = proc[p].result]
    BY <1>5 DEF Report, MergeStep
  <2>2. /\ suspend' = Decrement
        /\ pending' = (IF Decrement = 0 THEN NoPending ELSE pending)
        /\ UNCHANGED <<row, until>>
    BY <1>5 DEF Report
  <2>3. k \in Key /\ proc[p].ids[k] = proc[p].child /\ proc[p].result \in Result
    BY Fields DEF Types, Result
  <2>4. completed' \in [Key -> Result] /\ completed'[k] = proc[p].result
        /\ \A l \in Key : l # k => completed'[l] = completed[l]
    BY <2>1, <2>3 DEF Types
  <2>5. Merges(proc[p])
    BY <2>2, <2>3, <2>4 DEF Merges
  <2>6. Types'
    BY <1>1, <1>2, <1>3, <2>2, <2>4, EmptyRecords DEF Types, Becomes
  <2> QED
    BY <1>1, <1>2, <1>5, <2>5, <2>6
<1>6. CASE InQueue /\ keys = {}
  <2>1. UNCHANGED completed
        /\ \/ suspend' = Decrement /\ UNCHANGED <<row, until, pending>>
           \/ Ends("failure")
    BY <1>6 DEF Report, End, Ends, checkpoint
  <2>2. Types'
    BY <1>1, <1>2, <1>3, <2>1, EmptyRecords DEF Types, Becomes, Ends, Ended
  <2>3. \A k \in Key : proc[p].ids[k] # proc[p].child
    BY <1>6
  <2> QED
    BY <1>1, <1>2, <1>6, <2>1, <2>2, <2>3
<1> QED
  BY <1>4, <1>5, <1>6

\* A worker dies.
LEMMA CrashEffect ==
    ASSUME Types, NEW p \in Proc, Crash(p)
    PROVE  /\ Types'
           /\ Becomes(p, proc'[p]) /\ proc'[p] = Idle
           /\ crashes' = crashes + 1
           /\ UNCHANGED <<row, suspend, until, completed, pending, child, childKey, resume_job,
                          request, messages, pushErrors>>
<1>1. Becomes(p, proc'[p]) /\ proc'[p] = Idle
  BY IdleThread DEF Crash
<1>2. crashes < MaxCrashes /\ crashes' = crashes + 1
      /\ UNCHANGED <<row, suspend, until, completed, pending, child, childKey, resume_job,
                     request, messages, pushErrors>>
  BY DEF Crash, parent, checkpoint, children, approvals
<1>3. crashes' \in 0 .. MaxCrashes
  BY <1>2, WacFacts DEF Types
<1>4. Types'
  BY <1>1, <1>2, <1>3 DEF Types, Becomes
<1> QED
  BY <1>1, <1>2, <1>4

\* The steps of no thread: those of the servers, of the monitor and of the clock.
LEMMA WriteApprovalEffect ==
    ASSUME Types, NEW r \in Request, WriteApproval(r)
    PROVE  /\ Types'
           /\ request[r].pc = "write"
           /\ \A q \in Request : request'[q].pc = "write" => request[q].pc = "write"
           /\ UNCHANGED <<row, until, completed, pending, child, childKey, proc, messages,
                          crashes, pushErrors>>
<1>1. request[r].pc = "write" /\ request' = [request EXCEPT ![r] = NoRequest]
      /\ UNCHANGED <<row, until, completed, pending, child, childKey, proc, messages, crashes,
                     pushErrors>>
  BY DEF WriteApproval, checkpoint, children, faults
<1>2. request' \in [Request -> RequestRow]
  BY <1>1, EmptyRecords DEF Types
<1>3. suspend' \in Nat
  BY DEF WriteApproval, Types, Decrement
<1>4. resume_job' \in Seq(Message)
  <2>1. request[r] \in RequestRow
    BY DEF Types
  <2>2. [approved |-> request[r].approved, for |-> request[r].for] \in Message
    BY <2>1 DEF Message, RequestRow
  <2>3. resume_job' = resume_job
        \/ resume_job' = Append(resume_job, [approved |-> request[r].approved, for |-> request[r].for])
    BY DEF WriteApproval
  <2> QED
    BY <2>2, <2>3 DEF Types
<1>5. Types'
  BY <1>1, <1>2, <1>3, <1>4 DEF Types
<1>6. \A q \in Request : request'[q].pc = "write" => request[q].pc = "write"
  BY <1>1, EmptyRecords DEF Types
<1> QED
  BY <1>1, <1>5, <1>6

\* A server reads the row.
LEMMA ReadApprovalEffect ==
    ASSUME Types, NEW r \in Request, NEW approved \in BOOLEAN, ReadApproval(r, approved)
    PROVE  /\ Types'
           /\ InQueue /\ LinkIsOut
           /\ UNCHANGED <<row, suspend, until, completed, pending, child, childKey, proc,
                          resume_job, crashes, pushErrors>>
<1> DEFINE q == [pc |-> "write", approved |-> approved, suspend |-> suspend,
                 for |-> IF pending.mode = "approval" THEN pending.keys ELSE {}]
<1>1. InQueue /\ LinkIsOut /\ messages < MaxMessages /\ messages' = messages + 1
      /\ request' = [request EXCEPT ![r] = q]
      /\ UNCHANGED <<row, suspend, until, completed, pending, child, childKey, proc, resume_job,
                     crashes, pushErrors>>
  BY DEF ReadApproval, parent, checkpoint, children, faults
<1>2. q \in RequestRow
  <2>1. pending.keys \in SUBSET Key /\ suspend \in Nat
    BY Fields DEF Types
  <2> QED
    BY <2>1 DEF RequestRow
<1> HIDE DEF q
<1>3. request' \in [Request -> RequestRow]
  BY <1>1, <1>2 DEF Types
<1>4. messages' \in 0 .. MaxMessages
  BY <1>1, WacFacts DEF Types
<1>5. Types'
  BY <1>1, <1>3, <1>4 DEF Types
<1> QED
  BY <1>1, <1>5

\* The monitor puts the parent back.
LEMMA RestartParentEffect ==
    ASSUME Types, RestartParent
    PROVE  /\ Types'
           /\ row = "running" /\ until = "null" /\ \A p \in Proc : ~Driving(p)
           /\ row' = "queued"
           /\ UNCHANGED <<suspend, until, completed, pending, child, childKey, proc, resume_job,
                          request, messages, crashes, pushErrors>>
<1>1. row = "running" /\ until = "null" /\ \A p \in Proc : ~Driving(p)
  BY DEF RestartParent, IsZombie
<1>2. row' = "queued"
      /\ UNCHANGED <<suspend, until, completed, pending, child, childKey, proc, resume_job,
                     request, messages, crashes, pushErrors>>
  BY DEF RestartParent, checkpoint, children, approvals, faults
<1>3. Types'
  BY <1>2 DEF Types
<1> QED
  BY <1>1, <1>2, <1>3

\* It puts a child back.
LEMMA RestartChildEffect ==
    ASSUME Types, NEW c \in Child, RestartChild(c)
    PROVE  /\ Types'
           /\ child[c] = "running" /\ child'[c] = "queued"
           /\ \A p \in Proc : ~(proc[p].pc = "run" /\ proc[p].child = c)
           /\ \A d \in Child : d # c => child'[d] = child[d]
           /\ UNCHANGED <<row, suspend, until, completed, pending, childKey, proc, resume_job,
                          request, messages, crashes, pushErrors>>
<1>1. /\ child[c] = "running" /\ child' = [child EXCEPT ![c] = "queued"]
      /\ \A p \in Proc : ~(proc[p].pc = "run" /\ proc[p].child = c)
      /\ UNCHANGED <<row, suspend, until, completed, pending, childKey, proc, resume_job,
                     request, messages, crashes, pushErrors>>
  BY DEF RestartChild, parent, checkpoint, approvals, faults
<1>2. child' \in [Child -> ChildState] /\ child'[c] = "queued"
      /\ \A d \in Child : d # c => child'[d] = child[d]
  BY <1>1 DEF Types, ChildState
<1>3. Types'
  BY <1>1, <1>2 DEF Types
<1> QED
  BY <1>1, <1>2, <1>3

\* The deadline of the suspension passes.
LEMMA DeadlineEffect ==
    ASSUME Types, Deadline
    PROVE  /\ Types'
           /\ until = "future" /\ until' = "past"
           /\ pending.mode \in {"approval", "sleep"} \/ Quiet
           /\ UNCHANGED <<row, suspend, completed, pending, child, childKey, proc, resume_job,
                          request, messages, crashes, pushErrors>>
<1>1. /\ until = "future" /\ until' = "past"
      /\ pending.mode \in {"approval", "sleep"} \/ Quiet
      /\ UNCHANGED <<row, suspend, completed, pending, child, childKey, proc, resume_job,
                     request, messages, crashes, pushErrors>>
  BY DEF Deadline, checkpoint, children, approvals, faults
<1>2. Types'
  BY <1>1 DEF Types
<1> QED
  BY <1>1, <1>2
-----------------------------------------------------------------------------
(* The first invariant.                                                    *)

\* Ids stay those of their steps when none is given out.
LEMMA KeepsOneKey ==
    ASSUME Types, Types', OneKey,
           \A c \in Child : child'[c] # "none" => child[c] # "none" /\ childKey'[c] = childKey[c],
           pending'.ids \in {pending.ids, NoIds},
           \A q \in Proc : proc'[q].ids \in {proc[q].ids, NoIds, pending.ids}
    PROVE  OneKey'
<1>1. ASSUME NEW c \in Child, NEW k \in Key, Has(c, k)' PROVE Has(c, k)
  <2>1. NoIds[k] # c
    BY EmptyRecords, WacFacts
  <2>2. CASE child'[c] # "none" /\ childKey'[c] = k
    BY <2>2 DEF Has
  <2>3. CASE pending'.ids[k] = c
    BY <2>1, <2>3 DEF Has
  <2>4. CASE \E q \in Proc : proc'[q].ids[k] = c
    BY <2>1, <2>4 DEF Has
  <2> QED
    BY <1>1, <2>2, <2>3, <2>4 DEF Has
<1> QED
  BY <1>1 DEF OneKey

\* The ids of threads that push stay new.
LEMMA KeepsIdsNew ==
    ASSUME IdsAreNew,
           \A q \in Proc : proc'[q].pc = "push" => proc'[q] = proc[q],
           \A c \in Child : child[c] = "none" => child'[c] = "none"
    PROVE  IdsAreNew'
BY DEF IdsAreNew

\* Threads that work for a child go on.
LEMMA KeepsWorkers ==
    ASSUME Types, OneWorker,
           \A q \in Proc : proc'[q].pc \in {"run", "read", "report"} => proc'[q] = proc[q],
           \A c \in Child : child'[c] # child[c] =>
              /\ child[c] \notin {"ok", "error"}
              /\ \A q \in Proc : ~(proc[q].pc = "run" /\ proc[q].child = c)
    PROVE  OneWorker'
<1>1. ASSUME NEW q \in Proc, Works(q)' PROVE proc'[q] = proc[q] /\ Works(q)
  BY <1>1 DEF Works
<1>2. \A p, q \in Proc : Works(p)' /\ Works(q)' /\ proc'[p].child = proc'[q].child => p = q
  BY <1>1 DEF OneWorker
<1>3. ASSUME NEW q \in Proc, Works(q)'
      PROVE  /\ proc'[q].child \in Child
             /\ proc'[q].pc = "run" => child'[proc'[q].child] = "running"
             /\ proc'[q].pc # "run" => child'[proc'[q].child] = proc'[q].result
  <2>1. proc'[q] = proc[q] /\ Works(q)
    BY <1>1, <1>3
  <2>2. /\ proc[q].child \in Child
        /\ proc[q].pc = "run" => child[proc[q].child] = "running"
        /\ proc[q].pc # "run" => child[proc[q].child] = proc[q].result
        /\ proc[q].result \in {"ok", "error"}
    BY <2>1, Fields DEF OneWorker, Types
  <2>3. child'[proc[q].child] = child[proc[q].child]
    BY <2>1, <2>2 DEF Works
  <2> QED
    BY <2>1, <2>2, <2>3
<1> QED
  BY <1>2, <1>3 DEF OneWorker

\* Results stay real: no child that has ended changes, and those of tasks are as
\* they were.
LEMMA KeepsResults ==
    ASSUME ResultsAreReal,
           \A c \in Child : child[c] \in {"ok", "error"} =>
              child'[c] = child[c] /\ childKey'[c] = childKey[c],
           \A k \in Key : Kind[k[1]] = "tasks" => completed'[k] = completed[k],
           \A k \in Key : completed[k] # "none" => completed'[k] # "none",
           \A k \in Key : Kind[k[1]] = "tasks" => completed[k] \in {"none", "ok", "error"},
           row' = "success" => row = "success" \/ \A k \in Key : completed'[k] # "none"
    PROVE  ResultsAreReal'
BY DEF ResultsAreReal

\* What is in the checkpoint for a task is the result of a job.
LEMMA ResultOfTask ==
    ASSUME Types, ResultsAreReal, NEW k \in Key, Kind[k[1]] = "tasks"
    PROVE  completed[k] \in {"none", "ok", "error"}
<1>1. CASE completed[k] # "none"
  <2>1. PICK c \in Child : child[c] = completed[k]
    BY <1>1 DEF ResultsAreReal
  <2>2. child[c] \in ChildState /\ completed[k] \in Result
    BY DEF Types
  <2> QED
    BY <1>1, <2>1, <2>2 DEF ChildState, Result
<1> QED
  BY <1>1

\* What a run of the script has found stays in the checkpoint.
LEMMA KeepsDone ==
    ASSUME DoneIsSaved,
           \A q \in Proc : proc'[q].pc = "replay" => proc'[q] = proc[q],
           \A k \in Key : completed[k] # "none" => completed'[k] # "none"
    PROVE  DoneIsSaved'
BY DEF DoneIsSaved

\* A step that gives out no id, starts no job and ends none.
Plain ==
    /\ \A q \in Proc : /\ proc'[q].ids \in {proc[q].ids, NoIds, pending.ids}
                       /\ proc'[q].pc \in {"push", "run", "read", "report"} => proc'[q] = proc[q]
    /\ \A c \in Child : child'[c] = child[c] \/ (child[c] = "queued" /\ child'[c] = "canceled")
    /\ UNCHANGED childKey

\* Such a step keeps what is said of ids and of workers.
LEMMA PlainKeeps ==
    ASSUME Types, Types', OneKey, IdsAreNew, OneWorker, Plain,
           pending'.ids \in {pending.ids, NoIds}
    PROVE  OneKey' /\ IdsAreNew' /\ OneWorker'
<1>1. OneKey'
  BY KeepsOneKey DEF Plain
<1>2. IdsAreNew'
  BY KeepsIdsNew DEF Plain
<1>3. \A c \in Child : child'[c] # child[c] =>
         /\ child[c] \notin {"ok", "error"}
         /\ \A q \in Proc : ~(proc[q].pc = "run" /\ proc[q].child = c)
  BY DEF Plain, OneWorker, Works
<1>4. OneWorker'
  BY <1>3, KeepsWorkers DEF Plain
<1> QED
  BY <1>1, <1>2, <1>4

\* It keeps the results when it leaves them alone.
LEMMA PlainResults ==
    ASSUME Types, ResultsAreReal, Plain,
           \A k \in Key : Kind[k[1]] = "tasks" => completed'[k] = completed[k],
           \A k \in Key : completed[k] # "none" => completed'[k] # "none",
           row' = "success" => row = "success" \/ \A k \in Key : completed'[k] # "none"
    PROVE  ResultsAreReal'
<1>1. \A k \in Key : Kind[k[1]] = "tasks" => completed[k] \in {"none", "ok", "error"}
  BY ResultOfTask
<1>2. \A c \in Child : child[c] \in {"ok", "error"} =>
         child'[c] = child[c] /\ childKey'[c] = childKey[c]
  BY DEF Plain
<1> QED
  BY <1>1, <1>2, KeepsResults

\* The parent is claimed.
LEMMA PullParentResult ==
    ASSUME ResultInv, NEW p \in Proc, PullParent(p)
    PROVE  ResultInv'
<1>1. Types
  BY TypesAreTypeOK DEF ResultInv
<1>2. /\ Types' /\ Becomes(p, proc'[p]) /\ proc'[p].pc = "pulled" /\ proc'[p].ids = NoIds
      /\ row' = "running"
      /\ UNCHANGED <<completed, pending, child, childKey>>
  BY <1>1, PullParentEffect
<1>3. Plain
  BY <1>2 DEF Plain, Becomes
<1>4. \A q \in Proc : proc'[q].pc = "replay" => proc'[q] = proc[q]
  BY <1>2 DEF Becomes
<1>5. OneKey' /\ IdsAreNew' /\ OneWorker'
  BY <1>1, <1>2, <1>3, PlainKeeps DEF ResultInv
<1>6. DoneIsSaved'
  BY <1>2, <1>4, KeepsDone DEF ResultInv
<1>7. ResultsAreReal'
  BY <1>1, <1>2, <1>3, PlainResults DEF ResultInv
<1>8. WaitsForStage'
  BY <1>2 DEF ResultInv, WaitsForStage
<1> QED
  BY <1>2, <1>5, <1>6, <1>7, <1>8, TypesNext DEF ResultInv

\* The checkpoint is read.
LEMMA LoadResult ==
    ASSUME ResultInv, NEW p \in Proc, Load(p)
    PROVE  ResultInv'
<1>1. Types
  BY TypesAreTypeOK DEF ResultInv
<1>2. /\ Types' /\ Becomes(p, proc'[p]) /\ proc'[p].pc = "replay" /\ proc'[p].ids = proc[p].ids
      /\ proc'[p].done = completed'
      /\ \A k \in Key : completed'[k] # completed[k] =>
           /\ k \in pending.keys /\ pending.mode \in {"approval", "sleep"}
           /\ completed'[k] # "none"
      /\ pending' \in {pending, NoPending}
      /\ UNCHANGED <<row, child, childKey>>
  BY <1>1, LoadEffect
<1>3. Plain
  BY <1>2 DEF Plain, Becomes
<1>4. OneKey' /\ IdsAreNew' /\ OneWorker'
  BY <1>1, <1>2, <1>3, EmptyRecords, PlainKeeps DEF ResultInv
<1>5. DoneIsSaved'
  BY <1>2 DEF ResultInv, DoneIsSaved, Becomes
<1>6. \A k \in Key : Kind[k[1]] = "tasks" => completed'[k] = completed[k]
  BY <1>2 DEF ResultInv, WaitsForStage
<1>7. ResultsAreReal'
  BY <1>1, <1>2, <1>3, <1>6, PlainResults DEF ResultInv
<1>8. WaitsForStage'
  BY <1>2, EmptyRecords DEF ResultInv, WaitsForStage
<1> QED
  BY <1>2, <1>4, <1>5, <1>7, <1>8, TypesNext DEF ResultInv

\* The script waits, is put back or ends, a push fails or a worker dies: one
\* thread is left with nothing of a child.
LEMMA LeaveResult ==
    ASSUME ResultInv, NEW p \in Proc, Wait(p) \/ Finish(p) \/ PushFails(p) \/ Crash(p)
    PROVE  ResultInv'
<1>1. Types
  BY TypesAreTypeOK DEF ResultInv
<1>2. /\ Types' /\ Becomes(p, proc'[p])
      /\ proc'[p].pc \in {"idle", "fail"} /\ proc'[p].ids = NoIds
      /\ pending'.ids \in {pending.ids, NoIds}
      /\ \A c \in Child : child'[c] = child[c] \/ (child[c] = "queued" /\ child'[c] = "canceled")
      /\ UNCHANGED <<completed, childKey>>
  <2>1. CASE Wait(p)
    BY <1>1, <2>1, WaitEffect, EmptyRecords
  <2>2. CASE Finish(p)
    <3>1. /\ Types' /\ Becomes(p, proc'[p]) /\ proc'[p] = Idle
          /\ Ends("success") \/ Ends("failure")
          /\ UNCHANGED <<completed, child, childKey>>
      BY <1>1, <2>2, FinishEffect
    <3>2. pending' = pending \/ pending' = NoPending
      BY <3>1 DEF Ends
    <3> QED
      BY <3>1, <3>2, EmptyRecords
  <2>3. CASE PushFails(p)
    BY <1>1, <2>3, PushFailsEffect, EmptyRecords
  <2>4. CASE Crash(p)
    BY <1>1, <2>4, CrashEffect, EmptyRecords
  <2> QED
    BY <2>1, <2>2, <2>3, <2>4
<1>3. Plain
  BY <1>2 DEF Plain, Becomes
<1>4. OneKey' /\ IdsAreNew' /\ OneWorker'
  BY <1>1, <1>2, <1>3, PlainKeeps DEF ResultInv
<1>5. \A q \in Proc : proc'[q].pc = "replay" => proc'[q] = proc[q]
  BY <1>2 DEF Becomes
<1>6. DoneIsSaved'
  BY <1>2, <1>5, KeepsDone DEF ResultInv
<1>7. row' = "success" => row = "success" \/ \A k \in Key : completed'[k] # "none"
  <2>1. CASE Wait(p)
    BY <1>1, <2>1, WaitEffect
  <2>2. CASE Finish(p)
    <3>1. \/ Ends("success") /\ proc[p].pc = "replay" /\ \A k \in Key : proc[p].done[k] # "none"
          \/ Ends("failure")
      BY <1>1, <2>2, FinishEffect
    <3> QED
      BY <1>2, <3>1 DEF Ends, ResultInv, DoneIsSaved
  <2>3. CASE PushFails(p)
    BY <1>1, <2>3, PushFailsEffect
  <2>4. CASE Crash(p)
    BY <1>1, <2>4, CrashEffect
  <2> QED
    BY <2>1, <2>2, <2>3, <2>4
<1>8. ResultsAreReal'
  BY <1>1, <1>2, <1>3, <1>7, PlainResults DEF ResultInv
<1>9. WaitsForStage'
  <2>1. CASE Wait(p)
    <3>1. /\ At(p, "approval") \/ At(p, "sleep")
          /\ pending'.mode = Kind[Reached(proc[p].done)] /\ pending'.keys = Missing(p)
      BY <1>1, <2>1, WaitEffect
    <3>2. \A k \in Missing(p) : k[1] = Reached(proc[p].done)
      BY <1>1, <3>1, AtFacts
    <3> QED
      BY <3>1, <3>2 DEF WaitsForStage
  <2>2. CASE ~Wait(p)
    <3>1. pending' = pending \/ pending' = NoPending
      BY <1>1, <2>2, FinishEffect, PushFailsEffect, CrashEffect DEF Ends
    <3> QED
      BY <3>1, EmptyRecords DEF ResultInv, WaitsForStage
  <2> QED
    BY <2>1, <2>2
<1> QED
  BY <1>2, <1>4, <1>6, <1>8, <1>9, TypesNext DEF ResultInv

\* An inline step is saved.
LEMMA InlineResult ==
    ASSUME ResultInv, NEW p \in Proc, NEW fast \in BOOLEAN, Inline(p, fast)
    PROVE  ResultInv'
<1>1. Types
  BY TypesAreTypeOK DEF ResultInv
<1>2. /\ Types' /\ Becomes(p, proc'[p]) /\ At(p, "inline") /\ proc[p].pc = "replay"
      /\ \A k \in Missing(p) : completed'[k] = "ok"
      /\ \A k \in Key : k \notin Missing(p) => completed'[k] = completed[k]
      /\ \/ /\ proc'[p].pc = "replay" /\ proc'[p].ids = proc[p].ids
            /\ \A k \in Key : k \notin Missing(p) => proc'[p].done[k] = proc[p].done[k]
            /\ row' = row
         \/ proc'[p] = Idle /\ row' \in {"queued", row}
      /\ UNCHANGED <<pending, child, childKey>>
  BY <1>1, InlineEffect
<1>3. Plain
  BY <1>2, EmptyRecords DEF Plain, Becomes
<1>4. OneKey' /\ IdsAreNew' /\ OneWorker'
  BY <1>1, <1>2, <1>3, PlainKeeps DEF ResultInv
<1>5. \A k \in Missing(p) : Kind[k[1]] = "inline"
  BY <1>1, <1>2, AtFacts
<1>6. /\ \A k \in Key : Kind[k[1]] = "tasks" => completed'[k] = completed[k]
      /\ \A k \in Key : completed[k] # "none" => completed'[k] # "none"
  BY <1>2, <1>5
<1>7. DoneIsSaved'
  <2> SUFFICES ASSUME NEW q \in Proc, proc'[q].pc = "replay", NEW k \in Key,
                      proc'[q].done[k] # "none"
               PROVE  completed'[k] # "none"
    BY DEF DoneIsSaved
  <2>1. CASE q # p
    BY <1>2, <1>6, <2>1 DEF ResultInv, DoneIsSaved, Becomes
  <2>2. CASE q = p
    <3>1. proc'[p].pc # "idle"
      BY <2>2
    <3>2. \A l \in Key : l \notin Missing(p) => proc'[p].done[l] = proc[p].done[l]
      BY <1>2, <3>1, EmptyRecords
    <3>3. CASE k \in Missing(p)
      BY <1>2, <3>3
    <3>4. CASE k \notin Missing(p)
      BY <1>2, <1>6, <2>2, <3>2, <3>4 DEF ResultInv, DoneIsSaved
    <3> QED
      BY <3>3, <3>4
  <2> QED
    BY <2>1, <2>2
<1>8. ResultsAreReal'
  BY <1>1, <1>2, <1>3, <1>6, PlainResults DEF ResultInv
<1>9. WaitsForStage'
  BY <1>2 DEF ResultInv, WaitsForStage
<1> QED
  BY <1>2, <1>4, <1>7, <1>8, <1>9, TypesNext DEF ResultInv

\* Ids are given out.
LEMMA DispatchResult ==
    ASSUME ResultInv, NEW p \in Proc, Dispatch(p)
    PROVE  ResultInv'
<1>1. Types
  BY TypesAreTypeOK DEF ResultInv
<1>2. /\ Types' /\ At(p, "tasks")
      /\ Becomes(p, proc'[p]) /\ proc'[p].pc = "push" /\ proc'[p].ids = pending'.ids
      /\ proc'[p].todo = Missing(p)
      /\ pending'.mode = "tasks" /\ pending'.keys = Missing(p)
      /\ \A k \in Missing(p) : pending'.ids[k] \in Child /\ pending'.ids[k] \notin Used
      /\ \A k \in Key : k \notin Missing(p) => pending'.ids[k] = NoChild
      /\ \A k, l \in Missing(p) : pending'.ids[k] = pending'.ids[l] => k = l
      /\ UNCHANGED <<row, completed, child, childKey>>
  BY <1>1, DispatchEffect
<1>3. /\ Missing(p) # {} /\ Missing(p) \in SUBSET Key
      /\ \A k \in Missing(p) : Kind[k[1]] = "tasks"
  BY <1>1, <1>2, AtFacts
<1>4. \A c \in Child : c \notin Used =>
         /\ child[c] = "none"
         /\ \A k \in Key : \A q \in Proc : proc[q].ids[k] # c
  BY DEF Used
<1>5. ASSUME NEW c \in Child, NEW k \in Key, Has(c, k)'
      PROVE  \/ k \in Missing(p) /\ pending'.ids[k] = c /\ c \notin Used
             \/ Has(c, k) /\ c \in Used
  <2>1. CASE child'[c] # "none" /\ childKey'[c] = k
    BY <1>2, <1>4, <2>1 DEF Has
  <2>2. CASE pending'.ids[k] = c
    BY <1>2, <2>2, WacFacts
  <2>3. CASE \E q \in Proc : proc'[q].ids[k] = c
    <3>1. PICK q \in Proc : proc'[q].ids[k] = c
      BY <2>3
    <3>2. CASE q = p
      BY <1>2, <3>1, <3>2, WacFacts
    <3>3. CASE q # p
      <4>1. proc[q].ids[k] = c
        BY <1>2, <3>1, <3>3 DEF Becomes
      <4> QED
        BY <1>4, <4>1 DEF Has
    <3> QED
      BY <3>2, <3>3
  <2> QED
    BY <1>5, <2>1, <2>2, <2>3 DEF Has
<1>6. OneKey'
  <2>1. ASSUME NEW c \in Child, NEW k \in Key, Has(c, k)' PROVE Kind[k[1]] = "tasks"
    BY <1>3, <1>5, <2>1 DEF ResultInv, OneKey
  <2>2. ASSUME NEW c \in Child, NEW k \in Key, NEW l \in Key, Has(c, k)', Has(c, l)' PROVE k = l
    BY <1>2, <1>5, <2>2 DEF ResultInv, OneKey
  <2> QED
    BY <2>1, <2>2 DEF OneKey
<1>7. IdsAreNew'
  <2> SUFFICES ASSUME NEW q \in Proc, proc'[q].pc = "push"
               PROVE  /\ proc'[q].todo # {}
                      /\ \A k \in proc'[q].todo :
                            /\ proc'[q].ids[k] \in Child /\ child'[proc'[q].ids[k]] = "none"
                            /\ \A r \in Proc : proc'[r].pc = "push"
                                  /\ proc'[r].ids[k] = proc'[q].ids[k] => q = r
    BY DEF IdsAreNew
  <2>1. CASE q = p
    <3>1. \A k \in Missing(p) : child'[pending'.ids[k]] = "none"
      BY <1>2, <1>4
    <3>2. \A k \in Missing(p) : \A r \in Proc : proc'[r].ids[k] = pending'.ids[k] => r = p
      BY <1>2, <1>3, <1>4 DEF Becomes
    <3> QED
      BY <1>2, <1>3, <2>1, <3>1, <3>2
  <2>2. CASE q # p
    <3>1. proc'[q] = proc[q] /\ proc[q].todo \in SUBSET Key
      BY <1>1, <1>2, <2>2, Fields DEF Becomes, Types
    <3>2. \A k \in proc[q].todo : proc[q].ids[k] \in Child /\ child[proc[q].ids[k]] = "none"
      BY <3>1 DEF ResultInv, IdsAreNew
    <3>3. \A k \in proc[q].todo : proc'[p].ids[k] # proc[q].ids[k]
      <4> SUFFICES ASSUME NEW k \in proc[q].todo, pending'.ids[k] = proc[q].ids[k] PROVE FALSE
        BY <1>2
      <4>1. k \in Missing(p)
        BY <1>2, <3>1, <3>2, WacFacts
      <4> QED
        BY <1>2, <1>4, <3>1, <4>1
    <3>4. \A k \in proc[q].todo : \A r \in Proc : proc'[r].pc = "push"
                                  /\ proc'[r].ids[k] = proc'[q].ids[k] => q = r
      BY <1>2, <3>1, <3>3 DEF Becomes, ResultInv, IdsAreNew
    <3> QED
      BY <1>2, <3>1, <3>2, <3>4 DEF ResultInv, IdsAreNew
  <2> QED
    BY <2>1, <2>2
<1>8. OneWorker'
  <2>1. \A q \in Proc : proc'[q].pc \in {"run", "read", "report"} => proc'[q] = proc[q]
    BY <1>2 DEF Becomes
  <2> QED
    BY <1>1, <1>2, <2>1, KeepsWorkers DEF ResultInv
<1>9. DoneIsSaved'
  <2>1. \A q \in Proc : proc'[q].pc = "replay" => proc'[q] = proc[q]
    BY <1>2 DEF Becomes
  <2> QED
    BY <1>2, <2>1, KeepsDone DEF ResultInv
<1>10. ResultsAreReal' /\ WaitsForStage'
  BY <1>2, <1>3 DEF ResultInv, ResultsAreReal, WaitsForStage
<1> QED
  BY <1>2, <1>6, <1>7, <1>8, <1>9, <1>10, TypesNext DEF ResultInv

\* A child is pushed.
LEMMA PushChildResult ==
    ASSUME ResultInv, NEW p \in Proc, PushChild(p)
    PROVE  ResultInv'
<1>1. Types /\ IdsAreNew
  BY TypesAreTypeOK DEF ResultInv
<1>2. /\ Types' /\ Becomes(p, proc'[p]) /\ proc[p].pc = "push"
      /\ UNCHANGED <<row, completed, pending>>
  BY <1>1, PushChildEffect
<1>3. PICK k \in proc[p].todo :
        /\ proc[p].ids[k] \in Child /\ child[proc[p].ids[k]] = "none"
        /\ child'[proc[p].ids[k]] = "queued" /\ childKey'[proc[p].ids[k]] = k
        /\ \A c \in Child : c # proc[p].ids[k] => child'[c] = child[c] /\ childKey'[c] = childKey[c]
        /\ proc[p].todo = {k} => proc'[p] = Idle
        /\ proc[p].todo # {k} =>
             /\ proc'[p].pc = "push" /\ proc'[p].ids = proc[p].ids
             /\ proc'[p].todo = proc[p].todo \ {k}
  BY <1>1, PushChildEffect
<1> DEFINE c == proc[p].ids[k]
<1>4. k \in Key /\ Has(c, k)
  BY <1>1, Fields DEF Types, Has
<1>5. ASSUME NEW d \in Child, NEW l \in Key, Has(d, l)' PROVE Has(d, l)
  <2>1. NoIds[l] # d
    BY EmptyRecords, WacFacts
  <2>2. CASE child'[d] # "none" /\ childKey'[d] = l
    BY <1>3, <1>4, <2>2 DEF Has
  <2>3. CASE pending'.ids[l] = d
    BY <1>2, <2>3 DEF Has
  <2>4. CASE \E q \in Proc : proc'[q].ids[l] = d
    <3>1. PICK q \in Proc : proc'[q].ids[l] = d
      BY <2>4
    <3>2. proc'[q].ids = proc[q].ids \/ proc'[q].ids = NoIds
      BY <1>2, <1>3, EmptyRecords DEF Becomes
    <3> QED
      BY <2>1, <3>1, <3>2 DEF Has
  <2> QED
    BY <1>5, <2>2, <2>3, <2>4 DEF Has
<1>6. OneKey'
  BY <1>5 DEF ResultInv, OneKey
<1>7. IdsAreNew'
  <2> SUFFICES ASSUME NEW q \in Proc, proc'[q].pc = "push"
               PROVE  /\ proc'[q].todo # {}
                      /\ \A l \in proc'[q].todo :
                            /\ proc'[q].ids[l] \in Child /\ child'[proc'[q].ids[l]] = "none"
                            /\ \A r \in Proc : proc'[r].pc = "push"
                                  /\ proc'[r].ids[l] = proc'[q].ids[l] => q = r
    BY DEF IdsAreNew
  <2>1. \A r \in Proc : proc'[r].pc = "push" => proc[r].pc = "push" /\ proc'[r].ids = proc[r].ids
                                             /\ proc'[r].todo \subseteq proc[r].todo
    BY <1>2, <1>3, EmptyRecords DEF Becomes
  <2>2. proc'[q].todo # {}
    BY <1>1, <1>2, <1>3, EmptyRecords DEF Becomes, IdsAreNew
  <2>3. ASSUME NEW l \in proc'[q].todo
        PROVE  proc[q].ids[l] \in Child /\ child'[proc[q].ids[l]] = "none"
    <3>1. l \in proc[q].todo /\ proc[q].pc = "push" /\ l \in Key
      BY <1>1, <2>1, Fields DEF Types
    <3>2. proc[q].ids[l] \in Child /\ child[proc[q].ids[l]] = "none"
      BY <1>1, <3>1 DEF IdsAreNew
    <3>3. ASSUME proc[q].ids[l] = c PROVE FALSE
      <4>1. Has(c, l)
        BY <3>3 DEF Has
      <4>2. l = k
        BY <1>3, <1>4, <3>1, <4>1 DEF ResultInv, OneKey
      <4>3. q = p
        BY <1>1, <1>2, <3>1, <3>3, <4>2 DEF IdsAreNew
      <4> QED
        BY <1>3, <4>2, <4>3, EmptyRecords
    <3> QED
      BY <1>3, <3>2, <3>3
  <2>4. ASSUME NEW l \in proc'[q].todo, NEW r \in Proc, proc'[r].pc = "push",
               proc'[r].ids[l] = proc'[q].ids[l]
        PROVE  q = r
    BY <1>1, <2>1, <2>4 DEF IdsAreNew
  <2> QED
    BY <2>1, <2>2, <2>3, <2>4
<1>8. OneWorker'
  <2>1. \A q \in Proc : proc'[q].pc \in {"run", "read", "report"} => proc'[q] = proc[q]
    BY <1>2, <1>3, EmptyRecords DEF Becomes
  <2>2. \A q \in Proc : proc[q].pc = "run" => child[proc[q].child] = "running"
    BY DEF ResultInv, OneWorker, Works
  <2>3. \A d \in Child : child'[d] # child[d] =>
            /\ child[d] \notin {"ok", "error"}
            /\ \A q \in Proc : ~(proc[q].pc = "run" /\ proc[q].child = d)
    BY <1>3, <2>2
  <2> QED
    BY <1>1, <2>1, <2>3, KeepsWorkers DEF ResultInv
<1>9. DoneIsSaved'
  <2>1. \A q \in Proc : proc'[q].pc = "replay" => proc'[q] = proc[q]
    BY <1>2, <1>3, EmptyRecords DEF Becomes
  <2> QED
    BY <1>2, <2>1, KeepsDone DEF ResultInv
<1>10. ResultsAreReal'
  <2>1. \A l \in Key : Kind[l[1]] = "tasks" => completed[l] \in {"none", "ok", "error"}
    BY <1>1, ResultOfTask DEF ResultInv
  <2>2. \A d \in Child : child[d] \in {"ok", "error"} =>
            child'[d] = child[d] /\ childKey'[d] = childKey[d]
    BY <1>3
  <2> QED
    BY <1>2, <2>1, <2>2, KeepsResults DEF ResultInv
<1>11. WaitsForStage'
  BY <1>2 DEF ResultInv, WaitsForStage
<1> QED
  BY <1>2, <1>6, <1>7, <1>8, <1>9, <1>10, <1>11, TypesNext DEF ResultInv

\* A child is claimed, ends, or the ids are read for it.
LEMMA ChildResult ==
    ASSUME ResultInv, NEW p \in Proc,
           \/ \E c \in Child : PullChild(p, c)
           \/ \E result \in {"ok", "error"} : EndChild(p, result)
           \/ ReadIds(p)
    PROVE  ResultInv'
<1>1. Types
  BY TypesAreTypeOK DEF ResultInv
<1>2. \A q \in Proc : Works(q) => /\ proc[q].child \in Child
                                  /\ proc[q].pc = "run" => child[proc[q].child] = "running"
                                  /\ proc[q].pc # "run" => child[proc[q].child] = proc[q].result
                                  /\ proc[q].result \in {"ok", "error"}
  BY <1>1, Fields DEF ResultInv, OneWorker, Types
<1>3. /\ Types' /\ Becomes(p, proc'[p])
      /\ proc'[p].pc \in {"idle", "run", "read", "report"}
      /\ proc'[p].ids \in {proc[p].ids, NoIds, pending.ids}
      /\ \A c \in Child : child'[c] # child[c] =>
            child[c] \in {"queued", "canceled", "running"} /\ child'[c] # "none"
      /\ UNCHANGED <<row, completed, pending, childKey>>
  <2>1. ASSUME NEW c \in Child, PullChild(p, c)
        PROVE  /\ Types' /\ Becomes(p, proc'[p]) /\ proc'[p].pc = "run"
               /\ proc'[p].ids = NoIds
               /\ child[c] \in {"queued", "canceled"} /\ child'[c] = "running"
               /\ \A d \in Child : d # c => child'[d] = child[d]
               /\ UNCHANGED <<row, completed, pending, childKey>>
    BY <1>1, <2>1, PullChildEffect
  <2>2. ASSUME NEW result \in {"ok", "error"}, EndChild(p, result)
        PROVE  /\ Types' /\ Becomes(p, proc'[p]) /\ proc'[p].pc \in {"idle", "read", "report"}
               /\ proc'[p].ids \in {proc[p].ids, NoIds, pending.ids}
               /\ child[proc[p].child] = "running" /\ child'[proc[p].child] = result
               /\ \A d \in Child : d # proc[p].child => child'[d] = child[d]
               /\ UNCHANGED <<row, completed, pending, childKey>>
    <3>1. proc[p].pc = "run"
      BY <2>2 DEF EndChild
    <3>2. proc[p].child \in Child /\ child[proc[p].child] = "running"
      BY <1>2, <3>1 DEF Works
    <3> QED
      BY <1>1, <2>2, <3>2, EndChildEffect, EmptyRecords
  <2>3. CASE ReadIds(p)
    BY <1>1, <2>3, ReadIdsEffect, EmptyRecords
  <2> QED
    BY <2>1, <2>2, <2>3
<1>4. OneKey'
  <2>1. \A c \in Child : child'[c] # "none" => child[c] # "none" /\ childKey'[c] = childKey[c]
    BY <1>3
  <2>2. \A q \in Proc : proc'[q].ids \in {proc[q].ids, NoIds, pending.ids}
    BY <1>3 DEF Becomes
  <2> QED
    BY <1>1, <1>3, <2>1, <2>2, KeepsOneKey DEF ResultInv
<1>5. /\ \A q \in Proc : proc'[q].pc = "push" => proc'[q] = proc[q]
      /\ \A q \in Proc : proc'[q].pc = "replay" => proc'[q] = proc[q]
  BY <1>3 DEF Becomes
<1>6. IdsAreNew'
  BY <1>3, <1>5, KeepsIdsNew DEF ResultInv
<1>7. OneWorker'
  <2>1. ASSUME NEW c \in Child, PullChild(p, c) PROVE OneWorker'
    <3>1. /\ Becomes(p, proc'[p]) /\ proc'[p].pc = "run" /\ proc'[p].child = c
          /\ child[c] \in {"queued", "canceled"} /\ child'[c] = "running"
          /\ \A d \in Child : d # c => child'[d] = child[d]
      BY <1>1, <2>1, PullChildEffect
    <3>2. \A q \in Proc : Works(q) => proc[q].child # c
      BY <1>2, <3>1
    <3> QED
      BY <3>1, <3>2 DEF ResultInv, OneWorker, Works, Becomes
  <2>2. ASSUME NEW result \in {"ok", "error"}, EndChild(p, result) PROVE OneWorker'
    <3>1. proc[p].pc = "run"
      BY <2>2 DEF EndChild
    <3>2. proc[p].child \in Child /\ Works(p)
      BY <1>2, <3>1 DEF Works
    <3>3. /\ Becomes(p, proc'[p])
          /\ child'[proc[p].child] = result
          /\ \A d \in Child : d # proc[p].child => child'[d] = child[d]
          /\ \/ proc'[p].pc = "idle"
             \/ /\ proc'[p].pc \in {"read", "report"} /\ proc'[p].child = proc[p].child
                /\ proc'[p].result = result
      BY <1>1, <2>2, <3>2, EndChildEffect, EmptyRecords
    <3> QED
      BY <3>2, <3>3 DEF ResultInv, OneWorker, Works, Becomes
  <2>3. CASE ReadIds(p)
    <3>1. /\ Becomes(p, proc'[p]) /\ proc[p].pc = "read" /\ child' = child
          /\ \/ proc'[p].pc = "idle"
             \/ /\ proc'[p].pc = "report" /\ proc'[p].child = proc[p].child
                /\ proc'[p].result = proc[p].result
      BY <1>1, <2>3, ReadIdsEffect, EmptyRecords
    <3> QED
      BY <3>1 DEF ResultInv, OneWorker, Works, Becomes
  <2> QED
    BY <2>1, <2>2, <2>3
<1>8. DoneIsSaved'
  BY <1>3, <1>5, KeepsDone DEF ResultInv
<1>9. ResultsAreReal'
  <2>1. \A l \in Key : Kind[l[1]] = "tasks" => completed[l] \in {"none", "ok", "error"}
    BY <1>1, ResultOfTask DEF ResultInv
  <2>2. \A d \in Child : child[d] \in {"ok", "error"} =>
            child'[d] = child[d] /\ childKey'[d] = childKey[d]
    BY <1>3
  <2> QED
    BY <1>3, <2>1, <2>2, KeepsResults DEF ResultInv
<1>10. WaitsForStage'
  BY <1>3 DEF ResultInv, WaitsForStage
<1> QED
  BY <1>3, <1>4, <1>6, <1>7, <1>8, <1>9, <1>10, TypesNext DEF ResultInv

\* The step that a result is merged for is the one its job was pushed for.
LEMMA ReportedKey ==
    ASSUME ResultInv, NEW p \in Proc, proc[p].pc = "report",
           NEW k \in Key, proc[p].ids[k] = proc[p].child
    PROVE  /\ proc[p].child \in Child /\ childKey[proc[p].child] = k
           /\ child[proc[p].child] = proc[p].result /\ Kind[k[1]] = "tasks"
<1>1. /\ proc[p].child \in Child /\ child[proc[p].child] = proc[p].result
      /\ proc[p].result \in {"ok", "error"} /\ childKey \in [Child -> Key]
  BY TypesAreTypeOK, Fields DEF ResultInv, OneWorker, Works, Types
<1>2. Has(proc[p].child, k) /\ Has(proc[p].child, childKey[proc[p].child])
  BY <1>1 DEF Has
<1>3. childKey[proc[p].child] = k
  BY <1>1, <1>2 DEF ResultInv, OneKey
<1> QED
  BY <1>1, <1>2, <1>3 DEF ResultInv, OneKey

\* A result is merged.
LEMMA ReportResult ==
    ASSUME ResultInv, NEW p \in Proc, Report(p)
    PROVE  ResultInv'
<1>1. Types
  BY TypesAreTypeOK DEF ResultInv
<1>2. /\ Types' /\ Becomes(p, proc'[p]) /\ proc[p].pc = "report" /\ proc'[p] = Idle
      /\ \/ UNCHANGED <<row, completed, pending>>
         \/ Merges(proc[p])
         \/ UNCHANGED completed /\ Ends("failure")
      /\ UNCHANGED <<child, childKey>>
  BY <1>1, ReportEffect
<1>3. pending' \in {pending, NoPending}
  BY <1>2 DEF Merges, Ends
<1>4. Plain
  BY <1>2, EmptyRecords DEF Plain, Becomes
<1>5. OneKey' /\ IdsAreNew' /\ OneWorker'
  BY <1>1, <1>2, <1>3, <1>4, EmptyRecords, PlainKeeps DEF ResultInv
<1>6. proc[p].result \in {"ok", "error"}
  BY <1>1, Fields DEF Types
<1>7. \A k \in Key : completed[k] # "none" => completed'[k] # "none"
  BY <1>2, <1>6 DEF Merges
<1>8. DoneIsSaved'
  <2>1. \A q \in Proc : proc'[q].pc = "replay" => proc'[q] = proc[q]
    BY <1>2, EmptyRecords DEF Becomes
  <2> QED
    BY <1>7, <2>1, KeepsDone DEF ResultInv
<1>9. ResultsAreReal'
  <2>1. ASSUME NEW k \in Key, Kind[k[1]] = "tasks", completed'[k] # "none"
        PROVE  \E c \in Child : childKey'[c] = k /\ child'[c] = completed'[k]
    <3>1. CASE completed'[k] = completed[k]
      BY <1>2, <2>1, <3>1 DEF ResultInv, ResultsAreReal
    <3>2. CASE completed'[k] # completed[k]
      <4>1. proc[p].ids[k] = proc[p].child /\ completed'[k] = proc[p].result
        BY <1>2, <3>2 DEF Merges
      <4>2. /\ proc[p].child \in Child /\ childKey[proc[p].child] = k
            /\ child[proc[p].child] = proc[p].result
        BY <1>2, <4>1, ReportedKey
      <4> QED
        BY <1>2, <4>1, <4>2
    <3> QED
      BY <3>1, <3>2
  <2>2. row' = "success" => row = "success"
    BY <1>2 DEF Merges, Ends
  <2> QED
    BY <1>7, <2>1, <2>2 DEF ResultInv, ResultsAreReal
<1>10. WaitsForStage'
  BY <1>3, EmptyRecords DEF ResultInv, WaitsForStage
<1> QED
  BY <1>2, <1>5, <1>8, <1>9, <1>10, TypesNext DEF ResultInv

\* The servers, the monitor and the clock.
LEMMA AsideResult ==
    ASSUME ResultInv,
           \/ \E r \in Request : WriteApproval(r) \/ \E approved \in BOOLEAN : ReadApproval(r, approved)
           \/ RestartParent \/ (\E c \in Child : RestartChild(c)) \/ Deadline
           \/ UNCHANGED vars
    PROVE  ResultInv'
<1>1. Types
  BY TypesAreTypeOK DEF ResultInv
<1>2. /\ Types' /\ UNCHANGED <<completed, pending, childKey, proc>>
      /\ row' \in {row, "queued"}
      /\ \A c \in Child : child'[c] # child[c] =>
            /\ child[c] = "running" /\ child'[c] = "queued"
            /\ \A q \in Proc : ~(proc[q].pc = "run" /\ proc[q].child = c)
  <2>1. CASE \E r \in Request : WriteApproval(r) \/ \E approved \in BOOLEAN : ReadApproval(r, approved)
    BY <1>1, <2>1, WriteApprovalEffect, ReadApprovalEffect
  <2>2. CASE RestartParent \/ Deadline
    BY <1>1, <2>2, RestartParentEffect, DeadlineEffect
  <2>3. CASE \E c \in Child : RestartChild(c)
    BY <1>1, <2>3, RestartChildEffect
  <2>4. CASE UNCHANGED vars
    BY <1>1, <2>4 DEF vars, parent, checkpoint, children, approvals, faults, Types
  <2> QED
    BY <2>1, <2>2, <2>3, <2>4
<1>3. OneKey'
  BY <1>1, <1>2, KeepsOneKey DEF ResultInv
<1>4. IdsAreNew'
  BY <1>2, KeepsIdsNew DEF ResultInv
<1>5. OneWorker'
  BY <1>1, <1>2, KeepsWorkers DEF ResultInv
<1>6. DoneIsSaved'
  BY <1>2, KeepsDone DEF ResultInv
<1>7. ResultsAreReal'
  <2>1. \A l \in Key : Kind[l[1]] = "tasks" => completed[l] \in {"none", "ok", "error"}
    BY <1>1, ResultOfTask DEF ResultInv
  <2>2. \A d \in Child : child[d] \in {"ok", "error"} =>
            child'[d] = child[d] /\ childKey'[d] = childKey[d]
    BY <1>2
  <2> QED
    BY <1>2, <2>1, <2>2, KeepsResults DEF ResultInv
<1>8. WaitsForStage'
  BY <1>2 DEF ResultInv, WaitsForStage
<1> QED
  BY <1>2, <1>3, <1>4, <1>5, <1>6, <1>7, <1>8, TypesNext DEF ResultInv

\* Nothing is known at first.
LEMMA InitResult ==
    ASSUME Init
    PROVE  ResultInv
<1>1. (CHOOSE k \in Key : TRUE) \in Key
  BY KeyFacts
<1>2. Types
  <2>1. <<>> \in Seq(Message)
    OBVIOUS
  <2>2. child \in [Child -> ChildState] /\ childKey \in [Child -> Key]
    BY <1>1 DEF Init, ChildState
  <2> QED
    BY <2>1, <2>2, EmptyRecords, WacFacts DEF Init, Types, Ended
<1>3. /\ \A p \in Proc : proc[p].pc = "idle" /\ proc[p].ids = NoIds
      /\ \A c \in Child : child[c] = "none"
      /\ pending = NoPending /\ row = "queued"
      /\ \A k \in Key : completed[k] = "none"
  BY EmptyRecords DEF Init, Nothing
<1>4. \A c \in Child : \A k \in Key : ~Has(c, k)
  BY <1>3, EmptyRecords, WacFacts DEF Has
<1>5. OneKey
  BY <1>4 DEF OneKey
<1>6. IdsAreNew /\ OneWorker /\ DoneIsSaved
  BY <1>3 DEF IdsAreNew, OneWorker, DoneIsSaved, Works
<1>7. WaitsForStage /\ ResultsAreReal
  BY <1>3, EmptyRecords DEF WaitsForStage, ResultsAreReal
<1> QED
  BY <1>2, <1>5, <1>6, <1>7, TypesAreTypeOK DEF ResultInv

\* Every step keeps the invariant.
LEMMA ResultStep == ResultInv /\ [Next]_vars => ResultInv'
<1> SUFFICES ASSUME ResultInv, [Next]_vars PROVE ResultInv'
  OBVIOUS
<1>1. ASSUME NEW p \in Proc, ThreadStep(p) \/ PushFails(p) \/ Crash(p) PROVE ResultInv'
  BY <1>1, PullParentResult, LoadResult, LeaveResult, InlineResult, DispatchResult,
     PushChildResult, ChildResult, ReportResult DEF ThreadStep
<1>2. CASE ~\E p \in Proc : ThreadStep(p) \/ PushFails(p) \/ Crash(p)
  BY <1>2, AsideResult DEF Next
<1> QED
  BY <1>1, <1>2

\* The invariant of ids and results, whoever dies and whatever fails.
THEOREM ResultInvariant == Spec => []ResultInv
<1>1. Init => ResultInv
  BY InitResult
<1> QED
  BY <1>1, ResultStep, PTL DEF Spec

\* A result in the checkpoint is that of a child that was pushed for the step and
\* ended with it, and a workflow that succeeds has one for each of its steps: for
\* every script, whichever workers die, whichever pushes fail and whenever
\* approvals arrive.
THEOREM StoredResultsAreReal == Spec => []ResultsAreReal
<1>1. ResultInv => ResultsAreReal
  BY DEF ResultInv
<1> QED
  BY <1>1, ResultInvariant, PTL
-----------------------------------------------------------------------------
(* The second invariant.                                                   *)

\* Sets of children are counted as sets are.
LEMMA ChildSets == \A S \in SUBSET Child : IsFiniteSet(S) /\ Cardinality(S) \in Nat
<1>1. IsFiniteSet(Child)
  <2>1. 1 \in Int /\ MaxChildren \in Int
    BY WacFacts
  <2> QED
    BY <2>1, FS_Interval DEF Child
<1> QED
  BY <1>1, FS_Subset, FS_CardinalityType

\* Nothing is under way while the parent is not suspended, or no longer.
LEMMA NoneUnderWay ==
    ASSUME ResultInv, FamilyInv, InQueue, pushErrors = 0,
           until # "future" \/ pending.mode # "tasks"
    PROVE  (\A c \in Child : ~UnderWay(c)) /\ (\A q \in Proc : ~Works(q))
<1>1. \A c \in Child : ~UnderWay(c)
  BY DEF FamilyInv
<1>2. \A q \in Proc : Works(q) => proc[q].child \in Child
  BY DEF ResultInv, OneWorker
<1> QED
  BY <1>1, <1>2 DEF UnderWay

\* The worker that drives is the only one, and no push has failed unless it is
\* about to end the parent.
LEMMA DriverFacts ==
    ASSUME Types, DriverInv, NEW p \in Proc, Driving(p)
    PROVE  /\ row = "running" /\ InQueue
           /\ \A q \in Proc : q # p => ~Driving(q)
           /\ proc[p].pc # "fail" => pushErrors = 0
<1>1. row = "running" /\ \A q \in Proc : q # p => ~Driving(q)
  BY DEF DriverInv
<1>2. ASSUME proc[p].pc # "fail" PROVE pushErrors = 0
  <2>1. \A q \in Proc : proc[q].pc # "fail"
    BY <1>1, <1>2 DEF Driving
  <2> QED
    BY <1>1, <2>1 DEF DriverInv, InQueue, Types
<1> QED
  BY <1>1, <1>2 DEF InQueue

\* Steps that a set of children, threads and keys does not see.
LEMMA UnderWaySame ==
    ASSUME \A c \in Child : child'[c] \in {"queued", "canceled", "running"}
              <=> child[c] \in {"queued", "canceled", "running"},
           \A q \in Proc : (Works(q)' <=> Works(q)) /\ (Works(q) => proc'[q].child = proc[q].child)
    PROVE  \A c \in Child : UnderWay(c)' <=> UnderWay(c)
<1> SUFFICES ASSUME NEW c \in Child PROVE UnderWay(c)' <=> UnderWay(c)
  OBVIOUS
<1>1. (\E q \in Proc : Works(q)' /\ proc'[q].child = c) <=> (\E q \in Proc : Works(q) /\ proc[q].child = c)
  OBVIOUS
<1>2. UnderWay(c)' <=> \/ child'[c] \in {"queued", "canceled", "running"}
                       \/ \E q \in Proc : Works(q)' /\ proc'[q].child = c
  BY DEF UnderWay
<1> QED
  BY <1>1, <1>2 DEF UnderWay

\* Threads that push are as they were.
LEMMA InTodoSame ==
    ASSUME \A q \in Proc : proc'[q].pc = "push" \/ proc[q].pc = "push" => proc'[q] = proc[q]
    PROVE  \A k \in Key : InTodo(k)' <=> InTodo(k)
BY DEF InTodo

\* No job is new.
LEMMA TriesSame ==
    ASSUME \A c \in Child : child'[c] = "none" <=> child[c] = "none", childKey' = childKey
    PROVE  \A k \in Key : Tries(k)' = Tries(k)
BY DEF Tries

\* What has been settled stays so.
LEMMA SettledSame ==
    ASSUME \A c \in Child : UnderWay(c)' <=> UnderWay(c),
           \A k \in Key : InTodo(k)' <=> InTodo(k), childKey' = childKey,
           \A k \in Key : completed[k] # "none" => completed'[k] # "none"
    PROVE  \A k \in Key : Settled(k) => Settled(k)'
BY DEF Settled

\* The steps that are counted do not change, or fewer are to be pushed.
LEMMA KeepsTries ==
    ASSUME Types, TriesInv,
           \A k \in Key : Tries(k)' = Tries(k),
           \A k \in Key : InTodo(k)' => InTodo(k),
           \A k \in Key : Settled(k) => Settled(k)' \/ Over',
           Over => Over', crashes' = crashes, pushErrors' = pushErrors
    PROVE  TriesInv'
<1> SUFFICES ASSUME NEW k \in Key
             PROVE  Cardinality(Tries(k)') + (IF InTodo(k)' THEN 1 ELSE 0)
                      <= crashes' + pushErrors' + (IF Settled(k)' \/ Over' THEN 1 ELSE 0)
  BY DEF TriesInv
<1>1. Cardinality(Tries(k)) \in Nat
  BY ChildSets DEF Tries
<1>2. Cardinality(Tries(k)) + (IF InTodo(k) THEN 1 ELSE 0)
        <= crashes + pushErrors + (IF Settled(k) \/ Over THEN 1 ELSE 0)
  BY DEF TriesInv
<1>3. crashes \in Nat /\ pushErrors \in Nat
  BY DEF Types
<1>4. Tries(k)' = Tries(k) /\ (InTodo(k)' => InTodo(k)) /\ (Settled(k) \/ Over => Settled(k)' \/ Over')
  OBVIOUS
<1> QED
  BY <1>1, <1>2, <1>3, <1>4

\* A worker dies or a push fails.
LEMMA MoreTries ==
    ASSUME Types, TriesInv,
           \A k \in Key : Tries(k)' = Tries(k),
           \A k \in Key : InTodo(k)' => InTodo(k),
           crashes' + pushErrors' = crashes + pushErrors + 1
    PROVE  TriesInv'
<1> SUFFICES ASSUME NEW k \in Key
             PROVE  Cardinality(Tries(k)') + (IF InTodo(k)' THEN 1 ELSE 0)
                      <= crashes' + pushErrors' + (IF Settled(k)' \/ Over' THEN 1 ELSE 0)
  BY DEF TriesInv
<1>1. Cardinality(Tries(k)) \in Nat
  BY ChildSets DEF Tries
<1>2. Cardinality(Tries(k)) + (IF InTodo(k) THEN 1 ELSE 0)
        <= crashes + pushErrors + (IF Settled(k) \/ Over THEN 1 ELSE 0)
  BY DEF TriesInv
<1>3. crashes \in Nat /\ pushErrors \in Nat
  BY DEF Types
<1>4. Tries(k)' = Tries(k) /\ (InTodo(k)' => InTodo(k))
  OBVIOUS
<1> QED
  BY <1>1, <1>2, <1>3, <1>4

\* The dispatch goes on as it did.
LEMMA KeepsWake ==
    ASSUME WakeInv, crashes' = crashes,
           pending'.mode = "tasks" => pending' = pending,
           \A k \in Key : completed[k] # "none" => completed'[k] # "none",
           \A c \in Child : UnderWay(c)' <=> UnderWay(c),
           \A k \in Key : InTodo(k)' <=> InTodo(k), pending.keys \subseteq Key
    PROVE  WakeInv'
BY DEF WakeInv, Waiting

\* A step after which the same children are under way and the same steps are to
\* be pushed.
SameWork ==
    /\ \A c \in Child : UnderWay(c)' <=> UnderWay(c)
    /\ \A k \in Key : InTodo(k)' <=> InTodo(k)
    /\ \A k \in Key : Tries(k)' = Tries(k)
    /\ childKey' = childKey

\* Such is a step of a thread that neither pushes nor works for a child.
LEMMA OtherThread ==
    ASSUME NEW p \in Proc, Becomes(p, proc'[p]),
           proc[p].pc \notin {"push", "run", "read", "report"},
           proc'[p].pc \notin {"push", "run", "read", "report"},
           child' = child, childKey' = childKey
    PROVE  SameWork
<1>1. \A q \in Proc : (Works(q)' <=> Works(q)) /\ (Works(q) => proc'[q].child = proc[q].child)
  BY DEF Works, Becomes
<1>2. \A q \in Proc : proc'[q].pc = "push" \/ proc[q].pc = "push" => proc'[q] = proc[q]
  BY DEF Becomes
<1> QED
  BY <1>1, <1>2, UnderWaySame, InTodoSame, TriesSame DEF SameWork

\* It keeps the accounts of the steps.
LEMMA SameWorkKeeps ==
    ASSUME Types, TriesInv, WakeInv, SameWork,
           pending'.mode = "tasks" => pending' = pending,
           \A k \in Key : completed[k] # "none" => completed'[k] # "none",
           Over => Over', crashes' = crashes, pushErrors' = pushErrors
    PROVE  TriesInv' /\ WakeInv'
<1>1. \A k \in Key : Settled(k) => Settled(k)'
  BY SettledSame DEF SameWork
<1>2. TriesInv'
  BY <1>1, KeepsTries DEF SameWork
<1>3. pending.keys \subseteq Key
  BY Fields DEF Types
<1>4. WakeInv'
  BY <1>3, KeepsWake DEF SameWork
<1> QED
  BY <1>2, <1>4

\* The parent is claimed: it waits for nothing that is under way.
LEMMA PullParentDispatch ==
    ASSUME ResultInv, OrderlyInv, NEW p \in Proc, PullParent(p)
    PROVE  OrderlyInv'
<1>1. Types
  BY TypesAreTypeOK DEF ResultInv
<1>2. /\ Types' /\ Becomes(p, proc'[p]) /\ proc[p].pc = "idle" /\ proc'[p].pc = "pulled"
      /\ row = "queued" \/ (row = "running" /\ Resumable)
      /\ row' = "running" /\ until' = "null"
      /\ UNCHANGED <<suspend, completed, pending, child, childKey, request, crashes, pushErrors>>
  BY <1>1, PullParentEffect
<1>3. SameWork
  BY <1>2, OtherThread
<1>4. InQueue /\ InQueue'
  BY <1>2 DEF InQueue
<1>5. pending.mode = "tasks" => ~(until = "future" /\ suspend = 0)
  <2> SUFFICES ASSUME pending.mode = "tasks", until = "future", suspend = 0 PROVE FALSE
    OBVIOUS
  <2>1. Waiting # {} /\ Cardinality(Waiting) = 0
    BY DEF OrderlyInv, CountInv
  <2>2. IsFiniteSet(Waiting)
    BY <1>1, Fields, KeysAreFinite DEF Types, Waiting
  <2> QED
    BY <2>1, <2>2, FS_EmptySet
<1>6. until # "future" \/ pending.mode # "tasks"
  BY <1>2, <1>5 DEF Resumable, OrderlyInv, DriverInv
<1>7. \A q \in Proc : ~Driving(q)
  <2> SUFFICES ASSUME NEW q \in Proc, Driving(q) PROVE FALSE
    OBVIOUS
  <2>1. row = "running" /\ until # "null"
    BY <1>2 DEF OrderlyInv, DriverInv, Resumable
  <2> QED
    BY <1>6, <2>1 DEF OrderlyInv, DriverInv
<1>8. pushErrors = 0
  <2>1. \A q \in Proc : proc[q].pc # "fail"
    BY <1>7 DEF Driving
  <2> QED
    BY <1>1, <1>4, <2>1 DEF OrderlyInv, DriverInv, Types
<1>9. DriverInv'
  <2>1. \A q \in Proc : Driving(q)' <=> q = p
    BY <1>2, <1>7 DEF Driving, Becomes
  <2> QED
    BY <1>2, <1>4, <1>8, <2>1 DEF DriverInv
<1>10. CountInv'
  BY <1>2 DEF OrderlyInv, CountInv, Waiting, LinkIsOut, TasksDone
<1>11. (\A c \in Child : ~UnderWay(c)) /\ (\A q \in Proc : ~Works(q))
  BY <1>4, <1>6, <1>8, NoneUnderWay DEF OrderlyInv
<1>12. FamilyInv'
  <2>1. \A c \in Child : ~UnderWay(c)'
    BY <1>3, <1>11 DEF SameWork
  <2>2. \A q \in Proc : proc'[q].pc # "report"
    BY <1>2, <1>11 DEF Becomes, Works
  <2> QED
    BY <2>1, <2>2 DEF FamilyInv
<1>13. TriesInv' /\ WakeInv'
  BY <1>1, <1>2, <1>3, <1>4, SameWorkKeeps DEF OrderlyInv, Over
<1> QED
  BY <1>9, <1>10, <1>12, <1>13 DEF OrderlyInv

\* Tasks that are done stay so, and so does the link to an approval that no step
\* waits for.
LEMMA KeepsApproval ==
    ASSUME CountInv,
           LinkIsOut' => LinkIsOut \/ TasksDone',
           \A k \in Key : completed[k] # "none" => completed'[k] # "none",
           request' = request
    PROVE  LinkIsOut' \/ (\E r \in Request : request'[r].pc = "write") => TasksDone'
BY DEF CountInv, TasksDone

\* The checkpoint is read.
LEMMA LoadDispatch ==
    ASSUME ResultInv, OrderlyInv, NEW p \in Proc, Load(p)
    PROVE  OrderlyInv'
<1>1. Types /\ pending \in PendingSteps
  BY TypesAreTypeOK DEF ResultInv, Types
<1>2. /\ Types' /\ Becomes(p, proc'[p]) /\ proc[p].pc = "pulled" /\ proc'[p].pc = "replay"
      /\ proc'[p].done = completed'
      /\ \A k \in Key : completed'[k] # completed[k] =>
           /\ k \in pending.keys /\ pending.mode \in {"approval", "sleep"}
           /\ completed'[k] # "none"
      /\ pending.mode \in {"approval", "sleep"} => pending' = NoPending
      /\ pending.mode \notin {"approval", "sleep"} => UNCHANGED <<completed, pending>>
      /\ UNCHANGED <<row, suspend, until, child, childKey, request, crashes, pushErrors>>
  BY <1>1, LoadEffect
<1>3. SameWork
  BY <1>2, OtherThread
<1>4. /\ row = "running" /\ InQueue /\ InQueue' /\ until = "null"
      /\ \A q \in Proc : q # p => ~Driving(q)
      /\ pushErrors = 0
  <2>1. Driving(p)
    BY <1>2 DEF Driving
  <2> QED
    BY <1>1, <1>2, <2>1, DriverFacts DEF OrderlyInv, DriverInv, InQueue
<1>5. pending'.mode \in {"none", "tasks"} /\ (pending'.mode = "tasks" => pending' = pending /\ completed' = completed)
  BY <1>1, <1>2, Fields, EmptyRecords
<1>6. DriverInv'
  <2>1. \A q \in Proc : Driving(q)' <=> q = p
    BY <1>2, <1>4 DEF Driving, Becomes
  <2> QED
    BY <1>2, <1>4, <1>5, <2>1 DEF DriverInv
<1>7. CountInv'
  <2>1. LinkIsOut' => LinkIsOut
    <3>1. ASSUME NEW k \in Key, Kind[k[1]] = "approval", completed'[k] # "none" PROVE LinkIsOut
      BY <1>2, <3>1 DEF LinkIsOut, ResultInv, WaitsForStage
    <3> QED
      BY <1>5, <3>1 DEF LinkIsOut
  <2>2. LinkIsOut' \/ (\E r \in Request : request'[r].pc = "write") => TasksDone'
    BY <1>2, <2>1, KeepsApproval DEF OrderlyInv
  <2>3. pending'.mode = "tasks" => Waiting' # {}
    BY <1>5 DEF OrderlyInv, CountInv, Waiting
  <2> QED
    BY <1>2, <1>4, <2>2, <2>3 DEF CountInv
<1>8. (\A c \in Child : ~UnderWay(c)) /\ (\A q \in Proc : ~Works(q))
  BY <1>4, NoneUnderWay DEF OrderlyInv
<1>9. FamilyInv'
  <2>1. \A c \in Child : ~UnderWay(c)'
    BY <1>3, <1>8 DEF SameWork
  <2>2. \A q \in Proc : proc'[q].pc # "report"
    BY <1>2, <1>8 DEF Becomes, Works
  <2> QED
    BY <2>1, <2>2 DEF FamilyInv
<1>10. TriesInv' /\ WakeInv'
  BY <1>1, <1>2, <1>3, <1>4, <1>5, SameWorkKeeps DEF OrderlyInv, Over
<1> QED
  BY <1>6, <1>7, <1>9, <1>10 DEF OrderlyInv

\* The facts of a script that runs.
LEMMA ReplayFacts ==
    ASSUME ResultInv, OrderlyInv, NEW p \in Proc, proc[p].pc = "replay"
    PROVE  /\ row = "running" /\ InQueue /\ until = "null" /\ pushErrors = 0
           /\ proc[p].done = completed /\ pending.mode \in {"none", "tasks"}
           /\ \A q \in Proc : q # p => ~Driving(q)
           /\ \A c \in Child : ~UnderWay(c)
           /\ \A q \in Proc : ~Works(q)
<1>1. Types
  BY TypesAreTypeOK DEF ResultInv
<1>2. Driving(p)
  BY DEF Driving
<1>3. /\ row = "running" /\ InQueue /\ until = "null" /\ pushErrors = 0
      /\ proc[p].done = completed /\ pending.mode \in {"none", "tasks"}
      /\ \A q \in Proc : q # p => ~Driving(q)
  BY <1>1, <1>2, DriverFacts DEF OrderlyInv, DriverInv
<1>4. (\A c \in Child : ~UnderWay(c)) /\ (\A q \in Proc : ~Works(q))
  BY <1>3, NoneUnderWay DEF OrderlyInv
<1> QED
  BY <1>3, <1>4

\* An inline step is saved.
LEMMA InlineDispatch ==
    ASSUME ResultInv, OrderlyInv, NEW p \in Proc, NEW fast \in BOOLEAN, Inline(p, fast)
    PROVE  OrderlyInv'
<1>1. Types
  BY TypesAreTypeOK DEF ResultInv
<1>2. /\ Types' /\ Becomes(p, proc'[p]) /\ At(p, "inline") /\ proc[p].pc = "replay"
      /\ \A k \in Missing(p) : completed'[k] = "ok"
      /\ \A k \in Key : k \notin Missing(p) => completed'[k] = completed[k]
      /\ \/ /\ proc'[p].pc = "replay"
            /\ \A k \in Missing(p) : proc'[p].done[k] = "ok"
            /\ \A k \in Key : k \notin Missing(p) => proc'[p].done[k] = proc[p].done[k]
            /\ row' = row
         \/ proc'[p].pc = "idle" /\ (InQueue => row' = "queued")
      /\ UNCHANGED <<suspend, until, pending, child, childKey, request, crashes, pushErrors>>
  BY <1>1, InlineEffect, EmptyRecords
<1>3. SameWork
  BY <1>2, OtherThread
<1>4. /\ row = "running" /\ InQueue /\ until = "null" /\ pushErrors = 0
      /\ proc[p].done = completed /\ pending.mode \in {"none", "tasks"}
      /\ \A q \in Proc : q # p => ~Driving(q)
      /\ \A c \in Child : ~UnderWay(c)
      /\ \A q \in Proc : ~Works(q)
  BY <1>2, ReplayFacts
<1>5. InQueue'
  BY <1>2, <1>4 DEF InQueue
<1>6. \A k \in Missing(p) : Kind[k[1]] = "inline"
  BY <1>1, <1>2, AtFacts
<1>7. DriverInv'
  <2>1. CASE proc'[p].pc = "replay"
    <3>1. \A q \in Proc : Driving(q)' <=> q = p
      BY <1>2, <1>4, <2>1 DEF Driving, Becomes
    <3>2. proc'[p].done = completed'
      <4>1. proc'[p].done \in [Key -> Result] /\ completed' \in [Key -> Result]
        BY <1>2, Fields DEF Types, Becomes
      <4>2. \A k \in Key : proc'[p].done[k] = completed'[k]
        BY <1>2, <1>4, <2>1
      <4> QED
        BY <4>1, <4>2
    <3>3. row' = "running"
      BY <1>2, <1>4, <2>1
    <3> QED
      BY <1>2, <1>4, <1>5, <2>1, <3>1, <3>2, <3>3 DEF DriverInv
  <2>2. CASE proc'[p].pc = "idle"
    <3>1. \A q \in Proc : ~Driving(q)'
      BY <1>2, <1>4, <2>2 DEF Driving, Becomes
    <3>2. row' = "queued"
      BY <1>2, <1>4, <2>2
    <3> QED
      BY <1>2, <1>4, <1>5, <3>1, <3>2 DEF DriverInv
  <2> QED
    BY <1>2, <2>1, <2>2
<1>8. CountInv'
  <2>1. LinkIsOut' => LinkIsOut
    BY <1>2, <1>6 DEF LinkIsOut
  <2>2. LinkIsOut' \/ (\E r \in Request : request'[r].pc = "write") => TasksDone'
    BY <1>2, <2>1, KeepsApproval DEF OrderlyInv
  <2>3. pending'.mode = "tasks" => Waiting' # {}
    <3> SUFFICES ASSUME pending.mode = "tasks" PROVE Waiting' # {}
      BY <1>2
    <3>1. PICK k \in Waiting : TRUE
      BY DEF OrderlyInv, CountInv
    <3>2. k \in Key /\ Kind[k[1]] = "tasks"
      BY <1>1, Fields DEF Waiting, ResultInv, WaitsForStage, Types
    <3>3. k \in Waiting'
      BY <1>2, <1>6, <3>2 DEF Waiting
    <3> QED
      BY <3>3
  <2> QED
    BY <1>2, <1>4, <2>2, <2>3 DEF CountInv
<1>9. FamilyInv'
  <2>1. \A c \in Child : ~UnderWay(c)'
    BY <1>3, <1>4 DEF SameWork
  <2>2. \A q \in Proc : proc'[q].pc # "report"
    BY <1>2, <1>4 DEF Becomes, Works
  <2> QED
    BY <2>1, <2>2 DEF FamilyInv
<1>10. TriesInv' /\ WakeInv'
  <2>1. \A k \in Key : completed[k] # "none" => completed'[k] # "none"
    BY <1>2
  <2> QED
    BY <1>1, <1>2, <1>3, <1>4, <1>5, <2>1, SameWorkKeeps DEF OrderlyInv, Over
<1> QED
  BY <1>7, <1>8, <1>9, <1>10 DEF OrderlyInv

\* Ids are given out: the parent waits for all of the steps that are missing.
LEMMA DispatchDispatch ==
    ASSUME ResultInv, OrderlyInv, NEW p \in Proc, Dispatch(p)
    PROVE  OrderlyInv'
<1>1. Types
  BY TypesAreTypeOK DEF ResultInv
<1>2. /\ Types' /\ At(p, "tasks") /\ Becomes(p, proc'[p]) /\ proc[p].pc = "replay"
      /\ proc'[p].pc = "push" /\ proc'[p].ids = pending'.ids /\ proc'[p].todo = Missing(p)
      /\ pending'.mode = "tasks" /\ pending'.keys = Missing(p)
      /\ InQueue => suspend' = Cardinality(Missing(p)) /\ until' = "future"
      /\ UNCHANGED <<row, completed, child, childKey, request, crashes, pushErrors>>
  BY <1>1, DispatchEffect
<1>3. /\ row = "running" /\ InQueue /\ until = "null" /\ pushErrors = 0
      /\ proc[p].done = completed
      /\ \A q \in Proc : q # p => ~Driving(q)
      /\ \A c \in Child : ~UnderWay(c)
      /\ \A q \in Proc : ~Works(q)
  BY <1>2, ReplayFacts
<1>4. InQueue'
  BY <1>2, <1>3 DEF InQueue
<1>5. /\ Missing(p) # {} /\ Missing(p) \in SUBSET Key
      /\ \A k \in Missing(p) : completed[k] = "none"
  BY <1>1, <1>2, <1>3, AtFacts
<1>6. Waiting' = Missing(p)
  BY <1>2, <1>5 DEF Waiting
<1>7. \A q \in Proc : ~Works(q)'
  BY <1>2, <1>3 DEF Works, Becomes
<1>8. \A c \in Child : ~UnderWay(c)'
  BY <1>2, <1>3, <1>7 DEF UnderWay
<1>9. DriverInv'
  <2>1. \A q \in Proc : Driving(q)' <=> q = p
    BY <1>2, <1>3 DEF Driving, Becomes
  <2> QED
    BY <1>2, <1>3, <1>4, <1>6, <2>1 DEF DriverInv
<1>10. CountInv'
  <2>1. LinkIsOut' => LinkIsOut
    BY <1>2 DEF LinkIsOut
  <2>2. LinkIsOut' \/ (\E r \in Request : request'[r].pc = "write") => TasksDone'
    BY <1>2, <2>1, KeepsApproval DEF OrderlyInv
  <2> QED
    BY <1>2, <1>3, <1>5, <1>6, <2>2 DEF CountInv
<1>11. FamilyInv'
  BY <1>7, <1>8 DEF FamilyInv, Works
<1>12. \A k \in Key : /\ ~InTodo(k)
                      /\ InTodo(k)' <=> k \in Missing(p)
                      /\ Tries(k)' = Tries(k)
  BY <1>2, <1>3 DEF InTodo, Tries, Driving, Becomes
<1>13. TriesInv'
  <2> SUFFICES ASSUME NEW k \in Key
               PROVE  Cardinality(Tries(k)') + (IF InTodo(k)' THEN 1 ELSE 0)
                        <= crashes' + pushErrors' + (IF Settled(k)' \/ Over' THEN 1 ELSE 0)
    BY DEF TriesInv
  <2>1. Cardinality(Tries(k)) \in Nat
    BY ChildSets DEF Tries
  <2>2. Cardinality(Tries(k)) + (IF InTodo(k) THEN 1 ELSE 0)
          <= crashes + pushErrors + (IF Settled(k) \/ Over THEN 1 ELSE 0)
    BY DEF OrderlyInv, TriesInv
  <2>3. crashes \in Nat /\ pushErrors \in Nat
    BY <1>1 DEF Types
  <2>4. ~Over
    BY <1>3 DEF Over
  <2>5. CASE k \in Missing(p)
    <3>1. ~Settled(k)
      BY <1>3, <1>5, <1>12, <2>5 DEF Settled
    <3>2. InTodo(k)' /\ Settled(k)'
      BY <1>12, <2>5 DEF Settled
    <3> QED
      BY <1>2, <1>12, <2>1, <2>2, <2>3, <2>4, <3>1, <3>2
  <2>6. CASE k \notin Missing(p)
    <3>1. ~InTodo(k)' /\ (Settled(k) => Settled(k)')
      BY <1>2, <1>3, <1>12, <2>6 DEF Settled
    <3> QED
      BY <1>2, <1>12, <2>1, <2>2, <2>3, <2>4, <3>1
  <2> QED
    BY <2>5, <2>6
<1>14. WakeInv'
  BY <1>5, <1>6, <1>12 DEF WakeInv
<1> QED
  BY <1>9, <1>10, <1>11, <1>13, <1>14 DEF OrderlyInv

\* A child is pushed: the parent waits for it.
LEMMA PushChildDispatch ==
    ASSUME ResultInv, OrderlyInv, NEW p \in Proc, PushChild(p)
    PROVE  OrderlyInv'
<1>1. Types /\ IdsAreNew
  BY TypesAreTypeOK DEF ResultInv
<1>2. /\ Types' /\ Becomes(p, proc'[p]) /\ proc[p].pc = "push"
      /\ UNCHANGED <<row, suspend, until, completed, pending, request, crashes, pushErrors>>
  BY <1>1, PushChildEffect
<1>3. PICK k \in proc[p].todo :
        /\ proc[p].ids[k] \in Child /\ child[proc[p].ids[k]] = "none"
        /\ child'[proc[p].ids[k]] = "queued" /\ childKey'[proc[p].ids[k]] = k
        /\ \A c \in Child : c # proc[p].ids[k] => child'[c] = child[c] /\ childKey'[c] = childKey[c]
        /\ proc[p].todo = {k} => proc'[p] = Idle
        /\ proc[p].todo # {k} =>
             /\ proc'[p].pc = "push" /\ proc'[p].ids = proc[p].ids
             /\ proc'[p].todo = proc[p].todo \ {k}
  BY <1>1, PushChildEffect
<1>0. PICK c \in Child : c = proc[p].ids[k]
  BY <1>3
<1>4. Driving(p)
  BY <1>2 DEF Driving
<1>5. /\ row = "running" /\ InQueue /\ InQueue' /\ pushErrors = 0
      /\ \A q \in Proc : q # p => ~Driving(q)
      /\ until = "future" /\ pending.mode = "tasks"
      /\ proc[p].ids = pending.ids /\ proc[p].todo \subseteq Waiting
  BY <1>1, <1>2, <1>4, DriverFacts DEF OrderlyInv, DriverInv, InQueue
<1>6. k \in Key /\ c \in Child /\ child[c] = "none" /\ pending.ids[k] = c /\ k \in Waiting
  BY <1>0, <1>1, <1>3, <1>5, Fields DEF Types
<1>7. Waiting' = Waiting
  BY <1>2 DEF Waiting
<1>8. \A q \in Proc : (Works(q)' <=> Works(q)) /\ (Works(q) => proc'[q] = proc[q])
  BY <1>2, <1>3, EmptyRecords DEF Works, Becomes
<1>9. ~UnderWay(c)
  <2>1. \A q \in Proc : Works(q) /\ proc[q].child = c => child[c] # "none"
    BY <1>1, <1>6, Fields DEF ResultInv, OneWorker, Works, Types
  <2> QED
    BY <1>6, <2>1 DEF UnderWay
<1>10. UnderWay(c)' /\ \A d \in Child : d # c => (UnderWay(d)' <=> UnderWay(d))
  <2>1. \A d \in Child : UnderWay(d)' <=> \/ child'[d] \in {"queued", "canceled", "running"}
                                         \/ \E q \in Proc : Works(q)' /\ proc'[q].child = d
    BY DEF UnderWay
  <2> QED
    BY <1>0, <1>3, <1>6, <1>8, <2>1 DEF UnderWay
<1>11. \A l \in Key : InTodo(l) <=> l \in proc[p].todo
  BY <1>2, <1>5 DEF InTodo, Driving
<1>12. \A l \in Key : InTodo(l)' <=> l \in proc[p].todo \ {k}
  <2>1. \A q \in Proc : proc'[q].pc = "push" => q = p
    BY <1>2, <1>5 DEF Driving, Becomes
  <2> QED
    BY <1>3, <2>1, EmptyRecords DEF InTodo
<1>13. DriverInv'
  <2>1. \A q \in Proc : Driving(q)' => q = p
    BY <1>2, <1>5 DEF Driving, Becomes
  <2>2. CASE proc[p].todo = {k}
    <3>1. \A q \in Proc : ~Driving(q)'
      BY <1>3, <2>1, <2>2, EmptyRecords DEF Driving
    <3> QED
      BY <1>2, <1>5, <3>1 DEF DriverInv
  <2>3. CASE proc[p].todo # {k}
    BY <1>2, <1>3, <1>5, <1>7, <2>1, <2>3 DEF DriverInv
  <2> QED
    BY <2>2, <2>3
<1>14. CountInv'
  BY <1>2, <1>7 DEF OrderlyInv, CountInv, LinkIsOut, TasksDone
<1>15. FamilyInv'
  <2>1. ASSUME NEW d \in Child, UnderWay(d)'
        PROVE  /\ pending'.mode = "tasks" /\ until' = "future"
               /\ childKey'[d] \in Waiting' /\ pending'.ids[childKey'[d]] = d
    <3>1. CASE d = c
      BY <1>0, <1>2, <1>3, <1>5, <1>6, <1>7, <3>1
    <3>2. CASE d # c
      BY <1>0, <1>2, <1>3, <1>5, <1>7, <1>10, <2>1, <3>2 DEF OrderlyInv, FamilyInv
    <3> QED
      BY <3>1, <3>2
  <2>2. ASSUME NEW q \in Proc, proc'[q].pc = "report"
        PROVE  /\ proc'[q].ids = pending'.ids
               /\ proc'[q].ids[childKey'[proc'[q].child]] = proc'[q].child
    <3>1. Works(q) /\ proc'[q] = proc[q]
      BY <1>8, <2>2 DEF Works
    <3>2. proc[q].child \in Child /\ child[proc[q].child] # "none"
      BY <1>1, <3>1, Fields DEF ResultInv, OneWorker, Works, Types
    <3>3. childKey'[proc[q].child] = childKey[proc[q].child]
      BY <1>0, <1>3, <3>2
    <3> QED
      BY <1>2, <1>5, <2>2, <3>1, <3>3 DEF OrderlyInv, FamilyInv
  <2> QED
    BY <2>1, <2>2 DEF FamilyInv
<1>16. TriesInv'
  <2> SUFFICES ASSUME NEW l \in Key
               PROVE  Cardinality(Tries(l)') + (IF InTodo(l)' THEN 1 ELSE 0)
                        <= crashes' + pushErrors' + (IF Settled(l)' \/ Over' THEN 1 ELSE 0)
    BY DEF TriesInv
  <2>1. IsFiniteSet(Tries(l)) /\ Cardinality(Tries(l)) \in Nat
    BY ChildSets DEF Tries
  <2>2. Cardinality(Tries(l)) + (IF InTodo(l) THEN 1 ELSE 0)
          <= crashes + pushErrors + (IF Settled(l) \/ Over THEN 1 ELSE 0)
    BY DEF OrderlyInv, TriesInv
  <2>3. crashes \in Nat /\ pushErrors \in Nat /\ crashes' = crashes /\ pushErrors' = pushErrors
    BY <1>1, <1>2 DEF Types
  <2>4. ~Over
    BY <1>5 DEF Over
  <2>5. CASE l = k
    <3>1. Tries(l)' = Tries(l) \cup {c} /\ c \notin Tries(l)
      BY <1>0, <1>3, <1>6, <2>5 DEF Tries
    <3>2. Cardinality(Tries(l)') = Cardinality(Tries(l)) + 1
      BY <2>1, <3>1, FS_AddElement
    <3>3. InTodo(l) /\ ~InTodo(l)'
      BY <1>11, <1>12, <2>5
    <3>4. Settled(l)'
      BY <1>0, <1>3, <1>6, <1>10, <2>5 DEF Settled
    <3> QED
      BY <2>1, <2>2, <2>3, <2>4, <3>2, <3>3, <3>4
  <2>6. CASE l # k
    <3>1. Tries(l)' = Tries(l)
      BY <1>0, <1>3, <1>6, <2>6 DEF Tries
    <3>2. InTodo(l)' <=> InTodo(l)
      BY <1>11, <1>12, <2>6
    <3>3. Settled(l) => Settled(l)'
      BY <1>0, <1>2, <1>3, <1>9, <1>10, <3>2 DEF Settled
    <3> QED
      BY <2>1, <2>2, <2>3, <2>4, <3>1, <3>2, <3>3
  <2> QED
    BY <2>5, <2>6
<1>17. WakeInv'
  <2> SUFFICES ASSUME crashes = 0, NEW l \in Waiting
               PROVE  InTodo(l)' \/ \E d \in Child : UnderWay(d)' /\ pending.ids[l] = d
    BY <1>2, <1>7 DEF WakeInv
  <2>1. InTodo(l) \/ \E d \in Child : UnderWay(d) /\ pending.ids[l] = d
    BY <1>5 DEF OrderlyInv, WakeInv
  <2>2. l \in Key
    BY <1>1, Fields DEF Types, Waiting
  <2> QED
    BY <1>6, <1>9, <1>10, <1>11, <1>12, <2>1, <2>2
<1> QED
  BY <1>13, <1>14, <1>15, <1>16, <1>17 DEF OrderlyInv

\* A push fails: the parent no longer waits, and is going to end.
LEMMA PushFailsDispatch ==
    ASSUME ResultInv, OrderlyInv, NEW p \in Proc, PushFails(p)
    PROVE  OrderlyInv'
<1>1. Types
  BY TypesAreTypeOK DEF ResultInv
<1>2. /\ Types' /\ Becomes(p, proc'[p]) /\ proc[p].pc = "push" /\ proc'[p].pc = "fail"
      /\ \A c \in Child : child'[c] = child[c] \/ (child[c] = "queued" /\ child'[c] = "canceled")
      /\ pending' = NoPending /\ until' = "null" /\ suspend' = 0
      /\ pushErrors' = pushErrors + 1
      /\ UNCHANGED <<row, completed, childKey, request, crashes>>
  BY <1>1, PushFailsEffect
<1>3. /\ row = "running" /\ InQueue /\ InQueue' /\ pushErrors = 0
      /\ \A q \in Proc : q # p => ~Driving(q)
  <2>1. Driving(p)
    BY <1>2 DEF Driving
  <2> QED
    BY <1>1, <1>2, <2>1, DriverFacts DEF OrderlyInv, InQueue
<1>4. pushErrors' > 0 /\ Over'
  BY <1>2, <1>3 DEF Over
<1>5. DriverInv'
  <2>1. \A q \in Proc : Driving(q)' <=> q = p
    BY <1>2, <1>3 DEF Driving, Becomes
  <2> QED
    BY <1>2, <1>3, <2>1, EmptyRecords DEF DriverInv
<1>6. CountInv'
  <2>1. LinkIsOut' => LinkIsOut
    BY <1>2, EmptyRecords DEF LinkIsOut
  <2>2. LinkIsOut' \/ (\E r \in Request : request'[r].pc = "write") => TasksDone'
    BY <1>2, <2>1, KeepsApproval DEF OrderlyInv
  <2> QED
    BY <1>2, <2>2, EmptyRecords DEF CountInv
<1>7. FamilyInv'
  <2>1. ASSUME NEW q \in Proc, proc'[q].pc = "report" PROVE proc'[q] = proc[q]
    BY <1>2, <2>1 DEF Becomes
  <2> QED
    BY <1>2, <1>4, <2>1 DEF OrderlyInv, FamilyInv
<1>8. TriesInv'
  <2>1. \A k \in Key : Tries(k)' = Tries(k)
    BY <1>2, TriesSame
  <2>2. \A k \in Key : InTodo(k)' => InTodo(k)
    BY <1>2 DEF InTodo, Becomes
  <2>3. crashes' + pushErrors' = crashes + pushErrors + 1
    BY <1>1, <1>2 DEF Types
  <2> QED
    BY <1>1, <2>1, <2>2, <2>3, MoreTries DEF OrderlyInv
<1>9. WakeInv'
  BY <1>2, EmptyRecords DEF WakeInv
<1> QED
  BY <1>5, <1>6, <1>7, <1>8, <1>9 DEF OrderlyInv

\* The script waits for an approval, after which no tasks come, or for a clock.
LEMMA WaitDispatch ==
    ASSUME NoTasksAfterApproval, ResultInv, OrderlyInv, NEW p \in Proc, Wait(p)
    PROVE  OrderlyInv'
<1>1. Types
  BY TypesAreTypeOK DEF ResultInv
<1>2. /\ Types' /\ (At(p, "approval") \/ At(p, "sleep"))
      /\ Becomes(p, proc'[p]) /\ proc[p].pc = "replay" /\ proc'[p].pc = "idle"
      /\ pending'.mode = Kind[Reached(proc[p].done)]
      /\ pending'.mode \in {"approval", "sleep"}
      /\ InQueue => suspend' = 1 /\ until' = "future"
      /\ UNCHANGED <<row, completed, child, childKey, request, crashes, pushErrors>>
  <2>1. /\ Types' /\ Becomes(p, proc'[p]) /\ proc[p].pc = "replay" /\ proc'[p].pc = "idle"
        /\ pending'.mode = Kind[Reached(proc[p].done)]
        /\ pending'.mode \in {"approval", "sleep"}
        /\ InQueue => suspend' = 1 /\ until' = "future"
        /\ UNCHANGED <<row, completed, child, childKey, request, crashes, pushErrors>>
    BY <1>1, WaitEffect, EmptyRecords
  <2>2. At(p, "approval") \/ At(p, "sleep")
    BY <1>1, WaitEffect
  <2> QED
    BY <2>1, <2>2
<1>3. SameWork
  BY <1>2, OtherThread
<1>4. /\ row = "running" /\ InQueue /\ pushErrors = 0
      /\ proc[p].done = completed
      /\ \A q \in Proc : q # p => ~Driving(q)
      /\ \A c \in Child : ~UnderWay(c)
      /\ \A q \in Proc : ~Works(q)
  BY <1>2, ReplayFacts
<1>5. InQueue'
  BY <1>2, <1>4 DEF InQueue
<1>6. DriverInv'
  <2>1. \A q \in Proc : ~Driving(q)'
    BY <1>2, <1>4 DEF Driving, Becomes
  <2> QED
    BY <1>2, <1>4, <1>5, <2>1 DEF DriverInv
<1>7. CountInv'
  <2>1. LinkIsOut' => LinkIsOut \/ TasksDone'
    <3> SUFFICES ASSUME pending'.mode = "approval", NEW k \in Key, Kind[k[1]] = "tasks"
                 PROVE  completed'[k] # "none"
      BY <1>2 DEF LinkIsOut, TasksDone
    <3>1. /\ Reached(proc[p].done) \in Stage
          /\ \A l \in Key : l[1] < Reached(proc[p].done) => proc[p].done[l] # "none"
      BY <1>1, <1>2, AtFacts
    <3>2. Kind[Reached(proc[p].done)] = "approval"
      BY <1>2
    <3>3. k[1] \in Stage /\ k[1] # Reached(proc[p].done) /\ ~(Reached(proc[p].done) < k[1])
      BY <3>1, <3>2, KeyFacts DEF NoTasksAfterApproval
    <3>4. k[1] < Reached(proc[p].done)
      BY <3>1, <3>3, WacFacts
    <3> QED
      BY <1>2, <1>4, <3>1, <3>4
  <2>2. LinkIsOut' \/ (\E r \in Request : request'[r].pc = "write") => TasksDone'
    BY <1>2, <2>1, KeepsApproval DEF OrderlyInv
  <2> QED
    BY <1>2, <2>2 DEF CountInv
<1>8. FamilyInv'
  <2>1. \A c \in Child : ~UnderWay(c)'
    BY <1>3, <1>4 DEF SameWork
  <2>2. \A q \in Proc : proc'[q].pc # "report"
    BY <1>2, <1>4 DEF Becomes, Works
  <2> QED
    BY <2>1, <2>2 DEF FamilyInv
<1>9. TriesInv' /\ WakeInv'
  BY <1>1, <1>2, <1>3, <1>4, <1>5, SameWorkKeeps DEF OrderlyInv, Over
<1> QED
  BY <1>6, <1>7, <1>8, <1>9 DEF OrderlyInv

\* The script ends.
LEMMA FinishDispatch ==
    ASSUME ResultInv, OrderlyInv, NEW p \in Proc, Finish(p)
    PROVE  OrderlyInv'
<1>1. Types
  BY TypesAreTypeOK DEF ResultInv
<1>2. /\ Types' /\ Becomes(p, proc'[p]) /\ proc[p].pc \in {"replay", "fail"} /\ proc'[p].pc = "idle"
      /\ Ends("success") \/ Ends("failure")
      /\ UNCHANGED <<completed, child, childKey, request, crashes, pushErrors>>
  <2>1. /\ Types' /\ Becomes(p, proc'[p]) /\ proc[p].pc \in {"replay", "fail"} /\ proc'[p] = Idle
        /\ UNCHANGED <<completed, child, childKey, request, crashes, pushErrors>>
    BY <1>1, FinishEffect
  <2>2. Ends("success") \/ Ends("failure")
    BY <1>1, FinishEffect
  <2> QED
    BY <2>1, <2>2, EmptyRecords
<1>3. SameWork
  BY <1>2, OtherThread
<1>4. row = "running" /\ InQueue /\ \A q \in Proc : q # p => ~Driving(q)
  <2>1. Driving(p)
    BY <1>2 DEF Driving
  <2> QED
    BY <1>1, <2>1, DriverFacts DEF OrderlyInv
<1>5. row' \in Ended /\ suspend' = 0 /\ until' = "null" /\ pending' = NoPending
  BY <1>2, <1>4 DEF Ends, Ended
<1>6. ~InQueue' /\ Over'
  BY <1>5 DEF InQueue, Over, Ended
<1>7. DriverInv'
  <2>1. \A q \in Proc : ~Driving(q)'
    BY <1>2, <1>4 DEF Driving, Becomes
  <2>2. row' # "queued" /\ row' # "running"
    BY <1>5 DEF Ended
  <2> QED
    BY <1>5, <1>6, <2>1, <2>2, EmptyRecords DEF DriverInv
<1>8. CountInv'
  <2>1. LinkIsOut' => LinkIsOut
    BY <1>2, <1>5, EmptyRecords DEF LinkIsOut
  <2>2. LinkIsOut' \/ (\E r \in Request : request'[r].pc = "write") => TasksDone'
    BY <1>2, <2>1, KeepsApproval DEF OrderlyInv
  <2> QED
    BY <1>5, <2>2, EmptyRecords DEF CountInv
<1>9. FamilyInv'
  <2>1. ASSUME NEW q \in Proc, proc'[q].pc = "report" PROVE proc'[q] = proc[q]
    BY <1>2, <2>1 DEF Becomes
  <2> QED
    BY <1>2, <1>6, <2>1 DEF OrderlyInv, FamilyInv
<1>10. TriesInv' /\ WakeInv'
  BY <1>1, <1>2, <1>3, <1>5, <1>6, EmptyRecords, SameWorkKeeps DEF OrderlyInv
<1> QED
  BY <1>7, <1>8, <1>9, <1>10 DEF OrderlyInv

\* The worker that drives is not concerned.
LEMMA KeepsDriver ==
    ASSUME DriverInv,
           \A q \in Proc : Driving(q) \/ Driving(q)' => proc'[q] = proc[q],
           UNCHANGED <<row, until, completed, pending, crashes, pushErrors>>
    PROVE  DriverInv'
<1>1. \A q \in Proc : Driving(q)' <=> Driving(q)
  BY DEF Driving
<1>2. InQueue' = InQueue /\ Waiting' = Waiting
  BY DEF InQueue, Waiting
<1>3. \A q \in Proc : proc[q].pc = "fail" => Driving(q)
  BY DEF Driving
<1> QED
  BY <1>1, <1>2, <1>3 DEF DriverInv

\* A worker dies.
LEMMA CrashDispatch ==
    ASSUME ResultInv, OrderlyInv, NEW p \in Proc, Crash(p), Orderly'
    PROVE  OrderlyInv'
<1>1. Types
  BY TypesAreTypeOK DEF ResultInv
<1>2. /\ Types' /\ Becomes(p, proc'[p]) /\ proc'[p].pc = "idle"
      /\ crashes' = crashes + 1
      /\ UNCHANGED <<row, suspend, until, completed, pending, child, childKey, request, pushErrors>>
  BY <1>1, CrashEffect, EmptyRecords
<1>3. crashes' # 0 /\ pushErrors = 0
  BY <1>1, <1>2 DEF Types, Orderly
<1>4. InQueue' = InQueue /\ Waiting' = Waiting
  BY <1>2 DEF InQueue, Waiting
<1>5. \A q \in Proc : proc'[q].pc # "idle" => proc'[q] = proc[q]
  BY <1>2 DEF Becomes
<1>6. DriverInv'
  <2>1. \A q \in Proc : Driving(q)' => Driving(q) /\ proc'[q] = proc[q]
    BY <1>5 DEF Driving
  <2> QED
    BY <1>2, <1>3, <1>4, <2>1 DEF OrderlyInv, DriverInv
<1>7. CountInv'
  BY <1>2, <1>4 DEF OrderlyInv, CountInv, LinkIsOut, TasksDone
<1>8. FamilyInv'
  <2>1. ASSUME NEW c \in Child, UnderWay(c)' PROVE UnderWay(c)
    BY <1>2, <1>5, <2>1 DEF UnderWay, Works
  <2>2. \A q \in Proc : proc'[q].pc = "report" => proc'[q] = proc[q]
    BY <1>5
  <2> QED
    BY <1>2, <1>4, <2>1, <2>2 DEF OrderlyInv, FamilyInv
<1>9. TriesInv'
  <2>1. \A k \in Key : Tries(k)' = Tries(k)
    BY <1>2, TriesSame
  <2>2. \A k \in Key : InTodo(k)' => InTodo(k)
    BY <1>5 DEF InTodo
  <2>3. crashes' + pushErrors' = crashes + pushErrors + 1
    BY <1>1, <1>2 DEF Types
  <2> QED
    BY <1>1, <2>1, <2>2, <2>3, MoreTries DEF OrderlyInv
<1>10. WakeInv'
  BY <1>3 DEF WakeInv
<1> QED
  BY <1>6, <1>7, <1>8, <1>9, <1>10 DEF OrderlyInv

\* A thread takes up a child that is under way, goes on with it, or leaves it
\* because the parent no longer waits.
LEMMA WorkerDispatch ==
    ASSUME ResultInv, OrderlyInv, NEW p \in Proc, NEW c \in Child,
           Becomes(p, proc'[p]), UnderWay(c), child[c] # "none", child'[c] # "none",
           proc[p].pc \in {"idle", "run", "read"}, Works(p) => proc[p].child = c,
           \/ proc'[p].pc = "idle" /\ pending.mode = "none"
           \/ /\ proc'[p].pc \in {"run", "read", "report"} /\ proc'[p].child = c
              /\ proc'[p].pc = "report" => proc'[p].ids = pending.ids /\ pending.mode # "none",
           \A d \in Child : d # c => child'[d] = child[d],
           UNCHANGED <<row, suspend, until, completed, pending, childKey, request, crashes,
                       pushErrors>>
    PROVE  OrderlyInv'
<1>1. Types
  BY TypesAreTypeOK DEF ResultInv
<1>2. InQueue' = InQueue /\ Waiting' = Waiting /\ Over' = Over
  BY DEF InQueue, Waiting, Over
<1>3. DriverInv'
  <2>1. \A q \in Proc : Driving(q) \/ Driving(q)' => proc'[q] = proc[q]
    BY DEF Driving, Becomes
  <2> QED
    BY <2>1, KeepsDriver DEF OrderlyInv
<1>4. CountInv'
  BY <1>2 DEF OrderlyInv, CountInv, LinkIsOut, TasksDone
<1>5. \A k \in Key : (InTodo(k)' <=> InTodo(k)) /\ Tries(k)' = Tries(k)
  <2>1. \A q \in Proc : proc'[q].pc = "push" \/ proc[q].pc = "push" => proc'[q] = proc[q]
    BY DEF Becomes
  <2>2. \A d \in Child : child'[d] = "none" <=> child[d] = "none"
    OBVIOUS
  <2> QED
    BY <2>1, <2>2, InTodoSame, TriesSame
<1>6. \A d \in Child : d # c => (UnderWay(d)' <=> UnderWay(d))
  <2> SUFFICES ASSUME NEW d \in Child, d # c PROVE UnderWay(d)' <=> UnderWay(d)
    OBVIOUS
  <2>1. UnderWay(d)' <=> \/ child'[d] \in {"queued", "canceled", "running"}
                         \/ \E q \in Proc : Works(q)' /\ proc'[q].child = d
    BY DEF UnderWay
  <2>2. \A q \in Proc : Works(q)' /\ proc'[q].child = d <=> Works(q) /\ proc[q].child = d
    BY DEF Works, Becomes
  <2> QED
    BY <2>1, <2>2 DEF UnderWay
<1>7. InQueue /\ pushErrors = 0 => pending.mode = "tasks" /\ pending.ids[childKey[c]] = c
  BY DEF OrderlyInv, FamilyInv
<1>8. pending.mode # "none" => ~Over
  <2>1. pending.mode # "none" => InQueue
    BY DEF OrderlyInv, DriverInv
  <2>2. InQueue /\ pushErrors > 0 => pending.mode = "none"
    BY DEF OrderlyInv, DriverInv, Driving
  <2> QED
    BY <2>1, <2>2 DEF Over
<1>9. \A q \in Proc : proc'[q].pc = "report" =>
         proc'[q].ids[childKey'[proc'[q].child]] = proc'[q].child
  <2> SUFFICES ASSUME NEW q \in Proc, proc'[q].pc = "report"
               PROVE  proc'[q].ids[childKey[proc'[q].child]] = proc'[q].child
    OBVIOUS
  <2>1. CASE q = p
    BY <1>1, <1>7, <1>8, <2>1 DEF Over, Types
  <2>2. CASE q # p
    BY <2>2 DEF Becomes, OrderlyInv, FamilyInv
  <2> QED
    BY <2>1, <2>2
<1>10. CASE proc'[p].pc = "idle"
  <2>1. Over
    BY <1>1, <1>7, <1>10 DEF Over, Types
  <2>2. FamilyInv'
    BY <1>2, <1>9, <2>1 DEF FamilyInv, Over
  <2>3. TriesInv'
    BY <1>1, <1>2, <1>5, <2>1, KeepsTries DEF OrderlyInv
  <2>4. WakeInv'
    BY <1>10 DEF WakeInv
  <2> QED
    BY <1>3, <1>4, <2>2, <2>3, <2>4 DEF OrderlyInv
<1>11. CASE proc'[p].pc # "idle"
  <2>1. UnderWay(c)'
    BY <1>11 DEF UnderWay, Works
  <2>2. SameWork
    BY <1>5, <1>6, <2>1 DEF SameWork
  <2>3. TriesInv' /\ WakeInv'
    BY <1>1, <1>2, <2>2, SameWorkKeeps DEF OrderlyInv
  <2>4. FamilyInv'
    <3>1. \A d \in Child : UnderWay(d)' => UnderWay(d)
      BY <1>6
    <3>2. ASSUME InQueue, pushErrors = 0, NEW q \in Proc, proc'[q].pc = "report"
          PROVE  proc'[q].ids = pending'.ids
      <4>1. CASE q = p
        BY <1>11, <3>2, <4>1
      <4>2. CASE q # p
        BY <3>2, <4>2 DEF Becomes, OrderlyInv, FamilyInv
      <4> QED
        BY <4>1, <4>2
    <3> QED
      BY <1>2, <1>9, <3>1, <3>2 DEF OrderlyInv, FamilyInv
  <2> QED
    BY <1>3, <1>4, <2>3, <2>4 DEF OrderlyInv
<1> QED
  BY <1>10, <1>11

\* A child is claimed, ends, or the ids are read for it.
LEMMA ChildDispatch ==
    ASSUME ResultInv, OrderlyInv, NEW p \in Proc,
           \/ \E c \in Child : PullChild(p, c)
           \/ \E result \in {"ok", "error"} : EndChild(p, result)
           \/ ReadIds(p)
    PROVE  OrderlyInv'
<1>1. Types
  BY TypesAreTypeOK DEF ResultInv
<1>2. ASSUME NEW c \in Child, PullChild(p, c) PROVE OrderlyInv'
  <2>1. /\ Becomes(p, proc'[p]) /\ proc[p].pc = "idle"
        /\ proc'[p].pc = "run" /\ proc'[p].child = c
        /\ child[c] \in {"queued", "canceled"} /\ child'[c] = "running"
        /\ \A d \in Child : d # c => child'[d] = child[d]
        /\ UNCHANGED <<row, suspend, until, completed, pending, childKey, request, crashes,
                       pushErrors>>
    BY <1>1, <1>2, PullChildEffect
  <2>2. UnderWay(c) /\ ~Works(p) /\ child[c] # "none" /\ child'[c] # "none"
    BY <2>1 DEF UnderWay, Works
  <2> QED
    BY <2>1, <2>2, WorkerDispatch
<1>3. ASSUME NEW result \in {"ok", "error"}, EndChild(p, result) PROVE OrderlyInv'
  <2>1. proc[p].pc = "run" /\ Works(p)
    BY <1>3 DEF EndChild, Works
  <2>2. proc[p].child \in Child /\ child[proc[p].child] = "running"
    BY <2>1 DEF ResultInv, OneWorker
  <2>3. PICK c \in Child : c = proc[p].child
    BY <2>2
  <2>4. /\ Becomes(p, proc'[p]) /\ child'[c] = result
        /\ \A d \in Child : d # c => child'[d] = child[d]
        /\ \/ proc'[p].pc = "idle" /\ pending.mode = "none"
           \/ /\ proc'[p].pc \in {"read", "report"} /\ proc'[p].child = c
              /\ proc'[p].pc = "report" => proc'[p].ids = pending.ids /\ pending.mode # "none"
        /\ UNCHANGED <<row, suspend, until, completed, pending, childKey, request, crashes,
                       pushErrors>>
    BY <1>1, <1>3, <2>2, <2>3, EndChildEffect, EmptyRecords
  <2>5. UnderWay(c) /\ child[c] # "none" /\ child'[c] # "none"
    BY <2>2, <2>3, <2>4 DEF UnderWay
  <2> QED
    BY <2>1, <2>3, <2>4, <2>5, WorkerDispatch
<1>4. ASSUME ReadIds(p) PROVE OrderlyInv'
  <2>1. proc[p].pc = "read" /\ Works(p)
    BY <1>4 DEF ReadIds, Works
  <2>2. proc[p].child \in Child /\ child[proc[p].child] \in {"ok", "error"}
    BY <1>1, <2>1, Fields DEF ResultInv, OneWorker, Types
  <2>3. PICK c \in Child : c = proc[p].child
    BY <2>2
  <2>4. /\ Becomes(p, proc'[p])
        /\ \/ proc'[p].pc = "idle" /\ pending.mode = "none"
           \/ /\ proc'[p].pc = "report" /\ proc'[p].child = c
              /\ proc'[p].ids = pending.ids /\ pending.mode # "none"
        /\ UNCHANGED <<row, suspend, until, completed, pending, child, childKey, request, crashes,
                       pushErrors>>
    BY <1>1, <1>4, <2>3, ReadIdsEffect, EmptyRecords
  <2>5. UnderWay(c) /\ child[c] # "none" /\ child'[c] # "none"
    BY <2>1, <2>2, <2>3, <2>4 DEF UnderWay
  <2> QED
    BY <2>1, <2>3, <2>4, <2>5, WorkerDispatch
<1> QED
  BY <1>2, <1>3, <1>4

\* The jobs that are under way after a report are the others.
LEMMA ReportLeaves ==
    ASSUME ResultInv, NEW p \in Proc, proc[p].pc = "report",
           Becomes(p, proc'[p]), proc'[p].pc = "idle", child' = child, childKey' = childKey
    PROVE  /\ proc[p].child \in Child
           /\ \A d \in Child : UnderWay(d)' <=> UnderWay(d) /\ d # proc[p].child
           /\ \A k \in Key : (InTodo(k)' <=> InTodo(k)) /\ Tries(k)' = Tries(k)
           /\ UnderWay(proc[p].child)
           /\ \A q \in Proc : Driving(q) \/ Driving(q)' => proc'[q] = proc[q]
           /\ \A q \in Proc : proc'[q].pc = "report" => q # p /\ proc'[q] = proc[q]
<1>1. Types /\ Works(p)
  BY TypesAreTypeOK DEF ResultInv, Works
<1>2. /\ proc[p].child \in Child /\ child[proc[p].child] \in {"ok", "error"}
      /\ \A q \in Proc : Works(q) /\ proc[q].child = proc[p].child => q = p
  BY <1>1, Fields DEF ResultInv, OneWorker, Types
<1>3. ASSUME NEW d \in Child PROVE UnderWay(d)' <=> UnderWay(d) /\ d # proc[p].child
  <2>1. UnderWay(d)' <=> \/ child[d] \in {"queued", "canceled", "running"}
                         \/ \E q \in Proc : Works(q)' /\ proc'[q].child = d
    BY DEF UnderWay
  <2>2. \A q \in Proc : Works(q)' /\ proc'[q].child = d <=> Works(q) /\ q # p /\ proc[q].child = d
    BY DEF Works, Becomes
  <2> QED
    BY <1>1, <1>2, <2>1, <2>2 DEF UnderWay
<1>4. \A k \in Key : (InTodo(k)' <=> InTodo(k)) /\ Tries(k)' = Tries(k)
  <2>1. \A q \in Proc : proc'[q].pc = "push" \/ proc[q].pc = "push" => proc'[q] = proc[q]
    BY DEF Becomes
  <2> QED
    BY <2>1, InTodoSame, TriesSame
<1>5. \A q \in Proc : Driving(q) \/ Driving(q)' => proc'[q] = proc[q]
  BY DEF Driving, Becomes
<1> QED
  BY <1>1, <1>2, <1>3, <1>4, <1>5 DEF UnderWay, Becomes

\* A report for a parent that no longer waits.
LEMMA LateReportDispatch ==
    ASSUME ResultInv, OrderlyInv, NEW p \in Proc, Report(p), Over
    PROVE  OrderlyInv'
<1>1. Types
  BY TypesAreTypeOK DEF ResultInv
<1>2. /\ Types' /\ Becomes(p, proc'[p]) /\ proc[p].pc = "report" /\ proc'[p].pc = "idle"
      /\ UNCHANGED <<child, childKey, request, crashes, pushErrors>>
  BY <1>1, ReportEffect, EmptyRecords
<1>3. /\ \A k \in Key : (InTodo(k)' <=> InTodo(k)) /\ Tries(k)' = Tries(k)
      /\ \A q \in Proc : Driving(q) \/ Driving(q)' => proc'[q] = proc[q]
      /\ \A q \in Proc : proc'[q].pc = "report" => q # p /\ proc'[q] = proc[q]
      /\ proc[p].child \in Child
  BY <1>2, ReportLeaves
<1>4. pending.mode = "none" /\ until = "null"
  BY DEF Over, OrderlyInv, DriverInv, Driving
<1>5. childKey[proc[p].child] \in Key /\ proc[p].ids[childKey[proc[p].child]] = proc[p].child
  BY <1>1, <1>2, <1>3 DEF Types, OrderlyInv, FamilyInv
<1>6. /\ UNCHANGED <<row, until>> /\ pending' \in {pending, NoPending}
      /\ \A k \in Key : completed'[k] # completed[k] => Kind[k[1]] = "tasks" /\ completed'[k] # "none"
  <2>1. CASE ~InQueue
    <3>1. UNCHANGED <<row, until, completed, pending>>
      BY <1>1, <2>1, ReportEffect
    <3> QED
      BY <3>1
  <2>2. CASE InQueue
    <3>1. Merges(proc[p])
      BY <1>1, <1>5, <2>2, ReportEffect
    <3>2. proc[p].result # "none"
      BY <1>1, Fields DEF Types
    <3>3. \A k \in Key : proc[p].ids[k] = proc[p].child => Kind[k[1]] = "tasks"
      BY <1>2, ReportedKey
    <3> QED
      BY <3>1, <3>2, <3>3 DEF Merges
  <2> QED
    BY <2>1, <2>2
<1>7. pending'.mode = "none" /\ InQueue' = InQueue /\ Over'
  BY <1>2, <1>4, <1>6, EmptyRecords DEF InQueue, Over
<1>8. DriverInv'
  <2>1. \A q \in Proc : Driving(q)' <=> Driving(q)
    BY <1>3 DEF Driving
  <2>2. \A q \in Proc : Driving(q) => /\ row = "running" /\ proc[q].pc = "fail"
                                      /\ \A r \in Proc : Driving(r) => r = q
    BY DEF Over, OrderlyInv, DriverInv, Driving, InQueue
  <2>3. pushErrors > 0 /\ InQueue => \E q \in Proc : proc[q].pc = "fail" /\ Driving(q)
    BY DEF OrderlyInv, DriverInv, Driving
  <2>4. crashes = 0 /\ row = "running" => \E q \in Proc : Driving(q)
    BY <1>4 DEF OrderlyInv, DriverInv
  <2> QED
    BY <1>2, <1>3, <1>4, <1>6, <1>7, <2>1, <2>2, <2>3, <2>4 DEF DriverInv
<1>9. CountInv'
  <2>1. LinkIsOut' => LinkIsOut
    BY <1>6, <1>7 DEF LinkIsOut
  <2>2. LinkIsOut' \/ (\E r \in Request : request'[r].pc = "write") => TasksDone'
    BY <1>2, <1>6, <2>1, KeepsApproval DEF OrderlyInv
  <2> QED
    BY <1>4, <1>6, <1>7, <2>2 DEF CountInv
<1>10. FamilyInv'
  BY <1>2, <1>3, <1>7 DEF OrderlyInv, FamilyInv, Over
<1>11. TriesInv'
  BY <1>1, <1>2, <1>3, <1>7, KeepsTries DEF OrderlyInv
<1>12. WakeInv'
  BY <1>7 DEF WakeInv
<1> QED
  BY <1>8, <1>9, <1>10, <1>11, <1>12 DEF OrderlyInv

\* A report for the dispatch the parent waits for: its step is one of those that
\* are counted, and is counted no longer.
LEMMA ReportDispatch ==
    ASSUME ResultInv, OrderlyInv, NEW p \in Proc, Report(p), ~Over
    PROVE  OrderlyInv'
<1>1. Types /\ pushErrors = 0 /\ InQueue
  BY TypesAreTypeOK DEF ResultInv, Over, Types
<1>2. /\ Types' /\ Becomes(p, proc'[p]) /\ proc[p].pc = "report" /\ proc'[p].pc = "idle"
      /\ UNCHANGED <<child, childKey, request, crashes, pushErrors>>
  BY <1>1, ReportEffect, EmptyRecords
<1>3. /\ \A k \in Key : (InTodo(k)' <=> InTodo(k)) /\ Tries(k)' = Tries(k)
      /\ \A q \in Proc : Driving(q) \/ Driving(q)' => proc'[q] = proc[q]
      /\ \A q \in Proc : proc'[q].pc = "report" => q # p /\ proc'[q] = proc[q]
      /\ proc[p].child \in Child /\ UnderWay(proc[p].child)
  BY <1>2, ReportLeaves
<1>4. PICK c \in Child : c = proc[p].child
  BY <1>3
<1>5. \A d \in Child : UnderWay(d)' <=> UnderWay(d) /\ d # c
  BY <1>2, <1>4, ReportLeaves
<1>6. /\ pending.mode = "tasks" /\ until = "future"
      /\ childKey[c] \in Waiting /\ pending.ids[childKey[c]] = c
      /\ proc[p].ids = pending.ids
  BY <1>1, <1>2, <1>3, <1>4 DEF OrderlyInv, FamilyInv
<1>7. PICK k \in Key : k = childKey[c]
  BY <1>1 DEF Types
<1>8. /\ completed'[k] # "none" /\ \A l \in Key : l # k => completed'[l] = completed[l]
      /\ suspend' = Decrement
      /\ pending' = (IF Decrement = 0 THEN NoPending ELSE pending)
      /\ UNCHANGED <<row, until>>
  <2>1. Merges(proc[p])
    BY <1>1, <1>4, <1>6, <1>7, ReportEffect
  <2>2. PICK l \in Key :
          /\ proc[p].ids[l] = proc[p].child
          /\ completed'[l] = proc[p].result /\ \A m \in Key : m # l => completed'[m] = completed[m]
          /\ suspend' = Decrement
          /\ pending' = (IF Decrement = 0 THEN NoPending ELSE pending)
          /\ UNCHANGED <<row, until>>
    BY <2>1 DEF Merges
  <2>3. l = k
    BY <1>2, <1>4, <1>7, <2>2, ReportedKey
  <2>4. proc[p].result # "none"
    BY <1>1, Fields DEF Types
  <2> QED
    BY <2>2, <2>3, <2>4
<1>9. /\ IsFiniteSet(Waiting) /\ Cardinality(Waiting) \in Nat /\ Waiting \subseteq Key
      /\ pending.keys \subseteq Key
  BY <1>1, Fields, KeysAreFinite DEF Types, Waiting
<1>10. suspend = Cardinality(Waiting)
  BY <1>6 DEF OrderlyInv, CountInv
<1>11. /\ Cardinality(Waiting \ {k}) = Cardinality(Waiting) - 1
       /\ Cardinality(Waiting \ {k}) \in Nat
       /\ Cardinality(Waiting \ {k}) = 0 <=> Waiting \ {k} = {}
  <2>1. Cardinality(Waiting \ {k}) = Cardinality(Waiting) - 1 /\ IsFiniteSet(Waiting \ {k})
    BY <1>6, <1>7, <1>9, FS_RemoveElement
  <2> QED
    BY <2>1, FS_CardinalityType, FS_EmptySet
<1>12. Decrement = Cardinality(Waiting \ {k})
  <2>1. suspend \in Nat
    BY <1>1 DEF Types
  <2> QED
    BY <1>9, <1>10, <1>11, <2>1 DEF Decrement
<1>13. {l \in pending.keys : completed'[l] = "none"} = Waiting \ {k}
  BY <1>8, <1>9 DEF Waiting
<1>14. /\ Waiting \ {k} = {} => pending' = NoPending
       /\ Waiting \ {k} # {} => pending' = pending /\ Waiting' = Waiting \ {k}
  BY <1>8, <1>11, <1>12, <1>13 DEF Waiting
<1>15. InQueue' /\ Over' = Over
  BY <1>1, <1>2, <1>8 DEF InQueue, Over
<1>16. \A d \in Child : UnderWay(d)' => childKey[d] \in Waiting \ {k} /\ pending.ids[childKey[d]] = d
  BY <1>1, <1>5, <1>6, <1>7 DEF OrderlyInv, FamilyInv
<1>17. \A q \in Proc : Driving(q) => /\ proc[q].pc = "push" /\ proc[q].todo \subseteq Waiting \ {k}
                                     /\ Waiting \ {k} # {}
  <2> SUFFICES ASSUME NEW q \in Proc, Driving(q)
               PROVE  /\ proc[q].pc = "push" /\ proc[q].todo \subseteq Waiting \ {k}
                      /\ Waiting \ {k} # {}
    OBVIOUS
  <2>1. /\ proc[q].pc = "push" /\ proc[q].ids = pending.ids /\ proc[q].todo \subseteq Waiting
    BY <1>6 DEF OrderlyInv, DriverInv
  <2>2. child[c] # "none"
    BY <1>1, <1>2, <1>4, Fields DEF ResultInv, OneWorker, Works, Types
  <2>3. k \notin proc[q].todo /\ proc[q].todo # {}
    BY <1>6, <1>7, <2>1, <2>2 DEF ResultInv, IdsAreNew
  <2> QED
    BY <2>1, <2>3
<1>18. DriverInv'
  <2>1. \A q \in Proc : Driving(q)' <=> Driving(q)
    BY <1>3 DEF Driving
  <2>2. \A q \in Proc : Driving(q) =>
           /\ proc'[q].pc = "push" /\ until' = "future" /\ pending'.mode = "tasks" /\ row' = "running"
           /\ proc'[q].ids = pending'.ids /\ proc'[q].todo \subseteq Waiting'
    BY <1>3, <1>6, <1>8, <1>14, <1>17 DEF OrderlyInv, DriverInv
  <2>3. \A q, r \in Proc : Driving(q) /\ Driving(r) => q = r
    BY DEF OrderlyInv, DriverInv
  <2>4. row' # "queued" /\ until' # "null"
    BY <1>6, <1>8 DEF OrderlyInv, DriverInv
  <2> QED
    BY <1>1, <1>2, <1>15, <2>1, <2>2, <2>3, <2>4 DEF DriverInv
<1>19. CountInv'
  <2>1. LinkIsOut' => LinkIsOut
    <3>1. Kind[k[1]] = "tasks"
      BY <1>6, <1>7 DEF Waiting, ResultInv, WaitsForStage
    <3> QED
      BY <1>6, <1>8, <1>14, <3>1, EmptyRecords DEF LinkIsOut
  <2>2. \A l \in Key : completed[l] # "none" => completed'[l] # "none"
    BY <1>8
  <2>3. LinkIsOut' \/ (\E r \in Request : request'[r].pc = "write") => TasksDone'
    BY <1>2, <2>1, <2>2, KeepsApproval DEF OrderlyInv
  <2>4. CASE Waiting \ {k} = {}
    <3>1. pending'.mode = "none" /\ suspend' = 0
      BY <1>8, <1>11, <1>12, <1>14, <2>4, EmptyRecords
    <3> QED
      BY <2>3, <3>1 DEF CountInv
  <2>5. CASE Waiting \ {k} # {}
    <3>1. pending'.mode = "tasks" /\ Waiting' # {} /\ suspend' = Cardinality(Waiting')
      BY <1>6, <1>8, <1>12, <1>14, <2>5
    <3> QED
      BY <2>3, <3>1 DEF CountInv
  <2> QED
    BY <2>4, <2>5
<1>20. FamilyInv'
  <2>1. ASSUME NEW d \in Child, UnderWay(d)'
        PROVE  /\ pending'.mode = "tasks" /\ until' = "future"
               /\ childKey'[d] \in Waiting' /\ pending'.ids[childKey'[d]] = d
    <3>1. childKey[d] \in Waiting \ {k} /\ pending.ids[childKey[d]] = d
      BY <1>16, <2>1
    <3>2. pending' = pending /\ Waiting' = Waiting \ {k}
      BY <1>14, <3>1
    <3> QED
      BY <1>2, <1>6, <1>8, <3>1, <3>2
  <2>2. ASSUME NEW q \in Proc, proc'[q].pc = "report"
        PROVE  /\ proc'[q].ids = pending'.ids
               /\ proc'[q].ids[childKey'[proc'[q].child]] = proc'[q].child
    <3>1. q # p /\ proc'[q] = proc[q] /\ proc[q].pc = "report"
      BY <1>3, <2>2
    <3>2. proc[q].ids = pending.ids /\ proc[q].ids[childKey[proc[q].child]] = proc[q].child
      BY <1>1, <3>1 DEF OrderlyInv, FamilyInv
    <3>3. PICK d \in Child : d = proc[q].child
      BY <3>1 DEF ResultInv, OneWorker, Works
    <3>4. UnderWay(d) /\ d # c
      BY <1>2, <1>4, <3>1, <3>3 DEF ResultInv, OneWorker, Works, UnderWay
    <3>5. childKey[d] \in Waiting \ {k}
      BY <1>5, <1>16, <3>4
    <3>6. pending' = pending
      BY <1>14, <3>5
    <3> QED
      BY <1>2, <3>1, <3>2, <3>6
  <2> QED
    BY <2>1, <2>2 DEF FamilyInv
<1>21. TriesInv'
  <2>1. \A l \in Key : Settled(l) => Settled(l)'
    BY <1>2, <1>3, <1>5, <1>7, <1>8 DEF Settled
  <2> QED
    BY <1>1, <1>2, <1>3, <1>15, <2>1, KeepsTries DEF OrderlyInv
<1>22. WakeInv'
  <2> SUFFICES ASSUME crashes = 0, pending'.mode = "tasks", NEW l \in Waiting'
               PROVE  InTodo(l)' \/ \E d \in Child : UnderWay(d)' /\ pending'.ids[l] = d
    BY <1>2 DEF WakeInv
  <2>1. pending' = pending /\ l \in Waiting \ {k}
    BY <1>14, EmptyRecords
  <2>2. InTodo(l) \/ \E d \in Child : UnderWay(d) /\ pending.ids[l] = d
    BY <1>6, <2>1 DEF OrderlyInv, WakeInv
  <2>3. pending.ids[l] # c
    <3> SUFFICES ASSUME pending.ids[l] = c PROVE FALSE
      OBVIOUS
    <3>1. Has(c, l) /\ Has(c, k)
      BY <1>6, <1>7 DEF Has
    <3> QED
      BY <1>9, <2>1, <3>1 DEF ResultInv, OneKey
  <2> QED
    BY <1>3, <1>5, <1>9, <2>1, <2>2, <2>3
<1> QED
  BY <1>18, <1>19, <1>20, <1>21, <1>22 DEF OrderlyInv

\* While an approval may be written the parent waits for no task.
LEMMA NoTasksWaiting ==
    ASSUME ResultInv, CountInv, TasksDone
    PROVE  pending.mode # "tasks"
<1> SUFFICES ASSUME pending.mode = "tasks" PROVE FALSE
  OBVIOUS
<1>1. PICK k \in Waiting : TRUE
  BY DEF CountInv
<1>2. k \in Key /\ completed[k] = "none" /\ Kind[k[1]] = "tasks"
  <2>1. pending.keys \subseteq Key
    BY TypesAreTypeOK, Fields DEF ResultInv, Types
  <2> QED
    BY <2>1 DEF Waiting, ResultInv, WaitsForStage
<1> QED
  BY <1>2 DEF TasksDone

\* The servers, the monitor and the clock.
LEMMA AsideDispatch ==
    ASSUME ResultInv, OrderlyInv,
           \/ \E r \in Request : WriteApproval(r) \/ \E approved \in BOOLEAN : ReadApproval(r, approved)
           \/ RestartParent \/ (\E c \in Child : RestartChild(c)) \/ Deadline
           \/ UNCHANGED vars
    PROVE  OrderlyInv'
<1>1. Types
  BY TypesAreTypeOK DEF ResultInv
<1>2. /\ UNCHANGED <<completed, pending, childKey, proc, crashes, pushErrors>>
      /\ \A c \in Child : child'[c] # child[c] => child[c] = "running" /\ child'[c] = "queued"
      /\ InQueue' = InQueue
  <2>1. CASE \E r \in Request : WriteApproval(r) \/ \E approved \in BOOLEAN : ReadApproval(r, approved)
    BY <1>1, <2>1, WriteApprovalEffect, ReadApprovalEffect DEF InQueue
  <2>2. CASE RestartParent
    BY <1>1, <2>2, RestartParentEffect DEF InQueue
  <2>3. CASE Deadline
    BY <1>1, <2>3, DeadlineEffect DEF InQueue
  <2>4. CASE \E c \in Child : RestartChild(c)
    BY <1>1, <2>4, RestartChildEffect DEF InQueue
  <2>5. CASE UNCHANGED vars
    BY <2>5 DEF vars, parent, checkpoint, children, faults, InQueue
  <2> QED
    BY <2>1, <2>2, <2>3, <2>4, <2>5
<1>3. SameWork
  <2>1. \A q \in Proc : (Works(q)' <=> Works(q)) /\ (Works(q) => proc'[q].child = proc[q].child)
    BY <1>2 DEF Works
  <2> QED
    BY <1>2, <2>1, UnderWaySame, InTodoSame, TriesSame DEF SameWork
<1>4. TriesInv' /\ WakeInv'
  BY <1>1, <1>2, <1>3, SameWorkKeeps DEF OrderlyInv, Over
<1>5. Waiting' = Waiting /\ (LinkIsOut' <=> LinkIsOut) /\ (TasksDone' <=> TasksDone)
      /\ \A q \in Proc : (Driving(q)' <=> Driving(q))
  BY <1>2 DEF Waiting, LinkIsOut, TasksDone, Driving
<1>6. ASSUME NEW r \in Request, WriteApproval(r) \/ \E approved \in BOOLEAN : ReadApproval(r, approved)
      PROVE  DriverInv' /\ CountInv' /\ FamilyInv'
  <2>1. UNCHANGED <<row, until>>
    BY <1>1, <1>6, WriteApprovalEffect, ReadApprovalEffect
  <2>2. TasksDone
    BY <1>1, <1>6, WriteApprovalEffect, ReadApprovalEffect DEF OrderlyInv, CountInv
  <2>3. pending.mode # "tasks"
    BY <2>2, NoTasksWaiting DEF OrderlyInv
  <2>4. DriverInv'
    BY <1>2, <2>1, KeepsDriver DEF OrderlyInv
  <2>5. suspend = 0 => suspend' = 0
    BY <1>6 DEF WriteApproval, ReadApproval, Decrement, parent
  <2>6. CountInv'
    BY <1>2, <1>5, <2>1, <2>2, <2>3, <2>5 DEF OrderlyInv, CountInv
  <2>7. FamilyInv'
    BY <1>2, <1>3, <1>5, <2>1 DEF OrderlyInv, FamilyInv, SameWork
  <2> QED
    BY <2>4, <2>6, <2>7
<1>7. ASSUME RestartParent PROVE DriverInv' /\ CountInv' /\ FamilyInv'
  <2>1. /\ until = "null" /\ row = "running" /\ row' = "queued" /\ \A q \in Proc : ~Driving(q)
        /\ UNCHANGED <<suspend, until, request>>
    BY <1>1, <1>7, RestartParentEffect
  <2>2. InQueue /\ \A q \in Proc : proc[q].pc # "fail"
    BY <2>1 DEF InQueue, Driving
  <2>3. ~(pushErrors > 0)
    BY <2>2 DEF OrderlyInv, DriverInv
  <2>4. DriverInv'
    BY <1>2, <1>5, <2>1, <2>2, <2>3 DEF DriverInv
  <2>5. CountInv'
    BY <1>2, <1>5, <2>1 DEF OrderlyInv, CountInv
  <2>6. FamilyInv'
    BY <1>2, <1>3, <1>5, <2>1 DEF OrderlyInv, FamilyInv, SameWork
  <2> QED
    BY <2>4, <2>5, <2>6
<1>8. ASSUME NEW c \in Child, RestartChild(c) PROVE DriverInv' /\ CountInv' /\ FamilyInv'
  <2>1. UNCHANGED <<row, suspend, until, request>>
    BY <1>1, <1>8, RestartChildEffect
  <2>2. DriverInv'
    BY <1>2, <2>1, KeepsDriver DEF OrderlyInv
  <2>3. CountInv'
    BY <1>2, <1>5, <2>1 DEF OrderlyInv, CountInv
  <2>4. FamilyInv'
    BY <1>2, <1>3, <1>5, <2>1 DEF OrderlyInv, FamilyInv, SameWork
  <2> QED
    BY <2>2, <2>3, <2>4
<1>9. ASSUME Deadline PROVE DriverInv' /\ CountInv' /\ FamilyInv'
  <2>1. /\ until = "future" /\ until' = "past"
        /\ pending.mode \in {"approval", "sleep"} \/ Quiet
        /\ UNCHANGED <<row, suspend, request>>
    BY <1>1, <1>9, DeadlineEffect
  <2>2. InQueue /\ row = "running"
    BY <2>1 DEF OrderlyInv, DriverInv, InQueue
  <2>3. \A q \in Proc : ~Driving(q)
    BY <2>1 DEF OrderlyInv, DriverInv, Quiet, Driving
  <2>4. ~(pushErrors > 0)
    BY <2>2, <2>3 DEF OrderlyInv, DriverInv, Driving
  <2>5. DriverInv'
    BY <1>2, <1>5, <2>1, <2>2, <2>3, <2>4 DEF DriverInv
  <2>6. CountInv'
    BY <1>2, <1>5, <2>1 DEF OrderlyInv, CountInv
  <2>7. \A d \in Child : ~UnderWay(d)
    <3>1. CASE Quiet
      BY <3>1 DEF Quiet, UnderWay, Works
    <3>2. CASE pending.mode \in {"approval", "sleep"}
      BY <1>1, <2>2, <2>4, <3>2, NoneUnderWay DEF OrderlyInv, Types
    <3> QED
      BY <2>1, <3>1, <3>2
  <2>8. FamilyInv'
    BY <1>2, <1>3, <2>7 DEF OrderlyInv, FamilyInv, SameWork
  <2> QED
    BY <2>5, <2>6, <2>8
<1>10. ASSUME UNCHANGED vars PROVE DriverInv' /\ CountInv' /\ FamilyInv'
  <2>1. UNCHANGED <<row, suspend, until, request>>
    BY <1>10 DEF vars, parent, approvals
  <2>2. DriverInv'
    BY <1>2, <2>1, KeepsDriver DEF OrderlyInv
  <2>3. CountInv'
    BY <1>2, <1>5, <2>1 DEF OrderlyInv, CountInv
  <2>4. FamilyInv'
    BY <1>2, <1>3, <1>5, <2>1 DEF OrderlyInv, FamilyInv, SameWork
  <2> QED
    BY <2>2, <2>3, <2>4
<1> QED
  BY <1>4, <1>6, <1>7, <1>8, <1>9, <1>10 DEF OrderlyInv

\* Nothing has been dispatched at first.
LEMMA InitDispatch ==
    ASSUME Init
    PROVE  OrderlyInv
<1>1. /\ \A p \in Proc : proc[p].pc = "idle"
      /\ \A c \in Child : child[c] = "none"
      /\ pending = NoPending /\ row = "queued" /\ until = "null"
      /\ \A k \in Key : completed[k] = "none"
      /\ \A r \in Request : request[r].pc = "idle"
      /\ crashes = 0 /\ pushErrors = 0
  BY EmptyRecords DEF Init, Nothing
<1>2. DriverInv
  BY <1>1 DEF DriverInv, Driving, InQueue
<1>3. CountInv
  BY <1>1, EmptyRecords DEF CountInv, LinkIsOut
<1>4. FamilyInv
  BY <1>1 DEF FamilyInv, UnderWay, Works
<1>5. TriesInv
  <2>1. \A k \in Key : Tries(k) = {} /\ ~InTodo(k)
    BY <1>1 DEF Tries, InTodo
  <2>2. Cardinality({}) = 0
    BY FS_EmptySet
  <2> QED
    BY <1>1, <2>1, <2>2 DEF TriesInv
<1>6. WakeInv
  BY <1>1, EmptyRecords DEF WakeInv
<1> QED
  BY <1>2, <1>3, <1>4, <1>5, <1>6 DEF OrderlyInv

\* A run that is orderly has been so.
LEMMA OrderlyBefore ==
    ASSUME ResultInv, [Next]_vars, Orderly'
    PROVE  Orderly
<1>1. Types
  BY TypesAreTypeOK DEF ResultInv
<1>2. (crashes' = crashes \/ crashes' = crashes + 1)
      /\ (pushErrors' = pushErrors \/ pushErrors' = pushErrors + 1)
  <2>1. ASSUME NEW p \in Proc, ThreadStep(p) PROVE UNCHANGED <<crashes, pushErrors>>
    BY <2>1 DEF ThreadStep, PullParent, Load, Dispatch, PushChild, Wait, Inline, Finish,
                PullChild, EndChild, ReadIds, Report, faults
  <2>2. ASSUME NEW p \in Proc, PushFails(p) PROVE crashes' = crashes /\ pushErrors' = pushErrors + 1
    BY <2>2 DEF PushFails
  <2>3. ASSUME NEW p \in Proc, Crash(p) PROVE crashes' = crashes + 1 /\ pushErrors' = pushErrors
    BY <2>3 DEF Crash
  <2>4. CASE ~\E p \in Proc : ThreadStep(p) \/ PushFails(p) \/ Crash(p)
    BY <2>4 DEF Next, WriteApproval, ReadApproval, RestartParent, RestartChild, Deadline, faults, vars
  <2> QED
    BY <2>1, <2>2, <2>3, <2>4
<1> QED
  BY <1>1, <1>2 DEF Types, Orderly

\* Every step keeps the invariant.
LEMMA DispatchStep ==
    ASSUME NoTasksAfterApproval
    PROVE  ResultInv /\ DispatchInv /\ [Next]_vars => DispatchInv'
<1> SUFFICES ASSUME ResultInv, DispatchInv, [Next]_vars, Orderly' PROVE OrderlyInv'
  BY DEF DispatchInv
<1>1. OrderlyInv
  BY OrderlyBefore DEF DispatchInv
<1>2. ASSUME NEW p \in Proc, ThreadStep(p) \/ PushFails(p) \/ Crash(p) PROVE OrderlyInv'
  <2>1. CASE Report(p)
    BY <1>1, <2>1, LateReportDispatch, ReportDispatch
  <2>2. CASE ~Report(p)
    BY <1>1, <1>2, <2>2, PullParentDispatch, LoadDispatch, InlineDispatch, DispatchDispatch,
       PushChildDispatch, PushFailsDispatch, WaitDispatch, FinishDispatch, CrashDispatch,
       ChildDispatch DEF ThreadStep
  <2> QED
    BY <2>1, <2>2
<1>3. CASE ~\E p \in Proc : ThreadStep(p) \/ PushFails(p) \/ Crash(p)
  BY <1>1, <1>3, AsideDispatch DEF Next
<1> QED
  BY <1>2, <1>3

\* The invariant of the row, the checkpoint and the children of a dispatch.
THEOREM DispatchInvariant ==
    ASSUME NoTasksAfterApproval
    PROVE  Spec => []DispatchInv
<1>1. Init => DispatchInv
  BY InitDispatch DEF DispatchInv
<1>2. ResultInv /\ DispatchInv /\ [Next]_vars => DispatchInv'
  BY DispatchStep
<1> QED
  BY <1>1, <1>2, ResultInvariant, PTL DEF Spec

\* The parent waits for exactly the children whose results are not in its
\* checkpoint, for every script in which no tasks follow an approval.
THEOREM ChildrenAreCounted ==
    ASSUME NoTasksAfterApproval
    PROVE  Spec => []CountsChildren
<1>1. DispatchInv => CountsChildren
  BY DEF DispatchInv, OrderlyInv, CountInv, Waiting, CountsChildren
<1> QED
  BY <1>1, DispatchInvariant, PTL

\* One worker at a time runs the script of the parent: no child wakes it while the
\* worker that dispatches still pushes the others.
THEOREM DrivenByOne ==
    ASSUME NoTasksAfterApproval
    PROVE  Spec => []OneDriver
<1>1. DispatchInv => OneDriver
  BY DEF DispatchInv, OrderlyInv, DriverInv, OneDriver
<1> QED
  BY <1>1, DispatchInvariant, PTL

\* Replaying the script repeats no step: each dispatch of a step beyond the first
\* is the doing of a worker that died or of a push that failed.
THEOREM StepsAreNotRepeated ==
    ASSUME NoTasksAfterApproval
    PROVE  Spec => []StepsOnce
<1>1. ResultInv /\ DispatchInv => StepsOnce
  <2> SUFFICES ASSUME ResultInv, DispatchInv, Orderly, NEW k \in Key
               PROVE  Cardinality(Tries(k)) <= 1 + crashes + pushErrors
    BY DEF StepsOnce, Tries
  <2>1. Cardinality(Tries(k)) + (IF InTodo(k) THEN 1 ELSE 0)
          <= crashes + pushErrors + (IF Settled(k) \/ Over THEN 1 ELSE 0)
    BY DEF DispatchInv, OrderlyInv, TriesInv
  <2>2. Cardinality(Tries(k)) \in Nat
    BY ChildSets DEF Tries
  <2>3. crashes \in Nat /\ pushErrors \in Nat
    BY TypesAreTypeOK DEF ResultInv, Types
  <2> QED
    BY <2>1, <2>2, <2>3
<1> QED
  BY <1>1, ResultInvariant, DispatchInvariant, PTL

\* No wake-up is lost: without a crash, a parent for whom nothing is under way can
\* be pulled, unless it waits for an approval or a clock.
THEOREM WakeUpsArrive ==
    ASSUME NoTasksAfterApproval
    PROVE  Spec => []NoLostWakeup
<1>1. ResultInv /\ DispatchInv => NoLostWakeup
  <2> SUFFICES ASSUME ResultInv, DispatchInv, crashes = 0, row = "running", Quiet,
                      pending.mode \notin {"approval", "sleep"}
               PROVE  Resumable
    BY DEF NoLostWakeup
  <2>1. OrderlyInv
    BY DEF DispatchInv, Orderly
  <2>2. /\ \A p \in Proc : ~Driving(p)
        /\ \A k \in Key : ~InTodo(k)
        /\ \A c \in Child : ~UnderWay(c)
    BY DEF Quiet, Driving, InTodo, UnderWay, Works
  <2>3. until # "null"
    BY <2>1, <2>2 DEF OrderlyInv, DriverInv
  <2>4. pending \in PendingSteps /\ pending.keys \subseteq Key
    BY TypesAreTypeOK, Fields DEF ResultInv, Types
  <2>5. pending.mode # "tasks"
    BY <2>1, <2>2, <2>4 DEF OrderlyInv, CountInv, WakeInv, Waiting
  <2>6. pending.mode = "none"
    BY <2>4, <2>5, Fields
  <2> QED
    BY <2>1, <2>3, <2>6 DEF OrderlyInv, CountInv, Resumable
<1> QED
  BY <1>1, ResultInvariant, DispatchInvariant, PTL
=============================================================================
