------------------------- MODULE SqliteStoreProofs -------------------------
(***************************************************************************)
(* Invariants of SqliteStore, for any callers, handles, requests, windows, *)
(* names and bounds.                                                       *)
(*                                                                         *)
(* GraphConsistent is not inductive: a commit replaces the file by the     *)
(* transaction's view of it.  StoreInv adds what makes it so: at most one  *)
(* transaction is open (BEGIN IMMEDIATE takes the writer lock), every view *)
(* is consistent, and the view of the open transaction has evolved from    *)
(* the file as it still is.                                                *)
(***************************************************************************)
EXTENDS SqliteStore, StoreCallsProofs

OneWriter == \A c1, c2 \in Callers : Writing(c1) /\ Writing(c2) => c1 = c2

ViewsConsistent == \A c \in Callers : Consistent(work[c])

ViewsEvolve == \A c \in Callers : Writing(c) => Evolves(db, work[c], now)

StoreInv ==
    /\ TypeOK
    /\ Consistent(db)
    /\ OneWriter
    /\ ViewsConsistent
    /\ ViewsEvolve

\* An idle caller has a well-typed empty list of items.
LEMMA NoRequestItems == <<>> \in Seq(ItemsOf(NoRequest.op))
  OBVIOUS

\* The answers that carry no values are answers.
LEMMA FixedAnswers == {NoAnswer, Done, Failed, Invalid, NotFound, Nothing} \subseteq Answers
  BY DEF Answers, NoAnswer, Done, Failed, Invalid, NotFound, Nothing, Answer

\* Requests take their items from their own operation.
LEMMA RequestsWellFormed ==
  ASSUME NEW r \in Requests
  PROVE  r.op \in Operations /\ r.items \in Seq(ItemsOf(r.op))
  BY StoreAssumption DEF WellFormed

\* The invariant holds at the start.
LEMMA InitStoreInv == Init => StoreInv
  <1> SUFFICES ASSUME Init
               PROVE  StoreInv
    OBVIOUS
  <1>1. Consistent(db) /\ now \in Nat
    BY StoreAssumption DEF Init
  <1>2. \A c \in Callers : ~Writing(c) /\ Consistent(work[c])
    BY EmptyConsistent DEF Init, Writing
  <1>3. TypeOK
    BY <1>1, <1>2, ConsistentIsDatabase, NoRequestItems, FixedAnswers
       DEF Init, TypeOK, Phases
  <1> QED
    BY <1>1, <1>2, <1>3 DEF StoreInv, OneWriter, ViewsConsistent, ViewsEvolve

----------------------------------------------------------------------------
(* What the ends and the steps of a call keep. *)

\* Ending a call, whatever it answers; the file may change at that moment if
\* no other transaction is open.
LEMMA FinishKeeps ==
  ASSUME StoreInv, NEW c \in Callers, NEW answer \in Answers, Finish(c, answer),
         UNCHANGED <<now, calls>>, swept' \in [Handles -> BOOLEAN],
         Consistent(db'), db' = db \/ \A x \in Callers : Writing(x) => x = c
  PROVE  StoreInv'
  <1>1. /\ pc' = [pc EXCEPT ![c] = "idle"]
        /\ req' = [req EXCEPT ![c] = NoRequest]
        /\ todo' = [todo EXCEPT ![c] = <<>>]
        /\ work' = [work EXCEPT ![c] = EmptyDatabase]
        /\ reply' = [reply EXCEPT ![c] = answer]
    BY DEF Finish, Goto
  <1>2. Consistent(EmptyDatabase) /\ EmptyDatabase \in Databases
    BY EmptyConsistent, ConsistentIsDatabase
  <1>3. \A x \in Callers : Writing(x)' => Writing(x) /\ x # c /\ db' = db
    BY <1>1 DEF Writing, StoreInv, TypeOK
  <1>4. TypeOK'
    BY <1>1, <1>2, NoRequestItems, ConsistentIsDatabase DEF StoreInv, TypeOK, Phases
  <1>5. ViewsConsistent'
    BY <1>1, <1>2 DEF StoreInv, TypeOK, ViewsConsistent
  <1>6. ViewsEvolve' /\ OneWriter'
    BY <1>1, <1>3 DEF StoreInv, TypeOK, ViewsEvolve, OneWriter
  <1> QED
    BY <1>4, <1>5, <1>6 DEF StoreInv

\* A step that opens no transaction and touches no view, and that changes the
\* file or the clock only when no transaction is open.
LEMMA QuietKeeps ==
  ASSUME StoreInv, TypeOK', Consistent(db'), UNCHANGED work,
         \A x \in Callers : Writing(x)' => Writing(x) /\ db' = db /\ now' = now
  PROVE  StoreInv'
  <1>1. ViewsConsistent' /\ OneWriter'
    BY DEF StoreInv, ViewsConsistent, OneWriter
  <1>2. ViewsEvolve'
    BY DEF StoreInv, ViewsEvolve
  <1> QED
    BY <1>1, <1>2 DEF StoreInv

\* Starting a call, or refusing its arguments, keeps the invariant.
LEMMA CallKeeps ==
  ASSUME StoreInv, NEW c \in Callers, NEW r \in Requests, Call(c, r) \/ RefuseUpdate(c, r)
  PROVE  StoreInv'
  <1>1. CASE Call(c, r)
    <2> DEFINE phase == IF r.op = "sweep" THEN "abandon" ELSE "sweep"
               items == IF r.op = "sweep" THEN <<>> ELSE r.items
    <2>0. /\ phase \in Phases /\ phase # "exec"
          /\ items \in Seq(ItemsOf(r.op))
          /\ HandleOf[c] \in Handles
      <3>1. r.items \in Seq(ItemsOf(r.op))
        BY RequestsWellFormed
      <3>a. <<>> \in Seq(ItemsOf(r.op))
        OBVIOUS
      <3>2. items \in Seq(ItemsOf(r.op))
        BY <3>1, <3>a, Zenon
      <3>3. HandleOf[c] \in Handles
        BY StoreAssumption
      <3> QED
        BY <3>2, <3>3 DEF Phases
    <2>1. /\ pc' = [pc EXCEPT ![c] = phase]
          /\ req' = [req EXCEPT ![c] = r]
          /\ todo' = [todo EXCEPT ![c] = items]
          /\ reply' = [reply EXCEPT ![c] = NoAnswer]
          /\ swept' \in [Handles -> BOOLEAN] /\ calls' \in Nat
          /\ UNCHANGED <<db, now, work>>
      BY <1>1, <2>0 DEF Call, Goto, StoreInv, TypeOK
    <2> HIDE DEF phase, items
    <2>2. TypeOK'
      BY <2>0, <2>1, FixedAnswers DEF StoreInv, TypeOK
    <2>3. \A x \in Callers : Writing(x)' => Writing(x)
      BY <2>0, <2>1 DEF Writing, StoreInv, TypeOK
    <2> QED
      BY <2>1, <2>2, <2>3, QuietKeeps DEF StoreInv
  <1>2. CASE RefuseUpdate(c, r)
    <2>1. UNCHANGED <<db, now, pc, req, todo, work, swept>>
      BY <1>2 DEF RefuseUpdate
    <2>2. TypeOK'
      BY <1>2, <2>1, FixedAnswers DEF RefuseUpdate, StoreInv, TypeOK
    <2> QED
      BY <2>1, <2>2, QuietKeeps DEF StoreInv, Writing
  <1> QED
    BY <1>1, <1>2

\* A call moves to another phase outside its transaction.
LEMMA GotoKeeps ==
  ASSUME StoreInv, NEW c \in Callers, NEW phase \in Phases \ {"exec"}, pc[c] # "idle",
         Goto(c, phase), UNCHANGED <<now, req, todo, work, reply, calls>>,
         swept' \in [Handles -> BOOLEAN], Consistent(db'), db' = db \/ LockFree
  PROVE  StoreInv'
  <1>1. TypeOK'
    BY ConsistentIsDatabase DEF StoreInv, TypeOK, Goto
  <1>2. \A x \in Callers : Writing(x)' => Writing(x) /\ db' = db
    BY DEF Writing, LockFree, Goto, StoreInv, TypeOK
  <1> QED
    BY <1>1, <1>2, QuietKeeps

\* The once-per-handle guard of the sweep keeps the invariant.
LEMMA SweepExpiredOnceKeeps ==
  ASSUME StoreInv, NEW c \in Callers, SweepExpiredOnce(c)
  PROVE  StoreInv'
  <1>1. swept' \in [Handles -> BOOLEAN]
    BY StoreAssumption DEF SweepExpiredOnce, StoreInv, TypeOK
  <1> QED
    BY <1>1, GotoKeeps DEF SweepExpiredOnce, Phases, StoreInv

\* The sweep's first transaction keeps the invariant.
LEMMA AbandonIdleTasksKeeps ==
  ASSUME StoreInv, NEW c \in Callers, AbandonIdleTasks(c)
  PROVE  StoreInv'
  <1>0. Consistent(db) /\ now \in Nat /\ AbandonDays \in Nat
    BY StoreAssumption DEF StoreInv, TypeOK
  <1>1. Consistent(db') /\ (db' = db \/ LockFree)
    <2>1. CASE AbandonDays = 0
      BY <1>0, <2>1 DEF AbandonIdleTasks
    <2>2. CASE AbandonDays # 0
      <3>1. db' = AbandonIdle(db, AbandonDays, now) /\ LockFree
        BY <1>0, <2>2 DEF AbandonIdleTasks
      <3> QED
        BY <1>0, <3>1, AbandonIdleSound DEF Sound
    <2> QED
      BY <2>1, <2>2
  <1> QED
    BY <1>1, GotoKeeps DEF AbandonIdleTasks, Phases, StoreInv, TypeOK

\* The sweep's second transaction keeps the invariant.
LEMMA DeleteFinishedTasksKeeps ==
  ASSUME StoreInv, NEW c \in Callers, DeleteFinishedTasks(c)
  PROVE  StoreInv'
  <1>0. Consistent(db) /\ RetentionDays \in Nat
    BY StoreAssumption DEF StoreInv
  <1>1. Consistent(db') /\ (db' = db \/ LockFree)
    <2>1. CASE RetentionDays = 0
      BY <1>0, <2>1 DEF DeleteFinishedTasks
    <2>2. CASE RetentionDays # 0
      <3>1. db' = Purge(db, RetentionDays, now) /\ LockFree
        BY <1>0, <2>2 DEF DeleteFinishedTasks
      <3> QED
        BY <1>0, <3>1, PurgeSound DEF Sound
    <2> QED
      BY <2>1, <2>2
  <1>2. CASE req[c].op # "sweep"
    BY <1>1, <1>2, GotoKeeps DEF DeleteFinishedTasks, Phases, StoreInv, TypeOK
  <1>3. CASE req[c].op = "sweep"
    <2>1. PICK answer \in {Done, Failed} : Finish(c, answer)
      BY <1>3 DEF DeleteFinishedTasks
    <2>2. UNCHANGED <<now, calls>> /\ answer \in Answers /\ swept' \in [Handles -> BOOLEAN]
      BY FixedAnswers DEF DeleteFinishedTasks, StoreInv, TypeOK
    <2> QED
      BY <1>1, <2>1, <2>2, FinishKeeps DEF LockFree
  <1> QED
    BY <1>2, <1>3

\* A failed sweep keeps the invariant.
LEMMA SweepFailsKeeps ==
  ASSUME StoreInv, NEW c \in Callers, SweepFails(c)
  PROVE  StoreInv'
  <1>1. CASE req[c].op # "sweep"
    BY <1>1, GotoKeeps DEF SweepFails, Phases, StoreInv, TypeOK
  <1>2. CASE req[c].op = "sweep"
    BY <1>2, FixedAnswers, FinishKeeps DEF SweepFails, StoreInv, TypeOK
  <1> QED
    BY <1>1, <1>2

\* BEGIN IMMEDIATE keeps the invariant: it needs the lock to be free.
LEMMA BeginImmediateKeeps ==
  ASSUME StoreInv, NEW c \in Callers, BeginImmediate(c)
  PROVE  StoreInv'
  <1>1. /\ LockFree /\ pc[c] = "begin"
        /\ pc' = [pc EXCEPT ![c] = "exec"]
        /\ work' = [work EXCEPT ![c] = db]
        /\ reply' = [reply EXCEPT ![c] = Done]
        /\ UNCHANGED <<db, now, req, todo, swept, calls>>
    BY DEF BeginImmediate, Goto
  <1>2. TypeOK'
    BY <1>1, FixedAnswers, ConsistentIsDatabase DEF StoreInv, TypeOK, Phases
  <1>3. \A x \in Callers : Writing(x)' => x = c
    BY <1>1 DEF StoreInv, TypeOK, LockFree, Writing
  <1>4. ViewsConsistent'
    BY <1>1 DEF StoreInv, TypeOK, ViewsConsistent
  <1>5. ViewsEvolve'
    BY <1>1, <1>3, EvolvesRefl, ConsistentIsDatabase DEF StoreInv, TypeOK, ViewsEvolve
  <1> QED
    BY <1>1, <1>2, <1>3, <1>4, <1>5 DEF StoreInv, OneWriter

\* A failed transaction keeps the invariant.
LEMMA TransactionFailsKeeps ==
  ASSUME StoreInv, NEW c \in Callers, TransactionFails(c)
  PROVE  StoreInv'
  BY FixedAnswers, FinishKeeps DEF TransactionFails, StoreInv, TypeOK

\* A dropped call keeps the invariant.
LEMMA CancelKeeps ==
  ASSUME StoreInv, NEW c \in Callers, Cancel(c)
  PROVE  StoreInv'
  BY FixedAnswers, FinishKeeps DEF Cancel, StoreInv, TypeOK

\* The vacuum after a deletion keeps the invariant.
LEMMA VacuumKeeps ==
  ASSUME StoreInv, NEW c \in Callers, Vacuum(c)
  PROVE  StoreInv'
  BY FixedAnswers, FinishKeeps DEF Vacuum, StoreInv, TypeOK

\* A commit keeps the invariant: what it publishes grew from the graph it
\* replaces, because no other writer came between.
LEMMA CommitKeeps ==
  ASSUME StoreInv, NEW c \in Callers, Commit(c)
  PROVE  StoreInv'
  <1>1. /\ Writing(c) /\ db' = work[c] /\ UNCHANGED <<now, swept, calls>>
        /\ \A x \in Callers : Writing(x) => x = c
    BY DEF Commit, StoreInv, OneWriter
  <1>2. Consistent(db') /\ swept' \in [Handles -> BOOLEAN] /\ reply[c] \in Answers
    BY <1>1 DEF StoreInv, ViewsConsistent, TypeOK
  <1>3. ASSUME NEW answer \in {reply[c], NoAnswer}, Finish(c, answer)
        PROVE  StoreInv'
    <2>1. answer \in Answers
      BY <1>2, FixedAnswers
    <2> QED
      BY <1>1, <1>2, <1>3, <2>1, FinishKeeps
  <1>4. CASE /\ Goto(c, "vacuum")
             /\ work' = [work EXCEPT ![c] = EmptyDatabase]
             /\ UNCHANGED <<req, todo, reply>>
    <2>1. /\ pc' = [pc EXCEPT ![c] = "vacuum"] /\ pc[c] = "exec"
          /\ work' = [work EXCEPT ![c] = EmptyDatabase]
          /\ UNCHANGED <<now, req, todo, swept, reply, calls>>
      BY <1>1, <1>4 DEF Goto, Writing
    <2>2. TypeOK'
      BY <1>2, <2>1, EmptyConsistent, ConsistentIsDatabase DEF StoreInv, TypeOK, Phases
    <2>3. \A x \in Callers : ~Writing(x)'
      BY <1>1, <2>1 DEF StoreInv, TypeOK, Writing
    <2>4. ViewsConsistent'
      BY <2>1, EmptyConsistent DEF StoreInv, TypeOK, ViewsConsistent
    <2> QED
      BY <1>2, <2>2, <2>3, <2>4 DEF StoreInv, OneWriter, ViewsEvolve
  <1> QED
    BY <1>3, <1>4 DEF Commit

\* The death of a process keeps the invariant.
LEMMA RestartKeeps ==
  ASSUME StoreInv, NEW h \in Handles, Restart(h)
  PROVE  StoreInv'
  <1>1. /\ pc' \in [Callers -> Phases] /\ work' \in [Callers -> Databases]
        /\ todo' = [x \in Callers |-> todo'[x]]
        /\ reply' \in [Callers -> Answers] /\ swept' \in [Handles -> BOOLEAN]
        /\ UNCHANGED <<db, now, calls>>
    BY FixedAnswers, EmptyConsistent, ConsistentIsDatabase DEF Restart, StoreInv, TypeOK, Phases
  <1>2. \A x \in Callers :
          \/ /\ pc'[x] = pc[x] /\ req'[x] = req[x] /\ todo'[x] = todo[x] /\ work'[x] = work[x]
          \/ /\ pc'[x] = "idle" /\ req'[x] = NoRequest /\ todo'[x] = <<>>
             /\ work'[x] = EmptyDatabase
    BY DEF Restart
  <1>3. TypeOK'
    <2>1. req' \in [Callers -> Requests \cup {NoRequest}]
      BY DEF Restart, StoreInv, TypeOK
    <2>2. \A x \in Callers : pc'[x] # "idle" => req'[x] \in Requests
      BY <1>2 DEF StoreInv, TypeOK
    <2>3. \A x \in Callers : todo'[x] \in Seq(ItemsOf(req'[x].op))
      BY <1>2, NoRequestItems DEF StoreInv, TypeOK
    <2> QED
      BY <1>1, <2>1, <2>2, <2>3 DEF StoreInv, TypeOK
  <1>4. \A x \in Callers : Writing(x)' => Writing(x) /\ work'[x] = work[x]
    BY <1>2 DEF Writing
  <1>5. ViewsConsistent'
    BY <1>2, EmptyConsistent DEF StoreInv, ViewsConsistent
  <1>6. ViewsEvolve' /\ OneWriter'
    BY <1>1, <1>4 DEF StoreInv, ViewsEvolve, OneWriter
  <1> QED
    BY <1>1, <1>3, <1>5, <1>6 DEF StoreInv

\* Time passes only between transactions, so no view outlives its clock.
LEMMA TickKeeps ==
  ASSUME StoreInv, Tick
  PROVE  StoreInv'
  <1>1. TypeOK'
    BY DEF Tick, StoreInv, TypeOK
  <1>2. \A x \in Callers : ~Writing(x)'
    BY DEF Tick, LockFree, Writing
  <1> QED
    BY <1>1, <1>2, QuietKeeps DEF Tick, StoreInv

----------------------------------------------------------------------------
(* The items of a transaction. *)

\* The item at the head of a call is an item of its operation, and the rest
\* of the list is a list of them.
LEMMA HeadItem ==
  ASSUME StoreInv, NEW c \in Callers, NEW op, Executing(c, op)
  PROVE  /\ Item(c) \in ItemsOf(op)
         /\ Tail(todo[c]) \in Seq(ItemsOf(op))
         /\ Writing(c) /\ req[c].op = op
         /\ Consistent(work[c]) /\ work[c] \in Databases /\ now \in Nat
  <1>1. todo[c] \in Seq(ItemsOf(op)) /\ todo[c] # <<>> /\ Writing(c) /\ req[c].op = op
    BY DEF StoreInv, TypeOK, Executing
  <1>2. Consistent(work[c]) /\ now \in Nat
    BY DEF StoreInv, TypeOK, ViewsConsistent
  <1> QED
    BY <1>1, <1>2, ConsistentIsDatabase DEF Item

\* An item that succeeds evolves its transaction's view, and nothing else.
LEMMA ProceedKeeps ==
  ASSUME StoreInv, NEW c \in Callers, NEW op, Executing(c, op),
         NEW d, Sound(work[c], d, now), NEW answer \in Answers, Proceed(c, d, answer)
  PROVE  StoreInv'
  <1>1. /\ work' = [work EXCEPT ![c] = d]
        /\ todo' = [todo EXCEPT ![c] = Tail(@)]
        /\ reply' = [reply EXCEPT ![c] = answer]
        /\ UNCHANGED <<db, now, pc, req, swept, calls>>
    BY DEF Proceed
  <1>2. Consistent(d) /\ d \in Databases
    BY ConsistentIsDatabase DEF Sound
  <1>3. Tail(todo[c]) \in Seq(ItemsOf(req[c].op)) /\ Writing(c)
    BY HeadItem
  <1>4. TypeOK'
    BY <1>1, <1>2, <1>3 DEF StoreInv, TypeOK
  <1>5. ViewsConsistent' /\ OneWriter'
    BY <1>1, <1>2 DEF StoreInv, TypeOK, ViewsConsistent, OneWriter, Writing
  <1>6. Sound(db, d, now)
    <2>1. Sound(db, work[c], now)
      BY <1>3 DEF StoreInv, ViewsConsistent, ViewsEvolve, Sound
    <2> QED
      BY <2>1, SoundTrans DEF StoreInv
  <1>7. ViewsEvolve'
    BY <1>1, <1>6 DEF StoreInv, TypeOK, ViewsEvolve, Writing, Sound
  <1> QED
    BY <1>1, <1>4, <1>5, <1>7 DEF StoreInv

\* A refusal half way keeps the invariant.
LEMMA RollBackKeeps ==
  ASSUME StoreInv, NEW c \in Callers, NEW answer \in Answers, RollBack(c, answer)
  PROVE  StoreInv'
  BY FinishKeeps DEF RollBack, StoreInv, TypeOK

\* The answer of a successful claim is an answer.
LEMMA ClaimedAnswer ==
  ASSUME NEW n \in Names
  PROVE  Answer("claimed", {n}) \in Answers
  BY DEF Answer, Answers

\* Executing one item, whatever the operation, keeps the invariant.
LEMMA ExecuteItemKeeps ==
  ASSUME StoreInv, NEW c \in Callers, ExecuteItem(c)
  PROVE  StoreInv'
  <1> DEFINE i == Item(c)
             d == work[c]
  <1>1. CASE CreateEntities(c)
    <2>1. Executing(c, "create_entities") /\ Proceed(c, CreateEntity(d, i, now), Done)
      BY <1>1 DEF CreateEntities
    <2>2. Sound(d, CreateEntity(d, i, now), now)
      BY <2>1, HeadItem, CreateEntitySound
    <2> QED
      BY <2>1, <2>2, ProceedKeeps, FixedAnswers
  <1>2. CASE AddObservations(c)
    <2> DEFINE n == Norm[i.name]
    <2>1. Executing(c, "add_observations")
      BY <1>2 DEF AddObservations
    <2>2. n \in Names /\ i.contents \in Seq(Contents)
      BY <2>1, HeadItem, OpsAssumption DEF ItemsOf
    <2>3. CASE CanObserve(d, n, i.contents)
      <3>1. Proceed(c, Observe(d, n, i.contents, i.limit, now), Done)
        BY <1>2, <2>3 DEF AddObservations
      <3>2. Sound(d, Observe(d, n, i.contents, i.limit, now), now)
        BY <2>1, <2>2, <2>3, HeadItem, ObserveSound
      <3> QED
        BY <2>1, <3>1, <3>2, ProceedKeeps, FixedAnswers
    <2>4. CASE ~CanObserve(d, n, i.contents)
      BY <1>2, <2>4, RollBackKeeps, FixedAnswers DEF AddObservations
    <2> QED
      BY <2>3, <2>4
  <1>3. CASE CreateRelations(c)
    <2>1. Executing(c, "create_relations")
      BY <1>3 DEF CreateRelations
    <2>2. i \in RelationItems
      BY <2>1, HeadItem DEF ItemsOf
    <2>3. CASE CanRelate(d, i)
      <3>1. Proceed(c, CreateRelation(d, i), Done)
        BY <1>3, <2>3 DEF CreateRelations
      <3>2. Sound(d, CreateRelation(d, i), now)
        BY <2>1, <2>2, <2>3, HeadItem, CreateRelationSound
      <3> QED
        BY <2>1, <3>1, <3>2, ProceedKeeps, FixedAnswers
    <2>4. CASE ~CanRelate(d, i)
      BY <1>3, <2>4, RollBackKeeps, FixedAnswers DEF CreateRelations
    <2> QED
      BY <2>3, <2>4
  <1>4. CASE DeleteNamedEntities(c)
    <2>1. Executing(c, "delete_entities") /\ Proceed(c, DeleteEntity(d, i), Done)
      BY <1>4 DEF DeleteNamedEntities
    <2>2. Sound(d, DeleteEntity(d, i), now)
      BY <2>1, HeadItem, DeleteEntitySound
    <2> QED
      BY <2>1, <2>2, ProceedKeeps, FixedAnswers
  <1>5. CASE DeleteMatchingObservations(c)
    <2>1. Executing(c, "delete_observations") /\ Proceed(c, DeleteObservations(d, i, now), Done)
      BY <1>5 DEF DeleteMatchingObservations
    <2>2. Sound(d, DeleteObservations(d, i, now), now)
      BY <2>1, HeadItem, DeleteObservationsSound
    <2> QED
      BY <2>1, <2>2, ProceedKeeps, FixedAnswers
  <1>6. CASE DeleteObservationWithId(c)
    <2>1. /\ Executing(c, "delete_observation_by_id")
          /\ Proceed(c, DeleteObservationById(d, i, now), Done)
      BY <1>6 DEF DeleteObservationWithId
    <2>2. Sound(d, DeleteObservationById(d, i, now), now)
      BY <2>1, HeadItem, DeleteObservationByIdSound
    <2> QED
      BY <2>1, <2>2, ProceedKeeps, FixedAnswers
  <1>7. CASE UpdateObservationWithId(c)
    <2>1. /\ Executing(c, "update_observation_by_id")
          /\ Proceed(c, UpdateObservationById(d, i, now), Done)
      BY <1>7 DEF UpdateObservationWithId
    <2>2. Sound(d, UpdateObservationById(d, i, now), now)
      BY <2>1, HeadItem, UpdateObservationByIdSound
    <2> QED
      BY <2>1, <2>2, ProceedKeeps, FixedAnswers
  <1>8. CASE UpdateMatchingObservations(c)
    <2>1. /\ Executing(c, "update_observation")
          /\ Proceed(c, UpdateObservation(d, i, now), Done)
      BY <1>8 DEF UpdateMatchingObservations
    <2>2. Sound(d, UpdateObservation(d, i, now), now)
      BY <2>1, HeadItem, UpdateObservationSound
    <2> QED
      BY <2>1, <2>2, ProceedKeeps, FixedAnswers
  <1>9. CASE DeleteRelations(c)
    <2>1. Executing(c, "delete_relations") /\ Proceed(c, DeleteRelation(d, i), Done)
      BY <1>9 DEF DeleteRelations
    <2>2. i \in RelationItems
      BY <2>1, HeadItem DEF ItemsOf
    <2>3. Sound(d, DeleteRelation(d, i), now)
      BY <2>1, <2>2, HeadItem, DeleteRelationSound
    <2> QED
      BY <2>1, <2>3, ProceedKeeps, FixedAnswers
  <1>10. CASE UpsertTruth(c)
    <2>1. Executing(c, "truth_upsert")
      BY <1>10 DEF UpsertTruth
    <2>2. CASE Norm[i.name] \in Live(d)
      <3>1. Proceed(c, TruthUpsert(d, i, now), Done)
        BY <1>10, <2>2 DEF UpsertTruth
      <3>2. Sound(d, TruthUpsert(d, i, now), now)
        BY <2>1, <2>2, HeadItem, TruthUpsertSound
      <3> QED
        BY <2>1, <3>1, <3>2, ProceedKeeps, FixedAnswers
    <2>3. CASE Norm[i.name] \notin Live(d)
      BY <1>10, <2>3, RollBackKeeps, FixedAnswers DEF UpsertTruth
    <2> QED
      BY <2>2, <2>3
  <1>11. CASE DeleteTruth(c)
    <2>1. Executing(c, "truth_delete") /\ Proceed(c, TruthDelete(d, i, now), Done)
      BY <1>11 DEF DeleteTruth
    <2>2. Sound(d, TruthDelete(d, i, now), now)
      BY <2>1, HeadItem, TruthDeleteSound
    <2> QED
      BY <2>1, <2>2, ProceedKeeps, FixedAnswers
  <1>12. CASE Update(c)
    <2> DEFINE n == Norm[i.name]
               status == IF i.status = Null THEN StatusOf(d, n) ELSE i.status
    <2>1. Executing(c, "update")
      BY <1>12 DEF Update
    <2>2. n \in Names /\ i.status \in Values \cup {Null}
      BY <2>1, HeadItem, OpsAssumption DEF ItemsOf
    <2>3. CASE n \in Tasks(d) /\ Proceed(c, UpdateTask(d, i, now), Answer("status", {status} \ {""}))
      <3>1. n \in Live(d)
        BY <2>3, ColumnsAssumption DEF Tasks, Live
      <3>2. Sound(d, UpdateTask(d, i, now), now)
        BY <2>1, <3>1, HeadItem, UpdateTaskSound
      <3>3. status \in Values \cup {""}
        <4>1. d.truth[n]["status"] \in Values \cup {Null}
          BY <2>1, <2>2, HeadItem, Columns, ColumnsAssumption
        <4>2. StatusOf(d, n) \in Values \cup {""}
          BY <4>1 DEF StatusOf
        <4> HIDE DEF n
        <4> QED
          BY <2>2, <4>2
      <3> HIDE DEF status
      <3>4. Answer("status", {status} \ {""}) \in Answers
        BY <3>3 DEF Answer, Answers
      <3> QED
        BY <2>1, <2>3, <3>2, <3>4, ProceedKeeps
    <2>4. CASE RollBack(c, NotFound) \/ RollBack(c, Invalid)
      BY <2>4, RollBackKeeps, FixedAnswers
    <2> QED
      BY <1>12, <2>3, <2>4 DEF Update
  <1>13. CASE Dispatch(c)
    <2> DEFINE targets == IF i.name = Null THEN Least(ReadyTasks(d)) ELSE {Norm[i.name]}
    <2>1. Executing(c, "dispatch")
      BY <1>13 DEF Dispatch
    <2>2. i \in ItemsOf("dispatch") /\ targets \subseteq Names
      BY <2>1, HeadItem, OpsAssumption DEF ItemsOf, Least, ReadyTasks, Tasks
    <2>3. CASE RollBack(c, Nothing)
      BY <2>3, RollBackKeeps, FixedAnswers
    <2>4. ASSUME NEW n \in targets, d.truth[n]["status"] = Ready,
                 Proceed(c, DispatchTo(d, n, i, now), Answer("claimed", {n}))
          PROVE  StoreInv'
      <3>1. n \in Live(d)
        BY <2>1, <2>2, <2>4, HeadItem, ReadyIsLive
      <3>2. Sound(d, DispatchTo(d, n, i, now), now)
        BY <2>1, <2>2, <3>1, HeadItem, DispatchToSound
      <3> QED
        BY <2>1, <2>2, <2>4, <3>2, ProceedKeeps, ClaimedAnswer
    <2> QED
      BY <1>13, <2>3, <2>4 DEF Dispatch
  <1>14. CASE ClaimNext(c)
    <2>1. Executing(c, "claim_next")
      BY <1>14 DEF ClaimNext
    <2>2. CASE Proceed(c, d, Nothing)
      <3>1. Sound(d, d, now)
        BY <2>1, HeadItem, SoundRefl
      <3> QED
        BY <2>1, <2>2, <3>1, ProceedKeeps, FixedAnswers
    <2>3. ASSUME NEW n \in Least(ReadyTasks(d)),
                 Proceed(c, Claim(d, n, i.agent, now), Answer("claimed", {n}))
          PROVE  StoreInv'
      <3>1. n \in Names /\ d.truth[n]["status"] = Ready
        BY DEF Least, ReadyTasks, Tasks
      <3>2. n \in Live(d) /\ i.agent \in Agents
        BY <2>1, <3>1, HeadItem, ReadyIsLive DEF ItemsOf
      <3>3. Sound(d, Claim(d, n, i.agent, now), now)
        BY <2>1, <3>2, HeadItem, ClaimSound
      <3> QED
        BY <2>1, <2>3, <3>1, <3>3, ProceedKeeps, ClaimedAnswer
    <2> QED
      BY <1>14, <2>2, <2>3 DEF ClaimNext
  <1>15. CASE PurgeFinished(c)
    <2> DEFINE e == IF i.apply THEN Purge(d, i.days, now) ELSE d
    <2>1. Executing(c, "purge") /\ Proceed(c, e, Done)
      BY <1>15 DEF PurgeFinished
    <2>2. Sound(d, e, now)
      BY <2>1, HeadItem, PurgeSound, SoundRefl
    <2> QED
      BY <2>1, <2>2, ProceedKeeps, FixedAnswers
  <1>16. CASE ResetGraph(c)
    <2>1. Executing(c, "reset") /\ Proceed(c, Reset(d), Done)
      BY <1>16 DEF ResetGraph
    <2>2. Sound(d, Reset(d), now)
      BY <2>1, HeadItem, ResetSound
    <2> QED
      BY <2>1, <2>2, ProceedKeeps, FixedAnswers
  <1> QED
    BY <1>1, <1>2, <1>3, <1>4, <1>5, <1>6, <1>7, <1>8, <1>9, <1>10, <1>11, <1>12, <1>13,
       <1>14, <1>15, <1>16 DEF ExecuteItem

----------------------------------------------------------------------------
(* The invariant, and the theorems it gives. *)

\* Every step of the store keeps the invariant.
LEMMA NextStoreInv == StoreInv /\ [Next]_vars => StoreInv'
  <1> SUFFICES ASSUME StoreInv, [Next]_vars
               PROVE  StoreInv'
    OBVIOUS
  <1>1. ASSUME NEW c \in Callers, Step(c)
        PROVE  StoreInv'
    <2>1. ASSUME NEW r \in Requests, Call(c, r) \/ RefuseUpdate(c, r)
          PROVE  StoreInv'
      BY <2>1, CallKeeps
    <2>2. CASE SweepExpiredOnce(c) \/ AbandonIdleTasks(c) \/ DeleteFinishedTasks(c) \/ SweepFails(c)
      BY <2>2, SweepExpiredOnceKeeps, AbandonIdleTasksKeeps, DeleteFinishedTasksKeeps,
         SweepFailsKeeps
    <2>3. CASE BeginImmediate(c) \/ TransactionFails(c) \/ Commit(c) \/ Vacuum(c) \/ Cancel(c)
      BY <2>3, BeginImmediateKeeps, TransactionFailsKeeps, CommitKeeps, VacuumKeeps, CancelKeeps
    <2>4. CASE ExecuteItem(c)
      BY <2>4, ExecuteItemKeeps
    <2> QED
      BY <1>1, <2>1, <2>2, <2>3, <2>4 DEF Step
  <1>2. ASSUME NEW h \in Handles, Restart(h)
        PROVE  StoreInv'
    BY <1>2, RestartKeeps
  <1>3. CASE Tick
    BY <1>3, TickKeeps
  <1>4. CASE UNCHANGED vars
    BY <1>4 DEF vars, StoreInv, TypeOK, OneWriter, ViewsConsistent, ViewsEvolve, Writing
  <1> QED
    BY <1>1, <1>2, <1>3, <1>4 DEF Next

\* The store keeps its inductive invariant: one open transaction at most, and
\* every view of the file, the file's own contents included, consistent.
THEOREM StoreInvariant == Spec => []StoreInv
  BY InitStoreInv, NextStoreInv, PTL DEF Spec

\* Every variable of the store has its type, whatever the requests.
THEOREM TypeCorrect == Spec => []TypeOK
  <1>1. StoreInv => TypeOK
    BY DEF StoreInv
  <1> QED
    BY <1>1, StoreInvariant, PTL

\* Referential integrity, unique observation ids and exact search indexes hold
\* of the committed graph in every reachable state.
THEOREM GraphAlwaysConsistent == Spec => []GraphConsistent
  <1>1. StoreInv => GraphConsistent
    BY DEF StoreInv, Consistent, GraphConsistent
  <1> QED
    BY <1>1, StoreInvariant, PTL

\* What a step does to the file evolves it.
LEMMA NextEvolves ==
  ASSUME StoreInv, [Next]_vars
  PROVE  db' = db \/ Evolves(db, db', now)
  <1>1. ASSUME NEW c \in Callers, Step(c)
        PROVE  db' = db \/ Evolves(db, db', now)
    <2>0. Consistent(db) /\ now \in Nat /\ AbandonDays \in Nat /\ RetentionDays \in Nat
      BY StoreAssumption DEF StoreInv, TypeOK
    <2>1. ASSUME NEW r \in Requests, Call(c, r) \/ RefuseUpdate(c, r)
          PROVE  db' = db
      BY <2>1 DEF Call, RefuseUpdate
    <2>2. CASE \/ SweepExpiredOnce(c) \/ SweepFails(c) \/ BeginImmediate(c)
               \/ TransactionFails(c) \/ Vacuum(c) \/ Cancel(c)
      BY <2>2 DEF SweepExpiredOnce, SweepFails, BeginImmediate, TransactionFails, Vacuum, Cancel
    <2>3. CASE AbandonIdleTasks(c)
      <3>1. db' = db \/ db' = AbandonIdle(db, AbandonDays, now)
        BY <2>3 DEF AbandonIdleTasks
      <3> QED
        BY <2>0, <3>1, AbandonIdleSound DEF Sound
    <2>4. CASE DeleteFinishedTasks(c)
      <3>1. db' = db \/ db' = Purge(db, RetentionDays, now)
        BY <2>4 DEF DeleteFinishedTasks
      <3> QED
        BY <2>0, <3>1, PurgeSound DEF Sound
    <2>5. CASE Commit(c)
      BY <2>5 DEF Commit, StoreInv, ViewsEvolve
    <2>6. CASE ExecuteItem(c)
      BY <2>6 DEF ExecuteItem, CreateEntities, AddObservations, CreateRelations,
         DeleteNamedEntities, DeleteMatchingObservations, DeleteObservationWithId,
         UpdateObservationWithId, UpdateMatchingObservations, DeleteRelations, UpsertTruth,
         DeleteTruth, Update, Dispatch, ClaimNext, PurgeFinished, ResetGraph, Proceed, RollBack
    <2> QED
      BY <1>1, <2>1, <2>2, <2>3, <2>4, <2>5, <2>6 DEF Step
  <1>2. ASSUME NEW h \in Handles, Restart(h)
        PROVE  db' = db
    BY <1>2 DEF Restart
  <1>3. CASE Tick \/ UNCHANGED vars
    BY <1>3 DEF Tick, vars
  <1> QED
    BY <1>1, <1>2, <1>3 DEF Next

\* No step brings an observation id back, whatever is deleted, evicted, wiped
\* by reset or rolled back, in any interleaving of any callers.
THEOREM IdsStayFresh == Spec => IdsNeverReused
  <1>1. StoreInv /\ [Next]_vars => [IdsFresh(db, db')]_vars
    <2> SUFFICES ASSUME StoreInv, [Next]_vars
                 PROVE  IdsFresh(db, db')
      OBVIOUS
    <2>1. Evolves(db, db', now)
      BY NextEvolves, EvolvesRefl, ConsistentIsDatabase DEF StoreInv
    <2> QED
      BY <2>1 DEF Evolves
  <1> QED
    BY <1>1, StoreInvariant, PTL DEF Spec, IdsNeverReused
=============================================================================
