---------------------------- MODULE SqliteStore ----------------------------
(***************************************************************************)
(* The SQLite store (crates/asobi-storage/src/storage/sqlite.rs): callers  *)
(* that run the write operations of the v3 traits on one graph file.       *)
(*                                                                         *)
(* A caller works through a store handle: the CLI has one handle per       *)
(* process, the server one per graph shared by all of its requests.  Every *)
(* write first runs the sweep its handle still owes (one transaction that  *)
(* abandons idle tasks, one that deletes finished ones), then opens a      *)
(* BEGIN IMMEDIATE transaction, executes its items one by one on a private *)
(* view of the file, and commits.  In between, any statement may fail, the *)
(* caller's future may be dropped, and the handle's process may die.       *)
(***************************************************************************)
EXTENDS GraphOps

CONSTANTS
    Callers,        \* tasks and processes that call the store
    Handles,        \* SqliteStore values
    HandleOf,       \* the handle a caller works through
    Sweepers,       \* the callers that are a server's background sweep
    Requests,       \* the calls callers may make
    AbandonDays,    \* abandon_days and retention_days as the store resolves
    RetentionDays,  \* them; 0 switches a rule off
    InitialGraphs,  \* graphs the file may hold at the start
    StartTime,      \* the clock then
    MaxTime,        \* bound: the clock stops here
    MaxCalls        \* bound: calls made in a behaviour, background sweeps aside

ASSUME StoreAssumption ==
    /\ HandleOf \in [Callers -> Handles]
    /\ Sweepers \subseteq Callers
    /\ \A r \in Requests : WellFormed(r)
    /\ AbandonDays \in Nat /\ RetentionDays \in Nat
    /\ StartTime \in Nat /\ MaxTime \in Nat /\ MaxCalls \in Nat
    /\ \A d \in InitialGraphs : Consistent(d) /\ \A n \in Names : d.activity[n] <= StartTime

VARIABLES
    db,         \* the committed contents of the file
    now,        \* the clock of CURRENT_TIMESTAMP and datetime('now'), in days
    pc,         \* what each caller does next
    req,        \* its request
    todo,       \* the items it has still to execute
    work,       \* the file as its open transaction sees it
    swept,      \* retention_swept of each handle
    reply,      \* its answer; meaningful once it is idle again
    calls       \* calls made so far

vars == <<db, now, pc, req, todo, work, swept, reply, calls>>

Phases == {"idle", "sweep", "abandon", "retain", "begin", "exec", "vacuum"}

TypeOK ==
    /\ db \in Databases
    /\ now \in Nat
    /\ pc \in [Callers -> Phases]
    /\ req \in [Callers -> Requests \cup {NoRequest}]
    /\ \A c \in Callers : pc[c] # "idle" => req[c] \in Requests
    /\ todo = [c \in Callers |-> todo[c]]
    /\ \A c \in Callers : todo[c] \in Seq(ItemsOf(req[c].op))
    /\ work \in [Callers -> Databases]
    /\ swept \in [Handles -> BOOLEAN]
    /\ reply \in [Callers -> Answers]
    /\ calls \in Nat

Init ==
    /\ db \in InitialGraphs
    /\ now = StartTime
    /\ pc = [c \in Callers |-> "idle"]
    /\ req = [c \in Callers |-> NoRequest]
    /\ todo = [c \in Callers |-> <<>>]
    /\ work = [c \in Callers |-> EmptyDatabase]
    /\ swept = [h \in Handles |-> FALSE]
    /\ reply = [c \in Callers |-> NoAnswer]
    /\ calls = 0

----------------------------------------------------------------------------
(* Steps of a call. *)

Writing(c) == pc[c] = "exec"
LockFree   == \A c \in Callers : ~Writing(c)

Goto(c, phase) == pc' = [pc EXCEPT ![c] = phase]

\* The call is over; a transaction still open is rolled back
Finish(c, answer) ==
    /\ Goto(c, "idle")
    /\ req'   = [req EXCEPT ![c] = NoRequest]
    /\ todo'  = [todo EXCEPT ![c] = <<>>]
    /\ work'  = [work EXCEPT ![c] = EmptyDatabase]
    /\ reply' = [reply EXCEPT ![c] = answer]

\* Mutant: sweep() goes through the once-per-process guard
Call_SweepOnce(c, r) ==
    /\ pc[c] = "idle"
    /\ IF c \in Sweepers THEN r.op = "sweep" ELSE r.op # "sweep" /\ calls < MaxCalls
    /\ ~(r.op = "update" /\ \E j \in DOMAIN r.items : InvalidUpdate(r.items[j]))
    /\ Goto(c, "sweep")
    /\ req'   = [req EXCEPT ![c] = r]
    /\ todo'  = [todo EXCEPT ![c] = IF r.op = "sweep" THEN <<>> ELSE r.items]
    /\ calls' = IF r.op = "sweep" THEN calls ELSE calls + 1
    /\ reply' = [reply EXCEPT ![c] = NoAnswer]
    /\ UNCHANGED <<db, now, work, swept>>

Call(c, r) ==
    /\ pc[c] = "idle"
    /\ IF c \in Sweepers THEN r.op = "sweep" ELSE r.op # "sweep" /\ calls < MaxCalls
    /\ ~(r.op = "update" /\ \E j \in DOMAIN r.items : InvalidUpdate(r.items[j]))
    /\ Goto(c, IF r.op = "sweep" THEN "abandon" ELSE "sweep")
    /\ req'   = [req EXCEPT ![c] = r]
    /\ todo'  = [todo EXCEPT ![c] = IF r.op = "sweep" THEN <<>> ELSE r.items]
    /\ swept' = IF r.op = "sweep" THEN [swept EXCEPT ![HandleOf[c]] = TRUE] ELSE swept
    /\ calls' = IF r.op = "sweep" THEN calls ELSE calls + 1
    /\ reply' = [reply EXCEPT ![c] = NoAnswer]
    /\ UNCHANGED <<db, now, work>>

\* update refuses its arguments before any transaction, and before the sweep
RefuseUpdate(c, r) ==
    /\ pc[c] = "idle" /\ c \notin Sweepers
    /\ calls < MaxCalls
    /\ r.op = "update" /\ \E j \in DOMAIN r.items : InvalidUpdate(r.items[j])
    /\ reply' = [reply EXCEPT ![c] = Invalid]
    /\ calls' = calls + 1
    /\ UNCHANGED <<db, now, pc, req, todo, work, swept>>

\* retention_swept.swap(true): the first write through a handle sweeps
SweepExpiredOnce(c) ==
    /\ pc[c] = "sweep"
    /\ Goto(c, IF swept[HandleOf[c]] THEN "begin" ELSE "abandon")
    /\ swept' = [swept EXCEPT ![HandleOf[c]] = TRUE]
    /\ UNCHANGED <<db, now, req, todo, work, reply, calls>>

\* The whole transaction of abandon_idle_tasks
AbandonIdleTasks(c) ==
    /\ pc[c] = "abandon"
    /\ AbandonDays > 0 => LockFree
    /\ db' = IF AbandonDays = 0 THEN db ELSE AbandonIdle(db, AbandonDays, now)
    /\ Goto(c, "retain")
    /\ UNCHANGED <<now, req, todo, work, swept, reply, calls>>

\* The whole transaction of purge_inner as the sweep runs it.  The vacuum that
\* follows a deletion may fail: a background sweep reports it, a write does not
DeleteFinishedTasks(c) ==
    /\ pc[c] = "retain"
    /\ RetentionDays > 0 => LockFree
    /\ db' = IF RetentionDays = 0 THEN db ELSE Purge(db, RetentionDays, now)
    /\ IF req[c].op = "sweep"
       THEN \E answer \in {Done} \cup IF db' = db THEN {} ELSE {Failed} : Finish(c, answer)
       ELSE Goto(c, "begin") /\ UNCHANGED <<req, todo, work, reply>>
    /\ UNCHANGED <<now, swept, calls>>

\* Mutant: a failed sweep is owed again, by the same call
SweepFails_Retry(c) ==
    /\ \/ pc[c] = "abandon" /\ AbandonDays > 0
       \/ pc[c] = "retain" /\ RetentionDays > 0
    /\ Goto(c, "sweep")
    /\ swept' = [swept EXCEPT ![HandleOf[c]] = FALSE]
    /\ UNCHANGED <<db, now, req, todo, work, reply, calls>>

\* The sweep's transaction fails and is rolled back: a write carries on
SweepFails(c) ==
    /\ \/ pc[c] = "abandon" /\ AbandonDays > 0
       \/ pc[c] = "retain" /\ RetentionDays > 0
    /\ IF req[c].op = "sweep" THEN Finish(c, Failed)
       ELSE Goto(c, "begin") /\ UNCHANGED <<req, todo, work, reply>>
    /\ UNCHANGED <<db, now, swept, calls>>

\* Mutant: a deferred transaction
BeginImmediate_Deferred(c) ==
    /\ pc[c] = "begin"
    /\ Goto(c, "exec")
    /\ work' = [work EXCEPT ![c] = db]
    /\ reply' = [reply EXCEPT ![c] = Done]
    /\ UNCHANGED <<db, now, req, todo, swept, calls>>

BeginImmediate(c) ==
    /\ pc[c] = "begin"
    /\ LockFree
    /\ Goto(c, "exec")
    /\ work' = [work EXCEPT ![c] = db]
    /\ reply' = [reply EXCEPT ![c] = Done]
    /\ UNCHANGED <<db, now, req, todo, swept, calls>>

\* The busy timeout, an I/O error or any other error of a statement: `?`
TransactionFails(c) ==
    /\ pc[c] \in {"begin", "exec"}
    /\ Finish(c, Failed)
    /\ UNCHANGED <<db, now, swept, calls>>

\* All of the call's changes reach the file here.  The caller may be cut off
\* before it hears of it
Commit(c) ==
    /\ Writing(c)
    /\ todo[c] = <<>>
    /\ db' = work[c]
    /\ IF \/ req[c].op = "reset"
          \/ req[c].op = "purge" /\ Live(work[c]) # Live(db)
       THEN /\ Goto(c, "vacuum")
            /\ work' = [work EXCEPT ![c] = EmptyDatabase]
            /\ UNCHANGED <<req, todo, reply>>
       ELSE \E answer \in {reply[c], NoAnswer} : Finish(c, answer)
    /\ UNCHANGED <<now, swept, calls>>

\* PRAGMA incremental_vacuum, after the commit of purge or reset
Vacuum(c) ==
    /\ pc[c] = "vacuum"
    /\ \E answer \in {Done, Failed} : Finish(c, answer)
    /\ UNCHANGED <<db, now, swept, calls>>

----------------------------------------------------------------------------
(* Execution of the head item, one action per operation. *)

Executing(c, op) == Writing(c) /\ req[c].op = op /\ todo[c] # <<>>

Item(c) == Head(todo[c])

\* Mutant: the statements commit one by one
Proceed_AutoCommit(c, d, answer) ==
    /\ work'  = [work EXCEPT ![c] = d]
    /\ db'    = d
    /\ todo'  = [todo EXCEPT ![c] = Tail(@)]
    /\ reply' = [reply EXCEPT ![c] = answer]
    /\ UNCHANGED <<now, pc, req, swept, calls>>

\* The statements succeed; answer is what the call will return
Proceed(c, d, answer) ==
    /\ work'  = [work EXCEPT ![c] = d]
    /\ todo'  = [todo EXCEPT ![c] = Tail(@)]
    /\ reply' = [reply EXCEPT ![c] = answer]
    /\ UNCHANGED <<db, now, pc, req, swept, calls>>

RollBack(c, answer) == Finish(c, answer) /\ UNCHANGED <<db, now, swept, calls>>

CreateEntities(c) ==
    /\ Executing(c, "create_entities")
    /\ Proceed(c, CreateEntity(work[c], Item(c), now), Done)

AddObservations(c) ==
    /\ Executing(c, "add_observations")
    /\ LET i == Item(c)
           n == Norm[i.name]
       IN  IF CanObserve(work[c], n, i.contents)
           THEN Proceed(c, Observe(work[c], n, i.contents, i.limit, now), Done)
           ELSE RollBack(c, Failed)

CreateRelations(c) ==
    /\ Executing(c, "create_relations")
    /\ IF CanRelate(work[c], Item(c))
       THEN Proceed(c, CreateRelation(work[c], Item(c)), Done)
       ELSE RollBack(c, Failed)

DeleteNamedEntities(c) ==
    /\ Executing(c, "delete_entities")
    /\ Proceed(c, DeleteEntity(work[c], Item(c)), Done)

DeleteMatchingObservations(c) ==
    /\ Executing(c, "delete_observations")
    /\ Proceed(c, DeleteObservations(work[c], Item(c), now), Done)

DeleteObservationWithId(c) ==
    /\ Executing(c, "delete_observation_by_id")
    /\ Proceed(c, DeleteObservationById(work[c], Item(c), now), Done)

UpdateObservationWithId(c) ==
    /\ Executing(c, "update_observation_by_id")
    /\ Proceed(c, UpdateObservationById(work[c], Item(c), now), Done)

UpdateMatchingObservations(c) ==
    /\ Executing(c, "update_observation")
    /\ Proceed(c, UpdateObservation(work[c], Item(c), now), Done)

DeleteRelations(c) ==
    /\ Executing(c, "delete_relations")
    /\ Proceed(c, DeleteRelation(work[c], Item(c)), Done)

UpsertTruth(c) ==
    /\ Executing(c, "truth_upsert")
    /\ IF Norm[Item(c).name] \in Live(work[c])
       THEN Proceed(c, TruthUpsert(work[c], Item(c), now), Done)
       ELSE RollBack(c, Failed)

DeleteTruth(c) ==
    /\ Executing(c, "truth_delete")
    /\ Proceed(c, TruthDelete(work[c], Item(c), now), Done)

\* update answers the status it set, or the one it found
Update(c) ==
    /\ Executing(c, "update")
    /\ LET i == Item(c)
           n == Norm[i.name]
           status == IF i.status = Null THEN StatusOf(work[c], n) ELSE i.status
       IN  \/ /\ n \in Tasks(work[c])
              /\ Proceed(c, UpdateTask(work[c], i, now), Answer("status", {status} \ {""}))
           \/ n \notin Live(work[c]) /\ RollBack(c, NotFound)
           \/ n \in Live(work[c]) \ Tasks(work[c]) /\ RollBack(c, Invalid)

\* A named target is not required to be a task
Dispatch(c) ==
    /\ Executing(c, "dispatch")
    /\ LET i == Item(c)
           targets == IF i.name = Null THEN Least(ReadyTasks(work[c])) ELSE {Norm[i.name]}
       IN  \/ targets = {} /\ RollBack(c, Nothing)
           \/ \E n \in targets :
                IF work[c].truth[n]["status"] = Ready
                THEN Proceed(c, DispatchTo(work[c], n, i, now), Answer("claimed", {n}))
                ELSE RollBack(c, Nothing)

ClaimNext(c) ==
    /\ Executing(c, "claim_next")
    /\ \/ /\ ReadyTasks(work[c]) = {}
          /\ Proceed(c, work[c], Nothing)
       \/ \E n \in Least(ReadyTasks(work[c])) :
            Proceed(c, Claim(work[c], n, Item(c).agent, now), Answer("claimed", {n}))

PurgeFinished(c) ==
    /\ Executing(c, "purge")
    /\ LET i == Item(c)
       IN  Proceed(c, IF i.apply THEN Purge(work[c], i.days, now) ELSE work[c], Done)

ResetGraph(c) ==
    /\ Executing(c, "reset")
    /\ Proceed(c, Reset(work[c]), Done)

ExecuteItem(c) ==
    \/ CreateEntities(c)
    \/ AddObservations(c)
    \/ CreateRelations(c)
    \/ DeleteNamedEntities(c)
    \/ DeleteMatchingObservations(c)
    \/ DeleteObservationWithId(c)
    \/ UpdateObservationWithId(c)
    \/ UpdateMatchingObservations(c)
    \/ DeleteRelations(c)
    \/ UpsertTruth(c)
    \/ DeleteTruth(c)
    \/ Update(c)
    \/ Dispatch(c)
    \/ ClaimNext(c)
    \/ PurgeFinished(c)
    \/ ResetGraph(c)

----------------------------------------------------------------------------
(* The environment. *)

\* The caller's future is dropped (a client that hung up): the open
\* transaction rolls back, but the handle keeps believing it has swept
Cancel(c) ==
    /\ pc[c] # "idle"
    /\ Finish(c, NoAnswer)
    /\ UNCHANGED <<db, now, swept, calls>>

\* Mutant: the callers of the dead process are not cleared
Restart_Orphans(h) ==
    LET Lost(c) == HandleOf[c] = h
    IN  /\ req'   = [c \in Callers |-> IF Lost(c) THEN NoRequest ELSE req[c]]
        /\ todo'  = [c \in Callers |-> IF Lost(c) THEN <<>> ELSE todo[c]]
        /\ work'  = [c \in Callers |-> IF Lost(c) THEN EmptyDatabase ELSE work[c]]
        /\ reply' = [c \in Callers |-> IF Lost(c) THEN NoAnswer ELSE reply[c]]
        /\ swept' = [swept EXCEPT ![h] = FALSE]
        /\ UNCHANGED <<db, now, pc, calls>>

\* The process behind a handle dies, and a new one opens the file
Restart(h) ==
    LET Lost(c) == HandleOf[c] = h
    IN  /\ pc'    = [c \in Callers |-> IF Lost(c) THEN "idle" ELSE pc[c]]
        /\ req'   = [c \in Callers |-> IF Lost(c) THEN NoRequest ELSE req[c]]
        /\ todo'  = [c \in Callers |-> IF Lost(c) THEN <<>> ELSE todo[c]]
        /\ work'  = [c \in Callers |-> IF Lost(c) THEN EmptyDatabase ELSE work[c]]
        /\ reply' = [c \in Callers |-> IF Lost(c) THEN NoAnswer ELSE reply[c]]
        /\ swept' = [swept EXCEPT ![h] = FALSE]
        /\ UNCHANGED <<db, now, calls>>

\* A transaction is short against the day the clock counts
Tick ==
    /\ now < MaxTime
    /\ LockFree
    /\ now' = now + 1
    /\ UNCHANGED <<db, pc, req, todo, work, swept, reply, calls>>

Step(c) ==
    \/ \E r \in Requests : Call(c, r) \/ RefuseUpdate(c, r)
    \/ SweepExpiredOnce(c)
    \/ AbandonIdleTasks(c)
    \/ DeleteFinishedTasks(c)
    \/ SweepFails(c)
    \/ BeginImmediate(c)
    \/ ExecuteItem(c)
    \/ TransactionFails(c)
    \/ Commit(c)
    \/ Vacuum(c)
    \/ Cancel(c)

Next ==
    \/ \E c \in Callers : Step(c)
    \/ \E h \in Handles : Restart(h)
    \/ Tick

Spec == Init /\ [][Next]_vars

----------------------------------------------------------------------------
(* Properties. *)

\* The committed graph is sound whatever interleaving, failure, cancellation
\* or crash the writers meet: no row refers to a missing entity, no id names
\* two observations, and search finds exactly the text that is there.
GraphConsistent ==
    /\ ReferentialIntegrity(db)
    /\ IdsUnique(db)
    /\ IndexesExact(db)

\* An observation id a caller has seen (show --with-ids) keeps naming the same
\* entity's observation or none at all: an id below the counter that is not in
\* the graph, deleted, evicted or wiped by reset, never comes back.
IdsNeverReused == [][IdsFresh(db, db')]_vars

\* A caller that is told it has claimed a task is the one that moved it: just
\* before, the file had the task ready; now it is dispatched to that caller.
\* Two claimants racing for one task cannot both be told so.
Claimed(c, n) == pc[c] = "exec" /\ pc'[c] = "idle" /\ reply'[c] = Answer("claimed", {n})

ClaimsExclusive ==
    [][\A c \in Callers, n \in Names : Claimed(c, n) =>
         /\ StatusOf(db, n) = Ready
         /\ StatusOf(db', n) = Dispatched
         /\ \E i \in {req[c].items[j] : j \in DOMAIN req[c].items} :
              db'.truth[n]["claimed_by"] = i.agent]_vars

\* Eviction under the observation cap drops the oldest: after add_observations
\* or update, whatever observation of an entity is gone is older than every
\* one that is left, and no entity that lost one is left above its cap.
EvictionKeepsNewest ==
    [][\A c \in Callers :
         (pc[c] = "exec" /\ pc'[c] = "idle" /\ req[c].op \in {"add_observations", "update"})
         => \A o \in db.obs \ db'.obs :
              /\ \A p \in ObsOf(db', o.entity) : o.id < p.id
              /\ \E i \in {req[c].items[j] : j \in DOMAIN req[c].items} :
                   Cardinality(ObsOf(db', o.entity)) = Cap(i.limit)]_vars

\* The sweep never abandons a task that is being worked: a task that becomes
\* ABANDONED, unless somebody writes that very truth, was untouched for the
\* whole window, and no part_of child of it was open in the committed graph at
\* that moment.
BecomesAbandoned(n) == StatusOf(db, n) # Abandoned /\ StatusOf(db', n) = Abandoned

WrittenByHand(n) ==
    \E c \in Callers :
      /\ pc[c] = "exec" /\ pc'[c] = "idle" /\ req[c].op = "truth_upsert"
      /\ \E i \in {req[c].items[j] : j \in DOMAIN req[c].items} :
           Norm[i.name] = n /\ i.key = "status" /\ i.value = Abandoned

AbandonsOnlyIdle ==
    [][\A n \in Names : BecomesAbandoned(n) /\ ~WrittenByHand(n) =>
         /\ n \in Tasks(db) /\ Inactive(db, n, AbandonDays, now)
         /\ ~HasOpenChild(db, n)]_vars
=============================================================================
