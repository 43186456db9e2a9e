------------------------------ MODULE GraphOps ------------------------------
(***************************************************************************)
(* What each operation of the v3 store traits does to a graph              *)
(* (crates/asobi-storage/src/storage/sqlite.rs), as operators on a         *)
(* database value: for an operation that takes a list, the effect of one   *)
(* item of the list; and the two rules of the automatic sweep.             *)
(*                                                                         *)
(* An item is a record of the operation's arguments.  t is the clock.      *)
(***************************************************************************)
EXTENDS GraphTables

CONSTANTS
    Spellings,      \* names as callers write them
    Norm,           \* normalize_key: the stored name of each spelling
    Agents,         \* claimants
    BlockedStatuses,\* statuses of the form "BLOCKED_ON <target>"
    AbandonNote,    \* the observation the abandonment sweep records
    DispatchNote,   \* the observation a dispatch to an agent records
    DefaultLimit    \* DEFAULT_OBSERVATION_LIMIT

Ready      == "READY_TO_DISPATCH"
Dispatched == "DISPATCHED"
Abandoned  == "ABANDONED"

\* TERMINAL_STATUSES and PURGEABLE_STATUSES are the same list
TerminalStatuses == {"DONE", "CLOSED", Abandoned}

\* valid_task_status: what `tasks update --status` accepts
TaskStatuses == {Ready, Dispatched, "REVIEW", "AWAITING_VERIFY", "DONE"} \cup BlockedStatuses

ASSUME OpsAssumption ==
    /\ Norm \in [Spellings -> Names]
    /\ "claimed_by" \in Keys
    /\ Agents \cup TaskStatuses \cup TerminalStatuses \subseteq Values
    /\ BlockedStatuses \cap TerminalStatuses = {}
    /\ AbandonNote \in Contents
    /\ DispatchNote \in [Agents -> Contents]
    /\ DefaultLimit \in Nat \ {0}

----------------------------------------------------------------------------
(* The operations and the items they take. *)

GraphOperations == {"create_entities", "add_observations", "create_relations",
    "delete_entities", "delete_observations", "delete_observation_by_id",
    "update_observation_by_id", "update_observation", "delete_relations",
    "truth_upsert", "truth_delete"}

TaskOperations == {"update", "dispatch", "claim_next"}

Operations == GraphOperations \cup TaskOperations \cup {"purge", "reset", "sweep"}

\* The operations that take a list; the others are about one thing
ListOperations == {"create_entities", "add_observations", "create_relations",
    "delete_entities", "delete_observations", "delete_relations"}

RelationItems == [from : Spellings, to : Spellings, type : RelTypes]

ItemsOf(op) ==
    CASE op = "create_entities"  -> [name : Spellings, type : Types, contents : Seq(Contents)]
      [] op = "add_observations" -> [name : Spellings, contents : Seq(Contents), limit : Nat]
      [] op \in {"create_relations", "delete_relations"} -> RelationItems
      [] op = "delete_entities"  -> [name : Spellings]
      [] op = "delete_observations"      -> [name : Spellings, contents : Seq(Contents)]
      [] op = "delete_observation_by_id" -> [name : Spellings, id : Nat]
      [] op = "update_observation_by_id" -> [name : Spellings, id : Nat, new : Contents]
      [] op = "update_observation" -> [name : Spellings, old : Contents, new : Contents]
      [] op = "truth_upsert"     -> [name : Spellings, key : Keys, value : Values]
      [] op = "truth_delete"     -> [name : Spellings, key : Keys]
      [] op = "update"     -> [name : Spellings, notes : Seq(Contents),
                               status : Values \cup {Null}, limit : Nat]
      [] op = "dispatch"   -> [name : Spellings \cup {Null}, agent : Agents, limit : Nat]
      [] op = "claim_next" -> [agent : Agents]
      [] op = "purge"      -> [days : Nat, apply : BOOLEAN]
      [] OTHER             -> [all : BOOLEAN]        \* reset and sweep take no arguments

NoRequest == [op |-> "none", items |-> <<>>]

\* The observation limit is an argument of the call
WellFormed(r) == /\ r.op \in Operations
                 /\ r.items \in Seq(ItemsOf(r.op))
                 /\ r.op \in Operations \ (ListOperations \cup {"sweep"}) => Len(r.items) = 1
                 /\ r.op = "add_observations" =>
                      \A j, k \in DOMAIN r.items : r.items[j].limit = r.items[k].limit

(* What a call returns. *)

Answer(kind, values) == [kind |-> kind, values |-> values]

NoAnswer  == Answer("none", {})
Done      == Answer("ok", {})
Failed    == Answer("backend", {})      \* ApiError::Backend
Invalid   == Answer("invalid", {})      \* ApiError::Invalid
NotFound  == Answer("not_found", {})    \* ApiError::NotFound
Nothing   == Answer("nothing", {})      \* Ok(None) of dispatch and claim_next

Answers == [kind : {"none", "ok", "backend", "invalid", "not_found", "nothing",
                    "claimed", "status"},
            values : SUBSET (Names \cup Values)]

----------------------------------------------------------------------------
(* GraphStore. *)

Cap(limit) == IF limit = 0 THEN DefaultLimit ELSE limit

\* The foreign key lets observations, truths and relations be inserted
CanObserve(d, n, contents) == contents = <<>> \/ n \in Live(d)
CanRelate(d, i) == {Norm[i.from], Norm[i.to]} \subseteq Live(d)

CreateEntity(d, i, t) ==
    LET n == Norm[i.name]
    IN  IF n \in Live(d) THEN d
        ELSE InsertObs(InsertEntity(d, n, i.type, t), n, i.contents, t)

Observe(d, n, contents, limit, t) ==
    TrimObs(InsertObs(d, n, contents, t), n, Cap(limit), t)

CreateRelation(d, i) == [d EXCEPT !.rel = @ \cup {<<Norm[i.from], Norm[i.to], i.type>>}]

DeleteRelation(d, i) == [d EXCEPT !.rel = @ \ {<<Norm[i.from], Norm[i.to], i.type>>}]

DeleteEntity(d, i) == DeleteEntities(d, {Norm[i.name]})

WithContent(d, n, contents) == {o \in ObsOf(d, n) : o.content \in contents}
WithId(d, n, id)            == {o \in ObsOf(d, n) : o.id = id}

DeleteObservations(d, i, t) ==
    LET contents == {i.contents[j] : j \in 1..Len(i.contents)}
    IN  DeleteObs(d, WithContent(d, Norm[i.name], contents), t)

DeleteObservationById(d, i, t) == DeleteObs(d, WithId(d, Norm[i.name], i.id), t)

UpdateObservationById(d, i, t) == UpdateObs(d, WithId(d, Norm[i.name], i.id), i.new, t)

UpdateObservation(d, i, t) ==
    UpdateObs(d, WithContent(d, Norm[i.name], {i.old}), i.new, t)

TruthUpsert(d, i, t) == SetTruth(d, Norm[i.name], i.key, i.value, t)

TruthDelete(d, i, t) == DropTruth(d, Norm[i.name], i.key, t)

----------------------------------------------------------------------------
(* TaskStore. *)

\* update answers Invalid before it touches the file
InvalidUpdate(i) ==
    \/ i.status = Null /\ i.notes = <<>>
    \/ i.status \notin TaskStatuses \cup {Null}

UpdateTask(d, i, t) ==
    LET n     == Norm[i.name]
        noted == IF i.notes = <<>> THEN d ELSE Observe(d, n, i.notes, i.limit, t)
    IN  IF i.status = Null THEN noted ELSE SetTruth(noted, n, "status", i.status, t)

ReadyTasks(d) == {n \in Tasks(d) : d.truth[n]["status"] = Ready}

\* READY_TO_DISPATCH -> DISPATCHED, with the claimant
Claim(d, n, agent, t) ==
    SetTruth(SetTruth(d, n, "status", Dispatched, t), n, "claimed_by", agent, t)

DispatchTo(d, n, i, t) ==
    Observe(Claim(d, n, i.agent, t), n, <<DispatchNote[i.agent]>>, i.limit, t)

----------------------------------------------------------------------------
(* MaintenanceStore and the sweep. *)

\* last_activity < datetime('now', '-<days> days')
Inactive(d, n, days, t) == d.activity[n] + days < t

Finished(d, n) == StatusOf(d, n) \in TerminalStatuses

\* A part_of child, of any entity type, whose status is not terminal
HasOpenChild(d, n) == \E r \in d.rel : r[2] = n /\ r[3] = "part_of" /\ ~Finished(d, r[1])

\* Mutant: the children are not looked at
IdleTasks_Unprotected(d, days, t) ==
    {n \in Tasks(d) : ~Finished(d, n) /\ Inactive(d, n, days, t)}

IdleTasks(d, days, t) ==
    {n \in Tasks(d) : ~Finished(d, n) /\ Inactive(d, n, days, t) /\ ~HasOpenChild(d, n)}

PurgeCandidates(d, days, t) ==
    {n \in Tasks(d) : Finished(d, n) /\ Inactive(d, n, days, t)}

\* Every task of the set becomes ABANDONED and is told so, in name order: the
\* j-th task's note gets the j-th id
AbandonTasks(d, tasks, t) ==
    LET Place(n) == Cardinality({m \in tasks : NameRank[m] <= NameRank[n]})
        notes == {[id |-> d.seq + Place(n), entity |-> n, content |-> AbandonNote] : n \in tasks}
        old   == {<<n, "status", d.truth[n]["status"]>> : n \in tasks}
    IN  [d EXCEPT
           !.truth    = [n \in Names |-> IF n \in tasks
                                         THEN [d.truth[n] EXCEPT !["status"] = Abandoned]
                                         ELSE d.truth[n]],
           !.truthFts = (@ \ old) \cup {<<n, "status", Abandoned>> : n \in tasks},
           !.obs      = @ \cup notes,
           !.obsFts   = @ \cup ObsEntries(notes),
           !.seq      = @ + Cardinality(tasks),
           !.activity = [n \in Names |-> IF n \in tasks THEN t ELSE d.activity[n]]]

AbandonIdle(d, days, t) == AbandonTasks(d, IdleTasks(d, days, t), t)

Purge(d, days, t) == DeleteEntities(d, PurgeCandidates(d, days, t))

\* reset empties the four tables; the AUTOINCREMENT counter stays
Reset(d) == [EmptyDatabase EXCEPT !.seq = d.seq]
=============================================================================
