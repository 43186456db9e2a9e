------------------------------ MODULE MCStore ------------------------------
(***************************************************************************)
(* Small instances of SqliteStore for TLC: an epic with one child task and *)
(* a durable entity, and a choice of requests for each question.           *)
(***************************************************************************)
EXTENDS StoreRefinement, StoreProgress, TLC

CONSTANTS epic, child, topic,           \* stored names
          Child, Topic,                 \* other spellings of two of them
          n1, n2, abandonNote, toA, toB \* observation texts

MCNames     == {epic, child, topic}
MCNameRank  == epic :> 1 @@ child :> 2 @@ topic :> 3
MCSpellings == MCNames \cup {Child, Topic}
MCNorm      == [n \in MCNames |-> n] @@ Child :> child @@ Topic :> topic
MCTypes     == {"task", "concept"}
MCKeys      == {"status", "claimed_by"}
MCAgents    == {"a", "b"}
MCBlocked   == {"BLOCKED_ON x"}
MCValues    == TaskStatuses \cup TerminalStatuses \cup MCAgents
MCContents  == {n1, n2, abandonNote, toA, toB}
MCRelTypes  == {"part_of", "relates_to"}
MCDispatchNote == "a" :> toA @@ "b" :> toB

(* Who calls: two processes, *)
TwoProcesses == "c1" :> "h1" @@ "c2" :> "h2"
(* a server's request and its background sweep beside a process on its file, *)
ServerAndCli == "c1" :> "h1" @@ "ticker" :> "h1" @@ "c2" :> "h2"

(* or the server alone. *)
ServerOnly   == "c1" :> "h1" @@ "ticker" :> "h1"

(* Graphs to start from, each built by the operations that build it. *)

Entity(name, type, contents) == [name |-> name, type |-> type, contents |-> contents]
Relation(from, to, type)     == [from |-> from, to |-> to, type |-> type]

PlannedEpic(t) ==
    LET d1 == CreateEntity(EmptyDatabase, Entity(epic, "task", <<>>), t)
        d2 == SetTruth(d1, epic, "status", Dispatched, t)
        d3 == CreateEntity(d2, Entity(child, "task", <<n1>>), t)
        d4 == SetTruth(d3, child, "status", Ready, t)
    IN  CreateRelation(d4, Relation(child, epic, "part_of"))

WithTopic(d, t) ==
    CreateEntity(d, Entity(topic, "concept", <<n1, n2>>), t)

Request(op, items) == [op |-> op, items |-> items]

(* The life of tasks: work on them, explicit purges, and the server's sweep. *)
LifeRequests == {
    Request("update", <<[name |-> epic, notes |-> <<>>, status |-> "DONE", limit |-> 0]>>),
    Request("update", <<[name |-> child, notes |-> <<n2>>, status |-> "BLOCKED_ON x", limit |-> 0]>>),
    Request("delete_relations", <<Relation(child, epic, "part_of")>>),
    Request("purge", <<[days |-> 0, apply |-> FALSE]>>),
    Request("purge", <<[days |-> 0, apply |-> TRUE]>>),
    Request("sweep", <<>>)}

(* Updates that are refused: no such status for a task, nothing to do, no task. *)
RefusedRequests == {
    Request("update", <<[name |-> epic, notes |-> <<>>, status |-> "CLOSED", limit |-> 0]>>),
    Request("update", <<[name |-> epic, notes |-> <<>>, status |-> Null, limit |-> 0]>>),
    Request("update", <<[name |-> topic, notes |-> <<n1>>, status |-> Null, limit |-> 0]>>)}

(* Every operation: lists, refusals half way, claims, maintenance. *)
AllRequests == RefusedRequests \cup {
    Request("create_entities", <<Entity(topic, "concept", <<n1>>), Entity(Child, "task", <<n2>>)>>),
    Request("add_observations", <<[name |-> child, contents |-> <<n1, n2>>, limit |-> 1],
                                  [name |-> Topic, contents |-> <<n2>>, limit |-> 1]>>),
    Request("create_relations", <<Relation(epic, child, "relates_to"), Relation(Topic, epic, "part_of")>>),
    Request("delete_entities", <<[name |-> epic], [name |-> Child]>>),
    Request("delete_observations", <<[name |-> child, contents |-> <<n1>>]>>),
    Request("delete_observation_by_id", <<[name |-> child, id |-> 1]>>),
    Request("update_observation_by_id", <<[name |-> Child, id |-> 1, new |-> n2]>>),
    Request("update_observation", <<[name |-> child, old |-> n1, new |-> n2]>>),
    Request("delete_relations", <<Relation(child, epic, "part_of")>>),
    Request("truth_upsert", <<[name |-> child, key |-> "status", value |-> "DONE"]>>),
    Request("truth_delete", <<[name |-> child, key |-> "status"]>>),
    Request("dispatch", <<[name |-> Null, agent |-> "a", limit |-> 0]>>),
    Request("dispatch", <<[name |-> Child, agent |-> "b", limit |-> 1]>>),
    Request("claim_next", <<[agent |-> "b"]>>),
    Request("update", <<[name |-> child, notes |-> <<n2>>, status |-> Ready, limit |-> 1]>>),
    Request("purge", <<[days |-> 0, apply |-> TRUE]>>),
    Request("reset", <<[all |-> TRUE]>>)}

(* The background sweep, and one writer beside it. *)
FewRequests == {
    Request("update", <<[name |-> child, notes |-> <<>>, status |-> "DONE", limit |-> 0]>>),
    Request("claim_next", <<[agent |-> "a"]>>),
    Request("sweep", <<>>)}

StartPlanned == {PlannedEpic(0)}
StartTopic   == {WithTopic(PlannedEpic(0), 0)}
=============================================================================
