------------------------------ MODULE MCTasks ------------------------------
(***************************************************************************)
(* Small instances of TaskCommands for TLC: a project, an epic of two      *)
(* tasks, and a choice of command lines for each question.                 *)
(***************************************************************************)
EXTENDS TaskDocs, TLC

CONSTANTS project, epic, task1, task2,      \* stored names
          Epic, Task1, Task2,               \* another spelling of the epic's, and its tasks'
          scope, plan, lesson, note, outcome, abandonNote, toA, toB

MCNames     == {project, epic, task1, task2}
MCNameRank  == project :> 1 @@ epic :> 2 @@ task1 :> 3 @@ task2 :> 4
MCSpellings == MCNames \cup {Epic, Task1, Task2}
MCNorm      == [n \in MCNames |-> n] @@ Epic :> epic @@ Task1 :> task1 @@ Task2 :> task2
MCTaskName  == [s \in MCSpellings |-> CASE s = epic -> <<task1, task2>>
                                        [] s = Epic -> <<Task1, Task2>>
                                        [] OTHER    -> <<>>]
MCProjectOf == [s \in MCSpellings |-> project]
MCTypes     == {"task", "project"}
MCKeys      == {"status", "claimed_by", "title", "objective"}
MCAgents    == {"a", "b"}
MCTitles    == {"first", "second", "goal"}
MCBlocked   == {"BLOCKED_ON x"}
MCValues    == TaskStatuses \cup TerminalStatuses \cup MCAgents \cup MCTitles
MCContents  == {scope, plan, lesson, note, outcome, abandonNote, toA, toB}
MCScopeNote == [v \in MCValues |-> scope]
MCPlanNote  == [v \in MCValues |-> plan]
MCRelTypes  == {"part_of"}
MCDispatchNote == "a" :> toA @@ "b" :> toB

(* Command lines *)

PlanOf(e, titles) == [name |-> "plan", epic |-> e, objective |-> "goal", titles |-> titles]
ClaimBy(agent, t) == [name |-> "claim", task |-> t, agent |-> agent]
UpdateTo(t, s)    == [name |-> "update", task |-> t, notes |-> <<>>, status |-> s]
SyncTo(t, s)      == [name |-> "sync", task |-> t, notes |-> <<note>>, status |-> s]
CloseOf(e, ls)    == [name |-> "close", epic |-> e, lessons |-> ls]
DeletionOf(n)     == [name |-> "call", request |-> Ask("delete_entities", [name |-> n])]

(* Planners race for one epic, agents for its tasks, and it is closed. *)
PlanningCommands == {PlanOf(epic, <<"first", "second">>), PlanOf(Epic, <<"second">>),
                     ClaimBy("a", Null), SyncTo(task1, "DONE"),
                     SyncTo(Task1, "STARTED"), UpdateTo(task1, "CLOSED"),
                     CloseOf(epic, <<lesson>>)}

(* An epic is closed while its tasks are worked on. *)
ClosingCommands == {CloseOf(epic, <<lesson>>), CloseOf(Epic, <<>>), UpdateTo(task1, "DONE"),
                    SyncTo(task1, "REVIEW"), DeletionOf(task2),
                    SyncTo(project, "DONE"), SyncTo(task1, "STARTED"), UpdateTo(task1, "CLOSED")}

(* What the runs on the documentation need. *)
RacingClose   == {CloseOf(epic, <<>>), UpdateTo(task1, "REVIEW")}
RacingPlans   == {PlanOf(epic, <<"first">>), ClaimBy("a", task1)}
RefusedClose  == {CloseOf(epic, <<>>), CloseOf(Epic, <<>>)}

(* Graphs to start from *)

Entity(n, type) == [name |-> n, type |-> type, contents |-> <<>>]

Board(s1, s2) ==
    LET d1 == CreateEntity(EmptyDatabase, Entity(epic, "task"), 0)
        d2 == CreateEntity(CreateEntity(d1, Entity(task1, "task"), 0), Entity(task2, "task"), 0)
        d3 == SetTruth(SetTruth(d2, task1, "status", s1, 0), task2, "status", s2, 0)
        Link(d, n) == CreateRelation(d, [from |-> n, to |-> epic, type |-> "part_of"])
    IN  Link(Link(d3, task1), task2)

InParent(d) ==
    CreateRelation(CreateEntity(d, Entity(project, "task"), 0),
                   [from |-> epic, to |-> project, type |-> "part_of"])

StartEmpty  == {EmptyDatabase}
StartBoards == {Board("DONE", Dispatched), Board("DONE", "DONE")}
StartDone   == {Board("DONE", "DONE")}
StartNested == {InParent(Board("DONE", "DONE"))}

\* What NoHalfTasks and PlanWhole are stated for
ASSUME Commands = PlanningCommands /\ InitialGraphs = StartEmpty
         => PlansUndisturbed /\ OnlyTasksPlanned
=============================================================================
