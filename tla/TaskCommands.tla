---------------------------- MODULE TaskCommands ----------------------------
(***************************************************************************)
(* The `asobi tasks` commands (crates/asobi/src/tasks.rs): processes that  *)
(* read the graph, decide, and then make a sequence of calls on the store. *)
(*                                                                         *)
(* A call is one step: it happens at one instant, whole or not at all      *)
(* (StoreRefinement!CallsAtomic).  A read is not: every query of           *)
(* `open_nodes` sees the file as it is when it runs.  Between two steps of *)
(* a command anything may happen, its own death included.                  *)
(***************************************************************************)
EXTENDS StoreCalls, SequencesExt

CONSTANTS
    Workers,            \* agents, each running one command at a time
    Commands,           \* the command lines they may run
    TaskName,           \* the names `plan` gives an epic's tasks: "<epic>:task-<i>"
    ProjectOf,          \* the part of an epic's name before its first ':'
    ScopeNote, PlanNote,\* the observations for an objective and for a title
    OutcomeNote,        \* the observation `close` leaves
    ObservationLimit,   \* observation_limit()
    AbandonDays,        \* the sweep's windows; 0 switches a rule off
    RetentionDays,
    InitialGraphs,
    StartTime,
    MaxTime,            \* bound: the clock stops here
    MaxCommands         \* bound: commands started in a behaviour

ASSUME CommandsAssumption ==
    /\ Names \subseteq Spellings /\ \A n \in Names : Norm[n] = n
    /\ TaskName \in [Spellings -> Seq(Spellings)]
    /\ ProjectOf \in [Spellings -> Spellings]
    /\ ScopeNote \in [Values -> Contents] /\ PlanNote \in [Values -> Contents]
    /\ {OutcomeNote} \subseteq Contents
    /\ {"title", "objective"} \subseteq Keys /\ "project" \in Types
    /\ {ObservationLimit, AbandonDays, RetentionDays, StartTime, MaxTime, MaxCommands} \subseteq Nat
    /\ \A d \in InitialGraphs : Consistent(d)

\* What the command line parser lets through; `update` and `sync` take any word
\* for a status, and look at it themselves
CommandLine(c) ==
    CASE c.name = "plan"   -> /\ c.epic \in Spellings /\ c.objective \in Values
                              /\ c.titles \in Seq(Values)
                              /\ Len(c.titles) <= Len(TaskName[c.epic])
      [] c.name = "claim"  -> c.task \in Spellings \cup {Null} /\ c.agent \in Agents
      [] c.name \in {"update", "sync"} -> c.task \in Spellings /\ c.notes \in Seq(Contents)
      [] c.name = "close"  -> c.epic \in Spellings /\ c.lessons \in Seq(Contents)
      [] c.name = "call"   -> /\ c.request = [op |-> c.request.op, items |-> c.request.items]
                              /\ WellFormed(c.request) /\ c.request.op # "sweep"
      [] OTHER             -> FALSE

ASSUME CommandLinesAssumption == \A c \in Commands : CommandLine(c)

VARIABLES
    db,         \* the graph
    now,        \* the clock, in days
    step,       \* where each command is
    cmd,        \* the command line
    view,       \* what its read has seen so far
    script,     \* the calls it has still to make
    verdict,    \* how the worker's last command ended
    started     \* commands started so far

vars == <<db, now, step, cmd, view, script, verdict, started>>

NoCommand == [name |-> "none"]

\* A read: the names asked for, the rows found, the tasks among them that
\* count as children, and those of them whose truths said DONE or did not
NoView == [names |-> {}, rows |-> {}, tasks |-> {}, done |-> {}, open |-> {}]

Views == [names : SUBSET Names, rows : SUBSET Names, tasks : SUBSET Names,
          done : SUBSET Names, open : SUBSET Names]

Unread(v) == v.tasks \ (v.done \cup v.open)

Steps == {"idle", "check", "rows", "truths", "calls"}

Verdicts == {"none", "ok", "failed", "exists", "not_found", "not_a_task", "bad_status",
             "bad_arguments", "no_children", "open_children"}

TypeOK ==
    /\ db \in Databases
    /\ now \in Nat
    /\ step \in [Workers -> Steps]
    /\ cmd \in [Workers -> Commands \cup {NoCommand}]
    /\ \A w \in Workers : step[w] = "idle" <=> cmd[w] = NoCommand
    /\ view \in [Workers -> Views]
    /\ \A w \in Workers : \A j \in DOMAIN script[w] : WellFormed(script[w][j])
    /\ verdict \in [Workers -> Verdicts]
    /\ started \in Nat

Init ==
    /\ db \in InitialGraphs
    /\ now = StartTime
    /\ step = [w \in Workers |-> "idle"]
    /\ cmd = [w \in Workers |-> NoCommand]
    /\ view = [w \in Workers |-> NoView]
    /\ script = [w \in Workers |-> <<>>]
    /\ verdict = [w \in Workers |-> "none"]
    /\ started = 0

----------------------------------------------------------------------------
(* The calls of each command, in order. *)

Ask(op, item) == [op |-> op, items |-> <<item>>]

SetTruthCall(n, key, value) ==
    Ask("truth_upsert", [name |-> n, key |-> key, value |-> value])

NoteCall(n, contents) ==
    Ask("add_observations", [name |-> n, contents |-> contents, limit |-> ObservationLimit])

CreateCall(n, type, contents) ==
    Ask("create_entities", [name |-> n, type |-> type, contents |-> contents])

\* The names of the tasks of a plan
Children(c) == [i \in DOMAIN c.titles |-> TaskName[c.epic][i]]

\* The entities a plan is about to create
PlanNames(c) == {Norm[n] : n \in {c.epic} \cup {Children(c)[i] : i \in DOMAIN c.titles}}

\* Mutant: a task is ready before it has a title
Describe_ReadyFirst(kids, titles) ==
    [j \in 1..(2 * Len(titles)) |->
       LET i == (j + 1) \div 2
       IN  IF j = 2 * i THEN SetTruthCall(kids[i], "title", titles[i])
           ELSE SetTruthCall(kids[i], "status", Ready)]

\* Two calls for each task, its title and then its status
Describe(kids, titles) ==
    [j \in 1..(2 * Len(titles)) |->
       LET i == (j + 1) \div 2
       IN  IF j = 2 * i THEN SetTruthCall(kids[i], "status", Ready)
           ELSE SetTruthCall(kids[i], "title", titles[i])]

PlanCalls(c) ==
    LET kids == Children(c)
        Task(i) == [name |-> kids[i], type |-> "task", contents |-> <<PlanNote[c.titles[i]]>>]
        Link(i) == [from |-> kids[i], to |-> c.epic, type |-> "part_of"]
    IN  <<CreateCall(c.epic, "task", <<ScopeNote[c.objective]>>),
          [op |-> "create_entities", items |-> [i \in DOMAIN kids |-> Task(i)]],
          SetTruthCall(c.epic, "objective", c.objective)>>
        \o Describe(kids, c.titles)
        \o <<[op |-> "create_relations", items |-> [i \in DOMAIN kids |-> Link(i)]]>>

SyncCalls(c) ==
    (IF c.notes = <<>> THEN <<>> ELSE <<NoteCall(c.task, c.notes)>>)
    \o <<SetTruthCall(c.task, "status", c.status)>>

\* Mutant: the epic is marked before its lessons are kept
CloseCalls_MarkFirst(c, found) ==
    LET home == ProjectOf[c.epic]
    IN  <<SetTruthCall(c.epic, "status", "DONE")>>
        \o (IF c.lessons = <<>> \/ home \in found THEN <<>>
            ELSE <<CreateCall(home, "project", <<>>)>>)
        \o (IF c.lessons = <<>> THEN <<>> ELSE <<NoteCall(home, c.lessons)>>)
        \o <<NoteCall(c.epic, <<OutcomeNote>>)>>

\* found: the names of the rows the command has read
CloseCalls(c, found) ==
    LET home    == ProjectOf[c.epic]
        create  == IF c.lessons = <<>> \/ home \in found THEN <<>>
                   ELSE <<CreateCall(home, "project", <<>>)>>
        lessons == IF c.lessons = <<>> THEN <<>> ELSE <<NoteCall(home, c.lessons)>>
    IN  create \o lessons \o <<SetTruthCall(c.epic, "status", "DONE"),
                             NoteCall(c.epic, <<OutcomeNote>>)>>

\* The commands that make one call and read nothing first
DirectCalls(c) ==
    CASE c.name = "claim"  -> <<Ask("dispatch", [name |-> c.task, agent |-> c.agent,
                                                 limit |-> ObservationLimit])>>
      [] c.name = "update" -> <<Ask("update", [name |-> c.task, notes |-> c.notes,
                                               status |-> c.status, limit |-> ObservationLimit])>>
      [] c.name = "call"   -> <<c.request>>     \* a command of another family

----------------------------------------------------------------------------
(* Steps of a command. *)

Goto(w, where) == step' = [step EXCEPT ![w] = where]

End(w, how) ==
    /\ Goto(w, "idle")
    /\ cmd'     = [cmd EXCEPT ![w] = NoCommand]
    /\ view'    = [view EXCEPT ![w] = NoView]
    /\ script'  = [script EXCEPT ![w] = <<>>]
    /\ verdict' = [verdict EXCEPT ![w] = how]

Refuse(w, why) == End(w, why) /\ UNCHANGED <<db, now, started>>

Begin(w, calls) ==
    /\ Goto(w, "calls")
    /\ script' = [script EXCEPT ![w] = calls]
    /\ UNCHANGED <<db, now, cmd, view, verdict, started>>

BadArguments(c) == c.name = "update" /\ InvalidUpdate(c)

\* `update` with nothing to do or an unknown status ends before any call
RejectArguments(w, c) ==
    /\ step[w] = "idle"
    /\ started < MaxCommands
    /\ BadArguments(c)
    /\ started' = started + 1
    /\ verdict' = [verdict EXCEPT ![w] = "bad_arguments"]
    /\ UNCHANGED <<db, now, step, cmd, view, script>>

Start(w, c) ==
    /\ step[w] = "idle"
    /\ started < MaxCommands
    /\ ~BadArguments(c)
    /\ started' = started + 1
    /\ cmd'     = [cmd EXCEPT ![w] = c]
    /\ verdict' = [verdict EXCEPT ![w] = "none"]
    /\ IF c.name \in {"claim", "update", "call"}
       THEN Goto(w, "calls") /\ script' = [script EXCEPT ![w] = DirectCalls(c)]
       ELSE Goto(w, "check") /\ UNCHANGED script
    /\ UNCHANGED <<db, now, view>>

\* `plan` refuses names that exist; the query for the rows is one instant
PlanCheck(w) ==
    LET c == cmd[w]
    IN  /\ step[w] = "check" /\ c.name = "plan"
        /\ IF PlanNames(c) \cap Live(db) # {} THEN Refuse(w, "exists") ELSE Begin(w, PlanCalls(c))

\* Mutant: any status is taken
SyncCheck_AnyStatus(w) ==
    LET c == cmd[w]
        n == Norm[c.task]
    IN  /\ step[w] = "check" /\ c.name = "sync"
        /\ \/ n \notin Live(db) /\ Refuse(w, "not_found")
           \/ n \in Live(db) \ Tasks(db) /\ Refuse(w, "not_a_task")
           \/ n \in Tasks(db) /\ Begin(w, SyncCalls(c))

SyncCheck(w) ==
    LET c == cmd[w]
        n == Norm[c.task]
    IN  /\ step[w] = "check" /\ c.name = "sync"
        /\ \/ n \notin Live(db) /\ Refuse(w, "not_found")
           \/ n \in Live(db) \ Tasks(db) /\ Refuse(w, "not_a_task")
           \/ n \in Tasks(db) /\ c.status \notin TaskStatuses /\ Refuse(w, "bad_status")
           \/ n \in Tasks(db) /\ c.status \in TaskStatuses /\ Begin(w, SyncCalls(c))

\* `close` asks for the epic with expand = part_of: the first query follows
\* the relation in both directions
CloseExpand(w) ==
    LET e == Norm[cmd[w].epic]
        near == {r \in db.rel : r[3] = "part_of" /\ e \in {r[1], r[2]}}
    IN  /\ step[w] = "check" /\ cmd[w].name = "close"
        /\ view' = [view EXCEPT ![w].names = {e} \cup {r[1] : r \in near} \cup {r[2] : r \in near}]
        /\ Goto(w, "rows")
        /\ UNCHANGED <<db, now, cmd, script, verdict, started>>

\* The second query fetches the rows; the tasks among them other than the
\* epic, by the spelling of the command line, are its children
CloseRows(w) ==
    LET rows  == view[w].names \cap Live(db)
        tasks == {n \in rows \cap Tasks(db) : n # cmd[w].epic}
    IN  /\ step[w] = "rows"
        /\ view' = [view EXCEPT ![w] = [names |-> @.names, rows |-> rows, tasks |-> tasks,
                                        done |-> {}, open |-> {}]]
        /\ Goto(w, "truths")
        /\ UNCHANGED <<db, now, cmd, script, verdict, started>>

\* Then one query for the truths of each row, in no fixed order
CloseTruths(w) ==
    /\ step[w] = "truths"
    /\ \E n \in Unread(view[w]) :
         IF db.truth[n]["status"] = "DONE"
         THEN view' = [view EXCEPT ![w].done = @ \cup {n}]
         ELSE view' = [view EXCEPT ![w].open = @ \cup {n}]
    /\ UNCHANGED <<db, now, step, cmd, script, verdict, started>>

\* Mutant: one finished child is enough
CloseDecide_Any(w) ==
    LET v == view[w]
    IN  /\ step[w] = "truths" /\ Unread(v) = {}
        /\ \/ v.rows = {} /\ Refuse(w, "not_found")
           \/ v.rows # {} /\ v.tasks = {} /\ Refuse(w, "no_children")
           \/ v.tasks # {} /\ v.open = v.tasks /\ Refuse(w, "open_children")
           \/ v.tasks # {} /\ v.open # v.tasks /\ Begin(w, CloseCalls(cmd[w], v.rows))

CloseDecide(w) ==
    LET v == view[w]
    IN  /\ step[w] = "truths" /\ Unread(v) = {}
        /\ \/ v.rows = {} /\ Refuse(w, "not_found")
           \/ v.rows # {} /\ v.tasks = {} /\ Refuse(w, "no_children")
           \/ v.open # {} /\ Refuse(w, "open_children")
           \/ v.tasks # {} /\ v.open = {} /\ Begin(w, CloseCalls(cmd[w], v.rows))

\* Answers on which a command gives up; a claim also does when it gets nothing
Defeats == Refusals \cup {Nothing}

\* The next call is answered
Send(w) ==
    LET o == RequestOutcome(db, Head(script[w]), now)
    IN  /\ step[w] = "calls" /\ script[w] # <<>>
        /\ db' = o.graph
        /\ \/ o.answer \in Defeats /\ End(w, "failed")
           \/ o.answer \notin Defeats /\ Len(script[w]) = 1 /\ End(w, "ok")
           \/ /\ o.answer \notin Defeats /\ Len(script[w]) > 1
              /\ script' = [script EXCEPT ![w] = Tail(@)]
              /\ UNCHANGED <<step, cmd, view, verdict>>
        /\ UNCHANGED <<now, started>>

\* Mutant: the error of a call that did not reach the store is ignored
BreakOff_Ignored(w) ==
    /\ step[w] = "calls"
    /\ IF Len(script[w]) = 1 THEN End(w, "ok")
       ELSE /\ script' = [script EXCEPT ![w] = Tail(@)]
            /\ UNCHANGED <<step, cmd, view, verdict>>
    /\ UNCHANGED <<db, now, started>>

\* The command ends in the middle: a read or a call fails, the answer of a
\* call that was carried out is lost, or the process dies
BreakOff(w) ==
    /\ step[w] # "idle"
    /\ \/ UNCHANGED db
       \/ step[w] = "calls" /\ db' = RequestOutcome(db, Head(script[w]), now).graph
    /\ End(w, "failed")
    /\ UNCHANGED <<now, started>>

----------------------------------------------------------------------------
(* The environment. *)

\* The sweep in front of some write, or of a server
Housekeep ==
    /\ \/ AbandonDays > 0 /\ db' = AbandonIdle(db, AbandonDays, now)
       \/ RetentionDays > 0 /\ db' = Purge(db, RetentionDays, now)
    /\ UNCHANGED <<now, step, cmd, view, script, verdict, started>>

Tick ==
    /\ now < MaxTime
    /\ now' = now + 1
    /\ UNCHANGED <<db, step, cmd, view, script, verdict, started>>

Act(w) ==
    \/ \E c \in Commands : Start(w, c) \/ RejectArguments(w, c)
    \/ PlanCheck(w)
    \/ SyncCheck(w)
    \/ CloseExpand(w)
    \/ CloseRows(w)
    \/ CloseTruths(w)
    \/ CloseDecide(w)
    \/ Send(w)
    \/ BreakOff(w)

Next == (\E w \in Workers : Act(w)) \/ Housekeep \/ Tick

Spec == Init /\ [][Next]_vars

----------------------------------------------------------------------------
(* Safety. *)

\* The tasks a plan of the instance names, with the epic they belong to
Planned ==
    UNION {{<<Norm[Children(c)[i]], Norm[c.epic]>> : i \in DOMAIN c.titles} :
             c \in {c \in Commands : c.name = "plan"}}

\* The planned tasks of a graph that can be claimed or are on their epic's board
\* have what they need
NoneHalf(d) ==
    \A p \in Planned :
      LET truth == d.truth[p[1]]
      IN  /\ StatusOf(d, p[1]) = Ready => truth["title"] # Null
          /\ <<p[1], p[2], "part_of">> \in d.rel
               => truth["title"] # Null /\ truth["status"] # Null

\* An agent that looks for work never finds half a task: however many planners
\* race for one epic, and wherever they die, a planned task that can be claimed
\* has a title, and one on its epic's board has a title and a status.
\* (The truths come before the link, the title before READY_TO_DISPATCH.)  It is
\* stated for instances with PlansUndisturbed: a name that is deleted and planned
\* again in the middle of another plan may be ready before it has a title.
NoHalfTasks == NoneHalf(db)

\* Nothing is deleted, and only plans ready or link a planned task
PlansUndisturbed ==
    /\ RetentionDays = 0
    /\ \A d \in InitialGraphs : NoneHalf(d)
    /\ \A c \in Commands :
         /\ c.name \in {"update", "sync"} /\ c.status = Ready
              => \A p \in Planned : Norm[c.task] # p[1]
         /\ c.name = "call"
              => c.request.op \notin {"delete_entities", "truth_delete", "purge", "reset",
                                     "create_relations", "truth_upsert", "update"}

\* The names the plans of the instance give to entities
AllPlanNames == UNION {PlanNames(c) : c \in {c \in Commands : c.name = "plan"}}

\* Only tasks are created under them
OnlyTasksPlanned ==
    \A c \in Commands :
      /\ c.name = "close" => Norm[ProjectOf[c.epic]] \notin AllPlanNames
      /\ c.name = "call" /\ c.request.op = "create_entities"
           => \A j \in DOMAIN c.request.items :
                LET i == c.request.items[j]
                IN  i.type = "task" \/ Norm[i.name] \notin AllPlanNames

\* A plan that reports success has left, at that instant, an epic with all of
\* its tasks on the board, whatever other plans did to its names beside it and
\* whichever calls failed.  (For instances with OnlyTasksPlanned: create_entities
\* leaves an entity of another type that it finds as it is.)
PlanWhole ==
    [][\A w \in Workers :
         (cmd[w].name = "plan" /\ verdict'[w] = "ok" /\ step'[w] # step[w])
         => \A i \in DOMAIN cmd[w].titles :
              LET n == Norm[Children(cmd[w])[i]]
                  e == Norm[cmd[w].epic]
              IN  {n, e} \subseteq Tasks(db') /\ <<n, e, "part_of">> \in db'.rel]_vars

\* The lessons of an epic are never lost to a failure: at the instant a close
\* marks the epic DONE, after which nobody need run it again, its project holds
\* every lesson, whichever of its calls failed or were answered to nobody and
\* whoever else closes the epic.  (For instances that delete no project and
\* give no more lessons than the cap keeps.)
LessonsFirst ==
    [][\A w \in Workers :
         LET e == Norm[cmd[w].epic]
         IN  (/\ cmd[w].name = "close" /\ script'[w] # script[w]
              /\ StatusOf(db, e) # "DONE" /\ StatusOf(db', e) = "DONE")
             => \A i \in DOMAIN cmd[w].lessons :
                  \E o \in db'.obs : /\ o.entity = Norm[ProjectOf[cmd[w].epic]]
                                     /\ o.content = cmd[w].lessons[i]]_vars
=============================================================================
