------------------------- MODULE TaskCommandsProofs -------------------------
(***************************************************************************)
(* What the task commands keep to, for any workers, command lines, names   *)
(* and windows: the types; that nobody finds half a planned task; that a   *)
(* plan that succeeds is whole; and that no close overlooks a task that    *)
(* was open all along.                                                     *)
(***************************************************************************)
EXTENDS TaskHistory, StoreCallsProofs

----------------------------------------------------------------------------
(* The calls a command makes. *)

Calls == {r \in [op : Operations, items : UNION {Seq(ItemsOf(op)) : op \in Operations}] :
            WellFormed(r) /\ r.op # "sweep"}

\* A sequence written as a function.
LEMMA FunctionIsSeq ==
  ASSUME NEW S, NEW n \in Nat, NEW f \in [1..n -> S]
  PROVE  f \in Seq(S) /\ Len(f) = n
  <1>1. f \in Seq(S)
    BY SeqDef
  <1>2. Len(f) \in Nat /\ DOMAIN f = 1..Len(f)
    BY <1>1, LenProperties
  <1> QED
    BY <1>1, <1>2

\* One item makes a call.
LEMMA AskIsCall ==
  ASSUME NEW op \in Operations \ {"sweep"}, NEW item \in ItemsOf(op)
  PROVE  /\ Ask(op, item) \in Calls
         /\ Ask(op, item).op = op /\ Ask(op, item).items = <<item>>
         /\ Len(Ask(op, item).items) = 1 /\ Ask(op, item).items[1] = item
  <1> DEFINE r == Ask(op, item)
  <1>1. r.op = op /\ r.items = <<item>> /\ r = [op |-> r.op, items |-> r.items]
    BY DEF Ask
  <1>2. <<item>> \in Seq(ItemsOf(op)) /\ Len(<<item>>) = 1 /\ <<item>>[1] = item
    OBVIOUS
  <1>3. \A j, k \in DOMAIN <<item>> : <<item>>[j].limit = <<item>>[k].limit
    OBVIOUS
  <1> HIDE DEF r
  <1>4. WellFormed(r)
    BY <1>1, <1>2, <1>3 DEF WellFormed
  <1>5. r \in Calls
    BY <1>1, <1>2, <1>4 DEF Calls
  <1> QED
    BY <1>1, <1>2, <1>5 DEF r

\* A call about a list of entities or relations.
LEMMA ListIsCall ==
  ASSUME NEW op \in {"create_entities", "create_relations"}, NEW n \in Nat,
         NEW items \in [1..n -> ItemsOf(op)]
  PROVE  /\ [op |-> op, items |-> items] \in Calls
         /\ Len(items) = n /\ items \in Seq(ItemsOf(op))
  <1> DEFINE r == [op |-> op, items |-> items]
  <1>1. items \in Seq(ItemsOf(op)) /\ Len(items) = n
    BY FunctionIsSeq
  <1>2. op \in Operations /\ op \in ListOperations /\ op # "add_observations" /\ op # "sweep"
    BY DEF Operations, GraphOperations, ListOperations
  <1>3. r.op = op /\ r.items = items
    OBVIOUS
  <1>4. WellFormed(r)
    BY <1>1, <1>2, <1>3 DEF WellFormed
  <1> QED
    BY <1>1, <1>2, <1>4 DEF Calls

LEMMA CallParts ==
  ASSUME NEW r \in Calls
  PROVE  /\ r.op \in Operations \ {"sweep"} /\ r.items \in Seq(ItemsOf(r.op))
         /\ Len(r.items) \in Nat /\ DOMAIN r.items = 1..Len(r.items) /\ WellFormed(r)
  BY LenProperties DEF Calls, WellFormed

LEMMA SetTruthIsCall ==
  ASSUME NEW n \in Spellings, NEW key \in Keys, NEW value \in Values
  PROVE  /\ SetTruthCall(n, key, value) \in Calls
         /\ SetTruthCall(n, key, value).op = "truth_upsert"
         /\ SetTruthCall(n, key, value).items = <<[name |-> n, key |-> key, value |-> value]>>
  <1> DEFINE i == [name |-> n, key |-> key, value |-> value]
  <1>1. "truth_upsert" \in Operations \ {"sweep"} /\ i \in ItemsOf("truth_upsert")
    BY DEF Operations, GraphOperations, ItemsOf
  <1> HIDE DEF i
  <1> QED
    BY <1>1, AskIsCall DEF SetTruthCall, i

LEMMA NoteIsCall ==
  ASSUME NEW n \in Spellings, NEW contents \in Seq(Contents)
  PROVE  /\ NoteCall(n, contents) \in Calls /\ NoteCall(n, contents).op = "add_observations"
  <1> DEFINE i == [name |-> n, contents |-> contents, limit |-> ObservationLimit]
  <1>1. "add_observations" \in Operations \ {"sweep"} /\ i \in ItemsOf("add_observations")
    BY CommandsAssumption DEF Operations, GraphOperations, ItemsOf
  <1> HIDE DEF i
  <1> QED
    BY <1>1, AskIsCall DEF NoteCall, i

LEMMA CreateIsCall ==
  ASSUME NEW n \in Spellings, NEW type \in Types, NEW contents \in Seq(Contents)
  PROVE  /\ CreateCall(n, type, contents) \in Calls
         /\ CreateCall(n, type, contents).op = "create_entities"
         /\ CreateCall(n, type, contents).items = <<[name |-> n, type |-> type, contents |-> contents]>>
  <1> DEFINE i == [name |-> n, type |-> type, contents |-> contents]
  <1>1. "create_entities" \in Operations \ {"sweep"} /\ i \in ItemsOf("create_entities")
    BY DEF Operations, GraphOperations, ItemsOf
  <1> HIDE DEF i
  <1> QED
    BY <1>1, AskIsCall DEF CreateCall, i

----------------------------------------------------------------------------
(* The script of a plan. *)

PlanLength(c) == 2 * Len(c.titles) + 4

TitleCall(c, i)  == SetTruthCall(Children(c)[i], "title", c.titles[i])
StatusCall(c, i) == SetTruthCall(Children(c)[i], "status", Ready)

CreateAll(c) ==
    [op |-> "create_entities",
     items |-> [i \in DOMAIN Children(c) |->
                  [name |-> Children(c)[i], type |-> "task", contents |-> <<PlanNote[c.titles[i]]>>]]]

LinkAll(c) ==
    [op |-> "create_relations",
     items |-> [i \in DOMAIN Children(c) |->
                  [from |-> Children(c)[i], to |-> c.epic, type |-> "part_of"]]]

PlanLine(c) == c.name = "plan" /\ CommandLine(c)

\* The command line of a plan, and the names of its tasks.
LEMMA PlanParts ==
  ASSUME NEW c, PlanLine(c)
  PROVE  /\ Len(c.titles) \in Nat /\ DOMAIN c.titles = 1..Len(c.titles)
         /\ c.epic \in Spellings /\ Norm[c.epic] \in Names /\ c.objective \in Values
         /\ DOMAIN Children(c) = 1..Len(c.titles)
         /\ \A i \in 1..Len(c.titles) :
              /\ c.titles[i] \in Values
              /\ Children(c)[i] \in Spellings /\ Norm[Children(c)[i]] \in Names
  <1>1. c.epic \in Spellings /\ c.objective \in Values /\ c.titles \in Seq(Values)
        /\ Len(c.titles) <= Len(TaskName[c.epic])
    BY DEF PlanLine, CommandLine
  <1>2. Len(c.titles) \in Nat /\ DOMAIN c.titles = 1..Len(c.titles)
        /\ \A i \in 1..Len(c.titles) : c.titles[i] \in Values
    BY <1>1, LenProperties, ElementOfSeq
  <1>3. TaskName[c.epic] \in Seq(Spellings)
    BY <1>1, CommandsAssumption
  <1>4. \A i \in 1..Len(TaskName[c.epic]) : TaskName[c.epic][i] \in Spellings
    BY <1>3, ElementOfSeq
  <1>5. Len(TaskName[c.epic]) \in Nat
    BY <1>3, LenProperties
  <1>6. \A i \in 1..Len(c.titles) : Children(c)[i] \in Spellings
    BY <1>1, <1>2, <1>4, <1>5 DEF Children
  <1>7. \A s \in Spellings : Norm[s] \in Names
    BY OpsAssumption
  <1> QED
    BY <1>1, <1>2, <1>6, <1>7 DEF Children

LEMMA PlanCallsAreCalls ==
  ASSUME NEW c, PlanLine(c)
  PROVE  /\ CreateCall(c.epic, "task", <<ScopeNote[c.objective]>>) \in Calls
         /\ CreateAll(c) \in Calls
         /\ SetTruthCall(c.epic, "objective", c.objective) \in Calls
         /\ \A i \in 1..Len(c.titles) : TitleCall(c, i) \in Calls /\ StatusCall(c, i) \in Calls
         /\ LinkAll(c) \in Calls
  <1> DEFINE n == Len(c.titles)
             kids == Children(c)
  <1>0. /\ n \in Nat /\ c.epic \in Spellings /\ c.objective \in Values /\ DOMAIN kids = 1..n
        /\ \A i \in 1..n : c.titles[i] \in Values /\ kids[i] \in Spellings
    BY PlanParts
  <1>1. /\ "task" \in Types /\ "part_of" \in RelTypes /\ {"title", "objective", "status"} \subseteq Keys
        /\ Ready \in Values
    BY ColumnsAssumption, OpsAssumption, CommandsAssumption DEF TaskStatuses
  <1>2. \A v \in Values : ScopeNote[v] \in Contents /\ PlanNote[v] \in Contents
    BY CommandsAssumption
  <1>3. <<ScopeNote[c.objective]>> \in Seq(Contents)
    BY <1>0, <1>2
  <1>4. CreateCall(c.epic, "task", <<ScopeNote[c.objective]>>) \in Calls
    BY <1>0, <1>1, <1>3, CreateIsCall
  <1>5. SetTruthCall(c.epic, "objective", c.objective) \in Calls
    BY <1>0, <1>1, SetTruthIsCall
  <1>6. ASSUME NEW i \in 1..n PROVE TitleCall(c, i) \in Calls /\ StatusCall(c, i) \in Calls
    BY <1>0, <1>1, SetTruthIsCall DEF TitleCall, StatusCall
  <1>7. CreateAll(c) \in Calls
    <2> DEFINE items == [i \in 1..n |-> [name |-> kids[i], type |-> "task",
                                         contents |-> <<PlanNote[c.titles[i]]>>]]
    <2>1. ASSUME NEW i \in 1..n PROVE items[i] \in ItemsOf("create_entities")
      <3>1. <<PlanNote[c.titles[i]]>> \in Seq(Contents)
        BY <1>0, <1>2
      <3> QED
        BY <1>0, <1>1, <3>1 DEF ItemsOf
    <2>2. items \in [1..n -> ItemsOf("create_entities")]
      BY <2>1
    <2>3. CreateAll(c) = [op |-> "create_entities", items |-> items]
      BY <1>0 DEF CreateAll
    <2> QED
      BY <1>0, <2>2, <2>3, ListIsCall
  <1>8. LinkAll(c) \in Calls
    <2> DEFINE items == [i \in 1..n |-> [from |-> kids[i], to |-> c.epic, type |-> "part_of"]]
    <2>1. items \in [1..n -> ItemsOf("create_relations")]
      BY <1>0, <1>1 DEF ItemsOf, RelationItems
    <2>2. LinkAll(c) = [op |-> "create_relations", items |-> items]
      BY <1>0 DEF LinkAll
    <2> QED
      BY <1>0, <2>1, <2>2, ListIsCall
  <1> QED
    BY <1>4, <1>5, <1>6, <1>7, <1>8

\* Which call comes when.
LEMMA PlanScript ==
  ASSUME NEW c, PlanLine(c)
  PROVE  /\ PlanCalls(c) \in Seq(Calls) /\ Len(PlanCalls(c)) = PlanLength(c)
         /\ PlanCalls(c)[1] = CreateCall(c.epic, "task", <<ScopeNote[c.objective]>>)
         /\ PlanCalls(c)[2] = CreateAll(c)
         /\ PlanCalls(c)[3] = SetTruthCall(c.epic, "objective", c.objective)
         /\ \A i \in 1..Len(c.titles) : /\ PlanCalls(c)[2 * i + 2] = TitleCall(c, i)
                                        /\ PlanCalls(c)[2 * i + 3] = StatusCall(c, i)
         /\ PlanCalls(c)[PlanLength(c)] = LinkAll(c)
  <1> DEFINE n == Len(c.titles)
             A == <<CreateCall(c.epic, "task", <<ScopeNote[c.objective]>>), CreateAll(c),
                    SetTruthCall(c.epic, "objective", c.objective)>>
             B == Describe(Children(c), c.titles)
             C == <<LinkAll(c)>>
  <1>1. n \in Nat
    BY PlanParts
  <1>2. A \in Seq(Calls) /\ Len(A) = 3 /\ C \in Seq(Calls) /\ Len(C) = 1 /\ C[1] = LinkAll(c)
    BY PlanCallsAreCalls
  <1>3. ASSUME NEW i \in 1..n
        PROVE  /\ 2 * i - 1 \in 1..(2 * n) /\ 2 * i \in 1..(2 * n)
               /\ B[2 * i - 1] = TitleCall(c, i) /\ B[2 * i] = StatusCall(c, i)
    <2>1. /\ 2 * i - 1 \in 1..(2 * n) /\ 2 * i \in 1..(2 * n)
          /\ (2 * i - 1 + 1) \div 2 = i /\ (2 * i + 1) \div 2 = i /\ 2 * i - 1 # 2 * i
      BY <1>1
    <2> QED
      BY <2>1 DEF Describe, TitleCall, StatusCall
  <1>4. ASSUME NEW j \in 1..(2 * n) PROVE \E i \in 1..n : j = 2 * i - 1 \/ j = 2 * i
    <2>1. (j + 1) \div 2 \in 1..n /\ (j = 2 * ((j + 1) \div 2) - 1 \/ j = 2 * ((j + 1) \div 2))
      BY <1>1
    <2> QED
      BY <2>1
  <1>5. B \in Seq(Calls) /\ Len(B) = 2 * n
    <2>1. \A j \in 1..(2 * n) : B[j] \in Calls
      BY <1>3, <1>4, PlanCallsAreCalls
    <2>2. B = [j \in 1..(2 * n) |-> B[j]]
      BY DEF Describe
    <2>3. B \in [1..(2 * n) -> Calls]
      BY <2>1, <2>2
    <2>4. 2 * n \in Nat
      BY <1>1
    <2> QED
      BY <2>3, <2>4, FunctionIsSeq
  <1>6. PlanCalls(c) = A \o B \o C
    BY DEF PlanCalls, CreateAll, LinkAll
  <1> HIDE DEF A, B, C
  <1>7. /\ A \o B \in Seq(Calls) /\ Len(A \o B) = 3 + 2 * n
        /\ \A j \in 1..(3 + 2 * n) : (A \o B)[j] = IF j <= 3 THEN A[j] ELSE B[j - 3]
    <2>1. /\ A \o B \in Seq(Calls) /\ Len(A \o B) = Len(A) + Len(B)
          /\ \A j \in 1..(Len(A) + Len(B)) :
               (A \o B)[j] = IF j <= Len(A) THEN A[j] ELSE B[j - Len(A)]
      BY <1>2, <1>5, ConcatProperties
    <2> QED
      BY <1>2, <1>5, <2>1
  <1>8. /\ PlanCalls(c) \in Seq(Calls) /\ Len(PlanCalls(c)) = 4 + 2 * n
        /\ \A j \in 1..(4 + 2 * n) :
             PlanCalls(c)[j] = IF j <= 3 + 2 * n THEN (A \o B)[j] ELSE C[j - (3 + 2 * n)]
    <2>1. (3 + 2 * n) + 1 = 4 + 2 * n
      BY <1>1
    <2> DEFINE D == A \o B
    <2>2. D \in Seq(Calls) /\ Len(D) = 3 + 2 * n
      BY <1>7
    <2> HIDE DEF D
    <2>3. /\ D \o C \in Seq(Calls) /\ Len(D \o C) = Len(D) + Len(C)
          /\ \A j \in 1..(Len(D) + Len(C)) :
               (D \o C)[j] = IF j <= Len(D) THEN D[j] ELSE C[j - Len(D)]
      BY <1>2, <2>2, ConcatProperties
    <2>4. PlanCalls(c) = D \o C
      BY <1>6 DEF D
    <2> QED
      BY <1>2, <2>1, <2>2, <2>3, <2>4 DEF D
  <1>9. ASSUME NEW j \in 1..3 PROVE PlanCalls(c)[j] = A[j]
    <2>1. j \in 1..(3 + 2 * n) /\ j \in 1..(4 + 2 * n) /\ j <= 3 /\ j <= 3 + 2 * n
      BY <1>1
    <2>2. (A \o B)[j] = A[j]
      BY <1>7, <2>1
    <2>3. PlanCalls(c)[j] = (A \o B)[j]
      BY <1>8, <2>1
    <2> QED
      BY <2>2, <2>3
  <1>10. ASSUME NEW i \in 1..n
         PROVE  /\ PlanCalls(c)[2 * i + 2] = TitleCall(c, i)
                /\ PlanCalls(c)[2 * i + 3] = StatusCall(c, i)
    <2>1. /\ 2 * i + 2 \in 1..(3 + 2 * n) /\ 2 * i + 3 \in 1..(3 + 2 * n)
          /\ ~ (2 * i + 2 <= 3) /\ ~ (2 * i + 3 <= 3)
          /\ 2 * i + 2 \in 1..(4 + 2 * n) /\ 2 * i + 3 \in 1..(4 + 2 * n)
          /\ (2 * i + 2) - 3 = 2 * i - 1 /\ (2 * i + 3) - 3 = 2 * i
          /\ 2 * i + 2 <= 3 + 2 * n /\ 2 * i + 3 <= 3 + 2 * n
      BY <1>1
    <2>2. PlanCalls(c)[2 * i + 2] = B[2 * i - 1] /\ PlanCalls(c)[2 * i + 3] = B[2 * i]
      BY <1>7, <1>8, <2>1
    <2> QED
      BY <1>3, <2>2
  <1>11. PlanCalls(c)[PlanLength(c)] = LinkAll(c)
    <2>1. PlanLength(c) \in 1..(4 + 2 * n) /\ ~ (PlanLength(c) <= 3 + 2 * n) /\ PlanLength(c) - (3 + 2 * n) = 1
      BY <1>1 DEF PlanLength
    <2> QED
      BY <1>2, <1>8, <2>1
  <1>12. Len(PlanCalls(c)) = PlanLength(c)
    BY <1>1, <1>8 DEF PlanLength
  <1>13. /\ A[1] = CreateCall(c.epic, "task", <<ScopeNote[c.objective]>>) /\ A[2] = CreateAll(c)
         /\ A[3] = SetTruthCall(c.epic, "objective", c.objective)
    BY DEF A
  <1> QED
    BY <1>8, <1>9, <1>10, <1>11, <1>12, <1>13

----------------------------------------------------------------------------
(* The calls of the other commands. *)

\* The calls a command may make.
OwnCalls(c) ==
    CASE c.name = "plan"  -> {CreateCall(c.epic, "task", <<ScopeNote[c.objective]>>), CreateAll(c),
                              SetTruthCall(c.epic, "objective", c.objective), LinkAll(c)}
                             \cup {TitleCall(c, i) : i \in 1..Len(c.titles)}
                             \cup {StatusCall(c, i) : i \in 1..Len(c.titles)}
      [] c.name = "sync"  -> {NoteCall(c.task, c.notes), SetTruthCall(c.task, "status", c.status)}
      [] c.name = "close" -> {CreateCall(ProjectOf[c.epic], "project", <<>>),
                              NoteCall(ProjectOf[c.epic], c.lessons),
                              SetTruthCall(c.epic, "status", "DONE"),
                              NoteCall(c.epic, <<OutcomeNote>>)}
      [] OTHER            -> {DirectCalls(c)[1]}

\* A script of calls of that command.
ScriptOf(calls, c) == calls \in Seq(Calls) /\ calls # <<>> /\ calls \in Seq(OwnCalls(c))

LEMMA ScriptFrom ==
  ASSUME NEW S, S \subseteq Calls, NEW c, S \subseteq OwnCalls(c), NEW calls \in Seq(S), calls # <<>>
  PROVE  ScriptOf(calls, c)
  BY SeqMonotonic DEF ScriptOf

LEMMA SyncScript ==
  ASSUME NEW c, c.name = "sync", CommandLine(c), c.status \in TaskStatuses
  PROVE  ScriptOf(SyncCalls(c), c)
  <1> DEFINE note == NoteCall(c.task, c.notes)
             status == SetTruthCall(c.task, "status", c.status)
             S == {note, status}
  <1>1. c.task \in Spellings /\ c.notes \in Seq(Contents) /\ c.status \in Values /\ "status" \in Keys
    BY OpsAssumption, ColumnsAssumption DEF CommandLine
  <1>2. S \subseteq Calls /\ S \subseteq OwnCalls(c)
    BY <1>1, NoteIsCall, SetTruthIsCall DEF OwnCalls
  <1>3. SyncCalls(c) = (IF c.notes = <<>> THEN <<>> ELSE <<note>>) \o <<status>>
    BY DEF SyncCalls
  <1> HIDE DEF note, status
  <1>4. SyncCalls(c) \in Seq(S) /\ SyncCalls(c) # <<>>
    <2>1. CASE c.notes = <<>>
      BY <1>3, <2>1
    <2>2. CASE c.notes # <<>>
      BY <1>3, <2>2
    <2> QED
      BY <2>1, <2>2
  <1> QED
    BY <1>2, <1>4, ScriptFrom

LEMMA CloseScript ==
  ASSUME NEW c, c.name = "close", CommandLine(c), NEW found
  PROVE  ScriptOf(CloseCalls(c, found), c)
  <1> DEFINE home == ProjectOf[c.epic]
             create == CreateCall(home, "project", <<>>)
             lessons == NoteCall(home, c.lessons)
             mark == SetTruthCall(c.epic, "status", "DONE")
             note == NoteCall(c.epic, <<OutcomeNote>>)
             S == {create, lessons, mark, note}
             A == IF c.lessons = <<>> \/ home \in found THEN <<>> ELSE <<create>>
             B == IF c.lessons = <<>> THEN <<>> ELSE <<lessons>>
  <1>1. /\ c.epic \in Spellings /\ c.lessons \in Seq(Contents) /\ home \in Spellings
        /\ "status" \in Keys /\ "DONE" \in Values /\ "project" \in Types
        /\ <<OutcomeNote>> \in Seq(Contents) /\ <<>> \in Seq(Contents)
    BY CommandsAssumption, OpsAssumption, ColumnsAssumption DEF CommandLine, TaskStatuses
  <1>2. create \in Calls /\ lessons \in Calls /\ mark \in Calls /\ note \in Calls
    <2>1. create \in Calls
      BY <1>1, CreateIsCall
    <2>2. lessons \in Calls /\ note \in Calls
      BY <1>1, NoteIsCall
    <2>3. mark \in Calls
      BY <1>1, SetTruthIsCall
    <2> QED
      BY <2>1, <2>2, <2>3
  <1>3. S \subseteq OwnCalls(c)
    BY DEF OwnCalls
  <1>4. CloseCalls(c, found) = A \o B \o <<mark, note>>
    BY DEF CloseCalls
  <1> HIDE DEF create, lessons, mark, note
  <1>5. A \in Seq(S) /\ B \in Seq(S) /\ <<mark, note>> \in Seq(S) /\ Len(<<mark, note>>) = 2
    <2>1. <<create>> \in Seq(S) /\ <<lessons>> \in Seq(S) /\ <<>> \in Seq(S)
      OBVIOUS
    <2>2. A \in Seq(S)
      BY <2>1
    <2>3. B \in Seq(S)
      BY <2>1
    <2>4. <<mark, note>> \in Seq(S) /\ Len(<<mark, note>>) = 2
      OBVIOUS
    <2> QED
      BY <2>2, <2>3, <2>4
  <1>9. S \subseteq Calls
    BY <1>2
  <1> HIDE DEF A, B, S
  <1>6. A \o B \in Seq(S)
    BY <1>5, ConcatProperties
  <1>7. (A \o B) \o <<mark, note>> \in Seq(S) /\ Len((A \o B) \o <<mark, note>>) = Len(A \o B) + 2
    BY <1>5, <1>6, ConcatProperties
  <1>8. CloseCalls(c, found) # <<>>
    BY <1>4, <1>6, <1>7, LenProperties, EmptySeq
  <1> QED
    BY <1>3, <1>4, <1>7, <1>8, <1>9, ScriptFrom

LEMMA DirectScript ==
  ASSUME NEW c, c.name \in {"claim", "update", "call"}, CommandLine(c), ~BadArguments(c)
  PROVE  ScriptOf(DirectCalls(c), c)
  <1>1. ASSUME NEW r \in Calls, DirectCalls(c) = <<r>>
        PROVE  ScriptOf(DirectCalls(c), c)
    <2>1. {r} \subseteq Calls /\ {r} \subseteq OwnCalls(c) /\ <<r>> \in Seq({r}) /\ <<r>> # <<>>
      BY <1>1 DEF OwnCalls
    <2> QED
      BY <1>1, <2>1, ScriptFrom
  <1>2. CASE c.name = "claim"
    <2> DEFINE i == [name |-> c.task, agent |-> c.agent, limit |-> ObservationLimit]
    <2>1. i \in ItemsOf("dispatch") /\ "dispatch" \in Operations \ {"sweep"}
      BY <1>2, CommandsAssumption DEF CommandLine, ItemsOf, Operations, TaskOperations
    <2>2. DirectCalls(c) = <<Ask("dispatch", i)>>
      BY <1>2 DEF DirectCalls
    <2> HIDE DEF i
    <2> QED
      BY <1>1, <2>1, <2>2, AskIsCall
  <1>3. CASE c.name = "update"
    <2> DEFINE i == [name |-> c.task, notes |-> c.notes, status |-> c.status, limit |-> ObservationLimit]
    <2>1. c.status \in Values \cup {Null}
      BY <1>3, OpsAssumption DEF BadArguments, InvalidUpdate
    <2>2. i \in ItemsOf("update") /\ "update" \in Operations \ {"sweep"}
      BY <1>3, <2>1, CommandsAssumption DEF CommandLine, ItemsOf, Operations, TaskOperations
    <2>3. DirectCalls(c) = <<Ask("update", i)>>
      BY <1>3 DEF DirectCalls
    <2> HIDE DEF i
    <2> QED
      BY <1>1, <2>2, <2>3, AskIsCall
  <1>4. CASE c.name = "call"
    <2>1. c.request = [op |-> c.request.op, items |-> c.request.items]
          /\ WellFormed(c.request) /\ c.request.op # "sweep"
      BY <1>4 DEF CommandLine
    <2>2. c.request \in Calls
      BY <2>1 DEF Calls, WellFormed
    <2>3. DirectCalls(c) = <<c.request>>
      BY <1>4 DEF DirectCalls
    <2> QED
      BY <1>1, <2>2, <2>3
  <1> QED
    BY <1>2, <1>3, <1>4

LEMMA PlanScriptOf ==
  ASSUME NEW c, PlanLine(c)
  PROVE  OwnCalls(c) \subseteq Calls
  BY PlanCallsAreCalls DEF OwnCalls, PlanLine

----------------------------------------------------------------------------
(* Types. *)

\* A plan works through its script in order.
Planning(w) == step[w] = "calls" /\ cmd[w].name = "plan"
Sent(w)     == PlanLength(cmd[w]) - Len(script[w])

OnScript(w) ==
    /\ Len(script[w]) \in 1..PlanLength(cmd[w])
    /\ \A j \in 1..Len(script[w]) : script[w][j] = PlanCalls(cmd[w])[Sent(w) + j]

Scripted(w) ==
    /\ step[w] = "idle" <=> cmd[w] = NoCommand
    /\ step[w] = "calls" => script[w] # <<>>
    /\ Planning(w) => OnScript(w)
    /\ step[w] = "calls" /\ ~Planning(w) => script[w] \in Seq(OwnCalls(cmd[w]))
    /\ step[w] \in {"rows", "truths"} => cmd[w].name = "close"

Typed ==
    /\ Consistent(db) /\ now \in Nat /\ started \in Nat
    /\ step \in [Workers -> Steps]
    /\ cmd \in [Workers -> Commands \cup {NoCommand}]
    /\ view \in [Workers -> Views]
    /\ script \in [Workers -> Seq(Calls)]
    /\ verdict \in [Workers -> Verdicts]

TasksInv == Typed /\ \A w \in Workers : Scripted(w)

LEMMA CommandsAreLines ==
  ASSUME NEW c \in Commands
  PROVE  CommandLine(c) /\ c # NoCommand
         /\ c.name \in {"plan", "claim", "update", "sync", "close", "call"}
  <1>1. CommandLine(c)
    BY CommandLinesAssumption
  <1>2. c.name \in {"plan", "claim", "update", "sync", "close", "call"}
    BY <1>1 DEF CommandLine
  <1> QED
    BY <1>1, <1>2 DEF NoCommand

LEMMA TasksTypeOK ==
  ASSUME TasksInv
  PROVE  TypeOK
  <1>1. ASSUME NEW w \in Workers, NEW j \in DOMAIN script[w]
        PROVE  WellFormed(script[w][j])
    <2>1. script[w] \in Seq(Calls)
      BY DEF TasksInv, Typed
    <2>2. script[w][j] \in Calls
      BY <2>1, LenProperties, ElementOfSeq
    <2> QED
      BY <2>2, CallParts
  <1> QED
    BY <1>1, ConsistentIsDatabase DEF TypeOK, TasksInv, Typed, Scripted

\* How a step of the system may move a worker.
Stays(w) == cmd'[w] = cmd[w] /\ step'[w] = step[w] /\ script'[w] = script[w]
Stops(w) == cmd'[w] = NoCommand /\ step'[w] = "idle" /\ script'[w] = <<>>
Reads(w) == /\ cmd'[w] \in Commands /\ step'[w] \in {"check", "rows", "truths"}
            /\ step'[w] # "check" => cmd'[w].name = "close"
            /\ script'[w] = script[w]
BeginsPlan(w) == /\ cmd'[w] = cmd[w] /\ cmd[w] \in Commands /\ cmd[w].name = "plan"
                 /\ step'[w] = "calls" /\ script'[w] = PlanCalls(cmd[w])
                 /\ PlanNames(cmd[w]) \cap Live(db) = {} /\ db' = db
BeginsOther(w) == /\ cmd'[w] \in Commands /\ cmd'[w].name # "plan" /\ step'[w] = "calls"
                  /\ ScriptOf(script'[w], cmd'[w]) /\ db' = db
Advances(w) == /\ Send(w) /\ Len(script[w]) > 1
               /\ RequestOutcome(db, Head(script[w]), now).answer \notin Defeats
               /\ cmd'[w] = cmd[w] /\ step'[w] = step[w] /\ script'[w] = Tail(script[w])

Moves(w) == Stays(w) \/ Stops(w) \/ Reads(w) \/ BeginsPlan(w) \/ BeginsOther(w) \/ Advances(w)

\* What is left of a step that is about one worker.
Only(w) == \A u \in Workers \ {w} : Stays(u)

\* How a step may move the graph.
CallMade(w) ==
    /\ step[w] = "calls" /\ script[w] # <<>>
    /\ db' = RequestOutcome(db, Head(script[w]), now).graph

GraphMoves ==
    \/ db' = db
    \/ \E w \in Workers : CallMade(w)
    \/ db' = AbandonIdle(db, AbandonDays, now)
    \/ RetentionDays > 0 /\ db' = Purge(db, RetentionDays, now)

\* The columns besides the graph.
Columned ==
    /\ now \in Nat /\ started \in Nat
    /\ step \in [Workers -> Steps]
    /\ cmd \in [Workers -> Commands \cup {NoCommand}]
    /\ view \in [Workers -> Views]
    /\ script \in [Workers -> Seq(Calls)]
    /\ verdict \in [Workers -> Verdicts]

LEMMA EndMoves ==
  ASSUME Columned, NEW w \in Workers, NEW how \in Verdicts, End(w, how), UNCHANGED <<now, started>>
  PROVE  Columned' /\ Stops(w) /\ Only(w)
  <1>1. NoView \in Views /\ <<>> \in Seq(Calls) /\ "idle" \in Steps
    BY DEF NoView, Views, Steps
  <1>2. /\ step' = [step EXCEPT ![w] = "idle"] /\ cmd' = [cmd EXCEPT ![w] = NoCommand]
        /\ view' = [view EXCEPT ![w] = NoView] /\ script' = [script EXCEPT ![w] = <<>>]
        /\ verdict' = [verdict EXCEPT ![w] = how]
    BY DEF End, Goto
  <1>3. Columned'
    BY <1>1, <1>2 DEF Columned
  <1>4. Stops(w)
    BY <1>2 DEF Columned, Stops
  <1>5. Only(w)
    BY <1>2 DEF Columned, Only, Stays
  <1> QED
    BY <1>3, <1>4, <1>5

LEMMA BeginMoves ==
  ASSUME Columned, NEW w \in Workers, NEW calls \in Seq(Calls), Begin(w, calls)
  PROVE  /\ Columned' /\ Only(w) /\ db' = db
         /\ cmd'[w] = cmd[w] /\ step'[w] = "calls" /\ script'[w] = calls
  BY DEF Begin, Goto, Columned, Only, Stays, Steps

\* Every step of a worker moves that worker only, and makes at most its call.
LEMMA ActMoves ==
  ASSUME TasksInv, NEW w \in Workers, Act(w)
  PROVE  Columned' /\ Only(w) /\ Moves(w) /\ (db' = db \/ CallMade(w))
  <1> DEFINE Goal == Columned' /\ Only(w) /\ Moves(w) /\ (db' = db \/ CallMade(w))
  <1>0. Columned /\ Scripted(w) /\ Consistent(db) /\ db \in Databases
    BY ConsistentIsDatabase DEF TasksInv, Typed, Columned
  <1>a. step[w] # "idle" => cmd[w] \in Commands /\ CommandLine(cmd[w])
    BY <1>0, CommandsAreLines DEF Scripted, Columned
  <1>b. ASSUME NEW how \in Verdicts, End(w, how), UNCHANGED <<now, started>>, db' = db \/ CallMade(w)
        PROVE  Goal
    BY <1>0, <1>b, EndMoves DEF Moves
  <1>c. ASSUME NEW why \in Verdicts, Refuse(w, why) PROVE Goal
    BY <1>b, <1>c DEF Refuse
  <1> SUFFICES Goal
    OBVIOUS
  <1> HIDE DEF Goal
  <1>1. ASSUME NEW c \in Commands, Start(w, c) PROVE Goal
    <2>1. /\ cmd' = [cmd EXCEPT ![w] = c] /\ verdict' = [verdict EXCEPT ![w] = "none"]
          /\ started' = started + 1 /\ now' = now /\ view' = view /\ db' = db /\ ~BadArguments(c)
          /\ step[w] = "idle"
      BY <1>1 DEF Start
    <2>2. CommandLine(c)
      BY CommandsAreLines
    <2>3. CASE c.name \in {"claim", "update", "call"}
      <3>1. step' = [step EXCEPT ![w] = "calls"] /\ script' = [script EXCEPT ![w] = DirectCalls(c)]
        BY <1>1, <2>3 DEF Start, Goto
      <3>2. ScriptOf(DirectCalls(c), c)
        BY <2>1, <2>2, <2>3, DirectScript
      <3>3. Columned'
        BY <1>0, <2>1, <3>1, <3>2 DEF Columned, Steps, Verdicts, ScriptOf
      <3>4. BeginsOther(w) /\ Only(w)
        BY <1>0, <2>1, <2>3, <3>1, <3>2 DEF Columned, BeginsOther, Only, Stays
      <3> QED
        BY <2>1, <3>3, <3>4 DEF Goal, Moves
    <2>4. CASE c.name \notin {"claim", "update", "call"}
      <3>1. step' = [step EXCEPT ![w] = "check"] /\ script' = script
        BY <1>1, <2>4 DEF Start, Goto
      <3>2. Columned'
        BY <1>0, <2>1, <3>1 DEF Columned, Steps, Verdicts
      <3>3. Reads(w) /\ Only(w)
        BY <1>0, <2>1, <3>1 DEF Columned, Reads, Only, Stays
      <3> QED
        BY <2>1, <3>2, <3>3 DEF Goal, Moves
    <2> QED
      BY <2>3, <2>4
  <1>2. ASSUME NEW c \in Commands, RejectArguments(w, c) PROVE Goal
    <2>1. /\ UNCHANGED <<db, now, step, cmd, view, script>> /\ started' = started + 1
          /\ verdict' = [verdict EXCEPT ![w] = "bad_arguments"]
      BY <1>2 DEF RejectArguments
    <2>2. Columned'
      BY <1>0, <2>1 DEF Columned, Verdicts
    <2>3. Stays(w) /\ Only(w)
      BY <2>1 DEF Stays, Only
    <2> QED
      BY <2>1, <2>2, <2>3 DEF Goal, Moves
  <1>3. CASE PlanCheck(w)
    <2>1. step[w] = "check" /\ cmd[w].name = "plan"
      BY <1>3 DEF PlanCheck
    <2>2. PlanLine(cmd[w]) /\ cmd[w] \in Commands
      BY <1>a, <2>1 DEF PlanLine
    <2>3. CASE PlanNames(cmd[w]) \cap Live(db) # {}
      BY <1>3, <1>c, <2>3 DEF PlanCheck, Verdicts
    <2>4. CASE PlanNames(cmd[w]) \cap Live(db) = {}
      <3>1. Begin(w, PlanCalls(cmd[w]))
        BY <1>3, <2>4 DEF PlanCheck
      <3>2. PlanCalls(cmd[w]) \in Seq(Calls)
        BY <2>2, PlanScript
      <3>3. /\ Columned' /\ Only(w) /\ db' = db
            /\ cmd'[w] = cmd[w] /\ step'[w] = "calls" /\ script'[w] = PlanCalls(cmd[w])
        BY <1>0, <3>1, <3>2, BeginMoves
      <3> QED
        BY <2>1, <2>2, <2>4, <3>3 DEF Goal, Moves, BeginsPlan
    <2> QED
      BY <2>3, <2>4
  <1>d. ASSUME NEW calls, Begin(w, calls), ScriptOf(calls, cmd[w]), cmd[w] \in Commands,
               cmd[w].name # "plan"
        PROVE  Goal
    <2>1. /\ Columned' /\ Only(w) /\ db' = db
          /\ cmd'[w] = cmd[w] /\ step'[w] = "calls" /\ script'[w] = calls
      BY <1>0, <1>d, BeginMoves DEF ScriptOf
    <2> QED
      BY <1>d, <2>1 DEF Goal, Moves, BeginsOther
  <1>4. CASE SyncCheck(w)
    <2>1. step[w] = "check" /\ cmd[w].name = "sync"
      BY <1>4 DEF SyncCheck
    <2>2. CommandLine(cmd[w]) /\ cmd[w] \in Commands
      BY <1>a, <2>1
    <2>3. CASE \E why \in Verdicts : Refuse(w, why)
      BY <1>c, <2>3
    <2>4. CASE cmd[w].status \in TaskStatuses /\ Begin(w, SyncCalls(cmd[w]))
      BY <1>d, <2>1, <2>2, <2>4, SyncScript
    <2> QED
      BY <1>4, <2>3, <2>4 DEF SyncCheck, Verdicts
  <1>5. CASE CloseExpand(w)
    <2> DEFINE e == Norm[cmd[w].epic]
               near == {r \in db.rel : r[3] = "part_of" /\ e \in {r[1], r[2]}}
               names == {e} \cup {r[1] : r \in near} \cup {r[2] : r \in near}
    <2>1. /\ step[w] = "check" /\ cmd[w].name = "close"
          /\ view' = [view EXCEPT ![w].names = names] /\ step' = [step EXCEPT ![w] = "rows"]
          /\ UNCHANGED <<db, now, cmd, script, verdict, started>>
      BY <1>5 DEF CloseExpand, Goto
    <2>2. cmd[w] \in Commands /\ cmd[w].epic \in Spellings
      BY <1>a, <2>1 DEF CommandLine
    <2>3. db.rel \subseteq Names \X Names \X RelTypes
      BY <1>0, Columns
    <2>4. names \in SUBSET Names
      BY <2>2, <2>3, OpsAssumption
    <2> HIDE DEF names
    <2>5. view[w] \in Views
      BY <1>0 DEF Columned
    <2>6. [view[w] EXCEPT !.names = names] \in Views
      BY <2>4, <2>5 DEF Views
    <2>7. view' \in [Workers -> Views]
      BY <1>0, <2>1, <2>6 DEF Columned
    <2>8. Columned'
      BY <1>0, <2>1, <2>7 DEF Columned, Steps
    <2>9. Reads(w) /\ Only(w)
      BY <1>0, <2>1, <2>2 DEF Columned, Reads, Only, Stays
    <2> QED
      BY <2>1, <2>8, <2>9 DEF Goal, Moves
  <1>6. CASE CloseRows(w)
    <2> DEFINE rows == view[w].names \cap Live(db)
               tasks == {n \in rows \cap Tasks(db) : n # cmd[w].epic}
               v == [names |-> view[w].names, rows |-> rows, tasks |-> tasks, done |-> {}, open |-> {}]
    <2>1. /\ step[w] = "rows" /\ view' = [view EXCEPT ![w] = v] /\ step' = [step EXCEPT ![w] = "truths"]
          /\ UNCHANGED <<db, now, cmd, script, verdict, started>>
      BY <1>0, <1>6 DEF CloseRows, Goto, Columned
    <2>2. view[w] \in Views
      BY <1>0 DEF Columned
    <2>3. v \in Views
      BY <2>2 DEF Views, Live
    <2> HIDE DEF v
    <2>4. Columned'
      BY <1>0, <2>1, <2>3 DEF Columned, Steps
    <2>5. Reads(w) /\ Only(w)
      BY <1>0, <1>a, <2>1 DEF Columned, Reads, Only, Stays, Scripted
    <2> QED
      BY <2>1, <2>4, <2>5 DEF Goal, Moves
  <1>7. CASE CloseTruths(w)
    <2>1. /\ step[w] = "truths" /\ UNCHANGED <<db, now, step, cmd, script, verdict, started>>
          /\ \E n \in Unread(view[w]) : \/ view' = [view EXCEPT ![w].done = @ \cup {n}]
                                        \/ view' = [view EXCEPT ![w].open = @ \cup {n}]
      BY <1>7 DEF CloseTruths
    <2>2. view[w] \in Views
      BY <1>0 DEF Columned
    <2>3. PICK n \in Unread(view[w]) : \/ view' = [view EXCEPT ![w].done = @ \cup {n}]
                                       \/ view' = [view EXCEPT ![w].open = @ \cup {n}]
      BY <2>1
    <2>4. n \in Names
      BY <2>2 DEF Unread, Views
    <2>5. /\ [view[w] EXCEPT !.done = view[w].done \cup {n}] \in Views
          /\ [view[w] EXCEPT !.open = view[w].open \cup {n}] \in Views
      BY <2>2, <2>4 DEF Views
    <2>6. view' \in [Workers -> Views]
      BY <1>0, <2>3, <2>5 DEF Columned
    <2>7. Columned'
      BY <1>0, <2>1, <2>6 DEF Columned
    <2>8. Stays(w) /\ Only(w)
      BY <2>1 DEF Stays, Only
    <2> QED
      BY <2>1, <2>7, <2>8 DEF Goal, Moves
  <1>8. CASE CloseDecide(w)
    <2>1. CASE \E why \in Verdicts : Refuse(w, why)
      BY <1>c, <2>1
    <2>2. CASE Begin(w, CloseCalls(cmd[w], view[w].rows))
      <3>1. step[w] = "truths"
        BY <1>8 DEF CloseDecide
      <3>2. cmd[w].name = "close" /\ cmd[w] \in Commands /\ CommandLine(cmd[w])
        BY <1>0, <1>a, <3>1 DEF Scripted
      <3> QED
        BY <1>d, <2>2, <3>2, CloseScript
    <2> QED
      BY <1>8, <2>1, <2>2 DEF CloseDecide, Verdicts
  <1>9. CASE Send(w)
    <2>1. /\ step[w] = "calls" /\ script[w] # <<>> /\ UNCHANGED <<now, started>>
          /\ db' = RequestOutcome(db, Head(script[w]), now).graph
      BY <1>9 DEF Send
    <2>2. CallMade(w)
      BY <2>1 DEF CallMade
    <2>3. CASE \E how \in Verdicts : End(w, how)
      BY <1>b, <2>1, <2>2, <2>3
    <2>4. CASE /\ RequestOutcome(db, Head(script[w]), now).answer \notin Defeats /\ Len(script[w]) > 1
               /\ script' = [script EXCEPT ![w] = Tail(@)]
               /\ UNCHANGED <<step, cmd, view, verdict>>
      <3>1. script[w] \in Seq(Calls)
        BY <1>0 DEF Columned
      <3>2. Tail(script[w]) \in Seq(Calls)
        BY <2>1, <3>1, HeadTailProperties
      <3>3. Columned'
        BY <1>0, <2>1, <2>4, <3>2 DEF Columned
      <3>4. Advances(w)
        BY <1>0, <1>9, <2>4 DEF Advances, Columned
      <3>5. Only(w)
        BY <1>0, <2>4 DEF Only, Stays, Columned
      <3> QED
        BY <2>2, <3>3, <3>4, <3>5 DEF Goal, Moves
    <2> QED
      BY <1>9, <2>3, <2>4 DEF Send, Verdicts
  <1>10. CASE BreakOff(w)
    <2>1. End(w, "failed") /\ UNCHANGED <<now, started>> /\ "failed" \in Verdicts
      BY <1>10 DEF BreakOff, Verdicts
    <2>2. db' = db \/ CallMade(w)
      BY <1>0, <1>10 DEF BreakOff, CallMade, Scripted
    <2> QED
      BY <1>b, <2>1, <2>2
  <1> QED
    BY <1>1, <1>2, <1>3, <1>4, <1>5, <1>6, <1>7, <1>8, <1>9, <1>10 DEF Act

\* Every step of the system.
LEMMA NextMoves ==
  ASSUME TasksInv, [Next]_vars
  PROVE  Columned' /\ GraphMoves /\ \A w \in Workers : Moves(w)
  <1>0. Columned
    BY DEF TasksInv, Typed, Columned
  <1>1. ASSUME NEW w \in Workers, Act(w)
        PROVE  Columned' /\ GraphMoves /\ \A u \in Workers : Moves(u)
    <2>1. Columned' /\ Only(w) /\ Moves(w) /\ (db' = db \/ CallMade(w))
      BY <1>1, ActMoves
    <2>2. \A u \in Workers \ {w} : Moves(u)
      BY <2>1 DEF Only, Moves
    <2>3. GraphMoves
      BY <2>1 DEF GraphMoves
    <2> QED
      BY <2>1, <2>2, <2>3
  <1>2. CASE Housekeep
    <2>1. UNCHANGED <<now, step, cmd, view, script, verdict, started>>
      BY <1>2 DEF Housekeep
    <2>2. Columned' /\ \A u \in Workers : Moves(u)
      BY <1>0, <2>1 DEF Columned, Moves, Stays
    <2>3. GraphMoves
      BY <1>2 DEF Housekeep, GraphMoves
    <2> QED
      BY <2>2, <2>3
  <1>3. CASE Tick
    BY <1>0, <1>3 DEF Tick, Columned, Moves, Stays, GraphMoves
  <1>4. CASE UNCHANGED vars
    BY <1>0, <1>4 DEF vars, Columned, Moves, Stays, GraphMoves
  <1> QED
    BY <1>1, <1>2, <1>3, <1>4 DEF Next

\* The next call of a worker.
LEMMA NextCall ==
  ASSUME TasksInv, NEW w \in Workers, step[w] = "calls"
  PROVE  /\ script[w] \in Seq(Calls) /\ script[w] # <<>>
         /\ Head(script[w]) \in Calls /\ Head(script[w]) = script[w][1]
         /\ Tail(script[w]) \in Seq(Calls) /\ Len(Tail(script[w])) = Len(script[w]) - 1
         /\ \A j \in 1..(Len(script[w]) - 1) : Tail(script[w])[j] = script[w][j + 1]
         /\ Len(script[w]) \in Nat \ {0}
  <1>1. script[w] \in Seq(Calls) /\ script[w] # <<>>
    BY DEF TasksInv, Typed, Scripted
  <1>2. Len(script[w]) \in Nat \ {0}
    BY <1>1, EmptySeq
  <1>3. /\ Head(script[w]) \in Calls /\ Tail(script[w]) \in Seq(Calls)
        /\ Len(Tail(script[w])) = Len(script[w]) - 1
        /\ \A j \in 1..Len(Tail(script[w])) : Tail(script[w])[j] = script[w][j + 1]
    BY <1>1, HeadTailProperties
  <1>4. Head(script[w]) = script[w][1]
    BY <1>1
  <1> QED
    BY <1>1, <1>2, <1>3, <1>4

LEMMA GraphStaysConsistent ==
  ASSUME TasksInv, GraphMoves
  PROVE  Consistent(db')
  <1>0. Consistent(db) /\ now \in Nat
    BY DEF TasksInv, Typed
  <1>1. ASSUME NEW w \in Workers, CallMade(w) PROVE Consistent(db')
    <2>1. Head(script[w]) \in Calls
      BY <1>1, NextCall DEF CallMade
    <2>2. Consistent(RequestOutcome(db, Head(script[w]), now).graph)
      BY <1>0, <2>1, CallParts, CallConsistent
    <2> QED
      BY <1>1, <2>2 DEF CallMade
  <1>2. Consistent(AbandonIdle(db, AbandonDays, now)) /\ Consistent(Purge(db, RetentionDays, now))
    BY <1>0, AbandonIdleSound, PurgeSound DEF Sound
  <1> QED
    BY <1>0, <1>1, <1>2 DEF GraphMoves

\* A worker's script stays what it is supposed to be.
LEMMA ScriptKept ==
  ASSUME TasksInv, NEW w \in Workers, Moves(w)
  PROVE  Scripted(w)'
  <1>0. Scripted(w)
    BY DEF TasksInv
  <1>1. CASE Stays(w)
    BY <1>0, <1>1 DEF Stays, Scripted, Planning, OnScript, Sent
  <1>2. CASE Stops(w)
    BY <1>2 DEF Stops, Scripted, Planning
  <1>3. CASE Reads(w)
    <2>1. cmd'[w] # NoCommand
      BY <1>3, CommandsAreLines DEF Reads
    <2> QED
      BY <1>3, <2>1 DEF Reads, Scripted, Planning
  <1>4. CASE BeginsPlan(w)
    <2>1. PlanLine(cmd[w]) /\ cmd[w] # NoCommand
      BY <1>4, CommandsAreLines DEF BeginsPlan, PlanLine
    <2>2. PlanCalls(cmd[w]) \in Seq(Calls) /\ Len(PlanCalls(cmd[w])) = PlanLength(cmd[w])
      BY <2>1, PlanScript
    <2>3. PlanLength(cmd[w]) \in Nat \ {0}
      BY <2>1, PlanParts DEF PlanLength
    <2>4. Len(script'[w]) = PlanLength(cmd'[w]) /\ Sent(w)' = 0
      BY <1>4, <2>2, <2>3 DEF BeginsPlan, Sent
    <2>5. script'[w] # <<>>
      <3>1. Len(script'[w]) # Len(<<>>)
        <4>1. Len(<<>>) = 0
          OBVIOUS
        <4> QED
          BY <1>4, <2>3, <2>4, <4>1 DEF BeginsPlan
      <3> QED
        BY <3>1
    <2>6. OnScript(w)'
      BY <1>4, <2>2, <2>3, <2>4 DEF BeginsPlan, OnScript
    <2> QED
      BY <1>4, <2>1, <2>5, <2>6 DEF BeginsPlan, Scripted, Planning
  <1>5. CASE BeginsOther(w)
    <2>1. cmd'[w] # NoCommand
      BY <1>5, CommandsAreLines DEF BeginsOther
    <2> QED
      BY <1>5, <2>1 DEF BeginsOther, Scripted, Planning, ScriptOf
  <1>6. CASE Advances(w)
    <2>1. step[w] = "calls" /\ script'[w] = Tail(script[w]) /\ cmd'[w] = cmd[w] /\ step'[w] = step[w]
          /\ Len(script[w]) > 1
      BY <1>6 DEF Advances, Send
    <2> DEFINE n == Len(script[w])
    <2>2. /\ n \in Nat /\ Len(script'[w]) = n - 1
          /\ \A j \in 1..(n - 1) : script'[w][j] = script[w][j + 1]
      BY <2>1, NextCall
    <2>3. script'[w] # <<>>
      <3>1. Len(script'[w]) # Len(<<>>)
        <4>1. Len(<<>>) = 0
          OBVIOUS
        <4>2. n > 1
          BY <2>1
        <4> HIDE DEF n
        <4>3. Len(script'[w]) # 0
          BY <2>2, <4>2
        <4> QED
          BY <4>1, <4>3
      <3> QED
        BY <3>1
    <2>4. Planning(w)' => OnScript(w)'
      <3> SUFFICES ASSUME Planning(w)' PROVE OnScript(w)'
        OBVIOUS
      <3>1. Planning(w) /\ OnScript(w)
        BY <1>0, <2>1 DEF Planning, Scripted
      <3>2. PlanLength(cmd[w]) \in Nat
        <4>1. PlanLine(cmd[w])
          BY <3>1, <2>1, <1>0, CommandsAreLines DEF Planning, PlanLine, TasksInv, Typed, Scripted
        <4> QED
          BY <4>1, PlanParts DEF PlanLength
      <3>3. Sent(w)' = Sent(w) + 1 /\ Sent(w) \in Nat
        BY <2>1, <2>2, <3>1, <3>2 DEF Sent, OnScript
      <3>4. Len(script'[w]) \in 1..PlanLength(cmd'[w])
        BY <2>1, <2>2, <3>1, <3>2 DEF OnScript
      <3>5. ASSUME NEW j \in 1..Len(script'[w])
            PROVE  script'[w][j] = PlanCalls(cmd'[w])[Sent(w)' + j]
        <4>1. j \in 1..(n - 1) /\ j + 1 \in 1..n /\ Sent(w) + (j + 1) = Sent(w)' + j
          BY <2>2, <3>3
        <4>2. script[w][j + 1] = PlanCalls(cmd[w])[Sent(w) + (j + 1)]
          BY <3>1, <4>1 DEF OnScript
        <4> QED
          BY <2>1, <2>2, <4>1, <4>2
      <3> QED
        BY <3>4, <3>5 DEF OnScript
    <2>5. ~Planning(w)' => script'[w] \in Seq(OwnCalls(cmd'[w]))
      <3> SUFFICES ASSUME ~Planning(w)' PROVE script'[w] \in Seq(OwnCalls(cmd'[w]))
        OBVIOUS
      <3>1. ~Planning(w)
        BY <2>1 DEF Planning
      <3>2. script[w] \in Seq(OwnCalls(cmd[w])) /\ script[w] # <<>>
        BY <1>0, <2>1, <3>1 DEF Scripted
      <3> QED
        BY <2>1, <3>2, HeadTailProperties
    <2> QED
      BY <1>0, <2>1, <2>3, <2>4, <2>5 DEF Scripted
  <1> QED
    BY <1>1, <1>2, <1>3, <1>4, <1>5, <1>6 DEF Moves

LEMMA InitTasksInv ==
  ASSUME Init
  PROVE  TasksInv
  <1>1. Consistent(db) /\ now \in Nat /\ started \in Nat
    BY CommandsAssumption DEF Init
  <1>2. NoView \in Views /\ <<>> \in Seq(Calls) /\ "idle" \in Steps /\ "none" \in Verdicts
    BY DEF NoView, Views, Steps, Verdicts
  <1>3. Typed
    BY <1>1, <1>2 DEF Init, Typed
  <1>4. \A w \in Workers : Scripted(w)
    BY DEF Init, Scripted, Planning
  <1> QED
    BY <1>3, <1>4 DEF TasksInv

LEMMA NextTasksInv ==
  ASSUME TasksInv, [Next]_vars
  PROVE  TasksInv'
  <1>1. Columned' /\ GraphMoves /\ \A w \in Workers : Moves(w)
    BY NextMoves
  <1>2. Consistent(db')
    BY <1>1, GraphStaysConsistent
  <1>3. \A w \in Workers : Scripted(w)'
    BY <1>1, ScriptKept
  <1> QED
    BY <1>1, <1>2, <1>3 DEF TasksInv, Typed, Columned

\* TasksInv is an invariant of the task commands.
THEOREM TasksInvariant == Spec => []TasksInv
  <1>1. Init => TasksInv
    BY InitTasksInv
  <1>2. TasksInv /\ [Next]_vars => TasksInv'
    BY NextTasksInv
  <1> QED
    BY <1>1, <1>2, PTL DEF Spec

\* Whatever the commands do, the graph is well-typed, every call still to be
\* made is one the store takes, and a worker is idle when it has no command.
THEOREM TasksWellTyped == Spec => []TypeOK
  <1>1. TasksInv => TypeOK
    BY TasksTypeOK
  <1> QED
    BY <1>1, TasksInvariant, PTL

----------------------------------------------------------------------------
(* No half tasks. *)

\* The k-th call of a plan.
LEMMA PlanCallAt ==
  ASSUME NEW c, PlanLine(c), NEW k \in 1..PlanLength(c)
  PROVE  \/ k = 1 /\ PlanCalls(c)[k] = CreateCall(c.epic, "task", <<ScopeNote[c.objective]>>)
         \/ k = 2 /\ PlanCalls(c)[k] = CreateAll(c)
         \/ k = 3 /\ PlanCalls(c)[k] = SetTruthCall(c.epic, "objective", c.objective)
         \/ \E i \in 1..Len(c.titles) : k = 2 * i + 2 /\ PlanCalls(c)[k] = TitleCall(c, i)
         \/ \E i \in 1..Len(c.titles) : k = 2 * i + 3 /\ PlanCalls(c)[k] = StatusCall(c, i)
         \/ k = PlanLength(c) /\ PlanCalls(c)[k] = LinkAll(c)
  <1> DEFINE n == Len(c.titles)
  <1>1. n \in Nat
    BY PlanParts
  <1>2. \/ k \in {1, 2, 3} \/ k = PlanLength(c)
        \/ (k \div 2) - 1 \in 1..n /\ (k = 2 * ((k \div 2) - 1) + 2 \/ k = 2 * ((k \div 2) - 1) + 3)
    BY <1>1 DEF PlanLength
  <1> QED
    BY <1>2, PlanScript

\* The operations of the calls of a plan, and what they say.
LEMMA PlanCallParts ==
  ASSUME NEW c, PlanLine(c)
  PROVE  /\ LET r == CreateCall(c.epic, "task", <<ScopeNote[c.objective]>>)
            IN  r.op = "create_entities" /\ Len(r.items) = 1 /\ r.items[1].type = "task"
         /\ CreateAll(c).op = "create_entities"
         /\ Len(CreateAll(c).items) = Len(c.titles)
         /\ \A i \in 1..Len(c.titles) : CreateAll(c).items[i].type = "task"
         /\ LET r == SetTruthCall(c.epic, "objective", c.objective)
            IN  r.op = "truth_upsert" /\ Len(r.items) = 1 /\ r.items[1].key = "objective"
         /\ \A i \in 1..Len(c.titles) :
              /\ TitleCall(c, i).op = "truth_upsert" /\ Len(TitleCall(c, i).items) = 1
              /\ TitleCall(c, i).items[1] =
                   [name |-> Children(c)[i], key |-> "title", value |-> c.titles[i]]
              /\ StatusCall(c, i).op = "truth_upsert" /\ Len(StatusCall(c, i).items) = 1
              /\ StatusCall(c, i).items[1] =
                   [name |-> Children(c)[i], key |-> "status", value |-> Ready]
         /\ LinkAll(c).op = "create_relations"
         /\ LinkAll(c).items \in Seq(RelationItems) /\ Len(LinkAll(c).items) = Len(c.titles)
         /\ \A i \in 1..Len(c.titles) :
              LinkAll(c).items[i] = [from |-> Children(c)[i], to |-> c.epic, type |-> "part_of"]
  <1> DEFINE n == Len(c.titles)
             kids == Children(c)
  <1>0. /\ n \in Nat /\ c.epic \in Spellings /\ c.objective \in Values /\ DOMAIN kids = 1..n
        /\ \A i \in 1..n : c.titles[i] \in Values /\ kids[i] \in Spellings
    BY PlanParts
  <1>1. "part_of" \in RelTypes
    BY ColumnsAssumption
  <1>2. LET r == CreateCall(c.epic, "task", <<ScopeNote[c.objective]>>)
        IN  r.op = "create_entities" /\ Len(r.items) = 1 /\ r.items[1].type = "task"
    BY DEF CreateCall, Ask
  <1>3. /\ CreateAll(c).op = "create_entities" /\ Len(CreateAll(c).items) = n
        /\ \A i \in 1..n : CreateAll(c).items[i].type = "task"
    <2> DEFINE items == [i \in 1..n |-> [name |-> kids[i], type |-> "task",
                                         contents |-> <<PlanNote[c.titles[i]]>>]]
    <2>1. CreateAll(c) = [op |-> "create_entities", items |-> items]
      BY <1>0 DEF CreateAll
    <2>2. items \in [1..n -> {items[i] : i \in 1..n}]
      OBVIOUS
    <2>3. Len(items) = n
      BY <1>0, <2>2, FunctionIsSeq
    <2>4. \A i \in 1..n : items[i].type = "task"
      OBVIOUS
    <2> HIDE DEF items
    <2> QED
      BY <2>1, <2>3, <2>4
  <1>4. LET r == SetTruthCall(c.epic, "objective", c.objective)
        IN  r.op = "truth_upsert" /\ Len(r.items) = 1 /\ r.items[1].key = "objective"
    BY DEF SetTruthCall, Ask
  <1>5. ASSUME NEW i \in 1..n
        PROVE  /\ TitleCall(c, i).op = "truth_upsert" /\ Len(TitleCall(c, i).items) = 1
               /\ TitleCall(c, i).items[1] =
                    [name |-> kids[i], key |-> "title", value |-> c.titles[i]]
               /\ StatusCall(c, i).op = "truth_upsert" /\ Len(StatusCall(c, i).items) = 1
               /\ StatusCall(c, i).items[1] =
                    [name |-> kids[i], key |-> "status", value |-> Ready]
    BY DEF TitleCall, StatusCall, SetTruthCall, Ask
  <1>6. /\ LinkAll(c).op = "create_relations"
        /\ LinkAll(c).items \in Seq(RelationItems) /\ Len(LinkAll(c).items) = n
        /\ \A i \in 1..n :
             LinkAll(c).items[i] = [from |-> kids[i], to |-> c.epic, type |-> "part_of"]
    <2> DEFINE items == [i \in 1..n |-> [from |-> kids[i], to |-> c.epic, type |-> "part_of"]]
    <2>1. LinkAll(c) = [op |-> "create_relations", items |-> items]
      BY <1>0 DEF LinkAll
    <2>2. items \in [1..n -> RelationItems]
      BY <1>0, <1>1 DEF RelationItems
    <2>3. \A i \in 1..n : items[i] = [from |-> kids[i], to |-> c.epic, type |-> "part_of"]
      OBVIOUS
    <2> HIDE DEF items
    <2>4. Len(items) = n /\ items \in Seq(RelationItems)
      BY <1>0, <2>2, FunctionIsSeq
    <2> QED
      BY <2>1, <2>3, <2>4
  <1> QED
    BY <1>2, <1>3, <1>4, <1>5, <1>6

\* The calls about one task.
LEMMA TaskCallParts ==
  ASSUME NEW c, PlanLine(c), NEW i \in 1..Len(c.titles)
  PROVE  /\ TitleCall(c, i) \in Calls /\ TitleCall(c, i).op = "truth_upsert"
         /\ Len(TitleCall(c, i).items) = 1
         /\ TitleCall(c, i).items[1].name = Children(c)[i]
         /\ TitleCall(c, i).items[1].key = "title"
         /\ StatusCall(c, i) \in Calls /\ StatusCall(c, i).op = "truth_upsert"
         /\ Len(StatusCall(c, i).items) = 1
         /\ StatusCall(c, i).items[1].name = Children(c)[i]
         /\ StatusCall(c, i).items[1].key = "status"
  <1>1. TitleCall(c, i) \in Calls /\ StatusCall(c, i) \in Calls
    BY PlanCallsAreCalls
  <1>2. /\ TitleCall(c, i).op = "truth_upsert" /\ Len(TitleCall(c, i).items) = 1
        /\ TitleCall(c, i).items[1] =
             [name |-> Children(c)[i], key |-> "title", value |-> c.titles[i]]
        /\ StatusCall(c, i).op = "truth_upsert" /\ Len(StatusCall(c, i).items) = 1
        /\ StatusCall(c, i).items[1] =
             [name |-> Children(c)[i], key |-> "status", value |-> Ready]
    BY PlanCallParts
  <1> QED
    BY <1>1, <1>2

LEMMA LinkParts ==
  ASSUME NEW c, PlanLine(c), NEW i \in 1..Len(c.titles)
  PROVE  LET a == LinkAll(c).items[i]
         IN  a.from = Children(c)[i] /\ a.to = c.epic /\ a.type = "part_of"
  <1>1. LinkAll(c).items[i] = [from |-> Children(c)[i], to |-> c.epic, type |-> "part_of"]
    BY PlanCallParts
  <1> QED
    BY <1>1

LEMMA PlanCallOps ==
  ASSUME NEW c, PlanLine(c), NEW k \in 1..PlanLength(c)
  PROVE  PlanCalls(c)[k].op \in {"create_entities", "truth_upsert", "create_relations"}
  <1>1. CASE \E i \in 1..Len(c.titles) : PlanCalls(c)[k] = TitleCall(c, i) \/ PlanCalls(c)[k] = StatusCall(c, i)
    BY <1>1, TaskCallParts
  <1>2. CASE \/ PlanCalls(c)[k] = CreateCall(c.epic, "task", <<ScopeNote[c.objective]>>)
             \/ PlanCalls(c)[k] = CreateAll(c)
             \/ PlanCalls(c)[k] = SetTruthCall(c.epic, "objective", c.objective)
             \/ PlanCalls(c)[k] = LinkAll(c)
    BY <1>2, PlanCallParts
  <1> QED
    BY <1>1, <1>2, PlanCallAt

\* A call that takes nothing away, links nothing and readies no planned task.
Harmless(r) ==
    /\ r.op \notin Removals \cup {"create_relations"}
    /\ \A j \in 1..Len(r.items), p \in Planned : ~ Readies(r.op, r.items[j], p[1])

\* The commands other than plans make no other call.
LEMMA OthersAreHarmless ==
  ASSUME PlansUndisturbed, NEW c \in Commands, c.name # "plan", NEW r \in OwnCalls(c)
  PROVE  Harmless(r)
  <1>0. /\ Ready # "DONE" /\ CommandLine(c)
        /\ c.name \in {"plan", "claim", "update", "sync", "close", "call"}
    BY CommandsAreLines DEF Ready
  <1>1. CASE c.name = "sync"
    <2>1. c.status = Ready => \A p \in Planned : Norm[c.task] # p[1]
      BY <1>1 DEF PlansUndisturbed
    <2>2. r = NoteCall(c.task, c.notes) \/ r = SetTruthCall(c.task, "status", c.status)
      BY <1>1 DEF OwnCalls
    <2> QED
      BY <2>1, <2>2 DEF Harmless, NoteCall, SetTruthCall, Ask, Removals, Readies
  <1>2. CASE c.name = "close"
    <2>1. \/ r = CreateCall(ProjectOf[c.epic], "project", <<>>)
          \/ r = NoteCall(ProjectOf[c.epic], c.lessons)
          \/ r = SetTruthCall(c.epic, "status", "DONE")
          \/ r = NoteCall(c.epic, <<OutcomeNote>>)
      BY <1>2 DEF OwnCalls
    <2> QED
      BY <1>0, <2>1 DEF Harmless, CreateCall, NoteCall, SetTruthCall, Ask, Removals, Readies
  <1>3. CASE c.name = "claim"
    <2>1. r.op = "dispatch"
      BY <1>3 DEF OwnCalls, DirectCalls, Ask
    <2> QED
      BY <2>1 DEF Harmless, Removals, Readies
  <1>4. CASE c.name = "update"
    <2>1. c.status = Ready => \A p \in Planned : Norm[c.task] # p[1]
      BY <1>4 DEF PlansUndisturbed
    <2>2. /\ r.op = "update" /\ Len(r.items) = 1
          /\ r.items[1].name = c.task /\ r.items[1].status = c.status
      BY <1>4 DEF OwnCalls, DirectCalls, Ask
    <2> QED
      BY <2>1, <2>2 DEF Harmless, Removals, Readies
  <1>5. CASE c.name = "call"
    <2>1. r = c.request
      BY <1>5 DEF OwnCalls, DirectCalls
    <2>2. c.request.op \notin {"delete_entities", "truth_delete", "purge", "reset",
                               "create_relations", "truth_upsert", "update"}
      BY <1>5 DEF PlansUndisturbed
    <2> QED
      BY <2>1, <2>2 DEF Harmless, Removals, Readies
  <1> QED
    BY <1>0, <1>1, <1>2, <1>3, <1>4, <1>5

\* The abandonment of idle tasks takes no truth away, makes nothing ready, and
\* leaves entities and relations alone.
LEMMA AbandonTraced ==
  ASSUME NEW d, Consistent(d), NEW days, NEW t
  PROVE  LET e == AbandonIdle(d, days, t)
         IN  /\ TruthsKept(d, e) /\ e.rel = d.rel /\ e.type = d.type
             /\ \A n \in Names : e.truth[n]["status"] = Ready => d.truth[n]["status"] = Ready
  <1> DEFINE tasks == IdleTasks(d, days, t)
             e == AbandonTasks(d, tasks, t)
  <1>1. /\ d \in Databases /\ Abandoned # Null /\ Abandoned # Ready /\ "status" \in Keys
    BY ConsistentIsDatabase, OpsAssumption, ColumnsAssumption DEF TerminalStatuses, Abandoned, Ready
  <1>2. /\ e.rel = d.rel /\ e.type = d.type
        /\ e.truth = [n \in Names |-> IF n \in tasks THEN [d.truth[n] EXCEPT !["status"] = Abandoned]
                                      ELSE d.truth[n]]
    BY <1>1 DEF AbandonTasks, Databases
  <1>3. d.truth \in [Names -> [Keys -> Values \cup {Null}]]
    BY <1>1, Columns
  <1>4. e = AbandonIdle(d, days, t)
    BY DEF AbandonIdle
  <1> HIDE DEF tasks, e
  <1>5. ASSUME NEW n \in Names, NEW k \in Keys
        PROVE  e.truth[n][k] = IF n \in tasks /\ k = "status" THEN Abandoned ELSE d.truth[n][k]
    BY <1>1, <1>2, <1>3
  <1>6. TruthsKept(d, e)
    BY <1>1, <1>5 DEF TruthsKept
  <1>7. \A n \in Names : e.truth[n]["status"] = Ready => d.truth[n]["status"] = Ready
    BY <1>1, <1>5
  <1> QED
    BY <1>2, <1>4, <1>6, <1>7

\* What the part of its script that a plan has done has left.
Furnished(w) ==
    \A i \in 1..Len(cmd[w].titles) :
      LET truth == db.truth[Norm[Children(cmd[w])[i]]]
      IN  /\ Sent(w) >= 2 * i + 2 => truth["title"] # Null
          /\ Sent(w) >= 2 * i + 3 => truth["status"] # Null

PlansInv ==
    /\ TasksInv
    /\ NoHalfTasks
    /\ \A w \in Workers : Planning(w) => Furnished(w)

\* The command of a planner, and where in its script it is.
LEMMA Planner ==
  ASSUME TasksInv, NEW w \in Workers, Planning(w)
  PROVE  /\ cmd[w] \in Commands /\ PlanLine(cmd[w]) /\ step[w] = "calls"
         /\ PlanLength(cmd[w]) \in Nat /\ Sent(w) + 1 \in 1..PlanLength(cmd[w]) /\ Sent(w) \in Nat
         /\ Sent(w) = PlanLength(cmd[w]) - Len(script[w])
         /\ Len(script[w]) \in 1..PlanLength(cmd[w])
         /\ Head(script[w]) = PlanCalls(cmd[w])[Sent(w) + 1]
  <1>1. step[w] = "calls" /\ Scripted(w) /\ cmd[w] \in Commands \cup {NoCommand}
    BY DEF Planning, TasksInv, Typed
  <1>2. cmd[w] \in Commands
    BY <1>1 DEF Scripted
  <1>3. PlanLine(cmd[w])
    BY <1>2, CommandsAreLines DEF PlanLine, Planning
  <1>4. PlanLength(cmd[w]) \in Nat
    BY <1>3, PlanParts DEF PlanLength
  <1>5. OnScript(w)
    BY <1>1 DEF Scripted
  <1>6. Head(script[w]) = script[w][1]
    BY <1>1, NextCall
  <1>7. Len(script[w]) \in 1..PlanLength(cmd[w]) /\ 1 \in 1..Len(script[w])
    BY <1>5 DEF OnScript
  <1>8. script[w][1] = PlanCalls(cmd[w])[Sent(w) + 1]
    BY <1>5, <1>7 DEF OnScript
  <1>9. Sent(w) = PlanLength(cmd[w]) - Len(script[w])
    BY DEF Sent
  <1>10. Sent(w) + 1 \in 1..PlanLength(cmd[w]) /\ Sent(w) \in Nat
    BY <1>4, <1>7, <1>9
  <1> QED
    BY <1>1, <1>2, <1>3, <1>4, <1>6, <1>7, <1>8, <1>9, <1>10

\* A call made, traced.
LEMMA MadeTraced ==
  ASSUME TasksInv, NEW w \in Workers, CallMade(w)
  PROVE  /\ Head(script[w]) \in Calls /\ CallTrace(db, db', Head(script[w]))
         /\ Planning(w) \/ (/\ cmd[w] \in Commands /\ cmd[w].name # "plan"
                            /\ Head(script[w]) \in OwnCalls(cmd[w]))
  <1>1. step[w] = "calls" /\ db' = RequestOutcome(db, Head(script[w]), now).graph
    BY DEF CallMade
  <1>2. Head(script[w]) \in Calls /\ script[w] # <<>> /\ Head(script[w]) = script[w][1]
        /\ Len(script[w]) \in Nat \ {0}
    BY <1>1, NextCall
  <1>3. Consistent(db) /\ now \in Nat
    BY DEF TasksInv, Typed
  <1>4. CallTrace(db, db', Head(script[w]))
    BY <1>1, <1>2, <1>3, CallParts, CallTraced
  <1>5. ASSUME ~Planning(w)
        PROVE  cmd[w] \in Commands /\ cmd[w].name # "plan" /\ Head(script[w]) \in OwnCalls(cmd[w])
    <2>1. Scripted(w) /\ cmd[w] \in Commands \cup {NoCommand}
      BY DEF TasksInv, Typed
    <2>2. script[w] \in Seq(OwnCalls(cmd[w]))
      BY <1>1, <1>5, <2>1 DEF Scripted
    <2>3. cmd[w] \in Commands /\ cmd[w].name # "plan"
      BY <1>1, <1>5, <2>1 DEF Scripted, Planning
    <2>4. script[w][1] \in OwnCalls(cmd[w])
      BY <1>2, <2>2, ElementOfSeq
    <2> QED
      BY <1>2, <2>3, <2>4
  <1> QED
    BY <1>2, <1>4, <1>5

\* Nobody takes a truth away.
LEMMA TruthsStay ==
  ASSUME TasksInv, PlansUndisturbed, GraphMoves
  PROVE  TruthsKept(db, db')
  <1>1. ASSUME NEW w \in Workers, CallMade(w) PROVE TruthsKept(db, db')
    <2>1. CallTrace(db, db', Head(script[w]))
      BY <1>1, MadeTraced
    <2>2. Head(script[w]).op \notin Removals
      <3>1. CASE Planning(w)
        <4>1. /\ PlanLine(cmd[w]) /\ Sent(w) + 1 \in 1..PlanLength(cmd[w])
              /\ Head(script[w]) = PlanCalls(cmd[w])[Sent(w) + 1]
          BY <3>1, Planner
        <4>2. Head(script[w]).op \in {"create_entities", "truth_upsert", "create_relations"}
          BY <4>1, PlanCallOps
        <4> QED
          BY <4>2 DEF Removals
      <3>2. CASE ~Planning(w)
        BY <1>1, <3>2, MadeTraced, OthersAreHarmless DEF Harmless
      <3> QED
        BY <3>1, <3>2
    <2> QED
      BY <2>1, <2>2 DEF CallTrace
  <1>2. TruthsKept(db, AbandonIdle(db, AbandonDays, now))
    BY AbandonTraced DEF TasksInv, Typed
  <1>3. TruthsKept(db, db)
    BY DEF TruthsKept
  <1>4. ~ (RetentionDays > 0)
    BY CommandsAssumption DEF PlansUndisturbed
  <1> QED
    BY <1>1, <1>2, <1>3, <1>4 DEF GraphMoves

\* What a plan has set stays, and its next call sets the next truth.
LEMMA FurnishedKept ==
  ASSUME PlansInv, TruthsKept(db, db'), NEW w \in Workers, Moves(w), Planning(w)'
  PROVE  Furnished(w)'
  <1>0. TasksInv /\ "title" \in Keys /\ "status" \in Keys
    BY ColumnsAssumption, CommandsAssumption DEF PlansInv
  <1>1. CASE Stays(w)
    <2>1. Planning(w) /\ Furnished(w)
      BY <1>1 DEF Stays, Planning, PlansInv
    <2>2. /\ Len(cmd[w].titles) \in Nat
          /\ \A i \in 1..Len(cmd[w].titles) : Norm[Children(cmd[w])[i]] \in Names
      BY <1>0, <2>1, Planner, PlanParts
    <2>3. cmd'[w] = cmd[w] /\ Sent(w)' = Sent(w)
      BY <1>1 DEF Stays, Sent
    <2> QED
      BY <1>0, <2>1, <2>2, <2>3 DEF Furnished, TruthsKept
  <1>2. CASE BeginsPlan(w)
    <2>1. PlanLine(cmd[w]) /\ cmd'[w] = cmd[w] /\ script'[w] = PlanCalls(cmd[w])
      BY <1>2, CommandsAreLines DEF BeginsPlan, PlanLine
    <2>2. Len(cmd[w].titles) \in Nat /\ Len(PlanCalls(cmd[w])) = PlanLength(cmd[w])
      BY <2>1, PlanScript, PlanParts
    <2>3. Sent(w)' = 0
      BY <2>1, <2>2 DEF Sent, PlanLength
    <2> QED
      BY <2>1, <2>2, <2>3 DEF Furnished
  <1>3. CASE Advances(w)
    <2>1. /\ step[w] = "calls" /\ script'[w] = Tail(script[w]) /\ cmd'[w] = cmd[w]
          /\ RequestOutcome(db, Head(script[w]), now).answer \notin Defeats
          /\ db' = RequestOutcome(db, Head(script[w]), now).graph
          /\ step'[w] = step[w]
      BY <1>3 DEF Advances, Send
    <2>2. Planning(w) /\ Furnished(w)
      BY <2>1 DEF Planning, PlansInv
    <2> DEFINE c == cmd[w]
               k == Sent(w) + 1
    <2>3. /\ PlanLine(c) /\ k \in 1..PlanLength(c) /\ Sent(w) \in Nat /\ PlanLength(c) \in Nat
          /\ Head(script[w]) = PlanCalls(c)[k]
          /\ Sent(w) = PlanLength(c) - Len(script[w]) /\ Len(script[w]) \in 1..PlanLength(c)
      BY <1>0, <2>2, Planner
    <2>4. Sent(w)' = k
      <3>1. Len(script'[w]) = Len(script[w]) - 1
        BY <1>0, <2>1, NextCall
      <3>2. Sent(w)' = PlanLength(cmd[w]) - Len(script'[w])
        BY <2>1 DEF Sent
      <3> QED
        BY <2>3, <3>1, <3>2
    <2>5. /\ Len(c.titles) \in Nat
          /\ \A i \in 1..Len(c.titles) : Children(c)[i] \in Spellings /\ Norm[Children(c)[i]] \in Names
      BY <2>3, PlanParts
    <2>6. ASSUME NEW r \in Calls, r = Head(script[w]), r.op = "truth_upsert", Len(r.items) = 1
          PROVE  db'.truth[Norm[r.items[1].name]][r.items[1].key] # Null
      <3>1. Consistent(db) /\ now \in Nat
        BY <1>0 DEF TasksInv, Typed
      <3>2. r.items[1] \in ItemsOf("truth_upsert")
        BY <2>6, CallParts, ElementOfSeq
      <3>3. RequestOutcome(db, r, now).answer \notin Refusals
        BY <2>1, <2>6 DEF Defeats
      <3>4. LET i == r.items[1]
            IN  /\ RequestOutcome(db, r, now).graph.truth[Norm[i.name]][i.key] = i.value
                /\ i.value # Null
        BY <2>6, <3>1, <3>2, <3>3, TruthCall
      <3> QED
        BY <2>1, <2>6, <3>4
    <2>7. ASSUME NEW i \in 1..Len(c.titles), k = 2 * i + 2
          PROVE  db'.truth[Norm[Children(c)[i]]]["title"] # Null
      <3>1. Head(script[w]) = TitleCall(c, i)
        BY <2>3, <2>7, PlanScript
      <3>2. /\ TitleCall(c, i) \in Calls /\ TitleCall(c, i).op = "truth_upsert"
            /\ Len(TitleCall(c, i).items) = 1
            /\ TitleCall(c, i).items[1].name = Children(c)[i]
            /\ TitleCall(c, i).items[1].key = "title"
        BY <2>3, TaskCallParts
      <3> QED
        BY <2>6, <3>1, <3>2
    <2>8. ASSUME NEW i \in 1..Len(c.titles), k = 2 * i + 3
          PROVE  db'.truth[Norm[Children(c)[i]]]["status"] # Null
      <3>1. Head(script[w]) = StatusCall(c, i)
        BY <2>3, <2>8, PlanScript
      <3>2. /\ StatusCall(c, i) \in Calls /\ StatusCall(c, i).op = "truth_upsert"
            /\ Len(StatusCall(c, i).items) = 1
            /\ StatusCall(c, i).items[1].name = Children(c)[i]
            /\ StatusCall(c, i).items[1].key = "status"
        BY <2>3, TaskCallParts
      <3> QED
        BY <2>6, <3>1, <3>2
    <2>9. ASSUME NEW i \in 1..Len(c.titles)
          PROVE  /\ Sent(w)' >= 2 * i + 2 => db'.truth[Norm[Children(c)[i]]]["title"] # Null
                 /\ Sent(w)' >= 2 * i + 3 => db'.truth[Norm[Children(c)[i]]]["status"] # Null
      <3> DEFINE m == Norm[Children(c)[i]]
      <3>1. m \in Names
        BY <2>5
      <3>2. /\ Sent(w) >= 2 * i + 2 => db.truth[m]["title"] # Null
            /\ Sent(w) >= 2 * i + 3 => db.truth[m]["status"] # Null
        BY <2>2 DEF Furnished
      <3>3. /\ Sent(w) >= 2 * i + 2 => db'.truth[m]["title"] # Null
            /\ Sent(w) >= 2 * i + 3 => db'.truth[m]["status"] # Null
        BY <1>0, <3>1, <3>2 DEF TruthsKept
      <3>4. i \in Nat
        BY <2>5
      <3>5. /\ k >= 2 * i + 2 => Sent(w) >= 2 * i + 2 \/ k = 2 * i + 2
            /\ k >= 2 * i + 3 => Sent(w) >= 2 * i + 3 \/ k = 2 * i + 3
        <4>1. Sent(w) \in Nat
          BY <2>3
        <4> HIDE DEF m
        <4> QED
          BY <3>4, <4>1
      <3> QED
        BY <2>4, <2>7, <2>8, <3>3, <3>5
    <2> QED
      BY <2>1, <2>9 DEF Furnished
  <1>4. CASE Stops(w) \/ Reads(w) \/ BeginsOther(w)
    BY <1>4 DEF Stops, Reads, BeginsOther, Planning
  <1> QED
    BY <1>1, <1>2, <1>3, <1>4 DEF Moves

\* What a call of a plan makes ready or links has what it needs.
LEMMA PlanCallFurnished ==
  ASSUME PlansInv, NEW w \in Workers, Planning(w), NEW p \in Planned
  PROVE  /\ (\E j \in 1..Len(Head(script[w]).items) :
               Readies(Head(script[w]).op, Head(script[w]).items[j], p[1]))
              => db.truth[p[1]]["title"] # Null
         /\ (/\ Head(script[w]).op = "create_relations"
             /\ \E j \in 1..Len(Head(script[w]).items) :
                  LET i == Head(script[w]).items[j]
                  IN  <<p[1], p[2], "part_of">> = <<Norm[i.from], Norm[i.to], i.type>>)
              => db.truth[p[1]]["title"] # Null /\ db.truth[p[1]]["status"] # Null
  <1> DEFINE c == cmd[w]
             k == Sent(w) + 1
             r == Head(script[w])
  <1>1. /\ PlanLine(c) /\ k \in 1..PlanLength(c) /\ Sent(w) \in Nat /\ r = PlanCalls(c)[k] /\ Furnished(w)
    BY Planner DEF PlansInv
  <1>2. Len(c.titles) \in Nat
    BY <1>1, PlanParts
  <1>3. ASSUME NEW j \in 1..Len(r.items), Readies(r.op, r.items[j], p[1])
        PROVE  db.truth[p[1]]["title"] # Null
    <2>1. PICK i \in 1..Len(c.titles) : k = 2 * i + 3 /\ r = StatusCall(c, i)
      <3>1. ASSUME NEW i \in 1..Len(c.titles), r = TitleCall(c, i) PROVE FALSE
        <4> DEFINE q == TitleCall(c, i)
        <4>1. q.op = "truth_upsert" /\ Len(q.items) = 1 /\ q.items[1].key = "title"
          BY <1>1, TaskCallParts
        <4> HIDE DEF q, r
        <4>2. r.op = "truth_upsert" /\ Len(r.items) = 1 /\ r.items[1].key = "title"
          BY <3>1, <4>1 DEF q
        <4>3. j = 1
          BY <4>2
        <4> QED
          BY <1>3, <4>2, <4>3 DEF Readies
      <3>2. r.op = "truth_upsert"
        <4>1. r.op \in {"create_entities", "truth_upsert", "create_relations"}
          BY <1>1, PlanCallOps
        <4> QED
          BY <1>3, <4>1 DEF Readies
      <3>3. ASSUME r = SetTruthCall(c.epic, "objective", c.objective) PROVE FALSE
        <4> DEFINE q == SetTruthCall(c.epic, "objective", c.objective)
        <4>a. Len(q.items) = 1 /\ q.items[1].key = "objective"
          BY <1>1, PlanCallParts
        <4> HIDE DEF q, r
        <4>1. Len(r.items) = 1 /\ r.items[1].key = "objective"
          BY <3>3, <4>a DEF q
        <4>2. j = 1
          BY <4>1
        <4> QED
          BY <1>3, <3>2, <4>1, <4>2 DEF Readies
      <3>4. /\ CreateCall(c.epic, "task", <<ScopeNote[c.objective]>>).op # "truth_upsert"
            /\ CreateAll(c).op # "truth_upsert" /\ LinkAll(c).op # "truth_upsert"
        BY <1>1, PlanCallParts
      <3> QED
        BY <1>1, <3>1, <3>2, <3>3, <3>4, PlanCallAt
    <2>2. p[1] = Norm[Children(c)[i]]
      <3> DEFINE q == StatusCall(c, i)
      <3>1. Len(q.items) = 1 /\ q.items[1].name = Children(c)[i]
        BY <1>1, TaskCallParts
      <3> HIDE DEF q, r
      <3>2. Len(r.items) = 1 /\ r.items[1].name = Children(c)[i]
        BY <2>1, <3>1 DEF q
      <3>3. j = 1
        BY <3>2
      <3>4. Norm[r.items[j].name] = p[1]
        BY <1>3, Zenon DEF Readies
      <3> QED
        BY <3>2, <3>3, <3>4
    <2>3. Sent(w) >= 2 * i + 2
      BY <1>1, <1>2, <2>1
    <2> QED
      BY <1>1, <2>2, <2>3 DEF Furnished
  <1>4. ASSUME r.op = "create_relations", NEW j \in 1..Len(r.items),
               <<p[1], p[2], "part_of">> = <<Norm[r.items[j].from], Norm[r.items[j].to], r.items[j].type>>
        PROVE  db.truth[p[1]]["title"] # Null /\ db.truth[p[1]]["status"] # Null
    <2>1. k = PlanLength(c) /\ r = LinkAll(c)
      <3>1. /\ CreateCall(c.epic, "task", <<ScopeNote[c.objective]>>).op # "create_relations"
            /\ CreateAll(c).op # "create_relations"
            /\ SetTruthCall(c.epic, "objective", c.objective).op # "create_relations"
        BY <1>1, PlanCallParts
      <3>2. \A i \in 1..Len(c.titles) : /\ TitleCall(c, i).op # "create_relations"
                                        /\ StatusCall(c, i).op # "create_relations"
        BY <1>1, TaskCallParts
      <3> QED
        BY <1>1, <1>4, <3>1, <3>2, PlanCallAt
    <2>2. j \in 1..Len(c.titles) /\ r.items[j].from = Children(c)[j]
      <3>1. /\ Len(LinkAll(c).items) = Len(c.titles)
            /\ \A i \in 1..Len(c.titles) :
                 LinkAll(c).items[i] = [from |-> Children(c)[i], to |-> c.epic, type |-> "part_of"]
        BY <1>1, PlanCallParts
      <3>2. j \in 1..Len(c.titles)
        BY <1>4, <2>1, <3>1
      <3>3. LinkAll(c).items[j].from = Children(c)[j]
        BY <1>1, <3>2, LinkParts
      <3> QED
        BY <2>1, <3>2, <3>3
    <2>3. p[1] = Norm[Children(c)[j]]
      BY <1>4, <2>2
    <2>4. Sent(w) >= 2 * j + 2 /\ Sent(w) >= 2 * j + 3
      BY <1>1, <1>2, <2>1, <2>2 DEF PlanLength
    <2> QED
      BY <1>1, <2>2, <2>3, <2>4 DEF Furnished
  <1> QED
    BY <1>3, <1>4

LEMMA PlannedNames ==
  ASSUME NEW p \in Planned
  PROVE  p[1] \in Names /\ p[2] \in Names
  <1>1. PICK c \in Commands : /\ c.name = "plan"
                              /\ \E i \in DOMAIN c.titles : p = <<Norm[Children(c)[i]], Norm[c.epic]>>
    BY DEF Planned
  <1>2. PlanLine(c)
    BY <1>1, CommandsAreLines DEF PlanLine
  <1> QED
    BY <1>1, <1>2, PlanParts

\* Nothing becomes half a task.
LEMMA NoHalfKept ==
  ASSUME PlansInv, PlansUndisturbed, GraphMoves
  PROVE  NoHalfTasks'
  <1> SUFFICES ASSUME NEW p \in Planned
               PROVE  /\ StatusOf(db', p[1]) = Ready => db'.truth[p[1]]["title"] # Null
                      /\ <<p[1], p[2], "part_of">> \in db'.rel
                           => db'.truth[p[1]]["title"] # Null /\ db'.truth[p[1]]["status"] # Null
    BY DEF NoHalfTasks, NoneHalf
  <1> DEFINE n == p[1]
             link == <<p[1], p[2], "part_of">>
  <1>0. /\ TasksInv /\ n \in Names /\ "title" \in Keys /\ "status" \in Keys /\ Ready # "" /\ Ready # Null
        /\ TruthsKept(db, db')
    BY PlannedNames, ColumnsAssumption, OpsAssumption, CommandsAssumption, TruthsStay
       DEF PlansInv, Ready, TaskStatuses
  <1>1. /\ db.truth[n]["title"] # Null => db'.truth[n]["title"] # Null
        /\ db.truth[n]["status"] # Null => db'.truth[n]["status"] # Null
    BY <1>0 DEF TruthsKept
  <1>2. /\ db.truth[n]["status"] = Ready => db.truth[n]["title"] # Null
        /\ link \in db.rel => db.truth[n]["title"] # Null /\ db.truth[n]["status"] # Null
    BY <1>0 DEF PlansInv, NoHalfTasks, NoneHalf, StatusOf
  <1>3. StatusOf(db', n) = Ready => db'.truth[n]["status"] = Ready
    BY <1>0 DEF StatusOf
  <1>4. ASSUME NEW w \in Workers, CallMade(w)
        PROVE  /\ db'.truth[n]["status"] = Ready => db.truth[n]["title"] # Null
               /\ link \in db'.rel => db.truth[n]["title"] # Null /\ db.truth[n]["status"] # Null
    <2> DEFINE r == Head(script[w])
    <2>1. CallTrace(db, db', r)
      BY <1>0, <1>4, MadeTraced
    <2>2. /\ db'.truth[n]["status"] = Ready
               => db.truth[n]["status"] = Ready \/ \E j \in 1..Len(r.items) : Readies(r.op, r.items[j], n)
          /\ link \in db'.rel
               => \/ link \in db.rel
                  \/ /\ r.op = "create_relations"
                     /\ \E j \in 1..Len(r.items) :
                          link = <<Norm[r.items[j].from], Norm[r.items[j].to], r.items[j].type>>
      BY <1>0, <2>1 DEF CallTrace
    <2>3. CASE Planning(w)
      BY <1>2, <2>2, <2>3, PlanCallFurnished
    <2>4. CASE ~Planning(w)
      <3>1. Harmless(r)
        BY <1>0, <1>4, <2>4, MadeTraced, OthersAreHarmless
      <3> QED
        BY <1>2, <2>2, <3>1 DEF Harmless
    <2> QED
      BY <2>3, <2>4
  <1>5. CASE db' = AbandonIdle(db, AbandonDays, now)
    <2>1. /\ db'.rel = db.rel
          /\ db'.truth[n]["status"] = Ready => db.truth[n]["status"] = Ready
      <3>1. Consistent(db)
        BY <1>0 DEF TasksInv, Typed
      <3> DEFINE e == AbandonIdle(db, AbandonDays, now)
      <3>2. e.rel = db.rel /\ \A m \in Names : e.truth[m]["status"] = Ready => db.truth[m]["status"] = Ready
        BY <3>1, AbandonTraced
      <3> HIDE DEF e
      <3>3. db' = e
        BY <1>5 DEF e
      <3> QED
        BY <1>0, <3>2, <3>3
    <2> QED
      BY <1>1, <1>2, <1>3, <2>1
  <1>6. CASE db' = db
    BY <1>1, <1>2, <1>3, <1>6
  <1>7. ~ (RetentionDays > 0)
    BY CommandsAssumption DEF PlansUndisturbed
  <1> QED
    BY <1>1, <1>3, <1>4, <1>5, <1>6, <1>7 DEF GraphMoves

LEMMA NextPlansInv ==
  ASSUME PlansUndisturbed, PlansInv, [Next]_vars
  PROVE  PlansInv'
  <1>1. TasksInv /\ TasksInv'
    BY NextTasksInv DEF PlansInv
  <1>2. GraphMoves /\ \A w \in Workers : Moves(w)
    BY <1>1, NextMoves
  <1>3. TruthsKept(db, db') /\ NoHalfTasks'
    BY <1>1, <1>2, TruthsStay, NoHalfKept
  <1>4. ASSUME NEW w \in Workers, Planning(w)' PROVE Furnished(w)'
    BY <1>2, <1>3, <1>4, FurnishedKept
  <1> QED
    BY <1>1, <1>3, <1>4 DEF PlansInv

\* However many planners race for one epic, and wherever they die, a planned
\* task that can be claimed has a title, and one on its epic's board has a title
\* and a status.
THEOREM TasksAreNeverHalf == ASSUME PlansUndisturbed PROVE Spec => []NoHalfTasks
  <1>1. Init => PlansInv
    <2> SUFFICES ASSUME Init PROVE PlansInv
      OBVIOUS
    <2>1. TasksInv
      BY InitTasksInv
    <2>2. NoHalfTasks
      BY DEF Init, PlansUndisturbed, NoHalfTasks
    <2>3. \A w \in Workers : ~Planning(w)
      BY DEF Init, Planning
    <2> QED
      BY <2>1, <2>2, <2>3 DEF PlansInv
  <1>2. PlansInv /\ [Next]_vars => PlansInv'
    BY NextPlansInv
  <1>3. PlansInv => NoHalfTasks
    BY DEF PlansInv
  <1> QED
    BY <1>1, <1>2, <1>3, PTL DEF Spec

----------------------------------------------------------------------------
(* A plan that succeeds is whole. *)

\* A call creates nothing but tasks under the names of plans.
TasksOnly(r) ==
    r.op = "create_entities" =>
      \A j \in 1..Len(r.items) :
        r.items[j].type = "task" \/ Norm[r.items[j].name] \notin AllPlanNames

AsTasks(w) == \A n \in PlanNames(cmd[w]) : db.type[n] \in {Null, "task"}

\* A command has no verdict before it ends.
Undecided(w) == step[w] # "idle" => verdict[w] = "none"

WholeInv == TasksInv /\ \A w \in Workers : Undecided(w) /\ (Planning(w) => AsTasks(w))

LEMMA PlanNamesAreNames ==
  ASSUME NEW c, PlanLine(c)
  PROVE  /\ PlanNames(c) \subseteq Names /\ Norm[c.epic] \in PlanNames(c)
         /\ \A i \in 1..Len(c.titles) : Norm[Children(c)[i]] \in PlanNames(c)
         /\ c \in Commands => PlanNames(c) \subseteq AllPlanNames
  BY PlanParts DEF PlanNames, AllPlanNames, PlanLine

LEMMA PlansCreateTasks ==
  ASSUME NEW c, PlanLine(c), NEW k \in 1..PlanLength(c)
  PROVE  TasksOnly(PlanCalls(c)[k])
  <1> DEFINE r == PlanCalls(c)[k]
  <1>1. CASE \E i \in 1..Len(c.titles) : r = TitleCall(c, i) \/ r = StatusCall(c, i)
    BY <1>1, TaskCallParts DEF TasksOnly
  <1>2. CASE r = CreateCall(c.epic, "task", <<ScopeNote[c.objective]>>)
    <2>1. Len(r.items) = 1 /\ r.items[1].type = "task"
      BY <1>2, PlanCallParts
    <2>2. \A j \in 1..Len(r.items) : j = 1
      BY <2>1
    <2> QED
      BY <2>1, <2>2 DEF TasksOnly
  <1>3. CASE r = CreateAll(c)
    <2>1. Len(r.items) = Len(c.titles) /\ \A i \in 1..Len(c.titles) : r.items[i].type = "task"
      <3> DEFINE q == CreateAll(c)
      <3>1. Len(q.items) = Len(c.titles) /\ \A i \in 1..Len(c.titles) : q.items[i].type = "task"
        BY PlanCallParts
      <3> HIDE DEF r
      <3> QED
        BY <1>3, <3>1, Zenon
    <2> QED
      BY <2>1 DEF TasksOnly
  <1>4. CASE r = SetTruthCall(c.epic, "objective", c.objective) \/ r = LinkAll(c)
    <2>1. r.op # "create_entities"
      BY <1>4, PlanCallParts
    <2> QED
      BY <2>1 DEF TasksOnly
  <1> QED
    BY <1>1, <1>2, <1>3, <1>4, PlanCallAt

LEMMA OthersCreateTasks ==
  ASSUME OnlyTasksPlanned, NEW c \in Commands, c.name # "plan", NEW r \in OwnCalls(c)
  PROVE  TasksOnly(r)
  <1>0. CommandLine(c) /\ c.name \in {"plan", "claim", "update", "sync", "close", "call"}
    BY CommandsAreLines
  <1>1. CASE c.name = "close"
    <2>1. Norm[ProjectOf[c.epic]] \notin AllPlanNames
      BY <1>1 DEF OnlyTasksPlanned
    <2>2. \/ r = CreateCall(ProjectOf[c.epic], "project", <<>>)
          \/ r.op # "create_entities"
      BY <1>1 DEF OwnCalls, NoteCall, SetTruthCall, Ask
    <2>3. LET q == CreateCall(ProjectOf[c.epic], "project", <<>>)
          IN  Len(q.items) = 1 /\ q.items[1].name = ProjectOf[c.epic]
      BY DEF CreateCall, Ask
    <2> QED
      BY <2>1, <2>2, <2>3 DEF TasksOnly
  <1>2. CASE c.name = "call"
    <2>1. r = c.request /\ r \in Calls
      BY <1>0, <1>2 DEF OwnCalls, DirectCalls, CommandLine, Calls, WellFormed
    <2>2. DOMAIN r.items = 1..Len(r.items)
      BY <2>1, CallParts
    <2>3. c.request.op = "create_entities"
            => \A j \in DOMAIN c.request.items :
                 \/ c.request.items[j].type = "task"
                 \/ Norm[c.request.items[j].name] \notin AllPlanNames
      BY <1>2 DEF OnlyTasksPlanned
    <2> QED
      BY <2>1, <2>2, <2>3 DEF TasksOnly
  <1>3. CASE c.name \in {"claim", "update", "sync"}
    <2>1. r.op # "create_entities"
      BY <1>3 DEF OwnCalls, DirectCalls, NoteCall, SetTruthCall, Ask
    <2> QED
      BY <2>1 DEF TasksOnly
  <1> QED
    BY <1>0, <1>1, <1>2, <1>3

\* No step makes anything but a task of a name of a plan.
LEMMA PlanTypes ==
  ASSUME TasksInv, OnlyTasksPlanned, GraphMoves, NEW n \in Names, n \in AllPlanNames
  PROVE  db'.type[n] \in {Null, "task", db.type[n]}
  <1>1. ASSUME NEW w \in Workers, CallMade(w) PROVE db'.type[n] \in {Null, "task", db.type[n]}
    <2> DEFINE r == Head(script[w])
    <2>1. CallTrace(db, db', r)
      BY <1>1, MadeTraced
    <2>2. TasksOnly(r)
      <3>1. CASE Planning(w)
        BY <3>1, Planner, PlansCreateTasks
      <3>2. CASE ~Planning(w)
        BY <1>1, <3>2, MadeTraced, OthersCreateTasks
      <3> QED
        BY <3>1, <3>2
    <2>3. \/ db'.type[n] \in {Null, db.type[n]}
          \/ /\ r.op = "create_entities"
             /\ \E j \in 1..Len(r.items) : Norm[r.items[j].name] = n /\ db'.type[n] = r.items[j].type
      BY <2>1 DEF CallTrace
    <2> QED
      BY <2>2, <2>3 DEF TasksOnly
  <1>2. AbandonIdle(db, AbandonDays, now).type = db.type
    BY AbandonTraced DEF TasksInv, Typed
  <1>3. ASSUME NEW gone PROVE DeleteEntities(db, gone).type[n] \in {Null, db.type[n]}
    <2>1. db \in Databases
      BY ConsistentIsDatabase DEF TasksInv, Typed
    <2>2. DeleteEntities(db, gone).type = [m \in Names |-> IF m \in gone THEN Null ELSE db.type[m]]
      BY <2>1 DEF DeleteEntities, Databases
    <2> QED
      BY <2>2
  <1> QED
    BY <1>1, <1>2, <1>3 DEF GraphMoves, Purge

\* While a plan is being made, its names are free or tasks.
LEMMA AsTasksKept ==
  ASSUME WholeInv, OnlyTasksPlanned, GraphMoves, NEW w \in Workers, Moves(w), Planning(w)'
  PROVE  AsTasks(w)'
  <1>0. TasksInv
    BY DEF WholeInv
  <1>1. CASE Stays(w) \/ Advances(w)
    <2>1. Planning(w) /\ AsTasks(w) /\ cmd'[w] = cmd[w]
      BY <1>1 DEF Stays, Advances, Send, Planning, WholeInv
    <2>2. PlanNames(cmd[w]) \subseteq Names /\ PlanNames(cmd[w]) \subseteq AllPlanNames
      BY <1>0, <2>1, Planner, PlanNamesAreNames
    <2>3. ASSUME NEW n \in PlanNames(cmd[w]) PROVE db'.type[n] \in {Null, "task"}
      BY <1>0, <2>1, <2>2, PlanTypes DEF AsTasks
    <2> QED
      BY <2>1, <2>3 DEF AsTasks
  <1>2. CASE BeginsPlan(w)
    <2>1. /\ PlanLine(cmd[w]) /\ cmd'[w] = cmd[w] /\ db' = db
          /\ PlanNames(cmd[w]) \cap Live(db) = {}
      BY <1>2, CommandsAreLines DEF BeginsPlan, PlanLine
    <2>2. PlanNames(cmd[w]) \subseteq Names
      BY <2>1, PlanNamesAreNames
    <2> QED
      BY <2>1, <2>2 DEF AsTasks, Live
  <1>3. CASE Stops(w) \/ Reads(w) \/ BeginsOther(w)
    BY <1>3 DEF Stops, Reads, BeginsOther, Planning
  <1> QED
    BY <1>1, <1>2, <1>3 DEF Moves

\* A verdict is given with the end of the command.
LEMMA UndecidedKept ==
  ASSUME TasksInv, NEW u \in Workers, Undecided(u), [Next]_vars
  PROVE  Undecided(u)'
  <1>0. /\ step \in [Workers -> Steps] /\ verdict \in [Workers -> Verdicts]
    BY DEF TasksInv, Typed
  <1>1. CASE step'[u] = step[u] /\ verdict'[u] = verdict[u]
    BY <1>1 DEF Undecided
  <1>2. CASE step'[u] = "idle"
    BY <1>2 DEF Undecided
  <1>3. CASE step[u] # "idle" /\ verdict'[u] = verdict[u]
    BY <1>3 DEF Undecided
  <1>4. CASE verdict'[u] = "none"
    BY <1>4 DEF Undecided
  <1>5. ASSUME NEW w \in Workers, NEW how, End(w, how) PROVE Undecided(u)'
    BY <1>0, <1>1, <1>2, <1>5 DEF End, Goto
  <1>6. ASSUME NEW w \in Workers, NEW calls, Begin(w, calls), step[w] # "idle" PROVE Undecided(u)'
    BY <1>0, <1>1, <1>3, <1>6 DEF Begin, Goto
  <1>7. ASSUME NEW w \in Workers, Act(w) PROVE Undecided(u)'
    <2>1. ASSUME NEW c \in Commands, Start(w, c) PROVE Undecided(u)'
      BY <1>0, <1>1, <1>4, <2>1 DEF Start, Goto
    <2>2. ASSUME NEW c \in Commands, RejectArguments(w, c) PROVE Undecided(u)'
      BY <1>0, <1>1, <1>2, <2>2 DEF RejectArguments
    <2>3. CASE PlanCheck(w)
      BY <1>5, <1>6, <2>3 DEF PlanCheck, Refuse
    <2>4. CASE SyncCheck(w)
      BY <1>5, <1>6, <2>4 DEF SyncCheck, Refuse
    <2>5. CASE CloseExpand(w) \/ CloseRows(w)
      BY <1>0, <1>1, <1>3, <2>5 DEF CloseExpand, CloseRows, Goto
    <2>6. CASE CloseTruths(w)
      BY <1>1, <2>6 DEF CloseTruths
    <2>7. CASE CloseDecide(w)
      BY <1>5, <1>6, <2>7 DEF CloseDecide, Refuse
    <2>8. CASE Send(w)
      BY <1>1, <1>5, <2>8 DEF Send
    <2>9. CASE BreakOff(w)
      BY <1>5, <2>9 DEF BreakOff
    <2> QED
      BY <1>7, <2>1, <2>2, <2>3, <2>4, <2>5, <2>6, <2>7, <2>8, <2>9 DEF Act
  <1>8. CASE Housekeep \/ Tick \/ UNCHANGED vars
    BY <1>1, <1>8 DEF Housekeep, Tick, vars
  <1> QED
    BY <1>7, <1>8 DEF Next

LEMMA NextWholeInv ==
  ASSUME OnlyTasksPlanned, WholeInv, [Next]_vars
  PROVE  WholeInv'
  <1>1. TasksInv /\ TasksInv'
    BY NextTasksInv DEF WholeInv
  <1>2. GraphMoves /\ \A w \in Workers : Moves(w)
    BY <1>1, NextMoves
  <1>3. \A w \in Workers : Undecided(w)'
    BY <1>1, UndecidedKept DEF WholeInv
  <1>4. ASSUME NEW w \in Workers, Planning(w)' PROVE AsTasks(w)'
    BY <1>2, <1>4, AsTasksKept
  <1> QED
    BY <1>1, <1>3, <1>4 DEF WholeInv

\* A plan succeeds with the answer of its last call.
LEMMA PlanSucceeds ==
  ASSUME WholeInv, [Next]_vars, NEW w \in Workers, cmd[w].name = "plan",
         verdict'[w] = "ok", step'[w] # step[w]
  PROVE  Send(w) /\ Len(script[w]) = 1 /\ RequestOutcome(db, Head(script[w]), now).answer \notin Defeats
  <1>0. /\ step \in [Workers -> Steps] /\ verdict \in [Workers -> Verdicts] /\ TasksInv
        /\ step[w] # "idle" /\ verdict[w] = "none"
    <2>1. Scripted(w) /\ TasksInv /\ Undecided(w)
      BY DEF WholeInv, TasksInv
    <2>2. step[w] # "idle"
      BY <2>1 DEF Scripted, NoCommand
    <2> QED
      BY <2>1, <2>2 DEF TasksInv, Typed, Undecided
  <1>1. PICK u \in Workers : Act(u)
    BY DEF Next, Housekeep, Tick, vars
  <1>2. u = w
    <2>1. Only(u)
      BY <1>0, <1>1, ActMoves
    <2> QED
      BY <2>1 DEF Only, Stays
  <1>3. ASSUME NEW how, how # "ok", End(w, how) PROVE FALSE
    BY <1>0, <1>3 DEF End
  <1>4. ~ (verdict' = verdict)
    BY <1>0
  <1>5. Send(w)
    <2>1. ~ PlanCheck(w)
      BY <1>3, <1>4 DEF PlanCheck, Refuse, Begin
    <2>2. ~ SyncCheck(w) /\ ~ CloseExpand(w) /\ ~ CloseRows(w)
      BY <1>4 DEF SyncCheck, CloseExpand, CloseRows
    <2>3. ~ CloseTruths(w)
      BY <1>4 DEF CloseTruths
    <2>4. ~ CloseDecide(w)
      BY <1>3, <1>4 DEF CloseDecide, Refuse, Begin
    <2>5. ~ BreakOff(w)
      BY <1>3 DEF BreakOff
    <2>6. ~ \E c \in Commands : Start(w, c) \/ RejectArguments(w, c)
      BY <1>0 DEF Start, RejectArguments
    <2> QED
      BY <1>1, <1>2, <2>1, <2>2, <2>3, <2>4, <2>5, <2>6 DEF Act
  <1> QED
    BY <1>3, <1>4, <1>5 DEF Send

\* A plan that reports success has left an epic with all of its tasks on the
\* board, whatever other plans did to its names and whichever calls failed.
THEOREM PlansAreWhole == ASSUME OnlyTasksPlanned PROVE Spec => PlanWhole
  <1> DEFINE Whole(w) ==
         (cmd[w].name = "plan" /\ verdict'[w] = "ok" /\ step'[w] # step[w])
         => \A i \in DOMAIN cmd[w].titles :
              LET n == Norm[Children(cmd[w])[i]]
                  e == Norm[cmd[w].epic]
              IN  {n, e} \subseteq Tasks(db') /\ <<n, e, "part_of">> \in db'.rel
  <1>1. Init => WholeInv
    <2> SUFFICES ASSUME Init PROVE WholeInv
      OBVIOUS
    <2>1. TasksInv
      BY InitTasksInv
    <2>2. \A w \in Workers : ~Planning(w) /\ Undecided(w)
      BY DEF Init, Planning, Undecided
    <2> QED
      BY <2>1, <2>2 DEF WholeInv
  <1>2. WholeInv /\ [Next]_vars => WholeInv'
    BY NextWholeInv
  <1>3. WholeInv /\ [Next]_vars => [\A w \in Workers : Whole(w)]_vars
    <2> SUFFICES ASSUME WholeInv, [Next]_vars, NEW w \in Workers,
                        cmd[w].name = "plan", verdict'[w] = "ok", step'[w] # step[w],
                        NEW i \in DOMAIN cmd[w].titles
                 PROVE  LET n == Norm[Children(cmd[w])[i]]
                            e == Norm[cmd[w].epic]
                        IN  {n, e} \subseteq Tasks(db') /\ <<n, e, "part_of">> \in db'.rel
      OBVIOUS
    <2> DEFINE c == cmd[w]
               n == Norm[Children(c)[i]]
               e == Norm[c.epic]
    <2>1. /\ step[w] = "calls" /\ db' = RequestOutcome(db, Head(script[w]), now).graph
          /\ Len(script[w]) = 1
          /\ RequestOutcome(db, Head(script[w]), now).answer \notin Refusals
      BY PlanSucceeds DEF Send, Defeats
    <2>2. TasksInv /\ Planning(w) /\ AsTasks(w)
      BY <2>1 DEF Planning, WholeInv
    <2>3. /\ PlanLine(c) /\ c \in Commands /\ PlanLength(c) \in Nat
          /\ Head(script[w]) = PlanCalls(c)[Sent(w) + 1] /\ Sent(w) = PlanLength(c) - Len(script[w])
      BY <2>2, Planner
    <2>4. Sent(w) + 1 = PlanLength(c)
      BY <2>1, <2>3
    <2>5. Head(script[w]) = LinkAll(c)
      BY <2>3, <2>4, PlanScript
    <2>6. /\ LinkAll(c).op = "create_relations" /\ LinkAll(c).items \in Seq(RelationItems)
          /\ Len(LinkAll(c).items) = Len(c.titles)
          /\ \A j \in 1..Len(c.titles) :
               LinkAll(c).items[j] = [from |-> Children(c)[j], to |-> c.epic, type |-> "part_of"]
      BY <2>3, PlanCallParts
    <2>7. DOMAIN c.titles = 1..Len(c.titles)
      BY <2>3, PlanParts
    <2>8. <<n, e, "part_of">> \in db'.rel /\ {n, e} \subseteq Live(db')
      <3> DEFINE r == LinkAll(c)
                 a == r.items[i]
      <3>1. a.from = Children(c)[i] /\ a.to = c.epic /\ a.type = "part_of"
        BY <2>3, <2>7, LinkParts
      <3>2. i \in 1..Len(r.items) /\ Consistent(db) /\ now \in Nat
        BY <2>2, <2>6, <2>7 DEF TasksInv, Typed
      <3> HIDE DEF r
      <3>3. r.op = "create_relations" /\ r.items \in Seq(RelationItems)
            /\ RequestOutcome(db, r, now).answer \notin Refusals
            /\ db' = RequestOutcome(db, r, now).graph
        BY <2>1, <2>5, <2>6 DEF r
      <3>4. /\ <<Norm[a.from], Norm[a.to], a.type>> \in db'.rel
            /\ {Norm[a.from], Norm[a.to]} \subseteq Live(db')
        BY <3>2, <3>3, LinkCall
      <3> QED
        BY <3>1, <3>4
    <2>9. n \in PlanNames(c) /\ e \in PlanNames(c)
      BY <2>3, <2>7, PlanNamesAreNames
    <2>10. \A m \in PlanNames(c) : db'.type[m] \in {Null, "task"}
      <3>1. GraphMoves
        BY <2>2, NextMoves
      <3>2. PlanNames(c) \subseteq Names /\ PlanNames(c) \subseteq AllPlanNames
        BY <2>3, PlanNamesAreNames
      <3> QED
        BY <2>2, <3>1, <3>2, PlanTypes DEF AsTasks
    <2> QED
      BY <2>8, <2>9, <2>10 DEF Live, Tasks
  <1> QED
    BY <1>1, <1>2, <1>3, PTL DEF Spec, PlanWhole

----------------------------------------------------------------------------
(* A close overlooks no task that was open all along: a task that stays open *)
(* and on the board is named by the first query, found by the second, and    *)
(* open when its truths are read; so the tasks open since the start are      *)
(* always among those the read has still to reach or has found open, and at  *)
(* the decision there are none.                                              *)

\* A view has the fields the read works with
Framed(v) == v = [names |-> v.names, rows |-> v.rows, tasks |-> v.tasks,
                  done |-> v.done, open |-> v.open]

Shapes ==
    /\ step \in [Workers -> Steps]
    /\ cmd = [w \in Workers |-> cmd[w]]
    /\ view = [w \in Workers |-> view[w]]
    /\ \A w \in Workers : Framed(view[w])

Closing(w) == cmd[w].name = "close"

\* What of the tasks still open the command has in sight, by where it is
InSight(w) ==
    /\ step[w] = "rows"   => stillOpen[w] \subseteq view[w].names
    /\ step[w] = "truths" => stillOpen[w] \subseteq Unread(view[w]) \cup view[w].open
    /\ step[w] = "calls"  => stillOpen[w] = {}

Placed(w) ==
    /\ step[w] = "idle" => cmd[w] = NoCommand
    /\ step[w] \in {"rows", "truths"} => Closing(w)
    /\ Closing(w) => stillOpen[w] \subseteq OpenTasks(db, Norm[cmd[w].epic])
    /\ Closing(w) => InSight(w)

CloseInv == Shapes /\ \A w \in Workers : Placed(w)

\* While a close goes on, the set of tasks still open only shrinks, to tasks
\* open in the new graph (Remember).
LEMMA OnlyShrinks ==
    ASSUME Remember, NEW w \in Workers, Closing(w), cmd'[w] = cmd[w], step[w] # "idle"
    PROVE  /\ stillOpen'[w] \subseteq stillOpen[w]
           /\ stillOpen'[w] \subseteq OpenTasks(db', Norm[cmd[w].epic])
  <1>1. stillOpen'[w] = stillOpen[w] \cap OpenTasks(db', Norm[cmd[w].epic])
    BY DEF Remember, Closing
  <1>2. QED
    BY <1>1

\* A worker whose own state a step leaves alone keeps its place.
LEMMA Bystander ==
    ASSUME Remember, NEW w \in Workers, Placed(w),
           cmd'[w] = cmd[w], step'[w] = step[w], view'[w] = view[w]
    PROVE  Placed(w)'
  <1>1. CASE ~Closing(w)
    BY <1>1 DEF Placed, Closing
  <1>2. CASE Closing(w)
    <2>1. step[w] # "idle"
      BY <1>2 DEF Placed, Closing, NoCommand
    <2>2. /\ stillOpen'[w] \subseteq stillOpen[w]
          /\ stillOpen'[w] \subseteq OpenTasks(db', Norm[cmd[w].epic])
      BY <1>2, <2>1, OnlyShrinks
    <2>3. InSight(w)'
      BY <1>2, <2>2 DEF Placed, InSight
    <2>4. (stillOpen[w] \subseteq OpenTasks(db, Norm[cmd[w].epic]))'
      BY <2>2
    <2>5. QED
      BY <2>1, <2>3, <2>4, <1>2 DEF Placed, Closing
  <1>3. QED
    BY <1>1, <1>2

\* A worker whose command is over has no place to keep.
LEMMA Ended ==
    ASSUME NEW w \in Workers, step'[w] = "idle", cmd'[w] = NoCommand
    PROVE  Placed(w)'
  BY DEF Placed, Closing, NoCommand

\* End leaves the worker idle, and the others alone.
LEMMA EndShapes ==
    ASSUME Shapes, NEW w \in Workers, NEW how, End(w, how)
    PROVE  /\ Shapes'
           /\ step'[w] = "idle" /\ cmd'[w] = NoCommand
           /\ \A u \in Workers \ {w} : /\ cmd'[u] = cmd[u] /\ step'[u] = step[u]
                                       /\ view'[u] = view[u]
  <1>1. Framed(NoView)
    BY DEF Framed, NoView
  <1>2. QED
    BY <1>1 DEF Shapes, End, Goto, Steps, Framed

\* A step of w that begins its calls, or ends it.
LEMMA BeginShapes ==
    ASSUME Shapes, NEW w \in Workers, NEW calls, Begin(w, calls)
    PROVE  /\ Shapes'
           /\ step'[w] = "calls" /\ cmd'[w] = cmd[w] /\ view'[w] = view[w]
           /\ \A u \in Workers \ {w} : /\ cmd'[u] = cmd[u] /\ step'[u] = step[u]
                                       /\ view'[u] = view[u]
  BY DEF Shapes, Begin, Goto, Steps, Framed

\* A command that ends keeps the invariant.
LEMMA EndKeeps ==
    ASSUME CloseInv, Remember, NEW w \in Workers, NEW how, End(w, how)
    PROVE  CloseInv'
  <1>1. Shapes' /\ step'[w] = "idle" /\ cmd'[w] = NoCommand
    BY EndShapes DEF CloseInv
  <1>2. ASSUME NEW u \in Workers \ {w} PROVE Placed(u)'
    BY <1>2, EndShapes, Bystander DEF CloseInv
  <1>3. Placed(w)'
    BY <1>1, Ended
  <1>4. QED
    BY <1>1, <1>2, <1>3 DEF CloseInv

\* A command that begins its calls keeps the invariant, if it is not a close or
\* nothing has stayed open.
LEMMA BeginKeeps ==
    ASSUME CloseInv, Remember, NEW w \in Workers, NEW calls, Begin(w, calls),
           step[w] # "idle", Closing(w) => stillOpen[w] = {}
    PROVE  CloseInv'
  <1>1. Shapes' /\ step'[w] = "calls" /\ cmd'[w] = cmd[w]
    BY BeginShapes DEF CloseInv
  <1>2. ASSUME NEW u \in Workers \ {w} PROVE Placed(u)'
    BY <1>2, BeginShapes, Bystander DEF CloseInv
  <1>3. Closing(w)' => Closing(w)
    BY <1>1 DEF Closing
  <1>4. Closing(w) => stillOpen'[w] = {}
    BY <1>1, OnlyShrinks
  <1>5. Placed(w)'
    BY <1>1, <1>3, <1>4 DEF Placed, InSight
  <1>6. QED
    BY <1>1, <1>2, <1>5 DEF CloseInv

\* The same for a step of the read: it leaves the other workers alone.
LEMMA ReadKeeps ==
    ASSUME CloseInv, Remember, NEW w \in Workers, Closing(w), step[w] # "idle",
           NEW where \in {"rows", "truths"}, NEW v, Framed(v),
           view' = [view EXCEPT ![w] = v], step' = [step EXCEPT ![w] = where], cmd' = cmd,
           where = "rows"   => stillOpen'[w] \subseteq v.names,
           where = "truths" => stillOpen'[w] \subseteq Unread(v) \cup v.open
    PROVE  CloseInv'
  <1>1. Shapes' /\ step'[w] = where /\ cmd'[w] = cmd[w] /\ view'[w] = v
    BY DEF CloseInv, Shapes, Steps, Framed
  <1>2. ASSUME NEW u \in Workers \ {w} PROVE Placed(u)'
    <2>1. cmd'[u] = cmd[u] /\ step'[u] = step[u] /\ view'[u] = view[u]
      BY <1>2 DEF CloseInv, Shapes
    <2>2. QED
      BY <1>2, <2>1, Bystander DEF CloseInv
  <1>3. stillOpen'[w] \subseteq OpenTasks(db', Norm[cmd'[w].epic])
    BY <1>1, OnlyShrinks
  <1>4. Placed(w)'
    BY <1>1, <1>3 DEF Placed, InSight, Closing
  <1>5. QED
    BY <1>1, <1>2, <1>4 DEF CloseInv

----------------------------------------------------------------------------
(* The queries of `close`, one lemma each. *)

\* The first query names every task that is on the board.
LEMMA ExpandKeeps ==
    ASSUME CloseInv, Remember, NEW w \in Workers, CloseExpand(w)
    PROVE  CloseInv'
  <1> DEFINE e == Norm[cmd[w].epic]
             near == {r \in db.rel : r[3] = "part_of" /\ e \in {r[1], r[2]}}
             named == {e} \cup {r[1] : r \in near} \cup {r[2] : r \in near}
             v == [view[w] EXCEPT !.names = named]
  <1>1. Closing(w) /\ step[w] # "idle" /\ db' = db /\ cmd' = cmd
    BY DEF CloseExpand, Closing
  <1>2. view' = [view EXCEPT ![w] = v] /\ step' = [step EXCEPT ![w] = "rows"]
    BY DEF CloseExpand, Goto, CloseInv, Shapes
  <1>3. Framed(v) /\ v.names = named
    <2>1. view[w] = [names |-> view[w].names, rows |-> view[w].rows, tasks |-> view[w].tasks,
                     done |-> view[w].done, open |-> view[w].open]
      BY DEF CloseInv, Shapes, Framed
    <2>2. QED
      BY <2>1 DEF Framed
  <1>4. stillOpen'[w] \subseteq OpenTasks(db, e)
    BY <1>1, OnlyShrinks
  <1>5. OpenTasks(db, e) \subseteq named
    <2>1. SUFFICES ASSUME NEW n \in OpenTasks(db, e) PROVE n \in named
      OBVIOUS
    <2>2. <<n, e, "part_of">> \in near
      BY <2>1 DEF OpenTasks
    <2>3. QED
      BY <2>2
  <1>6. QED
    BY <1>1, <1>2, <1>3, <1>4, <1>5, ReadKeeps

\* The second query finds every task that is on the board among its children.
LEMMA RowsKeeps ==
    ASSUME CloseInv, Remember, NEW w \in Workers, CloseRows(w)
    PROVE  CloseInv'
  <1> DEFINE e == Norm[cmd[w].epic]
             found == view[w].names \cap Live(db)
             kids == {n \in found \cap Tasks(db) : n # cmd[w].epic}
             v == [names |-> view[w].names, rows |-> found, tasks |-> kids,
                   done |-> {}, open |-> {}]
  <1>1. Closing(w) /\ step[w] = "rows" /\ db' = db /\ cmd' = cmd
    BY DEF CloseRows, CloseInv, Placed
  <1>2. view' = [view EXCEPT ![w] = v] /\ step' = [step EXCEPT ![w] = "truths"]
    BY DEF CloseRows, Goto, CloseInv, Shapes
  <1>3. Framed(v) /\ Unread(v) = kids
    BY DEF Framed, Unread
  <1>4. stillOpen'[w] \subseteq OpenTasks(db, e) /\ stillOpen'[w] \subseteq view[w].names
    BY <1>1, OnlyShrinks DEF CloseInv, Placed, InSight
  <1>5. ASSUME NEW n \in stillOpen'[w] PROVE n \in kids
    <2>1. n \in Tasks(db) /\ n # e
      BY <1>4, <1>5 DEF OpenTasks
    <2>2. n \in Live(db) /\ Norm[n] = n
      BY <2>1, ColumnsAssumption, CommandsAssumption DEF Tasks, Live
    <2>3. QED
      BY <1>4, <1>5, <2>1, <2>2
  <1>6. QED
    BY <1>1, <1>2, <1>3, <1>5, ReadKeeps

\* A task is struck off the unread ones only as DONE, or as found open.
LEMMA TruthsKeeps ==
    ASSUME CloseInv, Remember, NEW w \in Workers, CloseTruths(w)
    PROVE  CloseInv'
  <1> DEFINE e == Norm[cmd[w].epic]
  <1>1. Closing(w) /\ step[w] = "truths" /\ db' = db /\ cmd' = cmd
    BY DEF CloseTruths, CloseInv, Placed
  <1>2. PICK n \in Unread(view[w]) :
          IF db.truth[n]["status"] = "DONE"
          THEN view' = [view EXCEPT ![w].done = @ \cup {n}]
          ELSE view' = [view EXCEPT ![w].open = @ \cup {n}]
    BY DEF CloseTruths
  <1> DEFINE seenDone == [view[w] EXCEPT !.done = view[w].done \cup {n}]
             seenOpen == [view[w] EXCEPT !.open = view[w].open \cup {n}]
             v == IF db.truth[n]["status"] = "DONE" THEN seenDone ELSE seenOpen
  <1>3. view' = [view EXCEPT ![w] = v] /\ step' = [step EXCEPT ![w] = "truths"]
    BY <1>1, <1>2 DEF CloseTruths, CloseInv, Shapes
  <1>4. /\ Framed(v)
        /\ db.truth[n]["status"] = "DONE"
             => Unread(v) = Unread(view[w]) \ {n} /\ v.open = view[w].open
        /\ db.truth[n]["status"] # "DONE"
             => Unread(v) = Unread(view[w]) \ {n} /\ v.open = view[w].open \cup {n}
    <2>1. view[w] = [names |-> view[w].names, rows |-> view[w].rows, tasks |-> view[w].tasks,
                     done |-> view[w].done, open |-> view[w].open]
      BY DEF CloseInv, Shapes, Framed
    <2>2. /\ Framed(seenDone) /\ Framed(seenOpen)
          /\ Unread(seenDone) = Unread(view[w]) \ {n} /\ seenDone.open = view[w].open
          /\ Unread(seenOpen) = Unread(view[w]) \ {n} /\ seenOpen.open = view[w].open \cup {n}
      BY <2>1 DEF Framed, Unread
    <2>3. QED
      BY <2>2
  <1>5. /\ stillOpen'[w] \subseteq OpenTasks(db, e)
        /\ stillOpen'[w] \subseteq Unread(view[w]) \cup view[w].open
    BY <1>1, OnlyShrinks DEF CloseInv, Placed, InSight
  <1>6. db.truth[n]["status"] = "DONE" => n \notin OpenTasks(db, e)
    <2>1. "DONE" # Null
      BY OpsAssumption, ColumnsAssumption DEF TerminalStatuses
    <2>2. QED
      BY <2>1 DEF OpenTasks, StatusOf
  <1>7. stillOpen'[w] \subseteq Unread(v) \cup v.open
    BY <1>4, <1>5, <1>6
  <1>8. QED
    BY <1>1, <1>3, <1>4, <1>7, ReadKeeps

\* When everything is read and nothing was found open, nothing has stayed open.
LEMMA DecideKeeps ==
    ASSUME CloseInv, Remember, NEW w \in Workers, CloseDecide(w)
    PROVE  CloseInv'
  <1>1. CASE \E why : Refuse(w, why)
    BY <1>1, EndKeeps DEF Refuse
  <1>2. CASE view[w].open = {} /\ Begin(w, CloseCalls(cmd[w], view[w].rows))
    <2>1. step[w] = "truths" /\ Unread(view[w]) = {}
      BY DEF CloseDecide
    <2>2. Closing(w) => stillOpen[w] = {}
      BY <1>2, <2>1 DEF CloseInv, Placed, InSight
    <2>3. QED
      BY <1>2, <2>1, <2>2, BeginKeeps
  <1>3. QED
    BY <1>1, <1>2 DEF CloseDecide

----------------------------------------------------------------------------
(* The other steps. *)

\* A command starts: nothing has been read, nothing has been called.
LEMMA StartKeeps ==
    ASSUME CloseInv, Remember, NEW w \in Workers, NEW c \in Commands, Start(w, c)
    PROVE  CloseInv'
  <1>1. /\ cmd'[w] = c /\ view' = view /\ step[w] = "idle"
        /\ step'[w] = IF c.name \in {"claim", "update", "call"} THEN "calls" ELSE "check"
    BY DEF Start, Goto, CloseInv, Shapes
  <1>2. Shapes'
    BY DEF Start, Goto, CloseInv, Shapes, Steps, Framed
  <1>3. ASSUME NEW u \in Workers \ {w} PROVE Placed(u)'
    <2>1. cmd'[u] = cmd[u] /\ step'[u] = step[u] /\ view'[u] = view[u]
      BY <1>3 DEF Start, Goto, CloseInv, Shapes
    <2>2. QED
      BY <1>3, <2>1, Bystander DEF CloseInv
  <1>4. Placed(w)'
    <2>1. CASE c.name = "close"
      <3>1. step'[w] = "check"
        BY <1>1, <2>1
      <3>2. stillOpen'[w] = OpenTasks(db', Norm[cmd'[w].epic])
        BY <1>1, <2>1 DEF Remember
      <3>3. QED
        BY <3>1, <3>2 DEF Placed, InSight
    <2>2. CASE c.name # "close"
      BY <1>1, <2>2 DEF Placed, Closing
    <2>3. QED
      BY <2>1, <2>2
  <1>5. QED
    BY <1>2, <1>3, <1>4 DEF CloseInv

\* Calls of any command, and the steps of the environment: no worker but one
\* that ends moves, whatever happens to the graph.
LEMMA StillKeeps ==
    ASSUME CloseInv, Remember, UNCHANGED <<step, cmd, view>>
    PROVE  CloseInv'
  <1>1. Shapes'
    BY DEF CloseInv, Shapes, Framed
  <1>2. ASSUME NEW u \in Workers PROVE Placed(u)'
    BY <1>2, Bystander DEF CloseInv
  <1>3. QED
    BY <1>1, <1>2 DEF CloseInv

\* Every step of a worker keeps the invariant.
LEMMA ActKeeps ==
    ASSUME CloseInv, Remember, NEW w \in Workers, Act(w)
    PROVE  CloseInv'
  <1>1. ASSUME NEW c \in Commands, Start(w, c) PROVE CloseInv'
    BY <1>1, StartKeeps
  <1>2. ASSUME NEW c \in Commands, RejectArguments(w, c) PROVE CloseInv'
    BY <1>2, StillKeeps DEF RejectArguments
  <1>3. CASE PlanCheck(w)
    <2>1. step[w] # "idle" /\ ~Closing(w)
      BY <1>3 DEF PlanCheck, Closing
    <2>2. CASE Refuse(w, "exists")
      BY <2>2, EndKeeps DEF Refuse
    <2>3. CASE Begin(w, PlanCalls(cmd[w]))
      BY <2>1, <2>3, BeginKeeps
    <2>4. QED
      BY <1>3, <2>2, <2>3 DEF PlanCheck
  <1>4. CASE SyncCheck(w)
    <2>1. step[w] # "idle" /\ ~Closing(w)
      BY <1>4 DEF SyncCheck, Closing
    <2>2. CASE \E why : Refuse(w, why)
      BY <2>2, EndKeeps DEF Refuse
    <2>3. CASE Begin(w, SyncCalls(cmd[w]))
      BY <2>1, <2>3, BeginKeeps
    <2>4. QED
      BY <1>4, <2>2, <2>3 DEF SyncCheck
  <1>5. CASE CloseExpand(w)
    BY <1>5, ExpandKeeps
  <1>6. CASE CloseRows(w)
    BY <1>6, RowsKeeps
  <1>7. CASE CloseTruths(w)
    BY <1>7, TruthsKeeps
  <1>8. CASE CloseDecide(w)
    BY <1>8, DecideKeeps
  <1>9. CASE Send(w)
    <2>1. CASE \E how : End(w, how)
      BY <2>1, EndKeeps
    <2>2. CASE UNCHANGED <<step, cmd, view>>
      BY <2>2, StillKeeps
    <2>3. QED
      BY <1>9, <2>1, <2>2 DEF Send
  <1>10. CASE BreakOff(w)
    BY <1>10, EndKeeps DEF BreakOff
  <1>11. QED
    BY <1>1, <1>2, <1>3, <1>4, <1>5, <1>6, <1>7, <1>8, <1>9, <1>10 DEF Act

\* CloseInv is an invariant of the task commands with their history.
THEOREM CloseInvariant == HSpec => []CloseInv
  <1>1. HInit => CloseInv
    <2>1. Framed(NoView)
      BY DEF Framed, NoView
    <2>2. QED
      BY <2>1 DEF HInit, Init, CloseInv, Shapes, Steps, Placed, Closing, NoCommand
  <1>2. CloseInv /\ [HNext]_hvars => CloseInv'
    <2> SUFFICES ASSUME CloseInv, [HNext]_hvars PROVE CloseInv'
      OBVIOUS
    <2>1. ASSUME Remember, NEW w \in Workers, Act(w) PROVE CloseInv'
      BY <2>1, ActKeeps
    <2>2. CASE Remember /\ (Housekeep \/ Tick)
      BY <2>2, StillKeeps DEF Housekeep, Tick
    <2>3. CASE UNCHANGED hvars
      BY <2>3 DEF hvars, vars, CloseInv, Shapes, Framed, Placed, Closing, InSight
    <2>4. QED
      BY <2>1, <2>2, <2>3 DEF HNext, Next
  <1>3. QED
    BY <1>1, <1>2, PTL DEF HSpec

\* No `close` ever starts to write over a task of its epic that has been open
\* ever since the command started.
THEOREM ClosesAreJustified == HSpec => []CloseJustified
  <1>1. CloseInv => CloseJustified
    BY DEF CloseInv, Placed, InSight, Closing, CloseJustified
  <1>2. QED
    BY <1>1, CloseInvariant, PTL
=============================================================================
