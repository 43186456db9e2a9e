---------------------------- MODULE ReadCommands ----------------------------
(***************************************************************************)
(* The commands that read the graph (crates/asobi/src/cli/graph.rs,        *)
(* `tasks list` of crates/asobi/src/tasks.rs) and `asobi compact`          *)
(* (crates/asobi/src/compact.rs), by several processes at once.            *)
(*                                                                         *)
(* A read is a sequence of queries outside a transaction: each sees the    *)
(* graph as it is when it runs.  A command that writes makes one call,     *)
(* which is one step (StoreRefinement!CallsAtomic), and with --json reads  *)
(* back the names it was given.  compact reads the whole graph and then    *)
(* writes topic files: it truncates a file in one step and fills it in     *)
(* another.                                                                *)
(***************************************************************************)
EXTENDS GraphQueries, Texts

CONSTANTS
    Workers,        \* processes, each running one command at a time
    Commands,       \* the command lines they may run
    Slug,           \* slugify on stored names: the file of each entity
    Characters,     \* the characters of each truth value
    Samples,        \* texts on which the conversions are checked
    InitialGraphs,
    MaxTime,        \* bound: the clock stops here
    MaxCommands     \* bound: commands started in a behaviour

Slugs == {Slug[n] : n \in Names}

\* A topic file that holds no whole text: one that is not there, that was
\* truncated, that was written in part
Absent == [lost |-> "absent"]
Empty  == [lost |-> "empty"]
Torn   == [lost |-> "torn"]

\* frontmatter::parse finds the time in a whole text only
Parsed(file) == file \notin {Absent, Empty, Torn}

ASSUME CommandsAssumption ==
    /\ DOMAIN Slug = Names
    /\ Characters \in [Values -> Seq(Chars)]
    /\ Samples \subseteq Seq(Chars)
    /\ {MaxTime, MaxCommands} \subseteq Nat
    /\ \A d \in InitialGraphs : Consistent(d)

\* What the command line parser lets through
CommandLine(c) ==
    CASE c.name = "write"  -> /\ c.request = [op |-> c.request.op, items |-> c.request.items]
                              /\ WellFormed(c.request) /\ c.request.op # "sweep"
                              /\ c.echo \in Seq(Spellings)
      [] c.name = "show"   -> c.names \in Seq(Spellings) /\ c.limit \in Nat
      [] c.name = "board"  -> c.epic \in Spellings
      [] c.name = "search" -> c.term \in Terms /\ c.limit \in Nat /\ c.filters \subseteq Keys \X Values
      [] OTHER             -> c.name \in {"graph", "list", "stats", "compact"}

ASSUME CommandLinesAssumption == \A c \in Commands : CommandLine(c)

VARIABLES
    db,         \* the graph
    now,        \* the clock, in minutes
    files,      \* the topic files
    step,       \* where each command is
    cmd,        \* the command line
    view,       \* what its read has seen so far
    answer,     \* what the worker's last command printed
    alone,      \* history: nothing has changed the graph or run beside the command
    started     \* commands started so far

vars == <<db, now, files, step, cmd, view, answer, alone, started>>

NoCommand == [name |-> "none"]

\* names: the entities asked for.  paths, widened: the search so far.
\* left: the rows still to be read in full, with their types.  count, recent:
\* of the first of them.  entities, relations, counts: the answer so far.
\* today: the time compact stamps its topics with
NoView == [names |-> <<>>, paths |-> <<>>, widened |-> FALSE, left |-> <<>>,
           count |-> 0, recent |-> <<>>, entities |-> <<>>, relations |-> {}, counts |-> <<>>, today |-> 0]

EntityOutputs == [name : Names, type : Types, count : Nat, observations : Seq(Observations),
                  truths : [Keys -> Values \cup {Null}]]

Views == [names : Seq(Names), paths : Seq(Seq(Names)), widened : BOOLEAN,
          left : Seq(Names \X Types), count : Nat, recent : Seq(Observations),
          entities : Seq(EntityOutputs), relations : SUBSET (Names \X Names \X RelTypes),
          counts : Seq(Nat), today : Nat]

Verdicts == {"none", "ok", "failed", "not_found"}

Silence == [verdict |-> "none", entities |-> <<>>, relations |-> {}, counts |-> <<>>]

Steps == {"idle", "write", "search", "filter", "expand", "rows", "count", "observations",
          "truths", "relations", "stats", "topics", "put"}

TypeOK ==
    /\ db \in Databases
    /\ now \in Nat
    /\ \A s \in Slugs : Parsed(files[s]) =>
         files[s].compacted \in 0..now /\ files[s].type \in Types \ {"task"}
    /\ step \in [Workers -> Steps]
    /\ cmd \in [Workers -> Commands \cup {NoCommand}]
    /\ \A w \in Workers : /\ step[w] = "idle" <=> cmd[w] = NoCommand
                          /\ view[w] \in Views
                          /\ step[w] \in {"topics", "put"} => cmd[w].name = "compact"
                          /\ answer[w].verdict \in Verdicts
    /\ alone \in [Workers -> BOOLEAN]
    /\ started \in Nat

\* render_entity_markdown, by what it tells apart
Topic(entity, relations, time) ==
    LET texts   == [i \in DOMAIN entity.observations |-> entity.observations[i].content]
        firsts  == {i \in DOMAIN texts : \A j \in 1..(i - 1) : texts[j] # texts[i]}
        touched == {r \in relations : entity.name \in {r[1], r[2]}}
        Link(r) == <<r[1] = entity.name, r[3],
                     Slug[IF r[1] = entity.name THEN r[2] ELSE r[1]]>>
    IN  [title  |-> entity.name,
         type   |-> entity.type,
         total  |-> Len(texts),
         notes  |-> Picked(texts, firsts),
         truths |-> [k \in {k \in Keys : entity.truths[k] # Null} |->
                       Quote(Characters[entity.truths[k]])],
         links  |-> [l \in {Link(r) : r \in touched} |->
                       Cardinality({r \in touched : Link(r) = l})],
         compacted |-> time]

\* An entity as an eager read shows it if nothing changes meanwhile
WholeEntity(d, n) ==
    [name |-> n, type |-> d.type[n], count |-> ObservationCount(d, n),
     observations |-> RecentObservations(d, n, 0), truths |-> d.truth[n]]

\* The directory before: none yet, or as a compact of the same graph left it
InitialFiles(d) ==
    {[s \in Slugs |-> Absent],
     [s \in Slugs |->
        IF \E n \in Live(d) \ Tasks(d) : Slug[n] = s
        THEN Topic(WholeEntity(d, CHOOSE n \in Live(d) \ Tasks(d) : Slug[n] = s), d.rel, 0)
        ELSE Absent]}

Init ==
    /\ db \in InitialGraphs
    /\ now = 0
    /\ files \in InitialFiles(db)
    /\ step = [w \in Workers |-> "idle"]
    /\ cmd = [w \in Workers |-> NoCommand]
    /\ view = [w \in Workers |-> NoView]
    /\ answer = [w \in Workers |-> Silence]
    /\ alone = [w \in Workers |-> FALSE]
    /\ started = 0

----------------------------------------------------------------------------
(* Steps of a command. *)

Goto(w, where) == step' = [step EXCEPT ![w] = where]

\* The command is over and prints what its view holds
End(w, verdict, v) ==
    /\ Goto(w, "idle")
    /\ cmd'    = [cmd EXCEPT ![w] = NoCommand]
    /\ view'   = [view EXCEPT ![w] = NoView]
    /\ answer' = [answer EXCEPT ![w] = [verdict |-> verdict, entities |-> v.entities,
                                        relations |-> v.relations, counts |-> v.counts]]

\* A query has answered, or failed harmlessly: the command goes on
See(w, v, where) ==
    /\ view' = [view EXCEPT ![w] = v]
    /\ Goto(w, where)
    /\ UNCHANGED <<db, now, files, cmd, answer, started>>

\* The names a read asks for, as they are stored
Stored(names) == [i \in DOMAIN names |-> Norm[names[i]]]

\* How a command reads once it has the names
Everything(c)  == c.name \in {"graph", "list", "compact"}       \* names = None
Eager(c) == c.name \notin {"graph", "list", "search"}    \* include_content
Limit(c)       == IF c.name = "show" THEN c.limit ELSE 0        \* observation_limit
Expand(c)      == CASE c.name = "show"  -> c.expand
                    [] c.name = "board" -> {"part_of"}          \* tasks list <epic>
                    [] OTHER            -> {}

\* A search takes 100 names at most when it is not told how many
SearchLimit(c) == IF c.limit = 0 THEN 100 ELSE c.limit

FirstStep(c) ==
    CASE c.name = "write"  -> "write"
      [] c.name = "stats"  -> "stats"
      [] c.name = "search" -> IF c.term.words = {} THEN "filter" ELSE "search"
      [] c.name \in {"show", "board"} -> IF Expand(c) = {} THEN "rows" ELSE "expand"
      [] Everything(c)     -> "rows"

Start(w, c) ==
    /\ step[w] = "idle"
    /\ started < MaxCommands
    /\ started' = started + 1
    /\ cmd'   = [cmd EXCEPT ![w] = c]
    /\ alone' = [v \in Workers |-> v = w /\ \A x \in Workers : step[x] = "idle"]
    /\ view'  = [view EXCEPT ![w].names = CASE c.name = "show"  -> Stored(c.names)
                                            [] c.name = "board" -> Stored(<<c.epic>>)
                                            [] OTHER            -> <<>>]
    /\ answer' = [answer EXCEPT ![w] = Silence]
    /\ Goto(w, FirstStep(c))
    /\ UNCHANGED <<db, now, files>>

\* The one call of `new`, `obs`, `truth`, `link`, `rm`, ...; then emit_nodes
Write(w) ==
    LET c == cmd[w]
        o == RequestOutcome(db, c.request, now)
    IN  /\ step[w] = "write"
        /\ db' = o.graph
        /\ alone' = [v \in Workers |-> alone[v] /\ (v = w \/ o.graph = db)]
        /\ \/ o.answer \in Refusals /\ End(w, "failed", NoView)
           \/ o.answer \notin Refusals /\ c.echo = <<>> /\ End(w, "ok", NoView)
           \/ /\ o.answer \notin Refusals /\ c.echo # <<>>
              /\ view' = [view EXCEPT ![w].names = Stored(c.echo)]
              /\ Goto(w, "rows")
              /\ UNCHANGED <<cmd, answer>>
        /\ UNCHANGED <<now, files, started>>

----------------------------------------------------------------------------
(* search_nodes *)

\* Mutant: a search that found nothing is not widened
AfterPaths_NotWidened(w, paths) ==
    IF Len(paths) < 3 THEN See(w, [view[w] EXCEPT !.paths = paths], "search")
    ELSE See(w, [view[w] EXCEPT !.paths = <<>>, !.names = Fused(paths)], "filter")

\* Three ranked paths answer.  If they found nothing the words are tried one
\* by one, once
AfterPaths(w, paths) ==
    LET v == view[w]
    IN  IF Len(paths) < 3 THEN See(w, [v EXCEPT !.paths = paths], "search")
        ELSE IF Fused(paths) = <<>> /\ Widenable(cmd[w].term) /\ ~v.widened
        THEN See(w, [v EXCEPT !.paths = <<>>, !.widened = TRUE], "search")
        ELSE See(w, [v EXCEPT !.paths = <<>>, !.names = Fused(paths)], "filter")

SearchPath(w) ==
    LET c == cmd[w]
        v == view[w]
    IN  /\ step[w] = "search"
        /\ \E ranked \in RankedPaths(db, Len(v.paths) + 1, c.term, v.widened,
                                     PoolSize(SearchLimit(c), c.filters)) :
             AfterPaths(w, Append(v.paths, ranked))
        /\ UNCHANGED alone

\* ranked: the error of a path counts as no matches
SearchPathFails(w) ==
    /\ step[w] = "search"
    /\ AfterPaths(w, Append(view[w].paths, <<>>))
    /\ alone' = [alone EXCEPT ![w] = FALSE]

\* The filters, if any, and the cut to the limit
SearchFilter(w) ==
    LET c == cmd[w]
        v == view[w]
    IN  /\ step[w] = "filter"
        /\ \E names \in IF c.filters = {} THEN {v.names}
                        ELSE Filtered(v.names, Eligible(db, c.filters)) :
             See(w, [v EXCEPT !.names = Prefix(names, SearchLimit(c))], "rows")
        /\ UNCHANGED alone

----------------------------------------------------------------------------
(* graph_from_connection *)

\* The names the expansion adds follow the others, in the order of its rows
ExpandNames(w) ==
    LET v == view[w]
    IN  /\ step[w] = "expand"
        /\ \E more \in SetToSeqs(Neighbours(db, ToSet(v.names), Expand(cmd[w])) \ ToSet(v.names)) :
             See(w, [v EXCEPT !.names = @ \o more], "rows")
        /\ UNCHANGED alone

ReadRows(w) ==
    LET v    == view[w]
        rows == IF Everything(cmd[w]) THEN ByName(Live(db)) ELSE SelectedRows(db, v.names)
        left == [i \in DOMAIN rows |-> <<rows[i], db.type[rows[i]]>>]
    IN  /\ step[w] = "rows"
        /\ See(w, [v EXCEPT !.left = left], IF left = <<>> THEN "relations" ELSE "count")
        /\ UNCHANGED alone

ReadCount(w) ==
    /\ step[w] = "count"
    /\ See(w, [view[w] EXCEPT !.count = ObservationCount(db, Head(view[w].left)[1])],
           IF Eager(cmd[w]) THEN "observations" ELSE "truths")
    /\ UNCHANGED alone

ReadObservations(w) ==
    LET v == view[w]
    IN  /\ step[w] = "observations"
        /\ See(w, [v EXCEPT !.recent = RecentObservations(db, Head(v.left)[1], Limit(cmd[w]))],
               "truths")
        /\ UNCHANGED alone

ReadTruths(w) ==
    LET v == view[w]
        row == Head(v.left)
        entity == [name |-> row[1], type |-> row[2], count |-> v.count,
                   observations |-> v.recent, truths |-> db.truth[row[1]]]
    IN  /\ step[w] = "truths"
        /\ See(w, [v EXCEPT !.left = Tail(@), !.count = 0, !.recent = <<>>,
                            !.entities = Append(@, entity)],
               IF Len(v.left) = 1 THEN "relations" ELSE "count")
        /\ UNCHANGED alone

\* `tasks list`: what is_terminal does not drop, and the relations among that
OpenTask(c, entity) ==
    entity.type = "task" /\ (c.all \/ entity.truths["status"] \notin TerminalStatuses)

TaskList(c, v) ==
    LET shown == Picked(v.entities, {i \in DOMAIN v.entities : OpenTask(c, v.entities[i])})
        names == {shown[i].name : i \in DOMAIN shown}
    IN  [v EXCEPT !.entities = shown,
                  !.relations = {r \in @ : {r[1], r[2]} \subseteq names}]

\* The last query.  A board without its epic is refused
ReadRelations(w) ==
    LET c == cmd[w]
        v == [view[w] EXCEPT !.relations = RelationsKept(db, view[w].names, view[w].entities)]
    IN  /\ step[w] = "relations"
        /\ CASE c.name = "compact" -> See(w, [v EXCEPT !.today = now, !.counts = <<0>>], "topics")
             [] c.name = "list"    -> End(w, "ok", TaskList(c, v))
             [] c.name = "board" /\ v.entities = <<>> -> End(w, "not_found", NoView)
             [] OTHER              -> End(w, "ok", v)
        /\ UNCHANGED <<db, now, files, alone, started>>

\* stats: three counts, three queries
ReadStats(w) ==
    LET counts == view[w].counts
        next   == CASE counts = <<>>      -> Cardinality(Live(db))
                    [] Len(counts) = 1    -> Cardinality(db.rel)
                    [] Len(counts) = 2    -> Cardinality(db.obs)
        v      == [view[w] EXCEPT !.counts = Append(counts, next)]
    IN  /\ step[w] = "stats"
        /\ IF Len(counts) < 2 THEN view' = [view EXCEPT ![w] = v] /\ UNCHANGED <<step, cmd, answer>>
           ELSE End(w, "ok", v)
        /\ UNCHANGED <<db, now, files, alone, started>>

----------------------------------------------------------------------------
(* compact *)

\* Mutant: a type the denylist does not know
ShouldSync_Epics(type) == type # "epic"

\* should_sync: tasks have no topic
ShouldSync(type) == type # "task"

\* Mutant: a topic that can be parsed is left alone
UpToDate_Parsed(file, entity, relations) == Parsed(file)

\* Mutant: what the file says is compared with what it would say if it were written now
UpToDate_Now(file, entity, relations) ==
    Parsed(file) /\ file = Topic(entity, relations, now)

\* The header lists the outgoing links by type, and one of the type "compacted"
\* is read for the time
TimeHidden(file) == \E link \in DOMAIN file.links : link[1] /\ link[2] = "compacted"

\* The file says what the entity would be rendered to at the file's own time
UpToDate(file, entity, relations) ==
    Parsed(file) /\ ~TimeHidden(file) /\ file = Topic(entity, relations, file.compacted)

NextTopic(v) == [v EXCEPT !.entities = Tail(@)]

\* One entity of the answer: skipped, up to date, or truncated to be rewritten
CheckTopic(w) ==
    LET v == view[w]
        entity == Head(v.entities)
        file == files[Slug[entity.name]]
    IN  /\ step[w] = "topics"
        /\ IF v.entities = <<>>
           THEN End(w, "ok", [NoView EXCEPT !.counts = v.counts]) /\ UNCHANGED files
           ELSE IF ~ShouldSync(entity.type) \/ UpToDate(file, entity, v.relations)
           THEN view' = [view EXCEPT ![w] = NextTopic(v)] /\ UNCHANGED <<files, step, cmd, answer>>
           ELSE /\ files' = [files EXCEPT ![Slug[entity.name]] = Empty]
                /\ Goto(w, "put")
                /\ UNCHANGED <<view, cmd, answer>>
        /\ UNCHANGED <<db, now, alone, started>>

\* The text goes to the start of the file.  If another compact has filled the
\* file since it was truncated, the end of a longer text stays behind
PutTopic(w) ==
    LET v    == view[w]
        slug == Slug[Head(v.entities).name]
        text == Topic(Head(v.entities), v.relations, v.today)
        same == Parsed(files[slug]) /\ files[slug] = [text EXCEPT !.compacted = files[slug].compacted]
    IN  /\ step[w] = "put"
        /\ \E result \in {text} \cup IF files[slug] = Empty \/ same THEN {} ELSE {Torn} :
             files' = [files EXCEPT ![slug] = result]
        /\ view' = [view EXCEPT ![w] = [NextTopic(v) EXCEPT !.counts = <<v.counts[1] + 1>>]]
        /\ Goto(w, "topics")
        /\ UNCHANGED <<db, now, cmd, answer, alone, started>>

----------------------------------------------------------------------------
(* The environment. *)

\* A query fails, or the process dies: a call may have been carried out all the
\* same, and a text may have been written in part
BreakOff(w) ==
    /\ step[w] # "idle"
    /\ \/ UNCHANGED <<db, files>>
       \/ step[w] = "write" /\ db' = RequestOutcome(db, cmd[w].request, now).graph /\ UNCHANGED files
       \/ /\ step[w] = "put"
          /\ files' = [files EXCEPT ![Slug[Head(view[w].entities).name]] = Torn]
          /\ UNCHANGED db
    /\ alone' = [v \in Workers |-> alone[v] /\ db' = db]
    /\ End(w, "failed", NoView)
    /\ UNCHANGED <<now, started>>

Tick ==
    /\ now < MaxTime
    /\ now' = now + 1
    /\ UNCHANGED <<db, files, step, cmd, view, answer, alone, started>>

Act(w) ==
    \/ \E c \in Commands : Start(w, c)
    \/ Write(w)
    \/ SearchPath(w) \/ SearchPathFails(w)
    \/ SearchFilter(w)
    \/ ExpandNames(w)
    \/ ReadRows(w)
    \/ ReadCount(w)
    \/ ReadObservations(w)
    \/ ReadTruths(w)
    \/ ReadRelations(w)
    \/ ReadStats(w)
    \/ CheckTopic(w)
    \/ PutTopic(w)
    \/ BreakOff(w)

Next == (\E w \in Workers : Act(w)) \/ Tick

Spec == Init /\ [][Next]_vars

----------------------------------------------------------------------------
(* Properties. *)

\* The command of a worker that ends well in this step
Ends(w) == step[w] # "idle" /\ step'[w] = "idle" /\ answer'[w].verdict = "ok"

NamesIn(a) == {a.entities[i].name : i \in DOMAIN a.entities}

\* What the paths of a search may find in the committed graph, and the orders in
\* which it may rank that before the cut
Found(term, widened, pool) ==
    LET Hits(path) == RankedPaths(db, path, term, widened, pool)
    IN  {Fused(paths) : paths \in Hits(1) \X Hits(2) \X Hits(3)}

Rankings(term, limit, filters) ==
    LET strict == Found(term, FALSE, PoolSize(limit, filters))
    IN  IF strict = {<<>>} /\ Widenable(term)
        THEN Found(term, TRUE, PoolSize(limit, filters)) ELSE strict

\* The names a command was given
Asked(c) == CASE c.name = "show"  -> Stored(c.names)
              [] c.name = "board" -> Stored(<<c.epic>>)
              [] c.name = "write" -> Stored(c.echo)
              [] OTHER            -> <<>>

\* The entities a command is to show
ToShow(c) ==
    CASE c.name = "graph" -> Live(db)
      [] c.name = "list"  -> {n \in Tasks(db) : c.all \/ ~Finished(db, n)}
      [] OTHER            -> LET asked == ToSet(Asked(c))
                             IN  (asked \cup Neighbours(db, asked, Expand(c))) \cap Live(db)

NameList(a) == [i \in DOMAIN a.entities |-> a.entities[i].name]

\* The order of an answer: by name, or as they were asked for, the last mention
\* counting and the rest at the end
InOrder(c, a) ==
    LET asked == Asked(c)
        Mentions(n) == {i \in DOMAIN asked : asked[i] = n}
        Place(n) == IF Mentions(n) = {} THEN Len(asked) + 1 ELSE Max(Mentions(n))
        Sorting(n) == IF Everything(c) THEN NameRank[n] ELSE Place(n)
    IN  \A i, j \in DOMAIN a.entities :
          i < j => Sorting(NameList(a)[i]) <= Sorting(NameList(a)[j])

\* An entity shown as it is: its true count, and the newest of its observations
ShownAsIs(e, c) ==
    LET newest == {o \in ObsOf(db, e.name) :
                     \/ Limit(c) = 0
                     \/ Cardinality({p \in ObsOf(db, e.name) : p.id > o.id}) < Limit(c)}
    IN  /\ e.type = db.type[e.name] /\ e.truths = db.truth[e.name]
        /\ e.count = Cardinality(ObsOf(db, e.name))
        /\ ToSet(e.observations) = IF Eager(c) THEN newest ELSE {}
        /\ \A i, j \in DOMAIN e.observations :
             i < j => e.observations[i].id < e.observations[j].id

\* The relations of an answer that shows something: all between its entities,
\* and none that touches none of them
RelationsShown(c, a) ==
    LET between  == {r \in db.rel : {r[1], r[2]} \subseteq NamesIn(a)}
        touching == {r \in db.rel : {r[1], r[2]} \cap NamesIn(a) # {}}
    IN  a.entities # <<>> =>
          /\ between \subseteq a.relations
          /\ a.relations \subseteq IF c.name = "list" THEN between ELSE touching

\* A search for words alone
PlainSearch(c) == c.name = "search" /\ c.filters = {} /\ c.term.words # {}

\* A reading command that nobody disturbs prints exactly what the graph holds:
\* the entities asked for, each once and as it is, in the order of their names
\* or of the request, and the relations between them; in particular the echo of
\* a write shows that write.  A search prints the head of a fused ranking of
\* what its three queries find, of the term as it is if that finds anything.
\* (Relations with one end among the entities come with them; SearchIntersects is
\* about searches with filters.)
ReadsExact ==
    [][\A w \in Workers :
         LET c == cmd[w]
             a == answer'[w]
         IN  alone[w] /\ Ends(w) =>
               CASE c.name = "stats" ->
                      a.counts = <<Cardinality(Live(db)), Cardinality(db.rel), Cardinality(db.obs)>>
                 [] PlainSearch(c) ->
                      /\ \E ranking \in Rankings(c.term, SearchLimit(c), {}) :
                           NameList(a) = Prefix(ranking, SearchLimit(c))
                      /\ \A i \in DOMAIN a.entities : ShownAsIs(a.entities[i], c)
                      /\ RelationsShown(c, a)
                 [] \/ c.name \in {"graph", "list", "show", "board"}
                    \/ c.name = "write" /\ c.echo # <<>> ->
                      /\ NamesIn(a) = ToShow(c)
                      /\ Len(a.entities) = Cardinality(ToShow(c))
                      /\ InOrder(c, a)
                      /\ \A i \in DOMAIN a.entities : ShownAsIs(a.entities[i], c)
                      /\ RelationsShown(c, a)
                 [] OTHER -> TRUE]_vars

\* "Rewards an entity that several paths agree on": an undisturbed search prints
\* an entity that k of its three queries find before one that only j of them
\* find, and never the latter without the former, whatever their ranks, if the
\* longest of the three lists is within the pool and shorter than
\* k (Damping + 1) / j - Damping; the caller's limit makes no difference.
AgreedFirst ==
    [][\A w \in Workers :
         LET c == cmd[w]
             names == NameList(answer'[w])
             Hits(widened) == <<ObservationHits(db, c.term, widened),
                                TruthHits(db, c.term, widened), NameHits(db, c.term, widened)>>
             hits == Hits(Widenable(c.term) /\ \A path \in 1..3 : Hits(FALSE)[path] = {})
             most == CHOOSE n \in {Cardinality(hits[path]) : path \in 1..3} :
                       \A path \in 1..3 : Cardinality(hits[path]) <= n
             Agreed(n) == Cardinality({path \in 1..3 : n \in hits[path]})
         IN  (PlainSearch(c) /\ alone[w] /\ Ends(w) /\ most <= CandidatePool) =>
               \A j \in DOMAIN names, m \in Live(db) :
                 Agreed(m) * (Damping + 1) > Agreed(names[j]) * (Damping + most) =>
                   \E i \in 1..(j - 1) : names[i] = m]_vars

\* An empty result means that nothing was recorded: if an undisturbed search
\* for bare words prints nothing, no observation and no truth in the graph has
\* any of them, although FTS5 ANDs the words and no text may have them all.
SearchFinds ==
    [][\A w \in Workers :
         LET t == cmd[w].term
         IN  (/\ PlainSearch(cmd[w]) /\ t = Bare(t.words)
              /\ alone[w] /\ Ends(w) /\ answer'[w].entities = <<>>)
             => /\ \A o \in db.obs : TextWords[o.content] \cap t.words = {}
                /\ \A n \in Live(db), k \in Keys :
                     db.truth[n][k] # Null => TextWords[db.truth[n][k]] \cap t.words = {}]_vars

\* An entity whose topic file is its own
HasOwnTopic(n) ==
    /\ n \in Live(db) \ Tasks(db)
    /\ \A m \in Live(db) \ Tasks(db) : Slug[m] = Slug[n] => m = n

\* A compact that nobody disturbs leaves every durable entity's topic as the
\* graph has it, whatever an earlier one that died left in the directory: a
\* truncated or partial file is not taken for an up-to-date one.
CompactsCurrent ==
    [][\A w \in Workers : cmd[w].name = "compact" /\ alone[w] /\ Ends(w) =>
         \A n \in Names : HasOwnTopic(n) =>
           LET file == files'[Slug[n]]
           IN  Parsed(file) /\ file = Topic(WholeEntity(db, n), db.rel, file.compacted)]_vars

\* A topic is rewritten only if there is something to say: a compact that nobody
\* disturbs truncates no topic that is up to date, however late it runs, so the
\* files of an unchanged graph stay as they are.  (Not so two kinds of files:
\* entities whose names slugify alike share one and take it from each other
\* every time, and a link of the type "compacted" hides the time.)
TopicsStable ==
    [][\A w \in Workers :
         (alone[w] /\ step[w] = "topics" /\ step'[w] = "put") =>
           LET n == Head(view[w].entities).name
               file == files[Slug[n]]
           IN  ~(/\ HasOwnTopic(n) /\ Parsed(file) /\ ~TimeHidden(file)
                 /\ file = Topic(WholeEntity(db, n), db.rel, file.compacted))]_vars

\* Every stored name is its own stored form, so that names which went through
\* normalize_key once (those a read returns, those search hands on) may go
\* through it again; and the name of a child of an epic is stored as the epic's
\* stored name with the child's suffix, however the epic was spelled.  (About
\* texts alone: evaluated before the first command.)
NamesNormal ==
    started = 0 => \A s \in Samples :
      LET n == NormalizeKey(s)
      IN  /\ NormalizeKey(n) = n
          /\ n # <<>> => \A a \in Alphanumerics :
               NormalizeKey(s \o <<":", a>>) = n \o <<":", a>>

\* Every value that is quoted into the frontmatter of a topic is read back as it
\* was, backslashes and quotes included: the `compacted` time that decides
\* whether a topic is rewritten is among them.  (About texts alone.)
QuoteReversible == started = 0 => \A s \in Samples : Unquote(Quote(s)) = s
=============================================================================
