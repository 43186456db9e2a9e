# Asobi: models, checks and proofs

Asobi keeps a knowledge graph and a task board for coding agents in a SQLite
file. Several processes work on one file at once: command-line invocations,
each of them a process, and a long-lived server that answers many requests over
one handle and sweeps its graphs every hour. These modules state what the
program does to that file, step by step, what must be true of it, and why it is.

All paths below are relative to `src/`.

## 1. The system

| Part | Source | State it keeps | Operations |
| --- | --- | --- | --- |
| SQLite store, writes | `crates/asobi-storage/src/storage/sqlite.rs`, `migrations/0001_baseline.sql` | one file (entities, observations, relations, truths, two full-text indexes), a pool of 5 connections, one `retention_swept` flag | create, add, relate, delete, update, truth upsert/delete, task update, dispatch, claim, purge, reset, sweep |
| SQLite store, reads | the same | none | read graph, open nodes with expansion, search, statistics |
| v3 traits and types | `crates/asobi-core/src/api/v3.rs`, `model.rs` | none | the contract of both providers |
| Task commands | `crates/asobi/src/tasks.rs` | none | plan, list, claim, update, dispatch, sync, close: sequences of trait calls |
| Backend selection, remote client | `crates/asobi/src/storage.rs`, `storage/remote.rs`, `config.rs` | local / pending / remote behind a mutex | negotiate once, then route every call |
| HTTP protocol | `crates/asobi-core/src/protocol/` | none | decode, dispatch, map errors to statuses and back |
| Server, registry, background sweep | `crates/asobi-server/src/` | the opened stores by graph name | get or open a store, serve a call, sweep all graphs |
| Names and slugs | `crates/asobi-core/src/normalize.rs` | none | the stored form of a name; file names |
| Compaction, frontmatter | `crates/asobi/src/compact.rs`, `frontmatter.rs` | topic files | project the graph to Markdown, skip unchanged files |
| Workspace discovery | `crates/asobi-core/src/paths.rs`, `init.rs` | none | where the file, the configuration and the topics are |
| CLI commands and output | `crates/asobi/src/cli/` | none | arguments to one trait call, result to text |

**How they interact.** A command calls the traits. Locally they are the store;
remotely they are HTTP calls to a server, whose registry finds the graph's store
and calls the same methods on it. So one file may have many writers: several
processes, each with a handle of its own, and many concurrent requests of a
server that share a handle. They meet in two places: SQLite's write lock
(`BEGIN IMMEDIATE`, with a busy timeout of 15 s), and the handle's
`retention_swept` flag, because every write first runs the sweep its handle
still owes. The sweep is two transactions of its own: one marks idle tasks
`ABANDONED`, one deletes finished tasks past retention.

**What is hard.** Interleavings of writers, of the sweep in front of one write
with another write, and of read-then-write commands; operations that fail or
are dropped at any await; a process that dies between two transactions; indexes
kept in step by triggers; rules that depend on the last activity of a task,
which triggers maintain; command sequences that are not transactions; a remote
call whose answer is lost. `PROJECT.json` lists these hazards at their lines,
with the properties that cover them.

**What makes each part correct.**

* Store, writes: calls are atomic; the graph is referentially sound and its
  indexes exact at every commit; ids are never reused; eviction keeps the
  newest; a claim is exclusive; a task in progress is never abandoned and
  deletion is always the second step of two; calls end; the sweep happens.
* Store, reads: what a read returns belongs together; search returns what matches.
* Task commands: a plan is all there or can be completed; an epic is closed only
  when its children are done; a failed command can be repeated.
* Remote client: no operation reaches a local graph; an error means "maybe", a
  success means "done"; the error kinds survive the round trip.
* Registry: one store per graph; a failing graph stops no other.
* Names, slugs, frontmatter: normalisation is idempotent; quoting is undone by
  parsing; two entities do not share a file.
* Compaction: a second run writes nothing; torn files are repaired.
* Workspace: commands started below one another work on one graph.

## 2. The modules

| Module | What it is |
| --- | --- |
| `GraphTables` | The tables and the SQL statements on them, each with the cascade and the triggers that fire inside it. Operators from a database value to the next. |
| `GraphOps` | What each operation of the traits does to a graph (one item of its list), and the two rules of the sweep. The types of requests and answers. |
| `SqliteStore` | The state machine: callers, handles, the owed sweep, the transaction, its items, commit, vacuum; failures, dropped calls, dead processes, time. The safety properties. |
| `StoreCalls` | The outcome of one whole call on a graph: the graph it leaves and its answer. |
| `AtomicStore` | What the store promises: each call happens at one instant, whole or not at all. |
| `StoreRefinement` | The mapping under which `SqliteStore` implements `AtomicStore`. |
| `StoreHistory` | `SqliteStore` with the day each task was finished remembered, and the two-step life of tasks stated with it. |
| `StoreProgress` | Fairness and the liveness properties. |
| `TaskCommands` | The `asobi tasks` commands: reads of several queries, decisions, and sequences of calls, each of them one outcome of `StoreCalls`. |
| `TaskHistory` | `TaskCommands` with the tasks remembered that have been open ever since a `close` started. |
| `TaskDocs` | Three sentences of the help text, an error message and `docs/usage.md` that the task commands contradict. |
| `GraphQueries` | The queries of the reads, each on the graph it runs on: the selection, what is read of an entity, the three paths of a search, in any order `bm25` may give them, and their fusion into one ranking. |
| `Texts` | The conversions of texts, on sequences of characters: stored names, slugs, quoting and its inverse. |
| `ReadCommands` | The commands that read (`graph`, `show`, `list`, `board`, `search`, `stats`), those that write and echo what they wrote, and `compact` with its topic files. |
| `ReadDocs` | A sentence of `docs/usage.md` about searches that the code contradicts. |
| `Workspace` | Which graph a command works on: discovery, configuration, selection of the backend, as operators on a tree of directories. |
| `AtMostOnce` | What a command may rely on, whichever backend it was given. |
| `RemoteSession` | Processes on local and remote graphs, the network, and a server that stops and comes back as another build. |
| `GraphRegistry` | Opening files in the steps of `open_at`; the registry of a server, its sweep over all graphs, and other processes. |
| `MCStore`, `MCHistory`, `MCTasks`, `MCTaskHistory`, `MCReads`, `MCRemote`, `MCRegistry` | The instances TLC checks. |
| `GraphOpsProofs`, `StoreCallsProofs` | Lemmas about statements, operations and whole calls. |
| `SqliteStoreProofs`, `StoreStepsProofs`, `TaskCommandsProofs`, `ReadCommandsProofs`, `RemoteSessionProofs`, `GraphRegistryProofs` | The theorems and their proofs. |

`TaskCommands`, `ReadCommands` and `RemoteSession` stand on the store's promise:
because calls are atomic (`CallsAtomic`), a call of a command is one step, with
the outcome `AtomicStore` gives it. `TaskCommands` and `ReadCommands` compute it
with `StoreCalls`; `RemoteSession` takes it as the constant `Effect`, which
`MCRemote` defines by `StoreCalls!RequestOutcome`, because what matters there is
whether a call took effect, not which effect. `RemoteSession` shows that what
a command relies on survives the network: it implements `AtMostOnce`.

### State and actions against the code

`db` is the committed file. A caller's `work` is the file as its own transaction
sees it; nobody else sees it until `Commit`. `pc` is where the caller's future
is: `sweep` (about to test the flag), `abandon` and `retain` (about to run a
transaction of the sweep), `begin` (about to `BEGIN IMMEDIATE`), `exec` (the
transaction is open), `vacuum` (committed, the pragma still to run). `todo` is
what is left of the list the call was given, `reply` its answer.

Between two awaits the code only computes, so a step is one await or several
that no other actor can tell apart. Inside an open write transaction, one step
executes all statements of one item: they are seen by nobody, a failure or a
drop among them rolls all of them back, and `TransactionFails` and `Cancel` may
happen before and after every item. The two transactions of the sweep are one
step each, for the same reason; `SweepFails` is either of them failing.

* `Call` starts an operation; the background sweep sets the flag as `sweep()`
  does. `RefuseUpdate` is the check of the arguments in `update`, which precedes
  the sweep and the transaction.
* `SweepExpiredOnce` is the atomic swap of the flag. `AbandonIdleTasks` and
  `DeleteFinishedTasks` are the body of the sweep, a window of 0 days switches a
  rule off without a transaction, and in front of a write their errors are
  dropped, while the background sweep reports them.
* `BeginImmediate` takes the write lock: no other transaction is open.
* `CreateEntities` … `ResetGraph` execute one item each, one action per method.
  A refusal (`NotFound`, `Invalid`, a foreign key, a task that is not ready)
  drops the transaction.
* `Commit` publishes `work`. The answer of a call may be lost after it.
* `Vacuum` follows the commit of a `purge` that deleted something and of `reset`.
* `Cancel` drops the future, as the server does when its client hangs up;
  `Restart` is the death of a process with all its callers, and its flag's reset.
* `Tick` moves the clock by a day.

A task command (`TaskCommands`) goes through `step`: `check` (about to send its
first query), `rows` and `truths` (between the queries of `close`'s read),
`calls` (its `script` is what it has still to send). The reads of `plan` and
`sync` use only the rows of one query, so they are one step; `close` also needs
the relations and the truths, which are queries of their own outside a
transaction, and so steps of their own (`CloseExpand`, `CloseRows`, one
`CloseTruths` per task). `Send` is a call and its answer, `BreakOff` an error, a
death, or an answer lost after the call was carried out. `Start` and
`RejectArguments` are the command line being accepted or refused. A command of
another family is a command of one call (`name |-> "call"`).

A read (`ReadCommands`) runs its queries one by one and outside a transaction:
`search` (one path of the ranking), `filter` (`--where`), `expand`, `rows`, then
for each row `count`, `observations` and `truths`, and last `relations`. `view`
is what the read has seen so far. A command that writes is one call (`Write`)
and, with `--json`, the read of the names it wrote. `compact` reads everything,
then goes through the entities: `CheckTopic` compares the file and truncates it
if it must be rewritten, `PutTopic` fills it. A process may die at every step,
also with a file half written (`BreakOff`). `answer` is what was printed. `alone` is
a history variable: nothing has changed the graph, and nobody else has run,
since the command started.

In `RemoteSession` a command is a script of calls. `Open` is the selection of
the backend, `Negotiate`, `Negotiated` and `NegotiationFails` the first call on
a pending one, `Send` and `Receive` a call. The request and its response are on
the network in between; `ConnectionBreaks` may happen before and after the
server has carried the call out, and the request may still arrive later.
`Serve` is the whole of the server: refusals in the order of the code, then the
store, then the status; `AnswerOf` is the client's way back from a response to
an error. `Open` also creates the directory of a local graph's file, which makes a
workspace of a place that had none. `InitDirectories` and `InitConfig` are the two effects of
`init --local`. `calls` records every call made, whether it ran, and what was
told: a history variable, which the refinement maps to itself.

In `GraphRegistry` an opener is a request, the sweep, or a local process; every
await of `open_at` is a step (`probe`, `version`, `check`, `connect`, `header`,
`migrate`), and a file is what those steps tell apart: whether it has a header,
its version, `auto_vacuum`, WAL and the schema. Served openers hold the registry's
lock from the look into the map (`Lock`) until the store is inserted or the
opening failed. The sweep lists the open stores (`ListStores`) and then the
directory (`ListDirectory`): an error there passes over any part of it, as the
code does silently (`registry.rs:81-82`). `Abandon` drops a request's future, which releases the lock;
`KillServer` and `KillLocal` are deaths; `MoveAside` is the user who follows the
advice of the version error.

### What is abstracted

* Names are model values; `Norm` maps the spellings callers use to the stored
  form. Texts, types and keys are model values; statuses are the strings of the
  code, because the rules compare them.
* The clock counts days, the unit of both windows. It stands still while a write
  transaction is open (a transaction is short against a day, and both the
  triggers and the rules read the clock of their own statement). `Inactive` is
  strict, as the comparison in the code is.
* An index entry is its row's key and its text. In the reads, a text is the set of
  its words, and what FTS5 finds is part of the term (`Terms`): for bare words the
  texts with all of them, or widened with any (`Bare`); for a term it rejects none,
  whether it has operators or not. The rank of a text depends on the whole corpus,
  and of an entity with several matching texts SQLite takes the first it scans
  (`SELECT DISTINCT` with `ORDER BY bm25`), so a path by `bm25` has its names in
  any order.
* The fused scores are integers over a common denominator (`Scale`). The code adds
  floating-point numbers: two scores that are equal here because the same three
  ranks were added in another order may differ there in the last bit, and then the
  tie is not broken by name. No property depends on such a tie.
* The paths in environment variables are absolute, and no `data_dir` of a file lies
  below `.asobi` but the default one.
* A topic is a record of what its text says; `Texts` treats the conversions whose
  inverses matter (names, slugs, quoting) on their characters.
* A directory tree is one path of directories, since discovery only walks up.
* `created_at` and `updated_at` are written and never read.
* The pool, its acquire timeout and the busy timeout appear as what they lead to:
  waiting ends with the lock or with an error.
* A vacuum that fails behind the sweep of a write is dropped like any error of
  that sweep, so it has no step of its own.
* Loss of power is not modelled: with `synchronous=NORMAL` in WAL mode a commit
  may be undone by it.
* The checks for blank names, titles, notes and agents of the task commands are
  left out: they end a command before it has read or written anything. So is
  the read `plan` makes for its `--json` output (`list` is in `ReadCommands`).
* In `TaskCommands` the sweep is a step that may happen at any time
  (`Housekeep`), which covers the sweep in front of any write.
* `claim_next` has a branch for a task that is no longer ready when the update
  runs; the lock makes it unreachable, and there is no step for it.

## 3. What the runs check

The runs of the store have three names (an epic, a child of it, a durable
entity; two of them with a second spelling), a cap of 2 observations, two agents;
the `task_` runs have four (a project, an epic and its two tasks).

| Run | Instance | Properties |
| --- | --- | --- |
| `store_life` | a server's request, its sweep and a CLI process; windows of 1 day, 4 days; updates, unlinks, purges | `GraphConsistent`, `AbandonsOnlyIdle`, `TwoStepLifecycle` |
| `store_atomic` | the same actors, one request of every shape including refused ones, two ways to dispatch, a claim and a re-opening; 2 calls, 2 days | `TypeOK`, `IdsNeverReused`, `EvictionKeepsNewest`, `ClaimsExclusive`, `CallsAtomic` |
| `store_progress` | a server's request and its sweep, 4 days, fairness | `CallsEnd`, `FinishedTasksGo`, `IdleTasksEnd` |
| `task_plans` | 3 workers, 3 commands: two plans of one epic (one in another spelling), claims, syncs, refused arguments | `NoHalfTasks`, `PlanWhole` |
| `task_close` | 2 workers, 3 commands, 2 days, windows of 1 day: closes in two spellings, with and without a lesson, updates, syncs, the deletion of a task, with the history variable | `TypeOK`, `CloseJustified`, `LessonsFirst` |
| `reads` | 2 workers, 2 commands of every kind on three entities, two of which share a slug; texts of two words and of one; terms FTS5 rejects, with and without operators; a topic with a link of the type "compacted"; deaths with a file half written | `TypeOK`, `ReadsExact`, `AgreedFirst`, `SearchFinds`, `CompactsCurrent`, `TopicsStable`, `NamesNormal`, `QuoteReversible` |
| `remote` | 2 processes, 7 commands (claims, updates of a missing task, reset, purge; local, remote, without any workspace, an unreachable address, an invalid graph), 4 builds of the server, one of them no Asobi, 3 trees, a restart, `init --local` | `TypeOK`, `AnswersTrue`, `OldServersUncalled`, `OneWorkspace`, `FailsClosed`, `AtMostOnceKept`, `CommandsEnd` |
| `registry` | a request, the sweep and a local process on a graph that is new or current, one of an older Asobi, and an invalid name; deaths everywhere | `TypeOK`, `OneStore`, `StoresComplete`, `OthersUntouched`, `NewFilesShrink`, `SweepReaches`, `AllAnswered` |
| `doc_close_race`, `doc_plan_race`, `doc_refused_close`, `doc_search_filters` | | one sentence of the documentation each, refuted |

What they say:

* `GraphConsistent`: at every commit no row refers to a missing entity, no id
  names two observations, and the search indexes hold exactly the text of the
  rows. The risky paths are cascades, evictions, updates by content and `reset`.
* `IdsNeverReused`: an id below the counter names the same entity's observation
  or nothing, also after `reset`; so an id read by one process is safe to use in
  a later command.
* `EvictionKeepsNewest`: what a batch evicts is older than all that stays, and
  the entity is left exactly at the cap.
* `ClaimsExclusive`: relates the answer to the committed graph before and after
  it, so it fails if two claimants read the same ready task.
* `AbandonsOnlyIdle`: in the committed graph of that moment, the task was idle
  for the window and had no open child. (A `truth_upsert` that writes `ABANDONED`
  by hand is excepted.)
* `TwoStepLifecycle`: what a sweep or a purge deletes has been visible as
  finished for the whole window, counted from the day it became so.
* `CallsAtomic`: `SqliteStore` implements `AtomicStore`. The sweep a call owes
  may take effect while the call is pending; the call itself is one instant; an
  error means nothing happened except after `purge` and `reset`; a caller that
  is cut off does not know.
* `CallsEnd`, `FinishedTasksGo`, `IdleTasksEnd`: calls end; on a server no
  finished task stays past retention, and no idle one stays open, if nobody
  touches it.
* `NoHalfTasks`: however planners race and die, a planned task that can be claimed
  has a title, and one on the board has a title and a status. It rests on the
  order of `plan`'s calls. It is stated for instances without deletion: a name
  deleted and planned again in the middle of an older plan may be ready early.
* `PlanWhole`: a plan that reports success has its epic and all its tasks on the
  board at that instant, whichever of its calls failed or was lost before and
  whatever another plan did to the same names.
* `LessonsFirst`: at the instant a close marks its epic DONE the project holds
  the lessons, whichever call failed. It rests on the order of `close`'s calls,
  and is stated for instances that delete no project and stay under the cap.
* `CloseJustified`: `close` never starts to write over a task that was open ever
  since the command started, although its read is not one snapshot. That is all
  its read is worth: see `doc_close_race`.
* `ReadsExact`: what a command prints that nobody disturbed is exactly what the
  graph holds: the entities asked for, each once, with its true count and its
  newest observations, in the order of names or of the request, and every relation
  between two of them. A search for words prints the head of a ranking that the
  fusion gives for some order of its paths. This covers the selection, the
  expansion, the ranking and the cut of a search, and the echo of a write.
  Relations with one end in the answer come with it, whatever `docs/usage.md` says of
  them (see below), and searches with filters are left to `doc_search_filters`.
  Disturbed reads promise less.
* `SearchFinds`: a search for bare words that prints nothing means that no text has
  any of them, which rests on the second, widened attempt. It does not hold of
  words that FTS5 rejects, nor of a search one of whose queries failed: the code
  takes either for no matches. Which entities with one of several words are found
  otherwise is not its matter: the words are ANDed as long as that finds anything.
* `AgreedFirst`: an entity more of the three paths find is printed before one that
  fewer find, as long as the lists are short against the damping (with the 60 of
  the code: two paths beat one in lists of up to 61, three beat two in lists of up
  to 31). The caller's limit makes no difference: were the pool the limit, the
  entity could be cut from the paths before they agree, and the mutant does that.
* `CompactsCurrent`, `TopicsStable`: a compaction repairs what one that died left,
  and leaves an up-to-date file alone. Two entities with one slug rewrite their
  file in every run, and are excepted from the latter; so are topics with a link of
  the type "compacted", which the header lists behind the time (`compact.rs:114`) and
  which is read in its place, so that they are rewritten by every run.
* `NamesNormal`, `QuoteReversible`: about the conversions, over all texts of up to
  four characters (`Samples`) that matter to them.
* `FailsClosed`: a process for which a remote is configured makes no call on a
  local graph. What is configured is stated apart from the resolution (any level
  of the tree whose file is the first one met, or the environment).
* `AnswersTrue`: "ok" means done; a definite refusal means that nothing changed,
  then or later. `AtMostOnceKept` adds that no call runs twice, or after its
  process was told that it failed for good; "unavailable" says nothing.
* `OldServersUncalled`: a server that does not offer the version is asked for its
  metadata and nothing else. `OneWorkspace`: directories below a workspace belong
  to it, also while `init --local` is half done. Where there is no workspace, not
  even the user's, because neither HOME nor XDG_DATA_HOME is set, the code works on a
  directory of the place the command is started in (`paths.rs:149-160`), so two places
  have two graphs: those commands (`Homeless`) are excepted.
* `OneStore`, `StoresComplete`: one store per graph and server, on a complete file
  of this build, however openers die or race. `OthersUntouched`: a file of another
  version is not written by any step. `NewFilesShrink`: who writes the header of a
  file it created also asks for `auto_vacuum`, which only then has an effect.
* `SweepReaches`: a sweep ends having tried every graph there was when it began,
  whichever of them fail, except those moved aside and those it did not find: the
  listing of the directory drops its errors (`registry.rs:81-82`), and only open
  stores are swept whatever it says. `AllAnswered`: every request is answered, and
  every sweep ends.
* `CommandsEnd`: a command ends, or waits for ever for the answer to a call after
  the negotiation. The negotiation itself ends whatever the server does, because it
  has a timeout; a call has none (`remote.rs:33`), so against a server that accepts
  and says nothing there is no more to state.

**Bounds.** `MaxCalls` bounds the calls of a behaviour (the background sweep
does not count), `MaxTime` the clock. `MaxCommands` bounds the task commands. Two or three calls
are enough for every pair of operations to interleave, with a third to look at what they left; the
graph the runs start from already has a planned epic. Four days are two windows
and the days after them: abandoned on one, deleted on another. Two items per
list are enough for a list to fail half way. Deadlock is checked in
`store_life` and `store_progress`; the others stop when the calls, commands and days
are used up, or may idle for ever (`registry`), and say so.

`reads`: two workers are enough for a write, or a second compaction, between any
two queries or file operations of a command; the third command would only
repeat. The pool holds 2 candidates of 3 entities, so that it cuts. Workers are
symmetric, and the run has no liveness property. `remote`: two commands of two
calls each make a retry, a late request and a newer one meet; one restart makes
every pair of builds follow each other. The graph of `MCRemote` is one of the few
its calls can make of it, and is represented by its number. `registry` bounds
nothing but the actors: requests, sweeps, deaths and moves recur without end; the
numbers of stores stay small because `OneStore` holds.

**Fairness** (`StoreProgress`). Every call makes progress (weak fairness on the
steps of each caller): the runtime polls a future that can move, and the busy
timeout turns a wait for the lock into an error, so waiting is never what stops
it. The background task calls `sweep` again and again (it waits an hour, never
for an event). Its two transactions are not defeated every time they are
possible (strong fairness: the server is not killed, nor the file busy for
15 s, at every single sweep). Days pass. No fairness is assumed of callers that
call, of failures, cancellations or deaths.

`RemoteSession`: a process that can move does, and the negotiation has a timeout of
2 s (`storage.rs:101`). The connect timeout of a call (`remote.rs:33`) is not used.
Nothing is assumed of servers, network and operator: a server may stay down, never
take a request, or never be noticed to be gone. `GraphRegistry`: openers that can move do
(weak fairness), and whoever waits for the lock gets it (strong fairness), as
tokio's `Mutex` is first come, first served.

**The documentation.** Four runs show a sentence of the documentation refuted.

`close` "marks an all-DONE epic as closed" (`crates/asobi/src/tasks.rs:80`), but a
task may be re-opened between the read and the write (`doc_close_race`). A status
"moves through READY_TO_DISPATCH → DISPATCHED → …" (`docs/usage.md:356`), but the
second of two plans that raced past the check for existing names puts a claimed
task back to ready (`doc_plan_race`). "Every child task must be DONE"
(`tasks.rs:332`) is also said when all of them are: the parent of a nested epic is
counted as a child, because the expansion follows `part_of` both ways, and so is
the epic itself when its name is typed in a spelling that is not the stored one
(`doc_refused_close`). A term and filters "intersect" (`docs/usage.md:285`), but a
search whose words match nothing prints all that its filters let through
(`doc_search_filters`).

Smaller disagreements and limits met while modelling, with no run of their own:

* the preview of a purge runs the sweep its process owes, which abandons and
  deletes (`docs/usage.md:342`, `sqlite.rs:1091`); the abandonment note goes in
  without a trim, over the cap (`docs/usage.md:250`, `sqlite.rs:355`);
* a write that would refresh an idle task runs the sweep first, which may abandon
  that very task (`sqlite.rs:215`);
* a plan that died half way cannot be repeated, its targets exist
  (`tasks.rs:122`); `sync` writes notes and status in two transactions
  (`tasks.rs:298`); an epic whose children retention has deleted has nothing left
  to be closed by (`tasks.rs:325`);
* a read during a write may show an entity's count from before it and its
  observations from after it (`sqlite.rs:502`); a search that selects no names
  returns the relations of the whole graph (`sqlite.rs:584`); others keep a relation if
  one end is shown (`sqlite.rs:587`), while `docs/usage.md:270` says "between" and
  `:291` and `:392` "among" the entities;
* a search for two words finds "either word" (`docs/usage.md:472`) only if no entity
  has both (`sqlite.rs:1006`; `docs/usage.md:278` has it right); and it does "return a
  silent zero" (`docs/usage.md:278`) for several words of which FTS5 cannot parse one,
  such as `auth-token expiry`: the error counts as no match (`sqlite.rs:629`), and the
  widened term has the same word;
* ranking "does not shift when you ask for more" (`docs/usage.md:276`), up to the
  pool: a limit above 100 is the pool, and may reorder (`sqlite.rs:614`);
* a path of a search whose query fails counts as one without matches, and nobody is
  told (`sqlite.rs:629`);
* a file found with no bytes is completed without `auto_vacuum` (ADR 0008); of two
  processes that create a file at once one may fail in the migration; the sweep of
  a server creates a file again that was moved aside after it was listed; a file that
  another build creates between the look at the version and the connection would
  be migrated (`sqlite.rs:134-164`; the model has openers of one build only);
* an `asobi.toml` that does not parse is passed over, so its remote is too
  (`paths.rs:110`); a server that accepts a call and never answers holds its
  process, and the backend's mutex, for ever (`remote.rs:33`).

## 4. What is proved

For all values of the constants that satisfy the named assumptions
(`NamesAssumption`, `ColumnsAssumption`, `OpsAssumption`, `StoreAssumption`; for
the task commands and the reads their `CommandsAssumption` and
`CommandLinesAssumption`, for the reads also `QueriesAssumption` and
`TextsAssumption`; for the sessions `WorkspaceAssumption`, `RemoteAssumption` and
`EffectAssumption`; for the registry `RegistryAssumption`), `tlapm` checks:

| Module | Theorem | Says |
| --- | --- | --- |
| `SqliteStoreProofs` | `TypeCorrect`, `GraphAlwaysConsistent` | `Spec => []TypeOK`, `Spec => []GraphConsistent` |
| | `IdsStayFresh` | `Spec => IdsNeverReused` |
| `StoreStepsProofs` | `CallsAreAtomic` | `Spec => CallsAtomic`: the store implements `AtomicStore` |
| | `ClaimsAreExclusive`, `EvictsOldest`, `AbandonsIdleTasks` | `Spec => ClaimsExclusive`, `Spec => EvictionKeepsNewest`, `Spec => AbandonsOnlyIdle` |
| | `TwoStepsApart` | `HSpec => TwoStepLifecycle` (of `StoreHistory`) |
| `TaskCommandsProofs` | `TasksWellTyped` | `Spec => []TypeOK` |
| | `TasksAreNeverHalf` | `Spec => []NoHalfTasks`, assuming `PlansUndisturbed` |
| | `PlansAreWhole` | `Spec => PlanWhole`, assuming `OnlyTasksPlanned` |
| | `ClosesAreJustified` | `HSpec => []CloseJustified` (of `TaskHistory`) |
| `ReadCommandsProofs` | `ReadsWellTyped` | `Spec => []TypeOK` |
| | `NamesAreNormal`, `QuotesAreReversible` | `Spec => []NamesNormal`, `Spec => []QuoteReversible` |
| `RemoteSessionProofs` | `SessionsWellTyped` | `Spec => []TypeOK` |
| | `AnswersAreTrue`, `OldServersAreUncalled`, `WorkspaceIsOne` | `Spec => []AnswersTrue`, `Spec => []OldServersUncalled`, `Spec => []OneWorkspace` |
| | `RemoteFailsClosed` | `Spec => FailsClosed` |
| | `PromiseIsKept` | `Spec => AtMostOnceKept`: the session implements `AtMostOnce` |
| `GraphRegistryProofs` | `RegistryTypes`, `GraphsOpenedOnce`, `StoresAreComplete` | `Spec => []TypeOK`, `Spec => []OneStore`, `Spec => []StoresComplete` |
| | `OthersLeftAlone`, `NewFilesCanShrink`, `SweepsReachAll` | `Spec => OthersUntouched`, `Spec => NewFilesShrink`, `Spec => SweepReaches` |

With these, every invariant that a run checks is proved, and so are both
refinements. The assumptions say that the columns have the values the rules
compare, that normalisation yields names, that `ORDER BY name` is a strict order
on finitely many names, that no status is both ready or in progress and final,
that requests are well formed (one item for the operations that are about one
thing, one cap for the batches of one `add_observations`), that command lines
are what the parser lets through, and that the graph the file starts with is
consistent, its activity stamps not in the future. `EffectAssumption` says of what
the store does for a request that an error leaves the graph as it was, which
`CallsAtomic` shows.

Two theorems have a hypothesis of their own, stated in the model and evaluated
by TLC on the instance of the planning run. `PlansUndisturbed`: nothing is
deleted, and only plans make a planned task ready or link it to an epic. Without
it `NoHalfTasks` is false: a name that is deleted and planned again in the middle
of an older plan may be ready early. `OnlyTasksPlanned`: what else is created
under the names of plans are tasks. Without it `PlanWhole` is false:
`create_entities` leaves an entity of another type that it finds as it is.

### The store

`GraphOpsProofs` proves of each statement that it keeps a graph `Consistent`,
brings no id back, and stamps every entity whose truths it changes, and composes
these to each operation and to the rules of the sweep (`Sound`). `GraphConsistent`
alone is not inductive: a commit publishes `work`, of which it says nothing. The
invariant `StoreInv` (theorem `StoreInvariant`) adds that every open view is
consistent, that there is at most one writer, and that each view has grown from
the *present* `db` under the *present* clock; that last part holds because one
writer excludes every other change of the file while a view is open, the sweep's
included, and because time stands still. `IdsNeverReused` is then the step from
`db` to a view that grew from it.

`StoreCallsProofs` is about whole calls. The outcome of a call is defined by
recursion on its items; `OutcomesDefined` gives the equation, from the least
number at which the recursion might fail to have a value. A set of graphs that
each item stays in, every call stays in (`ItemsStayIn`, `CallStaysIn`), which
carries over consistency, that no call but a sweep abandons anything, and where
the types and truths a call leaves come from (`CallTraced`).

`CallState` (in `StoreStepsProofs`) says of a call in its transaction that its
view is what the items it has executed make of the file as it still is. So the
commit publishes the outcome of the whole call on the committed graph
(`CommitOutcome`), which is the step of `AtomicStore`; the sweeps and the vacuum
map to its own, everything else to a stutter. The same lemma makes claims,
evictions and abandonments properties of one call on one graph:

* `ClaimsExclusive`: a dispatch or claim answers with the task whose status it
  moved from ready.
* `EvictionKeepsNewest`: the rows with fewer than the cap newer ones are the
  newest, and as many as the cap if there are more (`NewestRows`, by counting the
  rows between); a batch inserts above the counter. A call may name an entity
  twice; its items share one cap, because the store is given one limit per call.
  Were it one per item, a later, smaller one would evict rows of the first.
* `AbandonsOnlyIdle`: only a sweep abandons, and it sees the committed graph. What
  a user writes by hand is excepted (`WrittenByHand`): `truth_upsert` sets any
  status, also that one.

For `TwoStepLifecycle`, `HistoryInv` says that a task has been finished at least
as long as it has been inactive. It holds because finishing a task writes a truth
and the truth's trigger stamps the task; the mutant without that trigger breaks
the run.

### The task commands

`TasksInv` says where each command is and that every call in its script is one the
store accepts. `NoHalfTasks` needs in addition how far each plan is: what its
script still holds is a tail of `PlanCalls`, and what it has sent is in the graph
(`Sent`, `Furnished`): a task gets its title before its status and its status
before its link. A call of another command, of another plan as well, takes none
of it away (`CallTraced`, and the hypothesis).

`PlanWhole` follows from the same position at the end of the script, since
types, once given, stay (`AsTasks`), and a plan that is still undecided has only
looked (`Undecided`).

For `ClosesAreJustified`, `CloseInv` says where the tasks that are still open are:
among the names after the first query, among the tasks not yet read or found
open after the second. Nothing is assumed of the other steps but that they leave
the command's own view alone, so the theorem holds whatever calls others make; it
uses that normalising a stored name does not change it.

### The reads, names and topics

`ReadInv` says of every command where it can be and what its view holds there:
three paths at most while it searches, a row to be read where it reads one, one
count of topics while it compacts, an entity that is no task where it has
truncated a file. The queries are lists in an order; `OrderedLists` shows of the
way they are put in order that each member has a place, and one of its own (the
number of members before it is an injection into the places, and so onto them).
`ByName`, the newest observations and the fusion of the three paths are such
orders, the last because equal scores fall back on names; the paths by `bm25` are
any lists of distinct names (`RankedPathsAreLists`).

The conversions of texts are loops over characters. There is no induction over
texts for these provers, so `AllTexts` shows a set of texts to be all of them
from the empty text and one more character, by the length of a shortest text
outside. For names, the loop of `normalize_key` writes a text in which no two
connectors or separators are adjacent (`Regular`, kept by each character: `Whole`);
on such a text, when its ends are trimmed, the loop changes nothing (`NormalTwice`); and what it has written of a name is still there,
but for the connectors and separators at its end, when it goes on to a colon and
a letter (`NormalChild`). For quoting, undoing an escape gives back every text it
was applied to (`ReadsBack`), which applied to the two escapes gives the whole
conversion if they are undone in the opposite order.

### The sessions

`RemoteInv` follows each call: one that is on its way to the server has not run,
and its process was told at most "unavailable" (`CallSound`); a process that waits
has its last call unanswered, and a response on its way to it is true
(`ProcessSound`). It is not enough to speak of answers already given, because
`Receive` passes on whatever arrives. `SessionInv` adds what a process has opened
in each of its phases, and for `OldServersUncalled` that as long as a server
without the version has not been restarted, no process has got past the
negotiation with it and every call was local (`Uncalled`). `FailsClosed` needs `RemoteKept`: a process for which a
remote was configured never has another target; and the lemma
`ConfiguredIsOpened`: the resolution finds the remote that is configured. With
`RemoteInv`, each step is one of `AtMostOnce` or changes neither graphs nor calls
(`StepPromised`); the history `calls` is there for that. `OneWorkspace` is a fact
about `ResolveFrom` for every tree: the first file met from below a directory that
holds nothing is the first met from its parent (`FoundFurtherUp`). It needs its
exception: where nothing is found, the answer is the directory itself.

### The registry

`RegistryInv` says that the graph being opened under the lock has no store
(`Excluded`), because the lock is held from the look into the map to the
insertion, and that what an opener has learned of its file is still so
(`Sound`): no step gives a file a version, so whoever read version 0, or found no
file, never meets another one. `FileStep` sums up what any step may do to a file.
For `NewFilesShrink`, `AsksInv` says that whoever is about to create the file, or
has created it, asks for `auto_vacuum`; `Swept` for `SweepReaches` that a graph which was there and
was not passed over is either still to come or has been tried.

### Only model-checked

* `AgreedFirst`: its sums of fractions are out of the provers' arithmetic.
* `ReadsExact`, `SearchFinds`, `CompactsCurrent`, `TopicsStable`: they compare what
  a read has gathered in several steps with the graph that stood still meanwhile,
  and need, beyond `ReadInv`, what every part of a view says of that graph.
* `LessonsFirst`: it also needs that the lessons a close appended are still under
  the cap when it marks its epic, a count over all other writers.
* All liveness properties, which need fairness and ENABLED, and the four runs that
  refute a sentence.

## 5. Not modelled

* `stats --entity`, `capabilities`, `health` and `location`: one query, or none.
* Argument parsing, printing, colours and logging; the published schemas and the
  decoding of bodies (a body that cannot be decoded is refused before anything).
* The topics and configuration directories, which follow the data directory, and
  the numbers of a configuration file.
* The SQL engine and its ranking, and the migration runner, a library: a migration
  is one step that succeeds or fails.
* Single-quoted values of old frontmatter, which nothing writes any more.
* Of topics, keys and types that hold a colon or a line break, which the
  frontmatter does not quote.
