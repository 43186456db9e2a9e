--------------------------- MODULE GraphRegistry ---------------------------
(***************************************************************************)
(* Opening graph files: SqliteStore::open_at                               *)
(* (crates/asobi-storage/src/storage/sqlite.rs), the server's registry of  *)
(* open stores (crates/asobi-server/src/registry.rs) and its sweep of all  *)
(* graphs, with the server killed, requests abandoned by their clients,    *)
(* and other processes that open the same files.                           *)
(*                                                                         *)
(* An opener is a request, the sweep or a local process.  The steps of     *)
(* open_at are separate: every one of them is an await.                    *)
(***************************************************************************)
EXTENDS Naturals

CONSTANTS
    Graphs,         \* the names asked for
    ValidGraphs,    \* those is_valid_graph_name accepts
    Requests,       \* requests being served at once
    Sweeper,        \* the server's background task
    Locals,         \* processes that open files themselves
    SharedGraphs,   \* the graphs they open
    Absent,         \* no file
    Nobody,         \* no opener
    InitialFiles

Served  == Requests \cup {Sweeper}
Openers == Served \cup Locals

\* header: the file has one, else it has no bytes.  version: its user_version;
\* 0 is this build's.  vacuum: auto_vacuum is INCREMENTAL.  wal: its journal mode.
\* schema: the baseline is applied.
Files == [header : BOOLEAN, version : Nat, vacuum : BOOLEAN, wal : BOOLEAN, schema : BOOLEAN]

ASSUME RegistryAssumption ==
    /\ SharedGraphs \subseteq ValidGraphs /\ ValidGraphs \subseteq Graphs
    /\ Sweeper \notin Requests /\ Locals \cap Served = {}
    /\ Absent \notin Files \cup Graphs /\ Nobody \notin Openers
    /\ InitialFiles \subseteq [Graphs -> Files \cup {Absent}]
    /\ \A f \in InitialFiles : \A g \in Graphs :
         f[g] # Absent => g \in ValidGraphs /\ f[g].header /\ (f[g].version = 0 => f[g].schema)

VARIABLES
    file,       \* the graph files
    stores,     \* stores opened for each graph; the registry has the last, if any
    holder,     \* who holds the registry's lock
    pc,         \* where each opener is
    graph,      \* the graph it is opening
    fresh,      \* whether it asks for auto_vacuum
    todo,       \* the graphs the sweep has still to visit
    owed,       \* history: the graphs this sweep has to try yet
    created     \* history: whether it has created the file

sweepVars == <<todo, owed>>
registry  == <<stores, holder>>
openVars  == <<pc, graph, fresh, created>>
vars      == <<file, registry, openVars, sweepVars>>

Steps == {"idle", "lock", "probe", "version", "check", "connect", "header", "migrate",
          "list", "directory", "next", "sweep"}

\* In open_at
Opening == {"probe", "version", "check", "connect", "header", "migrate"}

TypeOK ==
    /\ file \in [Graphs -> Files \cup {Absent}]
    /\ stores \in [Graphs -> Nat]
    /\ holder \in Served \cup {Nobody}
    /\ pc \in [Openers -> Steps]
    /\ graph \in [Openers -> Graphs \cup {Absent}]
    /\ \A p \in Openers : pc[p] \notin {"idle", "list", "directory", "next"} => graph[p] \in ValidGraphs
    /\ \A p \in Served : pc[p] \in Opening <=> holder = p
    /\ {fresh, created} \subseteq [Openers -> BOOLEAN]
    /\ todo \cup owed \subseteq ValidGraphs

Init ==
    /\ file \in InitialFiles
    /\ stores = [g \in Graphs |-> 0]
    /\ holder = Nobody
    /\ pc = [p \in Openers |-> "idle"]
    /\ graph = [p \in Openers |-> Absent]
    /\ fresh = [p \in Openers |-> FALSE]
    /\ todo = {} /\ owed = {}
    /\ created = [p \in Openers |-> FALSE]

----------------------------------------------------------------------------
(* open_at. *)

Goto(p, step) == pc' = [pc EXCEPT ![p] = step]

\* Mutant: a waiting request that goes away unlocks as well
Leave_Unlocks(p) == holder' = Nobody

\* The guard of the lock, if p has it, is dropped
Leave(p) == holder' = IF holder = p THEN Nobody ELSE holder

\* The opener has its store, or an error; the sweep skips a graph it cannot open
Finish(p, ok) ==
    /\ Leave(p)
    /\ Goto(p, CASE p # Sweeper         -> "idle"
                 [] p = Sweeper /\ ok   -> "sweep"
                 [] OTHER               -> "next")
    /\ owed' = IF p = Sweeper /\ ~ok THEN owed \ {graph[p]} ELSE owed
    /\ graph' = IF p = Sweeper THEN graph ELSE [graph EXCEPT ![p] = Absent]
    /\ fresh' = [fresh EXCEPT ![p] = FALSE]
    /\ created' = [created EXCEPT ![p] = FALSE]

Refuse(p) == Finish(p, FALSE)

\* tokio::fs::try_exists
Probe(p) ==
    /\ pc[p] = "probe"
    /\ Goto(p, IF file[graph[p]] = Absent THEN "check" ELSE "version")
    /\ UNCHANGED <<file, registry, graph, fresh, created, sweepVars>>

\* Mutant: an older file is taken for one of ours
Readable_Older(f) == f.version <= 9

\* The versions open_at goes on with
Readable(f) == f.version = 0

\* read_user_version; the file may have been moved aside since
ReadVersion(p) ==
    LET f == file[graph[p]]
    IN  /\ pc[p] = "version"
        /\ \/ /\ f # Absent /\ Readable(f)
              /\ Goto(p, "connect")              \* path.exists: nobody moves such a file
              /\ UNCHANGED <<registry, graph, fresh, created, owed>>
           \/ (f # Absent => ~Readable(f)) /\ Refuse(p) /\ UNCHANGED stores
        /\ UNCHANGED <<file, todo>>

\* Mutant: the file is looked for when the connection has made it
Check_AfterConnect(p) ==
    /\ pc[p] = "check"
    /\ Goto(p, "connect")
    /\ UNCHANGED <<file, registry, graph, fresh, created, sweepVars>>

\* path.exists: only a new file asks for auto_vacuum
Check(p) ==
    /\ pc[p] = "check"
    /\ fresh' = [fresh EXCEPT ![p] = file[graph[p]] = Absent]
    /\ Goto(p, "connect")
    /\ UNCHANGED <<file, registry, graph, created, sweepVars>>

NoBytes == [header |-> FALSE, version |-> 0, vacuum |-> FALSE, wal |-> FALSE, schema |-> FALSE]

\* sqlite3_open: a missing file is created, without a byte in it
Connect(p) ==
    LET g == graph[p]
    IN  /\ pc[p] = "connect"
        /\ file' = [file EXCEPT ![g] = IF @ = Absent THEN NoBytes ELSE @]
        /\ created' = [created EXCEPT ![p] = file[g] = Absent]
        /\ Goto(p, "header")
        /\ UNCHANGED <<registry, graph, fresh, sweepVars>>

\* The pragmas of the connection: auto_vacuum, which only a file without a header
\* obeys, and the journal mode, which writes the header
WriteHeader(p) ==
    LET g == graph[p]
    IN  /\ pc[p] = "header"
        /\ file' = [file EXCEPT ![g].header = TRUE, ![g].wal = TRUE,
                                ![g].vacuum = @ \/ (~file[g].header /\ fresh[p])]
        /\ Goto(p, "migrate")
        /\ UNCHANGED <<registry, graph, fresh, created, sweepVars>>

\* Mutant: only a new file needs its tables
Migrate_NewOnly(p) ==
    /\ pc[p] = "migrate"
    /\ file' = [file EXCEPT ![graph[p]].schema = @ \/ created[p]]
    /\ stores' = IF p \in Served THEN [stores EXCEPT ![graph[p]] = @ + 1] ELSE stores
    /\ Finish(p, TRUE)
    /\ UNCHANGED todo

\* The migration; the store is there
Migrate(p) ==
    /\ pc[p] = "migrate"
    /\ file' = [file EXCEPT ![graph[p]].schema = TRUE]
    /\ stores' = IF p \in Served THEN [stores EXCEPT ![graph[p]] = @ + 1] ELSE stores
    /\ Finish(p, TRUE)
    /\ UNCHANGED todo

\* The file is busy, the disk is full, or another process has just recorded the
\* migration this one was applying
Fail(p) ==
    /\ pc[p] \in {"version", "connect", "header", "migrate"}
    /\ Refuse(p)
    /\ UNCHANGED <<file, stores, todo>>

OpenStep(p) ==
    \/ Probe(p) \/ ReadVersion(p) \/ Check(p) \/ Connect(p) \/ WriteHeader(p)
    \/ Migrate(p) \/ Fail(p)

----------------------------------------------------------------------------
(* The registry. *)

\* get_or_open waits for the lock
Wait(p, g) ==
    /\ graph' = [graph EXCEPT ![p] = g]
    /\ Goto(p, "lock")

\* Server::call; an invalid name is answered at once
Ask(r, g) ==
    /\ pc[r] = "idle"
    /\ IF g \in ValidGraphs THEN Wait(r, g) ELSE UNCHANGED <<graph, pc>>
    /\ UNCHANGED <<file, registry, fresh, created, sweepVars>>

\* Mutant: the lock is not held while a store is opened
Lock_Released(p) ==
    /\ pc[p] = "lock" /\ holder = Nobody
    /\ \/ stores[graph[p]] # 0 /\ Finish(p, TRUE)
       \/ /\ stores[graph[p]] = 0
          /\ Goto(p, "probe")
          /\ UNCHANGED <<holder, graph, fresh, created, owed>>
    /\ UNCHANGED <<file, stores, todo>>

\* The lock is taken: the store is there, or it is opened under the lock
Lock(p) ==
    /\ pc[p] = "lock" /\ holder = Nobody
    /\ \/ stores[graph[p]] # 0 /\ Finish(p, TRUE)
       \/ /\ stores[graph[p]] = 0
          /\ holder' = p
          /\ Goto(p, "probe")
          /\ UNCHANGED <<graph, fresh, created, owed>>
    /\ UNCHANGED <<file, stores, todo>>

\* The client goes away, and its request is dropped wherever it is
Abandon(r) ==
    /\ pc[r] # "idle"
    /\ Goto(r, "idle") /\ Leave(r)
    /\ graph' = [graph EXCEPT ![r] = Absent]
    /\ fresh' = [fresh EXCEPT ![r] = FALSE]
    /\ created' = [created EXCEPT ![r] = FALSE]
    /\ UNCHANGED <<file, stores, sweepVars>>

\* The files of a directory that are graphs
OnDisk == {g \in ValidGraphs : file[g] # Absent}
Keys   == {g \in ValidGraphs : stores[g] # 0}

\* A tick: sweep_all waits for the lock
BeginSweep ==
    /\ pc[Sweeper] = "idle"
    /\ Goto(Sweeper, "list")
    /\ owed' = OnDisk
    /\ UNCHANGED <<file, registry, graph, fresh, created, todo>>

\* Mutant: the lock is kept for the whole sweep
ListStores_KeepsLock ==
    /\ pc[Sweeper] = "list" /\ holder = Nobody
    /\ holder' = Sweeper
    /\ todo' = Keys
    /\ Goto(Sweeper, "directory")
    /\ UNCHANGED <<file, stores, graph, fresh, created, owed>>

\* The lock is taken for the names of the open stores
ListStores ==
    /\ pc[Sweeper] = "list" /\ holder = Nobody
    /\ todo' = Keys
    /\ Goto(Sweeper, "directory")
    /\ UNCHANGED <<file, registry, graph, fresh, created, owed>>

\* Then the directory, in any order: an error passes over what has not been read,
\* and be it all of it, and says nothing
ListDirectory ==
    /\ pc[Sweeper] = "directory"
    /\ \E read \in SUBSET OnDisk :
         /\ todo' = todo \cup read
         /\ owed' = owed \ (OnDisk \ (todo \cup read))
    /\ Goto(Sweeper, "next")
    /\ UNCHANGED <<file, registry, graph, fresh, created>>

Visit ==
    /\ pc[Sweeper] = "next"
    /\ \E g \in todo :
         /\ todo' = todo \ {g}
         /\ Wait(Sweeper, g)
    /\ UNCHANGED <<file, registry, fresh, created, owed>>

\* Mutant: the first failure ends the sweep
EndSweep_AtFailure ==
    /\ pc[Sweeper] = "next" /\ (todo # {} => graph[Sweeper] \in ValidGraphs /\ stores[graph[Sweeper]] = 0)
    /\ Goto(Sweeper, "idle") /\ todo' = {}
    /\ graph' = [graph EXCEPT ![Sweeper] = Absent]
    /\ owed' = {}
    /\ UNCHANGED <<file, registry, fresh, created>>

EndSweep ==
    /\ pc[Sweeper] = "next" /\ todo = {}
    /\ Goto(Sweeper, "idle")
    /\ graph' = [graph EXCEPT ![Sweeper] = Absent]
    /\ owed' = {}
    /\ UNCHANGED <<file, registry, fresh, created, todo>>

\* store.sweep, which may fail; the sweep goes on
SweepStore ==
    LET g == graph[Sweeper]
    IN  /\ pc[Sweeper] = "sweep"
        /\ owed' = owed \ {g}
        /\ Goto(Sweeper, "next")
        /\ UNCHANGED <<file, registry, graph, fresh, created, todo>>

SweepStep == ListStores \/ ListDirectory \/ Visit \/ EndSweep \/ SweepStore

----------------------------------------------------------------------------
(* What goes on around the server. *)

\* A command on the file itself: open_at without a registry
OpenLocally(p, g) ==
    /\ pc[p] = "idle"
    /\ graph' = [graph EXCEPT ![p] = g]
    /\ Goto(p, "probe")
    /\ UNCHANGED <<file, registry, fresh, created, sweepVars>>

KillLocal(p) ==
    /\ pc[p] # "idle"
    /\ Goto(p, "idle")
    /\ graph' = [graph EXCEPT ![p] = Absent]
    /\ fresh' = [fresh EXCEPT ![p] = FALSE]
    /\ created' = [created EXCEPT ![p] = FALSE]
    /\ UNCHANGED <<file, registry, sweepVars>>

\* The advice of the refusal: the file is moved aside
MoveAside(g) ==
    /\ file[g] # Absent /\ file[g].version # 0
    /\ file' = [file EXCEPT ![g] = Absent]
    /\ owed' = owed \ {g}
    /\ UNCHANGED <<registry, openVars, todo>>

\* The server is killed and started again
KillServer ==
    /\ stores' = [g \in Graphs |-> 0]
    /\ holder' = Nobody
    /\ pc' = [p \in Openers |-> IF p \in Served THEN "idle" ELSE pc[p]]
    /\ graph' = [p \in Openers |-> IF p \in Served THEN Absent ELSE graph[p]]
    /\ fresh' = [p \in Openers |-> p \notin Served /\ fresh[p]]
    /\ created' = [p \in Openers |-> p \notin Served /\ created[p]]
    /\ todo' = {} /\ owed' = {}
    /\ UNCHANGED file

----------------------------------------------------------------------------

Next ==
    \/ \E p \in Openers : OpenStep(p)
    \/ \E p \in Served : Lock(p)
    \/ \E r \in Requests : (\E g \in Graphs : Ask(r, g)) \/ Abandon(r)
    \/ BeginSweep \/ SweepStep
    \/ \E p \in Locals : (\E g \in SharedGraphs : OpenLocally(p, g)) \/ KillLocal(p)
    \/ \E g \in Graphs : MoveAside(g)
    \/ KillServer

Spec == Init /\ [][Next]_vars

\* The runtime runs the tasks that can run; its Mutex is first come, first served,
\* so who waits for the lock gets it
FairSpec ==
    /\ Spec
    /\ \A p \in Openers : WF_vars(OpenStep(p))
    /\ \A r \in Requests : SF_vars(Lock(r))
    /\ SF_vars(Lock(Sweeper) \/ SweepStep)

----------------------------------------------------------------------------
(* Properties. *)

\* One store per graph: whatever the order of requests, sweeps and failures, a
\* server opens one store for each graph as long as it lives, so a graph has one
\* pool and the sweep before its first write is run once.
OneStore == \A g \in Graphs : stores[g] <= 1

\* A store that is given out works on a complete graph of this build, also when
\* an earlier opener died or failed half way, or another process opens it too.
StoresComplete ==
    \A g \in Graphs : stores[g] # 0 =>
      file[g] # Absent /\ file[g].header /\ file[g].schema /\ file[g].version = 0

\* A file of another version is never touched, by whichever opener and in
\* whichever step; it only goes when it is moved aside.
OthersUntouched ==
    [][\A g \in Graphs : file[g] # Absent /\ file[g].version # 0 => file'[g] \in {file[g], Absent}]_vars

\* Who creates a file and writes its header as well makes it one that can shrink.
NewFilesShrink ==
    [][\A p \in Openers : LET g == graph[p] IN
         (pc[p] = "header" /\ pc'[p] = "migrate" /\ ~file[g].header /\ created[p]) => file'[g].vacuum]_vars

\* A sweep ends having tried every graph there was when it began, whichever of
\* them could not be opened or swept, and whatever requests and other processes
\* did meanwhile; but those that were moved aside and those it did not find,
\* because their store was not open and the directory could not be read as far
\* as their file.
SweepReaches ==
    [][EndSweep => owed = {}]_vars

\* Every request is answered and every sweep ends, although both take one lock,
\* a sweep many times, and the lock is held while files are opened.
AllAnswered == \A p \in Openers : []<>(pc[p] = "idle")
=============================================================================
