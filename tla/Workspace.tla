----------------------------- MODULE Workspace -----------------------------
(***************************************************************************)
(* Which graph a command works on: discovery of the workspace              *)
(* (crates/asobi-core/src/paths.rs), remote configuration                  *)
(* (crates/asobi/src/config.rs) and the selection of the backend           *)
(* (crates/asobi/src/storage.rs, crates/asobi/src/cli/dispatch.rs).        *)
(*                                                                         *)
(* A tree says of each directory of a path, innermost first, whether it    *)
(* holds an asobi.toml and an .asobi directory.  A terminal is where and   *)
(* how a command is started.                                               *)
(***************************************************************************)
EXTENDS Naturals, Sequences

CONSTANTS
    Depth,          \* the number of directories on the path
    DataDirs,       \* values of data_dir in a file, relative to the file, not below .asobi
    Addresses,      \* values of `remote` and ASOBI_REMOTE
    GraphNames,     \* values of `graph` and ASOBI_GRAPH
    DefaultGraph,   \* "asobi"
    Unset,          \* a key or a variable that is not set
    Broken          \* an asobi.toml that cannot be read or parsed

Configs == [remote : Addresses \cup {Unset}, graph : GraphNames \cup {Unset},
            data : DataDirs \cup {Unset}]

ASSUME WorkspaceAssumption ==
    /\ Depth \in Nat \ {0}
    /\ DefaultGraph \in GraphNames
    /\ Unset \notin Addresses \cup GraphNames \cup DataDirs
    /\ Unset # Broken /\ {Unset, Broken} \cap Configs = {}

Trees == [1..Depth -> [toml : Configs \cup {Unset, Broken}, dot : BOOLEAN]]

\* start: the directory.  home, xdg, remote, graph, database: the environment, its
\* paths absolute; xdg says whether there is a user's workspace at all, that is
\* whether HOME or XDG_DATA_HOME is set.  local: --local-graph
Terminals == [start : 1..Depth, home : BOOLEAN, xdg : BOOLEAN, remote : Addresses \cup {Unset},
              graph : GraphNames \cup {Unset}, database : BOOLEAN, local : BOOLEAN]

\* DEFAULT_LOCAL_CONFIG, written by `init --local`
LocalConfig == [remote |-> Unset, graph |-> Unset, data |-> Unset]

\* The nearest directory from start upwards of those that have it, or none
FindUpwards(start, have) ==
    {i \in have : i >= start /\ \A j \in start..(i - 1) : j \notin have}

\* The data directory of a file found at i
DataDir(i, config) == <<i, IF config.data = Unset THEN ".asobi/data" ELSE config.data>>

Paths(data, remote, graph) == [data |-> data, remote |-> remote, graph |-> graph]

\* Mutant: what the file says is relative to where the command starts
ResolveFrom_Start(tree, t) ==
    LET Toml == {i \in 1..Depth : tree[i].toml # Unset}
        Dot  == {i \in 1..Depth : tree[i].dot}
    IN  CASE t.home -> Paths(<<0, "home">>, Unset, Unset)
          [] OTHER ->
               IF \E i \in FindUpwards(t.start, Toml) : tree[i].toml # Broken
               THEN LET config == tree[CHOOSE i \in FindUpwards(t.start, Toml) : TRUE].toml
                    IN  Paths(DataDir(t.start, config), config.remote, config.graph)
               ELSE IF FindUpwards(t.start, Dot) # {}
               THEN Paths(<<CHOOSE i \in FindUpwards(t.start, Dot) : TRUE, ".asobi/data">>, Unset, Unset)
               ELSE Paths(IF t.xdg THEN <<0, "xdg">> ELSE <<t.start, ".asobi/data">>, Unset, Unset)

\* The nearest asobi.toml, if it parses, and the nearest .asobi
ConfigFile(tree, t) ==
    {i \in FindUpwards(t.start, {i \in 1..Depth : tree[i].toml # Unset}) : tree[i].toml # Broken}

LocalRoot(tree, t) == FindUpwards(t.start, {i \in 1..Depth : tree[i].dot})

\* ASOBI_HOME, or the nearest asobi.toml if it parses, or the nearest .asobi, or
\* the user's own workspace; failing all, .asobi in the working directory
ResolveFrom(tree, t) ==
    LET files == ConfigFile(tree, t)
        roots == LocalRoot(tree, t)
    IN  CASE t.home     -> Paths(<<0, "home">>, Unset, Unset)
          [] ~t.home /\ files # {} ->
               LET i == CHOOSE i \in files : TRUE
               IN  Paths(DataDir(i, tree[i].toml), tree[i].toml.remote, tree[i].toml.graph)
          [] ~t.home /\ files = {} /\ roots # {} ->
               Paths(<<CHOOSE i \in roots : TRUE, ".asobi/data">>, Unset, Unset)
          [] ~t.home /\ files = {} /\ roots = {} /\ t.xdg -> Paths(<<0, "xdg">>, Unset, Unset)
          [] OTHER -> Paths(<<t.start, ".asobi/data">>, Unset, Unset)

\* A command for which there is no workspace
Homeless(tree, t) ==
    ~t.home /\ ~t.xdg /\ ConfigFile(tree, t) = {} /\ LocalRoot(tree, t) = {}

\* The first of two settings that is set
Or(first, second) == IF first # Unset THEN first ELSE second

RemoteOf(tree, t) == Or(t.remote, ResolveFrom(tree, t).remote)
GraphOf(tree, t)  == Or(Or(t.graph, ResolveFrom(tree, t).graph), DefaultGraph)
FileOf(tree, t)   == IF t.database THEN <<0, "database">> ELSE ResolveFrom(tree, t).data

\* open_at creates the directory of the file it opens
WithDirectory(tree, file) ==
    IF file \in (1..Depth) \X {".asobi/data"} THEN [tree EXCEPT ![file[1]].dot = TRUE] ELSE tree

\* Storage::open_default and open_local
OpensRemote(tree, t) == ~t.local /\ RemoteOf(tree, t) # Unset

GraphFiles  == ((1..Depth) \X (DataDirs \cup {".asobi/data"})) \cup ({0} \X {"home", "xdg", "database"})
Targets     == ({"remote"} \X GraphNames) \cup ({"local"} \X GraphFiles)

Selection(tree, t) ==
    IF OpensRemote(tree, t) THEN <<"remote", GraphOf(tree, t)>> ELSE <<"local", FileOf(tree, t)>>
=============================================================================
