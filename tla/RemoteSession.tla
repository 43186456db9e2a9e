--------------------------- MODULE RemoteSession ---------------------------
(***************************************************************************)
(* Commands on a local or a remote graph: the selection and negotiation of *)
(* crates/asobi/src/storage.rs, the HTTP client of                         *)
(* crates/asobi/src/storage/remote.rs, the dispatch of                     *)
(* crates/asobi-core/src/protocol and the routes of                        *)
(* crates/asobi-server/src/server.rs, with a network that delays and loses *)
(* and a server that is stopped, upgraded and downgraded.                  *)
(*                                                                         *)
(* A command is a script of calls: it makes one after the other and ends   *)
(* at the first error.  A call is one step on its graph                    *)
(* (StoreRefinement!CallsAtomic), and what it does there is the constant   *)
(* Effect (StoreCalls!RequestOutcome).                                    *)
(***************************************************************************)
EXTENDS Workspace

CONSTANTS
    Clients,        \* processes
    Commands,       \* the commands that may be run: a terminal and a script
    Server,         \* the address the server listens on
    Builds,         \* the builds of the server that may be deployed
    ValidNames,     \* the graph names is_valid_graph_name accepts
    Unopenable,     \* the graphs whose file open_at refuses
    Holdings,      \* what a graph may hold
    Effect(_, _),  \* what a request does to a graph, and the store's answer
    InitialTrees, InitialGraphs,
    MaxCommands,    \* bound: commands started in a behaviour
    MaxRestarts     \* bound: stops and starts of the server

ApiVersion == 3

\* asobi: whether an Asobi server answers.  meta: whether it serves /meta
BuildType == [asobi : BOOLEAN, meta : BOOLEAN, versions : SUBSET Nat]

Requests == UNION {{k.script[i] : i \in DOMAIN k.script} : k \in Commands}

ASSUME RemoteAssumption ==
    /\ Server \in Addresses
    /\ Builds \subseteq BuildType
    /\ ValidNames \subseteq GraphNames
    /\ \A k \in Commands : k.terminal \in Terminals /\ k.script \in Seq(Requests) \ {<<>>}
    /\ Unopenable \subseteq Targets
    /\ InitialTrees \subseteq Trees
    /\ {MaxCommands, MaxRestarts} \subseteq Nat

\* What the store does for a request: an error leaves the graph as it was
ASSUME EffectAssumption ==
    /\ InitialGraphs \subseteq Holdings
    /\ \A d \in Holdings, r \in Requests :
         LET o == Effect(d, r)
         IN  /\ o.graph \in Holdings
             /\ o.answer \in {"ok", "not_found", "invalid", "backend"}
             /\ o.answer # "ok" => o.graph = d

VARIABLES
    tree,       \* the directories
    server,     \* the server: whether it runs, and which build it is
    graphs,     \* the graphs
    phase,      \* where each process is
    terminal,   \* where and how it was started
    wanted,     \* history: whether a remote was configured for it
    script,     \* the requests it has still to make
    backend,    \* the Backend of its Storage
    requests,   \* the calls on their way to the server
    reply,      \* the response on its way to each process
    calls,      \* history: all calls made
    commands,   \* commands started so far
    restarts    \* stops and starts of the server so far

net  == <<requests, reply>>
mine == <<phase, terminal, wanted, script, backend>>
vars == <<tree, server, graphs, mine, net, calls, commands, restarts>>

NoBackend == [kind |-> "none", address |-> Unset, target |-> Unset]
NoReply   == [status |-> 0, kind |-> "none"]

Promise == INSTANCE AtMostOnce WITH Graphs <- Targets

Phases == {"off", "init", "ready", "calling", "negotiating", "waiting"}

TypeOK ==
    /\ tree \in Trees
    /\ server \in [up : BOOLEAN, build : Builds]
    /\ graphs \in [Targets -> Holdings]
    /\ phase \in [Clients -> Phases]
    /\ \A c \in Clients :
         /\ backend[c].kind \in {"none", "local", "pending", "remote"}
         /\ backend[c].kind = "none" <=> phase[c] \in {"off", "init"}
         /\ backend[c].kind \in {"local", "pending", "remote"} =>
              backend[c].target \in Targets /\ terminal[c] \in Terminals
         /\ phase[c] = "calling" => backend[c].kind = "local"
         /\ phase[c] = "negotiating" => backend[c].kind = "pending"
         /\ phase[c] = "waiting" => backend[c].kind = "remote"
         /\ reply[c] # NoReply => phase[c] = "waiting"
    /\ requests \subseteq DOMAIN calls
    /\ {commands, restarts} \subseteq Nat

Init ==
    /\ tree \in InitialTrees
    /\ server \in [up : {TRUE}, build : Builds]
    /\ graphs \in [Targets -> InitialGraphs]
    /\ phase = [c \in Clients |-> "off"]
    /\ terminal = [c \in Clients |-> Unset]
    /\ wanted = [c \in Clients |-> FALSE]
    /\ script = [c \in Clients |-> <<>>]
    /\ backend = [c \in Clients |-> NoBackend]
    /\ requests = {}
    /\ reply = [c \in Clients |-> NoReply]
    /\ calls = <<>>
    /\ commands = 0
    /\ restarts = 0

----------------------------------------------------------------------------
(* A process. *)

Exit(c) ==
    /\ phase'   = [phase EXCEPT ![c] = "off"]
    /\ script'  = [script EXCEPT ![c] = <<>>]
    /\ backend' = [backend EXCEPT ![c] = NoBackend]
    /\ reply'   = [reply EXCEPT ![c] = NoReply]
    /\ terminal' = [terminal EXCEPT ![c] = Unset]
    /\ wanted'  = [wanted EXCEPT ![c] = FALSE]

\* A remote is configured: in the environment, or in the asobi.toml the command
\* sees first
RemoteConfigured(t) ==
    /\ ~t.local
    /\ \/ t.remote # Unset
       \/ /\ ~t.home
          /\ \E i \in t.start..Depth :
               /\ tree[i].toml \in Configs /\ tree[i].toml.remote # Unset
               /\ \A j \in t.start..(i - 1) : tree[j].toml = Unset

\* Storage::open_default or open_local; a file that is refused ends the command
Open(c, t, s) ==
    LET target == Selection(tree, t)
        kind   == IF OpensRemote(tree, t) THEN "pending" ELSE "local"
    IN  /\ phase[c] = "off" /\ commands < MaxCommands
        /\ commands' = commands + 1
        /\ IF kind = "local" /\ target \in Unopenable THEN UNCHANGED mine
           ELSE /\ phase'    = [phase EXCEPT ![c] = "ready"]
                /\ terminal' = [terminal EXCEPT ![c] = t]
                /\ wanted'   = [wanted EXCEPT ![c] = RemoteConfigured(t)]
                /\ script'   = [script EXCEPT ![c] = s]
                /\ backend'  = [backend EXCEPT ![c] =
                     [kind |-> kind, address |-> RemoteOf(tree, t), target |-> target]]
        /\ tree' = IF kind = "local" THEN WithDirectory(tree, target[2]) ELSE tree
        /\ UNCHANGED <<server, graphs, net, calls, restarts>>

\* The next call, or the end of the command
Advance(c) ==
    IF Len(script[c]) = 1 THEN Exit(c)
    ELSE /\ script' = [script EXCEPT ![c] = Tail(@)]
         /\ phase'  = [phase EXCEPT ![c] = "ready"]
         /\ reply'  = [reply EXCEPT ![c] = NoReply]
         /\ UNCHANGED <<terminal, wanted, backend>>

\* What the store may say of a call that took effect: purge and reset may fail
\* in their vacuum, after the deletion
VerdictsOf(request, result) ==
    {result} \cup (IF request.op \in {"purge", "reset"} THEN {"backend"} ELSE {})

\* A call is made
Make(c) ==
    calls' = Append(calls, Promise!NewCall(c, backend[c].target, Head(script[c])))

\* The call a process has made: its last one
Current(c) == CHOOSE i \in DOMAIN calls :
    calls[i].client = c /\ \A j \in DOMAIN calls : calls[j].client = c => j <= i

CallLocal(c) ==
    /\ phase[c] = "ready" /\ backend[c].kind = "local"
    /\ phase' = [phase EXCEPT ![c] = "calling"]
    /\ Make(c)
    /\ UNCHANGED <<tree, server, graphs, terminal, wanted, script, backend, net, commands, restarts>>

\* The local store carries it out, or fails; the process may die before it is told
LocalReturns(c) ==
    LET i == Current(c)
        done == Promise!CallsAfter(i)
    IN  /\ phase[c] = "calling"
        /\ \/ \E a \in VerdictsOf(calls[i].request, done[i].result) :
                /\ graphs' = Promise!GraphsAfter(i)
                /\ calls' = [done EXCEPT ![i].answer = a]
                /\ IF a = "ok" THEN Advance(c) ELSE Exit(c)
           \/ graphs' = Promise!GraphsAfter(i) /\ calls' = done /\ Exit(c)
           \/ calls' = [calls EXCEPT ![i].answer = "backend"] /\ Exit(c) /\ UNCHANGED graphs
        /\ UNCHANGED <<tree, server, requests, commands, restarts>>

\* route: the first call on a pending backend asks for /meta
Negotiate(c) ==
    /\ phase[c] = "ready" /\ backend[c].kind = "pending"
    /\ phase' = [phase EXCEPT ![c] = "negotiating"]
    /\ UNCHANGED <<tree, server, graphs, terminal, wanted, script, backend, net, calls, commands, restarts>>

\* Mutant: a version the server offers is enough
Compatible_Any(build) == build.asobi /\ build.meta /\ build.versions # {}

Compatible(build) == build.asobi /\ build.meta /\ ApiVersion \in build.versions

\* The server answers in time and speaks the version
Negotiated(c) ==
    /\ phase[c] = "negotiating" /\ backend[c].address = Server
    /\ server.up /\ Compatible(server.build)
    /\ phase'   = [phase EXCEPT ![c] = "ready"]
    /\ backend' = [backend EXCEPT ![c].kind = "remote"]
    /\ UNCHANGED <<tree, server, graphs, terminal, wanted, script, net, calls, commands, restarts>>

\* Mutant: the negotiation has no timeout
NegotiationFails_NoTimeout(c) ==
    /\ phase[c] = "negotiating" /\ server.up /\ backend[c].address = Server
    /\ Exit(c)
    /\ UNCHANGED <<tree, server, graphs, requests, calls, commands, restarts>>

\* Mutant: an unreachable server is an occasion to work offline
NegotiationFails_Local(c) ==
    /\ phase[c] = "negotiating"
    /\ phase'   = [phase EXCEPT ![c] = "ready"]
    /\ backend' = [backend EXCEPT ![c] = [kind |-> "local", address |-> Unset,
                                          target |-> <<"local", FileOf(tree, terminal[c])>>]]
    /\ UNCHANGED <<tree, server, graphs, terminal, wanted, script, net, calls, commands, restarts>>

\* No answer within two seconds, a gateway's, one without metadata or without
\* the version: the command fails
NegotiationFails(c) ==
    /\ phase[c] = "negotiating"
    /\ Exit(c)
    /\ UNCHANGED <<tree, server, graphs, requests, calls, commands, restarts>>

\* RemoteStore::call
Send(c) ==
    /\ phase[c] = "ready" /\ backend[c].kind = "remote"
    /\ phase' = [phase EXCEPT ![c] = "waiting"]
    /\ Make(c)
    /\ requests' = requests \cup {Len(calls) + 1}
    /\ UNCHANGED <<tree, server, graphs, terminal, wanted, script, backend, reply, commands, restarts>>

\* The ApiError a response is turned into
AnswerOf(response) ==
    CASE response.status \in 502..504 -> "unavailable"
      [] response.status = 200 /\ response.kind = "none" -> "ok"
      [] response.kind \in {"notFound", "unknownOperation"} -> "not_found"
      [] response.kind = "conflict"                  -> "conflict"
      [] response.kind \in {"invalid", "badRequest"} -> "invalid"
      [] response.kind = "unsupported"               -> "unsupported"
      [] OTHER                                       -> "backend"

\* The process is told; an error ends the command
Answered(c, answer) ==
    /\ calls' = [calls EXCEPT ![Current(c)].answer = answer]
    /\ IF answer = "ok" THEN Advance(c) ELSE Exit(c)

Receive(c) ==
    /\ phase[c] = "waiting" /\ reply[c] # NoReply
    /\ Answered(c, AnswerOf(reply[c]))
    /\ UNCHANGED <<tree, server, graphs, requests, commands, restarts>>

\* Mutant: a call that was not answered is made again
ConnectionBreaks_Retry(c) ==
    /\ phase[c] = "waiting"
    /\ requests' = requests \cup {Current(c)}
    /\ reply' = [reply EXCEPT ![c] = NoReply]
    /\ UNCHANGED <<tree, server, graphs, mine, calls, commands, restarts>>

\* Mutant: a gateway's answer without an error body counts as "no such thing"
ConnectionBreaks_NotFound(c) ==
    /\ phase[c] = "waiting"
    /\ Answered(c, "not_found")
    /\ UNCHANGED <<tree, server, graphs, requests, commands, restarts>>

\* The connection breaks, or a gateway answers in the server's place; the
\* request may have arrived, or arrive yet
ConnectionBreaks(c) ==
    /\ phase[c] = "waiting"
    /\ Answered(c, "unavailable")
    /\ UNCHANGED <<tree, server, graphs, requests, commands, restarts>>

Kill(c) ==
    /\ phase[c] # "off"
    /\ Exit(c)
    /\ UNCHANGED <<tree, server, graphs, requests, calls, commands, restarts>>

\* `asobi init --local`: the directories, then the file
InitDirectories(c, i) ==
    /\ phase[c] = "off" /\ commands < MaxCommands
    /\ commands' = commands + 1
    /\ tree'  = [tree EXCEPT ![i].dot = TRUE]
    /\ phase' = [phase EXCEPT ![c] = "init"]
    /\ terminal' = [terminal EXCEPT ![c] = i]
    /\ UNCHANGED <<server, graphs, wanted, script, backend, net, calls, restarts>>

InitConfig(c) ==
    /\ phase[c] = "init"
    /\ tree' = [tree EXCEPT ![terminal[c]].toml = IF @ = Unset THEN LocalConfig ELSE @]
    /\ Exit(c)
    /\ UNCHANGED <<server, graphs, requests, calls, commands, restarts>>

----------------------------------------------------------------------------
(* The server. *)

Response(status, kind) == [status |-> status, kind |-> kind]

\* rpc_shape
ShapeOf(result) ==
    CASE result = "not_found" -> Response(404, "notFound")
      [] result = "invalid"   -> Response(422, "invalid")
      [] result = "backend"   -> Response(500, "backend")
      [] OTHER                -> Response(200, "none")

\* What is answered before the store is asked, if anything: another server, no
\* such path, an invalid graph name, a file that cannot be opened, a reset
Refusal(call) ==
    CASE ~server.build.asobi -> {Response(404, "html")}
      [] server.build.asobi /\ ApiVersion \notin server.build.versions -> {Response(404, "notFound")}
      [] OTHER ->
           IF call.target[2] \notin ValidNames THEN {Response(422, "invalid")}
           ELSE IF call.target \in Unopenable THEN {Response(503, "unavailable")}
           ELSE IF call.request.op = "reset" THEN {Response(501, "unsupported")}
           ELSE {}

\* Mutant: whatever the process does by now
Respond_Anyway(i, response) == reply' = [reply EXCEPT ![calls[i].client] = response]

\* The response goes to the process if it still waits for it
Respond(i, response) ==
    LET c == calls[i].client
    IN  reply' = IF phase[c] = "waiting" /\ Current(c) = i
                 THEN [reply EXCEPT ![c] = response] ELSE reply

\* A request arrives
Serve(i) ==
    /\ i \in requests /\ server.up
    /\ requests' = requests \ {i}
    /\ \/ /\ Refusal(calls[i]) # {}
          /\ \E response \in Refusal(calls[i]) : Respond(i, response)
          /\ UNCHANGED <<graphs, calls>>
       \/ /\ Refusal(calls[i]) = {}
          /\ graphs' = Promise!GraphsAfter(i)
          /\ calls' = Promise!CallsAfter(i)
          /\ \/ Respond(i, ShapeOf(calls'[i].result))
             \/ "backend" \in VerdictsOf(calls[i].request, calls'[i].result)
                  /\ Respond(i, Response(500, "backend"))
       \/ /\ Refusal(calls[i]) = {}
          /\ Respond(i, Response(500, "backend"))     \* the store fails: busy, disk full
          /\ UNCHANGED <<graphs, calls>>
    /\ UNCHANGED <<tree, server, mine, commands, restarts>>

\* What has not arrived, or has not left, is lost with its connection
Stop ==
    /\ server.up /\ restarts < MaxRestarts
    /\ server' = [server EXCEPT !.up = FALSE]
    /\ restarts' = restarts + 1
    /\ requests' = {}
    /\ reply' = [c \in Clients |-> NoReply]
    /\ UNCHANGED <<tree, graphs, mine, calls, commands>>

StartServer ==
    /\ ~server.up
    /\ \E b \in Builds : server' = [up |-> TRUE, build |-> b]
    /\ UNCHANGED <<tree, graphs, mine, net, calls, commands, restarts>>

----------------------------------------------------------------------------

ClientStep(c) ==
    \/ CallLocal(c) \/ LocalReturns(c) \/ Negotiate(c) \/ Negotiated(c) \/ NegotiationFails(c)
    \/ Send(c) \/ Receive(c) \/ InitConfig(c)

Next ==
    \/ \E c \in Clients :
         \/ \E k \in Commands : Open(c, k.terminal, k.script)
         \/ \E i \in 1..Depth : InitDirectories(c, i)
         \/ ClientStep(c)
         \/ ConnectionBreaks(c)
         \/ Kill(c)
    \/ \E i \in requests : Serve(i)
    \/ Stop
    \/ StartServer

Spec == Init /\ [][Next]_vars

\* Processes run.  Nothing is promised of the server and the network: a call
\* after the negotiation has no timeout, so nobody notices a server that is
\* silent
FairSpec == Spec /\ \A c \in Clients : WF_vars(ClientStep(c))

----------------------------------------------------------------------------
(* Properties. *)

\* A configured remote fails closed: a command for which one is configured makes
\* no call on a local graph, whatever becomes of the server.
FailsClosed ==
    [][\A i \in DOMAIN calls' \ DOMAIN calls :
         wanted[calls'[i].client] => calls'[i].target[1] = "remote"]_vars

\* Answers are true: a command that was told ok has had its call take effect, and
\* one that was told that there is no such thing, or that it asked for something
\* impossible, has had nothing changed, then or later; whichever of response,
\* gateway and restart came first.
AnswersTrue ==
    \A i \in DOMAIN calls :
      /\ calls[i].answer = "ok" => calls[i].ran /\ calls[i].result = "ok"
      /\ calls[i].answer \in Promise!Definite => ~calls[i].changed

\* Both backends keep the promise of AtMostOnce: in particular no call is made
\* twice because its response was lost, and none takes effect after its process
\* was told that it failed for good.
AtMostOnceKept == Promise!Spec

\* A server that does not offer the version is asked for /meta and nothing else,
\* even if it has the routes.
OldServersUncalled ==
    (restarts = 0 /\ ~(server.build.asobi /\ server.build.meta /\ ApiVersion \in server.build.versions))
    => \A i \in DOMAIN calls : calls[i].target[1] = "local"

\* A workspace is one: commands started in a directory and in directories below
\* it that hold nothing of Asobi's work on the same graph, in every tree that
\* `init --local`, finished or not, and the opening of graph files leave; unless
\* the command is one of those without any workspace, which work on a graph of
\* the directory they are started in.
OneWorkspace ==
    \A t \in {k.terminal : k \in Commands} : \A i \in t.start..Depth :
      (~Homeless(tree, t) /\ \A j \in t.start..(i - 1) : tree[j].toml = Unset /\ ~tree[j].dot)
      => Selection(tree, t) = Selection(tree, [t EXCEPT !.start = i])

\* Every command ends, or waits for ever for the answer to a call after the
\* negotiation: a server that is down, is no Asobi, is too old or says nothing
\* when it is first asked keeps no command, nor does a local graph, and an
\* answer that has come is taken, whatever server and network do.
CommandsEnd ==
    \A c \in Clients : []<>(phase[c] = "off") \/ <>[](phase[c] = "waiting" /\ reply[c] = NoReply)
=============================================================================
