------------------------ MODULE RemoteSessionProofs ------------------------
(***************************************************************************)
(* Commands with a configured remote fail closed, answers are true, calls  *)
(* keep the promise of AtMostOnce, servers of another version are asked    *)
(* for nothing and a workspace has one graph: for any processes,           *)
(* directories, commands, builds of the server, and whatever the store     *)
(* does for a request.                                                     *)
(***************************************************************************)
EXTENDS RemoteSession, SequenceTheorems, TLAPS

Answers == {"ok", "not_found", "invalid", "backend"}

CallType == [client : Clients, target : Targets, request : Requests, ran : BOOLEAN,
             result : Answers \cup {"none"}, changed : BOOLEAN,
             answer : Promise!Verdicts \cup {"none"}]

ResponseType ==
    [status : Nat, kind : {"none", "html", "notFound", "invalid", "backend", "unavailable", "unsupported"}]

ProcessTypes ==
    /\ phase \in [Clients -> Phases]
    /\ wanted \in [Clients -> BOOLEAN]
    /\ script \in [Clients -> Seq(Requests)]
    /\ backend \in [Clients -> [kind : {"none", "local", "pending", "remote"},
                                address : Addresses \cup {Unset}, target : Targets \cup {Unset}]]
    /\ \A c \in Clients : phase[c] \notin {"off", "init"} =>
         backend[c].target \in Targets /\ script[c] # <<>>

Types ==
    /\ tree \in Trees
    /\ graphs \in [Targets -> Holdings]
    /\ calls \in Seq(CallType)
    /\ requests \subseteq DOMAIN calls
    /\ reply \in [Clients -> ResponseType]
    /\ ProcessTypes

\* A process for which a remote was configured has no other target.
RemoteKept == \A c \in Clients : wanted[c] => backend[c].target[1] = "remote"

Latest(c, i) ==
    /\ i \in DOMAIN calls /\ calls[i].client = c
    /\ \A j \in DOMAIN calls : calls[j].client = c => j <= i

\* The answer a is true of a call.
MayTell(call, a) ==
    \/ call.ran /\ a = call.result
    \/ ~call.ran /\ a \in Promise!Definite
    \/ a \in {"backend", "unavailable"}

\* A call that failed has changed nothing; one that has not arrived has not been
\* carried out, and nobody was told more than that it may be; answers are true.
CallSound(i) ==
    /\ calls[i].ran => calls[i].result \in Answers
    /\ calls[i].changed => calls[i].ran /\ calls[i].result = "ok"
    /\ i \in requests => ~calls[i].ran /\ calls[i].answer \in {"none", "unavailable"}
    /\ calls[i].answer # "none" => MayTell(calls[i], calls[i].answer)
    /\ calls[i].answer = "ok" => calls[i].ran

\* A process that waits has a last call, which is not answered; the response on
\* its way to it is true.
CallOf(c, i) ==
    /\ Latest(c, i)
    /\ calls[i].answer = "none"
    /\ phase[c] = "calling" => ~calls[i].ran /\ i \notin requests
    /\ reply[c] # NoReply => i \notin requests /\ MayTell(calls[i], AnswerOf(reply[c]))

ProcessSound(c) ==
    IF phase[c] \in {"calling", "waiting"} THEN \E i \in DOMAIN calls : CallOf(c, i)
    ELSE reply[c] = NoReply

RemoteInv ==
    /\ Types /\ RemoteKept
    /\ \A i \in DOMAIN calls : CallSound(i)
    /\ \A c \in Clients : ProcessSound(c)

\* The calls after the call i has become another
Replaced(i, call) == [calls EXCEPT ![i] = call]

\* The calls after the call i was answered
WithAnswer(i, a) == [calls EXCEPT ![i].answer = a]

\* The last call is the one CHOOSE finds.
LEMMA CurrentIsLatest ==
  ASSUME NEW c \in Clients, NEW i, Latest(c, i), calls \in Seq(CallType)
  PROVE  Current(c) = i
  <1>1. \A k \in DOMAIN calls :
          (calls[k].client = c /\ \A j \in DOMAIN calls : calls[j].client = c => j <= k) => k = i
    BY DEF Latest
  <1> QED
    BY <1>1, Zenon DEF Latest, Current

\* What a backend is selected for is a graph.
LEMMA SelectionIsTarget ==
  ASSUME tree \in Trees, NEW t \in Terminals
  PROVE  Selection(tree, t) \in Targets /\ RemoteOf(tree, t) \in Addresses \cup {Unset}
  <1> DEFINE files   == ConfigFile(tree, t)
             roots   == LocalRoot(tree, t)
             P       == ResolveFrom(tree, t)
             PathType == [data : GraphFiles, remote : Addresses \cup {Unset}, graph : GraphNames \cup {Unset}]
  <1>0. Depth \in Nat /\ t.start \in 1..Depth
    BY WorkspaceAssumption DEF Terminals
  <1>1. P \in PathType
    <2>1. CASE t.home
      BY <2>1 DEF ResolveFrom, Paths, GraphFiles
    <2>2. CASE ~t.home /\ files # {}
      <3> DEFINE i == CHOOSE i \in files : TRUE
      <3>1. i \in files
        BY <2>2
      <3>4. i \in 1..Depth /\ tree[i].toml # Unset /\ tree[i].toml # Broken
        BY <3>1 DEF FindUpwards, ConfigFile
      <3>2. i \in 1..Depth /\ tree[i].toml \in Configs
        BY <3>4 DEF Trees
      <3>3. P = Paths(DataDir(i, tree[i].toml), tree[i].toml.remote, tree[i].toml.graph)
        BY <2>2 DEF ResolveFrom
      <3> HIDE DEF i
      <3> QED
        BY <3>2, <3>3 DEF Paths, DataDir, Configs, GraphFiles
    <2>3. CASE ~t.home /\ files = {} /\ roots # {}
      <3> DEFINE i == CHOOSE i \in roots : TRUE
      <3>1. i \in roots
        BY <2>3
      <3>2. i \in 1..Depth
        BY <3>1 DEF FindUpwards, LocalRoot
      <3>3. P = Paths(<<i, ".asobi/data">>, Unset, Unset)
        BY <2>3 DEF ResolveFrom
      <3> HIDE DEF i
      <3> QED
        BY <3>2, <3>3 DEF Paths, GraphFiles
    <2>4. CASE ~t.home /\ files = {} /\ roots = {} /\ t.xdg
      BY <2>4 DEF ResolveFrom, Paths, GraphFiles
    <2>5. CASE ~t.home /\ files = {} /\ roots = {} /\ ~t.xdg
      <3>1. P = Paths(<<t.start, ".asobi/data">>, Unset, Unset)
        BY <2>5 DEF ResolveFrom
      <3> QED
        BY <1>0, <3>1 DEF Paths, GraphFiles
    <2> QED
      BY <2>1, <2>2, <2>3, <2>4, <2>5
  <1> HIDE DEF P
  <1>2. RemoteOf(tree, t) \in Addresses \cup {Unset}
    BY <1>1 DEF RemoteOf, Or, P, Terminals
  <1>3. GraphOf(tree, t) \in GraphNames
    BY <1>1, WorkspaceAssumption DEF GraphOf, Or, P, Terminals
  <1>4. FileOf(tree, t) \in GraphFiles
    BY <1>1 DEF FileOf, P, GraphFiles
  <1> QED
    BY <1>2, <1>3, <1>4 DEF Selection, Targets

\* A configured remote is found by the resolution.
LEMMA ConfiguredIsOpened ==
  ASSUME tree \in Trees, NEW t \in Terminals, RemoteConfigured(t)
  PROVE  OpensRemote(tree, t)
  <1>1. CASE t.remote # Unset
    BY <1>1 DEF RemoteConfigured, OpensRemote, RemoteOf, Or
  <1>2. CASE t.remote = Unset
    <2>1. PICK i \in t.start..Depth :
            /\ ~t.home /\ tree[i].toml \in Configs /\ tree[i].toml.remote # Unset
            /\ \A j \in t.start..(i - 1) : tree[j].toml = Unset
      BY <1>2 DEF RemoteConfigured
    <2> DEFINE Toml  == {k \in 1..Depth : tree[k].toml # Unset}
               files == ConfigFile(tree, t)
    <2>2. tree[i].toml # Unset /\ tree[i].toml # Broken
      BY <2>1, WorkspaceAssumption
    <2>7. Depth \in Nat /\ t.start \in 1..Depth
      BY WorkspaceAssumption DEF Terminals
    <2>3. i \in files
      BY <2>1, <2>2, <2>7 DEF FindUpwards, ConfigFile
    <2>4. \A k \in files : k = i
      <3> SUFFICES ASSUME NEW k \in files
                   PROVE  k = i
        OBVIOUS
      <3>1. k \in 1..Depth /\ k >= t.start /\ k \in Toml /\ \A j \in t.start..(k - 1) : j \notin Toml
        BY DEF FindUpwards, ConfigFile
      <3>2. ~(k < i) /\ ~(i < k)
        BY <2>1, <2>2, <2>7, <3>1
      <3> QED
        BY <2>1, <2>7, <3>1, <3>2
    <2>5. (CHOOSE k \in files : TRUE) = i
      BY <2>3, <2>4
    <2>6. ResolveFrom(tree, t) = Paths(DataDir(i, tree[i].toml), tree[i].toml.remote, tree[i].toml.graph)
      BY <2>1, <2>3, <2>5 DEF ResolveFrom
    <2> QED
      BY <1>2, <2>1, <2>6 DEF RemoteConfigured, OpensRemote, RemoteOf, Or, Paths
  <1> QED
    BY <1>1, <1>2

\* The directory that the opening of a file creates.
LEMMA DirectoryKeeps ==
  ASSUME tree \in Trees, NEW file
  PROVE  WithDirectory(tree, file) \in Trees
  BY DEF WithDirectory, Trees

\* The invariant holds at the start.
LEMMA InitInv == Init => RemoteInv
  <1> SUFFICES ASSUME Init
               PROVE  RemoteInv
    OBVIOUS
  <1>1. ProcessTypes
    BY DEF Init, ProcessTypes, Phases, NoBackend
  <1>2. graphs \in [Targets -> Holdings] /\ tree \in Trees
    BY EffectAssumption, RemoteAssumption DEF Init
  <1>3. calls \in Seq(CallType) /\ DOMAIN calls = {} /\ requests = {}
    BY DEF Init
  <1>4. reply \in [Clients -> ResponseType]
    BY DEF Init, NoReply, ResponseType
  <1>5. RemoteKept
    BY DEF Init, RemoteKept
  <1>6. \A c \in Clients : ProcessSound(c)
    BY DEF Init, ProcessSound
  <1> QED
    BY <1>1, <1>2, <1>3, <1>4, <1>5, <1>6 DEF RemoteInv, Types

----------------------------------------------------------------------------
(* What the parts of the actions keep. *)

\* A process that has made a call has a last one, and CHOOSE finds it.
LEMMA CallOfProcess ==
  ASSUME RemoteInv, NEW c \in Clients, phase[c] \in {"calling", "waiting"}
  PROVE  Current(c) \in DOMAIN calls /\ CallOf(c, Current(c))
  <1>1. PICK i \in DOMAIN calls : CallOf(c, i)
    BY DEF RemoteInv, ProcessSound
  <1>2. Current(c) = i
    BY <1>1, CurrentIsLatest DEF RemoteInv, Types, CallOf
  <1> QED
    BY <1>1, <1>2

\* The end of a command.
LEMMA ExitKeeps ==
  ASSUME RemoteInv, NEW c \in Clients, Exit(c)
  PROVE  /\ ProcessTypes' /\ RemoteKept'
         /\ reply' \in [Clients -> ResponseType]
         /\ phase'[c] = "off" /\ reply'[c] = NoReply
         /\ \A d \in Clients \ {c} : phase'[d] = phase[d] /\ reply'[d] = reply[d]
  <1>1. ProcessTypes'
    BY DEF RemoteInv, Types, ProcessTypes, Exit, Phases, NoBackend
  <1>2. RemoteKept'
    BY DEF RemoteInv, Types, ProcessTypes, RemoteKept, Exit
  <1> QED
    BY <1>1, <1>2 DEF RemoteInv, Types, ProcessTypes, Exit, NoReply, ResponseType

\* The next call, or the end of the command.
LEMMA AdvanceKeeps ==
  ASSUME RemoteInv, NEW c \in Clients, Advance(c), phase[c] \in {"calling", "waiting"}
  PROVE  /\ ProcessTypes' /\ RemoteKept'
         /\ reply' \in [Clients -> ResponseType]
         /\ phase'[c] \in {"off", "ready"} /\ reply'[c] = NoReply
         /\ \A d \in Clients \ {c} : phase'[d] = phase[d] /\ reply'[d] = reply[d]
  <1>1. CASE Len(script[c]) = 1
    BY <1>1, ExitKeeps DEF Advance
  <1>2. CASE Len(script[c]) # 1
    <2>1. script[c] \in Seq(Requests) /\ script[c] # <<>>
      BY DEF RemoteInv, Types, ProcessTypes
    <2>5. Tail(script[c]) \in Seq(Requests) /\ Len(Tail(script[c])) # 0
      <3> DEFINE s == script[c]
      <3>1. s \in Seq(Requests) /\ s # <<>> /\ Len(s) # 1
        BY <1>2, <2>1
      <3> HIDE DEF s
      <3>2. Len(s) \in Nat /\ Len(s) # 0
        BY <3>1, EmptySeq
      <3>3. Tail(s) \in Seq(Requests) /\ Len(Tail(s)) = Len(s) - 1
        BY <3>1, HeadTailProperties
      <3> QED
        BY <3>1, <3>2, <3>3 DEF s
    <2>2. Tail(script[c]) \in Seq(Requests) /\ Tail(script[c]) # <<>>
      <3>1. Tail(script[c]) = <<>> => Len(Tail(script[c])) = 0
        BY EmptySeq, Zenon
      <3> QED
        BY <2>5, <3>1
    <2>3. ProcessTypes'
      <3>1. /\ phase' \in [Clients -> Phases]
            /\ wanted' \in [Clients -> BOOLEAN] /\ backend' = backend
        BY <1>2 DEF RemoteInv, Types, ProcessTypes, Advance, Phases
      <3>2. script' \in [Clients -> Seq(Requests)]
        BY <1>2, <2>2 DEF RemoteInv, Types, ProcessTypes, Advance
      <3>3. ASSUME NEW d \in Clients, phase'[d] \notin {"off", "init"}
            PROVE  backend[d].target \in Targets /\ script'[d] # <<>>
        <4>1. CASE d = c
          <5>1. script'[c] = Tail(script[c])
            BY <1>2 DEF RemoteInv, Types, ProcessTypes, Advance
          <5> QED
            BY <2>2, <4>1, <5>1 DEF RemoteInv, Types, ProcessTypes
        <4>2. CASE d # c
          <5>1. script'[d] = script[d] /\ phase'[d] = phase[d]
            BY <1>2, <4>2 DEF RemoteInv, Types, ProcessTypes, Advance
          <5> QED
            BY <3>3, <5>1 DEF RemoteInv, Types, ProcessTypes
        <4> QED
          BY <4>1, <4>2
      <3> QED
        BY <3>1, <3>2, <3>3 DEF RemoteInv, Types, ProcessTypes
    <2>4. RemoteKept'
      BY <1>2 DEF RemoteInv, RemoteKept, Advance
    <2> QED
      BY <1>2, <2>3, <2>4 DEF RemoteInv, Types, ProcessTypes, Advance, NoReply, ResponseType
  <1> QED
    BY <1>1, <1>2

\* Processes stop or wait on, and responses may be lost.
LEMMA Quiet ==
  ASSUME RemoteInv, calls' = calls, requests' \subseteq requests,
         \A d \in Clients :
           \/ phase'[d] \notin {"calling", "waiting"} /\ reply'[d] = NoReply
           \/ phase'[d] = phase[d] /\ reply'[d] \in {reply[d], NoReply}
  PROVE  /\ \A i \in DOMAIN calls' : CallSound(i)'
         /\ \A c \in Clients : ProcessSound(c)'
  <1>1. \A i \in DOMAIN calls' : CallSound(i)'
    BY DEF RemoteInv, CallSound, MayTell
  <1>2. ASSUME NEW c \in Clients
        PROVE  ProcessSound(c)'
    <2>1. CASE phase'[c] \notin {"calling", "waiting"}
      BY <2>1 DEF RemoteInv, ProcessSound
    <2>2. CASE phase'[c] \in {"calling", "waiting"}
      <3>1. phase'[c] = phase[c] /\ reply'[c] \in {reply[c], NoReply}
        BY <2>2
      <3>2. PICK i \in DOMAIN calls : CallOf(c, i)
        BY <2>2, <3>1 DEF RemoteInv, ProcessSound
      <3>3. CallOf(c, i)'
        BY <3>1, <3>2 DEF CallOf, Latest, MayTell
      <3> QED
        BY <2>2, <3>2, <3>3 DEF ProcessSound
    <2> QED
      BY <2>1, <2>2
  <1> QED
    BY <1>1, <1>2

\* One call changes.
LEMMA OneCall ==
  ASSUME RemoteInv, NEW i \in DOMAIN calls, NEW call \in CallType,
         call.client = calls[i].client, calls' = Replaced(i, call),
         requests' \subseteq requests, CallSound(i)'
  PROVE  /\ calls' \in Seq(CallType) /\ DOMAIN calls' = DOMAIN calls
         /\ calls'[i] = call
         /\ \A j \in DOMAIN calls \ {i} : calls'[j] = calls[j]
         /\ \A j \in DOMAIN calls' : CallSound(j)'
         /\ \A c, j : Latest(c, j)' <=> Latest(c, j)
  <1>1. calls \in Seq(CallType)
    BY DEF RemoteInv, Types
  <1>2. calls' \in Seq(CallType) /\ DOMAIN calls' = DOMAIN calls
    BY <1>1 DEF Replaced
  <1>3. calls'[i] = call /\ \A j \in DOMAIN calls \ {i} : calls'[j] = calls[j]
    BY <1>1 DEF Replaced
  <1>4. \A j \in DOMAIN calls' : CallSound(j)'
    BY <1>2, <1>3 DEF RemoteInv, CallSound, MayTell
  <1>5. \A j \in DOMAIN calls : calls'[j].client = calls[j].client
    BY <1>3
  <1>6. \A c, j : Latest(c, j)' <=> Latest(c, j)
    BY <1>2, <1>5 DEF Latest
  <1> QED
    BY <1>2, <1>3, <1>4, <1>6

\* The last call of a process is over for it.
LEMMA Settled ==
  ASSUME RemoteInv, NEW c \in Clients, phase[c] \in {"calling", "waiting"},
         NEW i, i = Current(c), NEW call \in CallType, call.client = c,
         calls' = Replaced(i, call), requests' = requests,
         CallSound(i)',
         phase'[c] \notin {"calling", "waiting"}, reply'[c] = NoReply,
         \A d \in Clients \ {c} : phase'[d] = phase[d] /\ reply'[d] = reply[d]
  PROVE  /\ calls' \in Seq(CallType) /\ DOMAIN calls' = DOMAIN calls
         /\ \A j \in DOMAIN calls' : CallSound(j)'
         /\ \A d \in Clients : ProcessSound(d)'
  <1>1. i \in DOMAIN calls /\ calls[i].client = c
    BY CallOfProcess DEF CallOf, Latest
  <1>2. /\ calls' \in Seq(CallType) /\ DOMAIN calls' = DOMAIN calls
        /\ \A j \in DOMAIN calls \ {i} : calls'[j] = calls[j]
        /\ \A j \in DOMAIN calls' : CallSound(j)'
        /\ \A d, j : Latest(d, j)' <=> Latest(d, j)
    BY <1>1, OneCall
  <1>3. ASSUME NEW d \in Clients
        PROVE  ProcessSound(d)'
    <2>1. CASE phase'[d] \notin {"calling", "waiting"}
      BY <2>1 DEF RemoteInv, ProcessSound
    <2>2. CASE phase'[d] \in {"calling", "waiting"}
      <3>1. d # c /\ phase'[d] = phase[d] /\ reply'[d] = reply[d]
        BY <2>2
      <3>2. PICK j \in DOMAIN calls : CallOf(d, j)
        BY <2>2, <3>1 DEF RemoteInv, ProcessSound
      <3>3. j # i
        BY <1>1, <3>1, <3>2 DEF CallOf, Latest
      <3>4. CallOf(d, j)'
        BY <1>2, <3>1, <3>2, <3>3 DEF CallOf, MayTell
      <3> QED
        BY <1>2, <2>2, <3>2, <3>4 DEF ProcessSound
    <2> QED
      BY <2>1, <2>2
  <1> QED
    BY <1>2, <1>3

\* A call is made, locally or over the network.
LEMMA Made ==
  ASSUME RemoteInv, NEW c \in Clients, phase[c] = "ready", Make(c), reply' = reply,
         phase'[c] \in {"calling", "waiting"},
         \A d \in Clients \ {c} : phase'[d] = phase[d],
         \/ phase'[c] = "calling" /\ requests' = requests
         \/ phase'[c] = "waiting" /\ requests' = requests \cup {Len(calls) + 1}
  PROVE  /\ calls' \in Seq(CallType) /\ requests' \subseteq DOMAIN calls'
         /\ \A j \in DOMAIN calls' : CallSound(j)'
         /\ \A d \in Clients : ProcessSound(d)'
  <1> DEFINE new == Promise!NewCall(c, backend[c].target, Head(script[c]))
  <1>0. PICK n : n = Len(calls) + 1
    OBVIOUS
  <1>1. calls \in Seq(CallType) /\ requests \subseteq DOMAIN calls
    BY DEF RemoteInv, Types
  <1>2. new \in CallType
    <2>1. backend[c].target \in Targets /\ script[c] \in Seq(Requests) /\ script[c] # <<>>
      BY DEF RemoteInv, Types, ProcessTypes
    <2>2. Head(script[c]) \in Requests
      BY <2>1
    <2> QED
      BY <2>1, <2>2 DEF Promise!NewCall, CallType
  <1>3. new.client = c /\ ~new.ran /\ ~new.changed /\ new.answer = "none"
    BY DEF Promise!NewCall
  <1>4. calls' = Append(calls, new)
    BY DEF Make
  <1> HIDE DEF new
  <1>5. /\ calls' \in Seq(CallType) /\ DOMAIN calls' = DOMAIN calls \cup {n}
        /\ n \notin DOMAIN calls /\ calls'[n] = new
        /\ \A j \in DOMAIN calls : calls'[j] = calls[j] /\ j < n
    BY <1>0, <1>1, <1>2, <1>4
  <1>6. requests' \subseteq requests \cup {n} /\ (phase'[c] = "calling" => requests' = requests)
    BY <1>0
  <1>7. ASSUME NEW j \in DOMAIN calls'
        PROVE  CallSound(j)'
    <2>1. CASE j = n
      BY <2>1, <1>3, <1>5 DEF CallSound
    <2>2. CASE j # n
      BY <2>2, <1>5, <1>6 DEF RemoteInv, CallSound, MayTell
    <2> QED
      BY <2>1, <2>2
  <1>8. ASSUME NEW d \in Clients
        PROVE  ProcessSound(d)'
    <2>1. CASE d = c
      <3>0. n \in Nat /\ \A j \in DOMAIN calls : j \in Nat
        BY <1>0, <1>1
      <3>1. Latest(c, n)'
        BY <1>3, <1>5, <3>0 DEF Latest
      <3>2. reply'[c] = NoReply
        BY DEF RemoteInv, ProcessSound
      <3>3. CallOf(c, n)'
        BY <1>1, <1>3, <1>5, <1>6, <3>1, <3>2 DEF CallOf
      <3> QED
        BY <2>1, <1>5, <3>3 DEF ProcessSound
    <2>2. CASE d # c /\ phase[d] \in {"calling", "waiting"}
      <3>1. PICK j \in DOMAIN calls : CallOf(d, j)
        BY <2>2 DEF RemoteInv, ProcessSound
      <3>2. Latest(d, j)'
        BY <2>2, <1>3, <1>5, <3>1 DEF CallOf, Latest
      <3>3. CallOf(d, j)'
        BY <2>2, <1>5, <1>6, <3>1, <3>2 DEF CallOf, MayTell
      <3> QED
        BY <2>2, <1>5, <3>3 DEF ProcessSound
    <2>3. CASE d # c /\ phase[d] \notin {"calling", "waiting"}
      BY <2>3 DEF RemoteInv, ProcessSound
    <2> QED
      BY <2>1, <2>2, <2>3
  <1> QED
    BY <1>1, <1>5, <1>6, <1>7, <1>8

\* A call takes effect.
LEMMA TakesEffect ==
  ASSUME RemoteInv, NEW i \in DOMAIN calls, ~calls[i].ran
  PROVE  \E call \in CallType :
           /\ Promise!CallsAfter(i) = Replaced(i, call)
           /\ Promise!CallsAfter(i)[i] = call
           /\ call.client = calls[i].client /\ call.answer = calls[i].answer
           /\ call.ran /\ call.result \in Answers
           /\ call.changed => call.result = "ok"
           /\ Promise!GraphsAfter(i) \in [Targets -> Holdings]
  <1>1. calls \in Seq(CallType) /\ graphs \in [Targets -> Holdings]
    BY DEF RemoteInv, Types
  <1>2. calls[i] \in CallType
    BY <1>1
  <1>3. calls[i].target \in Targets /\ calls[i].request \in Requests
    BY <1>2 DEF CallType
  <1> DEFINE o == Effect(graphs[calls[i].target], calls[i].request)
             b == o.graph # graphs[calls[i].target]
             call == [calls[i] EXCEPT !.ran = TRUE, !.result = o.answer, !.changed = b]
  <1>4. o.answer \in Answers /\ o.graph \in Holdings /\ (b => o.answer = "ok") /\ b \in BOOLEAN
    BY <1>1, <1>3, EffectAssumption DEF Answers
  <1>5. Promise!CallsAfter(i) = Replaced(i, call)
    BY <1>1 DEF Promise!CallsAfter, Replaced
  <1>6. Promise!GraphsAfter(i) \in [Targets -> Holdings]
    BY <1>1, <1>4 DEF Promise!GraphsAfter
  <1> HIDE DEF o, b
  <1>7. /\ call \in CallType /\ call.client = calls[i].client /\ call.answer = calls[i].answer
        /\ call.ran /\ call.result \in Answers /\ (call.changed => call.result = "ok")
    BY <1>2, <1>4 DEF CallType
  <1> HIDE DEF call
  <1>8. Promise!CallsAfter(i)[i] = call
    BY <1>1, <1>5 DEF Replaced
  <1> QED
    BY <1>5, <1>6, <1>7, <1>8

\* An answer is given.
LEMMA GivesAnswer ==
  ASSUME RemoteInv, NEW i \in DOMAIN calls, NEW a \in Promise!Verdicts
  PROVE  \E call \in CallType :
           /\ WithAnswer(i, a) = Replaced(i, call)
           /\ call.client = calls[i].client /\ call.answer = a
           /\ call.ran = calls[i].ran /\ call.result = calls[i].result
           /\ call.changed = calls[i].changed
  <1>1. calls \in Seq(CallType)
    BY DEF RemoteInv, Types
  <1>2. calls[i] \in CallType
    BY <1>1
  <1> DEFINE call == [calls[i] EXCEPT !.answer = a]
  <1>3. WithAnswer(i, a) = Replaced(i, call)
    BY <1>1 DEF WithAnswer, Replaced
  <1>4. /\ call \in CallType /\ call.client = calls[i].client /\ call.answer = a
        /\ call.ran = calls[i].ran /\ call.result = calls[i].result
        /\ call.changed = calls[i].changed
    BY <1>2 DEF CallType
  <1> QED
    BY <1>3, <1>4

\* A request arrives and is answered.
LEMMA Responded ==
  ASSUME RemoteInv, NEW i \in requests, NEW call \in CallType,
         call.client = calls[i].client, call.answer = calls[i].answer,
         call.ran => call.result \in Answers, call.changed => call.ran /\ call.result = "ok",
         calls' = Replaced(i, call), requests' = requests \ {i}, phase' = phase,
         NEW response \in ResponseType, Respond(i, response), MayTell(call, AnswerOf(response))
  PROVE  /\ calls' \in Seq(CallType) /\ DOMAIN calls' = DOMAIN calls
         /\ reply' \in [Clients -> ResponseType]
         /\ \A j \in DOMAIN calls' : CallSound(j)'
         /\ \A d \in Clients : ProcessSound(d)'
  <1> DEFINE c == calls[i].client
  <1>0. i \in DOMAIN calls /\ calls \in Seq(CallType)
    BY DEF RemoteInv, Types
  <1>1. i \in DOMAIN calls /\ calls[i] \in CallType /\ c \in Clients
    <2>1. calls[i] \in CallType
      BY <1>0
    <2> QED
      BY <1>0, <2>1 DEF CallType
  <1>2. calls[i].answer \in {"none", "unavailable"}
    BY <1>1 DEF RemoteInv, CallSound
  <1>3. calls'[i] = call
    BY <1>1 DEF RemoteInv, Types, Replaced
  <1>4. CallSound(i)'
    BY <1>2, <1>3 DEF CallSound, MayTell
  <1>5. /\ calls' \in Seq(CallType) /\ DOMAIN calls' = DOMAIN calls
        /\ \A j \in DOMAIN calls \ {i} : calls'[j] = calls[j]
        /\ \A j \in DOMAIN calls' : CallSound(j)'
        /\ \A d, j : Latest(d, j)' <=> Latest(d, j)
    BY <1>1, <1>4, OneCall
  <1>7. reply' = IF phase[c] = "waiting" /\ Current(c) = i
                 THEN [reply EXCEPT ![c] = response] ELSE reply
    BY DEF Respond
  <1>6. reply' \in [Clients -> ResponseType]
    BY <1>7 DEF RemoteInv, Types
  <1> HIDE DEF c
  <1>8. ASSUME NEW d \in Clients
        PROVE  ProcessSound(d)'
    <2>1. CASE phase[d] \notin {"calling", "waiting"}
      <3>1. reply'[d] = reply[d]
        BY <2>1, <1>7 DEF RemoteInv, Types
      <3> QED
        BY <2>1, <3>1 DEF RemoteInv, ProcessSound
    <2>2. CASE phase[d] \in {"calling", "waiting"} /\ Current(d) = i
      <3>1. CallOf(d, i) /\ d = c
        BY <2>2, CallOfProcess DEF CallOf, Latest, c
      <3>2. phase[d] = "waiting" /\ reply'[d] = response
        BY <2>2, <1>1, <1>7, <3>1 DEF CallOf, RemoteInv, Types
      <3>3. CallOf(d, i)'
        BY <1>3, <1>5, <3>1, <3>2 DEF CallOf, MayTell
      <3> QED
        BY <2>2, <1>1, <1>5, <3>3 DEF ProcessSound
    <2>3. CASE phase[d] \in {"calling", "waiting"} /\ Current(d) # i
      <3>1. PICK j \in DOMAIN calls : j = Current(d) /\ CallOf(d, j)
        BY <2>3, CallOfProcess
      <3>2. reply'[d] = reply[d]
        BY <2>3, <1>7 DEF RemoteInv, Types
      <3>3. calls'[j] = calls[j] /\ (j \in requests' <=> j \in requests)
        BY <1>5, <2>3, <3>1
      <3>4. CallOf(d, j)'
        BY <1>5, <3>1, <3>2, <3>3 DEF CallOf, MayTell
      <3> QED
        BY <2>3, <1>5, <3>1, <3>4 DEF ProcessSound
    <2> QED
      BY <2>1, <2>2, <2>3
  <1> QED
    BY <1>5, <1>6, <1>8

----------------------------------------------------------------------------
(* The steps. *)

\* Open.
LEMMA OpenKeeps ==
  ASSUME RemoteInv, NEW c \in Clients, NEW k \in Commands, Open(c, k.terminal, k.script)
  PROVE  RemoteInv'
  <1> DEFINE t == k.terminal
  <1>1. t \in Terminals /\ k.script \in Seq(Requests) /\ k.script # <<>>
    BY RemoteAssumption
  <1>2. Selection(tree, t) \in Targets /\ RemoteOf(tree, t) \in Addresses \cup {Unset}
    BY <1>1, SelectionIsTarget DEF RemoteInv, Types
  <1>3. RemoteConfigured(t) => Selection(tree, t)[1] = "remote"
    BY <1>1, ConfiguredIsOpened DEF RemoteInv, Types, Selection
  <1>4. RemoteConfigured(t) \in BOOLEAN
    BY DEF RemoteConfigured
  <1> HIDE DEF t
  <1>7. tree' \in Trees
    <2>1. tree \in Trees
      BY DEF RemoteInv, Types
    <2>2. tree' = tree \/ \E file : tree' = WithDirectory(tree, file)
      BY DEF Open
    <2> QED
      BY <2>1, <2>2, DirectoryKeeps
  <1>5. CASE UNCHANGED mine
    BY <1>5, <1>7, Quiet DEF RemoteInv, Types, ProcessTypes, RemoteKept, Open, mine, net, ProcessSound
  <1>6. CASE ~UNCHANGED mine
    <2> DEFINE kind == IF OpensRemote(tree, t) THEN "pending" ELSE "local"
    <2>1. /\ phase' = [phase EXCEPT ![c] = "ready"]
          /\ wanted' = [wanted EXCEPT ![c] = RemoteConfigured(t)]
          /\ script' = [script EXCEPT ![c] = k.script]
          /\ backend' = [backend EXCEPT ![c] =
               [kind |-> kind, address |-> RemoteOf(tree, t), target |-> Selection(tree, t)]]
          /\ phase[c] = "off" /\ UNCHANGED <<graphs, net, calls>>
      BY <1>6 DEF Open, t
    <2>2. kind \in {"none", "local", "pending", "remote"}
      OBVIOUS
    <2> HIDE DEF kind
    <2>3. ProcessTypes'
      BY <1>1, <1>2, <1>4, <2>1, <2>2 DEF RemoteInv, Types, ProcessTypes, Phases
    <2>4. RemoteKept'
      BY <1>3, <2>1 DEF RemoteInv, Types, ProcessTypes, RemoteKept
    <2>5. (\A i \in DOMAIN calls' : CallSound(i)') /\ (\A d \in Clients : ProcessSound(d)')
      BY <2>1, Quiet DEF net, RemoteInv, Types, ProcessTypes, ProcessSound
    <2> QED
      BY <1>7, <2>1, <2>3, <2>4, <2>5 DEF RemoteInv, Types, net
  <1> QED
    BY <1>5, <1>6

\* The steps of a process that make no call and give no answer.
LEMMA SilentStepsKeep ==
  ASSUME RemoteInv, NEW c \in Clients,
         \/ Negotiate(c) \/ Negotiated(c) \/ NegotiationFails(c) \/ InitConfig(c) \/ Kill(c)
         \/ \E i \in 1..Depth : InitDirectories(c, i)
  PROVE  RemoteInv'
  <1>1. CASE Negotiate(c) \/ Negotiated(c)
    <2>4. ASSUME Negotiate(c)
          PROVE  ProcessTypes' /\ RemoteKept'
      BY <2>4 DEF RemoteInv, Types, ProcessTypes, RemoteKept, Negotiate, Phases
    <2>5. ASSUME Negotiated(c)
          PROVE  ProcessTypes' /\ RemoteKept'
      <3>1. /\ phase' = [phase EXCEPT ![c] = "ready"] /\ UNCHANGED <<wanted, script>>
            /\ backend' = [backend EXCEPT ![c] = [backend[c] EXCEPT !.kind = "remote"]]
        BY <2>5 DEF Negotiated, RemoteInv, Types, ProcessTypes
      <3>2. phase[c] = "negotiating" /\ backend[c].target \in Targets /\ script[c] # <<>>
        BY <2>5 DEF Negotiated, RemoteInv, Types, ProcessTypes
      <3> DEFINE b == [backend[c] EXCEPT !.kind = "remote"]
      <3>3. /\ b \in [kind : {"none", "local", "pending", "remote"},
                       address : Addresses \cup {Unset}, target : Targets \cup {Unset}]
            /\ b.target = backend[c].target
        BY DEF RemoteInv, Types, ProcessTypes
      <3> HIDE DEF b
      <3>4. ProcessTypes'
        BY <3>1, <3>2, <3>3 DEF RemoteInv, Types, ProcessTypes, Phases, b
      <3>5. RemoteKept'
        BY <3>1, <3>3 DEF RemoteInv, Types, ProcessTypes, RemoteKept, b
      <3> QED
        BY <3>4, <3>5
    <2>1. ProcessTypes' /\ RemoteKept'
      BY <1>1, <2>4, <2>5
    <2>2. UNCHANGED <<tree, graphs, net, calls>>
      BY <1>1 DEF Negotiate, Negotiated
    <2>3. \A d \in Clients :
            \/ phase'[d] \notin {"calling", "waiting"} /\ reply'[d] = NoReply
            \/ phase'[d] = phase[d] /\ reply'[d] \in {reply[d], NoReply}
      BY <1>1, <2>2 DEF RemoteInv, Types, ProcessTypes, ProcessSound, Negotiate, Negotiated, net
    <2> QED
      BY <2>1, <2>2, <2>3, Quiet DEF RemoteInv, Types, net
  <1>2. CASE NegotiationFails(c) \/ Kill(c)
    <2>1. Exit(c) /\ UNCHANGED <<tree, graphs, requests, calls>>
      BY <1>2 DEF NegotiationFails, Kill
    <2> QED
      BY <2>1, ExitKeeps, Quiet DEF RemoteInv, Types
  <1>3. CASE InitConfig(c)
    <2>1. Exit(c) /\ UNCHANGED <<graphs, requests, calls>>
      BY <1>3 DEF InitConfig
    <2>2. LocalConfig \in Configs
      BY DEF LocalConfig, Configs
    <2>3. tree' \in Trees
      <3>1. tree \in Trees
        BY DEF RemoteInv, Types
      <3>2. tree' = [tree EXCEPT ![terminal[c]].toml = IF @ = Unset THEN LocalConfig ELSE @]
        BY <1>3 DEF InitConfig
      <3> QED
        BY <2>2, <3>1, <3>2 DEF Trees
    <2> QED
      BY <2>1, <2>3, ExitKeeps, Quiet DEF RemoteInv, Types
  <1>4. ASSUME NEW i \in 1..Depth, InitDirectories(c, i)
        PROVE  RemoteInv'
    <2>1. ProcessTypes' /\ RemoteKept'
      BY <1>4 DEF RemoteInv, Types, ProcessTypes, RemoteKept, InitDirectories, Phases
    <2>2. tree' \in Trees
      <3>1. tree \in Trees
        BY DEF RemoteInv, Types
      <3>2. tree' = [tree EXCEPT ![i].dot = TRUE]
        BY <1>4 DEF InitDirectories
      <3> QED
        BY <3>1, <3>2 DEF Trees
    <2>3. UNCHANGED <<graphs, net, calls>>
      BY <1>4 DEF InitDirectories
    <2>4. \A d \in Clients :
            \/ phase'[d] \notin {"calling", "waiting"} /\ reply'[d] = NoReply
            \/ phase'[d] = phase[d] /\ reply'[d] \in {reply[d], NoReply}
      BY <1>4, <2>3 DEF RemoteInv, Types, ProcessTypes, ProcessSound, InitDirectories, net
    <2> QED
      BY <2>1, <2>2, <2>3, <2>4, Quiet DEF RemoteInv, Types, net
  <1> QED
    BY <1>1, <1>2, <1>3, <1>4

\* CallLocal and Send.
LEMMA CallsKeep ==
  ASSUME RemoteInv, NEW c \in Clients, CallLocal(c) \/ Send(c)
  PROVE  RemoteInv'
  <1>1. /\ Make(c) /\ phase[c] = "ready" /\ UNCHANGED <<tree, graphs, wanted, script, backend, reply>>
        /\ \/ phase' = [phase EXCEPT ![c] = "calling"] /\ requests' = requests
           \/ phase' = [phase EXCEPT ![c] = "waiting"] /\ requests' = requests \cup {Len(calls) + 1}
    BY DEF CallLocal, Send, net
  <1>2. ProcessTypes' /\ RemoteKept'
    BY <1>1 DEF RemoteInv, Types, ProcessTypes, RemoteKept, Phases
  <1>3. phase'[c] \in {"calling", "waiting"} /\ \A d \in Clients \ {c} : phase'[d] = phase[d]
    BY <1>1 DEF RemoteInv, Types, ProcessTypes
  <1>4. \/ phase'[c] = "calling" /\ requests' = requests
        \/ phase'[c] = "waiting" /\ requests' = requests \cup {Len(calls) + 1}
    BY <1>1 DEF RemoteInv, Types, ProcessTypes
  <1>5. /\ calls' \in Seq(CallType) /\ requests' \subseteq DOMAIN calls'
        /\ \A j \in DOMAIN calls' : CallSound(j)'
        /\ \A d \in Clients : ProcessSound(d)'
    BY <1>1, <1>3, <1>4, Made
  <1> QED
    BY <1>1, <1>2, <1>5 DEF RemoteInv, Types

\* The end of a call: whatever it is that is answered, it may be told.
LEMMA EndsKeep ==
  ASSUME RemoteInv, NEW c \in Clients, phase[c] \in {"calling", "waiting"},
         NEW call \in CallType, NEW i, i = Current(c), call.client = c,
         calls' = Replaced(i, call), requests' = requests, tree' = tree,
         graphs' \in [Targets -> Holdings], Exit(c) \/ Advance(c),
         call.ran => call.result \in Answers, call.changed => call.ran /\ call.result = "ok",
         i \in requests => ~call.ran /\ call.answer \in {"none", "unavailable"},
         call.answer # "none" => MayTell(call, call.answer), call.answer = "ok" => call.ran
  PROVE  RemoteInv'
  <1>1. i \in DOMAIN calls /\ calls \in Seq(CallType)
    BY CallOfProcess DEF RemoteInv, Types
  <1>2. calls'[i] = call
    BY <1>1 DEF Replaced
  <1>3. CallSound(i)'
    BY <1>2 DEF CallSound
  <1>4. /\ ProcessTypes' /\ RemoteKept' /\ reply' \in [Clients -> ResponseType]
        /\ phase'[c] \in {"off", "ready"} /\ reply'[c] = NoReply
        /\ \A d \in Clients \ {c} : phase'[d] = phase[d] /\ reply'[d] = reply[d]
    BY ExitKeeps, AdvanceKeeps
  <1>5. /\ calls' \in Seq(CallType) /\ DOMAIN calls' = DOMAIN calls
        /\ \A j \in DOMAIN calls' : CallSound(j)'
        /\ \A d \in Clients : ProcessSound(d)'
    BY <1>3, <1>4, Settled
  <1> QED
    BY <1>4, <1>5 DEF RemoteInv, Types

\* LocalReturns.
LEMMA LocalReturnsKeeps ==
  ASSUME RemoteInv, NEW c \in Clients, LocalReturns(c)
  PROVE  RemoteInv'
  <1>0. PICK i : i = Current(c)
    OBVIOUS
  <1>1. /\ phase[c] = "calling" /\ CallOf(c, i) /\ i \in DOMAIN calls /\ CallSound(i)
        /\ calls \in Seq(CallType) /\ calls[i].client = c
    BY <1>0, CallOfProcess DEF LocalReturns, RemoteInv, Types, CallOf, Latest
  <1>2. ~calls[i].ran /\ i \notin requests /\ calls[i].answer = "none"
    BY <1>1 DEF CallOf
  <1>3. PICK done \in CallType :
           /\ Promise!CallsAfter(i) = Replaced(i, done)
           /\ Promise!CallsAfter(i)[i] = done
           /\ done.client = c /\ done.answer = "none"
           /\ done.ran /\ done.result \in Answers
           /\ done.changed => done.result = "ok"
           /\ Promise!GraphsAfter(i) \in [Targets -> Holdings]
    BY <1>1, <1>2, TakesEffect
  <1>4. tree' = tree /\ requests' = requests
    BY DEF LocalReturns
  <1>5. ASSUME NEW a \in VerdictsOf(calls[i].request, done.result),
               graphs' = Promise!GraphsAfter(i),
               calls' = [Promise!CallsAfter(i) EXCEPT ![i].answer = a],
               Exit(c) \/ Advance(c)
        PROVE  RemoteInv'
    <2> DEFINE call == [done EXCEPT !.answer = a]
    <2>1. a = done.result \/ a = "backend"
      BY <1>5 DEF VerdictsOf
    <2>2. /\ call \in CallType /\ call.client = c /\ call.ran /\ call.answer = a
          /\ call.result = done.result /\ call.changed = done.changed
      BY <1>3, <2>1 DEF CallType, Answers, Promise!Verdicts, Promise!Definite
    <2>3. calls' = Replaced(i, call)
      BY <1>1, <1>3, <1>5 DEF Replaced
    <2> HIDE DEF call
    <2>4. MayTell(call, call.answer)
      BY <2>1, <2>2 DEF MayTell
    <2> QED
      BY <1>0, <1>1, <1>2, <1>3, <1>4, <1>5, <2>2, <2>3, <2>4, EndsKeep
  <1>6. CASE graphs' = Promise!GraphsAfter(i) /\ calls' = Promise!CallsAfter(i) /\ Exit(c)
    BY <1>0, <1>1, <1>2, <1>3, <1>4, <1>6, EndsKeep
  <1>7. CASE calls' = WithAnswer(i, "backend") /\ Exit(c) /\ UNCHANGED graphs
    <2>1. PICK call \in CallType :
            /\ calls' = Replaced(i, call)
            /\ call.client = c /\ call.answer = "backend"
            /\ call.ran = calls[i].ran /\ call.result = calls[i].result
            /\ call.changed = calls[i].changed
      <3>1. "backend" \in Promise!Verdicts
        BY DEF Promise!Verdicts
      <3> QED
        BY <1>1, <1>7, <3>1, GivesAnswer
    <2>2. MayTell(call, call.answer)
      BY <2>1 DEF MayTell
    <2> QED
      <3>1. graphs' \in [Targets -> Holdings]
        BY <1>7 DEF RemoteInv, Types
      <3>2. /\ call.ran => call.result \in Answers
            /\ call.changed => call.ran /\ call.result = "ok"
        BY <1>1, <2>1 DEF CallSound
      <3>3. Current(c) = i /\ phase[c] \in {"calling", "waiting"}
        BY <1>0, <1>1
      <3> QED
        BY <1>2, <1>4, <1>7, <2>1, <2>2, <3>1, <3>2, <3>3, EndsKeep
  <1> QED
    BY <1>0, <1>3, <1>5, <1>6, <1>7 DEF LocalReturns, WithAnswer

\* Receive and ConnectionBreaks: the answer is one that may be told.
LEMMA AnsweredKeeps ==
  ASSUME RemoteInv, NEW c \in Clients, Receive(c) \/ ConnectionBreaks(c)
  PROVE  /\ RemoteInv'
         /\ \E a \in Promise!Verdicts :
              /\ calls' = WithAnswer(Current(c), a)
              /\ MayTell(calls[Current(c)], a)
  <1>0. PICK i : i = Current(c)
    OBVIOUS
  <1>1. /\ phase[c] = "waiting" /\ CallOf(c, i) /\ i \in DOMAIN calls /\ CallSound(i)
        /\ calls \in Seq(CallType) /\ calls[i].client = c
    BY <1>0, CallOfProcess DEF Receive, ConnectionBreaks, RemoteInv, Types, CallOf, Latest
  <1>2. PICK a : /\ Answered(c, a) /\ MayTell(calls[i], a)
                 /\ i \in requests => a = "unavailable"
    <2>1. CASE Receive(c)
      BY <1>1, <2>1 DEF Receive, CallOf
    <2>2. CASE ConnectionBreaks(c)
      BY <2>2 DEF ConnectionBreaks, MayTell
    <2> QED
      BY <2>1, <2>2
  <1>3. a \in Promise!Verdicts
    <2>1. calls[i].ran => calls[i].result \in Answers
      BY <1>1 DEF CallSound
    <2> QED
      BY <1>2, <2>1 DEF MayTell, Answers, Promise!Verdicts, Promise!Definite
  <1>4. PICK call \in CallType :
          /\ calls' = Replaced(i, call)
          /\ call.client = c /\ call.answer = a
          /\ call.ran = calls[i].ran /\ call.result = calls[i].result
          /\ call.changed = calls[i].changed
    <2>1. calls' = WithAnswer(i, a)
      BY <1>0, <1>2 DEF Answered, WithAnswer
    <2> QED
      BY <1>1, <1>3, <2>1, GivesAnswer
  <1>5. MayTell(call, call.answer) /\ (call.answer = "ok" => call.ran)
    BY <1>2, <1>4 DEF MayTell, Promise!Definite
  <1>6. tree' = tree /\ requests' = requests /\ graphs' = graphs /\ (Exit(c) \/ Advance(c))
    BY <1>2 DEF Receive, ConnectionBreaks, Answered
  <1>7. RemoteInv'
    BY <1>0, <1>1, <1>2, <1>4, <1>5, <1>6, EndsKeep DEF RemoteInv, Types, CallSound
  <1> QED
    BY <1>0, <1>2, <1>3, <1>7 DEF Answered, WithAnswer

\* What a served request does to calls and graphs.
LEMMA ServeKeeps ==
  ASSUME RemoteInv, NEW i \in requests, Serve(i)
  PROVE  RemoteInv'
  <1>1. i \in DOMAIN calls /\ calls \in Seq(CallType) /\ CallSound(i) /\ calls[i] \in CallType
    BY DEF RemoteInv, Types
  <1>2. ~calls[i].ran /\ ~calls[i].changed
    BY <1>1 DEF CallSound
  <1>3. requests' = requests \ {i} /\ UNCHANGED mine /\ UNCHANGED <<tree, phase>>
    BY DEF Serve, mine
  <1>4. ProcessTypes' /\ RemoteKept'
    BY <1>3 DEF RemoteInv, Types, ProcessTypes, RemoteKept, mine
  <1>5. calls = Replaced(i, calls[i])
    BY <1>1 DEF Replaced
  <1>6. ASSUME NEW response \in ResponseType, Respond(i, response), UNCHANGED <<graphs, calls>>,
               MayTell(calls[i], AnswerOf(response))
        PROVE  RemoteInv'
    <2>1. /\ calls' \in Seq(CallType) /\ DOMAIN calls' = DOMAIN calls
          /\ reply' \in [Clients -> ResponseType]
          /\ \A j \in DOMAIN calls' : CallSound(j)'
          /\ \A d \in Clients : ProcessSound(d)'
      BY <1>1, <1>2, <1>3, <1>5, <1>6, Responded
    <2> QED
      BY <1>3, <1>4, <1>6, <2>1 DEF RemoteInv, Types
  <1>7. CASE \E response \in Refusal(calls[i]) : Respond(i, response) /\ UNCHANGED <<graphs, calls>>
    <2>1. PICK response \in Refusal(calls[i]) : Respond(i, response) /\ UNCHANGED <<graphs, calls>>
      BY <1>7
    <2>2. response \in {Response(404, "html"), Response(404, "notFound"), Response(422, "invalid"),
                        Response(503, "unavailable"), Response(501, "unsupported")}
      BY <2>1 DEF Refusal
    <2>3. response \in ResponseType
      BY <2>2 DEF Response, ResponseType
    <2>4. AnswerOf(response) \in {"backend", "not_found", "invalid", "unavailable", "unsupported"}
      BY <2>2 DEF Response, AnswerOf
    <2>5. MayTell(calls[i], AnswerOf(response))
      BY <1>2, <2>4 DEF MayTell, Promise!Definite
    <2> QED
      BY <1>6, <2>1, <2>3, <2>5
  <1>8. CASE Respond(i, Response(500, "backend")) /\ UNCHANGED <<graphs, calls>>
    <2>1. Response(500, "backend") \in ResponseType /\ AnswerOf(Response(500, "backend")) = "backend"
      BY DEF Response, ResponseType, AnswerOf
    <2>2. MayTell(calls[i], "backend")
      BY DEF MayTell
    <2> QED
      BY <1>6, <1>8, <2>1, <2>2
  <1>9. ASSUME graphs' = Promise!GraphsAfter(i), calls' = Promise!CallsAfter(i),
               \/ Respond(i, ShapeOf(calls'[i].result))
               \/ Respond(i, Response(500, "backend"))
        PROVE  RemoteInv'
    <2>1. PICK call \in CallType :
            /\ calls' = Replaced(i, call) /\ calls'[i] = call
            /\ call.client = calls[i].client /\ call.answer = calls[i].answer
            /\ call.ran /\ call.result \in Answers
            /\ call.changed => call.result = "ok"
            /\ graphs' \in [Targets -> Holdings]
      BY <1>1, <1>2, <1>9, TakesEffect
    <2>2. PICK response \in {ShapeOf(call.result), Response(500, "backend")} : Respond(i, response)
      BY <1>9, <2>1
    <2>3. response \in ResponseType /\ AnswerOf(response) \in {call.result, "backend"}
      BY <2>1, <2>2 DEF Response, ResponseType, ShapeOf, AnswerOf, Answers
    <2>4. MayTell(call, AnswerOf(response))
      BY <2>1, <2>3 DEF MayTell
    <2>5. /\ calls' \in Seq(CallType) /\ DOMAIN calls' = DOMAIN calls
          /\ reply' \in [Clients -> ResponseType]
          /\ \A j \in DOMAIN calls' : CallSound(j)'
          /\ \A d \in Clients : ProcessSound(d)'
      BY <1>3, <2>1, <2>2, <2>3, <2>4, Responded
    <2> QED
      BY <1>3, <1>4, <2>1, <2>5 DEF RemoteInv, Types
  <1> QED
    BY <1>7, <1>8, <1>9 DEF Serve

\* Every step keeps the invariant.
LEMMA StepKeeps == RemoteInv /\ [Next]_vars => RemoteInv'
  <1> SUFFICES ASSUME RemoteInv, [Next]_vars
               PROVE  RemoteInv'
    OBVIOUS
  <1>1. ASSUME NEW c \in Clients, NEW k \in Commands, Open(c, k.terminal, k.script)
        PROVE  RemoteInv'
    BY <1>1, OpenKeeps
  <1>2. ASSUME NEW c \in Clients, NEW i \in 1..Depth, InitDirectories(c, i)
        PROVE  RemoteInv'
    BY <1>2, SilentStepsKeep
  <1>3. ASSUME NEW c \in Clients, ClientStep(c)
        PROVE  RemoteInv'
    BY <1>3, SilentStepsKeep, CallsKeep, LocalReturnsKeeps, AnsweredKeeps DEF ClientStep
  <1>4. ASSUME NEW c \in Clients, ConnectionBreaks(c)
        PROVE  RemoteInv'
    BY <1>4, AnsweredKeeps
  <1>5. ASSUME NEW c \in Clients, Kill(c)
        PROVE  RemoteInv'
    BY <1>5, SilentStepsKeep
  <1>6. ASSUME NEW i \in requests, Serve(i)
        PROVE  RemoteInv'
    BY <1>6, ServeKeeps
  <1>7. CASE Stop
    <2>1. requests' = {} /\ reply' = [c \in Clients |-> NoReply] /\ UNCHANGED <<tree, graphs, mine, calls>>
      BY <1>7 DEF Stop
    <2>2. ProcessTypes' /\ RemoteKept'
      BY <2>1 DEF RemoteInv, Types, ProcessTypes, RemoteKept, mine
    <2>3. reply' \in [Clients -> ResponseType]
      BY <2>1 DEF NoReply, ResponseType
    <2>4. phase' = phase /\ \A c \in Clients : reply'[c] = NoReply
      BY <2>1 DEF mine
    <2>5. (\A i \in DOMAIN calls' : CallSound(i)') /\ (\A c \in Clients : ProcessSound(c)')
      BY <2>1, <2>4, Quiet
    <2> QED
      BY <2>1, <2>2, <2>3, <2>5 DEF RemoteInv, Types
  <1>8. CASE StartServer \/ UNCHANGED vars
    <2>1. UNCHANGED <<tree, graphs, mine, net, calls>>
      BY <1>8 DEF StartServer, vars
    <2>2. ProcessTypes' /\ RemoteKept'
      BY <2>1 DEF RemoteInv, Types, ProcessTypes, RemoteKept, mine
    <2>3. (\A i \in DOMAIN calls' : CallSound(i)') /\ (\A c \in Clients : ProcessSound(c)')
      BY <2>1, Quiet DEF mine, net
    <2> QED
      BY <2>1, <2>2, <2>3 DEF RemoteInv, Types, net
  <1> QED
    BY <1>1, <1>2, <1>3, <1>4, <1>5, <1>6, <1>7, <1>8 DEF Next

LEMMA RemoteInvariant == Spec => []RemoteInv
  <1> QED
    BY InitInv, StepKeeps, PTL DEF Spec

\* Answers are true: whoever is told ok has had the call take effect, whoever is
\* told that it was impossible has had nothing changed, then or later.
THEOREM AnswersAreTrue == Spec => []AnswersTrue
  <1>1. RemoteInv => AnswersTrue
    BY DEF RemoteInv, AnswersTrue, CallSound, MayTell, Promise!Definite
  <1> QED
    BY <1>1, RemoteInvariant, PTL

----------------------------------------------------------------------------
(* A configured remote fails closed. *)

\* Which calls a step may add: one, made by a process on its own target.
LEMMA NewCalls ==
  ASSUME RemoteInv, [Next]_vars
  PROVE  \/ DOMAIN calls' = DOMAIN calls
         \/ \E c \in Clients : CallLocal(c) \/ Send(c)
  <1>1. calls \in Seq(CallType) /\ (DOMAIN calls' = DOMAIN calls \/ calls' # calls)
    BY DEF RemoteInv, Types
  <1>2. ASSUME NEW c \in Clients, LocalReturns(c) \/ Receive(c) \/ ConnectionBreaks(c)
        PROVE  DOMAIN calls' = DOMAIN calls
    BY <1>1, <1>2 DEF LocalReturns, Receive, ConnectionBreaks, Answered, Promise!CallsAfter
  <1>3. ASSUME NEW i \in requests, Serve(i)
        PROVE  DOMAIN calls' = DOMAIN calls
    BY <1>1, <1>3 DEF Serve, Promise!CallsAfter
  <1>4. ASSUME NEW c \in Clients, NEW k \in Commands, Open(c, k.terminal, k.script)
        PROVE  calls' = calls
    BY <1>4 DEF Open
  <1>5. ASSUME NEW c \in Clients, NEW i \in 1..Depth, InitDirectories(c, i)
        PROVE  calls' = calls
    BY <1>5 DEF InitDirectories
  <1>6. ASSUME NEW c \in Clients,
               Negotiate(c) \/ Negotiated(c) \/ NegotiationFails(c) \/ InitConfig(c) \/ Kill(c)
        PROVE  calls' = calls
    BY <1>6 DEF Negotiate, Negotiated, NegotiationFails, InitConfig, Kill
  <1>7. CASE Stop \/ StartServer \/ UNCHANGED vars
    BY <1>7 DEF Stop, StartServer, vars
  <1> QED
    BY <1>1, <1>2, <1>3, <1>4, <1>5, <1>6, <1>7 DEF Next, ClientStep

\* A command for which a remote is configured makes no call on a local graph.
THEOREM RemoteFailsClosed == Spec => FailsClosed
  <1> DEFINE Closed == \A i \in DOMAIN calls' \ DOMAIN calls :
                         wanted[calls'[i].client] => calls'[i].target[1] = "remote"
  <1>1. RemoteInv /\ [Next]_vars => Closed
    <2> SUFFICES ASSUME RemoteInv, [Next]_vars, NEW i \in DOMAIN calls' \ DOMAIN calls,
                        wanted[calls'[i].client]
                 PROVE  calls'[i].target[1] = "remote"
      OBVIOUS
    <2>1. PICK c \in Clients : Make(c)
      BY NewCalls DEF CallLocal, Send
    <2> DEFINE new == Promise!NewCall(c, backend[c].target, Head(script[c]))
    <2>2. calls' = Append(calls, new) /\ calls \in Seq(CallType)
      BY <2>1 DEF Make, RemoteInv, Types
    <2>3. new.client = c /\ new.target = backend[c].target
      BY DEF Promise!NewCall
    <2> HIDE DEF new
    <2>4. calls'[i] = new
      BY <2>2
    <2> QED
      BY <2>3, <2>4 DEF RemoteInv, RemoteKept
  <1>2. RemoteInv /\ [Next]_vars => [Closed]_vars
    BY <1>1
  <1> QED
    BY <1>2, RemoteInvariant, PTL DEF Spec, FailsClosed

----------------------------------------------------------------------------
(* The promise. *)

\* LocalReturns is one step of the promise.
LEMMA LocalReturnsPromised ==
  ASSUME RemoteInv, NEW c \in Clients, LocalReturns(c)
  PROVE  Promise!Next
  <1>0. PICK i : i = Current(c)
    OBVIOUS
  <1>1. i \in DOMAIN calls /\ ~calls[i].ran /\ calls[i].answer = "none"
    BY <1>0, CallOfProcess DEF LocalReturns, CallOf
  <1>2. CASE graphs' = Promise!GraphsAfter(i) /\ calls' = Promise!CallsAfter(i)
    <2>1. Promise!Run(i)
      BY <1>1, <1>2 DEF Promise!Run
    <2> QED
      BY <1>1, <2>1 DEF Promise!Next
  <1>3. CASE calls' = [calls EXCEPT ![i].answer = "backend"] /\ UNCHANGED graphs
    <2>1. Promise!Tell(i)
      BY <1>1, <1>3 DEF Promise!Tell, Promise!Verdicts
    <2> QED
      BY <1>1, <2>1 DEF Promise!Next
  <1>4. ASSUME NEW a \in VerdictsOf(calls[i].request, Promise!CallsAfter(i)[i].result),
               graphs' = Promise!GraphsAfter(i),
               calls' = [Promise!CallsAfter(i) EXCEPT ![i].answer = a]
        PROVE  Promise!Next
    <2>1. a \in {Promise!CallsAfter(i)[i].result, "backend"}
      BY DEF VerdictsOf
    <2>2. Promise!RunAndTell(i)
      BY <1>1, <1>4, <2>1, Zenon DEF Promise!RunAndTell
    <2> QED
      BY <1>1, <2>2 DEF Promise!Next
  <1> QED
    BY <1>0, <1>2, <1>3, <1>4, Zenon DEF LocalReturns

\* Every step is one of the promise or leaves graphs and calls alone.
LEMMA StepPromised == RemoteInv /\ [Next]_vars => [Promise!Next]_(Promise!vars)
  <1> SUFFICES ASSUME RemoteInv, [Next]_vars
               PROVE  Promise!Next \/ (graphs' = graphs /\ calls' = calls)
    BY DEF Promise!vars
  <1>1. ASSUME NEW c \in Clients, CallLocal(c) \/ Send(c)
        PROVE  Promise!Next
    <2>1. phase[c] = "ready" /\ Make(c) /\ graphs' = graphs
      BY <1>1 DEF CallLocal, Send
    <2>2. backend[c].target \in Targets /\ script[c] \in Seq(Requests) /\ script[c] # <<>>
      BY <2>1 DEF RemoteInv, Types, ProcessTypes
    <2>3. Head(script[c]) \in Requests
      BY <2>2
    <2>4. Promise!Make(c, backend[c].target, Head(script[c]))
      BY <2>1 DEF Make, Promise!Make
    <2> QED
      BY <2>2, <2>3, <2>4 DEF Promise!Next
  <1>2. ASSUME NEW c \in Clients, Receive(c) \/ ConnectionBreaks(c)
        PROVE  Promise!Next
    <2>0. PICK i : i = Current(c)
      OBVIOUS
    <2>1. i \in DOMAIN calls /\ calls[i].answer = "none"
      BY <1>2, <2>0, CallOfProcess DEF Receive, ConnectionBreaks, CallOf
    <2>2. PICK a \in Promise!Verdicts : calls' = WithAnswer(i, a) /\ MayTell(calls[i], a)
      BY <1>2, <2>0, AnsweredKeeps
    <2>3. graphs' = graphs
      BY <1>2 DEF Receive, ConnectionBreaks
    <2>4. Promise!Tell(i)
      BY <2>1, <2>2, <2>3, Zenon DEF Promise!Tell, MayTell, WithAnswer
    <2> QED
      BY <2>1, <2>4 DEF Promise!Next
  <1>3. ASSUME NEW i \in requests, Serve(i)
        PROVE  Promise!Next \/ (graphs' = graphs /\ calls' = calls)
    <2>1. i \in DOMAIN calls /\ ~calls[i].ran /\ calls[i].answer \in {"none", "unavailable"}
      BY DEF RemoteInv, Types, CallSound
    <2>2. CASE graphs' = Promise!GraphsAfter(i) /\ calls' = Promise!CallsAfter(i)
      <3>1. Promise!Run(i)
        BY <2>1, <2>2 DEF Promise!Run
      <3> QED
        BY <2>1, <3>1 DEF Promise!Next
    <2> QED
      BY <1>3, <2>2, Zenon DEF Serve
  <1>4. ASSUME NEW c \in Clients,
               Negotiate(c) \/ Negotiated(c) \/ NegotiationFails(c) \/ InitConfig(c) \/ Kill(c)
        PROVE  graphs' = graphs /\ calls' = calls
    BY <1>4 DEF Negotiate, Negotiated, NegotiationFails, InitConfig, Kill
  <1>5. ASSUME NEW c \in Clients, NEW k \in Commands, Open(c, k.terminal, k.script)
        PROVE  graphs' = graphs /\ calls' = calls
    BY <1>5 DEF Open
  <1>6. ASSUME NEW c \in Clients, NEW i \in 1..Depth, InitDirectories(c, i)
        PROVE  graphs' = graphs /\ calls' = calls
    BY <1>6 DEF InitDirectories
  <1>7. CASE Stop \/ StartServer \/ UNCHANGED vars
    BY <1>7 DEF Stop, StartServer, vars
  <1> QED
    BY <1>1, <1>2, <1>3, <1>4, <1>5, <1>6, <1>7, LocalReturnsPromised DEF Next, ClientStep

\* Each call takes effect on the graph it was made for at most once, and an answer
\* tells the truth about it, whatever the network and the server did.
THEOREM PromiseIsKept == Spec => AtMostOnceKept
  <1>1. Init => Promise!Init
    BY DEF Init, Promise!Init
  <1> QED
    BY <1>1, RemoteInvariant, StepPromised, PTL DEF Spec, AtMostOnceKept, Promise!Spec

----------------------------------------------------------------------------
(* Where each process is, and what has become of the server. *)

\* What a process has opened fits what it is doing.
SessionSound(c) ==
    /\ backend[c].kind = "none" <=> phase[c] \in {"off", "init"}
    /\ backend[c].kind # "none" => terminal[c] \in Terminals
    /\ backend[c].kind = "local" => backend[c].target[1] = "local"
    /\ phase[c] = "calling" => backend[c].kind = "local"
    /\ phase[c] = "negotiating" => backend[c].kind = "pending"
    /\ phase[c] = "waiting" => backend[c].kind = "remote"
    /\ reply[c] # NoReply => phase[c] = "waiting"

Sessions ==
    /\ terminal \in [Clients -> Terminals \cup {Unset} \cup 1..Depth]
    /\ \A c \in Clients : SessionSound(c)

\* Until the server is first stopped it is the one that was deployed, and if that
\* one does not offer the version nobody has got past the negotiation.
Uncalled ==
    restarts = 0 =>
      /\ server.up
      /\ ~Compatible(server.build) =>
           /\ \A c \in Clients : backend[c].kind # "remote"
           /\ \A i \in DOMAIN calls : calls[i].target[1] = "local"

SessionInv ==
    /\ server \in [up : BOOLEAN, build : Builds]
    /\ {commands, restarts} \subseteq Nat
    /\ Sessions /\ Uncalled

\* What a step may make of the processes: each fits what it is doing, and one that
\* is past the negotiation was, or asked a server that offers the version.
Seated ==
    /\ Sessions'
    /\ \A c \in Clients : backend'[c].kind = "remote" =>
         backend[c].kind = "remote" \/ Compatible(server.build)

\* The step of one process leaves the others where they are.
LEMMA Bystanders ==
  ASSUME RemoteInv, Sessions, NEW c \in Clients,
         terminal' \in [Clients -> Terminals \cup {Unset} \cup 1..Depth],
         \A d \in Clients \ {c} : /\ phase'[d] = phase[d] /\ backend'[d] = backend[d]
                                  /\ terminal'[d] = terminal[d] /\ reply'[d] = reply[d],
         SessionSound(c)',
         backend'[c].kind = "remote" => backend[c].kind = "remote" \/ Compatible(server.build)
  PROVE  Seated
  <1>1. ASSUME NEW d \in Clients
        PROVE  /\ SessionSound(d)'
               /\ backend'[d].kind = "remote" => backend[d].kind = "remote" \/ Compatible(server.build)
    <2>1. CASE d = c
      BY <2>1
    <2>2. CASE d # c
      BY <2>2 DEF Sessions, SessionSound
    <2> QED
      BY <2>1, <2>2
  <1> QED
    BY <1>1 DEF Seated, Sessions

\* The end of a command.
LEMMA ExitSeats ==
  ASSUME RemoteInv, Sessions, NEW c \in Clients, Exit(c)
  PROVE  Seated
  <1>1. terminal' \in [Clients -> Terminals \cup {Unset} \cup 1..Depth]
    BY DEF Exit, Sessions
  <1>2. /\ phase'[c] = "off" /\ backend'[c] = NoBackend /\ reply'[c] = NoReply
        /\ \A d \in Clients \ {c} : /\ phase'[d] = phase[d] /\ backend'[d] = backend[d]
                                    /\ terminal'[d] = terminal[d] /\ reply'[d] = reply[d]
    BY DEF RemoteInv, Types, ProcessTypes, Sessions, Exit
  <1>3. SessionSound(c)' /\ backend'[c].kind # "remote"
    BY <1>2 DEF SessionSound, NoBackend
  <1> QED
    BY <1>1, <1>2, <1>3, Bystanders

\* The next call, or the end of the command.
LEMMA AdvanceSeats ==
  ASSUME RemoteInv, Sessions, NEW c \in Clients, Advance(c), phase[c] \in {"calling", "waiting"}
  PROVE  Seated
  <1>1. CASE Len(script[c]) = 1
    BY <1>1, ExitSeats DEF Advance
  <1>2. CASE Len(script[c]) # 1
    <2>1. /\ phase'[c] = "ready" /\ UNCHANGED <<terminal, backend>> /\ reply'[c] = NoReply
          /\ \A d \in Clients \ {c} : phase'[d] = phase[d] /\ reply'[d] = reply[d]
      BY <1>2 DEF RemoteInv, Types, ProcessTypes, Advance
    <2>2. SessionSound(c)'
      BY <2>1 DEF Sessions, SessionSound
    <2> QED
      BY <2>1, <2>2, Bystanders DEF Sessions
  <1> QED
    BY <1>1, <1>2

\* A command is started.
LEMMA OpenSeats ==
  ASSUME RemoteInv, Sessions, NEW c \in Clients, NEW k \in Commands, Open(c, k.terminal, k.script)
  PROVE  Seated
  <1> DEFINE t      == k.terminal
             target == Selection(tree, t)
             kind   == IF OpensRemote(tree, t) THEN "pending" ELSE "local"
  <1>1. t \in Terminals
    BY RemoteAssumption
  <1>2. kind = "local" => target[1] = "local"
    BY DEF Selection
  <1>3. CASE kind = "local" /\ target \in Unopenable
    <2>1. UNCHANGED <<phase, terminal, backend, reply>>
      BY <1>3 DEF Open, mine, net
    <2>2. SessionSound(c)'
      BY <2>1 DEF Sessions, SessionSound
    <2> QED
      BY <2>1, <2>2, Bystanders DEF Sessions
  <1>4. CASE ~(kind = "local" /\ target \in Unopenable)
    <2>1. /\ phase'    = [phase EXCEPT ![c] = "ready"]
          /\ terminal' = [terminal EXCEPT ![c] = t]
          /\ backend'  = [backend EXCEPT ![c] =
               [kind |-> kind, address |-> RemoteOf(tree, t), target |-> target]]
          /\ phase[c] = "off" /\ reply' = reply
      BY <1>4 DEF Open, net
    <2>2. kind \in {"pending", "local"}
      OBVIOUS
    <2> HIDE DEF t, target, kind
    <2>3. /\ phase'[c] = "ready" /\ terminal'[c] = t
          /\ backend'[c].kind = kind /\ backend'[c].target = target
          /\ terminal' \in [Clients -> Terminals \cup {Unset} \cup 1..Depth]
          /\ \A d \in Clients \ {c} : /\ phase'[d] = phase[d] /\ backend'[d] = backend[d]
                                      /\ terminal'[d] = terminal[d] /\ reply'[d] = reply[d]
      BY <1>1, <2>1 DEF RemoteInv, Types, ProcessTypes, Sessions
    <2>4. reply'[c] = NoReply
      BY <2>1 DEF Sessions, SessionSound
    <2>5. SessionSound(c)'
      BY <1>1, <1>2, <2>2, <2>3, <2>4 DEF SessionSound
    <2> QED
      BY <2>2, <2>3, <2>5, Bystanders
  <1> QED
    BY <1>3, <1>4

\* The steps of a process that neither start nor end a command.
LEMMA ClientSeats ==
  ASSUME RemoteInv, Sessions, NEW c \in Clients,
         \/ CallLocal(c) \/ Negotiate(c) \/ Negotiated(c) \/ Send(c)
         \/ \E i \in 1..Depth : InitDirectories(c, i)
  PROVE  Seated
  <1>1. CASE CallLocal(c) \/ Negotiate(c) \/ Send(c)
    <2>1. /\ phase' \in {[phase EXCEPT ![c] = p] : p \in {"calling", "negotiating", "waiting"}}
          /\ UNCHANGED <<terminal, backend, reply>>
          /\ phase[c] = "ready"
      BY <1>1 DEF CallLocal, Negotiate, Send, net
    <2>2. /\ phase'[c] = "calling" => backend[c].kind = "local"
          /\ phase'[c] = "negotiating" => backend[c].kind = "pending"
          /\ phase'[c] = "waiting" => backend[c].kind = "remote"
          /\ phase'[c] \in {"calling", "negotiating", "waiting"}
          /\ \A d \in Clients \ {c} : phase'[d] = phase[d]
      BY <1>1, <2>1 DEF CallLocal, Negotiate, Send, RemoteInv, Types, ProcessTypes
    <2>3. SessionSound(c)'
      BY <2>1, <2>2 DEF Sessions, SessionSound
    <2> QED
      BY <2>1, <2>2, <2>3, Bystanders DEF Sessions
  <1>2. CASE Negotiated(c)
    <2>1. /\ phase'[c] = "ready" /\ backend'[c].kind = "remote"
          /\ UNCHANGED <<terminal, reply>> /\ Compatible(server.build)
          /\ phase[c] = "negotiating"
          /\ \A d \in Clients \ {c} : phase'[d] = phase[d] /\ backend'[d] = backend[d]
      BY <1>2 DEF Negotiated, net, RemoteInv, Types, ProcessTypes
    <2>2. SessionSound(c)'
      BY <2>1 DEF Sessions, SessionSound
    <2> QED
      BY <2>1, <2>2, Bystanders DEF Sessions
  <1>3. ASSUME NEW i \in 1..Depth, InitDirectories(c, i)
        PROVE  Seated
    <2>1. /\ phase'[c] = "init" /\ UNCHANGED <<backend, reply>> /\ phase[c] = "off"
          /\ terminal' \in [Clients -> Terminals \cup {Unset} \cup 1..Depth]
          /\ \A d \in Clients \ {c} : phase'[d] = phase[d] /\ terminal'[d] = terminal[d]
      BY <1>3 DEF InitDirectories, net, RemoteInv, Types, ProcessTypes, Sessions
    <2>2. SessionSound(c)'
      BY <2>1 DEF Sessions, SessionSound
    <2> QED
      BY <2>1, <2>2, Bystanders
  <1> QED
    BY <1>1, <1>2, <1>3

\* Only the responses change.
LEMMA ServerSeats ==
  ASSUME RemoteInv, Sessions, UNCHANGED mine,
         \A c \in Clients : \/ reply'[c] \in {reply[c], NoReply}
                            \/ phase[c] = "waiting"
  PROVE  Seated
  <1>1. UNCHANGED <<phase, terminal, backend>>
    BY DEF mine
  <1>2. ASSUME NEW c \in Clients
        PROVE  SessionSound(c)'
    BY <1>1 DEF Sessions, SessionSound
  <1> QED
    BY <1>1, <1>2 DEF Seated, Sessions

\* A response goes to a process that waits.
LEMMA ServeSeats ==
  ASSUME RemoteInv, Sessions, NEW i \in requests, Serve(i)
  PROVE  Seated
  <1>1. UNCHANGED mine
    BY DEF Serve
  <1>2. PICK response : Respond(i, response)
    BY Zenon DEF Serve
  <1>3. ASSUME NEW c \in Clients
        PROVE  reply'[c] = reply[c] \/ phase[c] = "waiting"
    BY <1>2 DEF Respond, RemoteInv, Types
  <1> QED
    BY <1>1, <1>3, ServerSeats

\* Every step leaves each process where what it has opened fits what it is doing.
LEMMA StepSeats ==
  ASSUME RemoteInv, SessionInv, [Next]_vars
  PROVE  Seated
  <1>0. Sessions
    BY DEF SessionInv
  <1>1. ASSUME NEW c \in Clients, NEW k \in Commands, Open(c, k.terminal, k.script)
        PROVE  Seated
    BY <1>0, <1>1, OpenSeats
  <1>2. ASSUME NEW c \in Clients,
               \/ CallLocal(c) \/ Negotiate(c) \/ Negotiated(c) \/ Send(c)
               \/ \E i \in 1..Depth : InitDirectories(c, i)
        PROVE  Seated
    BY <1>0, <1>2, ClientSeats
  <1>3. ASSUME NEW c \in Clients, NegotiationFails(c) \/ InitConfig(c) \/ Kill(c)
        PROVE  Seated
    BY <1>0, <1>3, ExitSeats DEF NegotiationFails, InitConfig, Kill
  <1>4. ASSUME NEW c \in Clients, LocalReturns(c) \/ Receive(c) \/ ConnectionBreaks(c)
        PROVE  Seated
    <2>1. phase[c] \in {"calling", "waiting"} /\ (Exit(c) \/ Advance(c))
      BY <1>4, Zenon DEF LocalReturns, Receive, ConnectionBreaks, Answered
    <2> QED
      BY <1>0, <2>1, ExitSeats, AdvanceSeats
  <1>5. ASSUME NEW i \in requests, Serve(i)
        PROVE  Seated
    BY <1>0, <1>5, ServeSeats
  <1>6. CASE Stop \/ StartServer \/ UNCHANGED vars
    <2>1. UNCHANGED mine /\ \A c \in Clients : reply'[c] \in {reply[c], NoReply}
      BY <1>6 DEF Stop, StartServer, vars, net
    <2> QED
      BY <1>0, <2>1, ServerSeats
  <1> QED
    BY <1>1, <1>2, <1>3, <1>4, <1>5, <1>6 DEF Next, ClientStep

\* The server changes when it is stopped or started, which is counted.
LEMMA StepCounts ==
  ASSUME SessionInv, [Next]_vars
  PROVE  /\ server' \in [up : BOOLEAN, build : Builds]
         /\ commands' \in Nat /\ restarts' \in Nat
         /\ \/ server' = server /\ restarts' = restarts
            \/ restarts' = restarts + 1
            \/ ~server.up /\ restarts' = restarts
  <1>0. server \in [up : BOOLEAN, build : Builds] /\ commands \in Nat /\ restarts \in Nat
    BY DEF SessionInv
  <1>1. ASSUME NEW c \in Clients,
               \/ \E k \in Commands : Open(c, k.terminal, k.script)
               \/ \E i \in 1..Depth : InitDirectories(c, i)
        PROVE  server' = server /\ restarts' = restarts /\ commands' = commands + 1
    BY <1>1 DEF Open, InitDirectories
  <1>2. ASSUME NEW c \in Clients, ClientStep(c) \/ ConnectionBreaks(c) \/ Kill(c)
        PROVE  server' = server /\ restarts' = restarts /\ commands' = commands
    BY <1>2 DEF ClientStep, CallLocal, LocalReturns, Negotiate, Negotiated, NegotiationFails,
                Send, Receive, InitConfig, ConnectionBreaks, Kill
  <1>3. ASSUME NEW i \in requests, Serve(i)
        PROVE  server' = server /\ restarts' = restarts /\ commands' = commands
    BY <1>3 DEF Serve
  <1>4. CASE Stop
    <2>1. server' = [server EXCEPT !.up = FALSE] /\ restarts' = restarts + 1 /\ commands' = commands
      BY <1>4 DEF Stop
    <2>2. server' \in [up : BOOLEAN, build : Builds]
      BY <1>0, <2>1
    <2> QED
      BY <1>0, <2>1, <2>2
  <1>5. CASE StartServer
    BY <1>0, <1>5 DEF StartServer
  <1>6. CASE UNCHANGED vars
    BY <1>0, <1>6 DEF vars
  <1> QED
    BY <1>0, <1>1, <1>2, <1>3, <1>4, <1>5, <1>6 DEF Next

\* A call keeps the graph it was made for.
LEMMA TargetsStay ==
  ASSUME RemoteInv, [Next]_vars, NEW i \in DOMAIN calls
  PROVE  i \in DOMAIN calls' /\ calls'[i].target = calls[i].target
  <1>1. [Promise!Next]_(Promise!vars)
    BY StepPromised
  <1>2. calls \in Seq(CallType)
    BY DEF RemoteInv, Types
  <1>3. ASSUME NEW c, NEW g, NEW r, Promise!Make(c, g, r)
        PROVE  i \in DOMAIN calls' /\ calls'[i] = calls[i]
    <2>1. calls' = Append(calls, Promise!NewCall(c, g, r))
      BY <1>3 DEF Promise!Make
    <2> QED
      BY <1>2, <2>1
  <1>4. ASSUME NEW j \in DOMAIN calls, Promise!Run(j) \/ Promise!Tell(j) \/ Promise!RunAndTell(j)
        PROVE  i \in DOMAIN calls' /\ calls'[i].target = calls[i].target
    <2>1. CASE Promise!Run(j)
      BY <1>2, <1>4, <2>1 DEF Promise!Run, Promise!CallsAfter
    <2>2. CASE Promise!Tell(j)
      BY <1>2, <1>4, <2>2 DEF Promise!Tell
    <2>3. CASE Promise!RunAndTell(j)
      <3> DEFINE after == Promise!CallsAfter(j)
      <3>1. PICK a : calls' = [after EXCEPT ![j].answer = a]
        BY <2>3 DEF Promise!RunAndTell
      <3>2. DOMAIN after = DOMAIN calls /\ after[i].target = calls[i].target
        BY <1>2, <1>4 DEF Promise!CallsAfter
      <3> HIDE DEF after
      <3> QED
        BY <3>1, <3>2
    <2> QED
      BY <1>4, <2>1, <2>2, <2>3
  <1> QED
    BY <1>1, <1>3, <1>4 DEF Promise!Next, Promise!vars

\* Nobody calls the server that was deployed before it was asked for its versions.
LEMMA StepUncalled ==
  ASSUME RemoteInv, SessionInv, [Next]_vars
  PROVE  Uncalled'
  <1> SUFFICES ASSUME restarts' = 0
               PROVE  /\ server'.up
                      /\ ~Compatible(server'.build) =>
                           /\ \A c \in Clients : backend'[c].kind # "remote"
                           /\ \A i \in DOMAIN calls' : calls'[i].target[1] = "local"
    BY DEF Uncalled, Compatible
  <1>1. restarts = 0 /\ server' = server /\ server.up
    BY StepCounts DEF SessionInv, Uncalled
  <1> SUFFICES ASSUME ~Compatible(server.build)
               PROVE  /\ \A c \in Clients : backend'[c].kind # "remote"
                      /\ \A i \in DOMAIN calls' : calls'[i].target[1] = "local"
    BY <1>1
  <1>2. /\ \A c \in Clients : backend[c].kind # "remote"
        /\ \A i \in DOMAIN calls : calls[i].target[1] = "local"
    BY <1>1 DEF SessionInv, Uncalled
  <1>3. \A c \in Clients : backend'[c].kind # "remote"
    BY <1>2, StepSeats DEF Seated
  <1>4. calls \in Seq(CallType)
    BY DEF RemoteInv, Types
  <1>5. ASSUME NEW i \in DOMAIN calls'
        PROVE  calls'[i].target[1] = "local"
    <2>1. CASE i \in DOMAIN calls
      BY <1>2, <2>1, TargetsStay
    <2>2. CASE i \notin DOMAIN calls
      <3>1. PICK c \in Clients : CallLocal(c) \/ Send(c)
        BY <2>2, NewCalls
      <3>2. backend[c].kind = "local" /\ Make(c)
        BY <1>2, <3>1 DEF CallLocal, Send
      <3>3. backend[c].target[1] = "local"
        BY <3>2 DEF SessionInv, Sessions, SessionSound
      <3> DEFINE new == Promise!NewCall(c, backend[c].target, Head(script[c]))
      <3>4. calls' = Append(calls, new) /\ new.target = backend[c].target
        BY <3>2 DEF Make, Promise!NewCall
      <3> HIDE DEF new
      <3>5. calls'[i] = new
        BY <1>4, <2>2, <3>4
      <3> QED
        BY <3>3, <3>4, <3>5
    <2> QED
      BY <2>1, <2>2
  <1> QED
    BY <1>3, <1>5

LEMMA SessionInvariant == Spec => []SessionInv
  <1>1. Init => SessionInv
    <2> SUFFICES ASSUME Init
                 PROVE  SessionInv
      OBVIOUS
    <2>1. Sessions
      BY DEF Init, Sessions, SessionSound, NoBackend, NoReply
    <2>2. server \in [up : {TRUE}, build : Builds] /\ calls = <<>> /\ commands = 0 /\ restarts = 0
      BY DEF Init
    <2>3. \A c \in Clients : backend[c].kind = "none"
      BY DEF Init, NoBackend
    <2>4. server.up /\ server \in [up : BOOLEAN, build : Builds]
      BY <2>2
    <2>5. Uncalled
      <3>1. DOMAIN calls = {}
        BY <2>2
      <3> QED
        BY <2>3, <2>4, <3>1 DEF Uncalled
    <2> QED
      BY <2>1, <2>2, <2>4, <2>5 DEF SessionInv
  <1>2. RemoteInv /\ SessionInv /\ [Next]_vars => SessionInv'
    <2> SUFFICES ASSUME RemoteInv, SessionInv, [Next]_vars
                 PROVE  SessionInv'
      OBVIOUS
    <2>1. Sessions'
      BY StepSeats DEF Seated
    <2> QED
      BY <2>1, StepCounts, StepUncalled DEF SessionInv
  <1> QED
    BY <1>1, <1>2, RemoteInvariant, PTL DEF Spec

\* Every state is one the code can be in: what a process has opened fits what it
\* is doing, and only a process that waits has a response on its way.
THEOREM SessionsWellTyped == Spec => []TypeOK
  <1>1. RemoteInv /\ SessionInv => TypeOK
    <2> SUFFICES ASSUME RemoteInv, SessionInv
                 PROVE  TypeOK
      OBVIOUS
    <2>1. ASSUME NEW c \in Clients
          PROVE  /\ backend[c].kind \in {"none", "local", "pending", "remote"}
                 /\ backend[c].kind = "none" <=> phase[c] \in {"off", "init"}
                 /\ backend[c].kind \in {"local", "pending", "remote"} =>
                      backend[c].target \in Targets /\ terminal[c] \in Terminals
                 /\ phase[c] = "calling" => backend[c].kind = "local"
                 /\ phase[c] = "negotiating" => backend[c].kind = "pending"
                 /\ phase[c] = "waiting" => backend[c].kind = "remote"
                 /\ reply[c] # NoReply => phase[c] = "waiting"
      BY DEF RemoteInv, Types, ProcessTypes, SessionInv, Sessions, SessionSound
    <2> QED
      BY <2>1 DEF TypeOK, RemoteInv, Types, ProcessTypes, SessionInv
  <1> QED
    BY <1>1, RemoteInvariant, SessionInvariant, PTL

\* A server that does not offer the version is asked for /meta and nothing else.
THEOREM OldServersAreUncalled == Spec => []OldServersUncalled
  <1>1. SessionInv => OldServersUncalled
    BY DEF SessionInv, Uncalled, Compatible, OldServersUncalled
  <1> QED
    BY <1>1, SessionInvariant, PTL

----------------------------------------------------------------------------
(* A workspace is one. *)

\* Passing directories that hold nothing does not change what is found upwards.
LEMMA FoundFurtherUp ==
  ASSUME NEW start \in 1..Depth, NEW i \in start..Depth, NEW have \in SUBSET (1..Depth),
         \A j \in start..(i - 1) : j \notin have
  PROVE  FindUpwards(start, have) = FindUpwards(i, have)
  <1>0. Depth \in Nat
    BY WorkspaceAssumption
  <1>1. ASSUME NEW k \in have
        PROVE  (k >= start /\ \A j \in start..(k - 1) : j \notin have)
               <=> (k >= i /\ \A j \in i..(k - 1) : j \notin have)
    <2>0. k \in 1..Depth /\ k \in Int /\ i \in Int /\ start \in Int /\ start <= i
      BY <1>0
    <2>1. ASSUME k >= start, \A j \in start..(k - 1) : j \notin have
          PROVE  k >= i /\ \A j \in i..(k - 1) : j \notin have
      <3>1. ~(k < i)
        BY <2>0, <2>1
      <3> QED
        BY <2>0, <2>1, <3>1
    <2>2. ASSUME k >= i, \A j \in i..(k - 1) : j \notin have
          PROVE  k >= start /\ \A j \in start..(k - 1) : j \notin have
      BY <2>0, <2>2
    <2> QED
      BY <2>1, <2>2
  <1> QED
    BY <1>1 DEF FindUpwards

\* Commands started in a directory, and below it in directories that hold nothing,
\* work on the same graph, whatever the tree; except the commands for which there
\* is no workspace at all.
THEOREM WorkspaceIsOne == Spec => []OneWorkspace
  <1>1. RemoteInv => OneWorkspace
    <2> SUFFICES ASSUME RemoteInv, NEW t \in {k.terminal : k \in Commands}, NEW i \in t.start..Depth,
                        ~Homeless(tree, t),
                        \A j \in t.start..(i - 1) : tree[j].toml = Unset /\ ~tree[j].dot
                 PROVE  Selection(tree, t) = Selection(tree, [t EXCEPT !.start = i])
      BY DEF OneWorkspace
    <2> DEFINE u    == [t EXCEPT !.start = i]
               Toml == {j \in 1..Depth : tree[j].toml # Unset}
               Dot  == {j \in 1..Depth : tree[j].dot}
    <2>1. t \in Terminals /\ Depth \in Nat
      BY RemoteAssumption, WorkspaceAssumption
    <2>2. t.start \in 1..Depth
      BY <2>1 DEF Terminals
    <2>3. /\ u.start = i /\ u.home = t.home /\ u.xdg = t.xdg /\ u.remote = t.remote
          /\ u.graph = t.graph /\ u.database = t.database /\ u.local = t.local
      BY <2>1 DEF Terminals
    <2>4. FindUpwards(t.start, Toml) = FindUpwards(i, Toml)
      BY <2>2, FoundFurtherUp
    <2>5. FindUpwards(t.start, Dot) = FindUpwards(i, Dot)
      BY <2>2, FoundFurtherUp
    <2> HIDE DEF u
    <2>8. ConfigFile(tree, t) = ConfigFile(tree, u) /\ LocalRoot(tree, t) = LocalRoot(tree, u)
      BY <2>3, <2>4, <2>5, Zenon DEF ConfigFile, LocalRoot
    <2>9. t.home \/ t.xdg \/ ConfigFile(tree, t) # {} \/ LocalRoot(tree, t) # {}
      BY DEF Homeless
    <2>6. ResolveFrom(tree, t) = ResolveFrom(tree, u)
      <3> DEFINE files == ConfigFile(tree, t)
                 roots == LocalRoot(tree, t)
      <3>1. CASE t.home
        BY <2>3, <3>1 DEF ResolveFrom
      <3>2. CASE ~t.home /\ files # {}
        BY <2>3, <2>8, <3>2 DEF ResolveFrom
      <3>3. CASE ~t.home /\ files = {} /\ roots # {}
        BY <2>3, <2>8, <3>3 DEF ResolveFrom
      <3>4. CASE ~t.home /\ files = {} /\ roots = {} /\ t.xdg
        BY <2>3, <2>8, <3>4 DEF ResolveFrom
      <3> QED
        BY <2>9, <3>1, <3>2, <3>3, <3>4
    <2>7. Selection(tree, t) = Selection(tree, u)
      BY <2>3, <2>6, Zenon DEF Selection, OpensRemote, RemoteOf, GraphOf, FileOf
    <2> QED
      BY <2>7 DEF u
  <1> QED
    BY <1>1, RemoteInvariant, PTL
=============================================================================
