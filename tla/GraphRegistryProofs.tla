------------------------ MODULE GraphRegistryProofs ------------------------
(***************************************************************************)
(* One store for each graph, complete graphs in the registry, files of     *)
(* other versions left alone, new files that can shrink and sweeps that    *)
(* reach every graph, for any graphs, requests and local processes. The    *)
(* argument: the lock is held from the look into the registry to the       *)
(* insertion, so the graph being opened has no store; no step gives a file *)
(* a version, so an opener that has read version 0, or found no file,      *)
(* never meets another; and only a file of another version ever goes away. *)
(***************************************************************************)
EXTENDS GraphRegistry, TLAPS

\* What an opener has learned of its file is still so.
Sound(p) ==
    LET f == file[graph[p]]
    IN  /\ pc[p] \in {"check", "connect"} => f = Absent \/ f.version = 0
        /\ pc[p] \in {"header", "migrate"} => f # Absent /\ f.version = 0
        /\ pc[p] = "migrate" => f.header

\* The graph that is being opened under the lock has no store.
Excluded == \A p \in Served : pc[p] \in Opening => stores[graph[p]] = 0

RegistryInv ==
    /\ TypeOK /\ Excluded /\ OneStore /\ StoresComplete
    /\ \A p \in Openers : Sound(p)

\* What any step may do to a file: create it without a byte, complete it, or
\* move one of another version aside.
FileStep(g) ==
    \/ file'[g] = file[g]
    \/ file[g] = Absent /\ file'[g] = NoBytes
    \/ /\ file[g] # Absent /\ file[g].version = 0
       /\ file'[g] # Absent /\ file'[g].version = 0
       /\ file[g].header => file'[g].header
       /\ file[g].schema => file'[g].schema
    \/ file[g] # Absent /\ file[g].version # 0 /\ file'[g] = Absent

\* The invariant holds at the start.
LEMMA InitInv == Init => RegistryInv
  <1> SUFFICES ASSUME Init
               PROVE  RegistryInv
    OBVIOUS
  <1>1. file \in [Graphs -> Files \cup {Absent}]
    BY RegistryAssumption DEF Init
  <1>2. TypeOK
    BY <1>1, RegistryAssumption DEF Init, TypeOK, Steps, Opening, Openers, Served
  <1>3. Excluded /\ OneStore /\ StoresComplete
    BY DEF Init, Excluded, OneStore, StoresComplete, Opening, Openers, Served
  <1>4. \A p \in Openers : Sound(p)
    BY DEF Init, Sound
  <1> QED
    BY <1>2, <1>3, <1>4 DEF RegistryInv

\* An opener's graph is one of the graphs.
LEMMA GraphOfOpener ==
  ASSUME TypeOK, NEW p \in Openers, pc[p] \notin {"idle", "list", "directory", "next"}
  PROVE  graph[p] \in ValidGraphs /\ graph[p] \in Graphs
  BY RegistryAssumption DEF TypeOK

\* Every step is a FileStep for every graph.
LEMMA FilesStep ==
  ASSUME RegistryInv, [Next]_vars
  PROVE  (\A g \in Graphs : FileStep(g)) /\ file' \in [Graphs -> Files \cup {Absent}]
  <1> USE DEF RegistryInv
  <1>1. TypeOK /\ file \in [Graphs -> Files \cup {Absent}]
    BY DEF TypeOK
  <1>2. ASSUME NEW p \in Openers, Connect(p)
        PROVE  (\A g \in Graphs : FileStep(g)) /\ file' \in [Graphs -> Files \cup {Absent}]
    <2>1. graph[p] \in Graphs
      BY <1>1, <1>2, GraphOfOpener DEF Connect
    <2>2. NoBytes \in Files
      BY DEF NoBytes, Files
    <2> QED
      BY <1>1, <1>2, <2>1, <2>2 DEF Connect, FileStep
  <1>3. ASSUME NEW p \in Openers, WriteHeader(p)
        PROVE  (\A g \in Graphs : FileStep(g)) /\ file' \in [Graphs -> Files \cup {Absent}]
    <2> DEFINE h == graph[p]
    <2>1. h \in Graphs /\ file[h] # Absent /\ file[h] \in Files /\ file[h].version = 0
      BY <1>1, <1>3, GraphOfOpener DEF WriteHeader, Sound
    <2>2. file' = [file EXCEPT ![h] = [file[h] EXCEPT !.header = TRUE, !.wal = TRUE,
                       !.vacuum = file[h].vacuum \/ (~file[h].header /\ fresh[p])]]
      BY <1>3, <1>1, <2>1 DEF WriteHeader, Files
    <2>3. fresh[p] \in BOOLEAN
      BY <1>1 DEF TypeOK
    <2>4. file'[h] \in Files /\ file'[h].version = 0 /\ file'[h].header
          /\ file'[h].schema = file[h].schema
      BY <1>1, <2>1, <2>2, <2>3 DEF Files
    <2>5. file'[h] # Absent
      BY <2>4, RegistryAssumption
    <2>6. \A g \in Graphs \ {h} : file'[g] = file[g]
      BY <1>1, <2>2
    <2>7. file' \in [Graphs -> Files \cup {Absent}]
      BY <1>1, <2>1, <2>2, <2>4
    <2> QED
      BY <2>1, <2>4, <2>5, <2>6, <2>7 DEF FileStep
  <1>4. ASSUME NEW p \in Openers, Migrate(p)
        PROVE  (\A g \in Graphs : FileStep(g)) /\ file' \in [Graphs -> Files \cup {Absent}]
    <2> DEFINE h == graph[p]
    <2>1. h \in Graphs /\ file[h] # Absent /\ file[h] \in Files /\ file[h].version = 0
      BY <1>1, <1>4, GraphOfOpener DEF Migrate, Sound
    <2>2. file' = [file EXCEPT ![h] = [file[h] EXCEPT !.schema = TRUE]]
      BY <1>4 DEF Migrate
    <2>3. file'[h] \in Files /\ file'[h].version = 0 /\ file'[h].schema
          /\ file'[h].header = file[h].header
      BY <1>1, <2>1, <2>2 DEF Files
    <2>4. file'[h] # Absent
      BY <2>3, RegistryAssumption
    <2>5. \A g \in Graphs \ {h} : file'[g] = file[g]
      BY <1>1, <2>2
    <2>6. file' \in [Graphs -> Files \cup {Absent}]
      BY <1>1, <2>1, <2>2, <2>3
    <2> QED
      BY <2>1, <2>3, <2>4, <2>5, <2>6 DEF FileStep
  <1>5. ASSUME NEW h \in Graphs, MoveAside(h)
        PROVE  (\A g \in Graphs : FileStep(g)) /\ file' \in [Graphs -> Files \cup {Absent}]
    BY <1>1, <1>5 DEF MoveAside, FileStep
  <1>6. ASSUME UNCHANGED file
        PROVE  (\A g \in Graphs : FileStep(g)) /\ file' \in [Graphs -> Files \cup {Absent}]
    BY <1>1, <1>6 DEF FileStep
  <1> QED
    BY <1>2, <1>3, <1>4, <1>5, <1>6
    DEF Next, vars, OpenStep, Probe, ReadVersion, Check, Fail, Lock, Ask, Abandon, BeginSweep,
        SweepStep, ListStores, ListDirectory, Visit, EndSweep, SweepStore, OpenLocally, KillLocal,
        KillServer

\* Leaving open_at, with a store or without, keeps the types.
LEMMA FinishType ==
  ASSUME TypeOK, NEW p \in Openers, NEW ok \in BOOLEAN, Finish(p, ok),
         pc[p] \in Opening \cup {"lock"}
  PROVE  /\ holder' \in Served \cup {Nobody}
         /\ pc' \in [Openers -> Steps]
         /\ graph' \in [Openers -> Graphs \cup {Absent}]
         /\ \A q \in Openers : pc'[q] \notin {"idle", "list", "directory", "next"}
                                => graph'[q] \in ValidGraphs
         /\ \A q \in Served : pc'[q] \in Opening <=> holder' = q
         /\ {fresh', created'} \subseteq [Openers -> BOOLEAN]
         /\ owed' \subseteq ValidGraphs
         /\ pc'[p] \notin Opening
         /\ \A q \in Openers \ {p} : pc'[q] = pc[q] /\ graph'[q] = graph[q]
  <1> DEFINE next == CASE p # Sweeper       -> "idle"
                       [] p = Sweeper /\ ok -> "sweep"
                       [] OTHER             -> "next"
  <1>1. next \in {"idle", "sweep", "next"} /\ (next = "sweep" => p = Sweeper)
    OBVIOUS
  <1>2. pc' = [pc EXCEPT ![p] = next]
    BY DEF Finish, Goto
  <1> HIDE DEF next
  <1>3. /\ pc' \in [Openers -> Steps] /\ pc'[p] = next
        /\ \A q \in Openers \ {p} : pc'[q] = pc[q]
    BY <1>1, <1>2 DEF TypeOK, Steps
  <1>4. /\ graph' \in [Openers -> Graphs \cup {Absent}]
        /\ \A q \in Openers \ {p} : graph'[q] = graph[q]
        /\ p = Sweeper => graph'[p] = graph[p]
    BY DEF Finish, TypeOK
  <1>5. graph[p] \in ValidGraphs
    BY DEF TypeOK, Opening
  <1>6. \A q \in Openers : pc'[q] \notin {"idle", "list", "directory", "next"} => graph'[q] \in ValidGraphs
    BY <1>1, <1>3, <1>4, <1>5 DEF TypeOK
  <1>7. pc'[p] \notin Opening
    BY <1>1, <1>3 DEF Opening
  <1>8. holder' = IF holder = p THEN Nobody ELSE holder
    BY DEF Finish, Leave
  <1>9. \A q \in Served : pc'[q] \in Opening <=> holder' = q
    BY <1>3, <1>7, <1>8, RegistryAssumption DEF TypeOK, Openers
  <1>10. {fresh', created'} \subseteq [Openers -> BOOLEAN]
    BY DEF Finish, TypeOK
  <1>11. owed' \subseteq ValidGraphs
    BY DEF Finish, TypeOK
  <1> QED
    BY <1>3, <1>4, <1>6, <1>7, <1>8, <1>9, <1>10, <1>11 DEF TypeOK

\* An opener that goes on within open_at, keeping its graph and the lock.
LEMMA GoOnType ==
  ASSUME TypeOK, NEW p \in Openers, NEW step \in Opening, Goto(p, step), pc[p] \in Opening,
         UNCHANGED <<graph, holder>>
  PROVE  /\ pc' \in [Openers -> Steps]
         /\ \A q \in Openers : pc'[q] \notin {"idle", "list", "directory", "next"}
                                => graph'[q] \in ValidGraphs
         /\ \A q \in Served : pc'[q] \in Opening <=> holder' = q
         /\ pc'[p] = step
         /\ \A q \in Openers \ {p} : pc'[q] = pc[q]
  <1>1. /\ pc' \in [Openers -> Steps] /\ pc'[p] = step
        /\ \A q \in Openers \ {p} : pc'[q] = pc[q]
    BY DEF Goto, TypeOK, Steps, Opening
  <1>2. graph[p] \in ValidGraphs
    BY DEF TypeOK, Opening
  <1> QED
    BY <1>1, <1>2 DEF TypeOK, Openers, Opening

\* Every step keeps the types.
LEMMA NextType == RegistryInv /\ [Next]_vars => TypeOK'
  <1> SUFFICES ASSUME RegistryInv, [Next]_vars
               PROVE  TypeOK'
    OBVIOUS
  <1>0. TypeOK
    BY DEF RegistryInv
  <1>f. file' \in [Graphs -> Files \cup {Absent}]
    BY <1>0, FilesStep DEF TypeOK
  <1>1. ASSUME NEW p \in Openers, Probe(p)
        PROVE  TypeOK'
    <2>1. PICK step \in {"check", "version"} : Goto(p, step)
      BY <1>1 DEF Probe
    <2>2. step \in Opening /\ pc[p] \in Opening /\ UNCHANGED <<graph, holder>>
      BY <1>1, <2>1 DEF Probe, Opening, registry
    <2> QED
      BY <1>0, <1>1, <1>f, <2>1, <2>2, GoOnType DEF Probe, TypeOK, registry, sweepVars
  <1>2. ASSUME NEW p \in Openers, ReadVersion(p)
        PROVE  TypeOK'
    <2>1. CASE Goto(p, "connect") /\ UNCHANGED <<registry, graph, fresh, created, owed>>
      <3>1. "connect" \in Opening /\ pc[p] \in Opening /\ UNCHANGED <<graph, holder>>
        BY <1>2, <2>1 DEF ReadVersion, Opening, registry
      <3> QED
        BY <1>0, <1>2, <1>f, <2>1, <3>1, GoOnType DEF ReadVersion, TypeOK, registry
    <2>2. CASE Refuse(p) /\ UNCHANGED stores
      <3>1. pc[p] \in Opening
        BY <1>2 DEF ReadVersion, Opening
      <3> QED
        BY <1>0, <1>2, <1>f, <2>2, <3>1, FinishType DEF ReadVersion, Refuse, TypeOK
    <2> QED
      BY <1>2, <2>1, <2>2 DEF ReadVersion
  <1>3. ASSUME NEW p \in Openers, Check(p)
        PROVE  TypeOK'
    <2>1. "connect" \in Opening /\ pc[p] \in Opening /\ UNCHANGED <<graph, holder>>
      BY <1>3 DEF Check, Opening, registry
    <2>2. fresh' \in [Openers -> BOOLEAN]
      BY <1>0, <1>3 DEF Check, TypeOK
    <2> QED
      BY <1>0, <1>3, <1>f, <2>1, <2>2, GoOnType DEF Check, TypeOK, registry, sweepVars
  <1>4. ASSUME NEW p \in Openers, Connect(p)
        PROVE  TypeOK'
    <2>1. "header" \in Opening /\ pc[p] \in Opening /\ UNCHANGED <<graph, holder>>
      BY <1>4 DEF Connect, Opening, registry
    <2>2. created' \in [Openers -> BOOLEAN]
      BY <1>0, <1>4 DEF Connect, TypeOK
    <2> QED
      BY <1>0, <1>4, <1>f, <2>1, <2>2, GoOnType DEF Connect, TypeOK, registry, sweepVars
  <1>5. ASSUME NEW p \in Openers, WriteHeader(p)
        PROVE  TypeOK'
    <2>1. "migrate" \in Opening /\ pc[p] \in Opening /\ UNCHANGED <<graph, holder>>
      BY <1>5 DEF WriteHeader, Opening, registry
    <2> QED
      BY <1>0, <1>5, <1>f, <2>1, GoOnType DEF WriteHeader, TypeOK, registry, sweepVars
  <1>6. ASSUME NEW p \in Openers, Migrate(p)
        PROVE  TypeOK'
    <2>1. pc[p] \in Opening /\ graph[p] \in Graphs
      BY <1>0, <1>6, GraphOfOpener DEF Migrate, Opening
    <2>2. stores' \in [Graphs -> Nat]
      BY <1>0, <1>6, <2>1 DEF Migrate, TypeOK
    <2> QED
      BY <1>0, <1>6, <1>f, <2>1, <2>2, FinishType DEF Migrate, TypeOK
  <1>7. ASSUME NEW p \in Openers, Fail(p)
        PROVE  TypeOK'
    <2>1. pc[p] \in Opening
      BY <1>7 DEF Fail, Opening
    <2> QED
      BY <1>0, <1>7, <1>f, <2>1, FinishType DEF Fail, Refuse, TypeOK
  <1>8. ASSUME NEW p \in Served, Lock(p)
        PROVE  TypeOK'
    <2>0. p \in Openers /\ pc[p] = "lock" /\ holder = Nobody /\ UNCHANGED <<file, stores, todo>>
      BY <1>8 DEF Lock, Openers
    <2>1. CASE Finish(p, TRUE)
      BY <1>0, <2>0, <2>1, FinishType DEF TypeOK
    <2>2. CASE /\ holder' = p /\ Goto(p, "probe")
               /\ UNCHANGED <<graph, fresh, created, owed>>
      <3>1. graph[p] \in ValidGraphs
        BY <1>0, <2>0 DEF TypeOK
      <3>2. /\ pc' \in [Openers -> Steps] /\ pc'[p] = "probe"
            /\ \A q \in Openers \ {p} : pc'[q] = pc[q]
        BY <1>0, <2>0, <2>2 DEF Goto, TypeOK, Steps
      <3>3. \A q \in Served : pc'[q] \in Opening <=> holder' = q
        BY <1>0, <2>0, <2>2, <3>2, RegistryAssumption DEF TypeOK, Openers, Opening
      <3>4. \A q \in Openers : pc'[q] \notin {"idle", "list", "directory", "next"}
                                => graph'[q] \in ValidGraphs
        BY <1>0, <2>2, <3>1, <3>2 DEF TypeOK
      <3> QED
        BY <1>0, <2>0, <2>2, <3>2, <3>3, <3>4 DEF TypeOK
    <2> QED
      BY <1>8, <2>1, <2>2 DEF Lock
  <1>9. ASSUME NEW r \in Requests, NEW g \in Graphs, Ask(r, g)
        PROVE  TypeOK'
    <2>1. CASE g \in ValidGraphs /\ Wait(r, g)
      <3>1. r \in Openers /\ r \in Served
        BY DEF Openers, Served
      <3>2. /\ pc' \in [Openers -> Steps] /\ pc'[r] = "lock" /\ graph'[r] = g
            /\ \A q \in Openers \ {r} : pc'[q] = pc[q] /\ graph'[q] = graph[q]
            /\ graph' \in [Openers -> Graphs \cup {Absent}]
        BY <1>0, <2>1, <3>1 DEF Wait, Goto, TypeOK, Steps
      <3>3. pc[r] = "idle"
        BY <1>9 DEF Ask
      <3>4. \A q \in Served : pc'[q] \in Opening <=> holder' = q
        BY <1>0, <1>9, <3>1, <3>2, <3>3 DEF Ask, TypeOK, Opening, registry, Openers
      <3> QED
        BY <1>0, <1>9, <2>1, <3>1, <3>2, <3>4 DEF Ask, TypeOK, registry, sweepVars
    <2>2. CASE g \notin ValidGraphs
      BY <1>0, <1>9, <2>2 DEF Ask, TypeOK, registry, sweepVars
    <2> QED
      BY <1>9, <2>1, <2>2 DEF Ask
  <1>10. ASSUME NEW r \in Openers, Goto(r, "idle"), Leave(r), graph' = [graph EXCEPT ![r] = Absent],
                fresh' = [fresh EXCEPT ![r] = FALSE], created' = [created EXCEPT ![r] = FALSE],
                UNCHANGED <<file, stores, sweepVars>>
         PROVE  TypeOK'
    <2>1. /\ pc' \in [Openers -> Steps] /\ pc'[r] = "idle"
          /\ \A q \in Openers \ {r} : pc'[q] = pc[q] /\ graph'[q] = graph[q]
          /\ graph' \in [Openers -> Graphs \cup {Absent}]
          /\ {fresh', created'} \subseteq [Openers -> BOOLEAN]
      BY <1>0, <1>10 DEF Goto, TypeOK, Steps
    <2>2. \A q \in Served : pc'[q] \in Opening <=> holder' = q
      BY <1>0, <1>10, <2>1, RegistryAssumption DEF Leave, TypeOK, Opening, Openers
    <2>3. holder' \in Served \cup {Nobody}
      BY <1>0, <1>10 DEF Leave, TypeOK
    <2> QED
      BY <1>0, <1>10, <2>1, <2>2, <2>3 DEF TypeOK, sweepVars
  <1>11. ASSUME NEW step \in {"list", "directory", "next", "idle"}, Goto(Sweeper, step),
                pc[Sweeper] \notin Opening,
                todo' \cup owed' \subseteq ValidGraphs,
                graph' \in {graph, [graph EXCEPT ![Sweeper] = Absent]},
                UNCHANGED <<file, registry, fresh, created>>
         PROVE  TypeOK'
    <2>1. Sweeper \in Openers /\ Sweeper \in Served
      BY DEF Openers, Served
    <2>2. /\ pc' \in [Openers -> Steps] /\ pc'[Sweeper] = step
          /\ \A q \in Openers \ {Sweeper} : pc'[q] = pc[q] /\ graph'[q] = graph[q]
          /\ graph' \in [Openers -> Graphs \cup {Absent}]
      BY <1>0, <1>11, <2>1 DEF Goto, TypeOK, Steps
    <2>3. \A q \in Served : pc'[q] \in Opening <=> holder' = q
      BY <1>0, <1>11, <2>1, <2>2 DEF TypeOK, Opening, registry, Openers
    <2> QED
      BY <1>0, <1>11, <2>1, <2>2, <2>3 DEF TypeOK, registry
  <1>12. CASE BeginSweep \/ ListStores \/ ListDirectory \/ EndSweep \/ SweepStore
    <2>1. todo \cup owed \subseteq ValidGraphs /\ OnDisk \subseteq ValidGraphs /\ Keys \subseteq ValidGraphs
      BY <1>0 DEF TypeOK, OnDisk, Keys
    <2>2. CASE BeginSweep
      BY <1>11, <2>1, <2>2 DEF BeginSweep, Opening
    <2>3. CASE ListStores
      BY <1>11, <2>1, <2>3 DEF ListStores, Opening
    <2>4. CASE ListDirectory
      BY <1>11, <2>1, <2>4 DEF ListDirectory, Opening
    <2>5. CASE EndSweep
      BY <1>11, <2>1, <2>5 DEF EndSweep, Opening
    <2>6. CASE SweepStore
      BY <1>11, <2>1, <2>6 DEF SweepStore, Opening
    <2> QED
      BY <1>12, <2>2, <2>3, <2>4, <2>5, <2>6
  <1>13. CASE Visit
    <2>1. PICK g \in todo : todo' = todo \ {g} /\ Wait(Sweeper, g)
      BY <1>13 DEF Visit
    <2>2. Sweeper \in Openers /\ Sweeper \in Served /\ g \in ValidGraphs /\ g \in Graphs
      BY <1>0, RegistryAssumption DEF Openers, Served, TypeOK
    <2>3. /\ pc' \in [Openers -> Steps] /\ pc'[Sweeper] = "lock" /\ graph'[Sweeper] = g
          /\ \A q \in Openers \ {Sweeper} : pc'[q] = pc[q] /\ graph'[q] = graph[q]
          /\ graph' \in [Openers -> Graphs \cup {Absent}]
      BY <1>0, <2>1, <2>2 DEF Wait, Goto, TypeOK, Steps
    <2>4. \A q \in Served : pc'[q] \in Opening <=> holder' = q
      BY <1>0, <1>13, <2>2, <2>3 DEF Visit, TypeOK, Opening, registry, Openers
    <2> QED
      BY <1>0, <1>13, <2>1, <2>2, <2>3, <2>4 DEF Visit, TypeOK, registry
  <1>14. ASSUME NEW p \in Locals, NEW g \in SharedGraphs, OpenLocally(p, g)
         PROVE  TypeOK'
    <2>1. p \in Openers /\ p \notin Served /\ g \in ValidGraphs /\ g \in Graphs
      BY RegistryAssumption DEF Openers
    <2>2. /\ pc' \in [Openers -> Steps] /\ pc'[p] = "probe" /\ graph'[p] = g
          /\ \A q \in Openers \ {p} : pc'[q] = pc[q] /\ graph'[q] = graph[q]
          /\ graph' \in [Openers -> Graphs \cup {Absent}]
      BY <1>0, <1>14, <2>1 DEF OpenLocally, Goto, TypeOK, Steps
    <2> QED
      BY <1>0, <1>14, <2>1, <2>2 DEF OpenLocally, TypeOK, registry, sweepVars, Openers
  <1>15. ASSUME NEW g \in Graphs, MoveAside(g)
         PROVE  TypeOK'
    BY <1>0, <1>15, <1>f DEF MoveAside, TypeOK, registry, openVars
  <1>16. CASE KillServer
    <2>1. /\ pc' \in [Openers -> Steps]
          /\ \A q \in Openers : IF q \in Served THEN pc'[q] = "idle"
                                ELSE pc'[q] = pc[q] /\ graph'[q] = graph[q]
          /\ graph' \in [Openers -> Graphs \cup {Absent}]
          /\ {fresh', created'} \subseteq [Openers -> BOOLEAN]
      BY <1>0, <1>16 DEF KillServer, TypeOK, Steps
    <2>2. \A q \in Served : pc'[q] \in Opening <=> holder' = q
      BY <1>16, <2>1, RegistryAssumption DEF KillServer, Opening, Openers
    <2> QED
      BY <1>0, <1>16, <2>1, <2>2 DEF KillServer, TypeOK
  <1>17. CASE UNCHANGED vars
    BY <1>0, <1>17 DEF vars, registry, openVars, sweepVars, TypeOK
  <1>18. ASSUME NEW r \in Requests, Abandon(r)
         PROVE  TypeOK'
    BY <1>10, <1>18 DEF Abandon, Openers, Served
  <1>19. ASSUME NEW p \in Locals, KillLocal(p)
         PROVE  TypeOK'
    <2>1. p \in Openers /\ holder # p
      BY <1>0, RegistryAssumption DEF Openers, Served, TypeOK
    <2>2. Leave(p)
      BY <1>19, <2>1 DEF KillLocal, Leave, registry
    <2> QED
      BY <1>10, <1>19, <2>1, <2>2 DEF KillLocal, registry
  <1> QED
    BY <1>1, <1>2, <1>3, <1>4, <1>5, <1>6, <1>7, <1>8, <1>9, <1>12, <1>13, <1>14, <1>15, <1>16,
       <1>17, <1>18, <1>19 DEF Next, OpenStep, SweepStep

\* What an opener has learned is kept by the steps of the others.
LEMMA SoundKept ==
  ASSUME RegistryInv, [Next]_vars, NEW q \in Openers,
         \/ pc'[q] = pc[q] /\ graph'[q] = graph[q]
         \/ pc'[q] \notin {"check", "connect", "header", "migrate"}
  PROVE  Sound(q)'
  <1>1. CASE pc'[q] \notin {"check", "connect", "header", "migrate"}
    BY <1>1 DEF Sound
  <1>2. CASE pc'[q] = pc[q] /\ graph'[q] = graph[q] /\ pc[q] \in {"check", "connect", "header", "migrate"}
    <2>1. graph[q] \in Graphs
      BY <1>2, GraphOfOpener DEF RegistryInv
    <2>2. FileStep(graph[q]) /\ Sound(q)
      BY <2>1, FilesStep DEF RegistryInv
    <2>3. NoBytes.version = 0
      BY DEF NoBytes
    <2> QED
      BY <1>2, <2>2, <2>3 DEF FileStep, Sound
  <1> QED
    BY <1>1, <1>2

\* A step of p within open_at, or out of it, moves no one else.
LEMMA OpenStepLocal ==
  ASSUME TypeOK, NEW p \in Openers, OpenStep(p)
  PROVE  \A q \in Openers \ {p} : pc'[q] = pc[q] /\ graph'[q] = graph[q]
  <1>1. ASSUME NEW ok \in BOOLEAN, Finish(p, ok)
        PROVE  \A q \in Openers \ {p} : pc'[q] = pc[q] /\ graph'[q] = graph[q]
    BY <1>1 DEF Finish, Goto, TypeOK
  <1>2. ASSUME NEW step, Goto(p, step), UNCHANGED graph
        PROVE  \A q \in Openers \ {p} : pc'[q] = pc[q] /\ graph'[q] = graph[q]
    BY <1>2 DEF Goto, TypeOK
  <1>3. CASE Probe(p) \/ Check(p) \/ Connect(p) \/ WriteHeader(p)
    BY <1>2, <1>3 DEF Probe, Check, Connect, WriteHeader
  <1>4. CASE ReadVersion(p) \/ Migrate(p) \/ Fail(p)
    BY <1>1, <1>2, <1>4 DEF ReadVersion, Migrate, Fail, Refuse
  <1> QED
    BY <1>3, <1>4 DEF OpenStep

\* What every opener has learned stays so.
LEMMA NextSound == RegistryInv /\ [Next]_vars => \A q \in Openers : Sound(q)'
  <1> SUFFICES ASSUME RegistryInv, [Next]_vars, NEW q \in Openers
               PROVE  Sound(q)'
    OBVIOUS
  <1>0. TypeOK /\ Sound(q)
    BY DEF RegistryInv
  <1>1. ASSUME NEW p \in Openers, OpenStep(p), p # q
        PROVE  Sound(q)'
    BY <1>0, <1>1, OpenStepLocal, SoundKept
  <1>2. CASE Probe(q)
    BY <1>0, <1>2 DEF Probe, Goto, TypeOK, Sound
  <1>3. CASE ReadVersion(q)
    <2>1. CASE Goto(q, "connect") /\ file[graph[q]] # Absent /\ Readable(file[graph[q]])
      BY <1>0, <1>3, <2>1 DEF ReadVersion, Goto, Readable, TypeOK, Sound
    <2>2. CASE Refuse(q)
      <3>1. pc'[q] \in {"idle", "sweep", "next"}
        BY <1>0, <2>2 DEF Refuse, Finish, Goto, TypeOK
      <3> QED
        BY <3>1, SoundKept
    <2> QED
      BY <1>3, <2>1, <2>2 DEF ReadVersion
  <1>4. CASE Check(q)
    BY <1>0, <1>4 DEF Check, Goto, TypeOK, Sound
  <1>5. CASE Connect(q)
    <2>1. graph[q] \in Graphs
      BY <1>0, <1>5, GraphOfOpener DEF Connect
    <2>2. NoBytes \in Files /\ NoBytes.version = 0
      BY DEF NoBytes, Files
    <2>3. file'[graph[q]] # Absent /\ file'[graph[q]].version = 0
      BY <1>0, <1>5, <2>1, <2>2, RegistryAssumption DEF Connect, TypeOK, Sound
    <2> QED
      BY <1>0, <1>5, <2>3 DEF Connect, Goto, TypeOK, Sound
  <1>6. CASE WriteHeader(q)
    <2> DEFINE h == graph[q]
    <2>1. h \in Graphs /\ file[h] # Absent /\ file[h] \in Files /\ file[h].version = 0
      BY <1>0, <1>6, GraphOfOpener DEF WriteHeader, Sound, TypeOK
    <2>2. file'[h] = [file[h] EXCEPT !.header = TRUE, !.wal = TRUE,
                       !.vacuum = file[h].vacuum \/ (~file[h].header /\ fresh[q])]
      BY <1>0, <1>6, <2>1 DEF WriteHeader, TypeOK, Files
    <2>3. fresh[q] \in BOOLEAN
      BY <1>0 DEF TypeOK
    <2>4. file'[h] \in Files /\ file'[h].version = 0 /\ file'[h].header
      BY <2>1, <2>2, <2>3 DEF Files
    <2>5. file'[h] # Absent
      BY <2>4, RegistryAssumption
    <2> QED
      BY <1>0, <1>6, <2>4, <2>5 DEF WriteHeader, Goto, TypeOK, Sound
  <1>7. CASE Migrate(q) \/ Fail(q)
    <2>1. pc'[q] \in {"idle", "sweep", "next"}
      BY <1>0, <1>7 DEF Migrate, Fail, Refuse, Finish, Goto, TypeOK
    <2> QED
      BY <2>1, SoundKept
  <1>8. ASSUME NEW p \in Served, Lock(p)
        PROVE  Sound(q)'
    <2>1. \/ pc'[q] = pc[q] /\ graph'[q] = graph[q]
          \/ pc'[q] \in {"idle", "sweep", "next", "probe"}
      BY <1>0, <1>8 DEF Lock, Finish, Goto, TypeOK, Openers
    <2> QED
      BY <2>1, SoundKept
  <1>9. CASE \/ \E r \in Requests : (\E g \in Graphs : Ask(r, g)) \/ Abandon(r)
             \/ BeginSweep \/ SweepStep
             \/ \E p \in Locals : (\E g \in SharedGraphs : OpenLocally(p, g)) \/ KillLocal(p)
             \/ \E g \in Graphs : MoveAside(g)
             \/ KillServer
             \/ UNCHANGED vars
    <2>1. \/ pc'[q] = pc[q] /\ graph'[q] = graph[q]
          \/ pc'[q] \in {"idle", "list", "directory", "next", "lock", "probe"}
      BY <1>0, <1>9 DEF Ask, Wait, Abandon, BeginSweep, SweepStep, ListStores, ListDirectory, Visit,
         EndSweep, SweepStore, OpenLocally, KillLocal, MoveAside, KillServer, Goto, TypeOK, vars, openVars
    <2> QED
      BY <2>1, SoundKept
  <1> QED
    BY <1>1, <1>2, <1>3, <1>4, <1>5, <1>6, <1>7, <1>8, <1>9 DEF Next, OpenStep

\* Steps that neither open a store nor begin to open one.
LEMMA ExcludedKept ==
  ASSUME RegistryInv, UNCHANGED stores,
         \A q \in Served : pc'[q] \in Opening => pc[q] \in Opening /\ graph'[q] = graph[q]
  PROVE  Excluded' /\ OneStore'
  BY DEF RegistryInv, Excluded, OneStore

\* Only the holder of the lock opens a store, of a graph that has none.
LEMMA NextExcluded == RegistryInv /\ [Next]_vars => Excluded' /\ OneStore'
  <1> SUFFICES ASSUME RegistryInv, [Next]_vars
               PROVE  Excluded' /\ OneStore'
    OBVIOUS
  <1>0. TypeOK /\ TypeOK' /\ Excluded /\ OneStore
    BY NextType DEF RegistryInv
  <1>1. ASSUME NEW p \in Openers, OpenStep(p), ~Migrate(p)
        PROVE  Excluded' /\ OneStore'
    <2>1. UNCHANGED stores
      BY <1>1 DEF OpenStep, Probe, ReadVersion, Check, Connect, WriteHeader, Fail, registry
    <2>2. \A q \in Openers \ {p} : pc'[q] = pc[q] /\ graph'[q] = graph[q]
      BY <1>0, <1>1, OpenStepLocal
    <2>3. pc[p] \in Opening
      BY <1>1 DEF OpenStep, Probe, ReadVersion, Check, Connect, WriteHeader, Fail, Opening
    <2>4. pc'[p] \in Opening => graph'[p] = graph[p]
      BY <1>0, <1>1 DEF OpenStep, Probe, ReadVersion, Check, Connect, WriteHeader, Fail, Refuse,
         Finish, Goto, TypeOK, Opening
    <2> QED
      BY <2>1, <2>2, <2>3, <2>4, ExcludedKept DEF Openers
  <1>2. ASSUME NEW p \in Openers, Migrate(p)
        PROVE  Excluded' /\ OneStore'
    <2>1. /\ pc[p] \in Opening /\ graph[p] \in Graphs
          /\ Finish(p, TRUE)
          /\ stores' = IF p \in Served THEN [stores EXCEPT ![graph[p]] = @ + 1] ELSE stores
      BY <1>0, <1>2, GraphOfOpener DEF Migrate, Opening
    <2>2. /\ \A q \in Served : pc'[q] \in Opening <=> holder' = q
          /\ pc'[p] \notin Opening
          /\ \A q \in Openers \ {p} : pc'[q] = pc[q] /\ graph'[q] = graph[q]
      BY <1>0, <2>1, FinishType
    <2>3. CASE p \in Served
      <3>1. holder = p /\ stores[graph[p]] = 0
        BY <1>0, <2>1, <2>3 DEF TypeOK, Excluded
      <3>2. \A q \in Served : pc'[q] \notin Opening
        BY <1>0, <2>2, <3>1 DEF TypeOK, Openers
      <3>3. OneStore'
        BY <1>0, <2>1, <2>3, <3>1 DEF OneStore, TypeOK
      <3> QED
        BY <3>2, <3>3 DEF Excluded
    <2>4. CASE p \notin Served
      BY <2>1, <2>2, <2>4, ExcludedKept DEF Openers
    <2> QED
      BY <2>3, <2>4
  <1>3. ASSUME NEW p \in Served, Lock(p)
        PROVE  Excluded' /\ OneStore'
    <2>1. /\ \A q \in Served \ {p} : pc'[q] = pc[q] /\ graph'[q] = graph[q]
          /\ UNCHANGED stores
      BY <1>0, <1>3 DEF Lock, Finish, Goto, TypeOK, Openers
    <2>2. pc'[p] \in Opening => stores[graph[p]] = 0 /\ graph'[p] = graph[p]
      BY <1>0, <1>3 DEF Lock, Finish, Goto, TypeOK, Openers, Opening
    <2> QED
      BY <1>0, <2>1, <2>2 DEF Excluded, OneStore
  <1>4. CASE \/ \E r \in Requests : (\E g \in Graphs : Ask(r, g)) \/ Abandon(r)
             \/ BeginSweep \/ SweepStep
             \/ \E p \in Locals : (\E g \in SharedGraphs : OpenLocally(p, g)) \/ KillLocal(p)
             \/ \E g \in Graphs : MoveAside(g)
             \/ UNCHANGED vars
    <2>1. UNCHANGED stores
      BY <1>4 DEF Ask, Abandon, BeginSweep, SweepStep, ListStores, ListDirectory, Visit, EndSweep,
         SweepStore, OpenLocally, KillLocal, MoveAside, vars, registry
    <2>2. ASSUME NEW q \in Served, pc'[q] \in Opening
          PROVE  pc[q] \in Opening /\ graph'[q] = graph[q]
      <3>1. q \in Openers /\ q \notin Locals
        BY RegistryAssumption DEF Openers
      <3> QED
        BY <1>0, <1>4, <2>2, <3>1 DEF Ask, Wait, Abandon, BeginSweep, SweepStep, ListStores,
           ListDirectory, Visit, EndSweep, SweepStore, OpenLocally, KillLocal, MoveAside, Goto,
           TypeOK, Opening, vars, openVars
    <2> QED
      BY <2>1, <2>2, ExcludedKept
  <1>5. CASE KillServer
    BY <1>5 DEF KillServer, Excluded, OneStore, Openers, Opening
  <1> QED
    BY <1>1, <1>2, <1>3, <1>4, <1>5 DEF Next

\* The registry has only complete graphs of this build.
LEMMA NextComplete == RegistryInv /\ [Next]_vars => StoresComplete'
  <1> SUFFICES ASSUME RegistryInv, [Next]_vars, NEW g \in Graphs, stores'[g] # 0
               PROVE  (file[g] # Absent /\ file[g].header /\ file[g].schema /\ file[g].version = 0)'
    BY DEF StoresComplete
  <1>0. TypeOK /\ StoresComplete /\ \A p \in Openers : Sound(p)
    BY DEF RegistryInv
  <1>1. FileStep(g)
    BY FilesStep
  <1>2. CASE stores[g] # 0
    BY <1>0, <1>1, <1>2 DEF StoresComplete, FileStep
  <1>3. CASE stores[g] = 0
    <2>1. PICK p \in Openers : Migrate(p) /\ graph[p] = g
      BY <1>0, <1>3 DEF Next, vars, registry, OpenStep, Probe, ReadVersion, Check, Connect, WriteHeader,
         Migrate, Fail, Lock, Ask, Abandon, BeginSweep, SweepStep, ListStores, ListDirectory, Visit,
         EndSweep, SweepStore, OpenLocally, KillLocal, MoveAside, KillServer, TypeOK
    <2>2. file[g] # Absent /\ file[g] \in Files /\ file[g].version = 0 /\ file[g].header
      BY <1>0, <2>1 DEF Migrate, Sound, TypeOK
    <2>3. file'[g] = [file[g] EXCEPT !.schema = TRUE]
      BY <1>0, <2>1 DEF Migrate, TypeOK
    <2>4. file'[g] \in Files /\ file'[g].version = 0 /\ file'[g].schema /\ file'[g].header
      BY <2>2, <2>3 DEF Files
    <2> QED
      BY <2>4, RegistryAssumption
  <1> QED
    BY <1>2, <1>3

\* The invariant holds in every state.
LEMMA SpecInv == Spec => []RegistryInv
  <1>1. RegistryInv /\ [Next]_vars => RegistryInv'
    BY NextType, NextSound, NextExcluded, NextComplete DEF RegistryInv
  <1> QED
    BY <1>1, InitInv, PTL DEF Spec

\* The types, for any graphs, requests and local processes: in particular the
\* lock is held by exactly the request or sweep that opens a file.
THEOREM RegistryTypes == Spec => []TypeOK
  BY SpecInv, PTL DEF RegistryInv

\* A server opens each graph once, whatever the order of requests and sweeps.
THEOREM GraphsOpenedOnce == Spec => []OneStore
  BY SpecInv, PTL DEF RegistryInv

\* A store that is given out works on a complete graph of this build.
THEOREM StoresAreComplete == Spec => []StoresComplete
  BY SpecInv, PTL DEF RegistryInv

\* A file of another version stays as it is until it is moved aside.
THEOREM OthersLeftAlone == Spec => OthersUntouched
  <1>1. RegistryInv /\ [Next]_vars =>
          [\A g \in Graphs : file[g] # Absent /\ file[g].version # 0 => file'[g] \in {file[g], Absent}]_vars
    BY FilesStep DEF FileStep
  <1> QED
    BY <1>1, SpecInv, PTL DEF OthersUntouched, Spec

----------------------------------------------------------------------------
(* New files. *)

\* An opener that is about to create the file asks for auto_vacuum, and so has one
\* that created it.
Asks(p) ==
    /\ pc[p] = "connect" /\ file[graph[p]] = Absent => fresh[p]
    /\ pc[p] = "header" /\ created[p] => fresh[p]

AsksInv == \A p \in Openers : Asks(p)

\* A file that an opener has found is still there when it connects.
LEMMA AsksKept ==
  ASSUME RegistryInv, AsksInv, [Next]_vars, NEW q \in Openers,
         \/ /\ pc'[q] = pc[q] /\ graph'[q] = graph[q]
            /\ fresh'[q] = fresh[q] /\ created'[q] = created[q]
         \/ pc'[q] \notin {"connect", "header"}
  PROVE  Asks(q)'
  <1>1. CASE pc'[q] \notin {"connect", "header"}
    BY <1>1 DEF Asks
  <1>2. CASE /\ pc'[q] = pc[q] /\ graph'[q] = graph[q]
             /\ fresh'[q] = fresh[q] /\ created'[q] = created[q]
             /\ pc[q] \in {"connect", "header"}
    <2>1. graph[q] \in Graphs
      BY <1>2, GraphOfOpener DEF RegistryInv
    <2>2. FileStep(graph[q]) /\ Sound(q) /\ Asks(q)
      BY <2>1, FilesStep DEF RegistryInv, AsksInv
    <2> QED
      BY <1>2, <2>2 DEF FileStep, Sound, Asks
  <1> QED
    BY <1>1, <1>2

\* The step of one opener leaves alone what the others have asked for.
LEMMA OthersKeep ==
  ASSUME TypeOK, NEW p \in Openers, NEW q \in Openers \ {p},
         \/ OpenStep(p) \/ Lock(p) \/ Abandon(p) \/ KillLocal(p)
         \/ \E g \in Graphs : Ask(p, g)
         \/ \E g \in SharedGraphs : OpenLocally(p, g)
  PROVE  /\ pc'[q] = pc[q] /\ graph'[q] = graph[q]
         /\ fresh'[q] = fresh[q] /\ created'[q] = created[q]
  <1>1. ASSUME NEW ok \in BOOLEAN, Finish(p, ok)
        PROVE  /\ pc'[q] = pc[q] /\ graph'[q] = graph[q]
               /\ fresh'[q] = fresh[q] /\ created'[q] = created[q]
    BY <1>1 DEF Finish, Goto, TypeOK
  <1>2. CASE Probe(p) \/ Check(p) \/ Connect(p) \/ WriteHeader(p)
    BY <1>2 DEF Probe, Check, Connect, WriteHeader, Goto, TypeOK
  <1>3. CASE ReadVersion(p) \/ Migrate(p) \/ Fail(p)
    BY <1>1, <1>3 DEF ReadVersion, Migrate, Fail, Refuse, Goto, TypeOK
  <1>4. CASE Lock(p)
    BY <1>1, <1>4 DEF Lock, Goto, TypeOK
  <1>5. CASE Abandon(p) \/ KillLocal(p)
    BY <1>5 DEF Abandon, KillLocal, Goto, TypeOK
  <1>6. CASE (\E g \in Graphs : Ask(p, g)) \/ (\E g \in SharedGraphs : OpenLocally(p, g))
    BY <1>6 DEF Ask, Wait, OpenLocally, Goto, TypeOK
  <1> QED
    BY <1>2, <1>3, <1>4, <1>5, <1>6 DEF OpenStep

LEMMA NextAsks == RegistryInv /\ AsksInv /\ [Next]_vars => AsksInv'
  <1> SUFFICES ASSUME RegistryInv, AsksInv, [Next]_vars, NEW q \in Openers
               PROVE  Asks(q)'
    BY DEF AsksInv
  <1>0. TypeOK /\ Sound(q) /\ Asks(q)
    BY DEF RegistryInv, AsksInv
  <1>1. ASSUME NEW p \in Openers, p # q,
               \/ OpenStep(p) \/ Lock(p) \/ Abandon(p) \/ KillLocal(p)
               \/ \E g \in Graphs : Ask(p, g)
               \/ \E g \in SharedGraphs : OpenLocally(p, g)
        PROVE  Asks(q)'
    BY <1>0, <1>1, OthersKeep, AsksKept
  <1>2. CASE Probe(q)
    BY <1>0, <1>2, AsksKept DEF Probe, Goto, TypeOK
  <1>3. CASE ReadVersion(q)
    <2>1. CASE Goto(q, "connect") /\ file[graph[q]] # Absent /\ graph' = graph
      <3>1. pc'[q] = "connect" /\ file' = file
        BY <1>0, <1>3, <2>1 DEF ReadVersion, Goto, TypeOK
      <3> QED
        BY <2>1, <3>1 DEF Asks
    <2>2. CASE Refuse(q)
      <3>1. pc'[q] \in {"idle", "sweep", "next"}
        BY <1>0, <2>2 DEF Refuse, Finish, Goto, TypeOK
      <3> QED
        BY <3>1, AsksKept
    <2> QED
      BY <1>3, <2>1, <2>2 DEF ReadVersion
  <1>4. CASE Check(q)
    BY <1>0, <1>4 DEF Check, Goto, TypeOK, Asks, registry
  <1>5. CASE Connect(q)
    BY <1>0, <1>5 DEF Connect, Goto, TypeOK, Asks
  <1>6. CASE WriteHeader(q)
    BY <1>0, <1>6, AsksKept DEF WriteHeader, Goto, TypeOK
  <1>7. CASE Migrate(q) \/ Fail(q)
    <2>1. pc'[q] \in {"idle", "sweep", "next"}
      BY <1>0, <1>7 DEF Migrate, Fail, Refuse, Finish, Goto, TypeOK
    <2> QED
      BY <2>1, AsksKept
  <1>8. CASE Lock(q)
    <2>1. pc'[q] \in {"idle", "sweep", "next", "probe"}
      BY <1>0, <1>8 DEF Lock, Finish, Goto, TypeOK
    <2> QED
      BY <2>1, AsksKept
  <1>9. CASE \/ Abandon(q) \/ KillLocal(q)
             \/ \E g \in Graphs : Ask(q, g)
             \/ \E g \in SharedGraphs : OpenLocally(q, g)
    <2>1. pc'[q] \in {"idle", "lock", "probe"}
      BY <1>0, <1>9 DEF Abandon, KillLocal, Ask, Wait, OpenLocally, Goto, TypeOK
    <2> QED
      BY <2>1, AsksKept
  <1>10. CASE \/ BeginSweep \/ SweepStep \/ KillServer \/ UNCHANGED vars
              \/ \E g \in Graphs : MoveAside(g)
    <2>1. \/ /\ pc'[q] = pc[q] /\ graph'[q] = graph[q]
             /\ fresh'[q] = fresh[q] /\ created'[q] = created[q]
          \/ pc'[q] \in {"idle", "list", "directory", "next", "lock"}
      BY <1>0, <1>10 DEF BeginSweep, SweepStep, ListStores, ListDirectory, Visit, Wait, EndSweep,
         SweepStore, KillServer, MoveAside, Goto, TypeOK, vars, openVars
    <2> QED
      BY <2>1, AsksKept
  <1> QED
    BY <1>1, <1>2, <1>3, <1>4, <1>5, <1>6, <1>7, <1>8, <1>9, <1>10 DEF Next, OpenStep, Openers, Served

LEMMA AsksInvariant == Spec => []AsksInv
  <1>1. Init => AsksInv
    BY DEF Init, AsksInv, Asks
  <1> QED
    BY <1>1, NextAsks, SpecInv, PTL DEF Spec

\* Who creates a file and writes its header as well makes it one that can shrink:
\* nobody else creates it after it was looked for without giving it a header.
THEOREM NewFilesCanShrink == Spec => NewFilesShrink
  <1> DEFINE Shrinks == \A p \in Openers : LET g == graph[p] IN
               (pc[p] = "header" /\ pc'[p] = "migrate" /\ ~file[g].header /\ created[p]) => file'[g].vacuum
  <1>1. RegistryInv /\ AsksInv /\ [Next]_vars => Shrinks
    <2> SUFFICES ASSUME RegistryInv, AsksInv, [Next]_vars, NEW p \in Openers,
                        pc[p] = "header", pc'[p] = "migrate", ~file[graph[p]].header, created[p]
                 PROVE  file'[graph[p]].vacuum
      OBVIOUS
    <2>0. TypeOK /\ fresh[p] /\ Sound(p)
      BY DEF RegistryInv, AsksInv, Asks
    <2>1. WriteHeader(p)
      <3>1. ASSUME NEW q \in Openers, q # p,
                   \/ OpenStep(q) \/ Lock(q) \/ Abandon(q) \/ KillLocal(q)
                   \/ \E g \in Graphs : Ask(q, g)
                   \/ \E g \in SharedGraphs : OpenLocally(q, g)
            PROVE  FALSE
        BY <2>0, <3>1, OthersKeep
      <3>2. ASSUME \/ Probe(p) \/ ReadVersion(p) \/ Check(p) \/ Connect(p) \/ Migrate(p)
                   \/ Lock(p)
            PROVE  FALSE
        BY <3>2 DEF Probe, ReadVersion, Check, Connect, Migrate, Lock
      <3>3. ASSUME Fail(p)
            PROVE  FALSE
        BY <2>0, <3>3 DEF Fail, Refuse, Finish, Goto, TypeOK
      <3>4. ASSUME \/ Abandon(p) \/ KillLocal(p)
                   \/ \E g \in Graphs : Ask(p, g)
                   \/ \E g \in SharedGraphs : OpenLocally(p, g)
            PROVE  FALSE
        BY <2>0, <3>4 DEF Abandon, KillLocal, Ask, Wait, OpenLocally, Goto, TypeOK
      <3>5. ASSUME \/ BeginSweep \/ SweepStep \/ KillServer \/ UNCHANGED vars
                   \/ \E g \in Graphs : MoveAside(g)
            PROVE  FALSE
        BY <2>0, <3>5 DEF BeginSweep, SweepStep, ListStores, ListDirectory, Visit, Wait, EndSweep,
           SweepStore, KillServer, MoveAside, Goto, TypeOK, vars, openVars
      <3> QED
        BY <3>1, <3>2, <3>3, <3>4, <3>5 DEF Next, OpenStep, Openers, Served
    <2>2. graph[p] \in Graphs /\ file[graph[p]] \in Files
      BY <2>0, GraphOfOpener DEF Sound, TypeOK
    <2>3. file'[graph[p]] = [file[graph[p]] EXCEPT !.header = TRUE, !.wal = TRUE,
                               !.vacuum = file[graph[p]].vacuum \/ (~file[graph[p]].header /\ fresh[p])]
      BY <2>0, <2>1, <2>2 DEF WriteHeader, TypeOK, Files
    <2> QED
      BY <2>0, <2>2, <2>3 DEF Files
  <1>2. RegistryInv /\ AsksInv /\ [Next]_vars => [Shrinks]_vars
    BY <1>1
  <1> QED
    BY <1>2, SpecInv, AsksInvariant, PTL DEF Spec, NewFilesShrink

----------------------------------------------------------------------------
(* The sweep. *)

\* A graph there was when the sweep began, which it has not tried and has not failed
\* to find, is still to be listed, or is on the list, or is the one being visited.
Swept ==
    /\ pc[Sweeper] = "idle" => owed = {}
    /\ pc[Sweeper] \in {"list", "directory"} => \A g \in owed : file[g] # Absent
    /\ pc[Sweeper] = "next" => owed \subseteq todo
    /\ pc[Sweeper] \notin {"idle", "list", "directory", "next"} => owed \subseteq todo \cup {graph[Sweeper]}

\* Files only go when they are moved aside.
LEMMA FilesRemain ==
  ASSUME RegistryInv, [Next]_vars, NEW g \in Graphs, file[g] # Absent, file'[g] = Absent
  PROVE  MoveAside(g)
  <1>0. TypeOK /\ \A p \in Openers : Sound(p)
    BY DEF RegistryInv
  <1>1. file[g].version # 0
    BY FilesStep DEF FileStep
  <1>2. ASSUME NEW p \in Openers, Connect(p) \/ WriteHeader(p) \/ Migrate(p)
        PROVE  file'[g] = file[g]
    <2>1. CASE Connect(p)
      BY <1>0, <2>1 DEF Connect, TypeOK
    <2>2. CASE WriteHeader(p) \/ Migrate(p)
      <3>1. file[graph[p]].version = 0
        BY <1>0, <2>2 DEF WriteHeader, Migrate, Sound
      <3> QED
        BY <1>0, <1>1, <2>2, <3>1 DEF WriteHeader, Migrate, TypeOK
    <2> QED
      BY <1>2, <2>1, <2>2
  <1>3. ASSUME NEW h \in Graphs, MoveAside(h), h # g
        PROVE  file'[g] = file[g]
    BY <1>0, <1>3 DEF MoveAside, TypeOK
  <1>4. ASSUME UNCHANGED file
        PROVE  FALSE
    BY <1>4
  <1> QED
    BY <1>2, <1>3, <1>4
    DEF Next, vars, OpenStep, Probe, ReadVersion, Check, Fail, Lock, Ask, Abandon, BeginSweep,
        SweepStep, ListStores, ListDirectory, Visit, EndSweep, SweepStore, OpenLocally, KillLocal,
        KillServer

LEMMA NextSwept == RegistryInv /\ Swept /\ [Next]_vars => Swept'
  <1> SUFFICES ASSUME RegistryInv, Swept, [Next]_vars
               PROVE  Swept'
    OBVIOUS
  <1>0. /\ TypeOK
        /\ Sweeper \in Openers /\ Sweeper \in Served /\ Sweeper \notin Requests /\ Sweeper \notin Locals
    BY RegistryAssumption DEF RegistryInv, Openers, Served
  <1>1. ASSUME NEW p \in Openers \ {Sweeper},
               \/ OpenStep(p) \/ Lock(p) \/ Abandon(p) \/ KillLocal(p)
               \/ \E g \in Graphs : Ask(p, g)
               \/ \E g \in SharedGraphs : OpenLocally(p, g)
        PROVE  Swept'
    <2>1. pc'[Sweeper] = pc[Sweeper] /\ graph'[Sweeper] = graph[Sweeper]
      BY <1>0, <1>1, OthersKeep
    <2>2. todo' = todo /\ owed' = owed
      BY <1>1 DEF OpenStep, Probe, ReadVersion, Check, Connect, WriteHeader, Migrate, Fail, Refuse,
         Finish, Lock, Abandon, KillLocal, Ask, OpenLocally, sweepVars
    <2>3. ASSUME NEW g \in owed, file[g] # Absent, file'[g] = Absent
          PROVE  FALSE
      <3>1. g \in Graphs
        BY <1>0, RegistryAssumption DEF TypeOK
      <3>2. MoveAside(g)
        BY <2>3, <3>1, FilesRemain
      <3> QED
        BY <2>2, <2>3, <3>2 DEF MoveAside
    <2> QED
      BY <2>1, <2>2, <2>3 DEF Swept
  <1>2. CASE OpenStep(Sweeper) \/ Lock(Sweeper)
    <2>1. todo' = todo /\ pc[Sweeper] \notin {"idle", "list", "directory", "next"}
      BY <1>2 DEF OpenStep, Probe, ReadVersion, Check, Connect, WriteHeader, Migrate, Fail, Refuse,
         Lock, sweepVars
    <2>2. owed \subseteq todo \cup {graph[Sweeper]}
      BY <2>1 DEF Swept
    <2>3. CASE Finish(Sweeper, TRUE)
      <3>1. pc'[Sweeper] = "sweep" /\ owed' = owed /\ graph'[Sweeper] = graph[Sweeper]
        BY <1>0, <2>3 DEF Finish, Goto, TypeOK
      <3> QED
        BY <2>1, <2>2, <3>1 DEF Swept
    <2>4. CASE Finish(Sweeper, FALSE)
      <3>1. pc'[Sweeper] = "next" /\ owed' = owed \ {graph[Sweeper]}
        BY <1>0, <2>4 DEF Finish, Goto, TypeOK
      <3> QED
        BY <2>1, <2>2, <3>1 DEF Swept
    <2>5. CASE ~Finish(Sweeper, TRUE) /\ ~Finish(Sweeper, FALSE)
      <3>1. UNCHANGED <<graph, owed>> /\ pc'[Sweeper] \in Opening
        BY <1>0, <1>2, <2>5 DEF OpenStep, Probe, ReadVersion, Check, Connect, WriteHeader, Migrate, Fail,
           Refuse, Lock, sweepVars, Goto, TypeOK, Opening
      <3> QED
        BY <2>1, <2>2, <3>1 DEF Swept, Opening
    <2> QED
      BY <2>3, <2>4, <2>5
  <1>3. CASE BeginSweep
    BY <1>0, <1>3 DEF BeginSweep, OnDisk, Goto, TypeOK, Swept
  <1>4. CASE ListStores
    BY <1>0, <1>4 DEF ListStores, Goto, TypeOK, Swept
  <1>5. CASE ListDirectory
    BY <1>0, <1>5 DEF ListDirectory, OnDisk, Goto, TypeOK, Swept
  <1>6. CASE Visit
    BY <1>0, <1>6 DEF Visit, Wait, Goto, TypeOK, Swept
  <1>7. CASE EndSweep
    BY <1>0, <1>7 DEF EndSweep, Goto, TypeOK, Swept
  <1>8. CASE SweepStore
    BY <1>0, <1>8 DEF SweepStore, Goto, TypeOK, Swept
  <1>9. ASSUME NEW g \in Graphs, MoveAside(g)
        PROVE  Swept'
    BY <1>0, <1>9 DEF MoveAside, openVars, TypeOK, Swept
  <1>10. CASE KillServer
    BY <1>0, <1>10 DEF KillServer, Swept
  <1>11. CASE UNCHANGED vars
    BY <1>11 DEF vars, openVars, sweepVars, Swept
  <1> QED
    BY <1>0, <1>1, <1>2, <1>3, <1>4, <1>5, <1>6, <1>7, <1>8, <1>9, <1>10, <1>11
    DEF Next, SweepStep, Openers, Served

\* A sweep that ends has tried every graph there was when it began, but those moved
\* aside and those that the reading of the directory passed over.
THEOREM SweepsReachAll == Spec => SweepReaches
  <1>1. Init => Swept
    BY DEF Init, Swept, Openers, Served
  <1>2. RegistryInv /\ Swept /\ [Next]_vars => [EndSweep => owed = {}]_vars
    BY DEF EndSweep, Swept
  <1> QED
    BY <1>1, <1>2, NextSwept, SpecInv, PTL DEF Spec, SweepReaches
=============================================================================
