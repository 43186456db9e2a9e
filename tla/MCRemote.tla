------------------------------ MODULE MCRemote ------------------------------
(***************************************************************************)
(* A small instance of RemoteSession for TLC: a directory in a workspace   *)
(* whose asobi.toml names a server, and two tasks to claim.                *)
(***************************************************************************)
EXTENDS RemoteSession, StoreCalls, SequencesExt, TLC

CONSTANTS task, next, gone,     \* stored names
          abandonNote, toA,     \* observation texts
          c1, c2                \* processes

MCNames        == {task, next, gone}
MCNameRank     == task :> 1 @@ next :> 2 @@ gone :> 3
MCNorm         == [n \in MCNames |-> n]
MCAgents       == {"a"}
MCValues       == TaskStatuses \cup TerminalStatuses \cup MCAgents
MCDispatchNote == "a" :> toA

Request(op, item) == [op |-> op, items |-> <<item>>]

Finish(n) == Request("update", [name |-> n, notes |-> <<>>, status |-> "DONE", limit |-> 0])

ClaimThenFinish == <<Request("claim_next", [agent |-> "a"]), Finish(task)>>
FinishGone      == <<Finish(gone)>>
ResetAll        == <<Request("reset", [all |-> TRUE])>>
PurgeAll        == <<Request("purge", [days |-> 0, apply |-> TRUE])>>

Config(remote) == [remote |-> remote, graph |-> Unset, data |-> Unset]
Bare           == [toml |-> Unset, dot |-> FALSE]

\* The outer directory is a workspace with a remote, or one with a file that
\* cannot be read, or none
MCTrees == {<<Bare, [toml |-> Config("server"), dot |-> FALSE]>>,
            <<Bare, [toml |-> Broken, dot |-> TRUE]>>,
            <<Bare, Bare>>}

Plain == [start |-> 1, home |-> FALSE, xdg |-> TRUE, remote |-> Unset, graph |-> Unset,
          database |-> FALSE, local |-> FALSE]

Command(t, s) == [terminal |-> t, script |-> s]

MCCommands == {Command(Plain, ClaimThenFinish), Command(Plain, FinishGone), Command(Plain, ResetAll),
               Command([Plain EXCEPT !.local = TRUE], PurgeAll),
               Command([Plain EXCEPT !.xdg = FALSE], PurgeAll),
               Command([Plain EXCEPT !.remote = "nowhere"], FinishGone),
               Command([Plain EXCEPT !.graph = "Bad_Name"], FinishGone)}

Build(meta, versions) == [asobi |-> TRUE, meta |-> meta, versions |-> versions]

\* This version, one before /meta, a later one, and no Asobi at all
MCBuilds == {Build(TRUE, {3}), Build(FALSE, {3}), Build(TRUE, {4}),
             [asobi |-> FALSE, meta |-> FALSE, versions |-> {}]}

NoTruths == [status |-> Null, claimed_by |-> Null]

\* Two tasks, ready
Planned ==
    LET tasks == {task, next}
    IN  [EmptyDatabase EXCEPT
           !.type     = [n \in MCNames |-> IF n \in tasks THEN "task" ELSE Null],
           !.activity = [n \in MCNames |-> 0],
           !.truth    = [n \in MCNames |-> IF n \in tasks THEN [NoTruths EXCEPT !.status = Ready]
                                           ELSE NoTruths],
           !.truthFts = {<<n, "status", Ready>> : n \in tasks}]

After(d) == {RequestOutcome(d, r, 0).graph : r \in Requests}

\* All that calls may make of it, numbered: a graph is its number
Reachable ==
    LET f[n \in 0..6] == IF n = 0 THEN {Planned} ELSE UNION {{d} \cup After(d) : d \in f[n - 1]}
    IN  FoldSet(LAMBDA d, s : Append(s, d), <<>>, f[6])

Number(d) == CHOOSE i \in DOMAIN Reachable : Reachable[i] = d

MCHoldings == DOMAIN Reachable
MCGraphs   == {Number(Planned)}

EffectTable ==
    [i \in MCHoldings |-> [r \in Requests |->
        LET o == RequestOutcome(Reachable[i], r, 0)
        IN  [graph |-> Number(o.graph),
             answer |-> IF o.answer \in Refusals THEN o.answer.kind ELSE "ok"]]]

MCEffect(i, r) == EffectTable[i][r]
=============================================================================
