------------------------------ MODULE TaskDocs ------------------------------
(***************************************************************************)
(* What the help texts and docs/usage.md say of the task commands and the  *)
(* commands do not do.  Each definition is checked by a run that is        *)
(* expected to refute it.                                                  *)
(***************************************************************************)
EXTENDS TaskCommands

ChildrenOf(d, e) == {n \in Tasks(d) : <<n, e, "part_of">> \in d.rel}

\* "Mark an all-DONE epic as closed": at the call by which a `close` marks the
\* epic, its tasks are all DONE.  They were when each of them was read.
ClosesAllDoneEpics ==
    [][\A w \in Workers :
         cmd[w].name = "close" /\ step[w] = "calls" /\ script[w] # <<>>
         => LET e == Norm[cmd[w].epic]
            IN  (db'.truth[e]["status"] = "DONE" /\ db.truth[e]["status"] # "DONE"
                   /\ Head(script[w]) = SetTruthCall(cmd[w].epic, "status", "DONE"))
                => \A n \in ChildrenOf(db, e) : StatusOf(db, n) = "DONE"]_vars

\* "Task status moves through READY_TO_DISPATCH -> DISPATCHED -> ...": nothing
\* but a command told to set a status takes a dispatched task back.  A second
\* plan of the same epic, which checked before the first one wrote, does.
DispatchedStaysDispatched ==
    [][\A n \in Names :
         (StatusOf(db, n) = Dispatched /\ StatusOf(db', n) = Ready)
         => \E w \in Workers : cmd[w].name \in {"update", "sync"}]_vars

\* "cannot close <epic>: every child task must be DONE": a command alone on the
\* graph that refuses with these words leaves an epic one of whose tasks is not
\* DONE.  The parent of a nested epic counts as its child, and so does the epic
\* itself when the command line does not spell it in its stored form.
RefusedForOpenChildren ==
    [][\A w \in Workers :
         (step[w] # "idle" /\ verdict'[w] = "open_children")
         => \E n \in ChildrenOf(db, Norm[cmd[w].epic]) : StatusOf(db, n) # "DONE"]_vars
=============================================================================
