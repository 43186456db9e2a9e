---------------------------- MODULE TaskHistory ----------------------------
(***************************************************************************)
(* TaskCommands with a history variable: of each running `close`, the      *)
(* tasks of its epic that have been open ever since it started.  Nothing   *)
(* in the commands reads it.                                               *)
(***************************************************************************)
EXTENDS TaskCommands

VARIABLE stillOpen

hvars == <<vars, stillOpen>>

OpenTasks(d, e) ==
    {n \in Tasks(d) : n # e /\ <<n, e, "part_of">> \in d.rel /\ StatusOf(d, n) # "DONE"}

HInit == Init /\ stillOpen = [w \in Workers |-> {}]

Remember ==
    stillOpen' = [w \in Workers |->
        IF cmd'[w].name # "close" THEN {}
        ELSE LET open == OpenTasks(db', Norm[cmd'[w].epic])
             IN  IF step[w] = "idle" THEN open ELSE stillOpen[w] \cap open]

HNext == Next /\ Remember

HSpec == HInit /\ [][HNext]_hvars

----------------------------------------------------------------------------

\* An epic is never closed over a task that was open all along: when a `close`
\* starts to write, every task that was on the epic's board has been DONE, or
\* off the board, at some moment since the command started.  (Its read is many
\* queries, its decision later than each of them, and its writes later still:
\* that the tasks are DONE together, or still are, is not promised.)
CloseJustified ==
    \A w \in Workers :
      step[w] = "calls" /\ cmd[w].name = "close" => stillOpen[w] = {}
=============================================================================
