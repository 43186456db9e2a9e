---------------------------- MODULE StoreHistory ----------------------------
(***************************************************************************)
(* SqliteStore with a history variable: since when each finished task has  *)
(* been visible as finished (0 for the others).  Nothing in the store      *)
(* reads it.                                                               *)
(***************************************************************************)
EXTENDS SqliteStore

VARIABLE finishedSince

hvars == <<vars, finishedSince>>

HInit ==
    /\ Init
    /\ finishedSince = [n \in Names |-> IF Finished(db, n) THEN db.activity[n] ELSE 0]

Remember ==
    finishedSince' = [n \in Names |-> CASE ~Finished(db', n) -> 0
                                        [] Finished(db, n)   -> finishedSince[n]
                                        [] OTHER             -> now]

HNext == Next /\ Remember

HSpec == HInit /\ [][HNext]_hvars

----------------------------------------------------------------------------

VisibleFor(n, days) == Finished(db, n) /\ finishedSince[n] + days < now

\* Deletion is the second step of two: the retention sweep deletes only tasks
\* that have been in the file as finished for the whole retention window, and
\* an applied purge only tasks finished for the days it names.  In particular
\* a task is never abandoned and deleted by one sweep, nor finished by one
\* process and deleted by another's sweep a moment later.
TwoStepLifecycle ==
    [][\A n \in Live(db) \ Live(db') : \A c \in Callers :
         /\ pc[c] = "retain" /\ pc'[c] # "retain" => VisibleFor(n, RetentionDays)
         /\ pc[c] = "exec" /\ pc'[c] # "exec" /\ req[c].op = "purge"
              => \E i \in {req[c].items[j] : j \in DOMAIN req[c].items} :
                   i.apply /\ VisibleFor(n, i.days)]_hvars
=============================================================================
