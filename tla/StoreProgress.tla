--------------------------- MODULE StoreProgress ---------------------------
(***************************************************************************)
(* SqliteStore under the fairness its runtime gives it.                    *)
(***************************************************************************)
EXTENDS SqliteStore

\* What a call does between its start and its answer, failures included
Progress(c) ==
    \/ SweepExpiredOnce(c)
    \/ AbandonIdleTasks(c)
    \/ DeleteFinishedTasks(c)
    \/ SweepFails(c)
    \/ BeginImmediate(c)
    \/ ExecuteItem(c)
    \/ TransactionFails(c)
    \/ Commit(c)
    \/ Vacuum(c)

\* A future that can move is polled; the busy timeout ends every wait for the
\* lock, with an error if not with the lock
PolledToTheEnd == \A c \in Callers : WF_vars(Progress(c))

\* The background task wakes every hour, and its sweep is not defeated (busy
\* file, dead process) every single time
SweepsRecur ==
    \A c \in Sweepers :
      /\ WF_vars(\E r \in Requests : Call(c, r))
      /\ SF_vars(AbandonIdleTasks(c))
      /\ SF_vars(DeleteFinishedTasks(c))

TimePasses == WF_vars(Tick)

FairSpec == Spec /\ PolledToTheEnd /\ SweepsRecur /\ TimePasses

----------------------------------------------------------------------------

\* No call waits for ever: not on the sweep it owes, not on another writer's
\* lock, not on a failure of either.
CallsEnd == \A c \in Callers : pc[c] # "idle" ~> pc[c] = "idle"

\* No finished task piles up: on a server, one that nobody touches for the
\* retention window is deleted.
FinishedTasksGo ==
    \A n \in Names :
      (n \in PurgeCandidates(db, RetentionDays, now))
        ~> (n \notin PurgeCandidates(db, RetentionDays, now))

\* No idle task stays open: one without an open child that nobody touches is
\* abandoned once its window has passed.
IdleTasksEnd ==
    \A n \in Names :
      (n \in IdleTasks(db, AbandonDays, now)) ~> (n \notin IdleTasks(db, AbandonDays, now))
=============================================================================
