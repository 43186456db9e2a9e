--------------------------- MODULE MCTaskHistory ---------------------------
(***************************************************************************)
(* The instances of MCTasks, with the history variable.                    *)
(***************************************************************************)
EXTENDS MCTasks, TaskHistory
=============================================================================
