-------------------------- MODULE StoreRefinement --------------------------
(***************************************************************************)
(* SqliteStore implements AtomicStore.  The sweep a write owes, the        *)
(* transaction and its items are hidden in "pending"; a purge or a reset   *)
(* that has committed and is vacuuming is "applied"; an answer shows once  *)
(* the call is over.                                                       *)
(***************************************************************************)
EXTENDS SqliteStore, StoreCalls

Phase(c) == CASE pc[c] = "idle" -> "idle"
              [] pc[c] = "vacuum" -> "applied"
              [] OTHER -> "pending"

Promise == INSTANCE AtomicStore WITH
    phase <- [c \in Callers |-> Phase(c)],
    ask   <- req,
    reply <- [c \in Callers |-> IF pc[c] = "idle" THEN reply[c] ELSE NoAnswer]

\* Every call is atomic: all of its items or none, at one instant, whatever
\* runs beside it and wherever it fails (begin_write .. commit).
CallsAtomic == Promise!Spec
=============================================================================
