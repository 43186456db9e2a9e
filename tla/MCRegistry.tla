----------------------------- MODULE MCRegistry -----------------------------
(***************************************************************************)
(* A small instance of GraphRegistry for TLC: a graph that is new or       *)
(* current, one of an older Asobi, and a name that is not valid.           *)
(***************************************************************************)
EXTENDS GraphRegistry

Current == [header |-> TRUE, version |-> 0, vacuum |-> TRUE, wal |-> TRUE, schema |-> TRUE]
Older   == [header |-> TRUE, version |-> 8, vacuum |-> FALSE, wal |-> FALSE, schema |-> FALSE]

MCInitialFiles ==
    {[g \in Graphs |-> CASE g = "notes" -> new [] g = "old" -> Older [] OTHER -> Absent]
       : new \in {Absent, Current}}
=============================================================================
