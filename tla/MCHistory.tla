----------------------------- MODULE MCHistory -----------------------------
(***************************************************************************)
(* The instances of MCStore, with the history variable.                    *)
(***************************************************************************)
EXTENDS MCStore, StoreHistory
=============================================================================
