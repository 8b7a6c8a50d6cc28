--------------------------- MODULE MCSharedBudget ---------------------------
(* SharedBudget on small instances. *)
EXTENDS SharedBudget
=============================================================================
