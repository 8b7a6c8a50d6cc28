----------------------------- MODULE MCServing -----------------------------
(* Serving on small instances. *)
EXTENDS Serving
=============================================================================
