--------------------------- MODULE MCSessionTurns ---------------------------
(* SessionTurns on a small instance.  No symmetry: a wait that must end is *)
(* one of its properties.                                                  *)
EXTENDS SessionTurns, TLC

=============================================================================
