---------------------------- MODULE MCLiveBooks ----------------------------
(* Two runs of two agents, a book with one place and a ledger with one line, *)
(* and a watcher that may ask once an hour.                                  *)
EXTENDS LiveBooks, TLC

RunSymmetry == Permutations(RunIds)
=============================================================================
