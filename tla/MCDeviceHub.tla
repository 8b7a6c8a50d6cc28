---------------------------- MODULE MCDeviceHub ----------------------------
(* DeviceHub on a small instance: pushers are alike, and so are askers. *)
EXTENDS DeviceHub, TLC

Symmetry == Permutations(Pushers) \cup Permutations(Askers)
=============================================================================
