------------------------- MODULE MCActuatorControl --------------------------
(* The clients are alike: only their number matters. *)
EXTENDS ActuatorControl, TLC

ClientSymmetry == Permutations(Clients)
=============================================================================
