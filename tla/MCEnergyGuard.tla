--------------------------- MODULE MCEnergyGuard ---------------------------
(* Small instances of EnergyGuard for TLC. *)
EXTENDS EnergyGuard, TLC

Symmetrie == Permutations(Keys)
=============================================================================
