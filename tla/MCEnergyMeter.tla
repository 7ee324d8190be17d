--------------------------- MODULE MCEnergyMeter ---------------------------
(* Small instances of EnergyMeter for TLC. *)
EXTENDS EnergyMeter

CONSTANT Nebenzaehler  \* meters that report once and are not disturbed

MCMaxZaehler == [k \in Keys |-> IF k \in Nebenzaehler THEN 1 ELSE MaxWert - 1]
MCAusreisser == [k \in Keys |-> IF k \in Nebenzaehler THEN {} ELSE Wert]
=============================================================================
