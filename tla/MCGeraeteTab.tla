---------------------------- MODULE MCGeraeteTab ----------------------------
EXTENDS GeraeteTab, TLC

CONSTANTS g1, g2

\* A meter and an actuator with one sender; an actuator without one.
ZweiGeraete ==
    g1 :> (1 :> [sender |-> <<[id |-> 1, aktiv |-> TRUE]>>, eep |-> 1, invert |-> FALSE]
        @@ 2 :> [sender |-> <<>>, eep |-> 1, invert |-> FALSE])
 @@ g2 :> (1 :> [sender |-> <<>>, eep |-> 1, invert |-> FALSE])
=============================================================================
