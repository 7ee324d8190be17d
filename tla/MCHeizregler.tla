---------------------------- MODULE MCHeizregler ----------------------------
\* Small instances of the heating controller.
EXTENDS Heizregler, TLC

\* The setpoints of windows are interchangeable: the controller only compares
\* them for equality.  Used by the run that checks invariants only.
Symmetrie == Permutations(Sollwerte)

\* All but the actuators: no step and none of the two invariants reads them.
OhneAktor == <<welt, einst, test, buch, speicher, lauf, phase, historie>>
=============================================================================
