----------------------------- MODULE MCRolladen -----------------------------
EXTENDS Rolladen

CONSTANTS mqtt, web

\* 7.5 s up, 6 s down; a careless calibration enters 5 s for both.
MCLaufzeit == [up |-> 75, down |-> 60]
MCKalibrierungen == {[up |-> 0, down |-> 50]}
ASSUME MasseDerAnlage == Massstab
=============================================================================
