---------------------------- MODULE Schalterstand ----------------------------
(***************************************************************************)
(* What the operating-mode switches of the heating (for instance "guests") *)
(* promise: a switch changes its position only by an order that somebody   *)
(* gave for exactly this switch, at most once per order.  Reconfiguring    *)
(* adds and removes switches and never turns one that stays.               *)
(***************************************************************************)
CONSTANTS Ids, Plaetze, Kein

VARIABLES
    stand,    \* the existing switches and their positions
    auftrag   \* orders on their way, one per place, or Kein

vars == <<stand, auftrag>>

Init ==
    /\ stand \in UNION {[S -> BOOLEAN] : S \in SUBSET Ids}
    /\ auftrag = [i \in Plaetze |-> Kein]

Bestellen(i, s, an) ==
    /\ auftrag[i] = Kein
    /\ auftrag' = [auftrag EXCEPT ![i] = [s |-> s, an |-> an]]
    /\ UNCHANGED stand

\* An order for a switch that is not there has no effect.
Ausfuehren(i) ==
    /\ auftrag[i] # Kein
    /\ LET a == auftrag[i]
       IN  stand' = [s \in DOMAIN stand |-> IF s = a.s THEN a.an ELSE stand[s]]
    /\ auftrag' = [auftrag EXCEPT ![i] = Kein]

Verlieren(i) ==
    /\ auftrag' = [auftrag EXCEPT ![i] = Kein]
    /\ UNCHANGED stand

Einrichten ==
    /\ \E S \in SUBSET Ids : stand' \in [S -> BOOLEAN]
    /\ \A s \in DOMAIN stand \cap DOMAIN stand' : stand'[s] = stand[s]
    /\ UNCHANGED auftrag

Next ==
    \/ \E i \in Plaetze, s \in Ids, an \in BOOLEAN : Bestellen(i, s, an)
    \/ \E i \in Plaetze : Ausfuehren(i) \/ Verlieren(i)
    \/ Einrichten

Spec == Init /\ [][Next]_vars
=============================================================================
