---------------------------- MODULE MCHeizungTab ----------------------------
(* A small instance of HeizungTab for TLC. *)
EXTENDS HeizungTab

MCAktorbasis == [k \in Kreise |-> 23]
MCZonen == <<[id |-> 1, basis |-> 23,
              raeume |-> <<[id |-> 1, kreis |-> CHOOSE k \in Kreise : TRUE,
                            basis |-> WieBereich]>>]>>
MCSchalter == <<[id |-> 1, an |-> FALSE]>>
=============================================================================
