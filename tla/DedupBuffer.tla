---------------------------- MODULE DedupBuffer ----------------------------
(***************************************************************************)
(* The dedup buffer of the cascade (app/cascade.py): a deque of            *)
(* (fingerprint, received_at) entries, oldest at the front.  Telegrams are *)
(* not reordered here: entries stand in processing order, and only the     *)
(* front is ever examined for expiry.                                      *)
(***************************************************************************)
EXTENDS Naturals, Sequences, FiniteSets

CONSTANTS
    Window,    \* dedup_window_ms
    DedupMax   \* maxlen of the deque

ASSUME DedupAssumption == Window \in Nat /\ DedupMax \in Nat \ {0}

Eintrag(fp, ts) == [fp |-> fp, ts |-> ts]

\* Mutant: an entry exactly one window old is popped as well.
OhneAbgelaufeneGrenze(es, jetzt) ==
    LET alt == {i \in 1..Len(es) : \A j \in 1..i : es[j].ts + Window <= jetzt}
    IN  SubSeq(es, Cardinality(alt) + 1, Len(es))

\* Mutant: nothing is ever popped.
NichtsAbgelaufen(es, jetzt) == es

\* Entries are popped from the front while they are older than the window.
OhneAbgelaufene(es, jetzt) ==
    LET alt == {i \in 1..Len(es) : \A j \in 1..i : es[j].ts + Window < jetzt}
    IN  SubSeq(es, Cardinality(alt) + 1, Len(es))

Bekannt(es, fp) == \E i \in 1..Len(es) : es[i].fp = fp

\* A deque with maxlen loses its oldest entry.
Registriert(es, e) ==
    IF Len(es) < DedupMax THEN Append(es, e) ELSE Append(Tail(es), e)

IstDuplikat(es, fp, ts) == Bekannt(OhneAbgelaufene(es, ts), fp)

NachPruefung(es, fp, ts) ==
    LET rest == OhneAbgelaufene(es, ts)
    IN  IF Bekannt(rest, fp) THEN rest ELSE Registriert(rest, Eintrag(fp, ts))
=============================================================================
