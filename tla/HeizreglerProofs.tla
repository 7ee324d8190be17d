-------------------------- MODULE HeizreglerProofs --------------------------
(***************************************************************************)
(* For any zones, runs, setpoints and bounds: the types, that only plan    *)
(* setpoints are remembered, and that a clean flag means they are on disk. *)
(***************************************************************************)
EXTENDS Heizregler, TLAPS

\* What holds in every reachable state.
IInv == TypeOK /\ NurPlanGemerkt /\ SauberIstGesichert

RuhtIn == Laufzustand({"ruht", "abos", "zone"}, {Keine}, {Keine})
SendetIn == Laufzustand({"senden", "gesendet"}, Zonen, Werte)

LEMMA RuhtTyp == Ruht \in Zustaende
  BY HeizAssumption, SMT DEF Ruht, Zustaende, Laufzustand

\* A run is of one of two kinds.
LEMMA LaufArt ==
    ASSUME lauf \in [Laeufe -> Zustaende], NEW r \in Laeufe
    PROVE  /\ lauf[r] \in RuhtIn \/ lauf[r] \in SendetIn
           /\ lauf[r].pc \in {"ruht", "abos", "zone"} => lauf[r] \in RuhtIn
           /\ lauf[r].pc \in {"senden", "gesendet"} => lauf[r] \in SendetIn
  BY SMT DEF Zustaende, Laufzustand, RuhtIn, SendetIn

LEMMA GesetztTyp ==
    ASSUME lauf \in [Laeufe -> Zustaende], NEW r \in Laeufe, NEW x \in Zustaende
    PROVE  [lauf EXCEPT ![r] = x] \in [Laeufe -> Zustaende]
  BY Zenon

LEMMA ArtTyp == RuhtIn \subseteq Zustaende /\ SendetIn \subseteq Zustaende
  BY Zenon DEF RuhtIn, SendetIn, Zustaende

\* The setpoint a run takes for a zone is one of the plan.
LEMMA PlanTyp ==
    ASSUME TypeOK, NurPlanGemerkt, NEW r \in Laeufe, NEW z \in Zonen
    PROVE  /\ Plan(r, z) \in Sollwerte \cup {Keine}
           /\ lauf[r].plan[z] # Keine => Plan(r, z) \in Sollwerte
<1>1. lauf[r].plan[z] \in Fenster \cup {Keine}
  BY LaufArt, SMT DEF TypeOK, RuhtIn, SendetIn, Laufzustand
<1>2. soll \in [Zonen -> [Fenster -> Sollwerte]]
  BY DEF TypeOK
<1>3. gemerkt[z] \in Sollwerte \cup {Keine}
  BY DEF NurPlanGemerkt
<1> QED
  BY <1>1, <1>2, <1>3, SMT DEF Plan

LEMMA LageTyp ==
    ASSUME TypeOK, NurPlanGemerkt, NEW r \in Laeufe, NEW z \in Zonen
    PROVE  Lage(r, z) \in Werte \cup {Keine}
  BY PlanTyp, SMT DEF Lage, Werte

\* The run begins to send.
LEMMA AnfangSenden ==
    ASSUME NEW w \in RuhtIn, NEW z \in Zonen, NEW v \in Werte
    PROVE  [w EXCEPT !.pc = "senden", !.zone = z, !.lage = v] \in SendetIn
  BY DEF RuhtIn, SendetIn, Laufzustand

LEMMA BeurteiltTyp ==
    ASSUME TypeOK, NurPlanGemerkt, NEW r \in Laeufe, NEW z \in Zonen, lauf[r].pc = "zone"
    PROVE  Beurteilt(r, z) \in [Laeufe -> Zustaende]
<1> DEFINE weiter == [lauf[r] EXCEPT !.rest = @ \ {z}, !.plan[z] = Keine]
           wert == Lage(r, z)
           neu == IF Sendet(r, z, wert)
                  THEN [weiter EXCEPT !.pc = "senden", !.zone = z, !.lage = wert] ELSE weiter
<1>1. lauf[r] \in RuhtIn
  BY LaufArt DEF TypeOK
<1>2. weiter \in RuhtIn
  BY <1>1 DEF RuhtIn, Laufzustand
<1>3. wert \in Werte \cup {Keine}
  BY LageTyp
<1>4. ASSUME Sendet(r, z, wert)
      PROVE  [weiter EXCEPT !.pc = "senden", !.zone = z, !.lage = wert] \in SendetIn
  <2>1. wert \in Werte
    BY <1>3, <1>4 DEF Sendet
  <2> HIDE DEF weiter, wert
  <2> QED
    BY <1>2, <2>1, AnfangSenden
<1>5. neu \in Zustaende
  BY <1>2, <1>4, ArtTyp
<1>6. Beurteilt(r, z) = [lauf EXCEPT ![r] = neu]
  BY DEF Beurteilt
<1> HIDE DEF neu
<1> QED
  BY <1>5, <1>6, GesetztTyp DEF TypeOK

LEMMA BeginntTyp ==
    ASSUME TypeOK, NEW r \in Laeufe, zonen' \subseteq Zonen, Beginnt(r)
    PROVE  lauf' \in [Laeufe -> Zustaende]
<1> DEFINE x == [pc |-> "zone", rest |-> zonen', zone |-> Keine, lage |-> Keine,
                 alter |-> 0, plan |-> fenster]
<1>1. x \in Zustaende
  BY HeizAssumption, SMT DEF TypeOK, Zustaende, Laufzustand
<1>2. lauf' = [lauf EXCEPT ![r] = x]
  BY DEF Beginnt
<1> HIDE DEF x
<1> QED
  BY <1>1, <1>2, GesetztTyp DEF TypeOK

-----------------------------------------------------------------------------
(* The state file *)

\* Whatever a save does, a clean flag is the truth afterwards.
LEMMA SichernTreu ==
    ASSUME TypeOK, SauberIstGesichert, Sichern, lesefehler' = lesefehler,
           gemerkt' \in [Zonen -> Werte \cup {Keine}]
    PROVE  /\ dirty' \in BOOLEAN /\ datei' \in [Zonen -> Werte \cup {Keine}]
           /\ datei' \in {datei, gemerkt'}
           /\ SauberIstGesichert'
<1>1. CASE datei' = gemerkt' /\ dirty' = FALSE
  BY <1>1 DEF SauberIstGesichert
<1>2. CASE UNCHANGED datei /\ dirty' = (dirty \/ gemerkt' # gemerkt)
  BY <1>2 DEF SauberIstGesichert, TypeOK
<1> QED
  BY <1>1, <1>2 DEF Sichern

LEMMA SaveIfDueTreu ==
    ASSUME TypeOK, SauberIstGesichert, SaveIfDue, lesefehler' = lesefehler
    PROVE  /\ gemerkt' = gemerkt
           /\ dirty' \in BOOLEAN /\ datei' \in [Zonen -> Werte \cup {Keine}]
           /\ datei' \in {datei, gemerkt'}
           /\ SauberIstGesichert'
<1>1. gemerkt' = gemerkt /\ gemerkt' \in [Zonen -> Werte \cup {Keine}]
  BY DEF SaveIfDue, TypeOK
<1>2. CASE Sichern
  BY <1>1, <1>2, SichernTreu
<1>3. CASE UNCHANGED <<dirty, datei>>
  BY <1>1, <1>3 DEF SauberIstGesichert, TypeOK
<1> QED
  BY <1>1, <1>2, <1>3 DEF SaveIfDue

\* NurPlanGemerkt after a step that keeps what is remembered or writes it.
LEMMA DateiTreu ==
    ASSUME NurPlanGemerkt, datei' \in {datei, gemerkt'},
           \A z \in Zonen : gemerkt'[z] \in Sollwerte \cup {Keine}
    PROVE  NurPlanGemerkt'
  BY DEF NurPlanGemerkt

LEMMA SpeicherBleibt ==
    ASSUME NurPlanGemerkt, SauberIstGesichert, UNCHANGED speicher, lesefehler' = lesefehler
    PROVE  NurPlanGemerkt' /\ SauberIstGesichert'
  BY DEF NurPlanGemerkt, SauberIstGesichert, speicher

-----------------------------------------------------------------------------
(* One lemma per group of actions *)

LEMMA BeurteilenIInv ==
    ASSUME IInv, NEW r \in Laeufe, NEW z \in Zonen, Beurteilen(r, z)
    PROVE  IInv'
<1> USE DEF IInv
<1> DEFINE p == Plan(r, z)
<1>1. p \in Sollwerte \cup {Keine} /\ (lauf[r].plan[z] # Keine => p \in Sollwerte)
  BY PlanTyp
<1>2. lauf' \in [Laeufe -> Zustaende]
  BY BeurteiltTyp DEF Beurteilen
<1>3. test' \in [Zonen -> (-LaufMax..TestDauer) \cup {Keine}]
  BY DEF Beurteilen, TypeOK
<1>4. CASE gemerkt' = [gemerkt EXCEPT ![z] = p] /\ dirty' = TRUE /\ p \in Sollwerte
  <2>1. gemerkt' \in [Zonen -> Werte \cup {Keine}]
    BY <1>4 DEF TypeOK, Werte
  <2>2. \A y \in Zonen : gemerkt'[y] \in Sollwerte \cup {Keine}
    BY <1>4 DEF TypeOK, NurPlanGemerkt
  <2>3. datei' = datei
    BY DEF Beurteilen
  <2>4. NurPlanGemerkt' /\ SauberIstGesichert'
    BY <1>4, <2>2, <2>3, DateiTreu DEF SauberIstGesichert
  <2>5. TypeOK'
    BY <1>2, <1>3, <1>4, <2>1 DEF Beurteilen, TypeOK, welt, einst, buch, historie
  <2> QED
    BY <2>4, <2>5
<1>5. CASE UNCHANGED <<gemerkt, dirty>>
  <2>1. UNCHANGED speicher /\ lesefehler' = lesefehler
    BY <1>5 DEF Beurteilen, speicher, historie
  <2>2. TypeOK'
    BY <1>2, <1>3, <2>1 DEF Beurteilen, TypeOK, welt, einst, buch, historie, speicher
  <2> QED
    BY <2>1, <2>2, SpeicherBleibt
<1> QED
  BY <1>1, <1>4, <1>5 DEF Beurteilen

\* Sending, booking: a run that has a telegram in hand.
LEMMA SendenIInv ==
    ASSUME IInv, NEW r \in Laeufe,
           Erreicht(r) \/ GehtVerloren(r) \/ Scheitert(r) \/ Buchen(r)
    PROVE  IInv'
<1> USE DEF IInv
<1>1. lauf[r] \in SendetIn
  BY LaufArt DEF TypeOK, Erreicht, GehtVerloren, Scheitert, Buchen
<1>2. lauf[r].zone \in Zonen /\ lauf[r].lage \in Werte /\ lauf[r].alter \in 0..LaufMax
  BY <1>1 DEF SendetIn, Laufzustand
<1>3. [lauf[r] EXCEPT !.pc = "gesendet"] \in Zustaende
  BY <1>1, ArtTyp DEF SendetIn, Laufzustand
<1>4. [lauf[r] EXCEPT !.pc = "zone", !.zone = Keine, !.lage = Keine] \in Zustaende
  <2>1. [lauf[r] EXCEPT !.pc = "zone", !.zone = Keine, !.lage = Keine] \in RuhtIn
    BY <1>1 DEF SendetIn, RuhtIn, Laufzustand
  <2> QED
    BY <2>1, ArtTyp
<1>5. lauf' \in [Laeufe -> Zustaende]
  <2>1. \/ lauf' = [lauf EXCEPT ![r] = [lauf[r] EXCEPT !.pc = "gesendet"]]
        \/ lauf' = [lauf EXCEPT ![r] = [lauf[r] EXCEPT !.pc = "zone", !.zone = Keine, !.lage = Keine]]
    BY Zenon DEF Erreicht, GehtVerloren, Scheitert, Buchen
  <2> QED
    BY <1>3, <1>4, <2>1, GesetztTyp DEF TypeOK
<1>6. UNCHANGED speicher /\ lesefehler' = lesefehler
  BY DEF Erreicht, GehtVerloren, Scheitert, Buchen, historie, speicher
<1>7. aktor' \in [Zonen -> Werte \cup {Keine}]
  BY <1>2 DEF Erreicht, GehtVerloren, Scheitert, Buchen, TypeOK
<1>8. letztesSenden' \in [Zonen -> 0..(Intervall + LaufMax) \cup {Keine}]
  <2>1. lauf[r].alter \in 0..(Intervall + LaufMax)
    BY <1>2, HeizAssumption, SMT
  <2> QED
    BY <1>2, <2>1 DEF Erreicht, GehtVerloren, Scheitert, Buchen, TypeOK, buch
<1>9. letzteVerschiebung' \in [Zonen -> Werte \cup {Keine}]
  BY <1>2 DEF Erreicht, GehtVerloren, Scheitert, Buchen, TypeOK, buch
<1>10. UNCHANGED <<welt, einst, test, phase, historie>>
  BY DEF Erreicht, GehtVerloren, Scheitert, Buchen
<1>11. TypeOK'
  BY <1>5, <1>6, <1>7, <1>8, <1>9, <1>10 DEF TypeOK, welt, einst, speicher, historie
<1> QED
  BY <1>6, <1>11, SpeicherBleibt

LEMMA EndenIInv ==
    ASSUME IInv, NEW r \in Laeufe, Enden(r)
    PROVE  IInv'
<1> USE DEF IInv
<1>1. lauf' \in [Laeufe -> Zustaende]
  BY RuhtTyp, GesetztTyp DEF Enden, TypeOK
<1>2. lesefehler' = lesefehler /\ SaveIfDue
  BY DEF Enden, historie
<1>3. /\ gemerkt' = gemerkt /\ SauberIstGesichert' /\ dirty' \in BOOLEAN
      /\ datei' \in [Zonen -> Werte \cup {Keine}] /\ datei' \in {datei, gemerkt'}
  BY <1>2, SaveIfDueTreu
<1>4. NurPlanGemerkt'
  <2>1. \A z \in Zonen : gemerkt'[z] \in Sollwerte \cup {Keine}
    BY <1>3 DEF NurPlanGemerkt
  <2> QED
    BY <1>3, <2>1, DateiTreu
<1>5. TypeOK'
  BY <1>1, <1>3 DEF Enden, TypeOK, welt, einst, buch, historie
<1> QED
  BY <1>3, <1>4, <1>5

\* The callers that start a run of their own.
LEMMA BeginnenIInv ==
    ASSUME IInv, NEW r \in Laeufe,
           \/ r = Takt /\ TaktBeginnt
           \/ Regeln(r) \/ PutRegelt(r)
           \/ \E zs \in SUBSET Zonen : JetztSenden(r, zs)
           \/ \E z \in Zonen, an \in TestBefehle : TestSetzen(r, z, an)
    PROVE  IInv'
<1> USE DEF IInv
<1>1. zonen' = zonen /\ Beginnt(r)
  BY DEF TaktBeginnt, Regeln, PutRegelt, JetztSenden, TestSetzen, einst
<1>8. zonenDatei' \subseteq Zonen
  BY DEF TaktBeginnt, Regeln, PutRegelt, JetztSenden, TestSetzen, einst, TypeOK
<1>2. lauf' \in [Laeufe -> Zustaende]
  BY <1>1, BeginntTyp DEF TypeOK
<1>3. UNCHANGED speicher /\ lesefehler' = lesefehler
  BY DEF TaktBeginnt, Regeln, PutRegelt, JetztSenden, TestSetzen, historie
<1>4. UNCHANGED <<welt, phase, aktor, neustarts>>
  BY DEF TaktBeginnt, Regeln, PutRegelt, JetztSenden, TestSetzen, historie
<1>5. /\ letztesSenden' \in [Zonen -> 0..(Intervall + LaufMax) \cup {Keine}]
      /\ letzteVerschiebung' \in [Zonen -> Werte \cup {Keine}]
  <2>1. CASE UNCHANGED buch
    BY <2>1 DEF buch, TypeOK
  <2>2. CASE \E zs \in SUBSET Zonen : Zurueckgesetzt(zs)
    BY <2>2 DEF Zurueckgesetzt, TypeOK
  <2>3. UNCHANGED buch \/ \E zs \in SUBSET Zonen : Zurueckgesetzt(zs)
    BY DEF TaktBeginnt, Regeln, PutRegelt, JetztSenden, TestSetzen
  <2> QED
    BY <2>1, <2>2, <2>3
<1>6. test' \in [Zonen -> (-LaufMax..TestDauer) \cup {Keine}] /\ tests' \in 0..MaxTests
  <2>1. CASE UNCHANGED <<test, tests>>
    BY <2>1 DEF TypeOK
  <2>2. ASSUME NEW z \in Zonen, NEW an \in TestBefehle, TestSetzen(r, z, an)
        PROVE  test' \in [Zonen -> (-LaufMax..TestDauer) \cup {Keine}] /\ tests' \in 0..MaxTests
    <3>1. TestDauer \in -LaufMax..TestDauer
      BY HeizAssumption, SMT
    <3>2. test' \in [Zonen -> (-LaufMax..TestDauer) \cup {Keine}]
      BY <2>2, <3>1 DEF TestSetzen, TypeOK
    <3>3. tests' \in 0..MaxTests
      BY <2>2, HeizAssumption, SMT DEF TestSetzen, TypeOK
    <3> QED
      BY <3>2, <3>3
  <2>3. \/ UNCHANGED <<test, tests>>
        \/ \E z \in Zonen, an \in TestBefehle : TestSetzen(r, z, an)
    BY DEF TaktBeginnt, Regeln, PutRegelt, JetztSenden, historie
  <2> QED
    BY <2>1, <2>2, <2>3
<1>7. TypeOK'
  BY <1>1, <1>2, <1>3, <1>4, <1>5, <1>6, <1>8 DEF TypeOK, welt, speicher
<1> QED
  BY <1>3, <1>7, SpeicherBleibt

LEMMA PutHeizungIInv ==
    ASSUME IInv, NEW r \in Laeufe, NEW neu \in SUBSET Zonen, PutHeizung(r, neu)
    PROVE  IInv'
<1> USE DEF IInv
<1>1. lauf[r] \in RuhtIn
  BY LaufArt DEF PutHeizung, Frei, TypeOK
<1>2. [lauf[r] EXCEPT !.pc = "abos"] \in RuhtIn
  BY <1>1 DEF RuhtIn, Laufzustand
<1>3. lauf' \in [Laeufe -> Zustaende]
  BY <1>2, ArtTyp, GesetztTyp DEF PutHeizung, TypeOK
<1>4. \A z \in Zonen : gemerkt'[z] \in Sollwerte \cup {Keine}
  BY DEF PutHeizung, NurPlanGemerkt
<1>5. gemerkt' \in [Zonen -> Werte \cup {Keine}]
  BY DEF PutHeizung, TypeOK
<1>6. Sichern /\ lesefehler' = lesefehler
  BY DEF PutHeizung, historie
<1>7. /\ SauberIstGesichert' /\ dirty' \in BOOLEAN
      /\ datei' \in [Zonen -> Werte \cup {Keine}] /\ datei' \in {datei, gemerkt'}
  BY <1>5, <1>6, SichernTreu
<1>8. NurPlanGemerkt'
  BY <1>4, <1>7, DateiTreu
<1>9. TypeOK'
  BY <1>3, <1>5, <1>7 DEF PutHeizung, TypeOK, welt, einst, buch, historie
<1> QED
  BY <1>7, <1>8, <1>9

\* The save of the new zones raises.
LEMMA PutScheitertIInv ==
    ASSUME IInv, NEW r \in Laeufe, NEW neu \in SUBSET Zonen, PutScheitert(r, neu)
    PROVE  IInv'
<1> USE DEF IInv
<1>1. UNCHANGED speicher /\ lesefehler' = lesefehler
  BY DEF PutScheitert, historie
<1>2. TypeOK'
  BY <1>1 DEF PutScheitert, TypeOK, welt, buch, speicher, historie
<1> QED
  BY <1>1, <1>2, SpeicherBleibt

LEMMA StoppenIInv ==
    ASSUME IInv, Stoppen
    PROVE  IInv'
<1> USE DEF IInv
<1>1. lauf' \in [Laeufe -> Zustaende]
  BY RuhtTyp, GesetztTyp, HeizAssumption DEF Stoppen, TypeOK
<1>2. /\ gemerkt' = gemerkt /\ gemerkt' \in [Zonen -> Werte \cup {Keine}]
      /\ Sichern /\ lesefehler' = lesefehler
  BY DEF Stoppen, TypeOK, historie
<1>3. /\ SauberIstGesichert' /\ dirty' \in BOOLEAN
      /\ datei' \in [Zonen -> Werte \cup {Keine}] /\ datei' \in {datei, gemerkt'}
  BY <1>2, SichernTreu
<1>4. NurPlanGemerkt'
  BY <1>2, <1>3 DEF NurPlanGemerkt
<1>5. TypeOK'
  BY <1>1, <1>2, <1>3 DEF Stoppen, TypeOK, welt, einst, buch, historie
<1> QED
  BY <1>3, <1>4, <1>5

LEMMA NeustartIInv ==
    ASSUME IInv, Neustart
    PROVE  IInv'
<1> USE DEF IInv
<1>1. lauf' \in [Laeufe -> Zustaende]
  BY RuhtTyp DEF Neustart
<1>2. gemerkt' \in [Zonen -> Werte \cup {Keine}] /\ lesefehler' \in BOOLEAN
  BY DEF Neustart, TypeOK
<1>3. SauberIstGesichert'
  BY DEF Neustart, SauberIstGesichert
<1>4. NurPlanGemerkt'
  BY DEF Neustart, NurPlanGemerkt
<1>5. neustarts' \in 0..MaxNeustarts
  BY HeizAssumption, SMT DEF Neustart, TypeOK
<1>6. TypeOK'
  BY <1>1, <1>2, <1>5 DEF Neustart, TypeOK
<1> QED
  BY <1>3, <1>4, <1>6

LEMMA WeltIInv ==
    ASSUME IInv, Welt
    PROVE  IInv'
<1> USE DEF IInv
<1>1. PICK z \in Zonen :
          \/ FensterWechselt(z) \/ Kontakt(z) \/ BereitWechselt(z)
          \/ \E f \in Fenster, w \in Sollwerte : SollSetzen(z, f, w)
  BY DEF Welt
<1>2. UNCHANGED <<einst, test, buch, speicher, lauf, phase, aktor, historie>>
  BY <1>1 DEF FensterWechselt, Kontakt, BereitWechselt, SollSetzen
<1>3. fenster' \in [Zonen -> Fenster \cup {Keine}]
  BY <1>1 DEF FensterWechselt, Kontakt, BereitWechselt, SollSetzen, TypeOK
<1>4. soll' \in [Zonen -> [Fenster -> Sollwerte]]
  <2>1. ASSUME NEW f \in Fenster, NEW w \in Sollwerte
        PROVE  [soll EXCEPT ![z][f] = w] \in [Zonen -> [Fenster -> Sollwerte]]
    BY DEF TypeOK
  <2>2. \/ soll' = soll
        \/ \E f \in Fenster, w \in Sollwerte : soll' = [soll EXCEPT ![z][f] = w]
    BY <1>1, Zenon DEF FensterWechselt, Kontakt, BereitWechselt, SollSetzen
  <2>3. soll \in [Zonen -> [Fenster -> Sollwerte]]
    BY DEF TypeOK
  <2>4. CASE \E f \in Fenster, w \in Sollwerte : soll' = [soll EXCEPT ![z][f] = w]
    <3>1. PICK f \in Fenster, w \in Sollwerte : soll' = [soll EXCEPT ![z][f] = w]
      BY <2>4
    <3> QED
      BY <2>1, <3>1
  <2> QED
    BY <2>2, <2>3, <2>4
<1>5. abgesenkt' \in [Zonen -> BOOLEAN] /\ bereit' \in [Zonen -> BOOLEAN]
  BY <1>1 DEF FensterWechselt, Kontakt, BereitWechselt, SollSetzen, TypeOK
<1>6. TypeOK'
  BY <1>2, <1>3, <1>4, <1>5 DEF TypeOK, einst, buch, speicher, historie
<1>7. UNCHANGED speicher /\ lesefehler' = lesefehler
  BY <1>2 DEF historie
<1> QED
  BY <1>6, <1>7, SpeicherBleibt

LEMMA TickIInv ==
    ASSUME IInv, Tick
    PROVE  IInv'
<1> USE DEF IInv
<1>1. lauf' \in [Laeufe -> Zustaende]
  <2>1. ASSUME NEW r \in Laeufe, lauf[r].pc \notin {"ruht", "abos"}
        PROVE  [lauf[r] EXCEPT !.alter = @ + 1] \in Zustaende
    <3>1. lauf[r].alter + 1 \in 0..LaufMax
      <4>1. lauf[r].alter \in 0..LaufMax
        BY LaufArt DEF TypeOK, RuhtIn, SendetIn, Laufzustand
      <4>2. lauf[r].alter < LaufMax
        BY <2>1 DEF Tick
      <4> QED
        BY <4>1, <4>2, HeizAssumption, SMT
    <3>2. CASE lauf[r] \in RuhtIn
      <4>1. [lauf[r] EXCEPT !.alter = @ + 1] \in RuhtIn
        BY <3>1, <3>2 DEF RuhtIn, Laufzustand
      <4> QED
        BY <4>1, ArtTyp
    <3>3. CASE lauf[r] \in SendetIn
      <4>1. [lauf[r] EXCEPT !.alter = @ + 1] \in SendetIn
        BY <3>1, <3>3 DEF SendetIn, Laufzustand
      <4> QED
        BY <4>1, ArtTyp
    <3> QED
      BY <3>2, <3>3, LaufArt DEF TypeOK
  <2>2. \A r \in Laeufe : lauf[r] \in Zustaende
    BY DEF TypeOK
  <2> QED
    BY <2>1, <2>2 DEF Tick
<1>2. test' \in [Zonen -> (-LaufMax..TestDauer) \cup {Keine}]
  <2>1. ASSUME NEW z \in Zonen, test[z] # Keine, test[z] # -LaufMax
        PROVE  test[z] - 1 \in -LaufMax..TestDauer
    <3>1. test[z] \in -LaufMax..TestDauer
      BY <2>1 DEF TypeOK
    <3> QED
      BY <2>1, <3>1, HeizAssumption, SMT
  <2>2. \A z \in Zonen : test[z] \in (-LaufMax..TestDauer) \cup {Keine}
    BY DEF TypeOK
  <2> QED
    BY <2>1, <2>2 DEF Tick
<1>3. letztesSenden' \in [Zonen -> 0..(Intervall + LaufMax) \cup {Keine}]
  <2>1. ASSUME NEW z \in Zonen, letztesSenden[z] # Keine,
               letztesSenden[z] # Intervall + LaufMax
        PROVE  letztesSenden[z] + 1 \in 0..(Intervall + LaufMax)
    <3>1. letztesSenden[z] \in 0..(Intervall + LaufMax)
      BY <2>1 DEF TypeOK
    <3> QED
      BY <2>1, <3>1, HeizAssumption, SMT
  <2>2. \A z \in Zonen : letztesSenden[z] \in 0..(Intervall + LaufMax) \cup {Keine}
    BY DEF TypeOK
  <2> QED
    BY <2>1, <2>2 DEF Tick
<1>4. UNCHANGED speicher /\ lesefehler' = lesefehler
  BY DEF Tick, historie
<1>5. TypeOK'
  BY <1>1, <1>2, <1>3, <1>4 DEF Tick, TypeOK, welt, einst, speicher, historie
<1> QED
  BY <1>4, <1>5, SpeicherBleibt

-----------------------------------------------------------------------------

LEMMA AnfangIInv == Init => IInv
<1> SUFFICES ASSUME Init PROVE IInv
  OBVIOUS
<1>1. TypeOK
  <2>1. lauf \in [Laeufe -> Zustaende]
    BY RuhtTyp DEF Init
  <2>2. /\ fenster \in [Zonen -> Fenster \cup {Keine}]
        /\ soll \in [Zonen -> [Fenster -> Sollwerte]]
        /\ abgesenkt \in [Zonen -> BOOLEAN] /\ bereit \in [Zonen -> BOOLEAN]
        /\ zonen \subseteq Zonen
    BY DEF Init
  <2>3. /\ test \in [Zonen -> (-LaufMax..TestDauer) \cup {Keine}]
        /\ letztesSenden \in [Zonen -> 0..(Intervall + LaufMax) \cup {Keine}]
        /\ letzteVerschiebung \in [Zonen -> Werte \cup {Keine}]
        /\ gemerkt \in [Zonen -> Werte \cup {Keine}]
        /\ datei \in [Zonen -> Werte \cup {Keine}]
        /\ aktor \in [Zonen -> Werte \cup {Keine}]
    BY DEF Init
  <2>4. tests \in 0..MaxTests /\ neustarts \in 0..MaxNeustarts
    BY HeizAssumption, SMT DEF Init
  <2> QED
    BY <2>1, <2>2, <2>3, <2>4 DEF Init, TypeOK
<1>2. NurPlanGemerkt
  BY DEF Init, NurPlanGemerkt
<1>3. SauberIstGesichert
  BY DEF Init, SauberIstGesichert
<1> QED
  BY <1>1, <1>2, <1>3 DEF IInv

LEMMA StillstandIInv ==
    ASSUME IInv, UNCHANGED vars
    PROVE  IInv'
  BY DEF IInv, TypeOK, NurPlanGemerkt, SauberIstGesichert, vars, welt, einst, buch, speicher, historie

LEMMA SchrittIInv == IInv /\ [Next]_vars => IInv'
<1> SUFFICES ASSUME IInv, [Next]_vars PROVE IInv'
  OBVIOUS
<1>1. CASE \E r \in Laeufe : Schritt(r)
  BY <1>1, BeurteilenIInv, SendenIInv, EndenIInv DEF Schritt
<1>2. CASE TaktBeginnt
  BY <1>2, BeginnenIInv, HeizAssumption
<1>3. ASSUME NEW r \in Laeufe,
             \/ Regeln(r) \/ PutRegelt(r)
             \/ \E zs \in SUBSET Zonen :
                    JetztSenden(r, zs) \/ PutHeizung(r, zs) \/ PutScheitert(r, zs)
             \/ \E z \in Zonen, an \in TestBefehle : TestSetzen(r, z, an)
      PROVE  IInv'
  BY <1>3, BeginnenIInv, PutHeizungIInv, PutScheitertIInv
<1>4. CASE Stoppen \/ Neustart \/ Welt \/ Tick
  BY <1>4, StoppenIInv, NeustartIInv, WeltIInv, TickIInv
<1>5. CASE UNCHANGED vars
  BY <1>5, StillstandIInv
<1> QED
  BY <1>1, <1>2, <1>3, <1>4, <1>5 DEF Next

LEMMA IInvImmer == Spec => []IInv
  BY AnfangIInv, SchrittIInv, PTL DEF Spec

\* Every state has the types, whatever the zones, runs and bounds are: a run
\* that has a telegram in hand has a circuit and a value for it.
THEOREM TypKorrekt == Spec => []TypeOK
<1>1. IInv => TypeOK
  BY DEF IInv
<1> QED
  BY <1>1, IInvImmer, PTL

\* einmal_regeln never remembers a lowered setpoint or a test's, neither in
\* memory nor on disk, whatever runs overlap.
THEOREM PlanGemerkt == Spec => []NurPlanGemerkt
<1>1. IInv => NurPlanGemerkt
  BY DEF IInv
<1> QED
  BY <1>1, IInvImmer, PTL

\* A clean flag of HeizungsZustand means the file holds what is in memory,
\* over failing saves, deleted zones, stops and crashes.
THEOREM SauberSicher == Spec => []SauberIstGesichert
<1>1. IInv => SauberIstGesichert
  BY DEF IInv
<1> QED
  BY <1>1, IInvImmer, PTL
=============================================================================
