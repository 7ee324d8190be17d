--------------------------- MODULE RolladenProofs ---------------------------
(***************************************************************************)
(* For all travel times, callers and inputs: the types, that a target lies *)
(* ahead of its movement, and that the published state is the current one. *)
(*                                                                         *)
(* For all travel times that satisfy Massstab: the computed position is    *)
(* the real one, position commands are fulfilled, and travel times stay.   *)
(* Fahrplan is the invariant behind it: while nothing disturbs it, the     *)
(* shutter stands (Steht), or a command is being sent (Gesendet), or it    *)
(* runs as the state says (Faehrt), or its report is under way (Gemeldet); *)
(* and in each of the four, position and time passed add up to the real    *)
(* place.  AmAnschlag makes a report of an end stop true whatever happened *)
(* before.                                                                 *)
(***************************************************************************)
EXTENDS Rolladen, SequenceTheorems, TLAPS

LEMMA Quotient ==
    ASSUME NEW a \in Nat, NEW b \in Nat, b > 0
    PROVE  a \div b \in Nat
  BY SMT

LEMMA Produkt ==
    ASSUME NEW a \in Nat, NEW b \in Nat
    PROVE  a * b \in Nat
  BY SMT

\* The two bytes of a running time are read back as they were sent exactly up
\* to 25.5 seconds.
THEOREM DauerLesbar ==
    ASSUME NEW d \in Nat
    PROVE  Gelesen(d) = d <=> d < 256
  BY SMT DEF Gelesen

LEMMA RundungTyp ==
    ASSUME NEW a \in Nat, NEW b \in Nat, b > 0
    PROVE  /\ Gerundet(a, b) \in Nat
           /\ Gerundet(a, b) = a \div b \/ Gerundet(a, b) = a \div b + 1
<1>1. a \div b \in Nat /\ a % b \in Nat
  BY Quotient, SMT
<1> QED
  BY <1>1, SMT DEF Gerundet

LEMMA BegrenztTyp ==
    ASSUME NEW p \in Int
    PROVE  Begrenzt(p) \in 0..Voll
  BY RolladenAnnahme, SMT DEF Begrenzt

LEMMA Teilung ==
    ASSUME NEW a \in Nat, NEW b \in Nat, b > 0
    PROVE  a = b * (a \div b) + (a % b) /\ a % b \in 0..(b - 1)
  BY SMT

LEMMA Monoton ==
    ASSUME NEW a \in Nat, NEW x \in Nat, NEW y \in Nat, x <= y
    PROVE  a * x <= a * y
  BY SMT

-----------------------------------------------------------------------------
(* What the operators on the state keep *)

LzOk(lz) == lz \in Laufzeiten /\ lz["down"] > 0

\* ZielVoraus of any state.
VorausIn(s) ==
    /\ s.moving = "none" => s.ziel = Ohne
    /\ s.ziel # Ohne =>
           IF s.moving = "down" THEN s.ziel >= s.pos ELSE s.ziel <= s.pos

Gut(s) == s \in Zustaende /\ VorausIn(s)

LEMMA Grenzen ==
    /\ Voll \in Nat /\ Voll > 0 /\ MaxSeit \in Nat /\ 0 \in 0..MaxSeit
    /\ Takt \in Nat /\ Eigenzeit \in Nat /\ MaxEingaben \in Nat /\ 0 \in 0..MaxEingaben
    /\ MaxNeustarts \in Nat /\ 0 \in 0..MaxNeustarts
  BY RolladenAnnahme, SMT

LEMMA TimeForTyp ==
    ASSUME NEW lz, LzOk(lz), NEW d
    PROVE  TimeFor(lz, d) \in Nat /\ TimeFor(lz, d) > 0
  BY SMT DEF LzOk, Laufzeiten, Richtungen, TimeFor

LEMMA WegTyp ==
    ASSUME NEW lz, LzOk(lz), NEW d, NEW t \in Nat
    PROVE  (t * Voll) \div TimeFor(lz, d) \in Nat
<1>1. t * Voll \in Nat
  BY Produkt, RolladenAnnahme
<1> QED
  BY <1>1, TimeForTyp, Quotient

LEMMA EndlageTyp ==
    ASSUME NEW d
    PROVE  Endlage(d) \in 0..Voll
  BY RolladenAnnahme, SMT DEF Endlage

LEMMA GeschaetztTyp ==
    ASSUME NEW s \in Zustaende, NEW lz, LzOk(lz)
    PROVE  Geschaetzt(s, lz) \in 0..Voll
<1>1. s.pos \in 0..Voll /\ s.seit \in Nat /\ s.ziel \in Int
  BY RolladenAnnahme, SMT DEF Zustaende, Ohne
<1> DEFINE weg == (s.seit * Voll) \div TimeFor(lz, s.moving)
<1>2. weg \in Nat
  BY <1>1, WegTyp
<1>3. Verschoben(s.pos, s.moving, weg) \in Int
  BY <1>1, <1>2, RolladenAnnahme, SMT DEF Verschoben
<1>4. BisZiel(s, Verschoben(s.pos, s.moving, weg)) \in Int
  BY <1>1, <1>3, SMT DEF BisZiel
<1> QED
  BY <1>1, <1>4, BegrenztTyp DEF Geschaetzt

LEMMA RuhendGut ==
    ASSUME NEW p \in 0..Voll
    PROVE  Gut(Ruhend(p))
  BY RolladenAnnahme, SMT DEF Gut, VorausIn, Zustaende, Ruhend, Ohne

LEMMA EingefrorenGut ==
    ASSUME NEW s, Gut(s), NEW lz, LzOk(lz)
    PROVE  /\ Gut(Commit(s, lz))
           /\ Gut(Eingefroren(s, lz))
           /\ Eingefroren(s, lz).moving = "none"
           /\ Eingefroren(s, lz).ziel = Ohne
<1>1. Gut(Commit(s, lz))
  BY GeschaetztTyp, RuhendGut DEF Commit, Gut
<1> QED
  BY <1>1 DEF Eingefroren, Gut, VorausIn, Commit, Ruhend

LEMMA NachSendenGut ==
    ASSUME NEW s, Gut(s), NEW lz, LzOk(lz),
           NEW cmd \in Richtungen \cup {"stop"}, NEW dauer \in Nat
    PROVE  Gut(NachSenden(s, lz, cmd, dauer))
<1>1. CASE cmd = "stop"
  BY <1>1, EingefrorenGut DEF NachSenden
<1>2. CASE cmd # "stop"
  <2> DEFINE a == Eingefroren(s, lz)
             weg == (dauer * Voll) \div TimeFor(lz, cmd)
             z == Begrenzt(Verschoben(a.pos, cmd, weg))
  <2>1. a \in Zustaende /\ a.ziel = Ohne /\ a.pos \in 0..Voll
    BY EingefrorenGut DEF Gut, Zustaende
  <2>2. weg \in Nat
    BY WegTyp
  <2>3. Verschoben(a.pos, cmd, weg) \in Int
    BY <2>1, <2>2, RolladenAnnahme, SMT DEF Verschoben
  <2>4. z \in 0..Voll
    BY <2>3, BegrenztTyp
  <2>5. cmd = "down" => z >= a.pos
    BY <2>1, <2>2, RolladenAnnahme, SMT DEF Verschoben, Begrenzt
  <2>6. cmd # "down" => z <= a.pos
    BY <2>1, <2>2, RolladenAnnahme, SMT DEF Verschoben, Begrenzt
  <2>7. NachSenden(s, lz, cmd, dauer) = [a EXCEPT !.moving = cmd, !.seit = 0, !.ziel = z]
    BY <1>2, <2>1 DEF NachSenden
  <2> HIDE DEF a, weg, z
  <2>8. [a EXCEPT !.moving = cmd, !.seit = 0, !.ziel = z] \in Zustaende
    BY <1>2, <2>1, <2>4, Grenzen DEF Zustaende
  <2>9. VorausIn([a EXCEPT !.moving = cmd, !.seit = 0, !.ziel = z])
    BY <1>2, <2>1, <2>4, <2>5, <2>6, SMT DEF VorausIn, Zustaende, Richtungen
  <2> QED
    BY <2>7, <2>8, <2>9 DEF Gut
<1> QED
  BY <1>1, <1>2

LEMMA NachTasterGut ==
    ASSUME NEW s, Gut(s), NEW lz, LzOk(lz), NEW d \in Richtungen
    PROVE  Gut(NachTaster(s, lz, d))
<1> DEFINE a == Eingefroren(s, lz)
<1>1. a \in Zustaende /\ a.ziel = Ohne
  BY EingefrorenGut DEF Gut
<1>2. NachTaster(s, lz, d) = [a EXCEPT !.moving = d, !.seit = 0]
  BY DEF NachTaster
<1> HIDE DEF a
<1>3. [a EXCEPT !.moving = d, !.seit = 0] \in Zustaende
  BY <1>1, Grenzen DEF Zustaende
<1>4. VorausIn([a EXCEPT !.moving = d, !.seit = 0])
  BY <1>1, SMT DEF VorausIn, Zustaende, Richtungen
<1> QED
  BY <1>2, <1>3, <1>4 DEF Gut

LEMMA GelesenTyp ==
    ASSUME NEW d \in Nat
    PROVE  Gelesen(d) \in Nat
  BY SMT DEF Gelesen

LEMMA NachMeldungGut ==
    ASSUME NEW s, Gut(s), NEW lz, LzOk(lz), NEW m \in Meldungen
    PROVE  Gut(NachMeldung(s, lz, m))
<1> DEFINE weg == (Gelesen(m.dauer) * Voll) \div TimeFor(lz, m.richtung)
<1>1. s.pos \in 0..Voll /\ m.dauer \in Nat
  BY SMT DEF Gut, Zustaende, Meldungen
<1>2. weg \in Nat
  BY <1>1, GelesenTyp, WegTyp
<1>3. Verschoben(s.pos, m.richtung, weg) \in Int
  BY <1>1, <1>2, RolladenAnnahme, SMT DEF Verschoben
<1>4. Gut(Ruhend(Begrenzt(Verschoben(s.pos, m.richtung, weg))))
  BY <1>3, BegrenztTyp, RuhendGut
<1>5. Gut(Ruhend(Endlage(m.richtung)))
  BY EndlageTyp, RuhendGut
<1>6. Gut(Commit(s, lz))
  BY EingefrorenGut
<1> QED
  BY <1>4, <1>5, <1>6 DEF NachMeldung

\* A travel time that is learned anew stays positive.
LEMMA AngepasstOk ==
    ASSUME NEW s, Gut(s), NEW lz, LzOk(lz), NEW m \in Meldungen
    PROVE  LzOk(Angepasst(s, lz, m))
<1> DEFINE d == m.richtung
           weg == Abstand(Endlage(d), s.pos)
           alt == TimeFor(lz, d)
           gemessen == (s.seit * Voll) \div weg
           neu == Gerundet(8 * alt + 2 * gemessen, 10)
<1>1. d \in Richtungen /\ s.pos \in 0..Voll /\ s.seit \in Nat
  BY Grenzen, SMT DEF Gut, Zustaende, Meldungen
<1>2. alt \in Nat /\ alt > 0
  BY TimeForTyp
<1>3. weg \in Nat
  BY <1>1, EndlageTyp, Grenzen, SMT DEF Abstand
<1>4. CASE ~(10 * weg < Voll) /\ Abstand(neu, alt) >= 5
  <2>1. weg > 0
    BY <1>3, <1>4, Grenzen, SMT
  <2>2. s.seit * Voll \in Nat
    BY <1>1, Grenzen, Produkt
  <2>3. gemessen \in Nat
    BY <2>1, <2>2, <1>3, Quotient
  <2> HIDE DEF gemessen, alt, weg
  <2>4. 8 * alt + 2 * gemessen \in Nat
    BY <1>2, <2>3, SMT
  <2>5. /\ neu \in Nat
        /\ \/ neu = (8 * alt + 2 * gemessen) \div 10
           \/ neu = (8 * alt + 2 * gemessen) \div 10 + 1
    BY <2>4, RundungTyp
  <2> HIDE DEF neu
  <2>6. neu > 0
    BY <1>2, <1>4, <2>3, <2>5, SMT DEF Abstand
  <2>7. LzOk([lz EXCEPT ![d] = neu])
    BY <1>1, <2>5, <2>6, SMT DEF LzOk, Laufzeiten, Richtungen
  <2> QED
    BY <2>7 DEF Angepasst, neu, alt, weg, gemessen
<1>5. CASE 10 * weg < Voll \/ ~(Abstand(neu, alt) >= 5)
  <2>1. 10 * weg < Voll => Angepasst(s, lz, m) = lz
    BY DEF Angepasst
  <2>2. neu \in Nat \/ 10 * weg < Voll
    <3>1. CASE ~(10 * weg < Voll)
      <4>1. weg > 0
        BY <1>3, <3>1, Grenzen, SMT
      <4>2. gemessen \in Nat
        BY <4>1, <1>1, <1>3, Grenzen, Produkt, Quotient
      <4> HIDE DEF gemessen, alt
      <4>3. 8 * alt + 2 * gemessen \in Nat
        BY <4>2, <1>2, SMT
      <4> QED
        BY <4>3, RundungTyp
    <3> QED
      BY <3>1
  <2>3. CASE ~(10 * weg < Voll)
    <3>1. Abstand(neu, alt) < 5
      <4> HIDE DEF neu, alt
      <4> QED
        BY <1>2, <1>5, <2>2, <2>3, SMT DEF Abstand
    <3> QED
      BY <3>1 DEF Angepasst
  <2> QED
    BY <2>1, <2>3
<1> QED
  BY <1>4, <1>5

LEMMA GesichertOk ==
    ASSUME NEW s, Gut(s), NEW lz, LzOk(lz)
    PROVE  /\ Gesichert(s, lz).pos \in 0..Voll
           /\ Gesichert(s, lz).laufzeit = lz
           /\ Gesichert(s, lz) \in [pos : 0..Voll, laufzeit : Laufzeiten]
<1> DEFINE a == 1000 * s.pos
           g == Gerundet(a, Voll)
           q == a \div Voll
<1>1. s.pos \in 0..Voll /\ a \in Nat /\ a <= 1000 * Voll
  BY Grenzen, SMT DEF Gut, Zustaende
<1>2. g \in Nat /\ q \in Nat /\ a % Voll \in 0..(Voll - 1) /\ a = Voll * q + (a % Voll)
  <2>1. a \in Nat /\ Voll \in Nat /\ Voll > 0
    BY <1>1, Grenzen
  <2> HIDE DEF a
  <2>2. g \in Nat
    BY <2>1, RundungTyp
  <2>3. q \in Nat
    BY <2>1, Quotient
  <2>4. a = Voll * q + (a % Voll) /\ a % Voll \in 0..(Voll - 1)
    BY <2>1, Teilung
  <2> QED
    BY <2>2, <2>3, <2>4
<1>3. g = q \/ (g = q + 1 /\ a % Voll > 0)
  <2> DEFINE r == a % Voll
  <2>1. g = IF 2 * r < Voll \/ (2 * r = Voll /\ q % 2 = 0) THEN q ELSE q + 1
    BY DEF Gerundet
  <2>2. r \in Nat
    BY <1>2, Grenzen, SMT
  <2> HIDE DEF r, g, q
  <2>3. g # q => r > 0
    BY <2>1, <2>2, Grenzen, SMT
  <2> QED
    BY <2>1, <2>3 DEF r
<1>4. g <= 1000
  <2> SUFFICES ASSUME g > 1000 PROVE FALSE
    BY <1>2, SMT
  <2> DEFINE r == a % Voll
  <2>1. r \in 0..(Voll - 1) /\ a = Voll * q + r /\ q \in Nat
    BY <1>2
  <2> HIDE DEF r, q, g, a
  <2>2. CASE q >= 1001
    <3>1. Voll * 1001 <= Voll * q
      BY <2>1, <2>2, Grenzen, Monoton, SMT
    <3>2. Voll * q \in Nat
      BY <2>1, Grenzen, Produkt
    <3> DEFINE v == Voll * q
    <3> HIDE DEF v
    <3>3. v \in Nat /\ Voll * 1001 <= v /\ a = v + r
      BY <2>1, <3>1, <3>2 DEF v
    <3> QED
      BY <3>3, <2>1, <1>1, Grenzen, SMT
  <2>3. CASE q = 1000 /\ r > 0
    BY <2>1, <2>3, <1>1, Grenzen, SMT
  <2>4. q >= 1001 \/ (q = 1000 /\ r > 0)
    BY <1>3, <2>1, <1>2, SMT DEF r
  <2> QED
    BY <2>2, <2>3, <2>4
<1>5. Voll * g <= Voll * 1000 /\ g * Voll \in Nat /\ g * Voll = Voll * g
  BY <1>2, <1>4, Grenzen, Monoton, Produkt, SMT
<1>6. (g * Voll) \div 1000 \in 0..Voll
  <2> DEFINE h == g * Voll
  <2>1. h \in Nat /\ h <= 1000 * Voll
    BY <1>5, Grenzen, SMT
  <2> HIDE DEF h
  <2>2. h \div 1000 \in 0..Voll
    BY <2>1, Grenzen, SMT
  <2> QED
    BY <2>2 DEF h
<1> QED
  BY <1>6 DEF Gesichert, LzOk

LEMMA PayloadTyp ==
    ASSUME NEW s \in Zustaende
    PROVE  Payload(s) \in [position : Nat, moving : Richtungen \cup {"none"}]
<1>1. 100 * s.pos \in Nat /\ s.moving \in Richtungen \cup {"none"}
  BY Grenzen, SMT DEF Zustaende
<1> QED
  BY <1>1, Grenzen, RundungTyp DEF Payload

-----------------------------------------------------------------------------
(* The invariant *)

\* What TypeOK and ZielVoraus say, and which commands are under way.
IInv ==
    /\ TypeOK
    /\ VorausIn(st)

LEMMA Uebersetzt == IInv <=> TypeOK /\ ZielVoraus
  BY DEF IInv, VorausIn, ZielVoraus

LEMMA AnfangIInv == Init => IInv
<1> SUFFICES ASSUME Init PROVE IInv
  OBVIOUS
<1>1. Gut(Ruhend(0)) /\ st = Ruhend(0)
  BY Grenzen, RuhendGut, SMT DEF Init
<1>2. laufzeit \in Laufzeiten /\ laufzeit["down"] > 0
  BY RolladenAnnahme, SMT DEF Init, Richtungen
<1>3. gemeldet \in [position : Nat, moving : Richtungen \cup {"none"}]
  BY <1>1, PayloadTyp DEF Init, Gut
<1>4. datei \in [pos : 0..Voll, laufzeit : Laufzeiten] /\ datei.laufzeit["down"] > 0
  BY <1>2, Grenzen, SMT DEF Init
<1>5. sendung \in [Rufer -> [phase : {"frei", "hin"}, cmd : Richtungen \cup {"stop"}, dauer : Nat]]
  BY DEF Init, Frei
<1>6. aktor \in [lauf : Richtungen \cup {"none"}, rest : Nat, gefahren : Nat]
  BY DEF Init, AktorStill
<1>7. offen \in Nat /\ echt \in 0..Voll /\ funk \in Seq(Meldungen)
  BY Grenzen, SMT DEF Init
<1>8. sauber \in BOOLEAN /\ wunsch \in {Ohne} \cup 0..Voll /\ stumm \in BOOLEAN
      /\ neustarts \in 0..MaxNeustarts
  BY Grenzen DEF Init
<1>9. verloren \in BOOLEAN /\ eingaben \in 0..MaxEingaben
  BY Grenzen DEF Init
<1> QED
  BY <1>1, <1>2, <1>3, <1>4, <1>5, <1>6, <1>7, <1>8, <1>9 DEF IInv, TypeOK, Gut

Sendungen == [phase : {"frei", "hin"}, cmd : Richtungen \cup {"stop"}, dauer : Nat]
Aktoren == [lauf : Richtungen \cup {"none"}, rest : Nat, gefahren : Nat]

LEMMA EtwasTyp ==
    ASSUME IInv, Etwas
    PROVE  eingaben' \in 0..MaxEingaben
  BY Grenzen, SMT DEF IInv, TypeOK, Etwas

LEMMA EingabeTyp ==
    ASSUME IInv, Eingabe
    PROVE  eingaben' \in 0..MaxEingaben /\ verloren' \in BOOLEAN
  BY EtwasTyp DEF Eingabe, IInv, TypeOK

LEMMA VerlustTyp ==
    ASSUME IInv, Verlust
    PROVE  eingaben' \in 0..MaxEingaben /\ verloren' \in BOOLEAN
  BY EtwasTyp DEF Verlust

LEMMA FahrdauerTyp ==
    ASSUME NEW p \in 0..Voll, NEW von \in 0..Voll, NEW d, LzOk(laufzeit)
    PROVE  Fahrdauer(p, von, d) \in Nat
<1> DEFINE zeit == TimeFor(laufzeit, d)
           weg == Abstand(p, von)
<1>1. zeit \in Nat
  BY TimeForTyp
<1>2. weg \in Nat
  BY Grenzen, SMT DEF Abstand
<1> HIDE DEF zeit, weg
<1>3. Gerundet(weg * zeit, Voll) \in Nat
  BY <1>1, <1>2, Produkt, Grenzen, RundungTyp
<1>4. zeit + Puffer \in Nat
  BY <1>1, SMT DEF Puffer
<1> QED
  BY <1>3, <1>4 DEF Fahrdauer, zeit, weg

LEMMA UmsteuernTyp ==
    ASSUME IInv, NEW neu \in Aktoren, Umsteuern(neu)
    PROVE  /\ aktor' \in Aktoren /\ echt' \in 0..Voll /\ funk' \in Seq(Meldungen)
<1>1. aktor \in Aktoren /\ funk \in Seq(Meldungen) /\ echt \in 0..Voll
  BY DEF IInv, TypeOK, Aktoren
<1>2. CASE aktor.lauf = "none" /\ UNCHANGED funk
  BY <1>1, <1>2 DEF Umsteuern
<1>3. ASSUME NEW art \in Haltmeldungen, aktor.lauf # "none",
             funk' = Append(funk, Bericht(art, aktor))
      PROVE  funk' \in Seq(Meldungen)
  <2>1. art \in {"fahrt", "stop"}
    BY RolladenAnnahme
  <2>2. Bericht(art, aktor) \in Meldungen
    BY <1>1, <1>3, <2>1 DEF Bericht, Meldungen, Aktoren
  <2> HIDE DEF Meldungen
  <2> QED
    BY <1>1, <1>3, <2>2, SMT
<1> QED
  BY <1>1, <1>2, <1>3 DEF Umsteuern

LEMMA BeginnTyp ==
    ASSUME IInv, NEW r \in Rufer, NEW cmd \in Richtungen \cup {"stop"}, NEW dauer \in Nat,
           NEW ziel \in {Ohne} \cup 0..Voll, Beginn(r, cmd, dauer, ziel), Gut(st')
    PROVE  IInv'
<1>1. sendung' \in [Rufer -> Sendungen]
  BY DEF IInv, TypeOK, Sendungen, Beginn
<1>2. eingaben' \in 0..MaxEingaben /\ verloren' \in BOOLEAN
  BY EingabeTyp DEF Beginn
<1>3. sauber' \in BOOLEAN /\ wunsch' \in {Ohne} \cup 0..Voll
  BY DEF IInv, TypeOK, Beginn
<1> QED
  BY <1>1, <1>2, <1>3 DEF IInv, TypeOK, Sendungen, Beginn, Gut, aussen

LEMMA TempoTyp ==
    ASSUME NEW d \in Richtungen
    PROVE  Tempo(d) \in Nat /\ Tempo(d) > 0
<1> DEFINE l == Laufzeit[d]
           q == Voll \div l
<1>1. l \in Nat /\ l > 0 /\ l <= Voll
  BY RolladenAnnahme, Grenzen, SMT
<1> HIDE DEF l
<1>2. q \in Nat /\ Voll = l * q + (Voll % l) /\ Voll % l \in 0..(l - 1)
  BY <1>1, Grenzen, Quotient, Teilung
<1>3. q # 0
  BY <1>1, <1>2, Grenzen, SMT
<1> HIDE DEF q
<1>4. q > 0
  BY <1>2, <1>3, SMT
<1> QED
  BY <1>2, <1>4 DEF Tempo, l, q

LEMMA SchrittTyp ==
    ASSUME IInv
    PROVE  /\ Schritt \in Nat
           /\ aktor.lauf # "none" => Schritt <= aktor.rest
<1>1. aktor \in Aktoren /\ echt \in 0..Voll
  BY DEF IInv, TypeOK, Aktoren
<1>2. CASE aktor.lauf = "none"
  BY <1>2, Grenzen DEF Schritt
<1>3. CASE aktor.lauf # "none"
  <2> DEFINE d == aktor.lauf
             a == Abstand(echt, Endlage(d)) + Tempo(d) - 1
             t == IF aktor.rest < Takt THEN aktor.rest ELSE Takt
  <2>1. d \in Richtungen /\ aktor.rest \in Nat
    BY <1>1, <1>3 DEF Aktoren
  <2>2. Tempo(d) \in Nat /\ Tempo(d) > 0
    BY <2>1, TempoTyp
  <2>3. Abstand(echt, Endlage(d)) \in Nat
    BY <1>1, EndlageTyp, Grenzen, SMT DEF Abstand
  <2> HIDE DEF d
  <2>4. a \in Nat
    BY <2>2, <2>3, SMT
  <2>5. BisEndlage(d) \in Nat
    BY <2>2, <2>4, Quotient DEF BisEndlage
  <2>6. t \in Nat /\ t <= aktor.rest
    BY <2>1, Grenzen, SMT
  <2>7. Schritt = IF BisEndlage(d) < t THEN BisEndlage(d) ELSE t
    BY <1>3 DEF Schritt, d
  <2> HIDE DEF t
  <2> QED
    BY <2>1, <2>5, <2>6, <2>7, SMT
<1> QED
  BY <1>2, <1>3

LEMMA BewegungTyp ==
    ASSUME IInv, NEW t \in Nat, aktor.lauf # "none" => t <= aktor.rest, Bewegung(t)
    PROVE  aktor' \in Aktoren /\ echt' \in 0..Voll /\ funk' \in Seq(Meldungen)
<1>1. aktor \in Aktoren /\ funk \in Seq(Meldungen) /\ echt \in 0..Voll
  BY DEF IInv, TypeOK, Aktoren
<1>2. CASE aktor.lauf = "none"
  BY <1>1, <1>2 DEF Bewegung, aussen
<1>3. CASE aktor.lauf # "none"
  <2> DEFINE d == aktor.lauf
             neu == [aktor EXCEPT !.rest = @ - t, !.gefahren = @ + t]
  <2>1. d \in Richtungen
    BY <1>1, <1>3 DEF Aktoren
  <2>2. neu \in Aktoren /\ neu.lauf = d
    <3>1. aktor.rest - t \in Nat /\ aktor.gefahren + t \in Nat
      BY <1>1, <1>3, SMT DEF Aktoren
    <3> QED
      BY <1>1, <3>1 DEF Aktoren
  <2>3. t * Tempo(d) \in Nat
    BY <2>1, TempoTyp, Produkt
  <2>4. Verschoben(echt, d, t * Tempo(d)) \in Int
    BY <1>1, <2>3, Grenzen, SMT DEF Verschoben
  <2>5. Begrenzt(Verschoben(echt, d, t * Tempo(d))) \in 0..Voll
    BY <2>4, BegrenztTyp
  <2>6. Bericht("end", neu) \in Meldungen /\ Bericht("fahrt", neu) \in Meldungen
    BY <2>1, <2>2 DEF Bericht, Meldungen, Aktoren
  <2>7. AktorStill \in Aktoren
    BY DEF AktorStill, Aktoren
  <2>8. /\ echt' = Begrenzt(Verschoben(echt, d, t * Tempo(d)))
        /\ aktor' \in {AktorStill, neu}
        /\ funk' \in {funk, Append(funk, Bericht("end", neu)),
                      Append(funk, Bericht("fahrt", neu))}
    <3>1. /\ echt' = Begrenzt(Verschoben(echt, d, t * Tempo(d)))
          /\ IF echt' = Endlage(d)
             THEN aktor' = AktorStill /\ funk' = Append(funk, Bericht("end", neu))
             ELSE IF neu.rest = 0
             THEN aktor' = AktorStill /\ funk' = Append(funk, Bericht("fahrt", neu))
             ELSE aktor' = neu /\ UNCHANGED funk
      BY <1>3 DEF Bewegung
    <3> HIDE DEF neu, d
    <3> QED
      BY <3>1
  <2> HIDE DEF neu, d, Meldungen
  <2>9. funk' \in Seq(Meldungen)
    BY <1>1, <2>6, <2>8, SMT
  <2> QED
    BY <2>2, <2>5, <2>7, <2>8, <2>9
<1> QED
  BY <1>2, <1>3

LEMMA Lage ==
    ASSUME IInv
    PROVE  /\ Gut(st) /\ LzOk(laufzeit)
           /\ datei \in [pos : 0..Voll, laufzeit : Laufzeiten] /\ LzOk(datei.laufzeit)
           /\ sendung \in [Rufer -> Sendungen] /\ aktor \in Aktoren
           /\ funk \in Seq(Meldungen)
  BY DEF IInv, TypeOK, Gut, LzOk, Sendungen, Aktoren

LEMMA SchrittIInv ==
    ASSUME IInv, Next
    PROVE  IInv'
<1>1. ASSUME NEW r \in Rufer, NEW d \in Richtungen, Vollfahrt(r, d)
      PROVE  IInv'
  <2>1. TimeFor(laufzeit, d) + Puffer \in Nat
    BY Lage, TimeForTyp, SMT DEF Puffer
  <2>2. Beginn(r, d, TimeFor(laufzeit, d) + Puffer, Ohne) /\ Gut(st')
    BY <1>1, Lage DEF Vollfahrt
  <2> QED
    BY <2>1, <2>2, BeginnTyp
<1>2. ASSUME NEW r \in Rufer, NEW d \in Richtungen, NEW dauer \in Dauern, Fahren(r, d, dauer)
      PROVE  IInv'
  <2>1. dauer \in Nat
    BY RolladenAnnahme
  <2>2. Beginn(r, d, dauer, Ohne) /\ Gut(st')
    BY <1>2, Lage DEF Fahren
  <2> QED
    BY <2>1, <2>2, BeginnTyp
<1>3. ASSUME NEW r \in Rufer, Stoppen(r)
      PROVE  IInv'
  <2>1. Beginn(r, "stop", 0, Ohne) /\ Gut(st')
    BY <1>3, Lage DEF Stoppen
  <2> QED
    BY <2>1, BeginnTyp
<1>4. ASSUME NEW r \in Rufer, NEW p \in Ziele, PositionFahren(r, p)
      PROVE  IInv'
  <2> DEFINE a == Eingefroren(st, laufzeit)
             d == IF p > a.pos THEN "down" ELSE "up"
  <2>1. p \in 0..Voll
    BY RolladenAnnahme
  <2>2. a \in Zustaende /\ a.pos \in 0..Voll
    BY Lage, EingefrorenGut DEF Gut, Zustaende
  <2>3. /\ st' = [a EXCEPT !.moving = d, !.seit = 0, !.ziel = p]
        /\ Beginn(r, d, Fahrdauer(p, a.pos, d), p)
    BY <1>4 DEF PositionFahren
  <2>4. d \in Richtungen
    BY DEF Richtungen
  <2>5. IF d = "down" THEN p >= a.pos ELSE p <= a.pos
    BY <2>1, <2>2, Grenzen, SMT
  <2> HIDE DEF a, d
  <2>6. st' \in Zustaende
    BY <2>1, <2>2, <2>3, <2>4, Grenzen DEF Zustaende
  <2>7. VorausIn(st')
    BY <2>2, <2>3, <2>4, <2>5 DEF VorausIn, Zustaende, Richtungen
  <2>8. Fahrdauer(p, a.pos, d) \in Nat
    BY <2>1, <2>2, Lage, FahrdauerTyp
  <2> QED
    BY <2>1, <2>3, <2>4, <2>6, <2>7, <2>8, BeginnTyp DEF Gut
<1>5. ASSUME NEW r \in Rufer, NEW p \in Ziele, PositionErreicht(r, p)
      PROVE  IInv'
  <2>1. p \in 0..Voll
    BY RolladenAnnahme
  <2>2. Gut(st')
    BY <1>5, Lage, EingefrorenGut DEF PositionErreicht
  <2>3. datei' \in [pos : 0..Voll, laufzeit : Laufzeiten] /\ LzOk(datei'.laufzeit)
    <3>1. datei' = datei \/ datei' = Gesichert(st', laufzeit)
      BY <1>5 DEF PositionErreicht
    <3>2. Gesichert(st', laufzeit).laufzeit = laufzeit
      BY <2>2, Lage, GesichertOk
    <3> QED
      BY <3>1, <3>2, <2>2, Lage, GesichertOk
  <2>4. eingaben' \in 0..MaxEingaben /\ verloren' \in BOOLEAN
    BY <1>5, EingabeTyp DEF PositionErreicht
  <2>5. sauber' \in BOOLEAN /\ wunsch' \in {Ohne} \cup 0..Voll /\ stumm' \in BOOLEAN
    BY <1>5, <2>1 DEF IInv, TypeOK, PositionErreicht
  <2> QED
    BY <1>5, <2>2, <2>3, <2>4, <2>5 DEF IInv, TypeOK, PositionErreicht, Gut, LzOk, aussen
<1>6. ASSUME NEW r \in Rufer, NEW g \in BOOLEAN, Abschluss(r, g)
      PROVE  IInv'
  <2> DEFINE s == sendung[r]
             neu == IF s.cmd = "stop" THEN AktorStill
                    ELSE Fahrt(s.cmd, IF s.dauer = 0 THEN Eigenzeit ELSE s.dauer)
  <2>1. s \in Sendungen
    BY Lage
  <2>2. neu \in Aktoren
    BY <2>1, Grenzen DEF Sendungen, Aktoren, AktorStill, Fahrt
  <2>3. Gut(st') /\ st' \in Zustaende
    BY <1>6, <2>1, Lage, NachSendenGut DEF Abschluss, Sendungen, Gut
  <2>4. gemeldet' \in [position : Nat, moving : Richtungen \cup {"none"}]
    BY <1>6, <2>3, PayloadTyp DEF Abschluss
  <2>5. datei' \in [pos : 0..Voll, laufzeit : Laufzeiten] /\ LzOk(datei'.laufzeit)
    <3>1. datei' = datei \/ datei' = Gesichert(st', laufzeit)
      BY <1>6 DEF Abschluss
    <3>2. Gesichert(st', laufzeit).laufzeit = laufzeit
      BY <2>3, Lage, GesichertOk
    <3> QED
      BY <3>1, <3>2, <2>3, Lage, GesichertOk
  <2>6. sendung' \in [Rufer -> Sendungen]
    BY <1>6, Lage DEF Abschluss, Frei, Sendungen
  <2>7. /\ aktor' \in Aktoren /\ echt' \in 0..Voll /\ funk' \in Seq(Meldungen)
        /\ sauber' \in BOOLEAN /\ wunsch' \in {Ohne} \cup 0..Voll
        /\ eingaben' \in 0..MaxEingaben /\ verloren' \in BOOLEAN
    <3>1. CASE g
      BY <1>6, <2>2, <3>1, UmsteuernTyp DEF Abschluss, IInv, TypeOK, zaehler
    <3>2. CASE ~g
      BY <1>6, <3>2, VerlustTyp DEF Abschluss, IInv, TypeOK, aussen, Aktoren
    <3> QED
      BY <3>1, <3>2
  <2> QED
    BY <1>6, <2>3, <2>4, <2>5, <2>6, <2>7
    DEF IInv, TypeOK, Abschluss, Gut, LzOk, Sendungen, Aktoren
<1>7. ASSUME NEW d \in Richtungen, NEW s \in BOOLEAN, NEW a \in BOOLEAN, Taster(d, s, a)
      PROVE  IInv'
  <2> DEFINE neu == IF aktor.lauf = "none" THEN Fahrt(d, Eigenzeit) ELSE AktorStill
  <2>1. neu \in Aktoren
    BY Grenzen DEF Aktoren, AktorStill, Fahrt
  <2>2. Gut(st') /\ offen' \in Nat
    <3>1. CASE s
      BY <1>7, <3>1, Lage, NachTasterGut, SMT DEF Taster, Planen, IInv, TypeOK
    <3>2. CASE ~s
      BY <1>7, <3>2, Lage DEF Taster, IInv, TypeOK
    <3> QED
      BY <3>1, <3>2
  <2>3. aktor' \in Aktoren /\ echt' \in 0..Voll /\ funk' \in Seq(Meldungen)
    <3>1. CASE a
      BY <1>7, <2>1, <3>1, UmsteuernTyp DEF Taster
    <3>2. CASE ~a
      BY <1>7, <3>2 DEF Taster, IInv, TypeOK, aussen, Aktoren
    <3> QED
      BY <3>1, <3>2
  <2>4. eingaben' \in 0..MaxEingaben /\ verloren' \in BOOLEAN
    BY <1>7, EingabeTyp, VerlustTyp DEF Taster
  <2>5. sauber' \in BOOLEAN /\ wunsch' \in {Ohne} \cup 0..Voll
    BY <1>7 DEF IInv, TypeOK, Taster
  <2> QED
    BY <1>7, <2>2, <2>3, <2>4, <2>5 DEF IInv, TypeOK, Taster, Gut, Aktoren
<1>8. CASE Tick
  <2>1. Schritt \in Nat /\ (aktor.lauf # "none" => Schritt <= aktor.rest)
    BY SchrittTyp
  <2>2. aktor' \in Aktoren /\ echt' \in 0..Voll /\ funk' \in Seq(Meldungen)
    BY <1>8, <2>1, BewegungTyp DEF Tick
  <2>3. Gut(st')
    <3>1. st \in Zustaende /\ VorausIn(st) /\ st.seit \in 0..MaxSeit
      BY Lage DEF Gut, Zustaende
    <3> DEFINE n == IF st.seit + Schritt < MaxSeit THEN st.seit + Schritt ELSE MaxSeit
    <3>2. n \in 0..MaxSeit
      BY <2>1, <3>1, Grenzen, SMT
    <3>3. st' = st \/ st' = [st EXCEPT !.seit = n]
      BY <1>8 DEF Tick
    <3> HIDE DEF n
    <3>4. [st EXCEPT !.seit = n] \in Zustaende /\ VorausIn([st EXCEPT !.seit = n])
      BY <3>1, <3>2 DEF Zustaende, VorausIn
    <3> QED
      BY <3>1, <3>3, <3>4 DEF Gut
  <2>4. sauber' \in BOOLEAN /\ wunsch' \in {Ohne} \cup 0..Voll
    BY <1>8 DEF IInv, TypeOK, Tick
  <2> QED
    BY <1>8, <2>2, <2>3, <2>4 DEF IInv, TypeOK, Tick, Gut, Aktoren, zaehler
<1>9. CASE Melden
  <2>1. Head(funk) \in Meldungen /\ Tail(funk) \in Seq(Meldungen)
    <3>1. funk \in Seq(Meldungen) /\ funk # <<>>
      BY <1>9, Lage DEF Melden
    <3> HIDE DEF Meldungen
    <3> QED
      BY <3>1, SMT
  <2>2. Gut(st')
    BY <1>9, <2>1, Lage, NachMeldungGut DEF Melden
  <2>3. LzOk(laufzeit')
    BY <1>9, <2>1, Lage, AngepasstOk DEF Melden
  <2>4. offen' \in Nat
    BY <1>9, SMT DEF Melden, Planen, IInv, TypeOK
  <2>5. sauber' \in BOOLEAN /\ wunsch' \in {Ohne} \cup 0..Voll /\ neustarts' \in 0..MaxNeustarts
    BY <1>9, Grenzen DEF IInv, TypeOK, Melden
  <2> QED
    BY <1>9, <2>1, <2>2, <2>3, <2>4, <2>5 DEF IInv, TypeOK, Melden, Gut, LzOk, zaehler
<1>10. CASE MeldungVerloren
  <2>1. Tail(funk) \in Seq(Meldungen)
    <3>1. funk \in Seq(Meldungen) /\ funk # <<>>
      BY <1>10, Lage DEF MeldungVerloren
    <3> HIDE DEF Meldungen
    <3> QED
      BY <3>1, SMT
  <2>2. eingaben' \in 0..MaxEingaben /\ verloren' \in BOOLEAN
    BY <1>10, VerlustTyp DEF MeldungVerloren
  <2> QED
    BY <1>10, <2>1, <2>2 DEF IInv, TypeOK, MeldungVerloren, server
<1>11. CASE Veroeffentlichen
  <2>1. offen' \in Nat
    BY <1>11, SMT DEF Veroeffentlichen, IInv, TypeOK
  <2>2. gemeldet' \in [position : Nat, moving : Richtungen \cup {"none"}]
    BY <1>11, PayloadTyp DEF Veroeffentlichen, IInv, TypeOK
  <2> QED
    BY <1>11, <2>1, <2>2 DEF IInv, TypeOK, Veroeffentlichen, server, aussen, zaehler
<1>12. ASSUME NEW p \in Staende, StandSetzen(p)
       PROVE  IInv'
  <2>1. Gut(st')
    BY <1>12, RolladenAnnahme, RuhendGut DEF StandSetzen
  <2>2. datei' \in [pos : 0..Voll, laufzeit : Laufzeiten] /\ LzOk(datei'.laufzeit)
    <3>1. Gesichert(st', laufzeit).laufzeit = laufzeit
      BY <2>1, Lage, GesichertOk
    <3> QED
      BY <1>12, <3>1, <2>1, Lage, GesichertOk DEF StandSetzen
  <2>3. eingaben' \in 0..MaxEingaben /\ verloren' \in BOOLEAN
    BY <1>12, EingabeTyp DEF StandSetzen
  <2>4. sauber' \in BOOLEAN /\ wunsch' \in {Ohne} \cup 0..Voll /\ stumm' \in BOOLEAN
        /\ neustarts' \in 0..MaxNeustarts
    BY <1>12, Grenzen DEF IInv, TypeOK, StandSetzen
  <2> QED
    BY <1>12, <2>1, <2>2, <2>3, <2>4 DEF IInv, TypeOK, StandSetzen, Gut, LzOk, aussen
<1>13. ASSUME NEW k \in Kalibrierungen, Kalibrieren(k)
       PROVE  IInv'
  <2>1. LzOk(k)
    BY RolladenAnnahme DEF LzOk
  <2>2. datei' \in [pos : 0..Voll, laufzeit : Laufzeiten] /\ LzOk(datei'.laufzeit)
    <3>1. Gesichert(st, k).laufzeit = k
      BY <2>1, Lage, GesichertOk
    <3> QED
      BY <1>13, <3>1, <2>1, Lage, GesichertOk DEF Kalibrieren
  <2>3. eingaben' \in 0..MaxEingaben /\ verloren' \in BOOLEAN
    BY <1>13, EingabeTyp DEF Kalibrieren
  <2>4. sauber' \in BOOLEAN /\ wunsch' \in {Ohne} \cup 0..Voll
    BY <1>13 DEF IInv, TypeOK, Kalibrieren
  <2> QED
    BY <1>13, <2>1, <2>2, <2>3, <2>4 DEF IInv, TypeOK, Kalibrieren, Gut, LzOk, aussen
<1>14. ASSUME NEW g \in BOOLEAN, Neustart(g)
       PROVE  IInv'
  <2>1. datei' \in [pos : 0..Voll, laufzeit : Laufzeiten] /\ LzOk(datei'.laufzeit)
    <3>1. datei' = datei \/ datei' = Gesichert(st, laufzeit)
      BY <1>14 DEF Neustart
    <3>2. Gesichert(st, laufzeit).laufzeit = laufzeit
      BY Lage, GesichertOk
    <3> QED
      BY <3>1, <3>2, Lage, GesichertOk
  <2>2. Gut(st') /\ LzOk(laufzeit')
    BY <1>14, <2>1, RuhendGut DEF Neustart
  <2>3. eingaben' \in 0..MaxEingaben /\ verloren' \in BOOLEAN
    BY <1>14, EingabeTyp DEF Neustart
  <2>4. sendung' \in [Rufer -> Sendungen] /\ funk' \in Seq(Meldungen) /\ offen' \in Nat
    BY <1>14, SMT DEF Neustart, Frei, Sendungen
  <2>5. /\ sauber' \in BOOLEAN /\ wunsch' \in {Ohne} \cup 0..Voll /\ stumm' \in BOOLEAN
        /\ neustarts' \in 0..MaxNeustarts
    <3>1. sauber' \in BOOLEAN /\ (sauber' => neustarts < MaxNeustarts)
      BY <1>14 DEF IInv, TypeOK, Neustart
    <3>2. neustarts' = IF sauber' THEN neustarts + 1 ELSE neustarts
      BY <1>14 DEF Neustart
    <3>3. neustarts' \in 0..MaxNeustarts
      BY <3>1, <3>2, Grenzen, SMT DEF IInv, TypeOK
    <3> QED
      BY <1>14, <3>1, <3>3 DEF IInv, TypeOK, Neustart
  <2> QED
    BY <1>14, <2>1, <2>2, <2>3, <2>4, <2>5
    DEF IInv, TypeOK, Neustart, Gut, LzOk, Sendungen
<1> QED
  BY <1>1, <1>2, <1>3, <1>4, <1>5, <1>6, <1>7, <1>8, <1>9, <1>10, <1>11, <1>12, <1>13, <1>14
  DEF Next, Befehl

LEMMA StillstandIInv ==
    ASSUME IInv, UNCHANGED vars
    PROVE  IInv'
  BY DEF IInv, VorausIn, TypeOK, vars, server, aussen, zaehler

THEOREM InvImmer == Spec => []IInv
<1>1. IInv /\ [Next]_vars => IInv'
  BY SchrittIInv, StillstandIInv
<1> QED
  BY AnfangIInv, <1>1, PTL DEF Spec

\* Positions stay between open and closed and every record keeps its shape,
\* for all travel times that a calibration or a measurement can enter.
THEOREM TypKorrekt == Spec => []TypeOK
<1>1. IInv => TypeOK
  BY DEF IInv
<1> QED
  BY InvImmer, <1>1, PTL

\* The target of a movement lies ahead of it.
THEOREM ZielImmerVoraus == Spec => []ZielVoraus
<1>1. IInv => ZielVoraus
  BY Uebersetzt
<1> QED
  BY InvImmer, <1>1, PTL

-----------------------------------------------------------------------------
(* The published state *)

LEMMA AnfangAnzeige == Init => AnzeigeAktuell
  BY DEF Init, AnzeigeAktuell

LEMMA SchrittAnzeige ==
    ASSUME IInv, AnzeigeAktuell, Next
    PROVE  AnzeigeAktuell'
<1>0. offen \in Nat /\ sendung \in [Rufer -> Sendungen]
  BY Lage DEF IInv, TypeOK
<1>1. ASSUME NEW r \in Rufer, NEW cmd, NEW dauer, NEW ziel, Beginn(r, cmd, dauer, ziel)
      PROVE  AnzeigeAktuell'
  <2>1. sendung'[r] # Frei
    BY <1>0, <1>1 DEF Beginn, Frei
  <2> QED
    BY <2>1 DEF AnzeigeAktuell, NichtsGesendet
<1>2. ASSUME NEW r \in Rufer, NEW p \in Ziele, PositionErreicht(r, p)
      PROVE  AnzeigeAktuell'
  <2>1. stumm' \/ st' = st
    BY <1>2 DEF PositionErreicht, IInv, TypeOK
  <2> QED
    BY <1>2, <2>1 DEF AnzeigeAktuell, PositionErreicht, NichtsGesendet, IInv, TypeOK
<1>3. ASSUME NEW r \in Rufer, NEW g \in BOOLEAN, Abschluss(r, g)
      PROVE  AnzeigeAktuell'
  BY <1>3 DEF AnzeigeAktuell, Abschluss
<1>4. ASSUME NEW d \in Richtungen, NEW s \in BOOLEAN, NEW a \in BOOLEAN, Taster(d, s, a)
      PROVE  AnzeigeAktuell'
  <2>1. CASE s
    <3>1. offen' # 0
      BY <1>0, <1>4, <2>1, SMT DEF Taster, Planen
    <3> QED
      BY <3>1 DEF AnzeigeAktuell
  <2>2. CASE ~s
    BY <1>4, <2>2 DEF AnzeigeAktuell, Taster, NichtsGesendet
  <2> QED
    BY <2>1, <2>2
<1>5. CASE Tick
  <2>1. st'.pos = st.pos /\ st'.moving = st.moving
    BY <1>5, Lage DEF Tick, Gut, Zustaende
  <2>2. Payload(st') = Payload(st)
    BY <2>1 DEF Payload
  <2>3. /\ offen' = offen /\ sendung' = sendung /\ stumm' = stumm /\ gemeldet' = gemeldet
    BY <1>5 DEF Tick
  <2> QED
    BY <2>2, <2>3 DEF AnzeigeAktuell, NichtsGesendet
<1>6. CASE Melden
  <2>1. offen' # 0
    BY <1>0, <1>6, SMT DEF Melden, Planen
  <2> QED
    BY <2>1 DEF AnzeigeAktuell
<1>7. CASE MeldungVerloren
  BY <1>7 DEF AnzeigeAktuell, MeldungVerloren, server, NichtsGesendet
<1>8. CASE Veroeffentlichen
  BY <1>8 DEF AnzeigeAktuell, Veroeffentlichen, server
<1>9. ASSUME NEW p \in Staende, StandSetzen(p)
      PROVE  AnzeigeAktuell'
  <2>1. stumm' \/ st' = st
    BY <1>9 DEF StandSetzen, IInv, TypeOK
  <2> QED
    BY <1>9, <2>1 DEF AnzeigeAktuell, StandSetzen, NichtsGesendet, IInv, TypeOK
<1>10. ASSUME NEW k \in Kalibrierungen, Kalibrieren(k)
       PROVE  AnzeigeAktuell'
  BY <1>10 DEF AnzeigeAktuell, Kalibrieren, NichtsGesendet
<1>11. ASSUME NEW g \in BOOLEAN, Neustart(g)
       PROVE  AnzeigeAktuell'
  BY <1>11 DEF AnzeigeAktuell, Neustart
<1> QED
  BY <1>1, <1>2, <1>3, <1>4, <1>5, <1>6, <1>7, <1>8, <1>9, <1>10, <1>11
  DEF Next, Befehl, Fahren, Vollfahrt, Stoppen, PositionFahren

\* With nothing under way the retained payload is the computed state, whatever
\* commands, reports, presses and restarts came in which order, except after
\* the three paths that do not publish.
THEOREM AnzeigeStimmt == Spec => []AnzeigeAktuell
<1>1. IInv /\ AnzeigeAktuell /\ [Next]_vars => AnzeigeAktuell'
  <2>1. ASSUME AnzeigeAktuell, UNCHANGED vars PROVE AnzeigeAktuell'
    BY <2>1 DEF AnzeigeAktuell, vars, server, NichtsGesendet
  <2> QED
    BY <2>1, SchrittAnzeige
<1> QED
  BY InvImmer, AnfangAnzeige, <1>1, PTL DEF Spec

-----------------------------------------------------------------------------
(* The computed position is the real one *)

\* The way to the end stop
Bis(d, x) == Abstand(x, Endlage(d))

Nahe(a, b, n) == 2000 * Abstand(a, b) <= n * Voll

LEMMA BisWirkt ==
    ASSUME NEW d \in Richtungen, NEW x \in 0..Voll, NEW y \in 0..Voll, NEW w \in Nat
    PROVE  /\ Bis(d, x) \in 0..Voll
           /\ Abstand(x, y) = Abstand(Bis(d, x), Bis(d, y))
           /\ Bis(d, x) = 0 <=> x = Endlage(d)
           /\ Begrenzt(Verschoben(x, d, w)) \in 0..Voll
           /\ Bis(d, Begrenzt(Verschoben(x, d, w))) = IF w < Bis(d, x) THEN Bis(d, x) - w ELSE 0
<1>1. CASE d = "down"
  BY <1>1, Grenzen, SMT DEF Bis, Abstand, Endlage, Begrenzt, Verschoben
<1>2. CASE d = "up"
  BY <1>2, Grenzen, SMT DEF Bis, Abstand, Endlage, Begrenzt, Verschoben
<1> QED
  BY <1>1, <1>2 DEF Richtungen

LEMMA MassDerFahrt ==
    ASSUME Massstab, NEW d \in Richtungen
    PROVE  /\ Tempo(d) \in Nat /\ Tempo(d) > 0 /\ 51 * Tempo(d) <= Voll
           /\ Laufzeit[d] \in 51..255 /\ Laufzeit[d] <= MaxSeit
           /\ Laufzeit[d] * Tempo(d) = Voll
           /\ TimeFor(Laufzeit, d) = Laufzeit[d]
<1> DEFINE t == Tempo(d)
           l == Laufzeit[d]
<1>1. t \in Nat /\ t > 0 /\ l \in 51..255 /\ l <= MaxSeit /\ l * t = Voll
  BY TempoTyp, RolladenAnnahme, SMT DEF Massstab, Laufzeiten
<1>2. TimeFor(Laufzeit, d) = l
  BY <1>1, SMT DEF TimeFor, Richtungen
<1> HIDE DEF t, l
<1>3. 51 * t <= l * t
  BY <1>1, SMT
<1> QED
  BY <1>1, <1>2, <1>3 DEF t, l

LEMMA MassDerNeustarts ==
    ASSUME Massstab, NEW n \in 0..MaxNeustarts
    PROVE  /\ n * Voll \in Nat /\ n * Voll <= 9 * Voll
           /\ (n + 1) * Voll = n * Voll + Voll
<1>1. n \in Nat /\ n <= 9 /\ Voll \in Nat
  BY Grenzen, SMT DEF Massstab
<1> QED
  BY <1>1, SMT

LEMMA KeinWeg ==
    ASSUME Massstab, NEW d \in Richtungen, NEW g \in Nat
    PROVE  (g * Voll) \div TimeFor(Laufzeit, d) = g * Tempo(d)
<1> DEFINE t == Tempo(d)
           l == Laufzeit[d]
           w == g * t
<1>1. t \in Nat /\ l \in Nat /\ l > 0 /\ l * t = Voll /\ TimeFor(Laufzeit, d) = l
  BY MassDerFahrt, SMT
<1> HIDE DEF t, l
<1>2. w \in Nat /\ g * Voll = l * w
  BY <1>1, SMT
<1> HIDE DEF w
<1>3. (l * w) \div l = w
  BY <1>1, <1>2, SMT
<1> QED
  BY <1>1, <1>2, <1>3 DEF w, t


\* How long the run to an end stop took, measured at the position computed
Gemessen(d, pos, g, n) ==
    /\ 2000 * Bis(d, pos) <= 2000 * (g * Tempo(d)) + n * Voll
    /\ 2000 * (g * Tempo(d)) <= 2000 * Bis(d, pos) + n * Voll + 2000 * Tempo(d)

\* The quotient of two numbers, from bounds on their multiples
LEMMA Eingrenzung ==
    ASSUME NEW a \in Nat, NEW b \in Nat, b > 0, NEW l \in Nat, NEW u \in Nat,
           l * b <= a, a <= u * b
    PROVE  a \div b \in l..u
<1> DEFINE q == a \div b
           r == a % b
<1>1. q \in Nat /\ a = b * q + r /\ r \in 0..(b - 1)
  BY Quotient, Teilung
<1> HIDE DEF q, r
<1>2. q >= l
  <2> SUFFICES ASSUME q + 1 <= l PROVE FALSE
    BY <1>1, SMT
  <2>1. b * (q + 1) <= b * l
    BY <1>1, SMT
  <2>2. b * (q + 1) = b * q + b /\ b * l = l * b
    BY <1>1, SMT
  <2> QED
    BY <1>1, <2>1, <2>2, SMT
<1>3. q <= u
  <2> SUFFICES ASSUME u + 1 <= q PROVE FALSE
    BY <1>1, SMT
  <2>1. b * (u + 1) <= b * q
    BY <1>1, SMT
  <2>2. b * (u + 1) = u * b + b
    BY <1>1, SMT
  <2> QED
    BY <1>1, <2>1, <2>2, SMT
<1> QED
  BY <1>1, <1>2, <1>3 DEF q

\* A run that was not disturbed measures the travel time to within 22 tenths
\* of a second, which _adjust_travel_time weighs with one fifth.
LEMMA MessungBleibt ==
    ASSUME Massstab, NEW s \in Zustaende, NEW m \in Meldungen, NEW n \in 0..MaxNeustarts,
           s.seit = m.dauer, Gemessen(m.richtung, s.pos, m.dauer, n)
    PROVE  Angepasst(s, Laufzeit, m) = Laufzeit
<1> DEFINE d == m.richtung
           t == Tempo(d)
           alt == TimeFor(Laufzeit, d)
           weg == Abstand(Endlage(d), s.pos)
           g == s.seit
           gemessen == (g * Voll) \div weg
           neu == Gerundet(8 * alt + 2 * gemessen, 10)
<1>1. d \in Richtungen /\ g \in Nat /\ s.pos \in 0..Voll
  BY Grenzen, SMT DEF Meldungen, Zustaende
<1>2. t \in Nat /\ t > 0 /\ alt \in 51..255 /\ alt * t = Voll
  BY <1>1, MassDerFahrt
<1>3. weg = Bis(d, s.pos) /\ weg \in 0..Voll
  BY <1>1, EndlageTyp, Grenzen, SMT DEF Bis, Abstand
<1>4. n * Voll \in Nat /\ n * Voll <= 9 * Voll
  BY MassDerNeustarts
<1>5. ASSUME ~(10 * weg < Voll) PROVE Abstand(neu, alt) < 5
  <2> DEFINE v == g * t
             w == v * alt
             o == weg * alt
  <2>1. v \in Nat /\ o \in Nat /\ w \in Nat
    BY <1>1, <1>2, <1>3, SMT
  <2>2. g * Voll = w
    BY <1>1, <1>2, SMT
  <2>3. 2000 * weg <= 2000 * v + 9 * Voll /\ 2000 * v <= 2000 * weg + 9 * Voll + 2000 * t
    <3>1. 2000 * weg <= 2000 * v + n * Voll /\ 2000 * v <= 2000 * weg + n * Voll + 2000 * t
      BY <1>3 DEF Gemessen
    <3> DEFINE k == n * Voll
    <3> HIDE DEF v, weg, t, k
    <3>2. k \in Nat /\ k <= 9 * Voll
      BY <1>4 DEF k
    <3>3. 2000 * weg <= 2000 * v + k /\ 2000 * v <= 2000 * weg + k + 2000 * t
      BY <3>1 DEF k
    <3>4. t \in Nat /\ weg \in Nat /\ v \in Nat /\ Voll \in Nat
      BY <1>2, <1>3, <2>1, Grenzen, SMT
    <3> QED
      BY <3>2, <3>3, <3>4, SMT
  <2> DEFINE x == Voll * alt
  <2>4. x \in Nat /\ x <= 255 * Voll /\ t * alt = Voll
    BY <1>2, Grenzen, SMT
  <2>5. 2000 * o <= 2000 * w + 9 * x /\ 2000 * w <= 2000 * o + 9 * x + 2000 * Voll
    <3> HIDE DEF v, weg, t, alt
    <3>0. v \in Nat /\ weg \in Nat /\ alt \in Nat /\ t \in Nat /\ Voll \in Nat
      BY <1>2, <1>3, <2>1, Grenzen, SMT
    <3>1. (2000 * weg) * alt <= (2000 * v + 9 * Voll) * alt
      BY <2>3, <3>0, SMT
    <3>2. (2000 * v) * alt <= (2000 * weg + 9 * Voll + 2000 * t) * alt
      BY <2>3, <3>0, SMT
    <3>3. /\ (2000 * weg) * alt = 2000 * (weg * alt)
          /\ (2000 * v) * alt = 2000 * (v * alt)
          /\ (2000 * v + 9 * Voll) * alt = 2000 * (v * alt) + 9 * (Voll * alt)
          /\ (2000 * weg + 9 * Voll + 2000 * t) * alt
                = 2000 * (weg * alt) + 9 * (Voll * alt) + 2000 * (t * alt)
      BY <3>0, SMT
    <3> QED
      BY <2>4, <3>1, <3>2, <3>3
  <2>6. weg \in Nat /\ weg > 0 /\ Voll <= 10 * weg /\ Voll \in Nat
    BY <1>3, <1>5, Grenzen, SMT
  <2>7. alt \in Nat /\ alt - 12 \in Nat /\ alt + 22 \in Nat
    BY <1>2, SMT
  <2>8. (alt - 12) * weg = o - 12 * weg /\ (alt + 22) * weg = o + 22 * weg
    BY <2>6, <2>7, SMT
  <2>9. (alt - 12) * weg <= w /\ w <= (alt + 22) * weg
    <3> HIDE DEF w, o, x, weg, alt
    <3> QED
      BY <2>1, <2>4, <2>5, <2>6, <2>8, SMT
  <2>10. gemessen \in (alt - 12)..(alt + 22)
    <3> HIDE DEF w, weg, alt
    <3> QED
      BY <2>1, <2>2, <2>6, <2>7, <2>9, Eingrenzung
  <2> HIDE DEF gemessen, alt
  <2>11. PICK e \in (-12)..22 : gemessen = alt + e
    <3>1. gemessen - alt \in (-12)..22 /\ gemessen = alt + (gemessen - alt)
      BY <2>7, <2>10, SMT
    <3> QED
      BY <3>1
  <2>12. neu \in (alt - 3)..(alt + 4)
    <3>1. 8 * alt + 2 * gemessen = 10 * alt + 2 * e
      BY <2>7, <2>11, SMT
    <3>2. (10 * alt + 2 * e) \div 10 = alt + ((2 * e) \div 10) /\ (10 * alt + 2 * e) % 10 = (2 * e) % 10
      BY <2>7, <2>11, SMT
    <3>3. /\ (2 * e) \div 10 \in (-3)..4
          /\ (2 * e) \div 10 = 4 => 2 * ((2 * e) % 10) < 10
      BY <2>11, SMT
    <3> QED
      BY <2>7, <2>11, <3>1, <3>2, <3>3, SMT DEF Gerundet
  <2> QED
    BY <2>7, <2>12, SMT DEF Abstand
<1> QED
  BY <1>5 DEF Angepasst


\* What the runs add up to: so far gefahren = g, at e, from the position pos.
Unterwegs(d, pos, e, g, n) ==
    /\ Nahe(Bis(d, pos), Bis(d, e) + g * Tempo(d), n)
    /\ Bis(d, e) + g * Tempo(d) <= Voll

\* A report tells the distance between the state and the shutter.
Passt(m, s, e, n) ==
    /\ s.moving = m.richtung /\ s.seit = m.dauer
    /\ \/ m.art = "fahrt" /\ Unterwegs(m.richtung, s.pos, e, m.dauer, n) /\ e # Endlage(m.richtung)
       \/ m.art = "end" /\ Gemessen(m.richtung, s.pos, m.dauer, n) /\ e = Endlage(m.richtung)

LEMMA MeldungStimmt ==
    ASSUME Massstab, NEW s \in Zustaende, NEW m \in Meldungen, NEW e \in 0..Voll,
           NEW n \in 0..MaxNeustarts, Passt(m, s, e, n)
    PROVE  /\ Angepasst(s, Laufzeit, m) = Laufzeit
           /\ NachMeldung(s, Laufzeit, m).moving = "none"
           /\ Nahe(NachMeldung(s, Laufzeit, m).pos, e, IF m.art = "end" THEN 0 ELSE n)
<1> DEFINE d == m.richtung
           g == m.dauer
           t == Tempo(d)
<1>0. d \in Richtungen /\ g \in Nat /\ s.pos \in 0..Voll
  BY DEF Meldungen, Zustaende
<1>1. t \in Nat /\ t > 0 /\ Laufzeit[d] \in 51..255 /\ Laufzeit[d] * t = Voll
      /\ TimeFor(Laufzeit, d) = Laufzeit[d]
  BY <1>0, MassDerFahrt
<1>2. n * Voll \in Nat
  BY MassDerNeustarts
<1>3. CASE m.art = "end"
  <2>1. Gemessen(d, s.pos, g, n) /\ e = Endlage(d)
    BY <1>3 DEF Passt
  <2>2. Angepasst(s, Laufzeit, m) = Laufzeit
    BY <2>1, MessungBleibt DEF Passt
  <2>3. NachMeldung(s, Laufzeit, m) = Ruhend(e)
    BY <1>3, <2>1 DEF NachMeldung
  <2>4. Nahe(e, e, 0)
    BY Grenzen, SMT DEF Nahe, Abstand
  <2> QED
    BY <1>3, <2>2, <2>3, <2>4 DEF Ruhend
<1>4. CASE m.art = "fahrt"
  <2>1. Unterwegs(d, s.pos, e, g, n) /\ e # Endlage(d)
    BY <1>4 DEF Passt
  <2>2. Bis(d, e) \in 1..Voll /\ Bis(d, s.pos) \in 0..Voll
    BY <1>0, <2>1, BisWirkt, SMT
  <2> DEFINE w == g * t
             p == Begrenzt(Verschoben(s.pos, d, w))
             l == Laufzeit[d]
  <2>3. w \in Nat /\ w < Voll
    <3>1. w \in Nat
      BY <1>0, <1>1, SMT
    <3> HIDE DEF w
    <3>2. Bis(d, e) + w <= Voll
      BY <2>1 DEF Unterwegs, w
    <3> QED
      BY <2>2, <3>1, <3>2, Grenzen, SMT
  <2>4. g < l
    <3> HIDE DEF l, t
    <3> SUFFICES ASSUME l <= g PROVE FALSE
      BY <1>0, <1>1, SMT DEF l
    <3>1. l * t <= g * t
      BY <1>0, <1>1, SMTT(30) DEF l
    <3> QED
      BY <1>1, <2>3, <3>1, Grenzen, SMT DEF l
  <2>5. Gelesen(g) = g
    BY <1>0, <1>1, <2>4, DauerLesbar, SMT
  <2>6. NachMeldung(s, Laufzeit, m) = Ruhend(p)
    <3>1. ~(g >= TimeFor(Laufzeit, d)) /\ (g * Voll) \div TimeFor(Laufzeit, d) = w
      BY <1>0, <1>1, <2>4, KeinWeg, SMT
    <3> QED
      BY <1>4, <2>5, <3>1 DEF NachMeldung
  <2>7. Nahe(p, e, n)
    <3>1. /\ p \in 0..Voll /\ Abstand(p, e) = Abstand(Bis(d, p), Bis(d, e))
          /\ Bis(d, p) = IF w < Bis(d, s.pos) THEN Bis(d, s.pos) - w ELSE 0
      <4>1. p \in 0..Voll /\ Bis(d, p) = IF w < Bis(d, s.pos) THEN Bis(d, s.pos) - w ELSE 0
        BY <1>0, <2>3, BisWirkt
      <4> HIDE DEF p, w
      <4> QED
        BY <1>0, <4>1, BisWirkt
    <3>2. 2000 * Abstand(Bis(d, s.pos), Bis(d, e) + w) <= n * Voll
      BY <2>1 DEF Unterwegs, Nahe
    <3>3. Abstand(Bis(d, p), Bis(d, e)) <= Abstand(Bis(d, s.pos), Bis(d, e) + w)
      <4> HIDE DEF p, w
      <4> QED
        BY <2>2, <2>3, <3>1, SMT DEF Abstand
    <3>4. Abstand(Bis(d, p), Bis(d, e)) \in Nat /\ Abstand(Bis(d, s.pos), Bis(d, e) + w) \in Nat
      <4> HIDE DEF p, w
      <4> QED
        BY <2>2, <2>3, <3>1, SMT DEF Abstand
    <3> DEFINE k == n * Voll
    <3>5. k \in Nat
      BY <1>2
    <3> HIDE DEF k, p, w
    <3> QED
      BY <3>1, <3>2, <3>3, <3>4, <3>5, SMT DEF Nahe, k
  <2>8. Angepasst(s, Laufzeit, m) = Laufzeit
    BY <1>4 DEF Angepasst
  <2> QED
    BY <1>4, <2>6, <2>7, <2>8 DEF Ruhend
<1> QED
  BY <1>3, <1>4 DEF Passt

\* The movement that a command has marked has not begun when it is sent.
LEMMA NachSendenOrt ==
    ASSUME NEW s, Gut(s), NEW lz, LzOk(lz), NEW cmd \in Richtungen \cup {"stop"}, NEW dauer \in Nat,
           s.moving = "none" \/ (s.moving = cmd /\ s.seit = 0)
    PROVE  /\ NachSenden(s, lz, cmd, dauer).pos = s.pos
           /\ NachSenden(s, lz, cmd, dauer).seit = 0 \/ cmd = "stop"
           /\ NachSenden(s, lz, cmd, dauer).moving = IF cmd = "stop" THEN "none" ELSE cmd
<1>0. s \in Zustaende /\ s.pos \in 0..Voll
  BY DEF Gut, Zustaende
<1>1. Geschaetzt(s, lz) = s.pos
  <2>1. CASE s.moving = "none"
    BY <2>1 DEF Geschaetzt
  <2>2. CASE s.moving # "none" /\ s.seit = 0
    <3>1. (s.seit * Voll) \div TimeFor(lz, s.moving) = 0
      <4>1. s.seit * Voll = 0
        BY <2>2, Grenzen, SMT
      <4>2. \A t \in Nat : t > 0 => 0 \div t = 0
        BY SMT
      <4> QED
        BY <4>1, <4>2, TimeForTyp
    <3>2. Verschoben(s.pos, s.moving, 0) = s.pos
      BY <1>0, Grenzen, SMT DEF Verschoben
    <3>3. BisZiel(s, s.pos) = s.pos
      BY <1>0, <2>2, Grenzen, SMT DEF BisZiel, Gut, VorausIn, Zustaende, Ohne
    <3>4. Begrenzt(s.pos) = s.pos
      BY <1>0, Grenzen, SMT DEF Begrenzt
    <3> QED
      BY <2>2, <3>1, <3>2, <3>3, <3>4 DEF Geschaetzt
  <2>3. s.moving = "none" \/ s.seit = 0
    OBVIOUS
  <2> QED
    BY <2>1, <2>2, <2>3
<1>2. CASE cmd = "stop"
  BY <1>1, <1>2 DEF NachSenden, Commit, Ruhend
<1>3. CASE cmd # "stop"
  <2> DEFINE a == Eingefroren(s, lz)
             z == Begrenzt(Verschoben(a.pos, cmd, (dauer * Voll) \div TimeFor(lz, cmd)))
  <2>1. a \in Zustaende /\ a.ziel = Ohne
    BY EingefrorenGut DEF Gut
  <2>2. a.pos = s.pos
    BY <1>1 DEF Eingefroren, Commit, Ruhend
  <2>3. NachSenden(s, lz, cmd, dauer) = [a EXCEPT !.moving = cmd, !.seit = 0, !.ziel = z]
    BY <1>3, <2>1 DEF NachSenden
  <2> HIDE DEF a, z
  <2> QED
    BY <1>3, <2>1, <2>2, <2>3 DEF Zustaende
<1> QED
  BY <1>2, <1>3

\* The state file keeps a tenth of a percent.
LEMMA GesichertNahe ==
    ASSUME Massstab, NEW s, Gut(s), NEW lz, LzOk(lz), NEW e \in 0..Voll,
           NEW n \in 0..MaxNeustarts, Nahe(s.pos, e, n)
    PROVE  Nahe(Gesichert(s, lz).pos, e, n + 1)
<1>1. PICK u \in Nat : Voll = 1000 * u
  <2>1. Voll % 1000 = 0 /\ Voll = 1000 * (Voll \div 1000) + (Voll % 1000)
    BY Grenzen, Teilung, SMT DEF Massstab
  <2>2. Voll \div 1000 \in Nat /\ Voll = 1000 * (Voll \div 1000)
    BY <2>1, Grenzen, SMT
  <2> QED
    BY <2>2
<1> DEFINE x == s.pos
           a == 1000 * x
           g == Gerundet(a, Voll)
           q == a \div Voll
           r == a % Voll
           y == (g * Voll) \div 1000
<1>2. x \in 0..Voll /\ a \in Nat /\ Voll \in Nat /\ Voll > 0
  BY Grenzen, SMT DEF Gut, Zustaende
<1>3. Gesichert(s, lz).pos = y
  BY DEF Gesichert
<1>4. q \in Nat /\ r \in 0..(Voll - 1) /\ a = Voll * q + r
  <2> HIDE DEF a
  <2> QED
    BY <1>2, Quotient, Teilung
<1>5. \/ g = q /\ 2 * r <= Voll
      \/ g = q + 1 /\ 2 * r >= Voll
  <2>1. g = IF 2 * r < Voll \/ (2 * r = Voll /\ q % 2 = 0) THEN q ELSE q + 1
    BY DEF Gerundet
  <2> HIDE DEF g, q, r
  <2> QED
    BY <1>2, <1>4, <2>1, SMT
<1>6. y = g * u
  <2> HIDE DEF g
  <2>1. g \in Nat
    BY <1>4, <1>5, SMT
  <2> DEFINE z == g * u
  <2>2. z \in Nat /\ g * Voll = 1000 * z
    BY <1>1, <2>1, SMT
  <2> HIDE DEF z
  <2>3. (1000 * z) \div 1000 = z
    BY <2>2, SMT
  <2> QED
    BY <2>2, <2>3 DEF z
<1>7. y \in Nat /\ 2000 * Abstand(y, x) <= Voll
  <2> HIDE DEF g, q, r, y, x
  <2>1. g \in Nat
    BY <1>4, <1>5, SMT
  <2> DEFINE z == q * u
  <2>2. z \in Nat /\ Voll * q = 1000 * z /\ (g = q => y = z) /\ (g = q + 1 => y = z + u)
    BY <1>1, <1>4, <1>6, <2>1, SMT
  <2> HIDE DEF z
  <2> QED
    BY <1>1, <1>2, <1>4, <1>5, <2>2, SMT DEF Abstand
<1>8. n * Voll \in Nat /\ (n + 1) * Voll = n * Voll + Voll
  BY MassDerNeustarts
<1> DEFINE k == n * Voll
<1>9. 2000 * Abstand(x, e) <= k /\ k \in Nat
  BY <1>8 DEF Nahe
<1>10. 2000 * Abstand(y, e) <= k + Voll
  <2> HIDE DEF y, x, k
  <2> QED
    BY <1>2, <1>7, <1>9, SMT DEF Abstand
<1> QED
  BY <1>3, <1>8, <1>10 DEF Nahe

Erfuellt(p, e) == p # Ohne => 50 * Abstand(p, e) <= Voll

LEMMA AmZielErfuellt ==
    ASSUME Massstab, NEW p \in 0..Voll, NEW x \in 0..Voll, NEW e \in 0..Voll,
           NEW n \in 0..MaxNeustarts, Nahe(x, e, n), AmZiel(p, x)
    PROVE  Erfuellt(p, e)
<1> DEFINE k == n * Voll
<1>1. k \in Nat /\ k <= 9 * Voll /\ 2000 * Abstand(x, e) <= k /\ 100 * Abstand(p, x) < Voll
  BY MassDerNeustarts DEF Nahe, AmZiel
<1> HIDE DEF k
<1> QED
  BY <1>1, Grenzen, SMT DEF Abstand, Erfuellt


\* What a run that a position command started still has to do
Wohin(d, p, e, rest, n) ==
    \/ 1000 * Bis(d, p) <= Voll /\ Bis(d, e) <= rest * Tempo(d)
    \/ 2000 * Abstand(Bis(d, e), Bis(d, p) + rest * Tempo(d)) <= n * Voll + 1000 * Tempo(d)

\* What a position command sends
Auftrag(s, p, pos) ==
    p # Ohne => /\ ~AmZiel(p, pos)
                /\ s.cmd = IF p > pos THEN "down" ELSE "up"
                /\ s.dauer = Fahrdauer(p, pos, s.cmd)

\* The duration sent is the way to go, to half a tenth of a second, and never
\* the 0 that stands for the actuator's own running time.
LEMMA AuftragStimmt ==
    ASSUME Massstab, laufzeit = Laufzeit, NEW s \in Sendungen, NEW p \in 0..Voll, NEW x \in 0..Voll,
           NEW e \in 0..Voll, NEW n \in 0..MaxNeustarts, Nahe(x, e, n), Auftrag(s, p, x)
    PROVE  s.cmd \in Richtungen /\ s.dauer # 0 /\ Wohin(s.cmd, p, e, s.dauer, n)
<1> DEFINE d == s.cmd
           t == Tempo(d)
           l == Laufzeit[d]
           D == Abstand(p, x)
           k == n * Voll
<1>1. /\ ~(100 * D < Voll) /\ d = (IF p > x THEN "down" ELSE "up")
      /\ s.dauer = Fahrdauer(p, x, d) /\ s.dauer \in Nat
  <2>1. p # Ohne
    BY Grenzen, SMT DEF Ohne
  <2> QED
    BY <2>1 DEF Auftrag, AmZiel, Sendungen
<1>2. d \in Richtungen
  BY <1>1 DEF Richtungen
<1>3. t \in Nat /\ t > 0 /\ l \in 51..255 /\ l * t = Voll /\ TimeFor(laufzeit, d) = l
  BY <1>2, MassDerFahrt
<1>4. k \in Nat /\ k <= 9 * Voll /\ 2000 * Abstand(x, e) <= k
  BY MassDerNeustarts DEF Nahe
<1>5. /\ Bis(d, p) \in 0..Voll /\ Bis(d, x) \in 0..Voll /\ Bis(d, e) \in 0..Voll
      /\ D \in Nat /\ Bis(d, x) = Bis(d, p) + D
      /\ Abstand(x, e) = Abstand(Bis(d, x), Bis(d, e))
  <2>1. Bis(d, p) \in 0..Voll /\ Bis(d, x) \in 0..Voll /\ Bis(d, e) \in 0..Voll
        /\ Abstand(x, e) = Abstand(Bis(d, x), Bis(d, e))
    BY <1>2, BisWirkt
  <2>2. D \in Nat /\ Bis(d, x) = Bis(d, p) + D
    BY <1>1, Grenzen, SMT DEF Bis, Abstand, Endlage
  <2> QED
    BY <2>1, <2>2
<1>6. CASE 1000 * p <= Voll \/ 1000 * p >= 999 * Voll
  <2>1. s.dauer = l + 20
    BY <1>1, <1>3, <1>6 DEF Fahrdauer, Puffer
  <2>2. 1000 * Bis(d, p) <= Voll
    BY <1>1, <1>6, Grenzen, SMT DEF Bis, Abstand, Endlage
  <2>3. Bis(d, e) <= s.dauer * t
    <3> HIDE DEF t, l
    <3>1. (l + 20) * t = Voll + 20 * t
      BY <1>3, SMT
    <3> QED
      BY <1>3, <1>5, <2>1, <3>1, Grenzen, SMT
  <2> QED
    BY <1>2, <1>3, <2>1, <2>2, <2>3, SMT DEF Wohin
<1>7. CASE ~(1000 * p <= Voll \/ 1000 * p >= 999 * Voll)
  <2> DEFINE a == D * l
             q == a \div Voll
             r == a % Voll
             z == s.dauer
  <2>1. z = Gerundet(a, Voll)
    BY <1>1, <1>3, <1>7 DEF Fahrdauer
  <2>2. a \in Nat
    BY <1>3, <1>5, SMT
  <2>3. q \in Nat /\ r \in 0..(Voll - 1) /\ a = Voll * q + r
    <3> HIDE DEF a
    <3> QED
      BY <2>2, Grenzen, Quotient, Teilung
  <2>4. \/ z = q /\ 2 * r <= Voll
        \/ z = q + 1 /\ 2 * r >= Voll
    <3>1. z = IF 2 * r < Voll \/ (2 * r = Voll /\ q % 2 = 0) THEN q ELSE q + 1
      BY <2>1 DEF Gerundet
    <3> HIDE DEF z, q, r
    <3> QED
      BY <2>3, <3>1, Grenzen, SMT
  <2> DEFINE v == z * Voll
  <2>5. v \in Nat /\ 2 * Abstand(v, a) <= Voll
    <3> HIDE DEF z, q, r, a
    <3> DEFINE y == Voll * q
    <3>1. y \in Nat /\ (z = q => v = y) /\ (z = q + 1 => v = y + Voll) /\ a = y + r
      BY <2>3, Grenzen, SMT
    <3> HIDE DEF y, v
    <3> QED
      BY <2>2, <2>3, <2>4, <3>1, Grenzen, SMT DEF Abstand
  <2>6. z # 0
    <3>1. 100 * a >= 51 * Voll
      <4> HIDE DEF D, l
      <4>0. D \in Nat /\ 100 * D >= Voll /\ l \in Nat /\ l >= 51 /\ Voll \in Nat
        BY <1>1, <1>3, <1>5, Grenzen, SMT
      <4>1. (100 * D) * l >= Voll * l
        BY <4>0, SMT
      <4>2. Voll * l >= Voll * 51
        BY <4>0, SMT
      <4>3. (100 * D) * l = 100 * (D * l)
        BY <4>0, SMT
      <4> DEFINE c == Voll * l
      <4>4. c \in Nat /\ 100 * a >= c /\ c >= Voll * 51
        BY <4>0, <4>1, <4>2, <4>3, SMT
      <4> HIDE DEF a, c
      <4> QED
        BY <2>2, <4>0, <4>4, SMT
    <3>2. z = 0 => v = 0
      BY Grenzen, SMT
    <3> HIDE DEF v, a, z
    <3> QED
      BY <2>2, <2>5, <3>1, <3>2, Grenzen, SMT DEF Abstand
  <2> DEFINE w == z * t
  <2>7. w \in Nat /\ v = l * w /\ a = l * D
    <3> HIDE DEF D, l, t, z
    <3>1. z \in Nat
      BY <1>1 DEF z
    <3> QED
      BY <1>3, <1>5, <3>1, SMT DEF l, t
  <2>8. 2 * Abstand(w, D) <= t
    <3> HIDE DEF w, D, l, t, v, a, z
    <3> DEFINE c == Abstand(w, D)
    <3>1. c \in Nat /\ (c = w - D \/ c = D - w) /\ D \in Nat /\ w \in Nat
      BY <1>5, <2>7, SMT DEF Abstand
    <3>2. c = w - D => v = a + l * c
      BY <1>3, <2>7, <3>1, SMT
    <3>3. c = D - w => a = v + l * c
      BY <1>3, <2>7, <3>1, SMT
    <3> HIDE DEF c
    <3>4. l * c \in Nat
      BY <1>3, <3>1, SMT
    <3>5. 2 * (l * c) <= l * t
      BY <1>3, <2>2, <2>5, <3>1, <3>2, <3>3, <3>4, Grenzen, SMT DEF Abstand
    <3>6. 2 * c <= t
      <4> SUFFICES ASSUME t + 1 <= 2 * c PROVE FALSE
        BY <1>3, <3>1, SMT
      <4>1. l * (t + 1) <= l * (2 * c)
        BY <1>3, <3>1, SMT
      <4>2. l * (t + 1) = l * t + l /\ l * (2 * c) = 2 * (l * c) /\ l * t \in Nat
        BY <1>3, <3>1, SMT
      <4> QED
        BY <1>3, <3>4, <3>5, <4>1, <4>2, SMT
    <3> QED
      BY <3>6 DEF c
  <2>9. 2000 * Abstand(Bis(d, e), Bis(d, p) + w) <= k + 1000 * t
    <3> HIDE DEF w, D, t, k
    <3>1. t \in Nat
      BY <1>3
    <3> QED
      BY <1>4, <1>5, <2>7, <2>8, <3>1, SMT DEF Abstand
  <2> QED
    BY <1>2, <2>6, <2>9 DEF Wohin
<1> QED
  BY <1>6, <1>7


\* One step of a run of the shutter from e to f in the time t, which is not
\* longer than the run nor than the way to the end stop
Teilstrecke(d, e, f, rest, t) ==
    /\ t <= rest /\ t * Tempo(d) < Bis(d, e) + Tempo(d)
    /\ f = Begrenzt(Verschoben(e, d, t * Tempo(d)))

LEMMA StreckeWirkt ==
    ASSUME Massstab, NEW d \in Richtungen, NEW e \in 0..Voll, NEW f, NEW g \in Nat,
           NEW rest \in Nat, NEW t \in Nat, Teilstrecke(d, e, f, rest, t),
           NEW pos \in 0..Voll, NEW n \in 0..MaxNeustarts, Unterwegs(d, pos, e, g, n)
    PROVE  /\ f \in 0..Voll /\ g + t <= MaxSeit
           /\ f # Endlage(d) => Unterwegs(d, pos, f, g + t, n)
           /\ f = Endlage(d) => Gemessen(d, pos, g + t, n)
<1> DEFINE T == Tempo(d)
           l == Laufzeit[d]
           k == n * Voll
           w == t * T
           v == g * T
           z == (g + t) * T
           b == Bis(d, e)
           y == Bis(d, pos)
<1>1. T \in Nat /\ T > 0 /\ l \in Nat /\ l <= MaxSeit /\ l * T = Voll
  BY MassDerFahrt, SMT
<1>2. w \in Nat /\ v \in Nat /\ z = v + w
  BY <1>1, SMT
<1>3. k \in Nat
  BY MassDerNeustarts
<1>4. /\ f \in 0..Voll /\ b \in 0..Voll /\ y \in 0..Voll
      /\ Bis(d, f) = IF w < b THEN b - w ELSE 0
      /\ f = Endlage(d) <=> Bis(d, f) = 0
  <2>1. f = Begrenzt(Verschoben(e, d, w))
    BY DEF Teilstrecke
  <2> HIDE DEF w
  <2>2. f \in 0..Voll /\ Bis(d, f) = IF w < b THEN b - w ELSE 0
    BY <1>2, <2>1, BisWirkt
  <2> QED
    BY <2>2, BisWirkt
<1>5. w < b + T /\ 2000 * Abstand(y, b + v) <= k /\ b + v <= Voll
  BY DEF Teilstrecke, Unterwegs, Nahe
<1>6. g + t <= l
  <2> HIDE DEF T, l
  <2> SUFFICES ASSUME l + 1 <= g + t PROVE FALSE
    BY <1>1, SMT
  <2>1. (l + 1) * T <= z
    BY <1>1, SMT
  <2>2. (l + 1) * T = Voll + T
    BY <1>1, SMT
  <2> HIDE DEF z, w, v, b
  <2> QED
    BY <1>1, <1>2, <1>4, <1>5, <2>1, <2>2, Grenzen, SMT
<1>7. ASSUME f # Endlage(d) PROVE Unterwegs(d, pos, f, g + t, n)
  <2>1. Bis(d, f) + z = b + v
    <3> HIDE DEF z, w, v, b
    <3> QED
      BY <1>2, <1>4, <1>7, SMT
  <2>2. 2000 * Abstand(y, Bis(d, f) + z) <= k /\ Bis(d, f) + z <= Voll
    BY <1>5, <2>1
  <2> QED
    BY <2>2 DEF Unterwegs, Nahe
<1>8. ASSUME f = Endlage(d) PROVE Gemessen(d, pos, g + t, n)
  <2>1. 2000 * y <= 2000 * z + k /\ 2000 * z <= 2000 * y + k + 2000 * T
    <3> HIDE DEF z, w, v, b, y, k, T
    <3>1. b <= w
      BY <1>2, <1>4, <1>8, SMT
    <3> QED
      BY <1>1, <1>2, <1>3, <1>4, <1>5, <3>1, SMT DEF Abstand
  <2> QED
    BY <2>1 DEF Gemessen
<1> QED
  BY <1>1, <1>4, <1>6, <1>7, <1>8, Grenzen, SMT

LEMMA WohinWirkt ==
    ASSUME Massstab, NEW d \in Richtungen, NEW e \in 0..Voll, NEW f,
           NEW rest \in Nat, NEW t \in Nat, Teilstrecke(d, e, f, rest, t),
           NEW p \in 0..Voll, NEW n \in 0..MaxNeustarts, Wohin(d, p, e, rest, n)
    PROVE  /\ f # Endlage(d) => Wohin(d, p, f, rest - t, n)
           /\ f = Endlage(d) \/ rest - t = 0 => Erfuellt(p, f)
<1> DEFINE T == Tempo(d)
           k == n * Voll
           w == t * T
           v == rest * T
           z == (rest - t) * T
           b == Bis(d, e)
           c == Bis(d, f)
           y == Bis(d, p)
<1>1. T \in Nat /\ T > 0 /\ 51 * T <= Voll /\ Voll \in Nat
  BY MassDerFahrt, Grenzen
<1>2. t <= rest /\ w \in Nat /\ z \in Nat /\ v \in Nat /\ v = z + w /\ (rest - t = 0 => z = 0)
  <2>1. t <= rest
    BY DEF Teilstrecke
  <2>2. rest - t \in Nat
    BY <2>1, SMT
  <2> HIDE DEF T
  <2> QED
    BY <1>1, <2>1, <2>2, SMT
<1>3. k \in Nat /\ k <= 9 * Voll
  BY MassDerNeustarts
<1>4. /\ f \in 0..Voll /\ b \in 0..Voll /\ y \in 0..Voll
      /\ c = IF w < b THEN b - w ELSE 0
      /\ f = Endlage(d) <=> c = 0
      /\ Abstand(p, f) = Abstand(y, c)
  <2>1. f = Begrenzt(Verschoben(e, d, w))
    BY DEF Teilstrecke
  <2> HIDE DEF w
  <2>2. f \in 0..Voll /\ c = IF w < b THEN b - w ELSE 0
    BY <1>2, <2>1, BisWirkt
  <2> QED
    BY <2>2, BisWirkt
<1>5. \/ 1000 * y <= Voll /\ b <= v
      \/ 2000 * Abstand(b, y + v) <= k + 1000 * T
  BY DEF Wohin
<1>6. \/ f # Endlage(d) => 1000 * y <= Voll /\ c <= z
      \/ f # Endlage(d) => 2000 * Abstand(c, y + z) <= k + 1000 * T
  <2> HIDE DEF z, w, v, b, y, k, T, c
  <2> QED
    BY <1>1, <1>2, <1>3, <1>4, <1>5, SMT DEF Abstand
<1>7. f = Endlage(d) \/ rest - t = 0 => 50 * Abstand(y, c) <= Voll
  <2> HIDE DEF z, w, v, b, y, k, T, c
  <2> QED
    BY <1>1, <1>2, <1>3, <1>4, <1>5, SMT DEF Abstand
<1> QED
  BY <1>4, <1>6, <1>7 DEF Wohin, Erfuellt


\* Undisturbed, the shutter stands; or a command is being sent; or it runs as
\* the state says; or its report is on the way.
Steht == Ruhe /\ Nahe(st.pos, echt, neustarts) /\ Erfuellt(wunsch, echt)

Gesendet ==
    /\ aktor.lauf = "none" /\ funk = <<>> /\ Nahe(st.pos, echt, neustarts)
    /\ \E r \in Rufer :
          /\ sendung[r].phase = "hin" /\ \A q \in Rufer : q # r => sendung[q] = Frei
          /\ st.moving = "none" \/ (st.moving = sendung[r].cmd /\ st.seit = 0)
          /\ Auftrag(sendung[r], wunsch, st.pos)

Faehrt ==
    /\ aktor.lauf # "none" /\ funk = <<>> /\ NichtsGesendet
    /\ st.moving = aktor.lauf /\ st.seit = aktor.gefahren
    /\ Unterwegs(aktor.lauf, st.pos, echt, aktor.gefahren, neustarts)
    /\ wunsch # Ohne => Wohin(aktor.lauf, wunsch, echt, aktor.rest, neustarts)

Gemeldet ==
    /\ aktor.lauf = "none" /\ NichtsGesendet
    /\ Len(funk) = 1 /\ Passt(funk[1], st, echt, neustarts) /\ Erfuellt(wunsch, echt)

\* The last report is of the last run, so the shutter stands at an end stop
\* that it reports.
AmAnschlag ==
    aktor.lauf = "none" /\ funk # <<>> /\ funk[Len(funk)].art = "end" =>
        echt = Endlage(funk[Len(funk)].richtung)

Fahrplan == sauber => laufzeit = Laufzeit /\ (Steht \/ Gesendet \/ Faehrt \/ Gemeldet)

LEMMA Letztes ==
    ASSUME NEW M, NEW s \in Seq(M)
    PROVE  /\ \A x \in M : /\ Append(s, x)[Len(Append(s, x))] = x
                           /\ s = <<>> => Append(s, x)[1] = x /\ Len(Append(s, x)) = 1
           /\ s # <<>> /\ Tail(s) # <<>> => Tail(s)[Len(Tail(s))] = s[Len(s)]
           /\ s # <<>> /\ Tail(s) = <<>> => s[Len(s)] = Head(s) /\ Len(s) = 1
           /\ Len(s) = 1 => Head(s) = s[1] /\ Tail(s) = <<>> /\ s # <<>>
<1>1. ASSUME NEW x \in M
      PROVE  /\ Append(s, x)[Len(Append(s, x))] = x
             /\ s = <<>> => Append(s, x)[1] = x /\ Len(Append(s, x)) = 1
  BY SMT
<1>2. ASSUME s # <<>>
      PROVE  /\ Tail(s) \in Seq(M) /\ Len(s) \in Nat /\ Len(Tail(s)) = Len(s) - 1
             /\ \A i \in 1..Len(Tail(s)) : Tail(s)[i] = s[i + 1]
  BY <1>2, HeadTailProperties, LenProperties
<1>3. ASSUME s # <<>>, Tail(s) # <<>> PROVE Tail(s)[Len(Tail(s))] = s[Len(s)]
  <2>1. Len(Tail(s)) \in Nat \ {0}
    BY <1>2, <1>3, EmptySeq
  <2> QED
    BY <1>2, <1>3, <2>1, SMT
<1>4. ASSUME s # <<>>, Tail(s) = <<>> PROVE Len(s) = 1
  <2>1. Len(Tail(s)) = 0
    BY <1>4, EmptySeq
  <2> QED
    BY <1>2, <1>4, <2>1, SMT
<1>5. Head(s) = s[1]
  BY SMT
<1>6. ASSUME Len(s) = 1 PROVE s # <<>> /\ Tail(s) = <<>>
  <2>1. s # <<>>
    BY <1>6, EmptySeq, SMT
  <2>2. Tail(s) \in Seq(M) /\ Len(Tail(s)) = 0
    BY <1>2, <1>6, <2>1, SMT
  <2>3. ~(Len(Tail(s)) \in Nat \ {0})
    BY <2>2, SMT
  <2> QED
    BY <2>1, <2>2, <2>3, EmptySeq
<1> QED
  BY <1>1, <1>3, <1>4, <1>5, <1>6

LEMMA UmsteuernAnschlag ==
    ASSUME IInv, AmAnschlag, NEW neu, Umsteuern(neu)
    PROVE  AmAnschlag'
<1>0. funk \in Seq(Meldungen) /\ aktor \in Aktoren
  BY Lage
<1>1. CASE aktor.lauf = "none" /\ UNCHANGED funk
  BY <1>1 DEF Umsteuern, AmAnschlag
<1>2. ASSUME NEW art \in Haltmeldungen, aktor.lauf # "none", funk' = Append(funk, Bericht(art, aktor))
      PROVE  AmAnschlag'
  <2>1. art \in {"fahrt", "stop"}
    BY RolladenAnnahme
  <2>2. Bericht(art, aktor) \in Meldungen /\ Bericht(art, aktor).art = art
    BY <1>0, <1>2, <2>1 DEF Bericht, Meldungen, Aktoren
  <2>3. funk'[Len(funk')] = Bericht(art, aktor)
    BY <1>0, <1>2, <2>2, Letztes
  <2> QED
    BY <2>1, <2>2, <2>3 DEF AmAnschlag
<1> QED
  BY <1>1, <1>2 DEF Umsteuern

\* One step of time: the shutter stands still, or runs on, or ends its run.
Weiter(t) ==
    LET d == aktor.lauf
        m == [aktor EXCEPT !.rest = @ - t, !.gefahren = @ + t]
    IN  /\ Teilstrecke(d, echt, echt', aktor.rest, t)
        /\ m \in Aktoren /\ m.lauf = d /\ m.rest = aktor.rest - t /\ m.gefahren = aktor.gefahren + t
        /\ IF echt' = Endlage(d)
           THEN aktor' = AktorStill /\ funk' = Append(funk, Bericht("end", m))
           ELSE IF m.rest = 0
           THEN aktor' = AktorStill /\ funk' = Append(funk, Bericht("fahrt", m))
           ELSE aktor' = m /\ UNCHANGED funk

LEMMA TickWeiter ==
    ASSUME IInv, Tick, aktor.lauf # "none"
    PROVE  Schritt \in Nat /\ Weiter(Schritt)
<1> DEFINE d == aktor.lauf
           t == Schritt
           b == Abstand(echt, Endlage(d))
           T == Tempo(d)
<1>0. aktor \in Aktoren /\ echt \in 0..Voll /\ d \in Richtungen
  BY Lage DEF IInv, TypeOK, Aktoren
<1>1. t \in Nat /\ t <= aktor.rest
  BY SchrittTyp
<1>2. T \in Nat /\ T > 0 /\ b \in Nat
  BY <1>0, TempoTyp, EndlageTyp, Grenzen, SMT DEF Abstand
<1>3. t <= (b + T - 1) \div T
  <2>1. LET u == IF aktor.rest < Takt THEN aktor.rest ELSE Takt
        IN  t = IF BisEndlage(d) < u THEN BisEndlage(d) ELSE u
    BY DEF Schritt
  <2>2. BisEndlage(d) = (b + T - 1) \div T
    BY DEF BisEndlage
  <2>3. (b + T - 1) \div T \in Nat
    BY <1>2, Quotient, SMT
  <2> HIDE DEF t, T, b
  <2>4. aktor.rest \in Nat /\ Takt \in Nat
    BY <1>0, Grenzen DEF Aktoren
  <2> QED
    BY <2>1, <2>2, <2>3, <2>4, SMT
<1>4. t * T < b + T
  <2> HIDE DEF t, T, b
  <2> DEFINE q == (b + T - 1) \div T
             r == (b + T - 1) % T
  <2>1. b + T - 1 \in Nat
    BY <1>2, SMT
  <2>2. q \in Nat /\ b + T - 1 = T * q + r /\ r \in 0..(T - 1)
    BY <1>2, <2>1, Quotient, Teilung
  <2> HIDE DEF q, r
  <2>3. T * t <= T * q
    BY <1>1, <1>2, <1>3, <2>2, SMT DEF q
  <2>4. T * t = t * T /\ T * t \in Nat /\ T * q \in Nat
    BY <1>1, <1>2, <2>2, SMT
  <2> DEFINE x == T * t
             y == T * q
  <2> HIDE DEF x, y
  <2>5. x <= y /\ x = t * T /\ x \in Nat /\ y \in Nat /\ b + T - 1 = y + r
    BY <2>2, <2>3, <2>4 DEF x, y
  <2> QED
    BY <1>2, <2>2, <2>5, SMT
<1> DEFINE m == [aktor EXCEPT !.rest = @ - t, !.gefahren = @ + t]
<1>5. Bewegung(t)
  BY DEF Tick
<1>6. /\ echt' = Begrenzt(Verschoben(echt, d, t * T))
      /\ IF echt' = Endlage(d)
         THEN aktor' = AktorStill /\ funk' = Append(funk, Bericht("end", m))
         ELSE IF m.rest = 0
         THEN aktor' = AktorStill /\ funk' = Append(funk, Bericht("fahrt", m))
         ELSE aktor' = m /\ UNCHANGED funk
  BY <1>5 DEF Bewegung
<1>7. m \in Aktoren /\ m.lauf = d /\ m.rest = aktor.rest - t /\ m.gefahren = aktor.gefahren + t
  <2>1. aktor.rest - t \in Nat /\ aktor.gefahren + t \in Nat
    BY <1>0, <1>1, SMT DEF Aktoren
  <2> QED
    BY <1>0, <2>1 DEF Aktoren
<1>8. Teilstrecke(d, echt, echt', aktor.rest, t)
  BY <1>1, <1>4, <1>6 DEF Teilstrecke, Bis
<1> QED
  BY <1>1, <1>6, <1>7, <1>8 DEF Weiter

LEMMA TickAnschlag ==
    ASSUME IInv, AmAnschlag, Tick
    PROVE  AmAnschlag'
<1>0. funk \in Seq(Meldungen)
  BY Lage
<1>1. CASE aktor.lauf = "none"
  BY <1>1 DEF AmAnschlag, Tick, Bewegung, aussen
<1>2. CASE aktor.lauf # "none"
  <2> DEFINE d == aktor.lauf
             m == [aktor EXCEPT !.rest = @ - Schritt, !.gefahren = @ + Schritt]
  <2>1. /\ m \in Aktoren /\ m.lauf = d
        /\ IF echt' = Endlage(d)
           THEN aktor' = AktorStill /\ funk' = Append(funk, Bericht("end", m))
           ELSE IF m.rest = 0
           THEN aktor' = AktorStill /\ funk' = Append(funk, Bericht("fahrt", m))
           ELSE aktor' = m /\ UNCHANGED funk
    BY <1>2, TickWeiter DEF Weiter
  <2>2. d \in Richtungen
    BY <1>2, Lage DEF Aktoren
  <2> HIDE DEF m
  <2>3. ASSUME NEW art \in {"end", "fahrt"}, funk' = Append(funk, Bericht(art, m))
        PROVE  funk'[Len(funk')].art = art /\ funk'[Len(funk')].richtung = d
    <3>1. Bericht(art, m) \in Meldungen /\ Bericht(art, m).art = art /\ Bericht(art, m).richtung = d
      BY <2>1, <2>2 DEF Bericht, Meldungen, Aktoren
    <3>2. funk'[Len(funk')] = Bericht(art, m)
      BY <1>0, <2>3, <3>1, Letztes
    <3> QED
      BY <3>1, <3>2
  <2>4. CASE echt' = Endlage(d)
    BY <2>1, <2>3, <2>4 DEF AmAnschlag
  <2>5. CASE echt' # Endlage(d) /\ m.rest = 0
    BY <2>1, <2>3, <2>5 DEF AmAnschlag
  <2>6. CASE echt' # Endlage(d) /\ m.rest # 0
    BY <1>2, <2>1, <2>6 DEF AmAnschlag
  <2> QED
    BY <2>4, <2>5, <2>6
<1> QED
  BY <1>1, <1>2

LEMMA SchrittAnschlag ==
    ASSUME IInv, AmAnschlag, [Next]_vars
    PROVE  AmAnschlag'
<1>0. funk \in Seq(Meldungen)
  BY Lage
<1>1. ASSUME UNCHANGED aussen PROVE AmAnschlag'
  BY <1>1 DEF AmAnschlag, aussen
<1>2. ASSUME NEW r \in Rufer, Befehl(r) PROVE AmAnschlag'
  BY <1>1, <1>2 DEF Befehl, Vollfahrt, Fahren, Stoppen, PositionFahren, PositionErreicht, Beginn
<1>3. ASSUME NEW r \in Rufer, NEW g \in BOOLEAN, Abschluss(r, g) PROVE AmAnschlag'
  BY <1>1, <1>3, UmsteuernAnschlag DEF Abschluss
<1>4. ASSUME NEW d \in Richtungen, NEW s \in BOOLEAN, NEW a \in BOOLEAN, Taster(d, s, a) PROVE AmAnschlag'
  BY <1>1, <1>4, UmsteuernAnschlag DEF Taster
<1>5. CASE Tick
  BY <1>5, TickAnschlag
<1>6. CASE Melden \/ MeldungVerloren
  <2>1. funk # <<>> /\ funk' = Tail(funk) /\ aktor' = aktor /\ echt' = echt
    BY <1>6 DEF Melden, MeldungVerloren
  <2>2. funk' # <<>> => funk'[Len(funk')] = funk[Len(funk)]
    BY <1>0, <2>1, Letztes
  <2> QED
    BY <2>1, <2>2 DEF AmAnschlag
<1>7. CASE Veroeffentlichen \/ UNCHANGED vars
  BY <1>1, <1>7 DEF Veroeffentlichen, vars
<1>8. ASSUME NEW p \in Staende, StandSetzen(p) PROVE AmAnschlag'
  BY <1>1, <1>8 DEF StandSetzen
<1>9. ASSUME NEW k \in Kalibrierungen, Kalibrieren(k) PROVE AmAnschlag'
  BY <1>1, <1>9 DEF Kalibrieren
<1>10. ASSUME NEW g \in BOOLEAN, Neustart(g) PROVE AmAnschlag'
  BY <1>10 DEF Neustart, AmAnschlag
<1> QED
  BY <1>2, <1>3, <1>4, <1>5, <1>6, <1>7, <1>8, <1>9, <1>10 DEF Next


LEMMA RuheSteht ==
    ASSUME IInv, Fahrplan, sauber, Ruhe
    PROVE  laufzeit = Laufzeit /\ Steht
<1>1. aktor.lauf = "none" /\ funk = <<>> /\ \A r \in Rufer : sendung[r] = Frei
  BY DEF Ruhe, Still, NichtsGesendet
<1>2. ~Gesendet
  BY <1>1 DEF Gesendet, Frei
<1>3. ~Faehrt /\ ~Gemeldet
  BY <1>1, SMT DEF Faehrt, Gemeldet
<1> QED
  BY <1>2, <1>3 DEF Fahrplan

LEMMA BeginnFahrplan ==
    ASSUME IInv, Fahrplan, NEW r \in Rufer, NEW cmd, NEW dauer, NEW ziel, Beginn(r, cmd, dauer, ziel),
           \/ UNCHANGED st /\ ziel = Ohne
           \/ Ruhe => /\ st'.pos = st.pos /\ st'.moving = cmd /\ st'.seit = 0
                      /\ Auftrag([phase |-> "hin", cmd |-> cmd, dauer |-> dauer], ziel, st.pos)
    PROVE  Fahrplan'
<1> SUFFICES ASSUME sauber' PROVE laufzeit' = Laufzeit /\ Gesendet'
  BY DEF Fahrplan
<1> DEFINE s == [phase |-> "hin", cmd |-> cmd, dauer |-> dauer]
<1>1. /\ sauber /\ Ruhe /\ sendung[r] = Frei /\ sendung' = [sendung EXCEPT ![r] = s]
      /\ wunsch' = ziel /\ laufzeit' = laufzeit /\ aktor' = aktor /\ funk' = funk /\ echt' = echt
      /\ neustarts' = neustarts
  BY DEF Beginn, aussen
<1>2. laufzeit = Laufzeit /\ Steht
  BY <1>1, RuheSteht
<1>3. /\ aktor'.lauf = "none" /\ funk' = <<>>
      /\ st.moving = "none" /\ \A q \in Rufer : sendung[q] = Frei
  BY <1>1 DEF Ruhe, Still, NichtsGesendet
<1>4. sendung'[r] = s /\ \A q \in Rufer : q # r => sendung'[q] = Frei
  BY <1>1, <1>3, Lage
<1>5. /\ st'.pos = st.pos
      /\ st'.moving = "none" \/ (st'.moving = cmd /\ st'.seit = 0)
      /\ ziel = Ohne \/ Auftrag(s, ziel, st.pos)
  BY <1>1, <1>3
<1>6. Nahe(st'.pos, echt', neustarts')
  BY <1>1, <1>2, <1>5 DEF Steht
<1>7. wunsch' # Ohne =>
          /\ ~AmZiel(wunsch', st'.pos)
          /\ s.cmd = IF wunsch' > st'.pos THEN "down" ELSE "up"
          /\ s.dauer = Fahrdauer(wunsch, st.pos, s.cmd)'
  BY <1>1, <1>5 DEF Auftrag, Fahrdauer
<1>8. s.phase = "hin" /\ s.cmd = cmd
  OBVIOUS
<1> HIDE DEF s
<1>9. Auftrag(sendung[r], wunsch, st.pos)'
  BY <1>4, <1>7 DEF Auftrag, Fahrdauer
<1>10. /\ sendung'[r].phase = "hin" /\ \A q \in Rufer : q # r => sendung'[q] = Frei
       /\ st'.moving = "none" \/ (st'.moving = sendung'[r].cmd /\ st'.seit = 0)
  BY <1>4, <1>5, <1>8
<1> QED
  BY <1>1, <1>2, <1>3, <1>6, <1>9, <1>10 DEF Gesendet


LEMMA Beginnt ==
    ASSUME NEW d \in Richtungen, NEW x \in 0..Voll, NEW e \in 0..Voll,
           NEW n \in 0..MaxNeustarts, Nahe(x, e, n)
    PROVE  Unterwegs(d, x, e, 0, n)
<1>1. 0 * Tempo(d) = 0
  BY TempoTyp, SMT
<1>2. Abstand(x, e) = Abstand(Bis(d, x), Bis(d, e)) /\ Bis(d, e) \in 0..Voll
  BY BisWirkt, Grenzen
<1>3. Bis(d, e) + 0 * Tempo(d) = Bis(d, e) /\ Bis(d, e) <= Voll
  BY <1>1, <1>2, Grenzen, SMT
<1> QED
  BY <1>2, <1>3 DEF Unterwegs, Nahe

\* A step that leaves the shutter and what is under way alone, but may forget
\* what was asked for
LEMMA Unveraendert ==
    ASSUME Fahrplan, UNCHANGED <<st, sendung, aktor, echt, funk, neustarts>>,
           sauber' => sauber /\ laufzeit' = laufzeit /\ wunsch' \in {wunsch, Ohne}
    PROVE  Fahrplan'
<1> SUFFICES ASSUME sauber' PROVE laufzeit' = Laufzeit /\ (Steht' \/ Gesendet' \/ Faehrt' \/ Gemeldet')
  BY DEF Fahrplan
<1>1. /\ sauber /\ laufzeit' = laufzeit /\ st' = st /\ sendung' = sendung /\ aktor' = aktor
      /\ echt' = echt /\ funk' = funk /\ neustarts' = neustarts /\ (wunsch' = wunsch \/ wunsch' = Ohne)
  OBVIOUS
<1>2. Ruhe' <=> Ruhe
  BY <1>1 DEF Ruhe, Still, NichtsGesendet
<1>3. NichtsGesendet' <=> NichtsGesendet
  BY <1>1 DEF NichtsGesendet
<1>4. CASE Steht
  BY <1>1, <1>2, <1>4 DEF Steht, Erfuellt, Fahrplan
<1>5. CASE Gesendet
  <2>1. ASSUME NEW r \in Rufer, Auftrag(sendung[r], wunsch, st.pos)
        PROVE  Auftrag(sendung[r], wunsch, st.pos)'
    BY <1>1, <2>1 DEF Auftrag, Fahrdauer
  <2> QED
    BY <1>1, <1>5, <2>1 DEF Gesendet, Fahrplan
<1>6. CASE Faehrt
  BY <1>1, <1>3, <1>6 DEF Faehrt, Fahrplan
<1>7. CASE Gemeldet
  BY <1>1, <1>3, <1>7 DEF Gemeldet, Erfuellt, Fahrplan
<1> QED
  BY <1>1, <1>4, <1>5, <1>6, <1>7 DEF Fahrplan

LEMMA AbschlussFahrplan ==
    ASSUME Massstab, IInv, Fahrplan, NEW r \in Rufer, NEW g \in BOOLEAN, Abschluss(r, g)
    PROVE  Fahrplan'
<1> SUFFICES ASSUME sauber' PROVE laufzeit' = Laufzeit /\ (Steht' \/ Faehrt')
  BY DEF Fahrplan
<1> DEFINE s == sendung[r]
           neu == IF s.cmd = "stop" THEN AktorStill
                  ELSE Fahrt(s.cmd, IF s.dauer = 0 THEN Eigenzeit ELSE s.dauer)
<1>1. g /\ sauber /\ wunsch' = wunsch
  BY DEF Abschluss
<1>2. /\ s.phase = "hin" /\ sendung' = [sendung EXCEPT ![r] = Frei] /\ Umsteuern(neu)
      /\ st' = NachSenden(st, laufzeit, s.cmd, s.dauer)
      /\ laufzeit' = laufzeit /\ neustarts' = neustarts
  BY <1>1 DEF Abschluss
<1>3. ~Steht /\ ~Faehrt /\ ~Gemeldet
  <2>1. sendung[r] # Frei
    BY <1>2 DEF Frei
  <2> QED
    BY <2>1 DEF Steht, Faehrt, Gemeldet, Ruhe, Still, NichtsGesendet
<1>4. laufzeit = Laufzeit /\ Gesendet
  BY <1>1, <1>3 DEF Fahrplan
<1>5. /\ aktor.lauf = "none" /\ funk = <<>> /\ Nahe(st.pos, echt, neustarts)
      /\ \A q \in Rufer : q # r => sendung[q] = Frei
      /\ st.moving = "none" \/ (st.moving = s.cmd /\ st.seit = 0)
      /\ Auftrag(s, wunsch, st.pos)
  <2>1. PICK q \in Rufer :
          /\ sendung[q].phase = "hin" /\ \A p \in Rufer : p # q => sendung[p] = Frei
          /\ st.moving = "none" \/ (st.moving = sendung[q].cmd /\ st.seit = 0)
          /\ Auftrag(sendung[q], wunsch, st.pos)
    BY <1>4 DEF Gesendet
  <2>2. q = r
    BY <1>2, <2>1 DEF Frei
  <2> QED
    BY <1>4, <2>1, <2>2 DEF Gesendet
<1>6. aktor' = neu /\ funk' = <<>> /\ echt' = echt /\ NichtsGesendet'
  BY <1>2, <1>5, Lage DEF Umsteuern, NichtsGesendet
<1>7. s \in Sendungen
  BY Lage
<1>8. s.cmd \in Richtungen \cup {"stop"} /\ s.dauer \in Nat
  BY <1>7 DEF Sendungen
<1>9. /\ st'.pos = st.pos
      /\ st'.seit = 0 \/ s.cmd = "stop"
      /\ st'.moving = IF s.cmd = "stop" THEN "none" ELSE s.cmd
  <2>1. PICK x, lz, cmd, dauer : x = st /\ lz = laufzeit /\ cmd = s.cmd /\ dauer = s.dauer
    OBVIOUS
  <2> DEFINE n == NachSenden(x, lz, cmd, dauer)
  <2>2. /\ Gut(x) /\ LzOk(lz) /\ cmd \in Richtungen \cup {"stop"} /\ dauer \in Nat
        /\ x.moving = "none" \/ (x.moving = cmd /\ x.seit = 0)
    BY <1>5, <1>8, <2>1, Lage
  <2>3. n.pos = x.pos /\ (n.seit = 0 \/ cmd = "stop")
        /\ n.moving = IF cmd = "stop" THEN "none" ELSE cmd
    BY <2>2, NachSendenOrt
  <2>4. st' = n
    BY <1>2, <2>1
  <2> HIDE DEF n, s
  <2> QED
    BY <2>1, <2>3, <2>4
<1>10. echt \in 0..Voll /\ st.pos \in 0..Voll /\ neustarts \in 0..MaxNeustarts
  BY Lage DEF IInv, TypeOK, Gut, Zustaende
<1>11. ASSUME wunsch # Ohne
       PROVE  s.cmd \in Richtungen /\ s.dauer # 0 /\ Wohin(s.cmd, wunsch, echt, s.dauer, neustarts)
  <2>1. wunsch \in 0..Voll
    BY <1>11 DEF IInv, TypeOK
  <2> HIDE DEF s
  <2> QED
    BY <1>4, <1>5, <1>7, <1>10, <2>1, AuftragStimmt
<1>12. CASE s.cmd = "stop"
  <2>1. wunsch = Ohne
    BY <1>11, <1>12 DEF Richtungen
  <2>2. Ruhe'
    BY <1>6, <1>9, <1>12 DEF Ruhe, Still, AktorStill
  <2>3. Nahe(st'.pos, echt', neustarts') /\ Erfuellt(wunsch', echt')
    BY <1>1, <1>2, <1>5, <1>6, <1>9, <2>1 DEF Erfuellt
  <2> QED
    BY <1>2, <1>4, <2>2, <2>3 DEF Steht
<1>13. CASE s.cmd # "stop"
  <2>1. s.cmd \in Richtungen /\ s.cmd # "none"
    BY <1>8, <1>13 DEF Richtungen
  <2>2. /\ aktor'.lauf = s.cmd /\ aktor'.gefahren = 0
        /\ aktor'.rest = IF s.dauer = 0 THEN Eigenzeit ELSE s.dauer
    BY <1>6, <1>13 DEF Fahrt
  <2>3. Unterwegs(s.cmd, st.pos, echt, 0, neustarts)
    BY <1>5, <1>10, <2>1, Beginnt
  <2>4. wunsch' # Ohne => Wohin(s.cmd, wunsch', echt, aktor'.rest, neustarts)
    BY <1>1, <1>11, <2>2
  <2>5. st'.moving = s.cmd /\ st'.seit = 0
    BY <1>9, <1>13
  <2> HIDE DEF s, neu
  <2>6. Faehrt'
    BY <1>2, <1>6, <1>9, <2>1, <2>2, <2>3, <2>4, <2>5 DEF Faehrt
  <2> QED
    BY <1>2, <1>4, <2>6
<1> QED
  BY <1>12, <1>13

LEMMA TasterFahrplan ==
    ASSUME Massstab, IInv, Fahrplan, NEW d \in Richtungen, NEW s \in BOOLEAN, NEW a \in BOOLEAN,
           Taster(d, s, a)
    PROVE  Fahrplan'
<1> SUFFICES ASSUME sauber' PROVE laufzeit' = Laufzeit /\ Faehrt'
  BY DEF Fahrplan
<1>1. /\ sauber /\ Ruhe /\ s /\ a /\ wunsch' = Ohne /\ neustarts' = neustarts
      /\ laufzeit' = laufzeit /\ sendung' = sendung
  BY DEF Taster
<1>2. laufzeit = Laufzeit /\ Steht
  BY <1>1, RuheSteht
<1>3. aktor.lauf = "none" /\ funk = <<>> /\ NichtsGesendet /\ st.moving = "none"
  BY <1>1 DEF Ruhe, Still
<1>4. aktor' = Fahrt(d, Eigenzeit) /\ funk' = <<>> /\ echt' = echt
  BY <1>1, <1>3 DEF Taster, Umsteuern
<1>5. st' = [st EXCEPT !.moving = d, !.seit = 0]
  BY <1>1, <1>3 DEF Taster, NachTaster, Eingefroren
<1>6. st \in Zustaende /\ st.pos \in 0..Voll /\ echt \in 0..Voll /\ neustarts \in 0..MaxNeustarts
  BY Lage DEF IInv, TypeOK, Gut, Zustaende
<1>7. st'.pos = st.pos /\ st'.moving = d /\ st'.seit = 0
  BY <1>5, <1>6 DEF Zustaende
<1>8. Unterwegs(d, st.pos, echt, 0, neustarts)
  BY <1>2, <1>6, Beginnt DEF Steht
<1>9. aktor'.lauf = d /\ aktor'.gefahren = 0 /\ d # "none"
  BY <1>4 DEF Fahrt, Richtungen
<1>10. NichtsGesendet'
  BY <1>1, <1>3 DEF NichtsGesendet
<1>11. Faehrt'
  BY <1>1, <1>4, <1>7, <1>8, <1>9, <1>10 DEF Faehrt
<1> QED
  BY <1>1, <1>2, <1>11


\* Time carries a run on, or ends it with a report that fits.
LEMMA TickFahrplan ==
    ASSUME Massstab, IInv, Fahrplan, Tick
    PROVE  Fahrplan'
<1> SUFFICES ASSUME sauber' PROVE laufzeit' = Laufzeit /\ (Steht' \/ Faehrt' \/ Gemeldet')
  BY DEF Fahrplan
<1>1. /\ sauber /\ funk = <<>> /\ NichtsGesendet /\ wunsch' = wunsch
      /\ laufzeit' = laufzeit /\ sendung' = sendung /\ neustarts' = neustarts
  BY DEF Tick
<1>2. NichtsGesendet'
  BY <1>1 DEF NichtsGesendet
<1>3. ~Gesendet /\ ~Gemeldet
  <2>1. \A r \in Rufer : sendung[r].phase # "hin"
    BY <1>1 DEF NichtsGesendet, Frei
  <2>2. Len(funk) # 1
    BY <1>1, SMT
  <2> QED
    BY <2>1, <2>2 DEF Gesendet, Gemeldet
<1>4. laufzeit = Laufzeit /\ (Steht \/ Faehrt)
  BY <1>1, <1>3 DEF Fahrplan
<1>5. CASE Steht
  <2>1. aktor.lauf = "none" /\ st.moving = "none"
    BY <1>5 DEF Steht, Ruhe, Still
  <2>2. st' = st /\ aktor' = aktor /\ echt' = echt /\ funk' = funk
    BY <2>1 DEF Tick, Bewegung, aussen
  <2>3. Ruhe'
    BY <1>1, <1>2, <2>1, <2>2 DEF Ruhe, Still
  <2>4. Nahe(st'.pos, echt', neustarts') /\ Erfuellt(wunsch', echt')
    BY <1>1, <1>5, <2>2 DEF Steht
  <2> QED
    BY <1>1, <1>4, <2>3, <2>4 DEF Steht
<1>6. CASE Faehrt
  <2>1. PICK t, d, g, rest, pos, n, e, f, p :
          /\ t = Schritt /\ d = aktor.lauf /\ g = aktor.gefahren /\ rest = aktor.rest
          /\ pos = st.pos /\ n = neustarts /\ e = echt /\ f = echt' /\ p = wunsch
    OBVIOUS
  <2>2. /\ d # "none" /\ st.moving = d /\ st.seit = g /\ Unterwegs(d, pos, e, g, n)
        /\ p # Ohne => Wohin(d, p, e, rest, n)
    BY <1>6, <2>1 DEF Faehrt
  <2>3. /\ st \in Zustaende /\ pos \in 0..Voll /\ e \in 0..Voll /\ n \in 0..MaxNeustarts
        /\ d \in Richtungen /\ g \in Nat /\ rest \in Nat /\ p \in {Ohne} \cup 0..Voll
    BY <2>1, <2>2, Lage DEF IInv, TypeOK, Gut, Zustaende, Aktoren
  <2> DEFINE m == [aktor EXCEPT !.rest = @ - t, !.gefahren = @ + t]
  <2>4. /\ t \in Nat /\ Teilstrecke(d, e, f, rest, t)
        /\ m \in Aktoren /\ m.lauf = d /\ m.rest = rest - t /\ m.gefahren = g + t
        /\ IF f = Endlage(d)
           THEN aktor' = AktorStill /\ funk' = Append(funk, Bericht("end", m))
           ELSE IF m.rest = 0
           THEN aktor' = AktorStill /\ funk' = Append(funk, Bericht("fahrt", m))
           ELSE aktor' = m /\ UNCHANGED funk
    <3>1. Schritt \in Nat /\ Weiter(Schritt)
      BY <2>1, <2>2, TickWeiter
    <3> QED
      BY <2>1, <3>1 DEF Weiter
  <2>5. /\ f \in 0..Voll /\ g + t <= MaxSeit
        /\ f # Endlage(d) => Unterwegs(d, pos, f, g + t, n)
        /\ f = Endlage(d) => Gemessen(d, pos, g + t, n)
    BY <2>2, <2>3, <2>4, StreckeWirkt
  <2>6. ASSUME p # Ohne
        PROVE  /\ f # Endlage(d) => Wohin(d, p, f, rest - t, n)
               /\ f = Endlage(d) \/ rest - t = 0 => Erfuellt(p, f)
    <3>1. p \in 0..Voll
      BY <2>3, <2>6
    <3> QED
      BY <2>2, <2>3, <2>4, <2>6, <3>1, WohinWirkt
  <2>7. st'.pos = pos /\ st'.moving = d /\ st'.seit = g + t
    <3> DEFINE u == IF g + t < MaxSeit THEN g + t ELSE MaxSeit
    <3>1. u = g + t
      BY <2>3, <2>4, <2>5, Grenzen, SMT
    <3>2. st' = [st EXCEPT !.seit = u]
      BY <2>1, <2>2 DEF Tick
    <3> HIDE DEF u
    <3> QED
      BY <2>1, <2>2, <2>3, <3>1, <3>2 DEF Zustaende
  <2> HIDE DEF m
  <2>8. ASSUME NEW art \in {"end", "fahrt"}, funk' = Append(funk, Bericht(art, m)),
               aktor' = AktorStill, Erfuellt(p, f),
               IF art = "end" THEN f = Endlage(d) ELSE f # Endlage(d)
        PROVE  Gemeldet'
    <3> DEFINE b == Bericht(art, m)
    <3>1. b \in Meldungen /\ b.art = art /\ b.richtung = d /\ b.dauer = g + t
      BY <2>3, <2>4 DEF Bericht, Meldungen, Aktoren
    <3>2. Len(funk') = 1 /\ funk'[1] = b
      BY <1>1, <2>8, <3>1, Lage, Letztes
    <3>3. Passt(b, st', f, n)
      BY <2>5, <2>7, <2>8, <3>1 DEF Passt
    <3>4. Passt(funk'[1], st', echt', neustarts') /\ Erfuellt(wunsch', echt')
      BY <1>1, <2>1, <2>8, <3>2, <3>3
    <3>5. aktor'.lauf = "none"
      BY <2>8 DEF AktorStill
    <3> QED
      BY <1>2, <3>2, <3>4, <3>5 DEF Gemeldet
  <2>9. CASE f = Endlage(d)
    <3>1. Erfuellt(p, f)
      BY <2>6, <2>9 DEF Erfuellt
    <3> QED
      BY <1>1, <1>4, <2>4, <2>8, <2>9, <3>1
  <2>10. CASE f # Endlage(d) /\ m.rest = 0
    <3>1. Erfuellt(p, f)
      BY <2>4, <2>6, <2>10 DEF Erfuellt
    <3> QED
      BY <1>1, <1>4, <2>4, <2>8, <2>10, <3>1
  <2>11. CASE f # Endlage(d) /\ m.rest # 0
    <3>1. aktor' = m /\ funk' = funk
      BY <2>4, <2>11
    <3>2. /\ Unterwegs(aktor'.lauf, st'.pos, echt', aktor'.gefahren, neustarts')
          /\ wunsch' # Ohne => Wohin(aktor'.lauf, wunsch', echt', aktor'.rest, neustarts')
          /\ aktor'.lauf # "none" /\ funk' = <<>>
          /\ st'.moving = aktor'.lauf /\ st'.seit = aktor'.gefahren
      BY <1>1, <2>1, <2>2, <2>4, <2>5, <2>6, <2>7, <2>11, <3>1
    <3>3. Faehrt'
      BY <1>2, <3>2 DEF Faehrt
    <3> QED
      BY <1>1, <1>4, <3>3
  <2> QED
    BY <2>9, <2>10, <2>11
<1> QED
  BY <1>4, <1>5, <1>6

\* A report makes the computed position the real one.
LEMMA MeldenFahrplan ==
    ASSUME Massstab, IInv, Fahrplan, AmAnschlag, Melden
    PROVE  Fahrplan'
<1> SUFFICES ASSUME sauber' PROVE laufzeit' = Laufzeit /\ Steht'
  BY DEF Fahrplan
<1> DEFINE m == Head(funk)
<1>1. /\ funk # <<>> /\ st' = NachMeldung(st, laufzeit, m) /\ laufzeit' = Angepasst(st, laufzeit, m)
      /\ funk' = <<>> /\ aktor' = aktor /\ aktor.lauf = "none" /\ NichtsGesendet
      /\ sauber \/ (m.art = "end" /\ laufzeit' = Laufzeit)
      /\ neustarts' = (IF m.art = "end" THEN 0 ELSE neustarts)
      /\ wunsch' = (IF sauber THEN wunsch ELSE Ohne)
      /\ sendung' = sendung /\ echt' = echt
  BY DEF Melden
<1>2. NichtsGesendet'
  BY <1>1 DEF NichtsGesendet
<1>3. funk \in Seq(Meldungen) /\ echt \in 0..Voll /\ st \in Zustaende /\ neustarts \in 0..MaxNeustarts
  BY Lage DEF IInv, TypeOK, Gut
<1>4. m \in Meldungen
  BY <1>1, <1>3, HeadTailProperties
<1>5. CASE sauber
  <2>1. ~Steht /\ ~Gesendet /\ ~Faehrt
    BY <1>1 DEF Steht, Ruhe, Still, Gesendet, Faehrt
  <2>2. laufzeit = Laufzeit /\ Gemeldet
    BY <1>5, <2>1 DEF Fahrplan
  <2>3. Passt(m, st, echt, neustarts) /\ Erfuellt(wunsch, echt)
    <3>1. Len(funk) = 1
      BY <2>2 DEF Gemeldet
    <3>2. m = funk[1]
      BY <1>3, <3>1, Letztes
    <3> QED
      BY <2>2, <3>2 DEF Gemeldet
  <2>4. PICK s, r, e, n : s = st /\ r = m /\ e = echt /\ n = neustarts
    OBVIOUS
  <2> HIDE DEF m
  <2>5. /\ Angepasst(s, Laufzeit, r) = Laufzeit
        /\ NachMeldung(s, Laufzeit, r).moving = "none"
        /\ Nahe(NachMeldung(s, Laufzeit, r).pos, e, IF r.art = "end" THEN 0 ELSE n)
    BY <1>3, <1>4, <2>3, <2>4, MeldungStimmt
  <2>6. laufzeit' = Laufzeit /\ st'.moving = "none" /\ Nahe(st'.pos, echt', neustarts')
    BY <1>1, <2>2, <2>4, <2>5
  <2>7. Ruhe' /\ Erfuellt(wunsch', echt')
    BY <1>1, <1>2, <1>5, <2>3, <2>6 DEF Ruhe, Still
  <2> QED
    BY <2>6, <2>7 DEF Steht
<1>6. CASE ~sauber
  <2>1. m.art = "end" /\ laufzeit' = Laufzeit /\ neustarts' = 0 /\ wunsch' = Ohne
    BY <1>1, <1>6
  <2>2. m = funk[Len(funk)]
    <3>1. Tail(funk) = <<>>
      BY <1>1 DEF Melden
    <3> QED
      BY <1>1, <1>3, <3>1, Letztes
  <2>3. echt = Endlage(m.richtung)
    BY <1>1, <2>1, <2>2 DEF AmAnschlag
  <2> HIDE DEF m
  <2>4. st' = Ruhend(echt)
    BY <1>1, <2>1, <2>3 DEF NachMeldung
  <2>5. Nahe(echt, echt, 0)
    BY <1>3, Grenzen, SMT DEF Nahe, Abstand
  <2>6. st'.pos = echt /\ st'.moving = "none"
    BY <2>4 DEF Ruhend
  <2>7. Ruhe' /\ Erfuellt(wunsch', echt') /\ Nahe(st'.pos, echt', neustarts')
    BY <1>1, <1>2, <2>1, <2>5, <2>6 DEF Ruhe, Still, Erfuellt
  <2> QED
    BY <2>1, <2>7 DEF Steht
<1> QED
  BY <1>5, <1>6

\* A restart loses half a per mille to the state file.
LEMMA NeustartFahrplan ==
    ASSUME Massstab, IInv, Fahrplan, NEW g \in BOOLEAN, Neustart(g)
    PROVE  Fahrplan'
<1> SUFFICES ASSUME sauber' PROVE laufzeit' = Laufzeit /\ Steht'
  BY DEF Fahrplan
<1>1. /\ sauber /\ Ruhe /\ datei' = Gesichert(st, Laufzeit) /\ neustarts < MaxNeustarts
      /\ st' = Ruhend(datei'.pos) /\ laufzeit' = datei'.laufzeit
      /\ sendung' = [r \in Rufer |-> Frei] /\ funk' = <<>> /\ aktor' = aktor /\ echt' = echt
      /\ neustarts' = neustarts + 1 /\ wunsch' = Ohne
  BY DEF Neustart
<1>2. laufzeit = Laufzeit /\ Steht
  BY <1>1, RuheSteht
<1>3. laufzeit' = Laufzeit
  BY <1>1 DEF Gesichert
<1>4. PICK s, e, n : s = st /\ e = echt /\ n = neustarts
  OBVIOUS
<1>5. Nahe(Gesichert(s, Laufzeit).pos, e, n + 1)
  <2>1. Gut(s) /\ LzOk(Laufzeit) /\ e \in 0..Voll /\ n \in 0..MaxNeustarts /\ Nahe(s.pos, e, n)
    BY <1>2, <1>4, Lage DEF IInv, TypeOK, Steht
  <2> QED
    BY <2>1, GesichertNahe
<1>6. st'.pos = Gesichert(s, Laufzeit).pos /\ st'.moving = "none"
  BY <1>1, <1>4 DEF Ruhend
<1>7. Nahe(st'.pos, echt', neustarts') /\ Erfuellt(wunsch', echt')
  BY <1>1, <1>4, <1>5, <1>6 DEF Erfuellt
<1>8. Ruhe'
  BY <1>1, <1>6 DEF Ruhe, Still, NichtsGesendet
<1> QED
  BY <1>3, <1>7, <1>8 DEF Steht


LEMMA BefehlFahrplan ==
    ASSUME Massstab, IInv, Fahrplan, NEW r \in Rufer, Befehl(r)
    PROVE  Fahrplan'
<1>1. ASSUME NEW d \in Richtungen, Vollfahrt(r, d) PROVE Fahrplan'
  <2>1. PICK dauer : dauer = TimeFor(laufzeit, d) + Puffer
    OBVIOUS
  <2>2. Beginn(r, d, dauer, Ohne) /\ UNCHANGED st
    BY <1>1, <2>1 DEF Vollfahrt
  <2> QED
    BY <2>2, BeginnFahrplan
<1>2. ASSUME NEW d \in Richtungen, NEW dauer \in Dauern, Fahren(r, d, dauer) PROVE Fahrplan'
  <2>1. Beginn(r, d, dauer, Ohne) /\ UNCHANGED st
    BY <1>2 DEF Fahren
  <2> QED
    BY <2>1, BeginnFahrplan
<1>3. CASE Stoppen(r)
  <2>1. Beginn(r, "stop", 0, Ohne) /\ UNCHANGED st
    BY <1>3 DEF Stoppen
  <2> QED
    BY <2>1, BeginnFahrplan
<1>4. ASSUME NEW p \in Ziele, PositionFahren(r, p) PROVE Fahrplan'
  <2> DEFINE a == Eingefroren(st, laufzeit)
  <2>1. PICK d, dauer : /\ d = IF p > a.pos THEN "down" ELSE "up"
                        /\ dauer = Fahrdauer(p, a.pos, d)
    OBVIOUS
  <2>2. /\ ~AmZiel(p, a.pos) /\ st' = [a EXCEPT !.moving = d, !.seit = 0, !.ziel = p]
        /\ Beginn(r, d, dauer, p)
    BY <1>4, <2>1 DEF PositionFahren
  <2>3. ASSUME Ruhe
        PROVE  /\ st'.pos = st.pos /\ st'.moving = d /\ st'.seit = 0
               /\ Auftrag([phase |-> "hin", cmd |-> d, dauer |-> dauer], p, st.pos)
    <3>1. a = st /\ st \in Zustaende
      BY <2>3, Lage DEF Ruhe, Eingefroren, Gut
    <3>2. st'.pos = st.pos /\ st'.moving = d /\ st'.seit = 0
      BY <2>2, <3>1 DEF Zustaende
    <3> HIDE DEF a
    <3> QED
      BY <2>1, <2>2, <3>1, <3>2 DEF Auftrag
  <2> QED
    BY <2>2, <2>3, BeginnFahrplan
<1>5. ASSUME NEW p \in Ziele, PositionErreicht(r, p) PROVE Fahrplan'
  <2> SUFFICES ASSUME sauber' PROVE laufzeit' = Laufzeit /\ Steht'
    BY DEF Fahrplan
  <2>1. /\ sauber /\ Ruhe /\ AmZiel(p, Eingefroren(st, laufzeit).pos)
        /\ st' = Eingefroren(st, laufzeit) /\ wunsch' = p
        /\ laufzeit' = laufzeit /\ sendung' = sendung /\ aktor' = aktor /\ echt' = echt
        /\ funk' = funk /\ neustarts' = neustarts
    BY <1>5 DEF PositionErreicht, aussen
  <2>2. laufzeit = Laufzeit /\ Steht
    BY <2>1, RuheSteht
  <2>3. st' = st /\ AmZiel(p, st.pos)
    BY <2>1 DEF Ruhe, Eingefroren
  <2>4. PICK x, e, n : x = st.pos /\ e = echt /\ n = neustarts
    OBVIOUS
  <2>5. /\ p \in 0..Voll /\ x \in 0..Voll /\ e \in 0..Voll /\ n \in 0..MaxNeustarts
        /\ Nahe(x, e, n) /\ AmZiel(p, x)
    BY <2>2, <2>3, <2>4, Lage, RolladenAnnahme DEF IInv, TypeOK, Gut, Zustaende, Steht
  <2>6. Erfuellt(p, e)
    BY <2>5, AmZielErfuellt
  <2>7. Nahe(st'.pos, echt', neustarts') /\ Erfuellt(wunsch', echt')
    BY <2>1, <2>2, <2>3, <2>4, <2>6 DEF Steht
  <2>8. Ruhe'
    BY <2>1, <2>3 DEF Ruhe, Still, NichtsGesendet
  <2> QED
    BY <2>1, <2>2, <2>7, <2>8 DEF Steht
<1> QED
  BY <1>1, <1>2, <1>3, <1>4, <1>5 DEF Befehl

LEMMA FahrplanSchritt ==
    ASSUME Massstab, IInv, Fahrplan, AmAnschlag, [Next]_vars
    PROVE  Fahrplan'
<1>1. ASSUME NEW r \in Rufer, Befehl(r) PROVE Fahrplan'
  BY <1>1, BefehlFahrplan
<1>2. ASSUME NEW r \in Rufer, NEW g \in BOOLEAN, Abschluss(r, g) PROVE Fahrplan'
  BY <1>2, AbschlussFahrplan
<1>3. ASSUME NEW d \in Richtungen, NEW s \in BOOLEAN, NEW a \in BOOLEAN, Taster(d, s, a)
      PROVE  Fahrplan'
  BY <1>3, TasterFahrplan
<1>4. CASE Tick
  BY <1>4, TickFahrplan
<1>5. CASE Melden
  BY <1>5, MeldenFahrplan
<1>6. CASE MeldungVerloren
  BY <1>6 DEF MeldungVerloren, Fahrplan
<1>7. CASE Veroeffentlichen
  BY <1>7, Unveraendert DEF Veroeffentlichen, server, aussen
<1>8. ASSUME NEW p \in Staende, StandSetzen(p) PROVE Fahrplan'
  <2> SUFFICES ASSUME sauber' PROVE laufzeit' = Laufzeit /\ Steht'
    BY DEF Fahrplan
  <2>1. /\ Still /\ p = echt /\ laufzeit = Laufzeit /\ laufzeit' = laufzeit
        /\ st' = Ruhend(p) /\ neustarts' = 0 /\ wunsch' = Ohne
        /\ sendung' = sendung /\ aktor' = aktor /\ echt' = echt /\ funk' = funk
    BY <1>8 DEF StandSetzen, aussen
  <2>2. echt \in 0..Voll
    BY DEF IInv, TypeOK
  <2>3. Nahe(echt, echt, 0)
    BY <2>2, Grenzen, SMT DEF Nahe, Abstand
  <2>4. st'.pos = echt /\ st'.moving = "none"
    BY <2>1 DEF Ruhend
  <2>5. Ruhe' /\ Nahe(st'.pos, echt', neustarts') /\ Erfuellt(wunsch', echt')
    BY <2>1, <2>3, <2>4 DEF Ruhe, Still, NichtsGesendet, Erfuellt
  <2> QED
    BY <2>1, <2>5 DEF Steht
<1>9. ASSUME NEW k \in Kalibrierungen, Kalibrieren(k) PROVE Fahrplan'
  <2>1. CASE sauber
    <3>1. sauber' => k = Laufzeit /\ laufzeit = Laufzeit
      BY <1>9, <2>1 DEF Kalibrieren, Fahrplan
    <3> QED
      BY <1>9, <2>1, <3>1, Unveraendert DEF Kalibrieren, aussen
  <2>2. CASE ~sauber
    BY <1>9, <2>2 DEF Kalibrieren, Fahrplan
  <2> QED
    BY <2>1, <2>2
<1>10. ASSUME NEW g \in BOOLEAN, Neustart(g) PROVE Fahrplan'
  BY <1>10, NeustartFahrplan
<1>11. CASE UNCHANGED vars
  BY <1>11, Unveraendert DEF vars, server, aussen
<1> QED
  BY <1>1, <1>2, <1>3, <1>4, <1>5, <1>6, <1>7, <1>8, <1>9, <1>10, <1>11 DEF Next

LEMMA AnfangFahrplan == Init => AmAnschlag /\ Fahrplan
<1> SUFFICES ASSUME Init PROVE AmAnschlag /\ Fahrplan
  OBVIOUS
<1>1. /\ st.pos = 0 /\ st.moving = "none" /\ laufzeit = Laufzeit /\ NichtsGesendet
      /\ aktor.lauf = "none" /\ echt = 0 /\ funk = <<>> /\ neustarts = 0 /\ wunsch = Ohne
  BY DEF Init, Ruhend, AktorStill, NichtsGesendet
<1>2. Nahe(0, 0, 0)
  BY Grenzen, SMT DEF Nahe, Abstand
<1>3. Steht
  BY <1>1, <1>2 DEF Steht, Ruhe, Still, Erfuellt
<1> QED
  BY <1>1, <1>3 DEF AmAnschlag, Fahrplan

\* The four stages of an undisturbed run, from the command through the clock to
\* the report (handle_command, handle_feedback), are always kept.
THEOREM FahrplanImmer ==
    ASSUME Massstab
    PROVE  Spec => []Fahrplan
<1>1. IInv /\ AmAnschlag /\ Fahrplan /\ [Next]_vars => (AmAnschlag /\ Fahrplan)'
  BY FahrplanSchritt, SchrittAnschlag
<1> QED
  BY InvImmer, AnfangFahrplan, <1>1, PTL DEF Spec

LEMMA RuheHeisstSteht == Massstab /\ IInv /\ Fahrplan => StandStimmt /\ WunschErfuellt /\ LaufzeitBleibt
<1> SUFFICES ASSUME IInv, Fahrplan PROVE StandStimmt /\ WunschErfuellt /\ LaufzeitBleibt
  OBVIOUS
<1>1. ASSUME sauber, Ruhe PROVE Nahe(st.pos, echt, neustarts) /\ Erfuellt(wunsch, echt)
  BY <1>1, RuheSteht DEF Steht
<1> QED
  BY <1>1 DEF StandStimmt, WunschErfuellt, LaufzeitBleibt, Fahrplan, Nahe, Erfuellt

\* As long as every run ended by itself and was reported before the next
\* command, the position that tx_router.py computes (NachSenden and
\* NachMeldung: _update_state_after_send, _apply_feedback) is the real one, up
\* to the half per mille that each restart loses to the state file.
THEOREM StandSicher ==
    ASSUME Massstab
    PROVE  Spec => []StandStimmt
  BY InvImmer, FahrplanImmer, RuheHeisstSteht, PTL

\* Then a position command (_handle_position_command) also brings the shutter
\* to within 2 % of where it was asked to, across restarts and with durations
\* sent in tenths of a second.
THEOREM WunschSicher ==
    ASSUME Massstab
    PROVE  Spec => []WunschErfuellt
  BY InvImmer, FahrplanImmer, RuheHeisstSteht, PTL

\* And no run that was not disturbed makes _adjust_travel_time change the
\* calibrated travel times, although it measures from a position that may be
\* off by what the restarts lost.
THEOREM LaufzeitSicher ==
    ASSUME Massstab
    PROVE  Spec => []LaufzeitBleibt
  BY InvImmer, FahrplanImmer, RuheHeisstSteht, PTL
=============================================================================
