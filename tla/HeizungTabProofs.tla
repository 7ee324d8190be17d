-------------------------- MODULE HeizungTabProofs --------------------------
(* Theorems about HeizungTab, for every number of browsers, zones, switches *)
(* and requests under way.                                                  *)
EXTENDS HeizungTab, TLAPS

\* The lists of zones in which every outlet has the base setpoint of its
\* actuator: no form, request or answer holds any other.
ZonenOk == {z \in Seq(Zone) : Passt(z)}

Inv ==
    /\ Typ(ZonenOk)
    /\ Eindeutig(server.schalter)

-----------------------------------------------------------------------------
(* Lists *)

\* Removing a row leaves the others as they are.
LEMMA Entfernt ==
    ASSUME NEW S, NEW s \in Seq(S), NEW i \in DOMAIN s
    PROVE  /\ RemoveAt(s, i) \in Seq(S)
           /\ \A j \in DOMAIN RemoveAt(s, i) :
                 \E k \in DOMAIN s : RemoveAt(s, i)[j] = s[k]
  <1>1. Len(s) \in Nat /\ i \in 1..Len(s)
    OBVIOUS
  <1> DEFINE v == SubSeq(s, 1, i - 1)
             h == SubSeq(s, i + 1, Len(s))
  <1>2. v \in Seq(S) /\ Len(v) = i - 1 /\ \A j \in 1..Len(v) : v[j] = s[j]
    BY <1>1
  <1>3. h \in Seq(S) /\ Len(h) = Len(s) - i /\ \A j \in 1..Len(h) : h[j] = s[i + j]
    BY <1>1
  <1>4. RemoveAt(s, i) = v \o h
    BY DEF RemoveAt
  <1> HIDE DEF v, h
  <1>5. v \o h \in Seq(S) /\ Len(v \o h) = Len(s) - 1
    BY <1>1, <1>2, <1>3
  <1>6. ASSUME NEW j \in DOMAIN (v \o h)
        PROVE  \E k \in DOMAIN s : (v \o h)[j] = s[k]
    <2>1. j \in 1..(Len(s) - 1)
      BY <1>5
    <2>2. CASE j <= i - 1
      <3>1. (v \o h)[j] = s[j] /\ j \in DOMAIN s
        BY <1>1, <1>2, <1>3, <2>1, <2>2
      <3>2. QED
        BY <3>1
    <2>3. CASE ~(j <= i - 1)
      <3>1. (v \o h)[j] = h[j - (i - 1)] /\ j - (i - 1) \in 1..Len(h)
        BY <1>1, <1>2, <1>3, <2>1, <2>3, SMTT(30)
      <3>2. h[j - (i - 1)] = s[j + 1] /\ j + 1 \in DOMAIN s
        <4>1. j \in Int /\ i + (j - (i - 1)) = j + 1 /\ j + 1 \in 1..Len(s)
          BY <1>1, <2>1, SMT
        <4>2. h[j - (i - 1)] = s[i + (j - (i - 1))]
          BY <1>3, <3>1
        <4>3. j + 1 \in DOMAIN s
          BY <1>1, <4>1
        <4>4. QED
          BY <4>1, <4>2, <4>3
      <3>3. QED
        BY <3>1, <3>2
    <2>4. QED
      BY <2>2, <2>3
  <1>7. QED
    BY <1>4, <1>5, <1>6

\* A row that is there is found.
LEMMA Gefunden ==
    ASSUME NEW liste, NEW id, Hat(liste, id)
    PROVE  Stelle(liste, id) \in DOMAIN liste /\ liste[Stelle(liste, id)].id = id
  BY DEF Hat, Stelle

\* Taking over positions yields a list of switches with the same ids.
LEMMA Uebernommen ==
    ASSUME NEW neu \in Seq(Schalter), NEW alt \in Seq(Schalter)
    PROVE  LET e == NachUebernahme(neu, alt)
           IN  /\ e \in Seq(Schalter) /\ DOMAIN e = DOMAIN neu
               /\ \A j \in DOMAIN neu : e[j].id = neu[j].id
  <1> DEFINE e == NachUebernahme(neu, alt)
  <1>1. ASSUME NEW j \in DOMAIN neu
        PROVE  e[j] \in Schalter /\ e[j].id = neu[j].id
    <2>1. neu[j] \in Schalter
      OBVIOUS
    <2>2. CASE Hat(alt, neu[j].id)
      <3>1. alt[Stelle(alt, neu[j].id)] \in Schalter
        BY <2>2, Gefunden
      <3>2. e[j] = [neu[j] EXCEPT !.an = alt[Stelle(alt, neu[j].id)].an]
        BY <2>2 DEF NachUebernahme
      <3>3. QED
        BY <2>1, <3>1, <3>2 DEF Schalter
    <2>3. CASE ~Hat(alt, neu[j].id)
      BY <2>1, <2>3 DEF NachUebernahme
    <2>4. QED
      BY <2>2, <2>3
  <1>2. e \in Seq(Schalter) /\ DOMAIN e = DOMAIN neu
    <2>1. e \in [1..Len(neu) -> Schalter]
      BY <1>1 DEF NachUebernahme
    <2>2. QED
      BY <2>1
  <1>3. QED
    BY <1>1, <1>2

\* Following the positions yields a list of switches.
LEMMA MitStandTyp ==
    ASSUME NEW zeilen \in Seq(Schalter), NEW antwort \in Seq(Schalter)
    PROVE  MitStand(zeilen, antwort) \in Seq(Schalter)
  <1> DEFINE e == MitStand(zeilen, antwort)
  <1>1. ASSUME NEW j \in DOMAIN zeilen
        PROVE  e[j] \in Schalter
    <2>1. zeilen[j] \in Schalter
      OBVIOUS
    <2>2. CASE Hat(antwort, zeilen[j].id)
      <3>1. antwort[Stelle(antwort, zeilen[j].id)] \in Schalter
        BY <2>2, Gefunden
      <3>2. QED
        BY <2>1, <3>1 DEF MitStand, Schalter
    <2>3. CASE ~Hat(antwort, zeilen[j].id)
      BY <2>1, <2>3 DEF MitStand
    <2>4. QED
      BY <2>2, <2>3
  <1>2. e \in [1..Len(zeilen) -> Schalter]
    BY <1>1 DEF MitStand
  <1>3. QED
    BY <1>2

-----------------------------------------------------------------------------
(* The inductive invariant *)

\* A configuration and a form with fitting zones, field by field.
LEMMA Felder ==
    ASSUME NEW Z
    PROVE  /\ \A e \in Einstellungen(Z) : e.zonen \in Z /\ e.schalter \in Seq(Schalter)
           /\ \A f \in Formular(Z) :
                 /\ f.zonen \in Z /\ f.schalter \in Seq(Schalter) /\ f.laedt \in BOOLEAN
                 /\ [zonen |-> f.zonen, schalter |-> f.schalter] \in Einstellungen(Z)
                 /\ \A z \in Z : [f EXCEPT !["zonen"] = z] \in Formular(Z)
                 /\ \A s \in Seq(Schalter) :
                       [f EXCEPT !["schalter"] = s] \in Formular(Z)
  BY DEF Einstellungen, Formular

LEMMA InitInv == Init => Inv
  <1> SUFFICES ASSUME Init PROVE Inv
    OBVIOUS
  <1>1. AnfangsZonen \in ZonenOk
    BY TabAnnahme DEF ZonenOk
  <1>2. server \in Einstellungen(ZonenOk)
    BY <1>1, TabAnnahme DEF Init, Einstellungen
  <1>3. <<>> \in ZonenOk
    BY DEF ZonenOk, Passt
  <1>4. form \in [Browser -> Formular(ZonenOk)]
    BY <1>3 DEF Init, LeeresFormular, Formular
  <1>5. anfrage \in [Plaetze -> Anfrage(ZonenOk)]
    <2>1. ASSUME NEW i \in Plaetze PROVE anfrage[i] \in Anfrage(ZonenOk)
      BY DEF Init, Anfrage
    <2>2. QED
      BY <2>1 DEF Init
  <1>6. Eindeutig(server.schalter)
    BY TabAnnahme DEF Init, Gueltig
  <1>7. eingaben \in 0..MaxEingaben
    BY TabAnnahme DEF Init
  <1>8. gesendet \in [Browser -> ZonenOk]
    BY <1>3 DEF Init
  <1>9. QED
    BY <1>2, <1>4, <1>5, <1>6, <1>7, <1>8 DEF Inv, Typ

\* A step that leaves the server alone keeps what is said about it.
LEMMA ServerBleibt ==
    ASSUME Inv, server' = server,
           form' \in [Browser -> Formular(ZonenOk)],
           anfrage' \in [Plaetze -> Anfrage(ZonenOk)],
           gesendet' \in [Browser -> ZonenOk],
           eingaben' \in 0..MaxEingaben
    PROVE  Inv'
  BY DEF Inv, Typ

LEMMA EingabeTyp ==
    ASSUME Inv, Eingabe
    PROVE  eingaben' \in 0..MaxEingaben
  BY TabAnnahme DEF Inv, Typ, Eingabe

\* A new request is added to well-formed ones.
LEMMA AbschickenTyp ==
    ASSUME NEW A \in [Plaetze -> Anfrage(ZonenOk)], NEW b, NEW art, NEW inhalt,
           [art |-> art, von |-> b, ort |-> "hin", inhalt |-> inhalt]
               \in Anfrage(ZonenOk),
           Abschicken(A, b, art, inhalt)
    PROVE  anfrage' \in [Plaetze -> Anfrage(ZonenOk)]
  BY DEF Abschicken

\* Reopening a tab leaves well-formed requests.
LEMMA VerwaistTyp ==
    ASSUME NEW a \in Anfrage(ZonenOk), NEW b \in Browser
    PROVE  Verwaist(a, b) \in Anfrage(ZonenOk)
  BY DEF Verwaist, Anfrage

LEMMA OeffnenInv ==
    ASSUME Inv, NEW b \in Browser, Oeffnen(b)
    PROVE  Inv'
  <1> DEFINE A == [i \in Plaetze |-> Verwaist(anfrage[i], b)]
  <1>1. A \in [Plaetze -> Anfrage(ZonenOk)]
    BY VerwaistTyp DEF Inv, Typ
  <1>2. Abschicken(A, b, "laden", Aktuell)
    BY DEF Oeffnen
  <1> HIDE DEF A
  <1>3. [art |-> "laden", von |-> b, ort |-> "hin", inhalt |-> Aktuell]
            \in Anfrage(ZonenOk)
    BY DEF Anfrage
  <1>4. anfrage' \in [Plaetze -> Anfrage(ZonenOk)]
    BY <1>1, <1>2, <1>3, AbschickenTyp
  <1>5. <<>> \in ZonenOk
    BY DEF ZonenOk, Passt
  <1>6. form' \in [Browser -> Formular(ZonenOk)]
    BY <1>5 DEF Oeffnen, Inv, Typ, LeeresFormular, Formular
  <1>7. gesendet' \in [Browser -> ZonenOk]
    BY <1>5 DEF Oeffnen, Inv, Typ
  <1>8. QED
    BY <1>4, <1>6, <1>7, EingabeTyp, ServerBleibt DEF Oeffnen

LEMMA TaktInv ==
    ASSUME Inv, NEW b \in Browser, Takt(b)
    PROVE  Inv'
  <1>1. [art |-> "lage", von |-> b, ort |-> "hin", inhalt |-> Aktuell]
            \in Anfrage(ZonenOk)
    BY DEF Anfrage
  <1>2. anfrage' \in [Plaetze -> Anfrage(ZonenOk)]
    BY <1>1, AbschickenTyp DEF Takt, Inv, Typ
  <1>3. QED
    BY <1>2, ServerBleibt DEF Takt, Inv, Typ

LEMMA SpeichernInv ==
    ASSUME Inv, NEW b \in Browser, Speichern(b)
    PROVE  Inv'
  <1>1. form[b] \in Formular(ZonenOk)
    BY DEF Inv, Typ
  <1>2. [zonen |-> form[b].zonen, schalter |-> form[b].schalter]
            \in Einstellungen(ZonenOk)
    BY <1>1, Felder
  <1>3. [art |-> "speichern", von |-> b, ort |-> "hin",
         inhalt |-> [zonen |-> form[b].zonen, schalter |-> form[b].schalter]]
            \in Anfrage(ZonenOk)
    BY <1>2 DEF Anfrage
  <1>4. anfrage' \in [Plaetze -> Anfrage(ZonenOk)]
    BY <1>3, AbschickenTyp DEF Speichern, Inv, Typ
  <1>5. form' \in [Browser -> Formular(ZonenOk)]
    BY <1>1 DEF Speichern, Inv, Typ, Formular
  <1>6. gesendet' \in [Browser -> ZonenOk]
    BY <1>1, Felder DEF Speichern, Inv, Typ
  <1>7. QED
    BY <1>4, <1>5, <1>6, EingabeTyp, ServerBleibt DEF Speichern

LEMMA SchalterUmlegenInv ==
    ASSUME Inv, NEW b \in Browser, NEW j \in 1..Len(form[b].schalter),
           SchalterUmlegen(b, j)
    PROVE  Inv'
  <1>1. form[b].schalter \in Seq(Schalter)
    BY Felder DEF Inv, Typ
  <1>2. form[b].schalter[j] \in Schalter
    BY <1>1
  <1>3. [id |-> form[b].schalter[j].id, an |-> ~form[b].schalter[j].an] \in Schalter
    BY <1>2 DEF Schalter
  <1>4. [art |-> "umlegen", von |-> b, ort |-> "hin",
         inhalt |-> [id |-> form[b].schalter[j].id, an |-> ~form[b].schalter[j].an]]
            \in Anfrage(ZonenOk)
    BY <1>3 DEF Anfrage
  <1>5. anfrage' \in [Plaetze -> Anfrage(ZonenOk)]
    BY <1>4, AbschickenTyp DEF SchalterUmlegen, Inv, Typ
  <1>6. QED
    BY <1>5, EingabeTyp, ServerBleibt DEF SchalterUmlegen, Inv, Typ

LEMMA VisuInv ==
    ASSUME Inv, NEW s \in Ids, NEW an \in BOOLEAN, Visu(s, an)
    PROVE  Inv'
  <1>1. [art |-> "umlegen", von |-> Niemand, ort |-> "hin",
         inhalt |-> [id |-> s, an |-> an]] \in Anfrage(ZonenOk)
    BY DEF Anfrage, Schalter
  <1>2. anfrage' \in [Plaetze -> Anfrage(ZonenOk)]
    BY <1>1, AbschickenTyp DEF Visu, Inv, Typ
  <1>3. QED
    BY <1>2, EingabeTyp, ServerBleibt DEF Visu, Inv, Typ

-----------------------------------------------------------------------------
(* Edits of a form *)

\* An edit that leaves fitting zones keeps the invariant.
LEMMA ZonenBearbeitet ==
    ASSUME Inv, NEW b \in Browser, NEW z \in ZonenOk, Bearbeiten(b, "zonen", z)
    PROVE  Inv'
  <1>1. form' \in [Browser -> Formular(ZonenOk)]
    BY Felder DEF Bearbeiten, Inv, Typ
  <1>2. QED
    BY <1>1, EingabeTyp, ServerBleibt DEF Bearbeiten, Inv, Typ

LEMMA SchalterBearbeitet ==
    ASSUME Inv, NEW b \in Browser, NEW s \in Seq(Schalter), Bearbeiten(b, "schalter", s)
    PROVE  Inv'
  <1>1. form' \in [Browser -> Formular(ZonenOk)]
    BY Felder DEF Bearbeiten, Inv, Typ
  <1>2. QED
    BY <1>1, EingabeTyp, ServerBleibt DEF Bearbeiten, Inv, Typ

\* What an edit starts from.
LEMMA Entwurf ==
    ASSUME Inv, NEW b \in Browser
    PROVE  /\ form[b].zonen \in ZonenOk /\ form[b].zonen \in Seq(Zone)
           /\ Passt(form[b].zonen) /\ form[b].schalter \in Seq(Schalter)
  <1>1. form[b] \in Formular(ZonenOk)
    BY DEF Inv, Typ
  <1>2. form[b].zonen \in ZonenOk /\ form[b].schalter \in Seq(Schalter)
    BY <1>1, Felder
  <1>3. QED
    BY <1>2 DEF ZonenOk

\* A zone whose rooms all fit.
ZonePasst(z) ==
    \A r \in DOMAIN z.raeume : Effektiv(z.raeume[r], z) = Aktorbasis[z.raeume[r].kreis]

\* Replacing one zone by a fitting one.
LEMMA ZoneErsetzt ==
    ASSUME NEW z \in ZonenOk, NEW j \in DOMAIN z, NEW neu \in Zone, ZonePasst(neu)
    PROVE  [z EXCEPT ![j] = neu] \in ZonenOk
  <1> DEFINE e == [z EXCEPT ![j] = neu]
  <1>1. z \in Seq(Zone) /\ Passt(z)
    BY DEF ZonenOk
  <1>2. e \in Seq(Zone) /\ DOMAIN e = DOMAIN z
    BY <1>1
  <1>3. \A i \in DOMAIN z : e[i] = IF i = j THEN neu ELSE z[i]
    BY <1>1
  <1> HIDE DEF e
  <1>4. \A i \in DOMAIN z : ZonePasst(e[i])
    BY <1>1, <1>3 DEF Passt, ZonePasst
  <1>5. Passt(e)
    BY <1>2, <1>4 DEF Passt, ZonePasst
  <1>6. QED
    BY <1>2, <1>5 DEF ZonenOk, e

\* The rooms of a zone after one was taken out.
LEMMA OhneRaum ==
    ASSUME NEW z \in Zone, ZonePasst(z), NEW r \in DOMAIN z.raeume
    PROVE  /\ [z EXCEPT !.raeume = RemoveAt(@, r)] \in Zone
           /\ ZonePasst([z EXCEPT !.raeume = RemoveAt(@, r)])
  <1> DEFINE e == [z EXCEPT !.raeume = RemoveAt(@, r)]
  <1>1. z.raeume \in Seq(Raum)
    BY DEF Zone
  <1>2. /\ RemoveAt(z.raeume, r) \in Seq(Raum)
        /\ \A q \in DOMAIN RemoveAt(z.raeume, r) :
              \E k \in DOMAIN z.raeume : RemoveAt(z.raeume, r)[q] = z.raeume[k]
    BY <1>1, Entfernt
  <1>3. e.raeume = RemoveAt(z.raeume, r) /\ e.basis = z.basis
    BY DEF Zone
  <1>4. e \in Zone
    BY <1>2 DEF Zone
  <1> HIDE DEF e
  <1>5. ZonePasst(e)
    BY <1>2, <1>3 DEF ZonePasst, Effektiv
  <1>6. QED
    BY <1>4, <1>5 DEF e

\* The rooms of a zone after a fitting one was put in.
LEMMA MitRaum ==
    ASSUME NEW z \in Zone, ZonePasst(z), NEW raum \in Raum,
           Effektiv(raum, z) = Aktorbasis[raum.kreis]
    PROVE  /\ [z EXCEPT !.raeume = Append(@, raum)] \in Zone
           /\ ZonePasst([z EXCEPT !.raeume = Append(@, raum)])
  <1> DEFINE e == [z EXCEPT !.raeume = Append(@, raum)]
  <1>1. z.raeume \in Seq(Raum)
    BY DEF Zone
  <1>2. e.raeume = Append(z.raeume, raum) /\ e.basis = z.basis
    BY DEF Zone
  <1>3. Append(z.raeume, raum) \in Seq(Raum)
    BY <1>1
  <1>4. e \in Zone
    BY <1>3 DEF Zone
  <1>5. ASSUME NEW q \in DOMAIN Append(z.raeume, raum)
        PROVE  \/ Append(z.raeume, raum)[q] = raum
               \/ q \in DOMAIN z.raeume /\ Append(z.raeume, raum)[q] = z.raeume[q]
    BY <1>1
  <1> HIDE DEF e
  <1>6. ZonePasst(e)
    BY <1>2, <1>5 DEF ZonePasst, Effektiv
  <1>7. QED
    BY <1>4, <1>6 DEF e

LEMMA NeueZoneInv ==
    ASSUME Inv, NEW b \in Browser, NeueZone(b)
    PROVE  Inv'
  <1> DEFINE z == form[b].zonen
             neu == [id |-> Len(z) + 1, basis |-> Standardbasis, raeume |-> <<>>]
  <1>1. z \in ZonenOk /\ z \in Seq(Zone) /\ Passt(z)
    BY Entwurf
  <1>2. Len(z) < MaxZonen /\ Bearbeiten(b, "zonen", Append(z, neu))
    BY DEF NeueZone
  <1>3. neu \in Zone
    BY <1>1, <1>2, TabAnnahme DEF Zone, Standardbasis
  <1> HIDE DEF z
  <1>4. Append(z, neu) \in Seq(Zone)
    BY <1>1, <1>3
  <1>5. ASSUME NEW i \in DOMAIN Append(z, neu)
        PROVE  \/ Append(z, neu)[i] = neu
               \/ i \in DOMAIN z /\ Append(z, neu)[i] = z[i]
    BY <1>1
  <1>6. DOMAIN neu.raeume = {}
    OBVIOUS
  <1> HIDE DEF neu
  <1>7. Passt(Append(z, neu))
    BY <1>1, <1>5, <1>6 DEF Passt
  <1>8. QED
    BY <1>2, <1>4, <1>7, ZonenBearbeitet DEF ZonenOk

LEMMA ZoneLoeschenInv ==
    ASSUME Inv, NEW b \in Browser, NEW j \in 1..Len(form[b].zonen), ZoneLoeschen(b, j)
    PROVE  Inv'
  <1> DEFINE z == form[b].zonen
  <1>1. z \in Seq(Zone) /\ Passt(z)
    BY Entwurf
  <1>2. /\ RemoveAt(z, j) \in Seq(Zone)
        /\ \A i \in DOMAIN RemoveAt(z, j) :
              \E k \in DOMAIN z : RemoveAt(z, j)[i] = z[k]
    BY <1>1, Entfernt
  <1>3. Passt(RemoveAt(z, j))
    BY <1>1, <1>2 DEF Passt
  <1>4. QED
    BY <1>2, <1>3, ZonenBearbeitet DEF ZoneLoeschen, ZonenOk

LEMMA NeuerSchalterInv ==
    ASSUME Inv, NEW b \in Browser, NeuerSchalter(b)
    PROVE  Inv'
  <1>1. form[b].schalter \in Seq(Schalter)
    BY Entwurf
  <1>2. [id |-> Len(form[b].schalter) + 1, an |-> FALSE] \in Schalter
    BY <1>1, TabAnnahme DEF NeuerSchalter, Schalter, Ids
  <1>3. Append(form[b].schalter, [id |-> Len(form[b].schalter) + 1, an |-> FALSE])
            \in Seq(Schalter)
    BY <1>1, <1>2
  <1>4. QED
    BY <1>3, SchalterBearbeitet DEF NeuerSchalter

LEMMA SchalterLoeschenInv ==
    ASSUME Inv, NEW b \in Browser, NEW j \in 1..Len(form[b].schalter),
           SchalterLoeschen(b, j)
    PROVE  Inv'
  BY Entwurf, Entfernt, SchalterBearbeitet DEF SchalterLoeschen

\* One zone of a draft.
LEMMA EntwurfZone ==
    ASSUME Inv, NEW b \in Browser, NEW j \in 1..Len(form[b].zonen)
    PROVE  /\ j \in DOMAIN form[b].zonen
           /\ form[b].zonen[j] \in Zone /\ ZonePasst(form[b].zonen[j])
  BY Entwurf DEF Passt, ZonePasst

LEMMA NeuerRaumInv ==
    ASSUME Inv, NEW b \in Browser, NEW j \in 1..Len(form[b].zonen), NEW k \in Kreise,
           NeuerRaum(b, j, k)
    PROVE  Inv'
  <1> DEFINE z == form[b].zonen[j]
             raum == [id |-> Len(z.raeume) + 1, kreis |-> k,
                      basis |-> IF z.basis = Aktorbasis[k] THEN WieBereich
                                ELSE Aktorbasis[k]]
             neu == [z EXCEPT !.raeume = Append(@, raum)]
  <1>1. z \in Zone /\ ZonePasst(z) /\ z.raeume \in Seq(Raum) /\ z.basis \in Int
    BY EntwurfZone DEF Zone
  <1>2. Len(z.raeume) < MaxRaeume
    BY DEF NeuerRaum
  <1>3. raum \in Raum
    BY <1>1, <1>2, TabAnnahme, SMTT(30) DEF Raum
  <1>4. Effektiv(raum, z) = Aktorbasis[raum.kreis]
    BY TabAnnahme DEF Effektiv
  <1> HIDE DEF raum
  <1>5. neu \in Zone /\ ZonePasst(neu)
    BY <1>1, <1>3, <1>4, MitRaum
  <1>6. [form[b].zonen EXCEPT ![j] = neu] \in ZonenOk
    BY <1>5, Entwurf, EntwurfZone, ZoneErsetzt
  <1>7. Bearbeiten(b, "zonen", [form[b].zonen EXCEPT ![j] = neu])
    BY DEF NeuerRaum, raum
  <1>8. QED
    BY <1>6, <1>7, ZonenBearbeitet

LEMMA RaumLoeschenInv ==
    ASSUME Inv, NEW b \in Browser, NEW j \in 1..Len(form[b].zonen),
           NEW r \in 1..Len(form[b].zonen[j].raeume), RaumLoeschen(b, j, r)
    PROVE  Inv'
  <1> DEFINE z == form[b].zonen[j]
             neu == [z EXCEPT !.raeume = RemoveAt(@, r)]
  <1>1. z \in Zone /\ ZonePasst(z) /\ z.raeume \in Seq(Raum)
    BY EntwurfZone DEF Zone
  <1>2. r \in DOMAIN z.raeume
    BY <1>1
  <1>3. neu \in Zone /\ ZonePasst(neu)
    BY <1>1, <1>2, OhneRaum
  <1>4. [form[b].zonen EXCEPT ![j] = neu] \in ZonenOk
    BY <1>3, Entwurf, EntwurfZone, ZoneErsetzt
  <1>5. QED
    BY <1>4, ZonenBearbeitet DEF RaumLoeschen

LEMMA RaumVerschiebenInv ==
    ASSUME Inv, NEW b \in Browser, NEW j \in 1..Len(form[b].zonen),
           NEW r \in 1..Len(form[b].zonen[j].raeume), NEW ziel,
           RaumVerschieben(b, j, r, ziel)
    PROVE  Inv'
  <1> DEFINE z == form[b].zonen
             raum == Festgeschrieben(z[j].raeume[r], z[j])
             von == [z[j] EXCEPT !.raeume = RemoveAt(@, r)]
  <1>1. PICK n \in DOMAIN z :
           /\ ziel # z[j].id /\ z[n].id = ziel
           /\ Bearbeiten(b, "zonen", [z EXCEPT ![j].raeume = RemoveAt(@, r),
                                              ![n].raeume = Append(@, raum)])
    BY DEF RaumVerschieben
  <1> DEFINE nach == [z[n] EXCEPT !.raeume = Append(@, raum)]
  <1>2. z \in ZonenOk /\ z \in Seq(Zone) /\ j \in DOMAIN z /\ n # j
    BY <1>1, Entwurf, EntwurfZone
  <1>3. /\ z[j] \in Zone /\ ZonePasst(z[j]) /\ z[j].raeume \in Seq(Raum)
        /\ z[j].basis \in Int
        /\ z[n] \in Zone /\ ZonePasst(z[n])
    <2>1. z[j] \in Zone /\ z[n] \in Zone
      BY <1>2
    <2>2. Passt(z)
      BY Entwurf
    <2>3. ZonePasst(z[j]) /\ ZonePasst(z[n])
      BY <1>2, <2>2 DEF Passt, ZonePasst
    <2>4. QED
      BY <2>1, <2>3 DEF Zone
  <1>4. r \in DOMAIN z[j].raeume /\ z[j].raeume[r] \in Raum
    BY <1>3
  <1>5. Effektiv(z[j].raeume[r], z[j]) = Aktorbasis[z[j].raeume[r].kreis]
    BY <1>3, <1>4 DEF ZonePasst
  <1>6. /\ raum \in Raum /\ raum.kreis = z[j].raeume[r].kreis
        /\ raum.basis = Effektiv(z[j].raeume[r], z[j]) /\ raum.basis # WieBereich
    <2>1. z[j].raeume[r].basis \in Int \cup {WieBereich}
      BY <1>4 DEF Raum
    <2>2. QED
      BY <2>1, <1>3, <1>4, TabAnnahme DEF Festgeschrieben, Effektiv, Raum
  <1>7. Effektiv(raum, z[n]) = Aktorbasis[raum.kreis]
    BY <1>5, <1>6 DEF Effektiv
  <1>8. von \in Zone /\ ZonePasst(von)
    BY <1>3, <1>4, OhneRaum
  <1> HIDE DEF raum
  <1>9. nach \in Zone /\ ZonePasst(nach)
    BY <1>3, <1>6, <1>7, MitRaum
  <1>10. [z EXCEPT ![j] = von] \in ZonenOk
    BY <1>2, <1>8, ZoneErsetzt
  <1>11. n \in DOMAIN [z EXCEPT ![j] = von] /\ [z EXCEPT ![j] = von][n] = z[n]
    BY <1>2
  <1>12. [[z EXCEPT ![j] = von] EXCEPT ![n] = nach] \in ZonenOk
    BY <1>9, <1>10, <1>11, ZoneErsetzt
  <1>13. [z EXCEPT ![j].raeume = RemoveAt(@, r), ![n].raeume = Append(@, raum)]
            = [[z EXCEPT ![j] = von] EXCEPT ![n] = nach]
    BY <1>2, <1>11
  <1>14. QED
    BY <1>1, <1>12, <1>13, ZonenBearbeitet

-----------------------------------------------------------------------------
(* The server and the answers *)

\* An answer, or nothing, takes the place of a request.
LEMMA ZurueckTyp ==
    ASSUME Inv, NEW i \in Plaetze, anfrage[i] # Frei,
           NEW inhalt \in Einstellungen(ZonenOk) \cup {Fehler}, Zurueck(i, inhalt)
    PROVE  anfrage' \in [Plaetze -> Anfrage(ZonenOk)]
  <1> DEFINE a == anfrage[i]
             neu == IF a.von = Niemand THEN Frei
                    ELSE [a EXCEPT !.ort = "zurueck", !.inhalt = inhalt]
  <1>1. a \in Anfrage(ZonenOk) /\ a # Frei
    BY DEF Inv, Typ
  <1>2. neu \in Anfrage(ZonenOk)
    <2>1. CASE a.von = Niemand
      BY <2>1 DEF Anfrage
    <2>2. CASE a.von # Niemand
      BY <1>1, <2>2 DEF Anfrage
    <2>3. QED
      BY <2>1, <2>2
  <1>3. anfrage' = [anfrage EXCEPT ![i] = neu]
    BY DEF Zurueck, Beantwortet
  <1> HIDE DEF neu
  <1>4. QED
    BY <1>2, <1>3 DEF Inv, Typ

LEMMA LadenAnkunftInv ==
    ASSUME Inv, NEW i \in Plaetze, LadenAnkunft(i)
    PROVE  Inv'
  <1> DEFINE neu == [anfrage[i] EXCEPT !.ort = "server"]
  <1>1. anfrage[i] \in Anfrage(ZonenOk)
    BY DEF Inv, Typ
  <1>2. neu \in Anfrage(ZonenOk)
    BY <1>1 DEF LadenAnkunft, Anfrage
  <1>3. anfrage' = [anfrage EXCEPT ![i] = neu]
    BY DEF LadenAnkunft
  <1> HIDE DEF neu
  <1>4. anfrage' \in [Plaetze -> Anfrage(ZonenOk)]
    BY <1>2, <1>3 DEF Inv, Typ
  <1>5. QED
    BY <1>4, ServerBleibt DEF LadenAnkunft, Inv, Typ

LEMMA AbgelehntInv ==
    ASSUME Inv, NEW i \in Plaetze, anfrage[i] # Frei, Zurueck(i, Fehler),
           UNCHANGED <<server, form, gesendet>>, eingaben' \in 0..MaxEingaben
    PROVE  Inv'
  <1>1. anfrage' \in [Plaetze -> Anfrage(ZonenOk)]
    BY ZurueckTyp
  <1>2. QED
    BY <1>1, ServerBleibt DEF Inv, Typ

LEMMA SpeichernAnkunftInv ==
    ASSUME Inv, NEW i \in Plaetze, SpeichernAnkunft(i)
    PROVE  Inv'
  <1> DEFINE k == anfrage[i].inhalt
             A == MitAltemStand(anfrage)
             warten == [A[i] EXCEPT !.ort = "server", !.inhalt = Aktuell]
  <1>1. /\ anfrage \in [Plaetze -> Anfrage(ZonenOk)] /\ server \in Einstellungen(ZonenOk)
        /\ anfrage[i] \in Anfrage(ZonenOk) /\ anfrage[i] # Frei
        /\ anfrage[i].art = "speichern" /\ anfrage[i].ort = "hin"
    BY DEF Inv, Typ, SpeichernAnkunft
  <1>2. k \in Einstellungen(ZonenOk)
    BY <1>1 DEF Anfrage
  <1>3. CASE Gueltig(k)
    <2>1. /\ server' = [zonen |-> k.zonen,
                        schalter |-> NachUebernahme(k.schalter, server.schalter)]
          /\ \/ anfrage' = [A EXCEPT ![i] = warten]
             \/ anfrage' = [A EXCEPT ![i] = Beantwortet(A[i], Fehler)]
          /\ UNCHANGED <<form, gesendet, eingaben>>
      BY <1>3 DEF SpeichernAnkunft
    <2>2. k.zonen \in ZonenOk /\ k.schalter \in Seq(Schalter)
          /\ server.schalter \in Seq(Schalter)
      BY <1>1, <1>2, Felder
    <2>3. LET e == NachUebernahme(k.schalter, server.schalter)
          IN  /\ e \in Seq(Schalter) /\ DOMAIN e = DOMAIN k.schalter
              /\ \A j \in DOMAIN k.schalter : e[j].id = k.schalter[j].id
      BY <2>2, Uebernommen
    <2>4. server' \in Einstellungen(ZonenOk)
      BY <2>1, <2>2, <2>3 DEF Einstellungen
    <2>5. Eindeutig(server'.schalter)
      BY <1>3, <2>1, <2>3 DEF Gueltig, Eindeutig
    <2>6. A \in [Plaetze -> Anfrage(ZonenOk)]
      <3>1. ASSUME NEW p \in Plaetze PROVE A[p] \in Anfrage(ZonenOk)
        <4>1. anfrage[p] \in Anfrage(ZonenOk)
          BY <1>1
        <4>2. CASE /\ anfrage[p] # Frei /\ anfrage[p].ort = "server"
                   /\ anfrage[p].inhalt = Aktuell
                   /\ anfrage[p].art \in {"laden", "lage", "speichern"}
          <5>1. [anfrage[p] EXCEPT !.inhalt = server] \in Anfrage(ZonenOk)
            BY <1>1, <4>1, <4>2 DEF Anfrage
          <5>2. QED
            BY <4>2, <5>1 DEF MitAltemStand
        <4>3. QED
          BY <4>1, <4>2 DEF MitAltemStand
      <3>2. QED
        BY <3>1 DEF MitAltemStand
    <2>7. A[i] = anfrage[i]
      BY <1>1 DEF MitAltemStand
    <2>8. warten \in Anfrage(ZonenOk) /\ Beantwortet(A[i], Fehler) \in Anfrage(ZonenOk)
      BY <1>1, <2>7 DEF Anfrage, Beantwortet
    <2> HIDE DEF A, warten
    <2>9. anfrage' \in [Plaetze -> Anfrage(ZonenOk)]
      BY <2>1, <2>6, <2>8
    <2>10. QED
      BY <2>1, <2>4, <2>5, <2>9 DEF Inv, Typ
  <1>4. CASE ~Gueltig(k)
    BY <1>1, <1>4, AbgelehntInv DEF SpeichernAnkunft, Ablehnen, Inv, Typ
  <1>5. QED
    BY <1>3, <1>4

LEMMA UmlegenAnkunftInv ==
    ASSUME Inv, NEW i \in Plaetze, UmlegenAnkunft(i)
    PROVE  Inv'
  <1> DEFINE a == anfrage[i].inhalt
             n == Stelle(server.schalter, a.id)
             neu == [anfrage[i] EXCEPT !.ort = "server", !.inhalt = Aktuell]
  <1>1. /\ anfrage \in [Plaetze -> Anfrage(ZonenOk)] /\ server \in Einstellungen(ZonenOk)
        /\ anfrage[i] \in Anfrage(ZonenOk) /\ anfrage[i] # Frei
        /\ anfrage[i].art = "umlegen" /\ anfrage[i].ort = "hin"
    BY DEF Inv, Typ, UmlegenAnkunft
  <1>2. a \in Schalter
    BY <1>1 DEF Anfrage
  <1>3. CASE Hat(server.schalter, a.id)
    <2>1. /\ server' = [server EXCEPT !.schalter[n].an = a.an]
          /\ anfrage' = [anfrage EXCEPT ![i] = neu] \/ Zurueck(i, Fehler)
          /\ UNCHANGED <<form, gesendet, eingaben>>
      BY <1>3 DEF UmlegenAnkunft
    <2>2. server.schalter \in Seq(Schalter) /\ server.zonen \in ZonenOk
      BY <1>1, Felder
    <2>3. n \in DOMAIN server.schalter
      BY <1>3, Gefunden
    <2> HIDE DEF n
    <2>4. [server.schalter[n] EXCEPT !.an = a.an] \in Schalter
      <3>1. server.schalter[n] \in Schalter
        BY <2>2, <2>3
      <3>2. a.an \in BOOLEAN
        BY <1>2 DEF Schalter
      <3> HIDE DEF a
      <3>3. QED
        BY <3>1, <3>2 DEF Schalter
    <2>5. /\ server'.schalter
                = [server.schalter EXCEPT ![n] = [server.schalter[n] EXCEPT !.an = a.an]]
          /\ server'.zonen = server.zonen
      BY <1>1, <2>1 DEF Einstellungen
    <2>6. server'.schalter \in Seq(Schalter)
      BY <2>2, <2>3, <2>4, <2>5
    <2>7. server' \in Einstellungen(ZonenOk)
      BY <1>1, <2>1, <2>6, <2>5, <2>2 DEF Einstellungen
    <2>8. \A j \in DOMAIN server.schalter :
             server'.schalter[j].id = server.schalter[j].id
      BY <2>2, <2>3, <2>5 DEF Schalter
    <2>9. Eindeutig(server'.schalter)
      BY <2>2, <2>5, <2>8 DEF Inv, Eindeutig
    <2>10. neu \in Anfrage(ZonenOk)
      BY <1>1 DEF Anfrage
    <2> HIDE DEF neu
    <2>11. anfrage' \in [Plaetze -> Anfrage(ZonenOk)]
      BY <1>1, <2>1, <2>10, ZurueckTyp
    <2>12. QED
      BY <2>1, <2>7, <2>9, <2>11 DEF Inv, Typ
  <1>4. CASE ~Hat(server.schalter, a.id)
    BY <1>1, <1>4, AbgelehntInv DEF UmlegenAnkunft, Ablehnen, Inv, Typ
  <1>5. QED
    BY <1>3, <1>4

LEMMA FertigInv ==
    ASSUME Inv, NEW i \in Plaetze, Fertig(i)
    PROVE  Inv'
  <1>1. /\ server \in Einstellungen(ZonenOk) /\ anfrage[i] \in Anfrage(ZonenOk)
        /\ anfrage[i] # Frei /\ anfrage[i].ort = "server"
    BY DEF Inv, Typ, Fertig
  <1>2. anfrage[i].inhalt \in Einstellungen(ZonenOk) \cup {Aktuell}
    BY <1>1 DEF Anfrage
  <1>3. (IF anfrage[i].inhalt = Aktuell THEN server ELSE anfrage[i].inhalt)
            \in Einstellungen(ZonenOk)
    BY <1>1, <1>2
  <1>4. anfrage' \in [Plaetze -> Anfrage(ZonenOk)]
    BY <1>1, <1>3, ZurueckTyp DEF Fertig
  <1>5. QED
    BY <1>4, ServerBleibt DEF Fertig, Inv, Typ

LEMMA AbbruchInv ==
    ASSUME Inv, NEW i \in Plaetze, Abbruch(i)
    PROVE  Inv'
  BY EingabeTyp, AbgelehntInv DEF Abbruch

\* What an answer makes of a form.
LEMMA NachherTyp ==
    ASSUME NEW f \in Formular(ZonenOk),
           NEW a \in [art : {"laden", "lage", "speichern", "umlegen"}, von : Browser,
                      ort : {"zurueck"}, inhalt : Einstellungen(ZonenOk) \cup {Fehler}]
    PROVE  Nachher(f, a) \in Formular(ZonenOk)
  <1>1. CASE a.inhalt = Fehler
    <2>1. CASE a.art = "speichern"
      <3>1. Nachher(f, a) = [f EXCEPT !.laedt = FALSE]
        BY <1>1, <2>1 DEF Nachher
      <3>2. QED
        BY <3>1 DEF Formular
    <2>2. CASE a.art # "speichern"
      <3>1. Nachher(f, a) = [f EXCEPT !.laedt = f.laedt]
        BY <1>1, <2>2 DEF Nachher
      <3>2. QED
        BY <3>1 DEF Formular
    <2>3. QED
      BY <2>1, <2>2
  <1>2. CASE a.inhalt # Fehler
    <2>1. a.inhalt \in Einstellungen(ZonenOk)
      BY <1>2
    <2>2. /\ a.inhalt.zonen \in ZonenOk /\ a.inhalt.schalter \in Seq(Schalter)
          /\ f.zonen \in ZonenOk /\ f.schalter \in Seq(Schalter) /\ f.laedt \in BOOLEAN
      BY <2>1, Felder
    <2>3. CASE a.art = "laden"
      BY <1>2, <2>2, <2>3 DEF Nachher, Formular
    <2>4. CASE a.art = "lage"
      <3>1. MitStand(f.schalter, a.inhalt.schalter) \in Seq(Schalter)
        BY <2>2, MitStandTyp
      <3>2. Nachher(f, a) = [f EXCEPT !.schalter = MitStand(f.schalter, a.inhalt.schalter)]
        BY <1>2, <2>4 DEF Nachher, NachTakt
      <3>3. QED
        BY <3>1, <3>2 DEF Formular
    <2>5. CASE a.art = "speichern"
      BY <1>2, <2>2, <2>5 DEF Nachher, Formular
    <2>6. CASE a.art = "umlegen"
      BY <1>2, <2>2, <2>6 DEF Nachher, Formular
    <2>7. QED
      BY <2>3, <2>4, <2>5, <2>6
  <1>3. QED
    BY <1>1, <1>2

LEMMA AntwortInv ==
    ASSUME Inv, NEW i \in Plaetze, Antwort(i)
    PROVE  Inv'
  <1>1. /\ anfrage[i] \in Anfrage(ZonenOk) /\ anfrage[i] # Frei
        /\ anfrage[i].ort = "zurueck"
    BY DEF Inv, Typ, Antwort
  <1>2. anfrage[i] \in [art : {"laden", "lage", "speichern", "umlegen"}, von : Browser,
            ort : {"zurueck"}, inhalt : Einstellungen(ZonenOk) \cup {Fehler}]
    BY <1>1 DEF Anfrage
  <1>3. anfrage[i].von \in Browser /\ form[anfrage[i].von] \in Formular(ZonenOk)
    BY <1>2 DEF Inv, Typ
  <1>4. Nachher(form[anfrage[i].von], anfrage[i]) \in Formular(ZonenOk)
    BY <1>2, <1>3, NachherTyp
  <1>5. form' \in [Browser -> Formular(ZonenOk)]
    BY <1>3, <1>4 DEF Antwort, Inv, Typ
  <1>6. anfrage' \in [Plaetze -> Anfrage(ZonenOk)]
    BY DEF Antwort, Inv, Typ, Anfrage
  <1>7. gesendet' \in [Browser -> ZonenOk]
    <2>1. <<>> \in ZonenOk
      BY DEF ZonenOk, Passt
    <2>2. QED
      BY <2>1 DEF Antwort, Inv, Typ
  <1>8. QED
    BY <1>5, <1>6, <1>7, ServerBleibt DEF Antwort, Inv, Typ

-----------------------------------------------------------------------------
(* Invariance *)

LEMMA NextInv ==
    ASSUME Inv, [Next]_vars
    PROVE  Inv'
  <1>1. CASE UNCHANGED vars
    BY <1>1 DEF Inv, Typ, vars
  <1>2. ASSUME NEW b \in Browser, Anwender(b) \/ Takt(b)
        PROVE  Inv'
    BY <1>2, OeffnenInv, SpeichernInv, SchalterUmlegenInv, TaktInv DEF Anwender
  <1>3. ASSUME NEW b \in Bearbeiter, Aendern(b)
        PROVE  Inv'
    <2>1. b \in Browser
      BY TabAnnahme
    <2>2. QED
      BY <1>3, <2>1, NeueZoneInv, NeuerSchalterInv, SchalterLoeschenInv, ZoneLoeschenInv,
         NeuerRaumInv, RaumLoeschenInv, RaumVerschiebenInv DEF Aendern
  <1>4. ASSUME NEW i \in Plaetze, Verarbeiten(i) \/ Abbruch(i)
        PROVE  Inv'
    BY <1>4, LadenAnkunftInv, SpeichernAnkunftInv, UmlegenAnkunftInv, FertigInv,
       AntwortInv, AbbruchInv DEF Verarbeiten
  <1>5. ASSUME NEW s \in Ids, NEW an \in BOOLEAN, Visu(s, an)
        PROVE  Inv'
    BY <1>5, VisuInv
  <1>6. QED
    BY <1>1, <1>2, <1>3, <1>4, <1>5 DEF Next

THEOREM InvImmer == Spec => []Inv
  BY InitInv, NextInv, PTL DEF Spec

\* Forms, requests and the server's configuration have their types.
THEOREM TypKorrekt == Spec => []TypeOK
  <1>1. Inv => TypeOK
    <2>1. ZonenOk \subseteq Seq(Zone)
      BY DEF ZonenOk
    <2>2. Einstellungen(ZonenOk) \subseteq Einstellungen(Seq(Zone))
      BY <2>1 DEF Einstellungen
    <2>3. Formular(ZonenOk) \subseteq Formular(Seq(Zone))
      BY <2>1 DEF Formular
    <2>4. Anfrage(ZonenOk) \subseteq Anfrage(Seq(Zone))
      BY <2>2 DEF Anfrage
    <2>5. Inv => gesendet \in [Browser -> Seq(Zone)]
      BY <2>1 DEF Inv, Typ
    <2>6. QED
      BY <2>2, <2>3, <2>4, <2>5 DEF Inv, Typ, TypeOK
  <1>2. QED
    BY <1>1, InvImmer, PTL

\* raumVerschieben: an outlet keeps the base setpoint of its actuator.
THEOREM BasisPasst == Spec => []BasisPasstZumAktor
  <1>1. Inv => BasisPasstZumAktor
    BY Felder DEF Inv, Typ, ZonenOk, BasisPasstZumAktor
  <1>2. QED
    BY <1>1, InvImmer, PTL

-----------------------------------------------------------------------------
(* The refinement of Schalterstand *)

\* Requests that turn no switch are no orders.
LEMMA KeinAuftrag ==
    /\ AuftragIn(Frei) = Kein
    /\ \A a : a.art # "umlegen" \/ a.ort # "hin" => AuftragIn(a) = Kein
  BY DEF AuftragIn

LEMMA InitAbstrakt == Inv /\ Init => Abstrakt!Init
  <1> SUFFICES ASSUME Inv, Init PROVE Abstrakt!Init
    OBVIOUS
  <1> DEFINE S == {server.schalter[j].id : j \in DOMAIN server.schalter}
  <1>1. server.schalter \in Seq(Schalter)
    BY Felder DEF Inv, Typ
  <1>2. S \subseteq Ids
    <2>1. \A j \in DOMAIN server.schalter : server.schalter[j] \in Schalter
      BY <1>1
    <2>2. QED
      BY <2>1 DEF Schalter
  <1>3. ASSUME NEW s \in S
        PROVE  server.schalter[Stelle(server.schalter, s)].an \in BOOLEAN
    <2>1. Stelle(server.schalter, s) \in DOMAIN server.schalter
      BY <1>3, Gefunden DEF Hat
    <2>2. server.schalter[Stelle(server.schalter, s)] \in Schalter
      BY <1>1, <2>1
    <2>3. QED
      BY <2>2 DEF Schalter
  <1>4. stand \in [S -> BOOLEAN]
    BY <1>3 DEF stand
  <1>5. \A i \in Plaetze : AuftragIn(anfrage[i]) = Kein
    BY DEF Init, AuftragIn
  <1>6. QED
    BY <1>2, <1>4, <1>5 DEF Abstrakt!Init, auftrag

\* Adding a request that turns no switch gives no order.
LEMMA KeinNeuerAuftrag ==
    ASSUME NEW A, A \in [Plaetze -> Anfrage(ZonenOk)], NEW b, NEW art, NEW inhalt,
           art # "umlegen", Abschicken(A, b, art, inhalt),
           \A i \in Plaetze : AuftragIn(A[i]) = AuftragIn(anfrage[i])
    PROVE  auftrag' = auftrag
  <1>1. PICK i \in Plaetze :
           /\ A[i] = Frei
           /\ anfrage' = [A EXCEPT ![i] =
                  [art |-> art, von |-> b, ort |-> "hin", inhalt |-> inhalt]]
    BY DEF Abschicken
  <1>2. AuftragIn(anfrage'[i]) = Kein /\ AuftragIn(A[i]) = Kein
    BY <1>1, KeinAuftrag
  <1>3. \A p \in Plaetze : AuftragIn(anfrage'[p]) = AuftragIn(anfrage[p])
    BY <1>1, <1>2
  <1>4. QED
    BY <1>3 DEF auftrag

\* Adding a request that turns a switch gives exactly this order.
LEMMA NeuerAuftrag ==
    ASSUME Inv, NEW b, NEW s \in Ids, NEW an \in BOOLEAN,
           Abschicken(anfrage, b, "umlegen", [id |-> s, an |-> an]), server' = server
    PROVE  Abstrakt!Next
  <1> DEFINE neu == [art |-> "umlegen", von |-> b, ort |-> "hin",
                     inhalt |-> [id |-> s, an |-> an]]
  <1>1. PICK i \in Plaetze : anfrage[i] = Frei /\ anfrage' = [anfrage EXCEPT ![i] = neu]
    BY DEF Abschicken
  <1>2. anfrage \in [Plaetze -> Anfrage(ZonenOk)]
    BY DEF Inv, Typ
  <1>3. AuftragIn(neu) = [s |-> s, an |-> an]
    <2>1. neu # Frei /\ neu.art = "umlegen" /\ neu.ort = "hin"
      BY DEF Frei
    <2>2. QED
      BY <2>1 DEF AuftragIn
  <1> HIDE DEF neu
  <1>4. auftrag' = [auftrag EXCEPT ![i] = [s |-> s, an |-> an]]
    BY <1>1, <1>2, <1>3 DEF auftrag
  <1>5. auftrag[i] = Kein
    BY <1>1, KeinAuftrag DEF auftrag
  <1>6. stand' = stand
    BY DEF stand
  <1>7. Abstrakt!Bestellen(i, s, an)
    BY <1>4, <1>5, <1>6 DEF Abstrakt!Bestellen
  <1>8. QED
    BY <1>7 DEF Abstrakt!Next

\* A step that leaves the switches and the orders alone is a stutter.
LEMMA Stottern ==
    ASSUME server'.schalter = server.schalter, auftrag' = auftrag
    PROVE  [Abstrakt!Next]_(Abstrakt!vars)
  BY DEF Abstrakt!vars, stand

LEMMA AnfrageTyp ==
    ASSUME Inv
    PROVE  anfrage \in [Plaetze -> Anfrage(ZonenOk)]
  BY DEF Inv, Typ

LEMMA AnwenderAbstrakt ==
    ASSUME Inv, NEW b \in Browser, Anwender(b) \/ Takt(b)
    PROVE  [Abstrakt!Next]_(Abstrakt!vars)
  <1>1. CASE Oeffnen(b)
    <2> DEFINE A == [i \in Plaetze |-> Verwaist(anfrage[i], b)]
    <2>1. \A i \in Plaetze : Verwaist(anfrage[i], b) \in Anfrage(ZonenOk)
      BY AnfrageTyp, VerwaistTyp
    <2>2. ASSUME NEW i \in Plaetze
          PROVE  AuftragIn(Verwaist(anfrage[i], b)) = AuftragIn(anfrage[i])
      <3>1. anfrage[i] \in Anfrage(ZonenOk)
        BY AnfrageTyp
      <3>2. QED
        BY <3>1 DEF Verwaist, AuftragIn, Anfrage, Frei
    <2>3. /\ A \in [Plaetze -> Anfrage(ZonenOk)]
          /\ \A i \in Plaetze : AuftragIn(A[i]) = AuftragIn(anfrage[i])
      BY <2>1, <2>2
    <2>4. Abschicken(A, b, "laden", Aktuell) /\ server' = server
      BY <1>1 DEF Oeffnen
    <2> HIDE DEF A
    <2>5. auftrag' = auftrag
      BY <2>3, <2>4, KeinNeuerAuftrag
    <2>6. QED
      BY <2>4, <2>5, Stottern
  <1>2. CASE Takt(b)
    BY <1>2, AnfrageTyp, KeinNeuerAuftrag, Stottern DEF Takt
  <1>3. CASE Speichern(b)
    BY <1>3, AnfrageTyp, KeinNeuerAuftrag, Stottern DEF Speichern
  <1>4. ASSUME NEW j \in 1..Len(form[b].schalter), SchalterUmlegen(b, j)
        PROVE  [Abstrakt!Next]_(Abstrakt!vars)
    <2>1. form[b].schalter[j] \in Schalter
      BY Entwurf
    <2>2. form[b].schalter[j].id \in Ids /\ (~form[b].schalter[j].an) \in BOOLEAN
      BY <2>1 DEF Schalter
    <2>3. QED
      BY <1>4, <2>2, NeuerAuftrag DEF SchalterUmlegen
  <1>5. QED
    BY <1>1, <1>2, <1>3, <1>4 DEF Anwender

LEMMA AendernAbstrakt ==
    ASSUME NEW b, Aendern(b)
    PROVE  [Abstrakt!Next]_(Abstrakt!vars)
  <1>1. UNCHANGED <<server, anfrage>>
    BY DEF Aendern, NeueZone, NeuerSchalter, SchalterLoeschen, ZoneLoeschen, NeuerRaum,
           RaumLoeschen, RaumVerschieben, Bearbeiten
  <1>2. QED
    BY <1>1, Stottern DEF auftrag

\* Replacing one request by one that gives the same order, or by none.
LEMMA EinPlatz ==
    ASSUME Inv, NEW i \in Plaetze, NEW neu, anfrage' = [anfrage EXCEPT ![i] = neu]
    PROVE  auftrag' = [auftrag EXCEPT ![i] = AuftragIn(neu)]
  BY AnfrageTyp DEF auftrag

\* In a list without doubled ids the row with an id is found again.
LEMMA Einzige ==
    ASSUME NEW liste, Eindeutig(liste), NEW j \in DOMAIN liste, NEW id, liste[j].id = id
    PROVE  Stelle(liste, id) = j
  BY Gefunden DEF Hat, Eindeutig

\* A request leaves its place without an effect.
LEMMA OhneWirkung ==
    ASSUME Inv, NEW i \in Plaetze, NEW inhalt, Zurueck(i, inhalt), server' = server,
           anfrage[i] # Frei
    PROVE  [Abstrakt!Next]_(Abstrakt!vars)
  <1> DEFINE neu == IF anfrage[i].von = Niemand THEN Frei
                    ELSE [anfrage[i] EXCEPT !.ort = "zurueck", !.inhalt = inhalt]
  <1>1. anfrage[i] \in Anfrage(ZonenOk)
    BY AnfrageTyp
  <1>2. anfrage' = [anfrage EXCEPT ![i] = neu]
    BY DEF Zurueck, Beantwortet
  <1>3. AuftragIn(neu) = Kein
    BY <1>1 DEF AuftragIn, Anfrage, Frei
  <1> HIDE DEF neu
  <1>4. auftrag' = [auftrag EXCEPT ![i] = Kein]
    BY <1>2, <1>3, EinPlatz
  <1>5. Abstrakt!Verlieren(i)
    BY <1>4 DEF Abstrakt!Verlieren, stand
  <1>6. QED
    BY <1>5 DEF Abstrakt!Next

LEMMA SpeichernAbstrakt ==
    ASSUME Inv, NEW i \in Plaetze, SpeichernAnkunft(i)
    PROVE  [Abstrakt!Next]_(Abstrakt!vars)
  <1> DEFINE k == anfrage[i].inhalt
             alt == server.schalter
             neu == NachUebernahme(k.schalter, alt)
             A == MitAltemStand(anfrage)
  <1>1. /\ anfrage \in [Plaetze -> Anfrage(ZonenOk)] /\ server \in Einstellungen(ZonenOk)
        /\ anfrage[i] \in Anfrage(ZonenOk) /\ anfrage[i] # Frei
        /\ anfrage[i].art = "speichern" /\ anfrage[i].ort = "hin"
    BY DEF Inv, Typ, SpeichernAnkunft
  <1>2. k \in Einstellungen(ZonenOk)
    BY <1>1 DEF Anfrage
  <1>3. alt \in Seq(Schalter) /\ k.schalter \in Seq(Schalter) /\ Eindeutig(alt)
    BY <1>1, <1>2, Felder DEF Inv
  <1>4. CASE ~Gueltig(k)
    BY <1>1, <1>4, OhneWirkung DEF SpeichernAnkunft, Ablehnen
  <1>5. CASE Gueltig(k)
    <2>1. /\ server'.schalter = neu
          /\ \/ anfrage' = [A EXCEPT ![i].ort = "server", ![i].inhalt = Aktuell]
             \/ anfrage' = [A EXCEPT ![i] = Beantwortet(A[i], Fehler)]
      BY <1>5 DEF SpeichernAnkunft
    <2>2. /\ neu \in Seq(Schalter) /\ DOMAIN neu = DOMAIN k.schalter
          /\ \A j \in DOMAIN k.schalter : neu[j].id = k.schalter[j].id
      BY <1>3, Uebernommen
    <2>3. Eindeutig(neu)
      BY <1>5, <2>2 DEF Gueltig, Eindeutig
    <2>4. ASSUME NEW j \in DOMAIN neu, NEW n \in DOMAIN alt, alt[n].id = neu[j].id
          PROVE  neu[j].an = alt[n].an
      <3>1. Hat(alt, k.schalter[j].id) /\ Stelle(alt, k.schalter[j].id) = n
        BY <1>3, <2>2, <2>4, Einzige DEF Hat
      <3>2. neu[j] = [k.schalter[j] EXCEPT !.an = alt[n].an]
        BY <2>2, <3>1 DEF NachUebernahme
      <3>3. k.schalter[j] \in Schalter
        BY <1>3, <2>2
      <3>4. QED
        BY <3>2, <3>3 DEF Schalter
    <2> HIDE DEF neu, k
    <2> DEFINE S == {neu[j].id : j \in DOMAIN neu}
    <2>5. ASSUME NEW s \in S
          PROVE  /\ Stelle(neu, s) \in DOMAIN neu /\ neu[Stelle(neu, s)].id = s
                 /\ s \in Ids /\ neu[Stelle(neu, s)].an \in BOOLEAN
      <3>1. Stelle(neu, s) \in DOMAIN neu /\ neu[Stelle(neu, s)].id = s
        BY Gefunden DEF Hat
      <3>2. neu[Stelle(neu, s)] \in Schalter
        BY <2>2, <3>1
      <3>3. QED
        BY <3>1, <3>2 DEF Schalter
    <2>6. stand' = [s \in S |-> neu[Stelle(neu, s)].an]
      BY <2>1 DEF stand
    <2>7. stand' \in [S -> BOOLEAN] /\ S \in SUBSET Ids
      BY <2>5, <2>6
    <2>8. ASSUME NEW s \in DOMAIN stand \cap DOMAIN stand'
          PROVE  stand'[s] = stand[s]
      <3>1. s \in S /\ s \in {alt[j].id : j \in DOMAIN alt}
        BY <2>6, <2>8 DEF stand
      <3>2. Stelle(alt, s) \in DOMAIN alt /\ alt[Stelle(alt, s)].id = s
        BY <3>1, Gefunden DEF Hat
      <3>3. neu[Stelle(neu, s)].an = alt[Stelle(alt, s)].an
        BY <2>4, <2>5, <3>1, <3>2
      <3>4. QED
        BY <2>6, <3>1, <3>3 DEF stand
    <2>9. auftrag' = auftrag
      <3>1. ASSUME NEW p \in Plaetze
            PROVE  AuftragIn(anfrage'[p]) = AuftragIn(anfrage[p])
        <4>1. anfrage[p] \in Anfrage(ZonenOk)
          BY <1>1
        <4>2. CASE p = i
          <5>1. A[i] = anfrage[i]
            BY <1>1 DEF MitAltemStand
          <5>2. \/ anfrage'[i] = [anfrage[i] EXCEPT !.ort = "server", !.inhalt = Aktuell]
                \/ anfrage'[i] = Beantwortet(anfrage[i], Fehler)
            BY <2>1, <5>1 DEF MitAltemStand
          <5>3. AuftragIn(anfrage'[i]) = Kein
            BY <1>1, <5>2 DEF AuftragIn, Anfrage, Beantwortet, Frei
          <5>4. QED
            BY <1>1, <4>2, <5>3 DEF AuftragIn
        <4>3. CASE p # i
          <5>1. anfrage'[p] = A[p]
            BY <2>1, <4>3 DEF MitAltemStand
          <5>2. AuftragIn(A[p]) = AuftragIn(anfrage[p])
            BY <4>1 DEF MitAltemStand, AuftragIn, Anfrage, Frei
          <5>3. QED
            BY <5>1, <5>2
        <4>4. QED
          BY <4>2, <4>3
      <3>2. QED
        BY <3>1 DEF auftrag
    <2>10. Abstrakt!Einrichten
      BY <2>7, <2>8, <2>9 DEF Abstrakt!Einrichten
    <2>11. QED
      BY <2>10 DEF Abstrakt!Next
  <1>6. QED
    BY <1>4, <1>5

LEMMA UmlegenAbstrakt ==
    ASSUME Inv, NEW i \in Plaetze, UmlegenAnkunft(i)
    PROVE  [Abstrakt!Next]_(Abstrakt!vars)
  <1> DEFINE a == anfrage[i].inhalt
             alt == server.schalter
             n == Stelle(alt, a.id)
             neu == [anfrage[i] EXCEPT !.ort = "server", !.inhalt = Aktuell]
  <1>1. /\ server \in Einstellungen(ZonenOk)
        /\ anfrage[i] \in Anfrage(ZonenOk) /\ anfrage[i] # Frei
        /\ anfrage[i].art = "umlegen" /\ anfrage[i].ort = "hin"
    BY DEF Inv, Typ, UmlegenAnkunft
  <1>2. a \in Schalter
    BY <1>1 DEF Anfrage
  <1>3. alt \in Seq(Schalter) /\ Eindeutig(alt)
    BY <1>1, Felder DEF Inv
  <1>4. CASE ~Hat(alt, a.id)
    BY <1>1, <1>4, OhneWirkung DEF UmlegenAnkunft, Ablehnen
  <1>5. CASE Hat(alt, a.id)
    <2>1. /\ server' = [server EXCEPT !.schalter[n].an = a.an]
          /\ \/ anfrage' = [anfrage EXCEPT ![i] = neu]
             \/ anfrage' = [anfrage EXCEPT ![i] = Beantwortet(anfrage[i], Fehler)]
      BY <1>5 DEF UmlegenAnkunft, Zurueck
    <2>2. n \in DOMAIN alt /\ alt[n].id = a.id
      BY <1>5, Gefunden
    <2>3. auftrag[i] = [s |-> a.id, an |-> a.an]
      BY <1>1 DEF auftrag, AuftragIn
    <2>4. AuftragIn(neu) = Kein /\ AuftragIn(Beantwortet(anfrage[i], Fehler)) = Kein
      BY <1>1 DEF AuftragIn, Anfrage, Beantwortet, Frei
    <2> HIDE DEF n, neu
    <2>5. auftrag' = [auftrag EXCEPT ![i] = Kein]
      BY <2>1, <2>4, EinPlatz
    <2>6. server'.schalter = [alt EXCEPT ![n] = [alt[n] EXCEPT !.an = a.an]]
      BY <1>1, <2>1 DEF Einstellungen
    <2>7. /\ DOMAIN server'.schalter = DOMAIN alt
          /\ \A j \in DOMAIN alt : /\ server'.schalter[j].id = alt[j].id
                                 /\ server'.schalter[j].an
                                       = IF j = n THEN a.an ELSE alt[j].an
      <3>1. \A j \in DOMAIN alt : alt[j] \in Schalter
        BY <1>3
      <3>2. QED
        BY <1>3, <2>2, <2>6, <3>1 DEF Schalter
    <2>8. Eindeutig(server'.schalter)
      BY <1>3, <2>7 DEF Eindeutig
    <2> DEFINE S == {alt[j].id : j \in DOMAIN alt}
    <2>9. {server'.schalter[j].id : j \in DOMAIN server'.schalter} = S
      BY <2>7
    <2>10. ASSUME NEW s \in S
           PROVE  server'.schalter[Stelle(server'.schalter, s)].an
                     = IF s = a.id THEN a.an ELSE alt[Stelle(alt, s)].an
      <3>1. Stelle(alt, s) \in DOMAIN alt /\ alt[Stelle(alt, s)].id = s
        BY Gefunden DEF Hat
      <3>2. Stelle(server'.schalter, s) = Stelle(alt, s)
        BY <2>7, <2>8, <3>1, Einzige
      <3>3. s = a.id <=> Stelle(alt, s) = n
        BY <1>3, <2>2, <3>1 DEF Eindeutig
      <3>4. QED
        BY <2>7, <3>1, <3>2, <3>3
    <2>11. stand' = [s \in S |-> server'.schalter[Stelle(server'.schalter, s)].an]
      BY <2>9 DEF stand
    <2>12. stand' = [s \in DOMAIN stand |-> IF s = a.id THEN a.an ELSE stand[s]]
      BY <2>10, <2>11 DEF stand
    <2>13. auftrag[i] # Kein
      BY <2>3 DEF Kein
    <2>14. Abstrakt!Ausfuehren(i)
      BY <2>3, <2>5, <2>12, <2>13 DEF Abstrakt!Ausfuehren
    <2>15. QED
      BY <2>14 DEF Abstrakt!Next
  <1>6. QED
    BY <1>4, <1>5

LEMMA VerarbeitenAbstrakt ==
    ASSUME Inv, NEW i \in Plaetze, Verarbeiten(i) \/ Abbruch(i)
    PROVE  [Abstrakt!Next]_(Abstrakt!vars)
  <1>1. anfrage[i] \in Anfrage(ZonenOk)
    BY AnfrageTyp
  <1>2. CASE LadenAnkunft(i)
    <2> DEFINE neu == [anfrage[i] EXCEPT !.ort = "server"]
    <2>1. anfrage' = [anfrage EXCEPT ![i] = neu] /\ server' = server
      BY <1>2 DEF LadenAnkunft
    <2>2. AuftragIn(neu) = AuftragIn(anfrage[i])
      BY <1>1, <1>2 DEF LadenAnkunft, AuftragIn, Anfrage
    <2> HIDE DEF neu
    <2>3. auftrag' = auftrag
      BY <2>1, <2>2, EinPlatz DEF auftrag
    <2>4. QED
      BY <2>1, <2>3, Stottern
  <1>3. CASE SpeichernAnkunft(i)
    BY <1>3, SpeichernAbstrakt
  <1>4. CASE UmlegenAnkunft(i)
    BY <1>4, UmlegenAbstrakt
  <1>5. CASE Fertig(i)
    BY <1>5, OhneWirkung DEF Fertig
  <1>6. CASE Abbruch(i)
    BY <1>6, OhneWirkung DEF Abbruch
  <1>7. CASE Antwort(i)
    <2>1. anfrage' = [anfrage EXCEPT ![i] = Frei] /\ server' = server
      BY <1>7 DEF Antwort
    <2>2. AuftragIn(Frei) = AuftragIn(anfrage[i])
      BY <1>7, KeinAuftrag DEF Antwort, AuftragIn
    <2>3. auftrag' = auftrag
      BY <2>1, <2>2, EinPlatz DEF auftrag
    <2>4. QED
      BY <2>1, <2>3, Stottern
  <1>8. QED
    BY <1>2, <1>3, <1>4, <1>5, <1>6, <1>7 DEF Verarbeiten

\* Every step of the tab and the server is a step of the abstract switches.
LEMMA NextAbstrakt ==
    ASSUME Inv, [Next]_vars
    PROVE  [Abstrakt!Next]_(Abstrakt!vars)
  <1>1. CASE UNCHANGED vars
    BY <1>1, Stottern DEF vars, auftrag
  <1>2. ASSUME NEW s \in Ids, NEW an \in BOOLEAN, Visu(s, an)
        PROVE  [Abstrakt!Next]_(Abstrakt!vars)
    BY <1>2, NeuerAuftrag DEF Visu
  <1>3. QED
    BY <1>1, <1>2, AnwenderAbstrakt, AendernAbstrakt, VerarbeitenAbstrakt DEF Next

\* put_heizung, heizung_schalter and _schalter_befehl implement Schalterstand:
\* each change of a switch that stays is the execution of one order for it.
THEOREM Umsetzung == Spec => SchalterNurPerAuftrag
  <1>1. Inv /\ Init => Abstrakt!Init
    BY InitAbstrakt
  <1>2. Inv /\ [Next]_vars => [Abstrakt!Next]_(Abstrakt!vars)
    BY NextAbstrakt
  <1>3. QED
    BY <1>1, <1>2, InvImmer, PTL DEF Spec, Abstrakt!Spec, SchalterNurPerAuftrag

-----------------------------------------------------------------------------
(* What is being typed *)

SpeichertVon(a, b) == a # Frei /\ a.art = "speichern" /\ a.von = b

\* A save carries the zones z: to the server, there in the configuration s or in
\* the replaced one that its handler holds, and back, unless it has failed.
Traegt(a, z, s) ==
    /\ a.ort = "hin" => a.inhalt.zonen = z
    /\ a.ort = "server" => (IF a.inhalt = Aktuell THEN s ELSE a.inhalt.zonen) = z
    /\ a.ort = "zurueck" => a.inhalt = Fehler \/ a.inhalt.zonen = z

\* A browser has one save under way at most, its button being disabled, and that
\* carries what it has sent, whatever replaces the configuration meanwhile.
Sendung ==
    \A b \in Browser, i \in Plaetze : SpeichertVon(anfrage[i], b) =>
        /\ form[b].laedt
        /\ Traegt(anfrage[i], gesendet[b], server.zonen)
        /\ \A j \in Plaetze : SpeichertVon(anfrage[j], b) => j = i

\* Saves are handed on, never made.
LEMMA SendungBleibt ==
    ASSUME Sendung,
           \A b \in Browser, p \in Plaetze : SpeichertVon(anfrage'[p], b) =>
               /\ SpeichertVon(anfrage[p], b)
               /\ form'[b].laedt
               /\ Traegt(anfrage'[p], gesendet'[b], server'.zonen)
    PROVE  Sendung'
  BY DEF Sendung

\* A new request that is no save.
LEMMA AndereAnfrage ==
    ASSUME NEW A \in [Plaetze -> Anfrage(ZonenOk)], NEW c, NEW art, NEW inhalt,
           art # "speichern", Abschicken(A, c, art, inhalt),
           NEW b, NEW p \in Plaetze, SpeichertVon(anfrage'[p], b)
    PROVE  SpeichertVon(A[p], b) /\ anfrage'[p] = A[p]
  <1> DEFINE neu == [art |-> art, von |-> c, ort |-> "hin", inhalt |-> inhalt]
  <1>1. PICK i \in Plaetze : anfrage' = [A EXCEPT ![i] = neu]
    BY DEF Abschicken
  <1>2. ~SpeichertVon(neu, b)
    BY DEF SpeichertVon
  <1> HIDE DEF neu
  <1>3. QED
    BY <1>1, <1>2

\* Nothing changes but a new request that is no save.
LEMMA NurAnfrage ==
    ASSUME Inv, Sendung, NEW c, NEW art, NEW inhalt, art # "speichern",
           Abschicken(anfrage, c, art, inhalt), UNCHANGED <<server, form, gesendet>>
    PROVE  Sendung'
  <1>1. anfrage \in [Plaetze -> Anfrage(ZonenOk)]
    BY AnfrageTyp
  <1>2. \A b \in Browser, p \in Plaetze : SpeichertVon(anfrage'[p], b) =>
            SpeichertVon(anfrage[p], b) /\ anfrage'[p] = anfrage[p]
    BY <1>1, AndereAnfrage
  <1>3. \A b \in Browser, p \in Plaetze : SpeichertVon(anfrage'[p], b) =>
            /\ SpeichertVon(anfrage[p], b) /\ form'[b].laedt
            /\ Traegt(anfrage'[p], gesendet'[b], server'.zonen)
    BY <1>2 DEF Sendung
  <1>4. QED
    BY <1>3, SendungBleibt

LEMMA OeffnenSendung ==
    ASSUME Inv, Sendung, NEW c \in Browser, Oeffnen(c)
    PROVE  Sendung'
  <1> DEFINE A == [i \in Plaetze |-> Verwaist(anfrage[i], c)]
  <1>1. A \in [Plaetze -> Anfrage(ZonenOk)]
    BY AnfrageTyp, VerwaistTyp
  <1>2. Abschicken(A, c, "laden", Aktuell)
    BY DEF Oeffnen
  <1>3. ASSUME NEW b \in Browser, NEW p \in Plaetze, SpeichertVon(A[p], b)
        PROVE  b # c /\ A[p] = anfrage[p]
    BY <1>3, TabAnnahme DEF Verwaist, SpeichertVon
  <1> HIDE DEF A
  <1>4. \A b \in Browser, p \in Plaetze : SpeichertVon(anfrage'[p], b) =>
            b # c /\ SpeichertVon(anfrage[p], b) /\ anfrage'[p] = anfrage[p]
    BY <1>1, <1>2, <1>3, AndereAnfrage
  <1>5. \A b \in Browser : b # c => form'[b] = form[b] /\ gesendet'[b] = gesendet[b]
    BY DEF Oeffnen, Inv, Typ
  <1>6. \A b \in Browser, p \in Plaetze : SpeichertVon(anfrage'[p], b) =>
            /\ SpeichertVon(anfrage[p], b) /\ form'[b].laedt
            /\ Traegt(anfrage'[p], gesendet'[b], server'.zonen)
    BY <1>4, <1>5 DEF Sendung, Oeffnen
  <1>7. QED
    BY <1>6, SendungBleibt

LEMMA SpeichernSendung ==
    ASSUME Inv, Sendung, NEW c \in Browser, Speichern(c)
    PROVE  Sendung'
  <1> DEFINE neu == [art |-> "speichern", von |-> c, ort |-> "hin",
                     inhalt |-> [zonen |-> form[c].zonen, schalter |-> form[c].schalter]]
  <1>1. PICK i \in Plaetze : anfrage[i] = Frei /\ anfrage' = [anfrage EXCEPT ![i] = neu]
    BY DEF Speichern, Abschicken
  <1>2. anfrage'[i] = neu /\ \A p \in Plaetze : p # i => anfrage'[p] = anfrage[p]
    BY <1>1, AnfrageTyp
  <1>3. /\ gesendet'[c] = form[c].zonen /\ form'[c].laedt /\ server' = server
        /\ \A b \in Browser : b # c => form'[b] = form[b] /\ gesendet'[b] = gesendet[b]
    <2>1. form[c] \in Formular(ZonenOk)
      BY DEF Inv, Typ
    <2>2. QED
      BY <2>1 DEF Speichern, Inv, Typ, Formular
  <1>4. \A p \in Plaetze : ~SpeichertVon(anfrage[p], c)
    BY DEF Sendung, Speichern
  <1>5. Traegt(neu, form[c].zonen, server.zonen)
    BY DEF Traegt
  <1>6. \A b : SpeichertVon(neu, b) => b = c
    BY DEF SpeichertVon
  <1> HIDE DEF neu
  <1>7. ASSUME NEW b \in Browser, NEW p \in Plaetze, SpeichertVon(anfrage'[p], b)
        PROVE  /\ form'[b].laedt /\ Traegt(anfrage'[p], gesendet'[b], server'.zonen)
               /\ \A j \in Plaetze : SpeichertVon(anfrage'[j], b) => j = p
    <2>1. CASE b = c
      <3>1. \A j \in Plaetze : SpeichertVon(anfrage'[j], b) => j = i
        BY <1>2, <1>4, <2>1
      <3>2. p = i
        BY <1>7, <3>1
      <3>3. QED
        BY <1>2, <1>3, <1>5, <2>1, <3>1, <3>2
    <2>2. CASE b # c
      <3>1. \A j \in Plaetze : SpeichertVon(anfrage'[j], b) =>
                SpeichertVon(anfrage[j], b) /\ anfrage'[j] = anfrage[j]
        BY <1>2, <1>6, <2>2
      <3>2. form'[b] = form[b] /\ gesendet'[b] = gesendet[b] /\ server' = server
        BY <1>3, <2>2
      <3>3. QED
        BY <1>7, <3>1, <3>2 DEF Sendung
    <2>3. QED
      BY <2>1, <2>2
  <1>8. QED
    BY <1>7 DEF Sendung

\* An edit touches neither a request nor the save button.
LEMMA AendernSendung ==
    ASSUME Inv, Sendung, NEW c \in Browser, Aendern(c)
    PROVE  Sendung'
  <1> DEFINE Bearbeitet(feld) == \E wert : Bearbeiten(c, feld, wert)
  <1>a. NeuerSchalter(c) => Bearbeitet("schalter")
    BY DEF NeuerSchalter
  <1>b. \A j : SchalterLoeschen(c, j) => Bearbeitet("schalter")
    BY DEF SchalterLoeschen
  <1>c. NeueZone(c) => Bearbeitet("zonen")
    BY DEF NeueZone
  <1>d. \A j : ZoneLoeschen(c, j) => Bearbeitet("zonen")
    BY DEF ZoneLoeschen
  <1>e. \A j, k : NeuerRaum(c, j, k) => Bearbeitet("zonen")
    BY DEF NeuerRaum
  <1>f. \A j, q : RaumLoeschen(c, j, q) => Bearbeitet("zonen")
    BY DEF RaumLoeschen
  <1>g. \A j, q, ziel : RaumVerschieben(c, j, q, ziel) => Bearbeitet("zonen")
    BY DEF RaumVerschieben
  <1> HIDE DEF Bearbeitet
  <1>h. Bearbeitet("zonen") \/ Bearbeitet("schalter")
    BY <1>a, <1>b, <1>c, <1>d, <1>e, <1>f, <1>g DEF Aendern
  <1>1. PICK feld \in {"zonen", "schalter"} : \E wert : Bearbeiten(c, feld, wert)
    BY <1>h DEF Bearbeitet
  <1>2. PICK wert : Bearbeiten(c, feld, wert)
    BY <1>1
  <1>3. \A b \in Browser : form'[b].laedt = form[b].laedt
    <2>1. form' = [form EXCEPT ![c] = [form[c] EXCEPT ![feld] = wert]]
      BY <1>2 DEF Bearbeiten
    <2>2. form[c] \in Formular(ZonenOk)
      BY DEF Inv, Typ
    <2>3. [form[c] EXCEPT ![feld] = wert].laedt = form[c].laedt
      BY <2>2 DEF Formular
    <2>4. QED
      BY <2>1, <2>3 DEF Inv, Typ
  <1>4. UNCHANGED <<server, anfrage, gesendet>>
    BY <1>2 DEF Bearbeiten
  <1>5. QED
    BY <1>3, <1>4 DEF Sendung

\* One request moves on or leaves, the form, what was sent and the server's zones
\* staying: a save goes on carrying what it carried.
LEMMA EinerWeiter ==
    ASSUME Inv, Sendung, NEW i \in Plaetze, NEW neu,
           anfrage' = [anfrage EXCEPT ![i] = neu],
           UNCHANGED <<form, gesendet>>, server'.zonen = server.zonen,
           \A b \in Browser : SpeichertVon(neu, b) =>
               /\ SpeichertVon(anfrage[i], b)
               /\ Traegt(neu, gesendet[b], server.zonen)
    PROVE  Sendung'
  <1>1. anfrage'[i] = neu /\ \A p \in Plaetze : p # i => anfrage'[p] = anfrage[p]
    BY AnfrageTyp
  <1>2. ASSUME NEW b \in Browser, NEW p \in Plaetze, SpeichertVon(anfrage'[p], b)
        PROVE  /\ SpeichertVon(anfrage[p], b) /\ form'[b].laedt
               /\ Traegt(anfrage'[p], gesendet'[b], server'.zonen)
    <2>1. CASE p = i
      BY <1>1, <1>2, <2>1 DEF Sendung
    <2>2. CASE p # i
      BY <1>1, <1>2, <2>2 DEF Sendung
    <2>3. QED
      BY <2>1, <2>2
  <1>3. QED
    BY <1>2, SendungBleibt

\* An error carries nothing.
LEMMA FehlerTraegt ==
    ASSUME NEW a \in Anfrage(ZonenOk), a # Frei, NEW b, NEW z, NEW s
    PROVE  SpeichertVon(Beantwortet(a, Fehler), b) =>
               SpeichertVon(a, b) /\ Traegt(Beantwortet(a, Fehler), z, s)
  BY DEF Anfrage, Beantwortet, SpeichertVon, Traegt, Frei

LEMMA FehlerSendung ==
    ASSUME Inv, Sendung, NEW i \in Plaetze, anfrage[i] # Frei, Zurueck(i, Fehler),
           UNCHANGED <<form, gesendet>>, server'.zonen = server.zonen
    PROVE  Sendung'
  <1>1. anfrage[i] \in Anfrage(ZonenOk)
    BY AnfrageTyp
  <1>2. anfrage' = [anfrage EXCEPT ![i] = Beantwortet(anfrage[i], Fehler)]
    BY DEF Zurueck
  <1>3. \A b \in Browser : SpeichertVon(Beantwortet(anfrage[i], Fehler), b) =>
            /\ SpeichertVon(anfrage[i], b)
            /\ Traegt(Beantwortet(anfrage[i], Fehler), gesendet[b], server.zonen)
    BY <1>1, FehlerTraegt
  <1>4. QED
    BY <1>2, <1>3, EinerWeiter

\* A configuration that is replaced stays with the handlers that hold it.
LEMMA SpeichernAnkunftSendung ==
    ASSUME Inv, Sendung, NEW i \in Plaetze, SpeichernAnkunft(i)
    PROVE  Sendung'
  <1> DEFINE k == anfrage[i].inhalt
             A == MitAltemStand(anfrage)
             warten == [anfrage[i] EXCEPT !.ort = "server", !.inhalt = Aktuell]
  <1>1. /\ anfrage \in [Plaetze -> Anfrage(ZonenOk)] /\ server \in Einstellungen(ZonenOk)
        /\ anfrage[i] \in Anfrage(ZonenOk) /\ anfrage[i] # Frei
        /\ anfrage[i].art = "speichern" /\ anfrage[i].ort = "hin"
    BY DEF Inv, Typ, SpeichernAnkunft
  <1>2. CASE ~Gueltig(k)
    BY <1>1, <1>2, FehlerSendung DEF SpeichernAnkunft, Ablehnen
  <1>3. CASE Gueltig(k)
    <2>1. A[i] = anfrage[i]
      BY <1>1 DEF MitAltemStand
    <2>2. /\ server'.zonen = k.zonen /\ UNCHANGED <<form, gesendet>>
          /\ \/ anfrage' = [A EXCEPT ![i] = warten]
             \/ anfrage' = [A EXCEPT ![i] = Beantwortet(anfrage[i], Fehler)]
      <3>1. /\ server' = [zonen |-> k.zonen,
                          schalter |-> NachUebernahme(k.schalter, server.schalter)]
            /\ UNCHANGED <<form, gesendet, eingaben>>
            /\ \/ anfrage' = [A EXCEPT ![i] = [A[i] EXCEPT !.ort = "server",
                                                         !.inhalt = Aktuell]]
               \/ anfrage' = [A EXCEPT ![i] = Beantwortet(A[i], Fehler)]
        BY <1>3 DEF SpeichernAnkunft
      <3> HIDE DEF A
      <3>2. QED
        BY <2>1, <3>1
    <2>3. ASSUME NEW b \in Browser, NEW p \in Plaetze, SpeichertVon(A[p], b), p # i
          PROVE  SpeichertVon(anfrage[p], b) /\ Traegt(A[p], gesendet[b], k.zonen)
      <3>1. anfrage[p] \in Anfrage(ZonenOk)
        BY <1>1
      <3>2. CASE /\ anfrage[p] # Frei /\ anfrage[p].ort = "server"
                 /\ anfrage[p].inhalt = Aktuell
                 /\ anfrage[p].art \in {"laden", "lage", "speichern"}
        <4>1. A[p] = [anfrage[p] EXCEPT !.inhalt = server]
          BY <3>2 DEF MitAltemStand
        <4>2. /\ A[p].art = anfrage[p].art /\ A[p].von = anfrage[p].von
              /\ A[p].ort = "server" /\ A[p].inhalt = server
          BY <3>1, <3>2, <4>1 DEF Anfrage
        <4>3. SpeichertVon(anfrage[p], b)
          BY <2>3, <3>2, <4>2 DEF SpeichertVon
        <4>4. server.zonen = gesendet[b]
          BY <3>2, <4>3 DEF Sendung, Traegt
        <4>5. server # Aktuell
          BY <1>1 DEF Einstellungen, Aktuell
        <4>6. QED
          BY <4>2, <4>3, <4>4, <4>5 DEF Traegt
      <3>3. CASE ~(/\ anfrage[p] # Frei /\ anfrage[p].ort = "server"
                   /\ anfrage[p].inhalt = Aktuell
                   /\ anfrage[p].art \in {"laden", "lage", "speichern"})
        <4>1. A[p] = anfrage[p]
          BY <3>3 DEF MitAltemStand
        <4>2. SpeichertVon(anfrage[p], b) /\ Traegt(anfrage[p], gesendet[b], server.zonen)
          BY <2>3, <4>1 DEF Sendung
        <4>3. ~(anfrage[p].ort = "server" /\ anfrage[p].inhalt = Aktuell)
          BY <3>3, <4>2 DEF SpeichertVon
        <4>4. QED
          BY <4>1, <4>2, <4>3 DEF Traegt
      <3>4. QED
        BY <3>2, <3>3
    <2>4. ASSUME NEW b \in Browser, SpeichertVon(warten, b)
          PROVE  SpeichertVon(anfrage[i], b) /\ Traegt(warten, gesendet[b], k.zonen)
      <3>1. /\ warten.art = anfrage[i].art /\ warten.von = anfrage[i].von
            /\ warten.ort = "server" /\ warten.inhalt = Aktuell
        BY <1>1 DEF Anfrage
      <3>2. SpeichertVon(anfrage[i], b)
        BY <1>1, <2>4, <3>1 DEF SpeichertVon
      <3>3. k.zonen = gesendet[b]
        BY <1>1, <3>2 DEF Sendung, Traegt
      <3>4. QED
        BY <3>1, <3>2, <3>3 DEF Traegt
    <2>5. \A b \in Browser : SpeichertVon(Beantwortet(anfrage[i], Fehler), b) =>
              /\ SpeichertVon(anfrage[i], b)
              /\ Traegt(Beantwortet(anfrage[i], Fehler), gesendet[b], k.zonen)
      BY <1>1, FehlerTraegt
    <2>6. /\ anfrage'[i] \in {warten, Beantwortet(anfrage[i], Fehler)}
          /\ \A p \in Plaetze : p # i => anfrage'[p] = A[p]
      BY <2>2 DEF MitAltemStand
    <2> HIDE DEF A, warten
    <2>7. ASSUME NEW b \in Browser, NEW p \in Plaetze, SpeichertVon(anfrage'[p], b)
          PROVE  SpeichertVon(anfrage[p], b) /\ Traegt(anfrage'[p], gesendet[b], k.zonen)
      <3>1. CASE p = i
        BY <2>4, <2>5, <2>6, <2>7, <3>1
      <3>2. CASE p # i
        BY <2>3, <2>6, <2>7, <3>2
      <3>3. QED
        BY <3>1, <3>2
    <2>8. \A b \in Browser, p \in Plaetze : SpeichertVon(anfrage'[p], b) =>
              /\ SpeichertVon(anfrage[p], b) /\ form'[b].laedt
              /\ Traegt(anfrage'[p], gesendet'[b], server'.zonen)
      BY <2>2, <2>7 DEF Sendung
    <2>9. QED
      BY <2>8, SendungBleibt
  <1>4. QED
    BY <1>2, <1>3

LEMMA UmlegenAnkunftSendung ==
    ASSUME Inv, Sendung, NEW i \in Plaetze, UmlegenAnkunft(i)
    PROVE  Sendung'
  <1> DEFINE neu == [anfrage[i] EXCEPT !.ort = "server", !.inhalt = Aktuell]
  <1>1. /\ server \in Einstellungen(ZonenOk) /\ anfrage[i] \in Anfrage(ZonenOk)
        /\ anfrage[i] # Frei /\ anfrage[i].art = "umlegen"
    BY DEF Inv, Typ, UmlegenAnkunft
  <1>2. server'.zonen = server.zonen /\ UNCHANGED <<form, gesendet>>
    BY <1>1 DEF UmlegenAnkunft, Ablehnen, Einstellungen
  <1>3. anfrage' = [anfrage EXCEPT ![i] = neu] \/ Zurueck(i, Fehler)
    BY DEF UmlegenAnkunft, Ablehnen
  <1>4. \A b \in Browser : ~SpeichertVon(neu, b)
    BY <1>1 DEF Anfrage, SpeichertVon
  <1> HIDE DEF neu
  <1>5. QED
    BY <1>1, <1>2, <1>3, <1>4, EinerWeiter, FehlerSendung

LEMMA FertigSendung ==
    ASSUME Inv, Sendung, NEW i \in Plaetze, Fertig(i)
    PROVE  Sendung'
  <1> DEFINE inhalt == IF anfrage[i].inhalt = Aktuell THEN server ELSE anfrage[i].inhalt
             neu == Beantwortet(anfrage[i], inhalt)
  <1>1. /\ anfrage[i] \in Anfrage(ZonenOk) /\ anfrage[i] # Frei
        /\ anfrage[i].ort = "server"
    BY DEF Inv, Typ, Fertig
  <1>2. anfrage' = [anfrage EXCEPT ![i] = neu] /\ UNCHANGED <<server, form, gesendet>>
    BY DEF Fertig, Zurueck
  <1> HIDE DEF inhalt
  <1>3. ASSUME NEW b \in Browser, SpeichertVon(neu, b)
        PROVE  SpeichertVon(anfrage[i], b) /\ Traegt(neu, gesendet[b], server.zonen)
    <2>1. anfrage[i].von # Niemand
      BY <1>3 DEF Beantwortet, SpeichertVon
    <2>2. neu = [anfrage[i] EXCEPT !.ort = "zurueck", !.inhalt = inhalt]
      BY <2>1 DEF Beantwortet
    <2>3. /\ neu.art = anfrage[i].art /\ neu.von = anfrage[i].von
          /\ neu.ort = "zurueck" /\ neu.inhalt = inhalt
      BY <1>1, <2>2 DEF Anfrage
    <2>4. SpeichertVon(anfrage[i], b)
      BY <1>1, <1>3, <2>3 DEF SpeichertVon
    <2>5. inhalt.zonen = gesendet[b]
      BY <1>1, <2>4 DEF Sendung, Traegt, inhalt
    <2> HIDE DEF neu
    <2>6. QED
      BY <2>3, <2>4, <2>5 DEF Traegt
  <1> HIDE DEF neu
  <1>4. QED
    BY <1>2, <1>3, EinerWeiter

LEMMA AntwortSendung ==
    ASSUME Inv, Sendung, NEW i \in Plaetze, Antwort(i)
    PROVE  Sendung'
  <1> DEFINE a == anfrage[i]
             f == form[a.von]
  <1>1. a \in Anfrage(ZonenOk) /\ a # Frei /\ a.ort = "zurueck"
    BY DEF Inv, Typ, Antwort
  <1>2. a.von \in Browser
    BY <1>1 DEF Anfrage
  <1>3. f \in Formular(ZonenOk)
    BY <1>2 DEF Inv, Typ
  <1>4. form' = [form EXCEPT ![a.von] = Nachher(f, a)]
    BY DEF Antwort
  <1>5. a.art \in {"laden", "lage", "speichern", "umlegen"}
    BY <1>1 DEF Anfrage
  <1>6. /\ anfrage'[i] = Frei /\ server' = server
        /\ \A p \in Plaetze : p # i => anfrage'[p] = anfrage[p]
    BY AnfrageTyp DEF Antwort
  <1>7. gesendet' = IF a.art = "speichern" THEN [gesendet EXCEPT ![a.von] = <<>>]
                    ELSE gesendet
    BY DEF Antwort
  <1>8. SpeichertVon(a, a.von) <=> a.art = "speichern"
    BY <1>1 DEF SpeichertVon
  <1>9. \A b : ~SpeichertVon(Frei, b)
    BY DEF SpeichertVon
  <1> HIDE DEF a, f
  <1>10. a.art # "speichern" => Nachher(f, a).laedt = f.laedt
    <2>1. ASSUME a.art # "speichern", a.inhalt = Fehler
          PROVE  Nachher(f, a).laedt = f.laedt
      <3>1. Nachher(f, a) = [f EXCEPT !.laedt = f.laedt]
        BY <2>1 DEF Nachher
      <3>2. QED
        BY <1>3, <3>1 DEF Formular
    <2>2. ASSUME a.art = "laden", a.inhalt # Fehler
          PROVE  Nachher(f, a).laedt = f.laedt
      BY <1>3, <2>2 DEF Nachher, Formular
    <2>3. ASSUME a.art = "lage", a.inhalt # Fehler
          PROVE  Nachher(f, a).laedt = f.laedt
      BY <1>3, <2>3 DEF Nachher, NachTakt, Formular
    <2>4. ASSUME a.art = "umlegen", a.inhalt # Fehler
          PROVE  Nachher(f, a).laedt = f.laedt
      BY <1>3, <2>4 DEF Nachher, Formular
    <2>5. QED
      BY <1>5, <2>1, <2>2, <2>3, <2>4
  <1>11. \A b \in Browser : (b # a.von \/ a.art # "speichern") =>
             form'[b].laedt = form[b].laedt /\ gesendet'[b] = gesendet[b]
    BY <1>2, <1>4, <1>7, <1>10 DEF Inv, Typ, f
  <1>12. ASSUME NEW b \in Browser, NEW p \in Plaetze, SpeichertVon(anfrage'[p], b)
         PROVE  /\ SpeichertVon(anfrage[p], b) /\ form'[b].laedt
                /\ Traegt(anfrage'[p], gesendet'[b], server'.zonen)
    <2>1. p # i /\ anfrage'[p] = anfrage[p]
      BY <1>6, <1>9, <1>12
    <2>2. SpeichertVon(anfrage[p], b)
      BY <1>12, <2>1
    <2>3. b # a.von \/ a.art # "speichern"
      BY <1>8, <2>1, <2>2 DEF Sendung, a
    <2>4. QED
      BY <1>6, <1>11, <2>1, <2>2, <2>3 DEF Sendung
  <1>13. QED
    BY <1>12, SendungBleibt

LEMMA VerarbeitenSendung ==
    ASSUME Inv, Sendung, NEW i \in Plaetze, Verarbeiten(i) \/ Abbruch(i)
    PROVE  Sendung'
  <1>1. CASE LadenAnkunft(i)
    <2> DEFINE neu == [anfrage[i] EXCEPT !.ort = "server"]
    <2>1. anfrage[i] \in Anfrage(ZonenOk) /\ anfrage[i].art \in {"laden", "lage"}
      BY <1>1, AnfrageTyp DEF LadenAnkunft
    <2>2. \A b \in Browser : ~SpeichertVon(neu, b)
      BY <2>1 DEF Anfrage, SpeichertVon
    <2>3. anfrage' = [anfrage EXCEPT ![i] = neu] /\ UNCHANGED <<server, form, gesendet>>
      BY <1>1 DEF LadenAnkunft
    <2> HIDE DEF neu
    <2>4. QED
      BY <2>2, <2>3, EinerWeiter
  <1>2. CASE Abbruch(i)
    BY <1>2, FehlerSendung DEF Abbruch
  <1>3. QED
    BY <1>1, <1>2, SpeichernAnkunftSendung, UmlegenAnkunftSendung, FertigSendung,
       AntwortSendung DEF Verarbeiten

LEMMA NextSendung ==
    ASSUME Inv, Sendung, [Next]_vars
    PROVE  Sendung'
  <1>1. CASE UNCHANGED vars
    BY <1>1 DEF vars, Sendung
  <1>2. ASSUME NEW b \in Browser, Anwender(b) \/ Takt(b)
        PROVE  Sendung'
    <2>1. CASE Takt(b)
      BY <2>1, NurAnfrage DEF Takt
    <2>2. ASSUME NEW j \in 1..Len(form[b].schalter), SchalterUmlegen(b, j)
          PROVE  Sendung'
      BY <2>2, NurAnfrage DEF SchalterUmlegen
    <2>3. QED
      BY <1>2, <2>1, <2>2, OeffnenSendung, SpeichernSendung DEF Anwender
  <1>3. ASSUME NEW b \in Bearbeiter, Aendern(b)
        PROVE  Sendung'
    BY <1>3, AendernSendung, TabAnnahme
  <1>4. ASSUME NEW s \in Ids, NEW an \in BOOLEAN, Visu(s, an)
        PROVE  Sendung'
    BY <1>4, NurAnfrage DEF Visu
  <1>5. QED
    BY <1>1, <1>2, <1>3, <1>4, VerarbeitenSendung DEF Next

THEOREM SendungImmer == Spec => []Sendung
  <1>1. Init => Sendung
    <2>1. ASSUME Init, NEW b \in Browser, NEW i \in Plaetze
          PROVE  ~SpeichertVon(anfrage[i], b)
      BY <2>1 DEF Init, SpeichertVon
    <2>2. QED
      BY <2>1 DEF Sendung
  <1>2. QED
    BY <1>1, NextSendung, InvImmer, PTL DEF Spec

\* What an answer leaves of the zones in a form.
LEMMA ZonenNachAntwort ==
    ASSUME Inv, Sendung, NEW b \in Browser, NEW i \in Plaetze,
           Antwort(i), anfrage[i].von = b, form'[b].zonen # form[b].zonen
    PROVE  /\ anfrage[i].inhalt # Fehler
           /\ \/ anfrage[i].art = "laden"
              \/ anfrage[i].art = "speichern" /\ form'[b].zonen = gesendet[b]
  <1> DEFINE a == anfrage[i]
             f == form[b]
  <1>1. form \in [Browser -> Formular(ZonenOk)] /\ a \in Anfrage(ZonenOk)
    BY DEF Inv, Typ
  <1>2. a # Frei /\ a.ort = "zurueck"
    BY DEF Antwort
  <1>3. a.art \in {"laden", "lage", "speichern", "umlegen"}
    <2> HIDE DEF a
    <2> QED
      BY <1>1, <1>2 DEF Anfrage
  <1>4. form'[b] = Nachher(f, a)
    <2>1. form' = [form EXCEPT ![b] = Nachher(form[b], a)]
      BY DEF Antwort
    <2> QED
      BY <1>1, <2>1
  <1>5. f \in Formular(ZonenOk)
    BY <1>1
  <1>6. Nachher(f, a).zonen # f.zonen
    BY <1>4
  <1> HIDE DEF a, f
  <1>7. a.inhalt # Fehler
    <2>1. ASSUME a.inhalt = Fehler PROVE Nachher(f, a).zonen = f.zonen
      <3>1. Nachher(f, a) = [f EXCEPT !.laedt = IF a.art = "speichern" THEN FALSE ELSE @]
        BY <2>1 DEF Nachher
      <3> QED
        BY <1>5, <3>1 DEF Formular
    <2> QED
      BY <1>6, <2>1
  <1>8. a.art # "lage"
    <2>1. ASSUME a.art = "lage" PROVE Nachher(f, a).zonen = f.zonen
      <3>1. Nachher(f, a) = [f EXCEPT !.schalter = MitStand(@, a.inhalt.schalter)]
        BY <1>7, <2>1 DEF Nachher, NachTakt
      <3> QED
        BY <1>5, <3>1 DEF Formular
    <2> QED
      BY <1>6, <2>1
  <1>9. a.art # "umlegen"
    <2>1. ASSUME a.art = "umlegen" PROVE Nachher(f, a).zonen = f.zonen
      <3>1. Nachher(f, a) = [f EXCEPT !.schalter = a.inhalt.schalter]
        BY <1>7, <2>1 DEF Nachher
      <3> QED
        BY <1>5, <3>1 DEF Formular
    <2> QED
      BY <1>6, <2>1
  <1>10. a.art = "speichern" => Nachher(f, a).zonen = gesendet[b]
    <2>1. ASSUME a.art = "speichern" PROVE Nachher(f, a).zonen = a.inhalt.zonen
      BY <1>7, <2>1 DEF Nachher
    <2>2. ASSUME a.art = "speichern" PROVE a.inhalt.zonen = gesendet[b]
      BY <1>2, <1>7, <2>2 DEF Sendung, SpeichertVon, Traegt, a
    <2> QED
      BY <2>1, <2>2
  <1> QED
    BY <1>3, <1>4, <1>7, <1>8, <1>9, <1>10 DEF a

\* EntwurfBleibt: neither the poll, nor a turned switch, nor a save that failed
\* takes away what is being typed (app.js, laden and umschalten), and a save's
\* answer shows what this browser has sent, for every number of browsers and
\* requests.
THEOREM EntwurfSicher == Spec => EntwurfBleibt
  <1> DEFINE A == \A b \in Browser, i \in Plaetze :
                    Antwort(i) /\ anfrage[i].von = b /\ form'[b].zonen # form[b].zonen
                        => /\ anfrage[i].inhalt # Fehler
                           /\ \/ anfrage[i].art = "laden"
                              \/ /\ anfrage[i].art = "speichern"
                                 /\ form'[b].zonen = gesendet[b]
  <1>1. Inv /\ Sendung /\ [Next]_vars => [A]_vars
    BY ZonenNachAntwort
  <1>2. EntwurfBleibt <=> [][A]_vars
    BY DEF EntwurfBleibt
  <1> HIDE DEF A
  <1> QED
    BY <1>1, <1>2, InvImmer, SendungImmer, PTL DEF Spec
=============================================================================
