----------------------------- MODULE HeizungTab -----------------------------
(***************************************************************************)
(* The heating tab of the web interface and the part of the server behind  *)
(* it: several browsers hold a form each, poll the live values every ten   *)
(* seconds, edit, save the whole configuration and turn switches, while    *)
(* the visualisation turns them by MQTT.  Requests run on connections of   *)
(* their own, so they arrive and are answered in any order.                *)
(***************************************************************************)
EXTENDS Integers, Sequences, SequencesExt, FiniteSets

CONSTANTS
    Browser, Niemand,
    Bearbeiter,        \* the browsers whose users edit; the others show an old form
    Kreise,            \* outlets of the regulator, each with its base setpoint
    Aktorbasis,        \* as set in the actuator itself: [Kreise -> Int]
    WieBereich,        \* basissollwert_c null: the zone's value counts
    AnfangsZonen, AnfangsSchalter,
    MaxZonen, MaxSchalter, MaxRaeume,  \* bounds on a form
    MaxAnfragen,       \* requests and MQTT commands under way at once
    MaxEingaben        \* bound on what users and the network do

Ids == 1..MaxSchalter
Plaetze == 1..MaxAnfragen

\* neueZone enters 21.0 as the base setpoint of a new zone.
Standardbasis == 21

Frei == [art |-> "frei"]
Fehler == [fehler |-> TRUE]
Aktuell == [aktuell |-> TRUE]

\* Rows of a list with an id: zones, switches, rooms.
Hat(liste, id) == \E i \in DOMAIN liste : liste[i].id = id
Stelle(liste, id) == CHOOSE i \in DOMAIN liste : liste[i].id = id

VARIABLES
    server,    \* speicher.einstellungen: zonen and schalter (= heizzonen.yaml)
    form,      \* per browser: daten.zonen, daten.schalter, laedt
    anfrage,   \* requests under way
    gesendet,  \* per browser: the zones that its save under way has sent (for
               \* EntwurfBleibt)
    eingaben

vars == <<server, form, anfrage, gesendet, eingaben>>

LeeresFormular == [zonen |-> <<>>, schalter |-> <<>>, laedt |-> FALSE]

\* Every tab has just been opened and loads.
ErsterPlatz == CHOOSE p \in Injection(Browser, Plaetze) : TRUE

Init ==
    /\ server = [zonen |-> AnfangsZonen, schalter |-> AnfangsSchalter]
    /\ form = [b \in Browser |-> LeeresFormular]
    /\ anfrage = [i \in Plaetze |->
           IF \E b \in Browser : ErsterPlatz[b] = i
           THEN [art |-> "laden", von |-> CHOOSE b \in Browser : ErsterPlatz[b] = i,
                 ort |-> "hin", inhalt |-> Aktuell]
           ELSE Frei]
    /\ gesendet = [b \in Browser |-> <<>>]
    /\ eingaben = 0

Eingabe == eingaben < MaxEingaben /\ eingaben' = eingaben + 1

\* fetch: the request takes the lowest free place.
Abschicken(A, b, art, inhalt) ==
    \E i \in Plaetze :
        /\ A[i] = Frei /\ \A j \in Plaetze : A[j] = Frei => i <= j
        /\ anfrage' = [A EXCEPT ![i] =
               [art |-> art, von |-> b, ort |-> "hin", inhalt |-> inhalt]]

-----------------------------------------------------------------------------
(* The form *)

\* Without its component a request to read has no effect at all, the others
\* only have the one on the server.
Verwaist(a, b) ==
    IF a = Frei \/ a.von # b THEN a
    ELSE IF a.art \in {"laden", "lage"} \/ a.ort = "zurueck" THEN Frei
    ELSE [a EXCEPT !.von = Niemand]

\* The tab is opened again: a new component with the defaults, which loads.
Oeffnen(b) ==
    /\ Eingabe
    /\ form' = [form EXCEPT ![b] = LeeresFormular]
    /\ Abschicken([i \in Plaetze |-> Verwaist(anfrage[i], b)], b, "laden", Aktuell)
    /\ gesendet' = [gesendet EXCEPT ![b] = <<>>]
    /\ UNCHANGED server

\* setInterval(() => laden(true), 10000)
Takt(b) ==
    /\ Abschicken(anfrage, b, "lage", Aktuell)
    /\ UNCHANGED <<server, form, gesendet, eingaben>>

Speichern(b) ==
    /\ Eingabe /\ ~form[b].laedt
    /\ form' = [form EXCEPT ![b].laedt = TRUE]
    /\ Abschicken(anfrage, b, "speichern",
                  [zonen |-> form[b].zonen, schalter |-> form[b].schalter])
    /\ gesendet' = [gesendet EXCEPT ![b] = form[b].zonen]
    /\ UNCHANGED server

SchalterUmlegen(b, j) ==
    /\ Eingabe
    /\ LET s == form[b].schalter[j]
       IN  Abschicken(anfrage, b, "umlegen", [id |-> s.id, an |-> ~s.an])
    /\ UNCHANGED <<server, form, gesendet>>

Bearbeiten(b, feld, wert) ==
    /\ Eingabe
    /\ form' = [form EXCEPT ![b][feld] = wert]
    /\ UNCHANGED <<server, anfrage, gesendet>>

NeueZone(b) ==
    LET z == form[b].zonen
    IN  /\ Len(z) < MaxZonen
        /\ Bearbeiten(b, "zonen", Append(z,
               [id |-> Len(z) + 1, basis |-> Standardbasis, raeume |-> <<>>]))

ZoneLoeschen(b, j) == Bearbeiten(b, "zonen", RemoveAt(form[b].zonen, j))

NeuerSchalter(b) ==
    LET s == form[b].schalter
    IN  /\ Len(s) < MaxSchalter
        /\ Bearbeiten(b, "schalter", Append(s, [id |-> Len(s) + 1, an |-> FALSE]))

SchalterLoeschen(b, j) == Bearbeiten(b, "schalter", RemoveAt(form[b].schalter, j))

\* neuerRaum, neuerHeizkreis, zielSetzen: the user picks an outlet and enters
\* the base setpoint that its actuator has, unless the zone has the same.
NeuerRaum(b, j, k) ==
    LET z == form[b].zonen[j]
    IN  /\ Len(z.raeume) < MaxRaeume
        /\ Bearbeiten(b, "zonen", [form[b].zonen EXCEPT ![j].raeume = Append(@,
               [id |-> Len(@) + 1, kreis |-> k,
                basis |-> IF z.basis = Aktorbasis[k] THEN WieBereich
                          ELSE Aktorbasis[k]])])

RaumLoeschen(b, j, r) ==
    Bearbeiten(b, "zonen", [form[b].zonen EXCEPT ![j].raeume = RemoveAt(@, r)])

\* Mutant: the outlet follows the base setpoint of its new zone.
FestgeschriebenNie(raum, zone) == raum

\* "wie Bereich" becomes the value that it stood for.
Festgeschrieben(raum, zone) ==
    [raum EXCEPT !.basis = IF @ = WieBereich THEN zone.basis ELSE @]

\* The base setpoint with which the outlet of a room is driven.
Effektiv(raum, zone) == IF raum.basis = WieBereich THEN zone.basis ELSE raum.basis

Passt(zonen) ==
    \A i \in DOMAIN zonen : \A r \in DOMAIN zonen[i].raeume :
        Effektiv(zonen[i].raeume[r], zonen[i]) = Aktorbasis[zonen[i].raeume[r].kreis]

RaumVerschieben(b, j, r, ziel) ==
    LET z == form[b].zonen
        raum == z[j].raeume[r]
    IN  /\ ziel # z[j].id
        /\ \E n \in DOMAIN z :
              /\ z[n].id = ziel /\ \A m \in 1..(n - 1) : z[m].id # ziel
              /\ ~Hat(z[n].raeume, raum.id)
              /\ Bearbeiten(b, "zonen",
                     [z EXCEPT ![j].raeume = RemoveAt(@, r),
                               ![n].raeume = Append(@, Festgeschrieben(raum, z[j]))])

-----------------------------------------------------------------------------
(* The server *)

Eindeutig(liste) == \A i, j \in DOMAIN liste : liste[i].id = liste[j].id => i = j

\* doppelte_heizkreise finds nothing: no outlet stands in two rooms.
KreiseEindeutig(zonen) ==
    \A i, j \in DOMAIN zonen :
        \A r \in DOMAIN zonen[i].raeume, q \in DOMAIN zonen[j].raeume :
            zonen[i].raeume[r].kreis = zonen[j].raeume[q].kreis => i = j /\ r = q

\* The checks of put_heizung.
Gueltig(k) ==
    /\ Eindeutig(k.zonen) /\ Eindeutig(k.schalter)
    /\ KreiseEindeutig(k.zonen)
    /\ \A i \in DOMAIN k.zonen : Eindeutig(k.zonen[i].raeume)

\* Mutant: the form's positions are taken.
NachUebernahmeOhne(neu, alt) == neu

\* The position of a known switch comes from the running state.
NachUebernahme(neu, alt) ==
    [j \in DOMAIN neu |->
        IF Hat(alt, neu[j].id)
        THEN [neu[j] EXCEPT !.an = alt[Stelle(alt, neu[j].id)].an] ELSE neu[j]]

\* Mutant: requests that have not arrived are answered from the old one, too.
MitAltemStandVorher(A) ==
    [i \in Plaetze |->
        IF A[i] # Frei /\ A[i].inhalt = Aktuell
              /\ A[i].art \in {"laden", "lage", "speichern"}
        THEN [A[i] EXCEPT !.inhalt = server] ELSE A[i]]

\* Mutant: a handler that holds the replaced configuration answers from the new.
MitAltemStandNie(A) == A

\* Handlers that hold the replaced configuration go on reading it: get_heizung
\* its einst, put_heizung its payload.  heizung_schalter reads the store.
MitAltemStand(A) ==
    [i \in Plaetze |->
        IF A[i] # Frei /\ A[i].ort = "server" /\ A[i].inhalt = Aktuell
              /\ A[i].art \in {"laden", "lage", "speichern"}
        THEN [A[i] EXCEPT !.inhalt = server] ELSE A[i]]

\* The answer goes back, if there is somebody who waits for it.
Beantwortet(a, inhalt) ==
    IF a.von = Niemand THEN Frei
    ELSE [a EXCEPT !.ort = "zurueck", !.inhalt = inhalt]

Zurueck(i, inhalt) == anfrage' = [anfrage EXCEPT ![i] = Beantwortet(@, inhalt)]

Ablehnen(i) == Zurueck(i, Fehler) /\ UNCHANGED server

LadenAnkunft(i) ==
    /\ anfrage[i] # Frei /\ anfrage[i].ort = "hin"
    /\ anfrage[i].art \in {"laden", "lage"}
    /\ anfrage' = [anfrage EXCEPT ![i].ort = "server"]
    /\ UNCHANGED <<server, form, gesendet, eingaben>>

\* speicher.save puts the configuration in force before it writes the file: when
\* that raises, the browser gets an error and the change holds all the same.
SpeichernAnkunft(i) ==
    /\ anfrage[i] # Frei /\ anfrage[i].ort = "hin" /\ anfrage[i].art = "speichern"
    /\ LET k == anfrage[i].inhalt
           A == MitAltemStand(anfrage)
       IN  \/ /\ Gueltig(k)
              /\ server' = [zonen |-> k.zonen,
                            schalter |-> NachUebernahme(k.schalter, server.schalter)]
              /\ \/ anfrage' = [A EXCEPT ![i].ort = "server", ![i].inhalt = Aktuell]
                 \/ anfrage' = [A EXCEPT ![i] = Beantwortet(@, Fehler)]
           \/ ~Gueltig(k) /\ Ablehnen(i)
    /\ UNCHANGED <<form, gesendet, eingaben>>

\* heizung_schalter, and _schalter_befehl for a command by MQTT.  Here, too, the
\* position holds when the file cannot be written.
UmlegenAnkunft(i) ==
    /\ anfrage[i] # Frei /\ anfrage[i].ort = "hin" /\ anfrage[i].art = "umlegen"
    /\ LET a == anfrage[i].inhalt
       IN  \/ /\ Hat(server.schalter, a.id)
              /\ server' = [server EXCEPT
                     !.schalter[Stelle(server.schalter, a.id)].an = a.an]
              /\ \/ anfrage' = [anfrage EXCEPT ![i].ort = "server",
                                               ![i].inhalt = Aktuell]
                 \/ Zurueck(i, Fehler)
           \/ ~Hat(server.schalter, a.id) /\ Ablehnen(i)
    /\ UNCHANGED <<form, gesendet, eingaben>>

\* einmal_regeln is done; the answer is put together.
Fertig(i) ==
    /\ anfrage[i] # Frei /\ anfrage[i].ort = "server"
    /\ Zurueck(i, IF anfrage[i].inhalt = Aktuell THEN server ELSE anfrage[i].inhalt)
    /\ UNCHANGED <<server, form, gesendet, eingaben>>

\* The visualisation publishes <basis>/schalter/<id>/set.
Visu(s, an) ==
    /\ Eingabe
    /\ Abschicken(anfrage, Niemand, "umlegen", [id |-> s, an |-> an])
    /\ UNCHANGED <<server, form, gesendet>>

\* The connection breaks: an error in the browser, whether or not the request has
\* had its effect.
Abbruch(i) ==
    /\ Eingabe
    /\ anfrage[i] # Frei /\ Zurueck(i, Fehler)
    /\ UNCHANGED <<server, form, gesendet>>

-----------------------------------------------------------------------------
(* The answers *)

\* Only the first row with the id is found.
MitStand(zeilen, antwort) ==
    [j \in DOMAIN zeilen |->
        IF /\ Hat(antwort, zeilen[j].id)
           /\ \A i \in 1..(j - 1) : zeilen[i].id # zeilen[j].id
        THEN [zeilen[j] EXCEPT !.an = antwort[Stelle(antwort, zeilen[j].id)].an]
        ELSE zeilen[j]]

\* Mutant: the poll leaves the positions alone.
NachTaktOhneStand(f, k) == f

\* laden(true) takes over the positions only.
NachTakt(f, k) == [f EXCEPT !.schalter = MitStand(@, k.schalter)]

Nachher(f, a) ==
    IF a.inhalt = Fehler
    THEN [f EXCEPT !.laedt = IF a.art = "speichern" THEN FALSE ELSE @]
    ELSE CASE a.art = "laden"     -> [f EXCEPT !.zonen = a.inhalt.zonen,
                                               !.schalter = a.inhalt.schalter]
           [] a.art = "lage"      -> NachTakt(f, a.inhalt)
           [] a.art = "speichern" -> [zonen |-> a.inhalt.zonen,
                                      schalter |-> a.inhalt.schalter, laedt |-> FALSE]
           [] a.art = "umlegen"   -> [f EXCEPT !.schalter = a.inhalt.schalter]

Antwort(i) ==
    /\ anfrage[i] # Frei /\ anfrage[i].ort = "zurueck"
    /\ form' = [form EXCEPT ![anfrage[i].von] = Nachher(@, anfrage[i])]
    /\ anfrage' = [anfrage EXCEPT ![i] = Frei]
    /\ gesendet' = IF anfrage[i].art = "speichern"
                   THEN [gesendet EXCEPT ![anfrage[i].von] = <<>>] ELSE gesendet
    /\ UNCHANGED <<server, eingaben>>

-----------------------------------------------------------------------------

Anwender(b) ==
    \/ Oeffnen(b) \/ Speichern(b)
    \/ \E j \in 1..Len(form[b].schalter) : SchalterUmlegen(b, j)

Aendern(b) ==
    \/ NeueZone(b) \/ NeuerSchalter(b)
    \/ \E j \in 1..Len(form[b].schalter) : SchalterLoeschen(b, j)
    \/ \E j \in 1..Len(form[b].zonen) :
          \/ ZoneLoeschen(b, j)
          \/ \E k \in Kreise : NeuerRaum(b, j, k)
          \/ \E r \in 1..Len(form[b].zonen[j].raeume) :
                \/ RaumLoeschen(b, j, r)
                \/ \E ziel \in 1..MaxZonen : RaumVerschieben(b, j, r, ziel)

Verarbeiten(i) ==
    LadenAnkunft(i) \/ SpeichernAnkunft(i) \/ UmlegenAnkunft(i) \/ Fertig(i) \/ Antwort(i)

Next ==
    \/ \E b \in Browser : Anwender(b) \/ Takt(b)
    \/ \E b \in Bearbeiter : Aendern(b)
    \/ \E i \in Plaetze : Verarbeiten(i) \/ Abbruch(i)
    \/ \E s \in Ids, an \in BOOLEAN : Visu(s, an)

\* The interval timer of an open tab fires again and again, and the server
\* and the browser work off what has arrived.
Spec ==
    /\ Init /\ [][Next]_vars
    /\ \A b \in Browser : SF_vars(Takt(b))
    /\ \A i \in Plaetze : WF_vars(Verarbeiten(i))

-----------------------------------------------------------------------------
(* Properties *)

Raum == [id : 1..MaxRaeume, kreis : Kreise, basis : Int \cup {WieBereich}]
Zone == [id : 1..MaxZonen, basis : Int, raeume : Seq(Raum)]
Schalter == [id : Ids, an : BOOLEAN]

\* Configurations, forms and requests whose zones are from Z.
Einstellungen(Z) == [zonen : Z, schalter : Seq(Schalter)]
Formular(Z) == [zonen : Z, schalter : Seq(Schalter), laedt : BOOLEAN]
Anfrage(Z) ==
    LET Arten == {"laden", "lage", "speichern", "umlegen"}
        Von == Browser \cup {Niemand}
    IN  {Frei}
        \cup [art : {"laden", "lage"}, von : Von, ort : {"hin"}, inhalt : {Aktuell}]
        \cup [art : {"speichern"}, von : Von, ort : {"hin"}, inhalt : Einstellungen(Z)]
        \cup [art : {"umlegen"}, von : Von, ort : {"hin"}, inhalt : Schalter]
        \cup [art : Arten, von : Von, ort : {"server"},
              inhalt : Einstellungen(Z) \cup {Aktuell}]
        \cup [art : Arten, von : Browser, ort : {"zurueck"},
              inhalt : Einstellungen(Z) \cup {Fehler}]

Typ(Z) ==
    /\ server \in Einstellungen(Z)
    /\ form \in [Browser -> Formular(Z)]
    /\ anfrage \in [Plaetze -> Anfrage(Z)]
    /\ gesendet \in [Browser -> Z]
    /\ eingaben \in 0..MaxEingaben

\* Type invariant.
TypeOK == Typ(Seq(Zone))

\* A configuration that the server accepts and the actuators agree with.
ASSUME TabAnnahme ==
    /\ MaxZonen \in Nat /\ MaxSchalter \in Nat /\ MaxRaeume \in Nat
    /\ MaxAnfragen \in Nat /\ MaxEingaben \in Nat
    /\ Niemand \notin Browser /\ WieBereich \notin Int /\ Bearbeiter \subseteq Browser
    /\ Aktorbasis \in [Kreise -> Int]
    /\ AnfangsZonen \in Seq(Zone) /\ AnfangsSchalter \in Seq(Schalter)
    /\ Gueltig([zonen |-> AnfangsZonen, schalter |-> AnfangsSchalter])
    /\ Passt(AnfangsZonen)

\* The orders of the abstract specification are the requests and the MQTT
\* commands to turn a switch that have not arrived.
Kein == [kein |-> TRUE]
stand ==
    [s \in {server.schalter[j].id : j \in DOMAIN server.schalter} |->
        server.schalter[Stelle(server.schalter, s)].an]
AuftragIn(a) ==
    IF a # Frei /\ a.art = "umlegen" /\ a.ort = "hin"
    THEN [s |-> a.inhalt.id, an |-> a.inhalt.an] ELSE Kein
auftrag == [i \in Plaetze |-> AuftragIn(anfrage[i])]

Abstrakt == INSTANCE Schalterstand WITH
    Ids <- Ids, Plaetze <- Plaetze, Kein <- Kein, stand <- stand, auftrag <- auftrag

\* server.py:1099-1102: the position of a switch belongs to the operation, not
\* to the configuration; a form opened an hour ago does not turn the guests
\* switch back when it is saved.  However stale forms, answers and polls are,
\* each change of a position comes from one order that was under way.
SchalterNurPerAuftrag == Abstrakt!Spec

\* app.js:3722-3733: base setpoint and outlet stay together as they are set in
\* the actuator; moving a room to another zone does not make its outlet follow
\* the other zone's base setpoint when the form is saved.
BasisPasstZumAktor == Passt(server.zonen)

\* app.js:3473-3476 and 3515-3518: an answer changes the zones in a form only at
\* the first load, or as a save's, and then to what this browser has sent: neither
\* the poll, nor a switch that is turned, nor a failed save takes half typed zones
\* away, and a save never brings the zones of another browser whose save or
\* failed save has replaced the configuration before the answer.
EntwurfBleibt ==
    [][\A b \in Browser, i \in Plaetze :
          Antwort(i) /\ anfrage[i].von = b /\ form'[b].zonen # form[b].zonen
              => /\ anfrage[i].inhalt # Fehler
                 /\ \/ anfrage[i].art = "laden"
                    \/ /\ anfrage[i].art = "speichern"
                       /\ form'[b].zonen = gesendet[b]]_vars

\* When nobody does anything any more, every form ends up with the positions
\* that the switches have, and with its save button free, although polls and
\* answers overtake each other.
AnzeigeHoltAuf ==
    <>[](\A b \in Browser :
            /\ ~form[b].laedt
            /\ MitStand(form[b].schalter, server.schalter) = form[b].schalter)
=============================================================================
