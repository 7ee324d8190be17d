----------------------------- MODULE GeraeteTab -----------------------------
(***************************************************************************)
(* The device tab of the web interface: a list that is polled, a dialog    *)
(* that edits or adds a device, and the part of the server behind them.    *)
(* The dialog holds rows of its own; saving writes the whole device from   *)
(* the rows and, for what the dialog does not show, from the list.  Every  *)
(* request runs on a connection of its own; its continuation works on      *)
(* whatever the dialog shows when the answer comes.                        *)
(***************************************************************************)
EXTENDS Integers, Sequences, SequencesExt, FiniteSets

CONSTANTS
    Geraete, Keins,
    Kanaele,       \* channel ids, numbers
    Aktoren,       \* the channels that are actuators; the others are meters
    Eeps,          \* A5-12-01 .. 03, for meters
    MaxId,         \* sender ids are 1..MaxId, in the order they are given away
    Anfang,        \* devices.yaml at the start
    Vorlage,       \* the channels of the product that is chosen when adding
    MaxSender,     \* bound on the senders of a row
    MaxAnfragen,   \* requests under way at once
    MaxEingaben    \* bound on what the user and the network do

Leer == 0          \* no sender id
Ids == 1..MaxId
Plaetze == 1..MaxAnfragen
Frei == [art |-> "frei"]
Nichts == [nichts |-> TRUE]

ASSUME GeraeteTabAnnahme ==
    /\ Keins \notin Geraete /\ Aktoren \subseteq Kanaele /\ Vorlage \subseteq Kanaele
    /\ Kanaele \subseteq Nat \ {0} /\ 1 \in Kanaele /\ IsFiniteSet(Kanaele) /\ Eeps # {}
    /\ MaxId \in Nat /\ MaxSender \in Nat /\ MaxAnfragen \in Nat \ {0} /\ MaxEingaben \in Nat

VARIABLES
    server,    \* the registry: per device its channels
    liste,     \* devices.value of the tab
    dialog,    \* editDialog
    anfrage,   \* requests under way
    gestoert,  \* history: devices written from something that had gone stale
    eingaben

vars == <<server, liste, dialog, anfrage, gestoert, eingaben>>

\* DeviceChannel: sender bindings, eep, meta.invert_direction
Kanal == [sender : Seq([id : Ids, aktiv : BOOLEAN]), eep : Eeps, invert : BOOLEAN]

\* The n-th smallest of a set of numbers
Rang(S, k) == Cardinality({i \in S : i <= k})
Nter(S, n) == CHOOSE k \in S : Rang(S, k) = n

Setzen(f, x, w) == [y \in DOMAIN f \cup {x} |-> IF y = x THEN w ELSE f[y]]
Weg(f, x) == [y \in DOMAIN f \ {x} |-> f[y]]

Aktiver(s) == SelectInSeq(s, LAMBDA b : b.aktiv)

\* active_sender_id, which the server also sends as learned_pair_id
Paar(s) == IF s = <<>> THEN Leer ELSE IF Aktiver(s) = 0 THEN s[1].id ELSE s[Aktiver(s)].id

Zu == [offen |-> FALSE, modus |-> "edit", geraet |-> Keins, reihen |-> <<>>,
       saving |-> FALSE, busy |-> FALSE, alt |-> FALSE]

Init ==
    /\ server = Anfang /\ liste = [g \in {} |-> Nichts]
    /\ dialog = Zu
    /\ anfrage = [i \in Plaetze |->
           IF i = 1 THEN [art |-> "liste", ort |-> "hin", geraet |-> Keins,
                          kanal |-> Leer, wert |-> Nichts, reihe |-> Leer, hier |-> TRUE]
           ELSE Frei]
    /\ gestoert = {} /\ eingaben = 0

Eingabe == eingaben < MaxEingaben /\ eingaben' = eingaben + 1

\* fetch: the request takes the lowest free place.
Abschicken(A, art, g, k, wert) ==
    \E i \in Plaetze :
        /\ A[i] = Frei /\ \A j \in Plaetze : A[j] = Frei => i <= j
        /\ anfrage' = [A EXCEPT ![i] =
               [art |-> art, ort |-> "hin", geraet |-> g, kanal |-> k,
                wert |-> wert, reihe |-> k, hier |-> TRUE]]

Schreibend == {"speichern", "anlegen", "umkehren", "kanal_weg", "geraet_weg", "eep"}

SchreibtAn(g) ==
    \E i \in Plaetze : anfrage[i] # Frei /\ anfrage[i].art \in Schreibend
                       /\ anfrage[i].geraet = g

\* The list shows of a device what the server has, and no write is under way.
Aktuell(g) ==
    /\ g \in DOMAIN liste /\ g \in DOMAIN server /\ liste[g] = server[g]
    /\ ~SchreibtAn(g)

Gestoert(g, ja) == gestoert' = IF ja THEN gestoert \cup {g} ELSE gestoert

-----------------------------------------------------------------------------
(* List: timer, delete a device, invert a shutter's direction *)

\* setInterval(refresh, 3000)
Takt ==
    /\ Abschicken(anfrage, "liste", Keins, Leer, Nichts)
    /\ UNCHANGED <<server, liste, dialog, gestoert, eingaben>>

GeraetLoeschen(g) ==
    /\ Eingabe /\ ~dialog.offen /\ g \in DOMAIN liste
    /\ Abschicken(anfrage, "geraet_weg", g, Leer, Nichts)
    /\ UNCHANGED <<server, liste, dialog, gestoert>>

\* What a PUT carries of a channel that comes from the list.
Nutzlast(c) == [sender |-> c.sender, paar |-> Paar(c.sender), eep |-> c.eep, invert |-> c.invert]

\* toggleInvertDirection writes the whole device as the list has it.
Umkehren(g, k) ==
    /\ Eingabe /\ ~dialog.offen
    /\ g \in DOMAIN liste /\ k \in DOMAIN liste[g] /\ k \in Aktoren
    /\ LET an == ~liste[g][k].invert
       IN  Abschicken(anfrage, "umkehren", g, k,
               [an |-> an, nutzlast |-> [c \in DOMAIN liste[g] |->
                   [Nutzlast(liste[g][c]) EXCEPT !.invert = IF c = k THEN an ELSE @]]])
    /\ Gestoert(g, ~Aktuell(g))
    /\ UNCHANGED <<server, liste, dialog>>

-----------------------------------------------------------------------------
(* The dialog *)

\* Continuations of requests made for earlier rows find those, not the new
\* ones; made in an earlier dialog, they also find its pairing state.
OhneReihe == [i \in Plaetze |->
    IF anfrage[i] = Frei THEN Frei ELSE [anfrage[i] EXCEPT !.reihe = Leer]]
Verwaist == [i \in Plaetze |->
    IF anfrage[i] = Frei THEN Frei ELSE [anfrage[i] EXCEPT !.reihe = Leer, !.hier = FALSE]]

Reihe(k, c) == [kanal |-> k, sender |-> c.sender, paar |-> Paar(c.sender), eep |-> c.eep]

Oeffnen(g) ==
    /\ Eingabe /\ ~dialog.offen /\ g \in DOMAIN liste
    /\ dialog' = [Zu EXCEPT !.offen = TRUE, !.geraet = g, !.alt = ~Aktuell(g),
           !.reihen = [j \in 1..Cardinality(DOMAIN liste[g]) |->
               LET k == Nter(DOMAIN liste[g], j) IN Reihe(k, liste[g][k])]]
    /\ anfrage' = Verwaist
    /\ UNCHANGED <<server, liste, gestoert>>

ErstesEep == CHOOSE e \in Eeps : TRUE
LeereReihe(k) == [kanal |-> k, sender |-> <<>>, paar |-> Leer, eep |-> ErstesEep]

\* openAdd: one empty row
OeffnenNeu ==
    /\ Eingabe /\ ~dialog.offen
    /\ dialog' = [Zu EXCEPT !.offen = TRUE, !.modus = "add", !.reihen = <<LeereReihe(1)>>]
    /\ anfrage' = Verwaist
    /\ UNCHANGED <<server, liste, gestoert>>

Schliessen ==
    /\ Eingabe /\ dialog.offen
    /\ dialog' = [dialog EXCEPT !.offen = FALSE]
    /\ UNCHANGED <<server, liste, anfrage, gestoert>>

\* An edit that only touches the rows.
Reihen(neu) ==
    /\ Eingabe /\ dialog.offen
    /\ dialog' = [dialog EXCEPT !.reihen = neu]
    /\ UNCHANGED <<server, liste, anfrage, gestoert>>

ReiheDazu ==
    LET n == Len(dialog.reihen) + 1
    IN  /\ dialog.modus = "add" /\ n \in Kanaele
        /\ \A j \in DOMAIN dialog.reihen : dialog.reihen[j].kanal # n
        /\ Reihen(Append(dialog.reihen, LeereReihe(n)))

\* removeChannelRow; deleteChannelInDialog when adding
ReiheWeg(j) ==
    /\ dialog.modus = "add" /\ Len(dialog.reihen) > 1
    /\ Reihen(RemoveAt(dialog.reihen, j))

\* deleteChannelInDialog: the answer removes the row at the same place.
KanalLoeschen(j) ==
    /\ Eingabe /\ dialog.offen /\ dialog.modus = "edit"
    /\ Abschicken(anfrage, "kanal_weg", dialog.geraet, dialog.reihen[j].kanal, j)
    /\ Gestoert(dialog.geraet, SchreibtAn(dialog.geraet))
    /\ UNCHANGED <<server, liste, dialog>>

\* switchChannelEepInDialog acts on the server at once.
EepWechseln(j, e) ==
    /\ Eingabe /\ dialog.offen /\ dialog.modus = "edit"
    /\ dialog.reihen[j].kanal \notin Aktoren /\ dialog.reihen[j].eep # e
    /\ Abschicken(anfrage, "eep", dialog.geraet, dialog.reihen[j].kanal, e)
    /\ Gestoert(dialog.geraet, SchreibtAn(dialog.geraet))
    /\ UNCHANGED <<server, liste, dialog>>

\* Mutant: every new sender is active.
MitSenderAktiv(s, id) == Append(s, [id |-> id, aktiv |-> TRUE])

\* addSenderToChannel and addSenderFromGateway: the first one is active.
MitSender(s, id) == Append(s, [id |-> id, aktiv |-> s = <<>>])

AlleinAktiv(s, a) == [i \in DOMAIN s |-> [s[i] EXCEPT !.aktiv = (i = a)]]

\* removeSenderFromChannel: the first one follows an active one.
OhneSender(s, i) ==
    LET r == RemoveAt(s, i)
    IN  IF s[i].aktiv /\ r # <<>> THEN [r EXCEPT ![1].aktiv = TRUE] ELSE r

MitSendern(j, s) == [dialog.reihen EXCEPT ![j].sender = s]

AktorReihe(j) == dialog.reihen[j].kanal \in Aktoren

SenderDazu(j) ==
    /\ AktorReihe(j) /\ Len(dialog.reihen[j].sender) < MaxSender
    /\ Reihen(MitSendern(j, MitSender(dialog.reihen[j].sender, Leer)))

SenderEintragen(j, i, id) ==
    AktorReihe(j) /\ Reihen([dialog.reihen EXCEPT ![j].sender[i].id = id])

SenderAktivieren(j, i) ==
    AktorReihe(j) /\ Reihen(MitSendern(j, AlleinAktiv(dialog.reihen[j].sender, i)))

SenderWeg(j, i) ==
    AktorReihe(j) /\ Reihen(MitSendern(j, OhneSender(dialog.reihen[j].sender, i)))

\* addSenderFromGateway, startReManPairing: ask for the next free id first.
IdHolen(j, zweck) ==
    /\ Eingabe /\ dialog.offen /\ AktorReihe(j)
    /\ zweck = "paarung" => ~dialog.busy
    /\ Abschicken(anfrage, "naechste_id", Keins, dialog.reihen[j].kanal, zweck)
    /\ UNCHANGED <<server, liste, dialog, gestoert>>

\* startReManPairing with an id that the user typed
PaarungStarten(j, id) ==
    /\ Eingabe /\ dialog.offen /\ AktorReihe(j) /\ ~dialog.busy
    /\ dialog' = [dialog EXCEPT !.busy = TRUE]
    /\ Abschicken(anfrage, "paarung", Keins, dialog.reihen[j].kanal, id)
    /\ UNCHANGED <<server, liste, gestoert>>

\* selectProduct, rescaffoldChannels
ProduktWaehlen ==
    /\ Eingabe /\ dialog.offen /\ dialog.modus = "add"
    /\ Abschicken(anfrage, "vorlage", Keins, Leer, Nichts)
    /\ UNCHANGED <<server, liste, dialog, gestoert>>

-----------------------------------------------------------------------------
(* saveEdit *)

\* Mutant: the channels of the list are written, with the senders of the rows.
ReihenAusListe(g, rs) ==
    [j \in 1..Cardinality(DOMAIN liste[g]) |->
        LET k == Nter(DOMAIN liste[g], j)
        IN  IF \E i \in DOMAIN rs : rs[i].kanal = k
            THEN rs[CHOOSE i \in DOMAIN rs : rs[i].kanal = k]
            ELSE Reihe(k, liste[g][k])]

\* The rows are the single source of truth.
ZuSpeichern(g, rs) == rs

\* Mutant: rows that were added and never filled in are sent, too.
GefuelltNicht(s) == s

Gefuellt(s) ==
    LET volle == {n \in DOMAIN s : s[n].id # Leer}
    IN  [m \in 1..Cardinality(volle) |-> s[Nter(volle, m)]]

Invert(g, k) == IF g \in DOMAIN liste /\ k \in DOMAIN liste[g] THEN liste[g][k].invert ELSE FALSE

\* Rows, and from the list what the dialog does not show; empty ids are skipped.
Serialisiert(g, rs) ==
    [k \in {rs[j].kanal : j \in DOMAIN rs} |->
        LET r == rs[CHOOSE j \in DOMAIN rs : rs[j].kanal = k]
        IN  [sender |-> Gefuellt(r.sender), paar |-> r.paar, eep |-> r.eep,
             invert |-> Invert(g, k)]]

\* What the rows take from the list has changed on the server.
ListeVeraltet(g) ==
    \E j \in DOMAIN dialog.reihen :
        LET k == dialog.reihen[j].kanal
        IN  g \in DOMAIN server /\ k \in DOMAIN server[g] /\ server[g][k].invert # Invert(g, k)

Speichern ==
    /\ Eingabe /\ dialog.offen /\ dialog.modus = "edit" /\ ~dialog.saving
    /\ dialog.geraet \in DOMAIN liste
    /\ dialog' = [dialog EXCEPT !.saving = TRUE]
    /\ LET g == dialog.geraet
       IN  /\ Abschicken(anfrage, "speichern", g, Leer,
                  [bild |-> dialog.reihen,
                   nutzlast |-> Serialisiert(g, ZuSpeichern(g, dialog.reihen))])
           /\ Gestoert(g, dialog.alt \/ SchreibtAn(g) \/ ListeVeraltet(g))
    /\ UNCHANGED <<server, liste>>

\* "Geraet nicht mehr vorhanden"
SpeichernOhneGeraet ==
    /\ Eingabe /\ dialog.offen /\ dialog.modus = "edit" /\ ~dialog.saving
    /\ dialog.geraet \notin DOMAIN liste
    /\ dialog' = [dialog EXCEPT !.offen = FALSE]
    /\ UNCHANGED <<server, liste, anfrage, gestoert>>

\* A new device is sent without the senders of its rows.
Anlegen(g) ==
    /\ Eingabe /\ dialog.offen /\ dialog.modus = "add" /\ ~dialog.saving
    /\ dialog' = [dialog EXCEPT !.saving = TRUE]
    /\ Abschicken(anfrage, "anlegen", g, Leer,
           [k \in {dialog.reihen[j].kanal : j \in DOMAIN dialog.reihen} |->
               LET r == dialog.reihen[CHOOSE j \in DOMAIN dialog.reihen : dialog.reihen[j].kanal = k]
               IN  [sender |-> <<>>, paar |-> r.paar, eep |-> r.eep, invert |-> FALSE]])
    /\ Gestoert(g, SchreibtAn(g))
    /\ UNCHANGED <<server, liste>>

-----------------------------------------------------------------------------
(* Server: each handler runs without a pause *)

\* _sync_senders_and_legacy: an empty list is filled from learned_pair_id, and
\* the first active sender is the only one.
Bereinigt(c) ==
    LET s == IF c.sender = <<>> /\ c.paar # Leer
             THEN <<[id |-> c.paar, aktiv |-> TRUE]>> ELSE c.sender
    IN  [sender |-> AlleinAktiv(s, IF Aktiver(s) = 0 THEN 1 ELSE Aktiver(s)),
         eep |-> c.eep, invert |-> c.invert]

Upsert(g, ks) == Setzen(server, g, [k \in DOMAIN ks |-> Bereinigt(ks[k])])

Vergeben == {i \in Ids : \E g \in DOMAIN server : \E k \in DOMAIN server[g] :
                 \E n \in DOMAIN server[g][k].sender : server[g][k].sender[n].id = i}

\* next_free_sender_id: neither in the registry nor heard on the air (beob).
FreieIds(beob) == Ids \ (Vergeben \cup beob)
NaechsteId(beob) ==
    CHOOSE i \in FreieIds(beob) : \A j \in FreieIds(beob) : i <= j

HatKanal(g, k) == g \in DOMAIN server /\ k \in DOMAIN server[g]

\* The registry after a request, and the answer to it.
Danach(a) ==
    CASE a.art = "speichern" -> Upsert(a.geraet, a.wert.nutzlast)
      [] a.art = "umkehren" -> Upsert(a.geraet, a.wert.nutzlast)
      [] a.art = "anlegen" -> Upsert(a.geraet, a.wert)
      [] a.art = "geraet_weg" /\ a.geraet \in DOMAIN server -> Weg(server, a.geraet)
      [] a.art = "kanal_weg" /\ HatKanal(a.geraet, a.kanal) ->
             [server EXCEPT ![a.geraet] = Weg(@, a.kanal)]
      [] a.art = "eep" /\ HatKanal(a.geraet, a.kanal) ->
             [server EXCEPT ![a.geraet][a.kanal].eep = a.wert]
      [] OTHER -> server

\* 404 and 409
Gelingt(a, beob) ==
    /\ a.art = "geraet_weg" => a.geraet \in DOMAIN server
    /\ a.art \in {"kanal_weg", "eep"} => HatKanal(a.geraet, a.kanal)
    /\ a.art = "naechste_id" => FreieIds(beob) # {}

Erwidert(a, beob) ==
    CASE a.art = "liste" -> server
      [] a.art = "naechste_id" /\ Gelingt(a, beob) ->
             [zweck |-> a.wert, id |-> NaechsteId(beob)]
      [] OTHER -> a.wert

\* The gateway has heard any ids of its block by now (ObservedSenderRegistry).
Ankunft(i) ==
    /\ anfrage[i] # Frei /\ anfrage[i].ort = "hin"
    /\ server' = Danach(anfrage[i])
    /\ \E beob \in SUBSET Ids :
          anfrage' = [anfrage EXCEPT ![i].wert = Erwidert(anfrage[i], beob),
              ![i].ort = IF Gelingt(anfrage[i], beob) THEN "zurueck" ELSE "fehler"]
    /\ UNCHANGED <<liste, dialog, gestoert, eingaben>>

\* A request or its answer is lost: the continuation gets an error.
Abbruch(i) ==
    /\ Eingabe /\ anfrage[i] # Frei /\ anfrage[i].ort # "fehler"
    /\ anfrage' = [anfrage EXCEPT ![i].ort = "fehler"]
    /\ UNCHANGED <<server, liste, dialog, gestoert>>

\* A teach telegram of a meter changes its EEP (auto-EEP).
Lerntelegramm(g, k, e) ==
    /\ Eingabe /\ HatKanal(g, k) /\ k \notin Aktoren /\ server[g][k].eep # e
    /\ server' = [server EXCEPT ![g][k].eep = e]
    /\ dialog' = [dialog EXCEPT !.alt = @ \/ dialog.geraet = g]
    /\ Gestoert(g, SchreibtAn(g))
    /\ UNCHANGED <<liste, anfrage>>

-----------------------------------------------------------------------------
(* Answers *)

\* Mutant: what the server no longer has stays in the list.
VerschmolzenOhneEntfernen(alt, neu) ==
    [g \in DOMAIN alt \cup DOMAIN neu |->
        IF g \notin DOMAIN neu THEN alt[g]
        ELSE [k \in DOMAIN neu[g] \cup (IF g \in DOMAIN alt THEN DOMAIN alt[g] ELSE {}) |->
                 IF k \in DOMAIN neu[g] THEN neu[g][k] ELSE alt[g][k]]]

\* refresh: in place, device by device and channel by channel
Verschmolzen(alt, neu) == [g \in DOMAIN neu |-> [k \in DOMAIN neu[g] |-> neu[g][k]]]

Stelle(k) == SelectInSeq(dialog.reihen, LAMBDA r : r.kanal = k)

\* The row a continuation holds, if the dialog still shows it.
Sichtbar(a) == Stelle(a.reihe) # 0

\* Mutant: the row stays.
NachLoeschenMitReihe(j) == dialog.reihen

\* editDialog.channels.splice(idx, 1)
NachLoeschen(j) == IF j \in DOMAIN dialog.reihen THEN RemoveAt(dialog.reihen, j) ELSE dialog.reihen

\* The paired id becomes the active sender, unless the row has it already.
Gepaart(s, id) ==
    IF \E i \in DOMAIN s : s[i].id = id THEN s
    ELSE Append(AlleinAktiv(s, 0), [id |-> id, aktiv |-> TRUE])

Nachher(a) ==
    LET j == Stelle(a.reihe)
        s == dialog.reihen[j].sender
    IN  CASE a.art \in {"speichern", "anlegen"} -> [dialog EXCEPT !.offen = FALSE, !.saving = FALSE]
          [] a.art = "kanal_weg" ->
                 [dialog EXCEPT !.reihen = NachLoeschen(a.wert), !.alt = @ \/ ~a.hier]
          [] a.art = "eep" /\ Sichtbar(a) -> [dialog EXCEPT !.reihen[j].eep = a.wert]
          [] a.art = "naechste_id" /\ a.wert.zweck = "sender" /\ Sichtbar(a)
                 /\ Len(s) < MaxSender ->
                 [dialog EXCEPT !.reihen = MitSendern(j, MitSender(s, a.wert.id))]
          [] a.art = "naechste_id" /\ a.wert.zweck = "paarung" /\ a.hier ->
                 [dialog EXCEPT !.busy = TRUE]
          [] a.art = "paarung" /\ Sichtbar(a) /\ Len(s) < MaxSender ->
                 [dialog EXCEPT !.reihen = MitSendern(j, Gepaart(s, a.wert)), !.busy = FALSE]
          [] a.art = "paarung" /\ a.hier /\ ~(Sichtbar(a) /\ Len(s) < MaxSender) ->
                 [dialog EXCEPT !.busy = FALSE]
          [] OTHER -> dialog

\* The template's rows replace those of whatever dialog is open.
MitVorlage ==
    [dialog EXCEPT !.alt = TRUE,
        !.reihen = [j \in 1..Cardinality(Vorlage) |-> LeereReihe(Nter(Vorlage, j))]]

Erledigt(i) == [anfrage EXCEPT ![i] = Frei]

\* These call refresh at the end.
MitRefresh == {"speichern", "anlegen", "kanal_weg", "geraet_weg", "eep"}

Antwort(i) ==
    LET a == anfrage[i]
    IN  /\ a # Frei /\ a.ort = "zurueck"
        /\ liste' = IF a.art = "liste" THEN Verschmolzen(liste, a.wert)
                    ELSE IF a.art = "umkehren" /\ a.geraet \in DOMAIN liste
                            /\ a.kanal \in DOMAIN liste[a.geraet]
                    THEN [liste EXCEPT ![a.geraet][a.kanal].invert = a.wert.an]
                    ELSE liste
        /\ dialog' = IF a.art = "vorlage" THEN MitVorlage ELSE Nachher(a)
        /\ IF a.art \in MitRefresh THEN Abschicken(Erledigt(i), "liste", Keins, Leer, Nichts)
           ELSE IF a.art = "naechste_id" /\ a.wert.zweck = "paarung"
           THEN anfrage' = [anfrage EXCEPT ![i].art = "paarung", ![i].ort = "hin", ![i].wert = a.wert.id]
           ELSE IF a.art = "vorlage" THEN anfrage' = [OhneReihe EXCEPT ![i] = Frei]
           ELSE anfrage' = Erledigt(i)
        /\ UNCHANGED <<server, gestoert, eingaben>>

\* The catch and finally branches; without a template the rows are made from
\* the product itself.
Fehlschlag(i) ==
    LET a == anfrage[i]
    IN  /\ a # Frei /\ a.ort = "fehler"
        /\ dialog' = CASE a.art \in {"speichern", "anlegen"} -> [dialog EXCEPT !.saving = FALSE, !.alt = TRUE]
                       [] a.art \in {"kanal_weg", "eep"} -> [dialog EXCEPT !.alt = TRUE]
                       [] a.art = "paarung" /\ a.hier -> [dialog EXCEPT !.busy = FALSE]
                       [] a.art = "vorlage" -> MitVorlage
                       [] OTHER -> dialog
        /\ anfrage' = IF a.art = "vorlage" THEN [OhneReihe EXCEPT ![i] = Frei] ELSE Erledigt(i)
        /\ UNCHANGED <<server, liste, gestoert, eingaben>>

-----------------------------------------------------------------------------
Bedienen ==
    \/ \E g \in Geraete : GeraetLoeschen(g) \/ Oeffnen(g) \/ Anlegen(g)
    \/ \E g \in Geraete, k \in Kanaele : Umkehren(g, k)
    \/ OeffnenNeu \/ Schliessen \/ ReiheDazu \/ ProduktWaehlen \/ Speichern \/ SpeichernOhneGeraet
    \/ \E j \in DOMAIN dialog.reihen :
           \/ ReiheWeg(j) \/ KanalLoeschen(j) \/ \E e \in Eeps : EepWechseln(j, e)
           \/ SenderDazu(j)
           \/ \E z \in {"sender", "paarung"} : IdHolen(j, z)
           \/ \E id \in Ids : PaarungStarten(j, id)
           \/ \E i \in DOMAIN dialog.reihen[j].sender :
                  \/ SenderAktivieren(j, i) \/ SenderWeg(j, i)
                  \/ \E id \in Ids : SenderEintragen(j, i, id)

Next ==
    \/ Bedienen
    \/ Takt
    \/ \E i \in Plaetze : Ankunft(i) \/ Antwort(i) \/ Fehlschlag(i) \/ Abbruch(i)
    \/ \E g \in Geraete, k \in Kanaele, e \in Eeps : Lerntelegramm(g, k, e)

Spec == Init /\ [][Next]_vars

\* Requests arrive, answers are handled, the timer runs.
FairSpec ==
    /\ Spec /\ WF_vars(Takt)
    /\ \A i \in Plaetze : WF_vars(Ankunft(i)) /\ WF_vars(Antwort(i)) /\ WF_vars(Fehlschlag(i))

-----------------------------------------------------------------------------
IstRegister(r) ==
    /\ DOMAIN r \subseteq Geraete
    /\ \A g \in DOMAIN r : DOMAIN r[g] \subseteq Kanaele
                          /\ \A k \in DOMAIN r[g] : r[g][k] \in Kanal
Reihentyp == [kanal : Kanaele, sender : Seq([id : Ids \cup {Leer}, aktiv : BOOLEAN]),
              paar : Ids \cup {Leer}, eep : Eeps]

TypeOK ==
    /\ IstRegister(server) /\ IstRegister(liste)
    /\ dialog \in [offen : BOOLEAN, modus : {"edit", "add"}, geraet : Geraete \cup {Keins},
                   reihen : Seq(Reihentyp), saving : BOOLEAN, busy : BOOLEAN, alt : BOOLEAN]
    /\ \A i \in Plaetze : anfrage[i] # Frei =>
           /\ anfrage[i].art \in Schreibend \cup {"liste", "naechste_id", "paarung", "vorlage"}
           /\ anfrage[i].art \in Schreibend => anfrage[i].geraet \in Geraete
    /\ gestoert \subseteq Geraete /\ eingaben \in 0..MaxEingaben

EinerAktiv(s) == s # <<>> => Cardinality({i \in DOMAIN s : s[i].aktiv}) = 1

\* devices.yaml as loaded: each channel normalises its senders (Bereinigt).
ASSUME AnfangAnnahme ==
    /\ IstRegister(Anfang)
    /\ \A g \in DOMAIN Anfang : \A k \in DOMAIN Anfang[g] : EinerAktiv(Anfang[g][k].sender)

\* Exactly one sender of a channel is active, in the registry and in every row
\* the user can see, although answers to different requests add senders in any
\* order: the actuator is switched by the one id it was taught.
EinAktiver ==
    /\ \A g \in DOMAIN server : \A k \in DOMAIN server[g] : EinerAktiv(server[g][k].sender)
    /\ \A j \in DOMAIN dialog.reihen : EinerAktiv(dialog.reihen[j].sender)

\* The server handles a request that writes a whole device.
Geschrieben(i, arten) ==
    /\ anfrage[i] # Frei /\ anfrage[i].art \in arten /\ anfrage[i].ort = "hin"
    /\ anfrage'[i] # Frei /\ anfrage'[i].ort = "zurueck"

\* Writing a whole device, from rows or from the list, neither brings back a
\* deleted channel nor removes one nor undoes a change of EEP or direction,
\* unless what was written had gone stale.
NurGewolltes ==
    [][\A g \in DOMAIN server \cap DOMAIN server' : server[g] # server'[g] /\ g \notin gestoert =>
          \A i \in Plaetze :
              Geschrieben(i, {"speichern", "umkehren"}) /\ anfrage[i].geraet = g =>
                  /\ DOMAIN server'[g] = DOMAIN server[g]
                  /\ \A k \in DOMAIN server[g] :
                        /\ server'[g][k].eep = server[g][k].eep
                        /\ server'[g][k].invert # server[g][k].invert =>
                               anfrage[i].art = "umkehren" /\ anfrage[i].kanal = k]_vars

\* app.js:1897: what the user sees when saving is what the registry has then:
\* the channels, their senders and the active one.  Not so a row whose last
\* sender was removed: the server makes it anew (README, section 7).
WasManSieht ==
    [][\A i \in Plaetze :
          Geschrieben(i, {"speichern"}) =>
              LET rs == anfrage[i].wert.bild
                  neu == server'[anfrage[i].geraet]
              IN  /\ DOMAIN neu = {rs[j].kanal : j \in DOMAIN rs}
                  /\ \A j \in DOMAIN rs :
                        LET s == rs[j].sender
                            da == neu[rs[j].kanal].sender
                        IN  /\ Gefuellt(s) # <<>> =>
                                /\ {da[n].id : n \in DOMAIN da} = {s[n].id : n \in DOMAIN s} \ {Leer}
                                /\ Paar(s) # Leer => Paar(da) = Paar(s)
                            /\ Gefuellt(s) = <<>> /\ rs[j].paar = Leer => da = <<>>]_vars

\* When nobody changes anything any more, the list shows the registry.
ListeHoltAuf == <>[](liste = server)
=============================================================================
