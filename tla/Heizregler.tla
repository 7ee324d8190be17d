----------------------------- MODULE Heizregler -----------------------------
(***************************************************************************)
(* Heizungsregler: the scheduler task and the handlers of the web UI and   *)
(* of MQTT all call einmal_regeln, which judges zone after zone and awaits *)
(* between judging a zone, sending its telegram and booking it.  Several   *)
(* calls are therefore under way at once, each with the clock, the         *)
(* settings and the judgement it started from.                             *)
(*                                                                         *)
(* A zone has one room with one heating circuit.  A telegram is told apart *)
(* by the setpoint it carries: one of a window, the lowered one, or the    *)
(* full offset of the actuator test.  Times are ages, so the state space   *)
(* is finite although the clock never stops.  Publishing is an await of    *)
(* the run and nothing else here.                                          *)
(***************************************************************************)
EXTENDS Integers, FiniteSets

CONSTANTS
    Zonen,        \* zone ids the operator uses
    Laeufe,       \* calls of einmal_regeln that can be under way at once
    Takt,         \* the one of the scheduler task _schleife
    Fenster,      \* windows of a zone; restzeit is one of them
    Sollwerte,    \* setpoints a window can have
    AbsenkWert,   \* setpoint with an open contact
    TestWert,     \* telegram of the actuator test
    AbsenkImmer,  \* absenkung_zeitzone is set: lowering needs no setpoint
    Keine,        \* None
    TestDauer,    \* TEST_DAUER_S
    Intervall,    \* sende_intervall_s
    SaveFehler,   \* saves may fail
    LaufMax,      \* bound on the duration of one run
    TestBefehle,  \* {TRUE} if nobody ends a test by hand, else BOOLEAN
    MaxTests,     \* bound on the tests started
    MaxNeustarts  \* bound on the restarts

Werte == Sollwerte \cup {AbsenkWert, TestWert}

ASSUME HeizAssumption ==
    /\ Takt \in Laeufe
    /\ AbsenkWert \notin Sollwerte /\ TestWert \notin Sollwerte \cup {AbsenkWert}
    /\ Keine \notin Werte \cup Fenster \cup Int
    /\ TestBefehle \subseteq BOOLEAN
    /\ AbsenkImmer \in BOOLEAN /\ SaveFehler \in BOOLEAN
    /\ TestDauer \in Nat \ {0} /\ Intervall \in Nat \ {0}
    /\ LaufMax \in Nat /\ MaxTests \in Nat /\ MaxNeustarts \in Nat

VARIABLES
    \* the surroundings a run reads
    fenster,            \* per zone: the window that clock and switches select
    soll,               \* per zone and window: its setpoint, MQTT and visu move it
    abgesenkt,          \* per zone: a contact is open
    bereit,             \* per zone: active, with a circuit and a fresh room value
    \* the controller
    zonen,              \* speicher.einstellungen.zonen
    zonenDatei,         \* the zones in heizzonen.yaml
    test,               \* _test_bis, as the time left
    letztesSenden,      \* _letztes_senden, as an age
    letzteVerschiebung, \* _letzte_verschiebung
    gemerkt, dirty,     \* HeizungsZustand
    datei,              \* heizung_state.yaml
    lauf,               \* the runs of einmal_regeln
    phase,              \* "laeuft", or "stoppt" after heizung.stop
    \* the outside
    aktor,              \* per zone: the telegram a gateway last sent, which its
                        \* actuator is taken to hear
    \* history
    tests, neustarts, lesefehler

welt == <<fenster, soll, abgesenkt, bereit>>
einst == <<zonen, zonenDatei>>
buch == <<letztesSenden, letzteVerschiebung>>
speicher == <<gemerkt, dirty, datei>>
historie == <<tests, neustarts, lesefehler>>
vars == <<welt, einst, test, buch, speicher, lauf, phase, aktor, historie>>

Ruht == [pc |-> "ruht", rest |-> {}, zone |-> Keine, lage |-> Keine,
         alter |-> 0, plan |-> [z \in Zonen |-> Keine]]

Init ==
    /\ fenster \in [Zonen -> Fenster \cup {Keine}]
    /\ soll \in [Zonen -> [Fenster -> Sollwerte]]
    /\ abgesenkt = [z \in Zonen |-> FALSE] /\ bereit = [z \in Zonen |-> FALSE]
    /\ zonen = Zonen /\ zonenDatei = Zonen
    /\ test = [z \in Zonen |-> Keine]
    /\ letztesSenden = [z \in Zonen |-> Keine]
    /\ letzteVerschiebung = [z \in Zonen |-> Keine]
    /\ gemerkt = [z \in Zonen |-> Keine] /\ dirty = FALSE
    /\ datei = [z \in Zonen |-> Keine]
    /\ lauf = [r \in Laeufe |-> Ruht]
    /\ phase = "laeuft"
    /\ aktor = [z \in Zonen |-> Keine]
    /\ tests = 0 /\ neustarts = 0 /\ lesefehler = FALSE

-----------------------------------------------------------------------------
(* HeizungsZustand *)

\* Mutant: a failed save clears the flag too.
SichernMeldetImmerSauber ==
    /\ dirty' = FALSE
    /\ datei' = gemerkt' \/ datei' = datei

\* save: writes everything or, on an error, nothing; the flag stays then.
Sichern ==
    \/ datei' = gemerkt' /\ dirty' = FALSE
    \/ SaveFehler /\ UNCHANGED datei /\ dirty' = (dirty \/ gemerkt' # gemerkt)

\* save_if_due at the end of a run; whether 30 s have passed is left open.
SaveIfDue ==
    /\ UNCHANGED gemerkt
    /\ IF dirty THEN Sichern \/ UNCHANGED <<dirty, datei>>
                ELSE UNCHANGED <<dirty, datei>>

-----------------------------------------------------------------------------
(* What a run decides *)

\* beurteile_zone: the window chosen by the run's clock with the setpoint of
\* now, else the last valid setpoint.
Plan(r, z) ==
    IF lauf[r].plan[z] # Keine THEN soll[z][lauf[r].plan[z]] ELSE gemerkt[z]

\* _tests_der_zone: bis > ts.
ImTest(r, z) == test[z] # Keine /\ test[z] > -lauf[r].alter

\* beurteile_raum and _beurteile_kreis: the test comes before the contact,
\* the contact before the plan.
Lage(r, z) ==
    IF ImTest(r, z) THEN TestWert
    ELSE IF abgesenkt[z] /\ (AbsenkImmer \/ Plan(r, z) # Keine) THEN AbsenkWert
    ELSE Plan(r, z)

Geaendert(z, wert) == letzteVerschiebung[z] # wert

\* ts - letzte >= sende_intervall_s, with ts the start of the run.
Faellig(r, z) ==
    letztesSenden[z] = Keine \/ letztesSenden[z] - lauf[r].alter >= Intervall

\* Mutant: a telegram is repeated only if its value changes.
SendetNurNeues(r, z, wert) ==
    /\ wert # Keine /\ bereit[z] /\ Geaendert(z, wert)

\* The guards of _vielleicht_senden.
Sendet(r, z, wert) ==
    /\ wert # Keine
    /\ bereit[z]
    /\ Geaendert(z, wert) \/ Faellig(r, z)

-----------------------------------------------------------------------------
(* The steps of einmal_regeln; an await lies between any two of them *)

\* The run takes its clock and its settings, then publishes the switches.
Beginnt(r) ==
    lauf' = [lauf EXCEPT ![r] =
        [pc |-> "zone", rest |-> zonen', zone |-> Keine, lage |-> Keine,
         alter |-> 0, plan |-> fenster]]

\* The run after judging z: it sends, or goes on to the next zone.
Beurteilt(r, z) ==
    LET weiter == [lauf[r] EXCEPT !.rest = @ \ {z}, !.plan[z] = Keine]
    IN  [lauf EXCEPT ![r] =
            IF Sendet(r, z, Lage(r, z))
            THEN [weiter EXCEPT !.pc = "senden", !.zone = z, !.lage = Lage(r, z)]
            ELSE weiter]

\* Mutant: the lowered setpoint is remembered.
BeurteilenMerktLage(r, z) ==
    /\ lauf[r].pc = "zone" /\ z \in lauf[r].rest
    /\ test' = IF ImTest(r, z) THEN test ELSE [test EXCEPT ![z] = Keine]
    /\ IF lauf[r].plan[z] # Keine /\ Lage(r, z) # gemerkt[z]
       THEN gemerkt' = [gemerkt EXCEPT ![z] = Lage(r, z)] /\ dirty' = TRUE
       ELSE UNCHANGED <<gemerkt, dirty>>
    /\ lauf' = Beurteilt(r, z)
    /\ UNCHANGED <<welt, einst, buch, datei, phase, aktor, historie>>

\* One zone is judged: an expired test is dropped, the setpoint of a window is
\* remembered, and it is decided whether the circuit gets a telegram.
Beurteilen(r, z) ==
    /\ lauf[r].pc = "zone" /\ z \in lauf[r].rest
    /\ test' = IF ImTest(r, z) THEN test ELSE [test EXCEPT ![z] = Keine]
    /\ IF lauf[r].plan[z] # Keine /\ Plan(r, z) # gemerkt[z]
       THEN gemerkt' = [gemerkt EXCEPT ![z] = Plan(r, z)] /\ dirty' = TRUE
       ELSE UNCHANGED <<gemerkt, dirty>>
    /\ lauf' = Beurteilt(r, z)
    /\ UNCHANGED <<welt, einst, buch, datei, phase, aktor, historie>>

\* handle_command, and a gateway sends the telegram.
Erreicht(r) ==
    /\ lauf[r].pc = "senden"
    /\ aktor' = [aktor EXCEPT ![lauf[r].zone] = lauf[r].lage]
    /\ lauf' = [lauf EXCEPT ![r].pc = "gesendet"]
    /\ UNCHANGED <<welt, einst, test, buch, speicher, phase, historie>>

\* handle_command returns although nothing was sent: channel or gateway are
\* missing, or the gateway fails, which _send_to_gateways only logs.
GehtVerloren(r) ==
    /\ lauf[r].pc = "senden"
    /\ lauf' = [lauf EXCEPT ![r].pc = "gesendet"]
    /\ UNCHANGED <<welt, einst, test, buch, speicher, phase, aktor, historie>>

\* handle_command raises: the circuit is skipped, nothing is booked.
Scheitert(r) ==
    /\ lauf[r].pc = "senden"
    /\ lauf' = [lauf EXCEPT ![r].pc = "zone", ![r].zone = Keine, ![r].lage = Keine]
    /\ UNCHANGED <<welt, einst, test, buch, speicher, phase, aktor, historie>>

\* The end of _vielleicht_senden, with the time the run started.
Buchen(r) ==
    /\ lauf[r].pc = "gesendet"
    /\ letztesSenden' = [letztesSenden EXCEPT ![lauf[r].zone] = lauf[r].alter]
    /\ letzteVerschiebung' = [letzteVerschiebung EXCEPT ![lauf[r].zone] = lauf[r].lage]
    /\ lauf' = [lauf EXCEPT ![r].pc = "zone", ![r].zone = Keine, ![r].lage = Keine]
    /\ UNCHANGED <<welt, einst, test, speicher, phase, aktor, historie>>

Enden(r) ==
    /\ lauf[r].pc = "zone" /\ lauf[r].rest = {}
    /\ SaveIfDue
    /\ lauf' = [lauf EXCEPT ![r] = Ruht]
    /\ UNCHANGED <<welt, einst, test, buch, phase, aktor, historie>>

Schritt(r) ==
    \/ \E z \in Zonen : Beurteilen(r, z)
    \/ Erreicht(r) \/ GehtVerloren(r) \/ Scheitert(r) \/ Buchen(r) \/ Enden(r)

-----------------------------------------------------------------------------
(* The callers *)

\* _schleife: the next turn.
TaktBeginnt ==
    /\ phase = "laeuft" /\ lauf[Takt].pc = "ruht"
    /\ UNCHANGED einst /\ Beginnt(Takt)
    /\ UNCHANGED <<welt, test, buch, speicher, phase, aktor, historie>>

Frei(r) == r # Takt /\ lauf[r].pc = "ruht"

\* GET /api/heizung, POST .../regeln, .../schalter and the MQTT commands; the
\* setting they change is changed by the actions of the surroundings.  Those
\* that change one write all settings of the memory, unless the save fails.
Regeln(r) ==
    /\ Frei(r)
    /\ zonenDatei' \in {zonen, zonenDatei}
    /\ UNCHANGED zonen /\ Beginnt(r)
    /\ UNCHANGED <<welt, test, buch, speicher, phase, aktor, historie>>

\* Sendetakt zuruecksetzen for the chosen zones.
Zurueckgesetzt(zs) ==
    /\ letztesSenden' = [z \in Zonen |-> IF z \in zs THEN Keine ELSE letztesSenden[z]]
    /\ letzteVerschiebung' =
           [z \in Zonen |-> IF z \in zs THEN Keine ELSE letzteVerschiebung[z]]

\* jetzt_senden from POST /api/heizung/senden.
JetztSenden(r, zs) ==
    /\ Frei(r)
    /\ zs = zonen \/ zs \in {{z} : z \in zonen}
    /\ Zurueckgesetzt(zs)
    /\ UNCHANGED einst /\ Beginnt(r)
    /\ UNCHANGED <<welt, test, speicher, phase, aktor, historie>>

\* POST /api/heizung/test and test_setzen.
TestSetzen(r, z, an) ==
    /\ Frei(r) /\ z \in zonen
    /\ an => tests < MaxTests
    /\ tests' = IF an THEN tests + 1 ELSE tests
    /\ test' = [test EXCEPT ![z] = IF an THEN TestDauer ELSE Keine]
    /\ Zurueckgesetzt({z})
    /\ UNCHANGED einst /\ Beginnt(r)
    /\ UNCHANGED <<welt, speicher, phase, aktor, neustarts, lesefehler>>

\* PUT /api/heizung up to the await of abos_erneuern.
PutHeizung(r, neu) ==
    /\ Frei(r)
    /\ zonen' = neu /\ zonenDatei' = neu
    /\ gemerkt' = [z \in Zonen |-> IF z \in neu THEN gemerkt[z] ELSE Keine]
    /\ Sichern
    /\ lauf' = [lauf EXCEPT ![r].pc = "abos"]
    /\ UNCHANGED <<welt, test, buch, phase, aktor, historie>>

\* ... whose speicher.save raises after it has put the new zones in force: the
\* handler ends there, no setpoint is forgotten and nothing is written.
PutScheitert(r, neu) ==
    /\ SaveFehler
    /\ Frei(r)
    /\ zonen' = neu /\ UNCHANGED zonenDatei
    /\ UNCHANGED <<welt, test, buch, speicher, lauf, phase, aktor, historie>>

\* ... and its run afterwards.
PutRegelt(r) ==
    /\ lauf[r].pc = "abos"
    /\ UNCHANGED einst /\ Beginnt(r)
    /\ UNCHANGED <<welt, test, buch, speicher, phase, aktor, historie>>

\* heizung.stop: the task is cancelled wherever it awaits, the state is saved;
\* the handlers go on until their servers stop.
Stoppen ==
    /\ phase = "laeuft" /\ phase' = "stoppt"
    /\ lauf' = [lauf EXCEPT ![Takt] = Ruht]
    /\ UNCHANGED gemerkt /\ Sichern
    /\ UNCHANGED <<welt, einst, test, buch, aktor, historie>>

\* The process ends, after Stoppen or by a crash, and starts again.  Room
\* values and contacts are unknown then, tests and bookings gone; a file that
\* cannot be read counts as empty.
Neustart ==
    /\ neustarts < MaxNeustarts /\ neustarts' = neustarts + 1
    /\ phase' = "laeuft"
    /\ lauf' = [r \in Laeufe |-> Ruht]
    /\ \/ gemerkt' = datei /\ UNCHANGED lesefehler
       \/ gemerkt' = [z \in Zonen |-> Keine] /\ lesefehler' = TRUE
    /\ dirty' = FALSE
    /\ test' = [z \in Zonen |-> Keine]
    /\ letztesSenden' = [z \in Zonen |-> Keine]
    /\ letzteVerschiebung' = [z \in Zonen |-> Keine]
    /\ bereit' = [z \in Zonen |-> FALSE] /\ abgesenkt' = [z \in Zonen |-> FALSE]
    /\ zonen' \in {zonenDatei, {}}
    /\ UNCHANGED <<fenster, soll, zonenDatei, datei, aktor, tests>>

-----------------------------------------------------------------------------
(* The surroundings *)


FensterWechselt(z) ==
    /\ fenster' \in {[fenster EXCEPT ![z] = f] : f \in (Fenster \cup {Keine}) \ {fenster[z]}}
    /\ UNCHANGED <<soll, abgesenkt, bereit, einst, test, buch, speicher, lauf, phase, aktor, historie>>

\* mqtt_nachricht (a steller of the visu) and _befehl_verarbeiten.
SollSetzen(z, f, w) ==
    /\ w # soll[z][f] /\ soll' = [soll EXCEPT ![z][f] = w]
    /\ UNCHANGED <<fenster, abgesenkt, bereit, einst, test, buch, speicher, lauf, phase, aktor, historie>>

Kontakt(z) ==
    /\ abgesenkt' = [abgesenkt EXCEPT ![z] = ~@]
    /\ UNCHANGED <<fenster, soll, bereit, einst, test, buch, speicher, lauf, phase, aktor, historie>>

\* A room value arrives or gets too old, zone or room are switched on or off.
BereitWechselt(z) ==
    /\ bereit' = [bereit EXCEPT ![z] = ~@]
    /\ UNCHANGED <<fenster, soll, abgesenkt, einst, test, buch, speicher, lauf, phase, aktor, historie>>

Tick ==
    /\ \A r \in Laeufe : lauf[r].pc = "ruht" \/ lauf[r].alter < LaufMax
    /\ lauf' = [r \in Laeufe |->
           IF lauf[r].pc \in {"ruht", "abos"} THEN lauf[r]
           ELSE [lauf[r] EXCEPT !.alter = @ + 1]]
    /\ test' = [z \in Zonen |->
           IF test[z] = Keine \/ test[z] = -LaufMax THEN test[z] ELSE test[z] - 1]
    /\ letztesSenden' = [z \in Zonen |->
           IF letztesSenden[z] = Keine \/ letztesSenden[z] = Intervall + LaufMax
           THEN letztesSenden[z] ELSE letztesSenden[z] + 1]
    /\ UNCHANGED <<welt, einst, letzteVerschiebung, speicher, phase, aktor, historie>>

Welt ==
    \E z \in Zonen :
        \/ FensterWechselt(z) \/ Kontakt(z) \/ BereitWechselt(z)
        \/ \E f \in Fenster, w \in Sollwerte : SollSetzen(z, f, w)

Next ==
    \/ \E r \in Laeufe : Schritt(r)
    \/ TaktBeginnt
    \/ \E r \in Laeufe :
        \/ Regeln(r) \/ PutRegelt(r)
        \/ \E zs \in SUBSET Zonen :
              JetztSenden(r, zs) \/ PutHeizung(r, zs) \/ PutScheitert(r, zs)
        \/ \E z \in Zonen, an \in TestBefehle : TestSetzen(r, z, an)
    \/ Stoppen \/ Neustart
    \/ Welt \/ Tick

\* Every run goes on, the scheduler and the clock too, and of the telegrams
\* sent again and again not all are lost.  A stopped process starts again.
Fairness ==
    /\ \A r \in Laeufe : WF_vars(Schritt(r)) /\ WF_vars(PutRegelt(r))
    /\ WF_vars(TaktBeginnt) /\ WF_vars(Tick)
    /\ SF_vars(\E r \in Laeufe : Erreicht(r))

Spec == Init /\ [][Next]_vars

FairSpec == Spec /\ Fairness


-----------------------------------------------------------------------------
(* Properties *)

Laufzustand(pcs, zone, lage) ==
    [pc : pcs, rest : SUBSET Zonen, zone : zone, lage : lage, alter : 0..LaufMax,
     plan : [Zonen -> Fenster \cup {Keine}]]

Zustaende ==
    Laufzustand({"ruht", "abos", "zone"}, {Keine}, {Keine})
        \cup Laufzustand({"senden", "gesendet"}, Zonen, Werte)

\* The types; a run that sends has a circuit and a value for it, and ages and
\* times left stay within their bounds.
TypeOK ==
    /\ fenster \in [Zonen -> Fenster \cup {Keine}]
    /\ soll \in [Zonen -> [Fenster -> Sollwerte]]
    /\ abgesenkt \in [Zonen -> BOOLEAN] /\ bereit \in [Zonen -> BOOLEAN]
    /\ zonen \subseteq Zonen /\ zonenDatei \subseteq Zonen
    /\ test \in [Zonen -> (-LaufMax..TestDauer) \cup {Keine}]
    /\ letztesSenden \in [Zonen -> 0..(Intervall + LaufMax) \cup {Keine}]
    /\ letzteVerschiebung \in [Zonen -> Werte \cup {Keine}]
    /\ gemerkt \in [Zonen -> Werte \cup {Keine}]
    /\ datei \in [Zonen -> Werte \cup {Keine}]
    /\ dirty \in BOOLEAN
    /\ lauf \in [Laeufe -> Zustaende]
    /\ phase \in {"laeuft", "stoppt"}
    /\ aktor \in [Zonen -> Werte \cup {Keine}]
    /\ tests \in 0..MaxTests /\ neustarts \in 0..MaxNeustarts
    /\ lesefehler \in BOOLEAN

\* einmal_regeln remembers the setpoint of the plan, not the lowered one and
\* not the one of a test: neither is held in memory or on disk, so closing the
\* door outside all windows brings the old setpoint back, also after a restart.
NurPlanGemerkt ==
    \A z \in Zonen : {gemerkt[z], datei[z]} \subseteq Sollwerte \cup {Keine}

\* HeizungsZustand._dirty: while it is clear and no file was unreadable, the
\* file holds exactly the setpoints in memory, deleted zones included.
SauberIstGesichert == ~dirty /\ ~lesefehler => datei = gemerkt

\* The telegram a run that starts now and meets no test would decide on.
Ziel(z) ==
    LET plan == IF fenster[z] # Keine THEN soll[z][fenster[z]] ELSE gemerkt[z]
    IN  IF abgesenkt[z] /\ (AbsenkImmer \/ plan # Keine) THEN AbsenkWert ELSE plan

AmZiel(z) == aktor[z] = Ziel(z)

\* Zone z can be heated and what is wanted of it is v.
Verlangt(z, v) ==
    phase = "laeuft" /\ z \in zonen /\ bereit[z] /\ v # Keine /\ Ziel(z) = v

\* Whatever runs overlap, whatever telegrams get lost and whatever tests were
\* started: if the wanted setpoint of a zone stays the same for ever, its
\* actuator comes to it and stays there (_vielleicht_senden repeats after
\* sende_intervall_s, and a test ends by itself).
AktorFolgt ==
    \A z \in Zonen, v \in Werte : <>[]Verlangt(z, v) => <>[](aktor[z] = v)

=============================================================================
