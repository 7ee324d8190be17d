------------------------------ MODULE Rolladen ------------------------------
(***************************************************************************)
(* One shutter.  The actuator knows no position, so the program computes   *)
(* it: from the clock while the shutter moves, from the duration that the  *)
(* actuator reports after a run, and anew at every end stop.  Commands by  *)
(* MQTT and from the web interface, wall switches heard by both sides,     *)
(* reports and restarts interleave, and the sending of a command suspends  *)
(* its handler.  Times are tenths of a second, positions fractions of Voll *)
(* (0 is open); the product of both keeps what the code does in floats.    *)
(***************************************************************************)
EXTENDS Integers, Sequences

CONSTANTS
    Rufer,          \* who commands: one command each at a time
    Speichernd,     \* callers whose handler saves the state file
    Voll,           \* position 100 %
    Laufzeit,       \* true travel times [up, down], as calibrated
    Takt,           \* time step
    MaxSeit,        \* beyond this age a movement looks the same
    Dauern, Ziele, Staende, Kalibrierungen,   \* what callers ask for
    Eigenzeit,      \* the actuator's own running time
    Haltmeldungen,  \* how it reports a run that was stopped
    MaxNeustarts,   \* restarts since an end stop after which nothing is claimed
    MaxEingaben     \* bound on commands, presses, restarts and losses

Richtungen == {"up", "down"}
Ohne == -1          \* moving_target None
Puffer == 20

Laufzeiten == [Richtungen -> Nat]
ASSUME RolladenAnnahme ==
    /\ Voll \in Nat \ {0} /\ Takt \in Nat \ {0} /\ MaxSeit \in Nat
    /\ Laufzeit \in Laufzeiten /\ Kalibrierungen \subseteq Laufzeiten
    /\ Dauern \subseteq Nat /\ Ziele \subseteq 0..Voll /\ Staende \subseteq 0..Voll
    /\ Eigenzeit \in Nat /\ Haltmeldungen \subseteq {"fahrt", "stop"}
    /\ MaxNeustarts \in Nat /\ MaxEingaben \in Nat
    /\ \A d \in Richtungen : Laufzeit[d] \in 1..Voll
    /\ \A k \in Kalibrierungen : k["down"] > 0

VARIABLES
    st,         \* ActorState: position_percent, moving, age, moving_target
    laufzeit,   \* travel_time_s and travel_time_up_s
    datei,      \* actor_state.yaml
    sendung,    \* per caller: the command whose sending is awaited
    offen,      \* publish tasks created by feedback and not yet run
    gemeldet,   \* the retained payload on the state topic
    aktor,      \* the actuator's run
    echt,       \* where the shutter is
    funk,       \* reports of the actuator on their way
    sauber,     \* history: every run so far ended by itself and was reported
    neustarts,  \* history: restarts since the position was last exact
    wunsch,     \* history: position asked for by the last command
    stumm,      \* history: state changed by a path that does not publish
    verloren,   \* history: a telegram was lost
    eingaben

server == <<st, laufzeit, datei>>
aussen == <<aktor, echt, funk>>
zaehler == <<verloren, eingaben>>
vars == <<server, sendung, offen, gemeldet, aussen, sauber, neustarts, wunsch, stumm, zaehler>>

Abstand(a, b) == IF a < b THEN b - a ELSE a - b
\* Mutant: only the lower end is kept.
BegrenztUnten(p) == IF p < 0 THEN 0 ELSE p

Begrenzt(p) == IF p < 0 THEN 0 ELSE IF p > Voll THEN Voll ELSE p
Verschoben(p, d, weg) == IF d = "down" THEN p + weg ELSE p - weg

\* round(a / b) as Python does it, ties to the even neighbour
Gerundet(a, b) ==
    LET q == a \div b
        r == a % b
    IN  IF 2 * r < b \/ (2 * r = b /\ q % 2 = 0) THEN q ELSE q + 1

-----------------------------------------------------------------------------
(* The position, computed *)

\* Mutant: one travel time for both directions.
TimeForEine(lz, d) == lz["down"]

TimeFor(lz, d) == IF d = "up" /\ lz["up"] > 0 THEN lz["up"] ELSE lz["down"]

BisZiel(s, p) ==
    IF s.ziel = Ohne THEN p
    ELSE IF s.moving = "down" THEN (IF p < s.ziel THEN p ELSE s.ziel)
    ELSE (IF p > s.ziel THEN p ELSE s.ziel)

\* estimate_position_now
Geschaetzt(s, lz) ==
    IF s.moving = "none" THEN s.pos
    ELSE Begrenzt(BisZiel(s, Verschoben(s.pos, s.moving,
                      (s.seit * Voll) \div TimeFor(lz, s.moving))))

Ruhend(p) == [pos |-> p, moving |-> "none", seit |-> 0, ziel |-> Ohne]

Commit(s, lz) == Ruhend(Geschaetzt(s, lz))
Eingefroren(s, lz) == IF s.moving = "none" THEN s ELSE Commit(s, lz)

\* Mutant: a running movement is continued from its old start and target.
NachSendenWeiter(s, lz, cmd, dauer) ==
    IF cmd = "stop" THEN Commit(s, lz)
    ELSE [s EXCEPT !.moving = cmd, !.seit = 0,
              !.ziel = IF @ = Ohne
                       THEN Begrenzt(Verschoben(s.pos, cmd, (dauer * Voll) \div TimeFor(lz, cmd)))
                       ELSE @]

\* _update_state_after_send.  Also a movement that the position command has
\* just marked is frozen here, so its target is always recomputed.
NachSenden(s, lz, cmd, dauer) ==
    IF cmd = "stop" THEN Commit(s, lz)
    ELSE LET a == Eingefroren(s, lz)
         IN  [a EXCEPT !.moving = cmd, !.seit = 0,
                  !.ziel = IF @ = Ohne
                           THEN Begrenzt(Verschoben(a.pos, cmd, (dauer * Voll) \div TimeFor(lz, cmd)))
                           ELSE @]

\* Wall switch: the movement has no target.
NachTaster(s, lz, d) == [Eingefroren(s, lz) EXCEPT !.moving = d, !.seit = 0]

\* The running time of a report is sent in two bytes and read as 10 * DB3 + DB2.
Gelesen(dauer) == 10 * (dauer \div 256) + (dauer % 256)

Endlage(d) == IF d = "up" THEN 0 ELSE Voll

\* Mutant: the duration is added, but the movement stays set.
NachMeldungLaeuft(s, lz, m) ==
    IF m.art = "end" THEN Ruhend(Endlage(m.richtung))
    ELSE IF m.art = "stop" THEN Commit(s, lz)
    ELSE [Ruhend(Begrenzt(Verschoben(s.pos, m.richtung,
              (Gelesen(m.dauer) * Voll) \div TimeFor(lz, m.richtung)))) EXCEPT !.moving = s.moving]

\* _apply_feedback
NachMeldung(s, lz, m) ==
    IF m.art = "end" THEN Ruhend(Endlage(m.richtung))
    ELSE IF m.art = "stop" THEN Commit(s, lz)
    ELSE IF Gelesen(m.dauer) >= TimeFor(lz, m.richtung) THEN Ruhend(Endlage(m.richtung))
    ELSE Ruhend(Begrenzt(Verschoben(s.pos, m.richtung,
                    (Gelesen(m.dauer) * Voll) \div TimeFor(lz, m.richtung))))

\* Mutant: without the check that the run was long enough to measure.
AngepasstImmer(s, lz, m) ==
    LET weg == Abstand(Endlage(m.richtung), s.pos)
    IN  IF m.art # "end" \/ s.moving = "none" \/ weg = 0 THEN lz
        ELSE [lz EXCEPT ![m.richtung] =
                 Gerundet(8 * TimeFor(lz, m.richtung) + 2 * ((s.seit * Voll) \div weg), 10)]

\* _adjust_travel_time: one fifth of a plausible measurement, from 0.5 s on.
Angepasst(s, lz, m) ==
    LET weg == Abstand(Endlage(m.richtung), s.pos)
        ist == s.seit
        alt == TimeFor(lz, m.richtung)
        gemessen == (ist * Voll) \div weg
        neu == Gerundet(8 * alt + 2 * gemessen, 10)
    IN  IF m.art # "end" \/ s.moving = "none" \/ 10 * weg < Voll \/ ist < 30 THEN lz
        ELSE IF 2 * gemessen < alt \/ gemessen > 2 * alt \/ Abstand(neu, alt) < 5 THEN lz
        ELSE [lz EXCEPT ![m.richtung] = neu]

Payload(s) == [position |-> Gerundet(100 * s.pos, Voll), moving |-> s.moving]

\* to_dict and load: a tenth of a percent, and no movement
Gesichert(s, lz) ==
    [pos |-> (Gerundet(1000 * s.pos, Voll) * Voll) \div 1000, laufzeit |-> lz]

-----------------------------------------------------------------------------
Frei == [phase |-> "frei", cmd |-> "stop", dauer |-> 0]
AktorStill == [lauf |-> "none", rest |-> 0, gefahren |-> 0]

NichtsGesendet == \A r \in Rufer : sendung[r] = Frei
Still == aktor.lauf = "none" /\ funk = <<>> /\ NichtsGesendet
Ruhe == Still /\ st.moving = "none"

Init ==
    /\ st = Ruhend(0) /\ laufzeit = Laufzeit
    /\ datei = [pos |-> 0, laufzeit |-> Laufzeit]
    /\ sendung = [r \in Rufer |-> Frei]
    /\ offen = 0 /\ gemeldet = Payload(Ruhend(0))
    /\ aktor = AktorStill /\ echt = 0 /\ funk = <<>>
    /\ sauber = TRUE /\ neustarts = 0 /\ wunsch = Ohne /\ stumm = FALSE
    /\ verloren = FALSE /\ eingaben = 0

Etwas == eingaben < MaxEingaben /\ eingaben' = eingaben + 1
Eingabe == Etwas /\ UNCHANGED verloren
Verlust == Etwas /\ verloren' = TRUE

-----------------------------------------------------------------------------
(* Commands: the handler up to its await, the sending, and the rest *)

Beginn(r, cmd, dauer, ziel) ==
    /\ Eingabe /\ sendung[r] = Frei
    /\ sendung' = [sendung EXCEPT ![r] = [phase |-> "hin", cmd |-> cmd, dauer |-> dauer]]
    /\ sauber' = (sauber /\ Ruhe)
    /\ wunsch' = IF sauber' THEN ziel ELSE Ohne
    /\ UNCHANGED <<laufzeit, datei, offen, gemeldet, aussen, neustarts, stumm>>

\* {"command": d, "duration_s": t}, {"step": ..}; without a duration it is 0
Fahren(r, d, dauer) == Beginn(r, d, dauer, Ohne) /\ UNCHANGED st

\* {"move": ..}
Vollfahrt(r, d) == Beginn(r, d, TimeFor(laufzeit, d) + Puffer, Ohne) /\ UNCHANGED st

Stoppen(r) == Beginn(r, "stop", 0, Ohne) /\ UNCHANGED st

\* Mutant: the running time of the other direction.
FahrdauerVerkehrt(p, von, d) ==
    LET zeit == TimeFor(laufzeit, IF d = "up" THEN "down" ELSE "up")
    IN  IF 1000 * p <= Voll \/ 1000 * p >= 999 * Voll THEN zeit + Puffer
        ELSE Gerundet(Abstand(p, von) * zeit, Voll)

Fahrdauer(p, von, d) ==
    LET zeit == TimeFor(laufzeit, d)
    IN  IF 1000 * p <= Voll \/ 1000 * p >= 999 * Voll THEN zeit + Puffer
        ELSE Gerundet(Abstand(p, von) * zeit, Voll)

AmZiel(p, von) == 100 * Abstand(p, von) < Voll

\* {"position": p}: the movement is marked before the command is sent.
PositionFahren(r, p) ==
    LET a == Eingefroren(st, laufzeit)
        d == IF p > a.pos THEN "down" ELSE "up"
    IN  /\ ~AmZiel(p, a.pos)
        /\ st' = [a EXCEPT !.moving = d, !.seit = 0, !.ziel = p]
        /\ Beginn(r, d, Fahrdauer(p, a.pos, d), p)

\* Already there: a running movement is frozen, nothing is sent or published.
PositionErreicht(r, p) ==
    LET a == Eingefroren(st, laufzeit)
    IN  /\ Eingabe /\ sendung[r] = Frei /\ AmZiel(p, a.pos)
        /\ st' = a
        /\ datei' = IF r \in Speichernd THEN Gesichert(a, laufzeit) ELSE datei
        /\ stumm' = (stumm \/ a # st)
        /\ sauber' = (sauber /\ Ruhe)
        /\ wunsch' = IF sauber' THEN p ELSE Ohne
        /\ UNCHANGED <<laufzeit, sendung, offen, gemeldet, aussen, neustarts>>

Bericht(art, a) == [art |-> art, richtung |-> a.lauf, dauer |-> a.gefahren]

\* The actuator ends its run, if it has one, and reports that; then it starts
\* the next one.
Umsteuern(neu) ==
    /\ aktor' = neu
    /\ \/ aktor.lauf = "none" /\ UNCHANGED funk
       \/ \E art \in Haltmeldungen :
              aktor.lauf # "none" /\ funk' = Append(funk, Bericht(art, aktor))
    /\ UNCHANGED echt

Fahrt(d, dauer) == [lauf |-> d, rest |-> dauer, gefahren |-> 0]

\* The gateway's write gets its turn and the await returns; the actuator hears
\* the command, or no gateway could send it.
Abschluss(r, gehoert) ==
    LET s == sendung[r]
    IN  /\ s.phase = "hin"
        /\ sendung' = [sendung EXCEPT ![r] = Frei]
        /\ IF gehoert
           THEN /\ Umsteuern(IF s.cmd = "stop" THEN AktorStill
                             ELSE Fahrt(s.cmd, IF s.dauer = 0 THEN Eigenzeit ELSE s.dauer))
                /\ UNCHANGED <<sauber, wunsch, zaehler>>
           ELSE /\ Verlust /\ sauber' = FALSE /\ wunsch' = Ohne
                /\ UNCHANGED aussen
        /\ st' = NachSenden(st, laufzeit, s.cmd, s.dauer)
        /\ gemeldet' = Payload(st') /\ stumm' = FALSE
        /\ datei' = IF r \in Speichernd THEN Gesichert(st', laufzeit) ELSE datei
        /\ UNCHANGED <<laufzeit, offen, neustarts>>

-----------------------------------------------------------------------------
(* Wall switch, time, reports *)

\* Mutant: the new state is not published.
PlanenNie == UNCHANGED offen

\* _schedule_actor_state_publish: the task publishes what holds when it runs.
Planen == offen' = offen + 1

\* A pressed rocker; either side may miss it.  The actuator stops a run and
\* starts one only from rest.
Taster(d, server_hoert, aktor_hoert) ==
    /\ IF server_hoert /\ aktor_hoert THEN Eingabe
       ELSE (server_hoert \/ aktor_hoert) /\ Verlust
    /\ IF server_hoert
       THEN st' = NachTaster(st, laufzeit, d) /\ Planen
       ELSE UNCHANGED <<st, offen>>
    /\ IF aktor_hoert
       THEN Umsteuern(IF aktor.lauf = "none" THEN Fahrt(d, Eigenzeit) ELSE AktorStill)
       ELSE UNCHANGED aussen
    /\ sauber' = (sauber /\ Ruhe /\ server_hoert /\ aktor_hoert)
    /\ wunsch' = Ohne
    /\ UNCHANGED <<laufzeit, datei, sendung, gemeldet, neustarts, stumm>>

Tempo(d) == Voll \div Laufzeit[d]

\* Time until the limit switch stops the motor.
BisEndlage(d) == (Abstand(echt, Endlage(d)) + Tempo(d) - 1) \div Tempo(d)

\* Time goes on to the end of the run or by one step.
Schritt ==
    IF aktor.lauf = "none" THEN Takt
    ELSE LET t == IF aktor.rest < Takt THEN aktor.rest ELSE Takt
         IN  IF BisEndlage(aktor.lauf) < t THEN BisEndlage(aktor.lauf) ELSE t

Bewegung(t) ==
    LET d == aktor.lauf
        neu == [aktor EXCEPT !.rest = @ - t, !.gefahren = @ + t]
    IN  IF d = "none" THEN UNCHANGED aussen
        ELSE /\ echt' = Begrenzt(Verschoben(echt, d, t * Tempo(d)))
             /\ IF echt' = Endlage(d)
                THEN aktor' = AktorStill /\ funk' = Append(funk, Bericht("end", neu))
                ELSE IF neu.rest = 0
                THEN aktor' = AktorStill /\ funk' = Append(funk, Bericht("fahrt", neu))
                ELSE aktor' = neu /\ UNCHANGED funk

Tick ==
    /\ st' = IF st.moving = "none" THEN st
             ELSE [st EXCEPT !.seit = IF @ + Schritt < MaxSeit THEN @ + Schritt ELSE MaxSeit]
    /\ Bewegung(Schritt)
    /\ sauber' = (sauber /\ funk = <<>> /\ NichtsGesendet)
    /\ wunsch' = IF sauber' THEN wunsch ELSE Ohne
    /\ UNCHANGED <<laufzeit, datei, sendung, offen, gemeldet, neustarts, stumm, zaehler>>

\* handle_feedback: an end position reported while nothing else goes on makes
\* the computed position right again.
Melden ==
    /\ funk # <<>>
    /\ st' = NachMeldung(st, laufzeit, Head(funk))
    /\ laufzeit' = Angepasst(st, laufzeit, Head(funk))
    /\ funk' = Tail(funk)
    /\ Planen
    /\ sauber' = (/\ aktor.lauf = "none" /\ Tail(funk) = <<>> /\ NichtsGesendet
                  /\ sauber \/ (Head(funk).art = "end" /\ laufzeit' = Laufzeit))
    /\ neustarts' = IF Head(funk).art = "end" THEN 0 ELSE neustarts
    /\ wunsch' = IF sauber' /\ sauber THEN wunsch ELSE Ohne
    /\ UNCHANGED <<datei, sendung, gemeldet, aktor, echt, stumm, zaehler>>

MeldungVerloren ==
    /\ Verlust /\ funk # <<>> /\ funk' = Tail(funk)
    /\ sauber' = FALSE /\ wunsch' = Ohne
    /\ UNCHANGED <<server, sendung, offen, gemeldet, aktor, echt, neustarts, stumm>>

Veroeffentlichen ==
    /\ offen > 0 /\ offen' = offen - 1
    /\ gemeldet' = Payload(st) /\ stumm' = FALSE
    /\ UNCHANGED <<server, sendung, aussen, sauber, neustarts, wunsch, zaehler>>

-----------------------------------------------------------------------------
(* The user sets the position or the travel times; restarts *)

StandSetzen(p) ==
    /\ Eingabe
    /\ st' = Ruhend(p) /\ datei' = Gesichert(st', laufzeit)
    /\ stumm' = (stumm \/ st' # st)
    /\ sauber' = (Still /\ p = echt /\ laufzeit = Laufzeit)
    /\ neustarts' = 0 /\ wunsch' = Ohne
    /\ UNCHANGED <<laufzeit, sendung, offen, gemeldet, aussen>>

Kalibrieren(k) ==
    /\ Eingabe
    /\ laufzeit' = k /\ datei' = Gesichert(st, k)
    /\ sauber' = (sauber /\ k = Laufzeit) /\ wunsch' = Ohne
    /\ UNCHANGED <<st, sendung, offen, gemeldet, aussen, neustarts, stumm>>

\* The retained payload stays.
Neustart(geordnet) ==
    /\ Eingabe
    /\ datei' = IF geordnet THEN Gesichert(st, laufzeit) ELSE datei
    /\ st' = Ruhend(datei'.pos) /\ laufzeit' = datei'.laufzeit
    /\ sendung' = [r \in Rufer |-> Frei] /\ offen' = 0 /\ funk' = <<>>
    /\ stumm' = TRUE
    /\ sauber' = (/\ sauber /\ Ruhe /\ datei' = Gesichert(st, Laufzeit)
                  /\ neustarts < MaxNeustarts)
    /\ neustarts' = IF sauber' THEN neustarts + 1 ELSE neustarts
    /\ wunsch' = Ohne
    /\ UNCHANGED <<gemeldet, aktor, echt>>

Befehl(r) ==
    \/ \E d \in Richtungen : Vollfahrt(r, d) \/ \E dauer \in Dauern : Fahren(r, d, dauer)
    \/ Stoppen(r)
    \/ \E p \in Ziele : PositionFahren(r, p) \/ PositionErreicht(r, p)

Next ==
    \/ \E r \in Rufer : Befehl(r) \/ \E g \in BOOLEAN : Abschluss(r, g)
    \/ \E d \in Richtungen, s \in BOOLEAN, a \in BOOLEAN : Taster(d, s, a)
    \/ Tick \/ Melden \/ MeldungVerloren \/ Veroeffentlichen
    \/ \E p \in Staende : StandSetzen(p)
    \/ \E k \in Kalibrierungen : Kalibrieren(k)
    \/ \E g \in BOOLEAN : Neustart(g)

Spec == Init /\ [][Next]_vars

\* Time passes and a report that arrives is handled.
FairSpec == Spec /\ WF_vars(Tick) /\ WF_vars(Melden)

-----------------------------------------------------------------------------
Zustaende == [pos : 0..Voll, moving : Richtungen \cup {"none"}, seit : 0..MaxSeit,
              ziel : {Ohne} \cup 0..Voll]
Meldungen == [art : {"end", "fahrt", "stop"}, richtung : Richtungen, dauer : Nat]

TypeOK ==
    /\ st \in Zustaende
    /\ laufzeit \in Laufzeiten /\ laufzeit["down"] > 0
    /\ datei \in [pos : 0..Voll, laufzeit : Laufzeiten] /\ datei.laufzeit["down"] > 0
    /\ sendung \in [Rufer -> [phase : {"frei", "hin"},
                              cmd : Richtungen \cup {"stop"}, dauer : Nat]]
    /\ offen \in Nat
    /\ gemeldet \in [position : Nat, moving : Richtungen \cup {"none"}]
    /\ aktor \in [lauf : Richtungen \cup {"none"}, rest : Nat, gefahren : Nat]
    /\ echt \in 0..Voll
    /\ funk \in Seq(Meldungen)
    /\ sauber \in BOOLEAN /\ neustarts \in 0..MaxNeustarts /\ wunsch \in {Ohne} \cup 0..Voll /\ stumm \in BOOLEAN
    /\ verloren \in BOOLEAN /\ eingaben \in 0..MaxEingaben

\* A target belongs to the movement under way and lies ahead of its start:
\* otherwise the estimate, which stops at the target, would jump.  Commands
\* mark the movement before and after their await, reports and the wall switch
\* come in between.
ZielVoraus ==
    /\ st.moving = "none" => st.ziel = Ohne
    /\ st.ziel # Ohne =>
           IF st.moving = "down" THEN st.ziel >= st.pos ELSE st.ziel <= st.pos

\* As long as every run ended by itself and was reported before the next
\* command, the computed position is the real one, up to the half per mille
\* that each restart loses to the state file; an end position makes it exact
\* again whatever happened before.
StandStimmt == sauber /\ Ruhe => 2000 * Abstand(st.pos, echt) <= neustarts * Voll

\* Then a position command also brings the shutter where it was asked to, to
\* 2 % (durations go out in tenths of a second).
WunschErfuellt == sauber /\ Ruhe /\ wunsch # Ohne => 50 * Abstand(wunsch, echt) <= Voll

\* Undisturbed runs never change the calibrated travel times.
LaufzeitBleibt == sauber => laufzeit = Laufzeit

\* With nothing under way the retained payload is what the program believes,
\* unless the state was changed by a path that does not publish.
AnzeigeAktuell == offen = 0 /\ NichtsGesendet /\ ~stumm => gemeldet = Payload(st)

\* Without lost telegrams a run of the shutter ends for the program, too.
FahrtEndet == aktor.lauf # "none" ~> st.moving = "none" \/ verloren

\* What the claims about the computed position take for granted.  Positions are
\* fine enough for whole tenths of a second and per mille; every run takes more
\* than 5 s, so that 1 % of it is not rounded to no duration at all, which would
\* mean the actuator's own, and can be read back from its report; and there are
\* not so many restarts between two end stops that their rounding would show.
Massstab ==
    /\ Voll % 1000 = 0
    /\ \A d \in Richtungen :
          /\ Laufzeit[d] * Tempo(d) = Voll
          /\ 50 < Laufzeit[d] /\ Laufzeit[d] < 256 /\ Laufzeit[d] <= MaxSeit
    /\ MaxNeustarts <= 9
=============================================================================
