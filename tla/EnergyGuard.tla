---------------------------- MODULE EnergyGuard ----------------------------
(***************************************************************************)
(* The meter-reading guard of the receive pipeline (app/pipeline.py) with  *)
(* the store that carries the last valid reading over a restart            *)
(* (app/energy_state.py) and the retained state topic it protects.         *)
(*                                                                         *)
(* A key is a (sender, tariff) pair.  Every energy_kwh telegram is judged  *)
(* against the reference reading of its key: the in-memory cache, or after *)
(* a start the reading loaded from energy_state.yaml.  An accepted reading *)
(* becomes the reference BEFORE it is published, and the two publishes     *)
(* that follow are await points: the process may be killed, the shutdown   *)
(* may begin and the broker may be gone between them.                      *)
(***************************************************************************)
EXTENDS Integers, Sequences

CONSTANTS
    Keys,           \* (sender id, tariff) pairs
    None,           \* Python's None: nothing known, nothing in flight
    MaxWert,        \* largest reading; 2^24 - 1 in the A5-12 payload
    MaxZeit,        \* bound on the wall clock
    SaveInterval,   \* save_interval_s of the store
    MaxJump,        \* energy_max_jump_kwh, 0 = off
    MaxKw,          \* energy_max_kw, per clock unit, 0 = off
    Kulanz,         \* the quarter hour of tolerance, in clock units
    Entsperren,     \* energy_entsperren_nach, 0 = off
    QueueLag,       \* how far received_at may be from the processing time
    SchreibFehler,  \* may a save fail (disk full, read-only volume)?
    LeseFehler      \* may the load at start fail (unreadable file)?

ASSUME EnergyAssumption ==
    /\ None \notin Int
    /\ MaxWert \in Nat /\ MaxZeit \in Nat
    /\ SaveInterval \in Nat \ {0} /\ SaveInterval <= MaxZeit
    /\ MaxJump \in Nat /\ MaxKw \in Nat /\ Kulanz \in Nat
    /\ Entsperren \in Nat /\ QueueLag \in Nat
    /\ SchreibFehler \in BOOLEAN /\ LeseFehler \in BOOLEAN

Wert == 0..MaxWert
\* time.time() is far beyond one save interval after the epoch, so the first
\* accepted reading of a process is always saved (_last_save starts at 0).
Zeit == SaveInterval..MaxZeit

VARIABLES
    cache,       \* pipeline._monotonic_cache
    cacheTs,     \* pipeline._monotonic_ts
    reihe,       \* pipeline._monotonic_rejects: the ascending rejected series
    wert, zeit,  \* EnergyStateStore._werte and _zeiten
    dirty,       \* EnergyStateStore._dirty
    lastSave,    \* EnergyStateStore._last_save
    ungelesen,   \* history: meters of the file that the start could not read
                 \* and that have not been heard since
    diskWert,    \* energy_state.yaml: wert of every entry
    diskZeit,    \* energy_state.yaml: ts of every entry
    pub,         \* retained value of the key's state topic in the broker
    sendung,     \* accepted reading still to be published by _process
    fallErlaubt, \* history: a correction or a lost reading is not yet published
    phase,       \* life of the process
    now          \* wall clock

gedaechtnis == <<cache, cacheTs, reihe>>
speicher == <<wert, zeit, dirty, lastSave, ungelesen>>
platte == <<diskWert, diskZeit>>
broker == <<pub, sendung, fallErlaubt>>
vars == <<gedaechtnis, speicher, platte, broker, phase, now>>

Leer == [k \in Keys |-> None]

Init ==
    /\ cache = Leer /\ cacheTs = Leer
    /\ reihe = [k \in Keys |-> <<>>]
    /\ wert = Leer /\ zeit = Leer /\ dirty = FALSE /\ lastSave = 0
    /\ ungelesen = {}
    /\ diskWert = Leer /\ diskZeit = Leer
    /\ pub = Leer /\ sendung = None
    /\ fallErlaubt = [k \in Keys |-> FALSE]
    /\ phase = "up"
    /\ now \in Zeit

-----------------------------------------------------------------------------
(* The reference a telegram is judged against. *)

\* Mutant: the store is not consulted after a start.
ReferenzNurCache(k) == cache[k]

Referenz(k) == IF cache[k] # None THEN cache[k] ELSE wert[k]

\* Mutant: the stored time is not taken over.
RefZeitNichtGeladen(k) == cacheTs[k]

RefZeit(k) ==
    IF cache[k] = None /\ wert[k] # None /\ zeit[k] # None
    THEN zeit[k] ELSE cacheTs[k]

Dauer(von, bis) == IF bis > von THEN bis - von ELSE 0

\* Both upper limits of a rise; the smaller one decides.
AnstiegPlausibel(k, v, at) ==
    LET anstieg == v - Referenz(k)
    IN  /\ MaxJump # 0 => anstieg <= MaxJump
        /\ MaxKw # 0 /\ RefZeit(k) # None =>
               anstieg <= MaxKw * (Dauer(RefZeit(k), at) + Kulanz)

\* Mutant: an equal reading counts as ascending.
FortsetzungMitGleichen(r, v) ==
    IF r # <<>> /\ v < r[Len(r)] THEN <<v>> ELSE Append(r, v)

\* Mutant: the series is thrown away with every further reading.
FortsetzungImmerNeu(r, v) == <<v>>

\* A rejected reading continues the series or starts it anew.
Fortsetzung(r, v) ==
    IF r # <<>> /\ v <= r[Len(r)] THEN <<v>> ELSE Append(r, v)

Geheilt(r) == Entsperren # 0 /\ Len(r) >= Entsperren

-----------------------------------------------------------------------------
(* EnergyStateStore.save: the file is replaced atomically; a failure is    *)
(* only logged and leaves the store as it was.                             *)
Sichern(w, z, offen) ==
    \/ /\ diskWert' = w /\ diskZeit' = z
       /\ dirty' = FALSE /\ lastSave' = now
    \/ /\ SchreibFehler
       /\ dirty' = offen /\ UNCHANGED <<platte, lastSave>>

\* Mutant: a reading that is not saved at once is not marked as unsaved.
SaveIfDueOhneMarke(w, z) ==
    IF now - lastSave < SaveInterval
    THEN UNCHANGED <<dirty, platte, lastSave>>
    ELSE Sichern(w, z, TRUE)

SaveIfDue(w, z) ==
    IF now - lastSave < SaveInterval
    THEN dirty' = TRUE /\ UNCHANGED <<platte, lastSave>>
    ELSE Sichern(w, z, TRUE)

\* Mutant: only the meter that was heard is written.
StandMerkenOhneAndere(k, v, at) ==
    /\ cache' = [cache EXCEPT ![k] = v]
    /\ cacheTs' = [cacheTs EXCEPT ![k] = at]
    /\ wert' = [wert EXCEPT ![k] = v]
    /\ zeit' = [zeit EXCEPT ![k] = at]
    /\ SaveIfDue([Leer EXCEPT ![k] = v], [Leer EXCEPT ![k] = at])
    /\ ungelesen' = ungelesen \ {k}
    /\ sendung' = [key |-> k, wert |-> v, stufe |-> "raw"]
    /\ UNCHANGED <<pub, phase, now>>

\* _stand_merken, then on to the publishes.
StandMerken(k, v, at) ==
    /\ cache' = [cache EXCEPT ![k] = v]
    /\ cacheTs' = [cacheTs EXCEPT ![k] = at]
    /\ wert' = [wert EXCEPT ![k] = v]
    /\ zeit' = [zeit EXCEPT ![k] = at]
    /\ SaveIfDue(wert', zeit')
    /\ ungelesen' = ungelesen \ {k}
    /\ sendung' = [key |-> k, wert |-> v, stufe |-> "raw"]
    /\ UNCHANGED <<pub, phase, now>>

\* A rejecting return of _process: all that stays is the reference it loaded.
Verwerfen(k) ==
    /\ cache' = [cache EXCEPT ![k] = Referenz(k)]
    /\ cacheTs' = [cacheTs EXCEPT ![k] = RefZeit(k)]
    /\ UNCHANGED <<speicher, platte, broker, phase, now>>

\* Mutant: the zero of an inactive tariff is taken as first reading.
ErstwertAuchNull(k, v, at) ==
    /\ Referenz(k) = None
    /\ StandMerken(k, v, at)
    /\ UNCHANGED <<reihe, fallErlaubt>>

Erstwert(k, v, at) ==
    /\ Referenz(k) = None /\ v > 0
    /\ StandMerken(k, v, at)
    /\ UNCHANGED <<reihe, fallErlaubt>>

ErstwertNull(k, v) ==
    /\ Referenz(k) = None /\ v = 0
    /\ Verwerfen(k)
    /\ UNCHANGED reihe

Anstieg(k, v, at) ==
    /\ Referenz(k) # None /\ v >= Referenz(k)
    /\ AnstiegPlausibel(k, v, at)
    /\ StandMerken(k, v, at)
    /\ reihe' = [reihe EXCEPT ![k] = <<>>]
    /\ UNCHANGED fallErlaubt

\* An implausible jump leaves the rejected series alone.
Sprung(k, v, at) ==
    /\ Referenz(k) # None /\ v >= Referenz(k)
    /\ ~AnstiegPlausibel(k, v, at)
    /\ Verwerfen(k)
    /\ UNCHANGED reihe

Monotonie(k, v) ==
    /\ Referenz(k) # None /\ v < Referenz(k)
    /\ ~Geheilt(Fortsetzung(reihe[k], v))
    /\ reihe' = [reihe EXCEPT ![k] = Fortsetzung(reihe[k], v)]
    /\ Verwerfen(k)

Selbstheilung(k, v, at) ==
    /\ Referenz(k) # None /\ v < Referenz(k)
    /\ Geheilt(Fortsetzung(reihe[k], v))
    /\ StandMerken(k, v, at)
    /\ reihe' = [reihe EXCEPT ![k] = <<>>]
    /\ fallErlaubt' = [fallErlaubt EXCEPT ![k] = TRUE]

\* One run of _process up to its first await, for a telegram stamped at.
Empfangen(k, v, at) ==
    /\ phase \in {"up", "saved"} /\ sendung = None
    /\ \/ Erstwert(k, v, at)
       \/ ErstwertNull(k, v)
       \/ Anstieg(k, v, at)
       \/ Sprung(k, v, at)
       \/ Monotonie(k, v)
       \/ Selbstheilung(k, v, at)

-----------------------------------------------------------------------------
(* The publishes of an accepted reading. *)

RawPublizieren ==
    /\ phase \in {"up", "saved"}
    /\ sendung # None /\ sendung.stufe = "raw"
    /\ sendung' = [sendung EXCEPT !.stufe = "state"]
    /\ UNCHANGED <<gedaechtnis, speicher, platte, pub, fallErlaubt, phase, now>>

StatePublizieren ==
    /\ phase \in {"up", "saved"}
    /\ sendung # None /\ sendung.stufe = "state"
    /\ pub' = [pub EXCEPT ![sendung.key] = sendung.wert]
    /\ fallErlaubt' = [fallErlaubt EXCEPT ![sendung.key] = FALSE]
    /\ sendung' = None
    /\ UNCHANGED <<gedaechtnis, speicher, platte, phase, now>>

\* The connection is lost: the publish raises and _run logs it, or there is
\* no client and the publish returns at once.  The reading stays accepted.
PublizierenScheitert ==
    /\ phase \in {"up", "saved"}
    /\ sendung # None
    /\ sendung' = None
    /\ UNCHANGED <<gedaechtnis, speicher, platte, pub, fallErlaubt, phase, now>>

-----------------------------------------------------------------------------
(* Shutdown, crash and start. *)

\* amain's finally block saves the store first ...
Herunterfahren ==
    /\ phase = "up"
    /\ phase' = "saved"
    /\ Sichern(wert, zeit, dirty)
    /\ UNCHANGED <<gedaechtnis, wert, zeit, ungelesen, broker, now>>

\* ... and cancels the pipeline only after the awaits of heizung.stop and
\* webui.stop.
PipelineStop ==
    /\ phase = "saved"
    /\ phase' = "off" /\ sendung' = None
    /\ UNCHANGED <<gedaechtnis, speicher, platte, pub, fallErlaubt, now>>

Absturz ==
    /\ phase \in {"up", "saved"}
    /\ phase' = "crashed" /\ sendung' = None
    /\ UNCHANGED <<gedaechtnis, speicher, platte, pub, fallErlaubt, now>>

\* EnergyStateStore.load at start, with empty pipeline memory.
Start ==
    /\ phase \in {"off", "crashed"}
    /\ phase' = "up"
    /\ cache' = Leer /\ cacheTs' = Leer /\ reihe' = [k \in Keys |-> <<>>]
    /\ \/ /\ wert' = diskWert /\ zeit' = diskZeit /\ ungelesen' = {}
       \/ /\ LeseFehler
          /\ wert' = Leer /\ zeit' = Leer
          /\ ungelesen' = {k \in Keys : diskWert[k] # None}
    /\ dirty' = FALSE /\ lastSave' = 0
    /\ fallErlaubt' = [k \in Keys |-> fallErlaubt[k] \/ wert'[k] # Referenz(k)]
    /\ UNCHANGED <<platte, pub, sendung, now>>

\* The wall clock runs on, and NTP or the operator may set it back.
Tick ==
    /\ now < MaxZeit /\ now' = now + 1
    /\ UNCHANGED <<gedaechtnis, speicher, platte, broker, phase>>

UhrZurueck ==
    /\ now' \in SaveInterval..(now - 1)
    /\ UNCHANGED <<gedaechtnis, speicher, platte, broker, phase>>

EmpfangsZeiten == {t \in Zeit : now - QueueLag <= t /\ t <= now + QueueLag}

Next ==
    \/ \E k \in Keys, v \in Wert : \E at \in EmpfangsZeiten : Empfangen(k, v, at)
    \/ RawPublizieren \/ StatePublizieren \/ PublizierenScheitert
    \/ Herunterfahren \/ PipelineStop \/ Absturz \/ Start
    \/ Tick \/ UhrZurueck

Spec == Init /\ [][Next]_vars

-----------------------------------------------------------------------------
(* Properties *)

Sendung == [key : Keys, wert : Wert, stufe : {"raw", "state"}]

\* Type invariant of the guard, its store, its file and the topic.
TypeOK ==
    /\ cache \in [Keys -> Wert \cup {None}]
    /\ cacheTs \in [Keys -> Zeit \cup {None}]
    /\ reihe \in [Keys -> Seq(Wert)]
    /\ wert \in [Keys -> Wert \cup {None}]
    /\ zeit \in [Keys -> Zeit \cup {None}]
    /\ dirty \in BOOLEAN /\ lastSave \in Zeit \cup {0} /\ ungelesen \subseteq Keys
    /\ diskWert \in [Keys -> Wert \cup {None}]
    /\ diskZeit \in [Keys -> Zeit \cup {None}]
    /\ pub \in [Keys -> Wert \cup {None}]
    /\ sendung \in Sendung \cup {None}
    /\ fallErlaubt \in [Keys -> BOOLEAN]
    /\ phase \in {"up", "saved", "off", "crashed"}
    /\ now \in Zeit

\* The reference in memory and the reading the store would save agree, value
\* and time: a telegram judged from the cache and the same telegram judged
\* after a restart from an up-to-date file meet the same limits.
CacheWieSpeicher ==
    \A k \in Keys : cache[k] # None => wert[k] = cache[k] /\ zeit[k] = cacheTs[k]

\* The series that may depose the reference is real evidence: strictly
\* ascending, wholly below the reference in force now, and still short of
\* the number that would have healed already.
ReiheBelegt ==
    \A k \in Keys :
        /\ \A i \in 1..Len(reihe[k]) :
              cache[k] # None /\ reihe[k][i] < cache[k]
        /\ \A i \in 1..(Len(reihe[k]) - 1) : reihe[k][i] < reihe[k][i + 1]
        /\ ~Geheilt(reihe[k])

\* A zero never becomes a reference, reaches the file, or is published, no
\* matter which restarts, healings and failures lie in between.  (With
\* Entsperren = 1 every lower value heals at once, a zero included.)
KeinNullStand ==
    \A k \in Keys :
        /\ cache[k] # 0 /\ wert[k] # 0 /\ diskWert[k] # 0 /\ pub[k] # 0
        /\ sendung # None => sendung.wert # 0

\* The visualised reading never lies above the reference, so the next
\* published reading cannot fall below it, unless the guard has corrected
\* the reference or a start has lost it since the last publish.
PubNichtUeberReferenz ==
    \A k \in Keys :
        pub[k] # None /\ ~fallErlaubt[k]
            => Referenz(k) # None /\ pub[k] <= Referenz(k)

\* As a step property: the retained reading falls only then.
PubFaelltNurMitGrund ==
    [][\A k \in Keys :
          pub[k] # None /\ pub'[k] # pub[k] /\ ~fallErlaubt[k]
              => pub'[k] # None /\ pub'[k] > pub[k]]_vars

\* What a crash can lose is only what the dirty flag admits to: a clean flag
\* means that the file holds reading and time of every meter, but for those
\* that it has and a failed load has not brought into the store.
SauberIstGesichert ==
    ~dirty => \A k \in Keys \ ungelesen : diskWert[k] = wert[k] /\ diskZeit[k] = zeit[k]

\* The file is rewritten as a whole on behalf of one meter.  Over any sequence
\* of crashes, starts and failing saves another meter drops out of it in one
\* case only: this process could not read the file (energy_state.py:88) and
\* has not heard the meter since.
DateiVergisstNicht ==
    [][\A k \in Keys :
          diskWert[k] # None /\ diskWert'[k] = None => k \in ungelesen]_vars

\* energy_state.py:12-13: "Mit dieser Datei ueberlebt der Stand den Neustart:
\* Der Schutz greift lueckenlos".  After an orderly shutdown the file holds
\* the last accepted reading of every meter.
OrdentlichGesichert ==
    phase = "off" => diskWert = wert
=============================================================================
