------------------------- MODULE EnergyGuardProofs -------------------------
(* Theorems about EnergyGuard, for every set of meters, every limit and    *)
(* every length of the healing series.                                     *)
EXTENDS EnergyGuard, TLAPS

\* The facts about the constants, in the form the provers use them.
LEMMA Konstanten ==
    /\ None \notin Int /\ MaxWert \in Nat /\ MaxZeit \in Nat
    /\ SaveInterval \in Nat \ {0} /\ SaveInterval <= MaxZeit
    /\ Entsperren \in Nat
  BY EnergyAssumption

-----------------------------------------------------------------------------
(* Type correctness *)

\* Continuing a series of readings gives a series of readings.
LEMMA FortsetzungTyp ==
    ASSUME NEW r \in Seq(Wert), NEW v \in Wert
    PROVE  Fortsetzung(r, v) \in Seq(Wert)
  BY DEF Fortsetzung

\* Saving keeps the types of what is on disk and of the bookkeeping.
LEMMA SichernTyp ==
    ASSUME TypeOK, NEW w \in [Keys -> Wert \cup {None}],
           NEW z \in [Keys -> Zeit \cup {None}], NEW offen \in BOOLEAN,
           Sichern(w, z, offen)
    PROVE  /\ diskWert' \in [Keys -> Wert \cup {None}]
           /\ diskZeit' \in [Keys -> Zeit \cup {None}]
           /\ dirty' \in BOOLEAN /\ lastSave' \in Zeit \cup {0}
  BY DEF TypeOK, Sichern, platte

\* An accepted reading keeps every type but that of the rejected series.
LEMMA StandMerkenTyp ==
    ASSUME TypeOK, NEW k \in Keys, NEW v \in Wert, NEW at \in Zeit,
           StandMerken(k, v, at),
           reihe' \in [Keys -> Seq(Wert)],
           fallErlaubt' \in [Keys -> BOOLEAN]
    PROVE  TypeOK'
  <1>1. /\ wert' \in [Keys -> Wert \cup {None}]
        /\ zeit' \in [Keys -> Zeit \cup {None}]
        /\ cache' \in [Keys -> Wert \cup {None}]
        /\ cacheTs' \in [Keys -> Zeit \cup {None}]
    BY DEF TypeOK, StandMerken
  <1>2. /\ diskWert' \in [Keys -> Wert \cup {None}]
        /\ diskZeit' \in [Keys -> Zeit \cup {None}]
        /\ dirty' \in BOOLEAN /\ lastSave' \in Zeit \cup {0}
    <2>1. SaveIfDue(wert', zeit')
      BY DEF StandMerken
    <2>2. CASE now - lastSave < SaveInterval
      BY <2>1, <2>2 DEF SaveIfDue, TypeOK, platte
    <2>3. CASE ~(now - lastSave < SaveInterval)
      BY <2>1, <2>3, <1>1, SichernTyp DEF SaveIfDue
    <2>4. QED
      BY <2>2, <2>3
  <1>3. sendung' \in Sendung \cup {None}
    BY DEF StandMerken, Sendung
  <1>4. UNCHANGED <<pub, phase, now>> /\ ungelesen' = ungelesen \ {k}
    BY DEF StandMerken
  <1>5. QED
    BY <1>1, <1>2, <1>3, <1>4 DEF TypeOK

\* A rejection keeps every type but that of the rejected series.
LEMMA VerwerfenTyp ==
    ASSUME TypeOK, NEW k \in Keys, Verwerfen(k),
           reihe' \in [Keys -> Seq(Wert)]
    PROVE  TypeOK'
  <1>1. Referenz(k) \in Wert \cup {None} /\ RefZeit(k) \in Zeit \cup {None}
    BY DEF TypeOK, Referenz, RefZeit
  <1>2. QED
    BY <1>1 DEF TypeOK, Verwerfen, speicher, platte, broker

\* One telegram through _process keeps the types.
LEMMA EmpfangenTyp ==
    ASSUME TypeOK, NEW k \in Keys, NEW v \in Wert, NEW at \in Zeit,
           Empfangen(k, v, at)
    PROVE  TypeOK'
  <1>1. CASE Erstwert(k, v, at)
    BY <1>1, StandMerkenTyp DEF Erstwert, TypeOK
  <1>2. CASE ErstwertNull(k, v)
    BY <1>2, VerwerfenTyp DEF ErstwertNull, TypeOK
  <1>3. CASE Anstieg(k, v, at)
    <2>1. reihe' \in [Keys -> Seq(Wert)]
      BY <1>3 DEF Anstieg, TypeOK
    <2>2. QED
      BY <1>3, <2>1, StandMerkenTyp DEF Anstieg, TypeOK
  <1>4. CASE Sprung(k, v, at)
    BY <1>4, VerwerfenTyp DEF Sprung, TypeOK
  <1>5. CASE Monotonie(k, v)
    <2>1. Fortsetzung(reihe[k], v) \in Seq(Wert)
      BY FortsetzungTyp DEF TypeOK
    <2>2. reihe' \in [Keys -> Seq(Wert)]
      BY <1>5, <2>1 DEF Monotonie, TypeOK
    <2>3. QED
      BY <1>5, <2>2, VerwerfenTyp DEF Monotonie
  <1>6. CASE Selbstheilung(k, v, at)
    <2>1. reihe' \in [Keys -> Seq(Wert)] /\ fallErlaubt' \in [Keys -> BOOLEAN]
      BY <1>6 DEF Selbstheilung, TypeOK
    <2>2. QED
      BY <1>6, <2>1, StandMerkenTyp DEF Selbstheilung
  <1>7. QED
    BY <1>1, <1>2, <1>3, <1>4, <1>5, <1>6 DEF Empfangen

\* Every step keeps the types.
LEMMA TypSchritt == TypeOK /\ [Next]_vars => TypeOK'
  <1> SUFFICES ASSUME TypeOK, [Next]_vars PROVE TypeOK'
    OBVIOUS
  <1>1. ASSUME NEW k \in Keys, NEW v \in Wert, NEW at \in EmpfangsZeiten,
               Empfangen(k, v, at)
        PROVE  TypeOK'
    BY <1>1, EmpfangenTyp DEF EmpfangsZeiten
  <1>2. CASE RawPublizieren
    BY <1>2 DEF RawPublizieren, TypeOK, Sendung, gedaechtnis, speicher, platte
  <1>3. CASE StatePublizieren
    BY <1>3, Konstanten
       DEF StatePublizieren, TypeOK, Sendung, gedaechtnis, speicher, platte
  <1>4. CASE PublizierenScheitert
    BY <1>4 DEF PublizierenScheitert, TypeOK, gedaechtnis, speicher, platte
  <1>5. CASE Herunterfahren
    <2>1. /\ diskWert' \in [Keys -> Wert \cup {None}]
          /\ diskZeit' \in [Keys -> Zeit \cup {None}]
          /\ dirty' \in BOOLEAN /\ lastSave' \in Zeit \cup {0}
      BY <1>5, SichernTyp DEF Herunterfahren, TypeOK
    <2>2. QED
      BY <1>5, <2>1 DEF Herunterfahren, TypeOK, gedaechtnis, broker
  <1>6. CASE PipelineStop
    BY <1>6 DEF PipelineStop, TypeOK, gedaechtnis, speicher, platte
  <1>7. CASE Absturz
    BY <1>7 DEF Absturz, TypeOK, gedaechtnis, speicher, platte
  <1>8. CASE Start
    <2>1. /\ wert' \in [Keys -> Wert \cup {None}]
          /\ zeit' \in [Keys -> Zeit \cup {None}]
      BY <1>8 DEF Start, TypeOK, Leer
    <2>2. fallErlaubt' \in [Keys -> BOOLEAN]
      BY <1>8 DEF Start, TypeOK
    <2>3. /\ cache' \in [Keys -> Wert \cup {None}]
          /\ cacheTs' \in [Keys -> Zeit \cup {None}]
          /\ reihe' \in [Keys -> Seq(Wert)]
      BY <1>8 DEF Start, Leer
    <2>4. QED
      BY <1>8, <2>1, <2>2, <2>3 DEF Start, TypeOK, platte
  <1>9. CASE Tick
    BY <1>9, Konstanten
       DEF Tick, TypeOK, Zeit, gedaechtnis, speicher, platte, broker
  <1>10. CASE UhrZurueck
    BY <1>10, Konstanten
       DEF UhrZurueck, TypeOK, Zeit, gedaechtnis, speicher, platte, broker
  <1>11. CASE UNCHANGED vars
    BY <1>11 DEF vars, gedaechtnis, speicher, platte, broker, TypeOK
  <1>12. QED
    BY <1>1, <1>2, <1>3, <1>4, <1>5, <1>6, <1>7, <1>8, <1>9, <1>10, <1>11
       DEF Next

\* The initial state has the types.
LEMMA TypAnfang == Init => TypeOK
  <1> SUFFICES ASSUME Init PROVE TypeOK
    OBVIOUS
  <1>1. \A S : Leer \in [Keys -> S \cup {None}]
    BY DEF Leer
  <1>2. reihe \in [Keys -> Seq(Wert)] /\ fallErlaubt \in [Keys -> BOOLEAN]
    BY DEF Init
  <1>3. QED
    BY <1>1, <1>2 DEF Init, TypeOK

\* Type correctness of the guard, for every value of the constants.
THEOREM TypKorrekt == Spec => []TypeOK
  BY TypAnfang, TypSchritt, PTL DEF Spec

-----------------------------------------------------------------------------
(* Memory, store and file agree *)

\* Readings are stored with their times, in memory and on disk.
ZeitZumWert ==
    \A k \in Keys : /\ wert[k] # None <=> zeit[k] # None
                    /\ diskWert[k] # None <=> diskZeit[k] # None

Einig == TypeOK /\ CacheWieSpeicher /\ ZeitZumWert /\ SauberIstGesichert

\* A save writes exactly what the store holds, or leaves file and flag alone.
LEMMA SichernEinig ==
    ASSUME NEW w, NEW z, NEW offen, Sichern(w, z, offen)
    PROVE  \/ diskWert' = w /\ diskZeit' = z
           \/ diskWert' = diskWert /\ diskZeit' = diskZeit /\ dirty' = offen
  BY DEF Sichern, platte

\* An accepted reading is in the store; the file has it, or the flag is set.
LEMMA StandMerkenEinig ==
    ASSUME Einig, NEW k \in Keys, NEW v \in Wert, NEW at \in Zeit,
           StandMerken(k, v, at)
    PROVE  CacheWieSpeicher' /\ ZeitZumWert' /\ SauberIstGesichert'
  <1>1. CacheWieSpeicher'
    BY DEF Einig, TypeOK, CacheWieSpeicher, StandMerken
  <1>2. \/ diskWert' = wert' /\ diskZeit' = zeit'
        \/ diskWert' = diskWert /\ diskZeit' = diskZeit /\ dirty' = TRUE
    <2>1. SaveIfDue(wert', zeit')
      BY DEF StandMerken
    <2>2. CASE now - lastSave < SaveInterval
      BY <2>1, <2>2 DEF SaveIfDue, platte
    <2>3. CASE ~(now - lastSave < SaveInterval)
      BY <2>1, <2>3, SichernEinig DEF SaveIfDue
    <2>4. QED
      BY <2>2, <2>3
  <1>3. \A j \in Keys : wert'[j] # None <=> zeit'[j] # None
    <2>1. v # None /\ at # None
      BY Konstanten DEF Wert, Zeit
    <2>2. wert' = [wert EXCEPT ![k] = v] /\ zeit' = [zeit EXCEPT ![k] = at]
      BY DEF StandMerken
    <2>3. /\ DOMAIN wert = Keys /\ DOMAIN zeit = Keys
          /\ \A j \in Keys : wert[j] # None <=> zeit[j] # None
      BY DEF Einig, TypeOK, ZeitZumWert
    <2>4. QED
      BY <2>1, <2>2, <2>3
  <1>4. QED
    BY <1>1, <1>2, <1>3 DEF Einig, ZeitZumWert, SauberIstGesichert

\* A rejection loads at most what the store holds.
LEMMA VerwerfenEinig ==
    ASSUME Einig, NEW k \in Keys, Verwerfen(k)
    PROVE  CacheWieSpeicher' /\ ZeitZumWert' /\ SauberIstGesichert'
  <1>1. CacheWieSpeicher'
    <2> SUFFICES ASSUME NEW j \in Keys, cache'[j] # None
                 PROVE  wert'[j] = cache'[j] /\ zeit'[j] = cacheTs'[j]
      BY DEF CacheWieSpeicher
    <2>1. CASE j = k
      BY <2>1 DEF Einig, TypeOK, CacheWieSpeicher, ZeitZumWert, Verwerfen,
                  Referenz, RefZeit, speicher
    <2>2. CASE j # k
      BY <2>2 DEF Einig, TypeOK, CacheWieSpeicher, Verwerfen, speicher
    <2>3. QED
      BY <2>1, <2>2
  <1>2. QED
    BY <1>1 DEF Einig, ZeitZumWert, SauberIstGesichert, Verwerfen, speicher, platte

\* One telegram keeps the three in agreement.
LEMMA EmpfangenEinig ==
    ASSUME Einig, NEW k \in Keys, NEW v \in Wert, NEW at \in Zeit,
           Empfangen(k, v, at)
    PROVE  CacheWieSpeicher' /\ ZeitZumWert' /\ SauberIstGesichert'
  <1>1. CASE StandMerken(k, v, at)
    BY <1>1, StandMerkenEinig
  <1>2. CASE Verwerfen(k)
    BY <1>2, VerwerfenEinig
  <1>3. QED
    BY <1>1, <1>2 DEF Empfangen, Erstwert, ErstwertNull, Anstieg, Sprung,
                      Monotonie, Selbstheilung

\* Every step keeps the three in agreement.
LEMMA EinigSchritt == Einig /\ [Next]_vars => Einig'
  <1> SUFFICES ASSUME Einig, [Next]_vars
               PROVE  CacheWieSpeicher' /\ ZeitZumWert' /\ SauberIstGesichert'
    BY TypSchritt DEF Einig
  <1> USE DEF Einig, CacheWieSpeicher, ZeitZumWert, SauberIstGesichert
  <1>1. ASSUME NEW k \in Keys, NEW v \in Wert, NEW at \in EmpfangsZeiten,
               Empfangen(k, v, at)
        PROVE  CacheWieSpeicher' /\ ZeitZumWert' /\ SauberIstGesichert'
    BY <1>1, EmpfangenEinig DEF EmpfangsZeiten
  <1>2. CASE RawPublizieren \/ StatePublizieren \/ PublizierenScheitert
    BY <1>2 DEF RawPublizieren, StatePublizieren, PublizierenScheitert,
                gedaechtnis, speicher, platte
  <1>3. CASE Herunterfahren
    <2>1. \/ diskWert' = wert /\ diskZeit' = zeit
          \/ diskWert' = diskWert /\ diskZeit' = diskZeit /\ dirty' = dirty
      BY <1>3, SichernEinig DEF Herunterfahren
    <2>2. QED
      BY <1>3, <2>1 DEF Herunterfahren, gedaechtnis
  <1>4. CASE PipelineStop \/ Absturz \/ Tick \/ UhrZurueck
    BY <1>4 DEF PipelineStop, Absturz, Tick, UhrZurueck,
                gedaechtnis, speicher, platte
  <1>5. CASE Start
    BY <1>5 DEF Start, Leer, platte
  <1>6. CASE UNCHANGED vars
    BY <1>6 DEF vars, gedaechtnis, speicher, platte
  <1>7. QED
    BY <1>1, <1>2, <1>3, <1>4, <1>5, <1>6 DEF Next

\* The agreement holds at the start.
LEMMA EinigAnfang == Init => Einig
  BY TypAnfang DEF Init, Einig, Leer, CacheWieSpeicher, ZeitZumWert,
                   SauberIstGesichert

\* Cache and store never disagree, in value or time.
THEOREM CacheEinig == Spec => []CacheWieSpeicher
  <1>1. Einig => CacheWieSpeicher
    BY DEF Einig
  <1>2. QED
    BY <1>1, EinigAnfang, EinigSchritt, PTL DEF Spec

\* A crash can lose only readings for which the dirty flag is set.
THEOREM SauberSicher == Spec => []SauberIstGesichert
  <1>1. Einig => SauberIstGesichert
    BY DEF Einig
  <1>2. QED
    BY <1>1, EinigAnfang, EinigSchritt, PTL DEF Spec

-----------------------------------------------------------------------------
(* The rejected series *)

\* What ReiheBelegt says of one series r below the reference ref.
Belegt(r, ref) ==
    /\ \A i \in 1..Len(r) : r[i] < ref
    /\ \A i \in 1..(Len(r) - 1) : r[i] < r[i + 1]

\* Continuing a series with a reading below the reference keeps it ascending
\* and below; it ends in that reading, and from the second reading on the
\* last one is above zero.
LEMMA FortsetzungBelegt ==
    ASSUME NEW r \in Seq(Wert), NEW ref \in Wert, NEW v \in Wert,
           v < ref, Belegt(r, ref)
    PROVE  LET f == Fortsetzung(r, v)
           IN  /\ Belegt(f, ref)
               /\ Len(f) >= 2 => v > 0
  <1>1. CASE r # <<>> /\ v <= r[Len(r)]
    BY <1>1, Konstanten DEF Belegt, Fortsetzung, Wert
  <1>2. CASE ~(r # <<>> /\ v <= r[Len(r)])
    <2> DEFINE f == Append(r, v)
    <2>1. Fortsetzung(r, v) = f
      BY <1>2 DEF Fortsetzung
    <2>2. /\ Len(r) \in Nat /\ Len(f) = Len(r) + 1
          /\ f[Len(f)] = v
          /\ \A i \in 1..Len(r) : f[i] = r[i] /\ r[i] \in Wert
      OBVIOUS
    <2>3. Len(r) > 0 => r[Len(r)] < v
      BY <1>2, <2>2, Konstanten DEF Wert
    <2>4. \A i \in 1..Len(f) : f[i] < ref
      BY <2>2 DEF Belegt
    <2>5. \A i \in 1..(Len(f) - 1) : f[i] < f[i + 1]
      <3> SUFFICES ASSUME NEW i \in 1..(Len(f) - 1) PROVE f[i] < f[i + 1]
        OBVIOUS
      <3>1. CASE i = Len(r)
        BY <3>1, <2>2, <2>3
      <3>2. CASE i # Len(r)
        BY <3>2, <2>2 DEF Belegt
      <3>3. QED
        BY <3>1, <3>2
    <2>6. Len(f) >= 2 => v > 0
      BY <2>2, <2>3, Konstanten DEF Wert
    <2>7. QED
      BY <2>1, <2>4, <2>5, <2>6 DEF Belegt
  <1>3. QED
    BY <1>1, <1>2

ReiheInv == Einig /\ ReiheBelegt

\* A known reference is a reading, and a series implies one in the cache.
LEMMA ReferenzBekannt ==
    ASSUME ReiheInv, NEW k \in Keys, Referenz(k) # None
    PROVE  /\ Referenz(k) \in Wert
           /\ Belegt(reihe[k], Referenz(k))
  <1>1. Referenz(k) \in Wert
    BY DEF ReiheInv, Einig, TypeOK, Referenz
  <1>2. reihe[k] \in Seq(Wert)
    BY DEF ReiheInv, Einig, TypeOK
  <1>3. \A i \in 1..Len(reihe[k]) : reihe[k][i] < Referenz(k)
    BY <1>2 DEF ReiheInv, ReiheBelegt, Referenz
  <1>4. QED
    BY <1>1, <1>3 DEF ReiheInv, ReiheBelegt, Belegt

\* One telegram keeps every series belegt.
LEMMA EmpfangenReihe ==
    ASSUME ReiheInv, NEW k \in Keys, NEW v \in Wert, NEW at \in Zeit,
           Empfangen(k, v, at)
    PROVE  ReiheBelegt'
  <1> SUFFICES ASSUME NEW j \in Keys
               PROVE  /\ \A i \in 1..Len(reihe'[j]) :
                            cache'[j] # None /\ reihe'[j][i] < cache'[j]
                      /\ \A i \in 1..(Len(reihe'[j]) - 1) :
                            reihe'[j][i] < reihe'[j][i + 1]
                      /\ ~Geheilt(reihe'[j])
    BY DEF ReiheBelegt, Geheilt
  <1>t. /\ reihe \in [Keys -> Seq(Wert)] /\ cache \in [Keys -> Wert \cup {None}]
        /\ Einig
    BY DEF ReiheInv, Einig, TypeOK
  <1>g. ~Geheilt(<<>>)
    BY Konstanten DEF Geheilt
  <1>1. CASE j # k
    <2>1. reihe'[j] = reihe[j] /\ cache'[j] = cache[j]
      BY <1>1, <1>t DEF Empfangen, Erstwert, ErstwertNull, Anstieg, Sprung,
                        Monotonie, Selbstheilung, StandMerken, Verwerfen
    <2>2. QED
      BY <2>1 DEF ReiheInv, ReiheBelegt
  <1>2. CASE j = k /\ (Anstieg(k, v, at) \/ Selbstheilung(k, v, at))
    <2>1. reihe'[j] = <<>>
      BY <1>2, <1>t DEF Anstieg, Selbstheilung
    <2>2. QED
      BY <2>1, <1>g
  <1>3. CASE j = k /\ (Erstwert(k, v, at) \/ ErstwertNull(k, v))
    <2>1. cache[k] = None
      BY <1>3, <1>t DEF Erstwert, ErstwertNull, Referenz
    <2>2. reihe'[k] = <<>>
      BY <2>1, <1>3, <1>t
         DEF ReiheInv, ReiheBelegt, Erstwert, ErstwertNull
    <2>3. QED
      BY <2>2, <1>3, <1>g
  <1>4. CASE j = k /\ Sprung(k, v, at)
    <2>1. /\ cache'[k] = Referenz(k) /\ reihe'[k] = reihe[k]
          /\ Referenz(k) # None
      BY <1>4, <1>t DEF Sprung, Verwerfen
    <2>2. ~Geheilt(reihe[k])
      BY DEF ReiheInv, ReiheBelegt
    <2>3. QED
      BY <1>4, <2>1, <2>2, ReferenzBekannt DEF Belegt
  <1>5. CASE j = k /\ Monotonie(k, v)
    <2> DEFINE f == Fortsetzung(reihe[k], v)
    <2>1. /\ cache'[k] = Referenz(k) /\ reihe'[k] = f /\ ~Geheilt(f)
          /\ Referenz(k) # None /\ v < Referenz(k)
      BY <1>5, <1>t DEF Monotonie, Verwerfen
    <2>2. Belegt(f, Referenz(k))
      BY <2>1, <1>t, ReferenzBekannt, FortsetzungBelegt
    <2>3. QED
      BY <1>5, <2>1, <2>2 DEF Belegt
  <1>6. QED
    BY <1>1, <1>2, <1>3, <1>4, <1>5 DEF Empfangen

\* Every step keeps every series belegt.
LEMMA ReiheSchritt == ReiheInv /\ [Next]_vars => ReiheInv'
  <1> SUFFICES ASSUME ReiheInv, [Next]_vars PROVE ReiheBelegt'
    BY EinigSchritt DEF ReiheInv
  <1>1. ASSUME NEW k \in Keys, NEW v \in Wert, NEW at \in EmpfangsZeiten,
               Empfangen(k, v, at)
        PROVE  ReiheBelegt'
    BY <1>1, EmpfangenReihe DEF EmpfangsZeiten
  <1>2. CASE UNCHANGED gedaechtnis
    BY <1>2 DEF gedaechtnis, ReiheInv, ReiheBelegt, Geheilt
  <1>3. CASE Start
    <2>1. ~Geheilt(<<>>)
      BY Konstanten DEF Geheilt
    <2>2. \A k \in Keys : reihe'[k] = <<>>
      BY <1>3 DEF Start
    <2>3. QED
      BY <2>1, <2>2 DEF ReiheBelegt, Geheilt
  <1>4. QED
    BY <1>1, <1>2, <1>3
       DEF Next, vars, RawPublizieren, StatePublizieren, PublizierenScheitert,
           Herunterfahren, PipelineStop, Absturz, Tick, UhrZurueck

\* There is no series at the start.
LEMMA ReiheAnfang == Init => ReiheInv
  <1> SUFFICES ASSUME Init PROVE ReiheBelegt
    BY EinigAnfang DEF ReiheInv
  <1>1. ~Geheilt(<<>>)
    BY Konstanten DEF Geheilt
  <1>2. \A k \in Keys : reihe[k] = <<>>
    BY DEF Init
  <1>3. SUFFICES ASSUME NEW k \in Keys
        PROVE  /\ \A i \in 1..Len(reihe[k]) :
                      cache[k] # None /\ reihe[k][i] < cache[k]
               /\ \A i \in 1..(Len(reihe[k]) - 1) : reihe[k][i] < reihe[k][i + 1]
               /\ ~Geheilt(reihe[k])
    BY DEF ReiheBelegt
  <1>4. reihe[k] = <<>>
    BY <1>2
  <1>5. QED
    BY <1>1, <1>4

\* A healing always rests on a strictly ascending series of readings below
\* the very reference it deposes.
THEOREM ReiheSicher == Spec => []ReiheBelegt
  <1>1. ReiheInv => ReiheBelegt
    BY DEF ReiheInv
  <1>2. QED
    BY <1>1, ReiheAnfang, ReiheSchritt, PTL DEF Spec

-----------------------------------------------------------------------------
(* No zero becomes a reference *)

\* KeinNullStand with what it needs of the reading in flight.
NullInv == ReiheInv /\ KeinNullStand

\* A first reading, a rise and a healing all accept a reading above zero.
LEMMA UebernommenNichtNull ==
    ASSUME NullInv, Entsperren # 1, NEW k \in Keys, NEW v \in Wert,
           NEW at \in Zeit,
           Erstwert(k, v, at) \/ Anstieg(k, v, at) \/ Selbstheilung(k, v, at)
    PROVE  v # 0
  <1>1. CASE Erstwert(k, v, at)
    BY <1>1, Konstanten DEF Erstwert, Wert
  <1>2. CASE Anstieg(k, v, at)
    <2>1. Referenz(k) \in Wert /\ Referenz(k) # 0
      BY <1>2, ReferenzBekannt
         DEF NullInv, KeinNullStand, Anstieg, Referenz
    <2>2. QED
      BY <1>2, <2>1, Konstanten DEF Anstieg, Wert
  <1>3. CASE Selbstheilung(k, v, at)
    <2> DEFINE f == Fortsetzung(reihe[k], v)
    <2>1. reihe[k] \in Seq(Wert) /\ f \in Seq(Wert)
      BY FortsetzungTyp DEF NullInv, ReiheInv, Einig, TypeOK
    <2>2. Len(f) >= Entsperren /\ Entsperren # 0
      BY <1>3 DEF Selbstheilung, Geheilt
    <2>3. Len(f) >= 2
      BY <2>1, <2>2, Konstanten
    <2>4. QED
      BY <1>3, <2>1, <2>3, ReferenzBekannt, FortsetzungBelegt
         DEF NullInv, Selbstheilung
  <1>4. QED
    BY <1>1, <1>2, <1>3

\* Saving writes no zero if the store holds none.
LEMMA SichernKeineNull ==
    ASSUME KeinNullStand, NEW w, NEW z, NEW offen, Sichern(w, z, offen),
           \A k \in Keys : w[k] # 0
    PROVE  \A k \in Keys : diskWert'[k] # 0
  BY DEF Sichern, KeinNullStand, platte

\* One telegram brings in no zero.
LEMMA EmpfangenKeineNull ==
    ASSUME NullInv, Entsperren # 1, NEW k \in Keys, NEW v \in Wert,
           NEW at \in Zeit, Empfangen(k, v, at)
    PROVE  KeinNullStand'
  <1>t. TypeOK /\ KeinNullStand
    BY DEF NullInv, ReiheInv, Einig
  <1>1. CASE Verwerfen(k)
    <2>1. \A j \in Keys : cache'[j] # 0
      BY <1>1, <1>t DEF Verwerfen, TypeOK, KeinNullStand, Referenz
    <2>2. QED
      BY <1>1, <1>t, <2>1 DEF Verwerfen, KeinNullStand, speicher, platte, broker
  <1>2. CASE v # 0 /\ StandMerken(k, v, at)
    <2>1. \A j \in Keys : cache'[j] # 0 /\ wert'[j] # 0
      BY <1>2, <1>t DEF StandMerken, TypeOK, KeinNullStand
    <2>2. \A j \in Keys : diskWert'[j] # 0
      <3>1. SaveIfDue(wert', zeit')
        BY <1>2 DEF StandMerken
      <3>2. CASE now - lastSave < SaveInterval
        BY <3>1, <3>2, <1>t DEF SaveIfDue, platte, KeinNullStand
      <3>3. CASE ~(now - lastSave < SaveInterval)
        BY <3>1, <3>3, <1>t, <2>1, SichernKeineNull DEF SaveIfDue
      <3>4. QED
        BY <3>2, <3>3
    <2>3. QED
      BY <1>2, <1>t, <2>1, <2>2 DEF StandMerken, KeinNullStand
  <1>3. QED
    BY <1>1, <1>2, UebernommenNichtNull
       DEF Empfangen, Erstwert, ErstwertNull, Anstieg, Sprung, Monotonie,
           Selbstheilung

\* No step brings in a zero.
LEMMA NullSchritt ==
    ASSUME Entsperren # 1
    PROVE  NullInv /\ [Next]_vars => NullInv'
  <1> SUFFICES ASSUME NullInv, [Next]_vars PROVE KeinNullStand'
    BY ReiheSchritt DEF NullInv
  <1>t. TypeOK /\ KeinNullStand
    BY DEF NullInv, ReiheInv, Einig
  <1>1. ASSUME NEW k \in Keys, NEW v \in Wert, NEW at \in EmpfangsZeiten,
               Empfangen(k, v, at)
        PROVE  KeinNullStand'
    BY <1>1, EmpfangenKeineNull DEF EmpfangsZeiten
  <1>2. CASE RawPublizieren
    BY <1>2, <1>t DEF RawPublizieren, KeinNullStand, TypeOK, Sendung,
                      gedaechtnis, speicher, platte
  <1>3. CASE StatePublizieren
    BY <1>3, <1>t DEF StatePublizieren, KeinNullStand, TypeOK, Sendung,
                      gedaechtnis, speicher, platte
  <1>4. CASE Herunterfahren
    <2>1. \A k \in Keys : diskWert'[k] # 0
      BY <1>4, <1>t, SichernKeineNull DEF Herunterfahren, KeinNullStand
    <2>2. QED
      BY <1>4, <1>t, <2>1 DEF Herunterfahren, KeinNullStand, gedaechtnis, broker
  <1>5. CASE PublizierenScheitert \/ PipelineStop \/ Absturz
    BY <1>5, <1>t DEF PublizierenScheitert, PipelineStop, Absturz,
                      KeinNullStand, gedaechtnis, speicher, platte
  <1>6. CASE Start
    BY <1>6, <1>t, Konstanten DEF Start, KeinNullStand, Leer, platte
  <1>7. CASE Tick \/ UhrZurueck \/ UNCHANGED vars
    BY <1>7, <1>t DEF Tick, UhrZurueck, vars, KeinNullStand,
                      gedaechtnis, speicher, platte, broker
  <1>8. QED
    BY <1>1, <1>2, <1>3, <1>4, <1>5, <1>6, <1>7 DEF Next

\* There is no zero at the start.
LEMMA NullAnfang == Init => NullInv
  <1> SUFFICES ASSUME Init PROVE KeinNullStand
    BY ReiheAnfang DEF NullInv
  <1>1. \A k \in Keys : Leer[k] # 0
    BY Konstanten DEF Leer
  <1>2. QED
    BY <1>1 DEF Init, KeinNullStand

\* Unless a single lower reading already heals, a zero never becomes a
\* reference, never reaches the file and is never published.
THEOREM KeinNullSicher ==
    ASSUME Entsperren # 1
    PROVE  Spec => []KeinNullStand
  <1>1. NullInv => KeinNullStand
    BY DEF NullInv
  <1>2. NullInv /\ [Next]_vars => NullInv'
    BY NullSchritt
  <1>3. QED
    BY <1>1, <1>2, NullAnfang, PTL DEF Spec

-----------------------------------------------------------------------------
(* What is shown never falls without a reason *)

\* The reading in flight is the reference of its meter, in a live process.
SendungIstReferenz ==
    sendung # None => /\ phase \in {"up", "saved"}
                      /\ sendung.wert = cache[sendung.key]

PubInv == TypeOK /\ SendungIstReferenz /\ PubNichtUeberReferenz

\* One telegram raises the reference, keeps it, or marks the correction.
LEMMA EmpfangenPub ==
    ASSUME PubInv, NEW k \in Keys, NEW v \in Wert, NEW at \in Zeit,
           Empfangen(k, v, at)
    PROVE  SendungIstReferenz' /\ PubNichtUeberReferenz'
  <1>t. /\ TypeOK /\ PubNichtUeberReferenz /\ sendung = None
        /\ None \notin Int /\ phase \in {"up", "saved"}
    BY Konstanten DEF PubInv, Empfangen
  <1>1. CASE Verwerfen(k)
    <2>1. \A j \in Keys : Referenz(j)' = Referenz(j)
      BY <1>1, <1>t DEF Verwerfen, TypeOK, Referenz, speicher
    <2>2. UNCHANGED <<pub, sendung, fallErlaubt>>
      BY <1>1 DEF Verwerfen, broker
    <2>3. QED
      BY <2>1, <2>2, <1>t DEF PubNichtUeberReferenz, SendungIstReferenz
  <1>2. CASE /\ StandMerken(k, v, at)
             /\ \/ Referenz(k) = None /\ fallErlaubt' = fallErlaubt
                \/ v >= Referenz(k) /\ Referenz(k) # None
                       /\ fallErlaubt' = fallErlaubt
                \/ fallErlaubt' = [fallErlaubt EXCEPT ![k] = TRUE]
    <2>1. /\ Referenz(k)' = v
          /\ \A j \in Keys : j # k => Referenz(j)' = Referenz(j)
      BY <1>2, <1>t, Konstanten DEF StandMerken, TypeOK, Referenz, Wert
    <2>2. SendungIstReferenz'
      BY <1>2, <1>t DEF StandMerken, SendungIstReferenz, TypeOK
    <2>3. PubNichtUeberReferenz'
      <3> SUFFICES ASSUME NEW j \in Keys, pub'[j] # None, ~fallErlaubt'[j]
                   PROVE  Referenz(j)' # None /\ pub'[j] <= Referenz(j)'
        BY DEF PubNichtUeberReferenz
      <3>1. pub' = pub
        BY <1>2 DEF StandMerken
      <3>2. ~fallErlaubt[j]
        BY <1>2, <1>t DEF TypeOK
      <3>3. Referenz(j) # None /\ pub[j] <= Referenz(j)
        BY <3>1, <3>2, <1>t DEF PubNichtUeberReferenz
      <3>4. CASE j # k
        BY <3>4, <2>1, <3>1, <3>3
      <3>5. CASE j = k
        <4>1. v >= Referenz(k)
          BY <1>2, <1>t, <3>3, <3>5 DEF TypeOK
        <4>2. pub[k] \in Int /\ Referenz(k) \in Int /\ v \in Int
          BY <1>t, <3>1, <3>3, <3>5 DEF TypeOK, Wert, Referenz
        <4>3. QED
          BY <2>1, <3>1, <3>3, <3>5, <4>1, <4>2, <1>t
      <3>6. QED
        BY <3>4, <3>5
    <2>4. QED
      BY <2>2, <2>3
  <1>3. QED
    BY <1>1, <1>2 DEF Empfangen, Erstwert, ErstwertNull, Anstieg, Sprung,
                      Monotonie, Selbstheilung

\* Every step keeps the published reading at or below the reference.
LEMMA PubSchritt == PubInv /\ [Next]_vars => PubInv'
  <1> SUFFICES ASSUME PubInv, [Next]_vars
               PROVE  SendungIstReferenz' /\ PubNichtUeberReferenz'
    BY TypSchritt DEF PubInv
  <1>t. TypeOK /\ PubNichtUeberReferenz /\ SendungIstReferenz
        /\ None \notin Int
    BY Konstanten DEF PubInv
  <1> USE DEF SendungIstReferenz, PubNichtUeberReferenz, Referenz
  <1>1. ASSUME NEW k \in Keys, NEW v \in Wert, NEW at \in EmpfangsZeiten,
               Empfangen(k, v, at)
        PROVE  SendungIstReferenz' /\ PubNichtUeberReferenz'
    BY <1>1, EmpfangenPub DEF EmpfangsZeiten
  <1>2. CASE RawPublizieren
    BY <1>2, <1>t DEF RawPublizieren, TypeOK, Sendung, gedaechtnis, speicher
  <1>3. CASE StatePublizieren
    <2>1. sendung.key \in Keys /\ sendung.wert \in Wert
      BY <1>3, <1>t DEF StatePublizieren, TypeOK, Sendung
    <2>2. cache[sendung.key] = sendung.wert /\ sendung.wert # None
          /\ sendung.wert \in Int
      BY <1>3, <1>t, <2>1 DEF StatePublizieren, Wert
    <2>3. QED
      BY <1>3, <1>t, <2>1, <2>2
         DEF StatePublizieren, TypeOK, gedaechtnis, speicher
  <1>4. CASE PublizierenScheitert \/ PipelineStop \/ Absturz
    BY <1>4, <1>t DEF PublizierenScheitert, PipelineStop, Absturz,
                      gedaechtnis, speicher
  <1>5. CASE Herunterfahren
    BY <1>5, <1>t DEF Herunterfahren, gedaechtnis, broker
  <1>6. CASE Start
    <2>1. \A k \in Keys : fallErlaubt'[k] = (fallErlaubt[k] \/ wert'[k] # Referenz(k))
      BY <1>6 DEF Start
    <2>2. /\ cache' = Leer /\ pub' = pub /\ sendung' = sendung
      BY <1>6 DEF Start
    <2>3. \A k \in Keys : Referenz(k)' = wert'[k]
      BY <2>2 DEF Leer
    <2>4. PubNichtUeberReferenz'
      <3> SUFFICES ASSUME NEW k \in Keys, pub'[k] # None, ~fallErlaubt'[k]
                   PROVE  Referenz(k)' # None /\ pub'[k] <= Referenz(k)'
        OBVIOUS
      <3>1. ~fallErlaubt[k] /\ wert'[k] = Referenz(k)
        BY <2>1
      <3>2. QED
        BY <3>1, <2>2, <2>3, <1>t
    <2>5. QED
      BY <2>2, <2>4, <1>6, <1>t DEF Start
  <1>7. CASE Tick \/ UhrZurueck \/ UNCHANGED vars
    BY <1>7, <1>t DEF Tick, UhrZurueck, vars, gedaechtnis, speicher, broker
  <1>8. QED
    BY <1>1, <1>2, <1>3, <1>4, <1>5, <1>6, <1>7 DEF Next

\* Nothing is published at the start.
LEMMA PubAnfang == Init => PubInv
  <1> SUFFICES ASSUME Init PROVE SendungIstReferenz /\ PubNichtUeberReferenz
    BY TypAnfang DEF PubInv
  <1>1. \A k \in Keys : pub[k] = None
    BY DEF Init, Leer
  <1>2. QED
    BY <1>1 DEF Init, SendungIstReferenz, PubNichtUeberReferenz

\* The retained reading stays at or below the reference, unless a correction
\* or a lost reading has not been published yet.
THEOREM PubGedeckt == Spec => []PubNichtUeberReferenz
  <1>1. PubInv => PubNichtUeberReferenz
    BY DEF PubInv
  <1>2. QED
    BY <1>1, PubAnfang, PubSchritt, PTL DEF Spec

\* The retained reading falls only after a correction or a lost reading.
THEOREM PubFaelltNie == Spec => PubFaelltNurMitGrund
  <1> DEFINE Gestiegen(k) ==
        pub[k] # None /\ pub'[k] # pub[k] /\ ~fallErlaubt[k]
            => pub'[k] # None /\ pub'[k] > pub[k]
             A == \A k \in Keys : Gestiegen(k)
  <1>1. PubInv /\ [Next]_vars => [A]_vars
    <2> SUFFICES ASSUME PubInv, Next, NEW k \in Keys,
                        pub[k] # None, pub'[k] # pub[k], ~fallErlaubt[k]
                 PROVE  pub'[k] # None /\ pub'[k] > pub[k]
      OBVIOUS
    <2>1. StatePublizieren
      BY DEF Next, Empfangen, Erstwert, ErstwertNull, Anstieg, Sprung,
             Monotonie, Selbstheilung, StandMerken, Verwerfen, RawPublizieren,
             PublizierenScheitert, Herunterfahren, PipelineStop, Absturz,
             Start, Tick, UhrZurueck, broker
    <2>2. k = sendung.key /\ pub'[k] = cache[k]
      BY <2>1 DEF StatePublizieren, PubInv, SendungIstReferenz, TypeOK
    <2>3. cache[k] \in Wert /\ sendung.wert = cache[k]
      BY <2>1, <2>2, Konstanten
         DEF StatePublizieren, PubInv, SendungIstReferenz, TypeOK, Sendung
    <2>4. cache[k] # None
      BY <2>3, Konstanten DEF Wert
    <2>5. pub[k] <= cache[k]
      BY <2>4 DEF PubInv, PubNichtUeberReferenz, Referenz
    <2>6. pub[k] \in Wert
      BY DEF PubInv, TypeOK
    <2>7. QED
      BY <2>2, <2>3, <2>4, <2>5, <2>6 DEF Wert
  <1>2. QED
    BY <1>1, PubAnfang, PubSchritt, PTL DEF Spec, PubFaelltNurMitGrund

-----------------------------------------------------------------------------
(* No meter drops out of the file *)

\* A process that runs knows every meter of the file, unless it could not read
\* the file and has not heard the meter.
SpeicherKennt ==
    phase \in {"up", "saved"} =>
        \A k \in Keys : diskWert[k] # None => wert[k] # None \/ k \in ungelesen

\* So a save leaves out no other meter.
BehaltenSchritt ==
    \A k \in Keys : diskWert[k] # None /\ diskWert'[k] = None => k \in ungelesen

LEMMA EmpfangenBehaelt ==
    ASSUME TypeOK, SpeicherKennt, NEW k \in Keys, NEW v \in Wert, NEW at \in Zeit,
           Empfangen(k, v, at)
    PROVE  SpeicherKennt' /\ BehaltenSchritt
  <1>1. CASE Verwerfen(k)
    BY <1>1 DEF Verwerfen, speicher, platte, SpeicherKennt, BehaltenSchritt
  <1>2. CASE StandMerken(k, v, at)
    <2>1. wert' = [wert EXCEPT ![k] = v] /\ v # None /\ phase \in {"up", "saved"}
      BY <1>2, Konstanten DEF StandMerken, Wert, Empfangen
    <2>2. ungelesen' = ungelesen \ {k}
      BY <1>2 DEF StandMerken
    <2>3. \A j \in Keys : diskWert[j] # None => wert'[j] # None \/ j \in ungelesen'
      BY <2>1, <2>2 DEF SpeicherKennt, TypeOK
    <2>4. diskWert' = diskWert \/ diskWert' = wert'
      BY <1>2 DEF StandMerken, SaveIfDue, Sichern, platte
    <2>5. QED
      BY <2>2, <2>3, <2>4 DEF SpeicherKennt, BehaltenSchritt
  <1>3. QED
    BY <1>1, <1>2 DEF Empfangen, Erstwert, ErstwertNull, Anstieg, Sprung,
                      Monotonie, Selbstheilung

LEMMA BehaltenJeder ==
    ASSUME TypeOK, SpeicherKennt, [Next]_vars
    PROVE  SpeicherKennt' /\ BehaltenSchritt
  <1>1. ASSUME NEW k \in Keys, NEW v \in Wert, NEW at \in EmpfangsZeiten,
               Empfangen(k, v, at)
        PROVE  SpeicherKennt' /\ BehaltenSchritt
    BY <1>1, EmpfangenBehaelt DEF EmpfangsZeiten
  <1>2. CASE RawPublizieren \/ StatePublizieren \/ PublizierenScheitert
             \/ Tick \/ UhrZurueck \/ UNCHANGED vars
    BY <1>2 DEF RawPublizieren, StatePublizieren, PublizierenScheitert, Tick,
        UhrZurueck, vars, speicher, platte, SpeicherKennt, BehaltenSchritt
  <1>3. CASE Herunterfahren
    BY <1>3 DEF Herunterfahren, Sichern, platte, SpeicherKennt, BehaltenSchritt
  <1>4. CASE PipelineStop \/ Absturz
    BY <1>4 DEF PipelineStop, Absturz, speicher, platte, SpeicherKennt, BehaltenSchritt
  <1>5. CASE Start
    BY <1>5 DEF Start, platte, SpeicherKennt, BehaltenSchritt
  <1>6. QED
    BY <1>1, <1>2, <1>3, <1>4, <1>5 DEF Next

\* DateiVergisstNicht: over any crashes, failing loads and saves, healings and
\* clock changes, only a process that could not read the file lets a meter drop
\* out of it, and only one it has not heard (energy_state.py, save and load).
THEOREM DateiBehaelt == Spec => DateiVergisstNicht
  <1>1. Init => SpeicherKennt
    BY DEF Init, Leer, SpeicherKennt
  <1>2. TypeOK /\ SpeicherKennt /\ [Next]_vars => SpeicherKennt'
    BY BehaltenJeder
  <1>3. TypeOK /\ SpeicherKennt /\ [Next]_vars => [BehaltenSchritt]_vars
    BY BehaltenJeder
  <1>4. DateiVergisstNicht <=> [][BehaltenSchritt]_vars
    BY DEF DateiVergisstNicht, BehaltenSchritt
  <1>5. QED
    BY <1>1, <1>2, <1>3, <1>4, TypKorrekt, PTL DEF Spec
=============================================================================
