------------------------ MODULE DeviceRegistryProofs ------------------------
(***************************************************************************)
(* For any devices, channels and sender ids: no telegram misses a channel  *)
(* of the registry, and, as long as no handler changed a device in place,  *)
(* none reaches what is gone.  The file differs from the registry only     *)
(* while a save has failed.                                                *)
(***************************************************************************)
EXTENDS DeviceRegistry, TLAPS

-----------------------------------------------------------------------------
(* The index operators *)

\* What a channel has in an index is a set of sender ids.
LEMMA SchluesselTyp ==
    ASSUME NEW k \in Kanal, NEW a \in Arten
    PROVE  Schluessel(a, k) \subseteq Ids
<1>1. k.rx \in Ids \cup {None} /\ k.tx \in Ids \cup {None}
      /\ k.inaktiv \subseteq Ids /\ k.beob \subseteq Ids
  BY DEF Kanal
<1> QED
  BY <1>1 DEF Schluessel, Arten

\* An object has a list of channels and a number.
LEMMA ObjektTyp ==
    ASSUME NEW o \in Objekt
    PROVE  /\ o.nr \in 0..MaxObjekte
           /\ o.kanaele \in KanalListe
           /\ Kanaele(o) \subseteq KanalIds
           /\ \A c \in Kanaele(o) : o.kanaele[c] \in Kanal
           /\ o.kanaele \in [Kanaele(o) -> Kanal]
<1>1. o.nr \in 0..MaxObjekte /\ o.kanaele \in KanalListe
  BY DEF Objekt
<1>2. PICK K \in SUBSET KanalIds : o.kanaele \in [K -> Kanal]
  BY <1>1 DEF KanalListe
<1>3. Kanaele(o) = K
  BY <1>2 DEF Kanaele
<1> QED
  BY <1>1, <1>2, <1>3

\* What the index holds of an object is of its device and well formed.
LEMMA EintraegeTyp ==
    ASSUME NEW o \in Objekt, NEW d \in GeraeteIds, NEW a, NEW i
    PROVE  /\ Eintraege(a, i, d, o) \in SUBSET IndexEintrag
           /\ \A e \in Eintraege(a, i, d, o) : e.geraet = d
           /\ \A e \in Eintraege(a, i, d, o) : HatSchluessel(a, i, o)
<1>1. \A c \in Kanaele(o) : c \in KanalIds
  BY ObjektTyp
<1>2. \A c : Eintrag(d, c, o).geraet = d
  BY DEF Eintrag
<1>3. \A c \in Kanaele(o) : Eintrag(d, c, o) \in IndexEintrag
  BY <1>1, ObjektTyp DEF Eintrag, IndexEintrag
<1> QED
  BY <1>2, <1>3 DEF Eintraege, HatSchluessel

IndexTyp == [Arten -> [Ids -> SUBSET IndexEintrag]]

\* What stands under an id once an object is entered.
LEMMA MitInhalt ==
    ASSUME NEW idx, NEW d, NEW o, NEW a \in Arten, NEW i \in Ids
    PROVE  Mit(idx, d, o)[a][i] = idx[a][i] \cup Eintraege(a, i, d, o)
BY DEF Mit

\* What stands under an id once an object is removed.
LEMMA OhneInhalt ==
    ASSUME NEW idx, NEW d, NEW o, NEW a \in Arten, NEW i \in Ids
    PROVE  Ohne(idx, d, o)[a][i] =
               IF HatSchluessel(a, i, o) THEN {e \in idx[a][i] : e.geraet # d}
                                         ELSE idx[a][i]
BY DEF Ohne

\* Both keep an index an index.
LEMMA IndexBleibt ==
    ASSUME NEW idx \in IndexTyp, NEW d \in GeraeteIds, NEW o
    PROVE  /\ Ohne(idx, d, o) \in IndexTyp
           /\ o \in Objekt => Mit(idx, d, o) \in IndexTyp
<1>0. \A a \in Arten, i \in Ids : idx[a][i] \in SUBSET IndexEintrag
  BY DEF IndexTyp
<1>1. Ohne(idx, d, o) \in IndexTyp
  <2>1. \A a \in Arten, i \in Ids :
            (IF HatSchluessel(a, i, o) THEN {e \in idx[a][i] : e.geraet # d}
                                       ELSE idx[a][i]) \in SUBSET IndexEintrag
    BY <1>0
  <2> QED
    BY <2>1 DEF IndexTyp, Ohne
<1>2. ASSUME o \in Objekt PROVE Mit(idx, d, o) \in IndexTyp
  <2>1. \A a \in Arten, i \in Ids :
            idx[a][i] \cup Eintraege(a, i, d, o) \in SUBSET IndexEintrag
    BY <1>0, <1>2, EintraegeTyp
  <2> QED
    BY <2>1 DEF IndexTyp, Mit
<1> QED
  BY <1>1, <1>2

-----------------------------------------------------------------------------
(* The objects *)

\* The assumptions on the numbers.
LEMMA Zahlen == MaxObjekte \in Nat /\ Nutzlasten \subseteq KanalListe /\ Block \subseteq Ids
BY RegistryAssumption

\* An object without one of its channels is an object, and the channels left
\* are unchanged.
LEMMA OhneKanalTyp ==
    ASSUME NEW o \in Objekt, NEW c
    PROVE  /\ OhneKanal(o, c) \in Objekt
           /\ OhneKanal(o, c).nr = o.nr
           /\ Kanaele(OhneKanal(o, c)) = Kanaele(o) \ {c}
           /\ \A k \in Kanaele(o) \ {c} : OhneKanal(o, c).kanaele[k] = o.kanaele[k]
<1> DEFINE K == Kanaele(o) \ {c}
           f == [k \in K |-> o.kanaele[k]]
           n == [o EXCEPT !.kanaele = f]
<1>0. K \subseteq KanalIds /\ f \in [K -> Kanal]
  BY ObjektTyp
<1>1. f \in KanalListe
  BY <1>0 DEF KanalListe
<1>2. DOMAIN f = K /\ \A k \in K : f[k] = o.kanaele[k]
  OBVIOUS
<1>3. OhneKanal(o, c) = n
  BY DEF OhneKanal
<1> HIDE DEF f, K
<1>4. n \in Objekt /\ n.nr = o.nr /\ n.kanaele = f
  BY <1>1 DEF Objekt
<1>5. Kanaele(n) = K
  BY <1>2, <1>4 DEF Kanaele
<1> QED
  BY <1>2, <1>3, <1>4, <1>5 DEF K

\* An object with one channel set up for sending is an object.
LEMMA EingerichtetTyp ==
    ASSUME NEW o \in Objekt, NEW c \in Kanaele(o), o.kanaele[c].rx # None
    PROVE  Eingerichtet(o, c) \in Objekt
<1> DEFINE Felder == [rx : Ids \cup {None}, tx : Ids \cup {None},
                      inaktiv : SUBSET Ids, beob : SUBSET Ids]
           k1 == [o.kanaele[c] EXCEPT !.tx = o.kanaele[c].rx]
           k2 == [k1 EXCEPT !.inaktiv = {}]
           k3 == [k2 EXCEPT !.rx = None]
           f == [o.kanaele EXCEPT ![c] = k3]
           n == [o EXCEPT !.kanaele = f]
<1>0. /\ o.kanaele \in [Kanaele(o) -> Kanal] /\ Kanaele(o) \subseteq KanalIds
      /\ o.kanaele[c] \in Kanal
  BY ObjektTyp
<1>1. o.kanaele[c] \in Felder
  BY <1>0 DEF Kanal
<1>2. k3 \in Kanal
  <2>1. k1 \in Felder /\ k1.tx # None
    BY <1>1
  <2>2. k2 \in Felder /\ k2.tx # None /\ k2.inaktiv = {}
    <3> HIDE DEF k1
    <3> QED
      BY <2>1
  <2>3. k3 \in Felder /\ k3.tx # None /\ k3.inaktiv = {}
    <3> HIDE DEF k2
    <3> QED
      BY <2>2
  <2> HIDE DEF k3
  <2> QED
    BY <2>3 DEF Kanal
<1>3. Eingerichtet(o, c) = n
  BY <1>0 DEF Eingerichtet, Kanal, Objekt
<1> HIDE DEF k3
<1>4. f \in [Kanaele(o) -> Kanal]
  BY <1>0, <1>2
<1>5. f \in KanalListe
  BY <1>0, <1>4 DEF KanalListe
<1> HIDE DEF f
<1>6. n \in Objekt
  BY <1>5 DEF Objekt
<1> QED
  BY <1>3, <1>6

\* A new object is an object.
LEMMA NeuesObjektTyp ==
    ASSUME objekte \in 0..MaxObjekte, objekte < MaxObjekte, NEW ks \in KanalListe
    PROVE  NeuesObjekt(ks) \in Objekt
<1>1. objekte + 1 \in 0..MaxObjekte
  BY Zahlen
<1> QED
  BY <1>1 DEF NeuesObjekt, Objekt

\* What is written to the file is what the objects hold.
LEMMA GespeichertTyp ==
    ASSUME geraete' \in [GeraeteIds -> Objekt \cup {None}], Gespeichert
    PROVE  datei' \in [GeraeteIds -> KanalListe \cup {None}] /\ ungesichert' \in BOOLEAN
<1>1. \A d \in GeraeteIds :
          (IF geraete'[d] = None THEN None ELSE geraete'[d].kanaele) \in KanalListe \cup {None}
  <2>1. \A o \in Objekt : o.kanaele \in KanalListe
    BY ObjektTyp
  <2> QED
    BY <2>1
<1> QED
  BY <1>1 DEF Gespeichert, Inhalt

\* What is stored of the observed senders is of the block.
LEMMA BeobTyp ==
    ASSUME BeobSichern, beobDatei \subseteq Block, beobachtet' \subseteq Block
    PROVE  beobDatei' \subseteq Block
BY DEF BeobSichern

-----------------------------------------------------------------------------
(* upsert *)

LEMMA UpsertTyp ==
    ASSUME TypeOK, NEW d \in GeraeteIds, NEW alt, NEW neu \in Objekt,
           Upsert(d, alt, neu)
    PROVE  /\ geraete' \in [GeraeteIds -> Objekt \cup {None}]
           /\ index' \in [Arten -> [Ids -> SUBSET IndexEintrag]]
<1>1. index \in IndexTyp
  BY DEF TypeOK, IndexTyp
<1>2. (IF alt = None THEN index ELSE Ohne(index, d, alt)) \in IndexTyp
  BY <1>1, IndexBleibt
<1>3. index' \in IndexTyp
  BY <1>2, IndexBleibt DEF Upsert
<1> QED
  BY <1>3 DEF IndexTyp, Upsert, TypeOK

\* What stands under an id after upsert: the entries of the new object, and
\* all that stood there of other devices.
LEMMA UpsertInhalt ==
    ASSUME NEW d \in GeraeteIds, NEW alt, NEW neu, Upsert(d, alt, neu),
           NEW a \in Arten, NEW i \in Ids
    PROVE  /\ Eintraege(a, i, d, neu) \subseteq index'[a][i]
           /\ \A e \in index[a][i] : e.geraet # d => e \in index'[a][i]
           /\ \A e \in index'[a][i] :
                 \/ e \in Eintraege(a, i, d, neu)
                 \/ /\ e \in index[a][i]
                    /\ e.geraet = d => alt = None \/ ~HatSchluessel(a, i, alt)
<1> DEFINE zwischen == IF alt = None THEN index ELSE Ohne(index, d, alt)
<1>1. index'[a][i] = zwischen[a][i] \cup Eintraege(a, i, d, neu)
  <2>1. index' = Mit(zwischen, d, neu)
    BY DEF Upsert
  <2> HIDE DEF zwischen
  <2> QED
    BY <2>1, MitInhalt
<1>2. CASE alt = None
  <2>1. zwischen[a][i] = index[a][i]
    BY <1>2
  <2> QED
    BY <1>1, <1>2, <2>1
<1>3. CASE alt # None
  <2>1. zwischen[a][i] = IF HatSchluessel(a, i, alt)
                         THEN {e \in index[a][i] : e.geraet # d} ELSE index[a][i]
    <3>1. zwischen = Ohne(index, d, alt)
      BY <1>3
    <3> HIDE DEF zwischen
    <3> QED
      BY <3>1, OhneInhalt
  <2> HIDE DEF zwischen
  <2> QED
    BY <1>1, <2>1
<1> QED
  BY <1>2, <1>3

LEMMA UpsertVollstaendig ==
    ASSUME TypeOK, IndexVollstaendig, NEW d \in GeraeteIds, NEW alt, NEW neu,
           Upsert(d, alt, neu)
    PROVE  IndexVollstaendig'
<1>1. SUFFICES ASSUME NEW a \in Arten, NEW g \in Registriert', NEW i \in Ids
               PROVE  Eintraege(a, i, g, geraete'[g]) \subseteq index'[a][i]
  BY DEF IndexVollstaendig
<1>2. g \in GeraeteIds /\ geraete'[g] # None
  BY DEF Registriert
<1>3. CASE g = d
  <2>1. geraete'[g] = neu
    BY <1>3 DEF Upsert, TypeOK
  <2> QED
    BY <1>3, <2>1, UpsertInhalt
<1>4. CASE g # d
  <2>1. geraete'[g] = geraete[g]
    BY <1>2, <1>4 DEF Upsert, TypeOK
  <2>2. geraete[g] \in Objekt /\ g \in Registriert
    BY <1>2, <2>1 DEF TypeOK, Registriert
  <2>3. Eintraege(a, i, g, geraete[g]) \subseteq index[a][i]
    BY <2>2 DEF IndexVollstaendig
  <2>4. \A e \in Eintraege(a, i, g, geraete[g]) : e.geraet # d
    BY <1>2, <1>4, <2>2, EintraegeTyp
  <2> QED
    BY <2>1, <2>3, <2>4, UpsertInhalt
<1> QED
  BY <1>3, <1>4

\* The object that leaves the index is the registered one, or the device
\* counts as changed in place.
LEMMA UpsertGenau ==
    ASSUME TypeOK, IndexGenau, NEW d \in GeraeteIds, NEW alt, NEW neu \in Objekt,
           Upsert(d, alt, neu), imPlatz \subseteq imPlatz',
           alt = geraete[d] \/ d \in imPlatz'
    PROVE  IndexGenau'
<1>1. SUFFICES ASSUME NEW a \in Arten, NEW i \in Ids, NEW e \in index'[a][i],
                      e.geraet \notin imPlatz'
               PROVE  /\ e.geraet \in Registriert'
                      /\ e \in Eintraege(a, i, e.geraet, geraete'[e.geraet])
  BY DEF IndexGenau
<1>2. geraete'[d] = neu /\ \A g \in GeraeteIds \ {d} : geraete'[g] = geraete[g]
  BY DEF Upsert, TypeOK
<1>3. CASE e \in Eintraege(a, i, d, neu)
  <2>1. e.geraet = d
    BY <1>3, EintraegeTyp
  <2> QED
    BY <1>2, <1>3, <2>1, RegistryAssumption DEF Registriert
<1>4. CASE e \in index[a][i] /\ (e.geraet = d => alt = None \/ ~HatSchluessel(a, i, alt))
  <2>1. e.geraet \in Registriert /\ e \in Eintraege(a, i, e.geraet, geraete[e.geraet])
    BY <1>1, <1>4 DEF IndexGenau
  <2>2. e.geraet \in GeraeteIds /\ geraete[e.geraet] # None
        /\ geraete[e.geraet] \in Objekt
    BY <2>1 DEF Registriert, TypeOK
  <2>3. HatSchluessel(a, i, geraete[e.geraet])
    BY <2>1, <2>2, EintraegeTyp
  <2>4. e.geraet # d
    BY <1>1, <1>4, <2>2, <2>3
  <2> QED
    BY <1>2, <2>1, <2>2, <2>4 DEF Registriert
<1> QED
  BY <1>3, <1>4, UpsertInhalt

-----------------------------------------------------------------------------
(* The start *)

\* Nothing is registered.
LEMMA InitTyp == Init => TypeOK
<1> SUFFICES ASSUME Init PROVE TypeOK
  OBVIOUS
<1>1. index \in [Arten -> [Ids -> SUBSET IndexEintrag]]
  BY DEF Init
<1>2. geraete \in [GeraeteIds -> Objekt \cup {None}]
      /\ datei \in [GeraeteIds -> KanalListe \cup {None}]
  BY DEF Init
<1>3. ungesichert \in BOOLEAN
  BY DEF Init
<1>4. /\ beobachtet \subseteq Block /\ beobDatei \subseteq Block
      /\ objekte \in 0..MaxObjekte /\ imPlatz \subseteq GeraeteIds
  BY Zahlen DEF Init
<1> QED
  BY <1>1, <1>2, <1>3, <1>4 DEF TypeOK

\* What a process that starts finds in the file and what it makes of it.
LEMMA StartTyp ==
    ASSUME TypeOK, Neustart
    PROVE  /\ geraete' \in [GeraeteIds -> Objekt \cup {None}]
           /\ index' \in [Arten -> [Ids -> SUBSET IndexEintrag]]
           /\ \A a \in Arten, i \in Ids :
                 index'[a][i] = UNION {Eintraege(a, i, d, geraete'[d]) : d \in Registriert'}
<1>1. \A d \in GeraeteIds :
          (IF datei[d] = None THEN None ELSE [nr |-> 0, kanaele |-> datei[d]])
              \in Objekt \cup {None}
  BY Zahlen DEF TypeOK, Objekt
<1>2. geraete' \in [GeraeteIds -> Objekt \cup {None}]
  BY <1>1 DEF Neustart
<1> DEFINE alle(a, i) == UNION {Eintraege(a, i, d, geraete'[d]) : d \in Registriert'}
<1>3. index' = [a \in Arten |-> [i \in Ids |-> alle(a, i)]]
  BY DEF Neustart
<1>4. \A d \in Registriert' : d \in GeraeteIds /\ geraete'[d] \in Objekt
  BY <1>2 DEF Registriert
<1>5. \A a, i : alle(a, i) \in SUBSET IndexEintrag
  BY <1>4, EintraegeTyp
<1>6. \A a \in Arten, i \in Ids : index'[a][i] = alle(a, i)
  <2> HIDE DEF alle
  <2> QED
    BY <1>3
<1>7. index' \in [Arten -> [Ids -> SUBSET IndexEintrag]]
  <2> HIDE DEF alle
  <2> QED
    BY <1>3, <1>5
<1> QED
  BY <1>2, <1>6, <1>7

LEMMA StartIndex ==
    ASSUME TypeOK, Neustart
    PROVE  IndexVollstaendig' /\ IndexGenau'
<1>1. \A d \in Registriert' : d \in GeraeteIds /\ geraete'[d] \in Objekt
  BY StartTyp DEF Registriert
<1>2. IndexVollstaendig'
  BY StartTyp DEF IndexVollstaendig
<1>3. ASSUME NEW a \in Arten, NEW i \in Ids, NEW e \in index'[a][i]
      PROVE  /\ e.geraet \in Registriert'
             /\ e \in Eintraege(a, i, e.geraet, geraete'[e.geraet])
  <2>1. PICK d \in Registriert' : e \in Eintraege(a, i, d, geraete'[d])
    BY <1>3, StartTyp
  <2>2. e.geraet = d
    BY <1>1, <2>1, EintraegeTyp
  <2> QED
    BY <2>1, <2>2
<1> QED
  BY <1>2, <1>3 DEF IndexGenau

-----------------------------------------------------------------------------
(* Type correctness *)

LEMMA TypSpeichern ==
    ASSUME TypeOK, NEW d \in GeraeteIds, NEW ks \in Nutzlasten, GeraetSpeichern(d, ks)
    PROVE  TypeOK'
<1> DEFINE neu == NeuesObjekt(ks)
<1>1. /\ objekte < MaxObjekte /\ objekte' = objekte + 1
      /\ Upsert(d, geraete[d], neu)
      /\ \/ Gespeichert /\ beobachtet' = beobachtet \ Bindungen(neu) /\ BeobSichern
         \/ SaveScheitert /\ UNCHANGED <<beobachtet, beobDatei>>
      /\ UNCHANGED imPlatz
  BY DEF GeraetSpeichern
<1>2. neu \in Objekt
  BY <1>1, Zahlen, NeuesObjektTyp DEF TypeOK
<1> HIDE DEF neu
<1>3. /\ geraete' \in [GeraeteIds -> Objekt \cup {None}]
      /\ index' \in [Arten -> [Ids -> SUBSET IndexEintrag]]
  BY <1>1, <1>2, UpsertTyp
<1>4. datei' \in [GeraeteIds -> KanalListe \cup {None}] /\ ungesichert' \in BOOLEAN
  BY <1>1, <1>3, GespeichertTyp DEF TypeOK, SaveScheitert
<1>5. beobachtet' \subseteq Block /\ beobDatei' \subseteq Block
  BY <1>1, BeobTyp DEF TypeOK
<1>6. objekte' \in 0..MaxObjekte
  BY <1>1, Zahlen DEF TypeOK
<1> QED
  BY <1>1, <1>3, <1>4, <1>5, <1>6 DEF TypeOK

LEMMA TypLoeschen ==
    ASSUME TypeOK, NEW d \in GeraeteIds, GeraetLoeschen(d)
    PROVE  TypeOK'
<1>1. index \in IndexTyp
  BY DEF TypeOK, IndexTyp
<1>2. index' \in [Arten -> [Ids -> SUBSET IndexEintrag]]
  BY <1>1, IndexBleibt DEF GeraetLoeschen, IndexTyp
<1>3. geraete' \in [GeraeteIds -> Objekt \cup {None}]
  BY DEF TypeOK, GeraetLoeschen
<1>4. datei' \in [GeraeteIds -> KanalListe \cup {None}] /\ ungesichert' \in BOOLEAN
  BY <1>3, GespeichertTyp DEF TypeOK, SaveScheitert, GeraetLoeschen
<1> QED
  BY <1>2, <1>3, <1>4 DEF TypeOK, GeraetLoeschen

LEMMA TypKanal ==
    ASSUME TypeOK, NEW d \in GeraeteIds, NEW c \in KanalIds,
           KanalLoeschen(d, c) \/ ZielEinrichten(d, c)
    PROVE  TypeOK'
<1>1. CASE KanalLoeschen(d, c)
  <2>1. OhneKanal(geraete[d], c) \in Objekt
    BY <1>1, OhneKanalTyp DEF TypeOK, KanalLoeschen
  <2>2. geraete' \in [GeraeteIds -> Objekt \cup {None}]
    BY <1>1, <2>1 DEF TypeOK, KanalLoeschen
  <2>3. datei' \in [GeraeteIds -> KanalListe \cup {None}] /\ ungesichert' \in BOOLEAN
    BY <1>1, <2>2, GespeichertTyp DEF TypeOK, SaveScheitert, KanalLoeschen
  <2> QED
    BY <1>1, <2>2, <2>3 DEF TypeOK, KanalLoeschen
<1>2. CASE ZielEinrichten(d, c)
  <2> DEFINE neu == Eingerichtet(geraete[d], c)
  <2>1. geraete[d] \in Objekt /\ c \in Kanaele(geraete[d])
        /\ geraete[d].kanaele[c].rx # None
    BY <1>2 DEF TypeOK, ZielEinrichten
  <2>2. neu \in Objekt /\ Upsert(d, neu, neu)
    BY <1>2, <2>1, EingerichtetTyp DEF ZielEinrichten
  <2> HIDE DEF neu
  <2>3. /\ geraete' \in [GeraeteIds -> Objekt \cup {None}]
        /\ index' \in [Arten -> [Ids -> SUBSET IndexEintrag]]
    BY <2>2, UpsertTyp
  <2>4. datei' \in [GeraeteIds -> KanalListe \cup {None}] /\ ungesichert' \in BOOLEAN
    BY <1>2, <2>3, GespeichertTyp DEF TypeOK, SaveScheitert, ZielEinrichten
  <2> QED
    BY <1>2, <2>3, <2>4 DEF TypeOK, ZielEinrichten
<1> QED
  BY <1>1, <1>2

LEMMA TypRest ==
    ASSUME TypeOK,
           \/ \E i \in Ids : Empfang(i) \/ Vergessen(i)
           \/ Aufraeumen \/ Neustart
    PROVE  TypeOK'
<1>1. ASSUME NEW i \in Ids, Empfang(i) PROVE TypeOK'
  <2>1. beobachtet' \subseteq Block
    BY <1>1 DEF TypeOK, Empfang
  <2> QED
    BY <1>1, <2>1, BeobTyp DEF TypeOK, Empfang
<1>2. ASSUME NEW i \in Ids, Vergessen(i) PROVE TypeOK'
  <2>1. beobachtet' \subseteq Block
    BY <1>2 DEF TypeOK, Vergessen
  <2> QED
    BY <1>2, <2>1, BeobTyp DEF TypeOK, Vergessen
<1>3. CASE Aufraeumen
  <2>1. beobachtet' \subseteq Block
    BY <1>3 DEF TypeOK, Aufraeumen
  <2> QED
    BY <1>3, <2>1, BeobTyp DEF TypeOK, Aufraeumen
<1>4. CASE Neustart
  <2>1. beobachtet' \subseteq Block
    BY <1>4 DEF TypeOK, Neustart
  <2>2. beobDatei' \subseteq Block
    BY <1>4, <2>1, BeobTyp DEF TypeOK, Neustart
  <2>3. ungesichert' \in BOOLEAN
    BY <1>4 DEF Neustart
  <2>4. objekte' \in 0..MaxObjekte /\ imPlatz' \subseteq GeraeteIds
        /\ datei' \in [GeraeteIds -> KanalListe \cup {None}]
    BY <1>4, Zahlen DEF TypeOK, Neustart
  <2> QED
    BY <1>4, <2>1, <2>2, <2>3, <2>4, StartTyp DEF TypeOK
<1> QED
  BY <1>1, <1>2, <1>3, <1>4

\* TypeOK holds for any devices, channels and ids: every entry of an index
\* names a device, a channel and an object, and both files hold what the
\* registry can have held (devices.py, observed_senders.py).
THEOREM TypKorrekt == Spec => []TypeOK
<1>1. Init => TypeOK
  BY InitTyp
<1>2. TypeOK /\ [Next]_vars => TypeOK'
  <2>1. ASSUME TypeOK, Next PROVE TypeOK'
    BY <2>1, TypSpeichern, TypLoeschen, TypKanal, TypRest DEF Next
  <2>2. ASSUME TypeOK, UNCHANGED vars PROVE TypeOK'
    BY <2>2 DEF TypeOK, vars
  <2> QED
    BY <2>1, <2>2
<1> QED
  BY <1>1, <1>2, PTL DEF Spec

-----------------------------------------------------------------------------
(* The file against the registry *)

\* After a save the file holds what the registry holds; after a failed one it is
\* known to differ.
LEMMA NachSave ==
    ASSUME Gespeichert \/ SaveScheitert
    PROVE  DateiWieRegister'
BY DEF Gespeichert, SaveScheitert, DateiWieRegister, Inhalt

\* What a start makes of the file is what the file holds.
LEMMA NachStart ==
    ASSUME TypeOK, Neustart
    PROVE  DateiWieRegister'
<1>1. datei' = datei /\ datei \in [GeraeteIds -> KanalListe \cup {None}]
  BY DEF TypeOK, Neustart
<1>2. ASSUME NEW d \in GeraeteIds
      PROVE  datei[d] = IF geraete'[d] = None THEN None ELSE geraete'[d].kanaele
  <2>1. CASE datei[d] = None
    BY <2>1 DEF Neustart
  <2>2. CASE datei[d] # None
    <3> DEFINE o == [nr |-> 0, kanaele |-> datei[d]]
    <3>1. o \in Objekt
      BY <1>1, <2>2, Zahlen DEF Objekt
    <3>2. geraete'[d] = o /\ o.kanaele = datei[d]
      BY <2>2 DEF Neustart
    <3> HIDE DEF o
    <3> QED
      BY <3>1, <3>2, RegistryAssumption
  <2> QED
    BY <2>1, <2>2
<1>3. datei = Inhalt(geraete')
  BY <1>1, <1>2 DEF Inhalt
<1> QED
  BY <1>1, <1>3 DEF DateiWieRegister, Inhalt

\* DateiWieRegister: every handler saves what it has changed, and after its last
\* change (create_device, update_device, delete_device, delete_channel,
\* heizung_ziel_einrichten), for any devices, failing saves and restarts.
THEOREM NichtsVerschwindet == Spec => []DateiWieRegister
<1>1. Init => DateiWieRegister
  BY DEF Init, DateiWieRegister, Inhalt
<1>2. TypeOK /\ DateiWieRegister /\ [Next]_vars => DateiWieRegister'
  <2> SUFFICES ASSUME TypeOK, DateiWieRegister, [Next]_vars PROVE DateiWieRegister'
    OBVIOUS
  <2>1. ASSUME UNCHANGED <<geraete, datei, ungesichert>> PROVE DateiWieRegister'
    BY <2>1 DEF DateiWieRegister, Inhalt
  <2>2. CASE UNCHANGED vars
    BY <2>1, <2>2 DEF vars
  <2>3. ASSUME NEW d \in GeraeteIds, NEW ks \in Nutzlasten, GeraetSpeichern(d, ks)
        PROVE  DateiWieRegister'
    BY <2>3, NachSave DEF GeraetSpeichern
  <2>4. ASSUME NEW d \in GeraeteIds, GeraetLoeschen(d) PROVE DateiWieRegister'
    BY <2>4, NachSave DEF GeraetLoeschen
  <2>5. ASSUME NEW d \in GeraeteIds, NEW c \in KanalIds,
               KanalLoeschen(d, c) \/ ZielEinrichten(d, c)
        PROVE  DateiWieRegister'
    BY <2>5, NachSave DEF KanalLoeschen, ZielEinrichten
  <2>6. ASSUME NEW i \in Ids, Empfang(i) \/ Vergessen(i) PROVE DateiWieRegister'
    BY <2>1, <2>6 DEF Empfang, Vergessen
  <2>7. CASE Aufraeumen
    BY <2>1, <2>7 DEF Aufraeumen
  <2> QED
    BY <2>2, <2>3, <2>4, <2>5, <2>6, <2>7, NachStart DEF Next
<1> QED
  BY <1>1, <1>2, TypKorrekt, PTL DEF Spec

-----------------------------------------------------------------------------
(* The index against the registry *)

\* The parts of the invariant that are about the index.
Stimmig == IndexVollstaendig /\ IndexGenau

LEMMA StimmigSpeichern ==
    ASSUME TypeOK, Stimmig, NEW d \in GeraeteIds, NEW ks \in Nutzlasten,
           GeraetSpeichern(d, ks)
    PROVE  Stimmig'
<1> DEFINE neu == NeuesObjekt(ks)
<1>1. objekte < MaxObjekte /\ Upsert(d, geraete[d], neu) /\ imPlatz' = imPlatz
  BY DEF GeraetSpeichern
<1>2. neu \in Objekt
  BY <1>1, Zahlen, NeuesObjektTyp DEF TypeOK
<1> HIDE DEF neu
<1> QED
  BY <1>1, <1>2, UpsertVollstaendig, UpsertGenau DEF Stimmig

LEMMA StimmigLoeschen ==
    ASSUME TypeOK, Stimmig, NEW d \in GeraeteIds, GeraetLoeschen(d)
    PROVE  Stimmig'
<1>0. geraete'[d] = None /\ (\A g \in GeraeteIds \ {d} : geraete'[g] = geraete[g])
      /\ imPlatz' = imPlatz /\ index' = Ohne(index, d, geraete[d])
      /\ geraete[d] # None
  BY DEF GeraetLoeschen, TypeOK
<1>1. Registriert' = Registriert \ {d}
  BY <1>0 DEF Registriert
<1>2. \A a \in Arten, i \in Ids :
          index'[a][i] = IF HatSchluessel(a, i, geraete[d])
                         THEN {e \in index[a][i] : e.geraet # d} ELSE index[a][i]
  <2>1. SUFFICES ASSUME NEW a \in Arten, NEW i \in Ids
                 PROVE  index'[a][i] = IF HatSchluessel(a, i, geraete[d])
                            THEN {e \in index[a][i] : e.geraet # d} ELSE index[a][i]
    OBVIOUS
  <2>2. Ohne(index, d, geraete[d])[a][i] = IF HatSchluessel(a, i, geraete[d])
            THEN {e \in index[a][i] : e.geraet # d} ELSE index[a][i]
    BY OhneInhalt
  <2> QED
    BY <1>0, <2>2
<1>3. \A g \in Registriert : g \in GeraeteIds /\ geraete[g] \in Objekt
  BY DEF Registriert, TypeOK
<1>4. IndexVollstaendig'
  <2>1. SUFFICES ASSUME NEW a \in Arten, NEW g \in Registriert \ {d}, NEW i \in Ids
                 PROVE  Eintraege(a, i, g, geraete[g]) \subseteq index'[a][i]
    BY <1>0, <1>1, <1>3 DEF IndexVollstaendig
  <2>2. \A e \in Eintraege(a, i, g, geraete[g]) : e.geraet # d
    BY <1>3, EintraegeTyp
  <2>3. Eintraege(a, i, g, geraete[g]) \subseteq index[a][i]
    BY DEF Stimmig, IndexVollstaendig
  <2> QED
    BY <1>2, <2>2, <2>3
<1>5. IndexGenau'
  <2>1. SUFFICES ASSUME NEW a \in Arten, NEW i \in Ids, NEW e \in index'[a][i],
                        e.geraet \notin imPlatz
                 PROVE  /\ e.geraet \in Registriert'
                        /\ e \in Eintraege(a, i, e.geraet, geraete'[e.geraet])
    BY <1>0 DEF IndexGenau
  <2>2. e \in index[a][i] /\ (e.geraet = d => ~HatSchluessel(a, i, geraete[d]))
    BY <1>2
  <2>3. e.geraet \in Registriert /\ e \in Eintraege(a, i, e.geraet, geraete[e.geraet])
    BY <2>1, <2>2 DEF Stimmig, IndexGenau
  <2>4. e.geraet # d
    BY <1>3, <2>2, <2>3, EintraegeTyp
  <2> QED
    BY <1>0, <1>1, <1>3, <2>3, <2>4
<1> QED
  BY <1>4, <1>5 DEF Stimmig

\* The channel leaves the object alone: what the object has left was there
\* before, and the device counts as changed in place.
LEMMA StimmigKanalLoeschen ==
    ASSUME TypeOK, Stimmig, NEW d \in GeraeteIds, NEW c \in KanalIds,
           KanalLoeschen(d, c)
    PROVE  Stimmig'
<1> DEFINE o == geraete[d]
           n == OhneKanal(o, c)
<1>0. /\ geraete'[d] = n /\ (\A g \in GeraeteIds \ {d} : geraete'[g] = geraete[g])
      /\ imPlatz' = imPlatz \cup {d} /\ index' = index /\ o # None /\ o \in Objekt
  BY DEF KanalLoeschen, TypeOK
<1>1. \A a, i : Eintraege(a, i, d, n) \subseteq Eintraege(a, i, d, o)
  <2>1. /\ n.nr = o.nr /\ Kanaele(n) = Kanaele(o) \ {c}
        /\ \A k \in Kanaele(o) \ {c} : n.kanaele[k] = o.kanaele[k]
    BY <1>0, OhneKanalTyp
  <2>2. \A k : Eintrag(d, k, n) = Eintrag(d, k, o)
    BY <2>1 DEF Eintrag
  <2> HIDE DEF n, o
  <2> QED
    BY <2>1, <2>2 DEF Eintraege
<1>2. Registriert' \subseteq Registriert
  BY <1>0 DEF Registriert
<1> HIDE DEF n
<1>3. \A g \in Registriert : g \in GeraeteIds
  BY DEF Registriert
<1>4. IndexVollstaendig'
  <2>1. SUFFICES ASSUME NEW a \in Arten, NEW g \in Registriert', NEW i \in Ids
                 PROVE  Eintraege(a, i, g, geraete'[g]) \subseteq index[a][i]
    BY <1>0 DEF IndexVollstaendig
  <2>2. Eintraege(a, i, g, geraete[g]) \subseteq index[a][i]
    BY <1>2 DEF Stimmig, IndexVollstaendig
  <2>3. CASE g = d
    BY <1>0, <1>1, <2>2, <2>3
  <2>4. CASE g # d
    BY <1>0, <1>2, <1>3, <2>2, <2>4
  <2> QED
    BY <2>3, <2>4
<1>5. IndexGenau'
  <2>1. SUFFICES ASSUME NEW a \in Arten, NEW i \in Ids, NEW e \in index[a][i],
                        e.geraet \notin imPlatz \cup {d}
                 PROVE  /\ e.geraet \in Registriert'
                        /\ e \in Eintraege(a, i, e.geraet, geraete'[e.geraet])
    BY <1>0 DEF IndexGenau
  <2>2. e.geraet \in Registriert /\ e \in Eintraege(a, i, e.geraet, geraete[e.geraet])
    BY <2>1 DEF Stimmig, IndexGenau
  <2> QED
    BY <1>0, <1>3, <2>1, <2>2 DEF Registriert
<1> QED
  BY <1>4, <1>5 DEF Stimmig

LEMMA StimmigZiel ==
    ASSUME TypeOK, Stimmig, NEW d \in GeraeteIds, NEW c \in KanalIds,
           ZielEinrichten(d, c)
    PROVE  Stimmig'
<1> DEFINE neu == Eingerichtet(geraete[d], c)
<1>1. /\ geraete[d] \in Objekt /\ c \in Kanaele(geraete[d])
      /\ geraete[d].kanaele[c].rx # None
      /\ d \in imPlatz' /\ imPlatz \subseteq imPlatz'
  BY DEF TypeOK, ZielEinrichten
<1>2. neu \in Objekt /\ Upsert(d, neu, neu)
  BY <1>1, EingerichtetTyp DEF ZielEinrichten
<1> HIDE DEF neu
<1> QED
  BY <1>1, <1>2, UpsertVollstaendig, UpsertGenau DEF Stimmig

LEMMA StimmigSchritt ==
    ASSUME TypeOK, Stimmig, [Next]_vars
    PROVE  Stimmig'
<1>1. ASSUME UNCHANGED <<geraete, index, imPlatz>> PROVE Stimmig'
  BY <1>1 DEF Stimmig, IndexVollstaendig, IndexGenau, Registriert
<1>2. CASE UNCHANGED vars
  BY <1>1, <1>2 DEF vars
<1>3. ASSUME NEW i \in Ids, Empfang(i) \/ Vergessen(i) PROVE Stimmig'
  BY <1>1, <1>3 DEF Empfang, Vergessen
<1>4. CASE Aufraeumen
  BY <1>1, <1>4 DEF Aufraeumen
<1>5. CASE Neustart
  BY <1>5, StartIndex DEF Stimmig
<1> QED
  BY <1>2, <1>3, <1>4, <1>5, StimmigSpeichern, StimmigLoeschen,
     StimmigKanalLoeschen, StimmigZiel DEF Next

LEMMA StimmigImmer == Spec => []Stimmig
<1>1. Init => Stimmig
  <2> SUFFICES ASSUME Init PROVE Stimmig
    OBVIOUS
  <2>1. Registriert = {}
    BY DEF Init, Registriert
  <2>2. \A a \in Arten, i \in Ids : index[a][i] = {}
    BY DEF Init
  <2> QED
    BY <2>1, <2>2 DEF Stimmig, IndexVollstaendig, IndexGenau
<1>2. TypeOK /\ Stimmig /\ [Next]_vars => Stimmig'
  BY StimmigSchritt
<1> QED
  BY <1>1, <1>2, TypKorrekt, PTL DEF Spec

\* IndexVollstaendig: whatever devices share an id and in whatever order they
\* are saved, deleted, changed in place or loaded, a telegram finds every
\* channel that has its id (DeviceRegistry.upsert, delete, _remove_from_index).
THEOREM KeinTelegrammVerfehlt == Spec => []IndexVollstaendig
<1>1. Stimmig => IndexVollstaendig
  BY DEF Stimmig
<1> QED
  BY <1>1, StimmigImmer, PTL

\* IndexGenau: apart from devices changed in place since the start, an entry of
\* an index is of the registered object and of a channel that has the id
\* (DeviceRegistry.upsert, delete, _remove_from_index).
THEOREM KeinTelegrammFehlgeleitet == Spec => []IndexGenau
<1>1. Stimmig => IndexGenau
  BY DEF Stimmig
<1> QED
  BY <1>1, StimmigImmer, PTL
=============================================================================
