--------------------------- MODULE DeviceRegistry ---------------------------
(***************************************************************************)
(* The device registry (app/devices.py) with the web-UI handlers that      *)
(* change it (app/webui/server.py), the heating outlet set-up              *)
(* (app/heizausgang.py) and the observed senders of a gateway block        *)
(* (app/observed_senders.py).                                              *)
(*                                                                         *)
(* Every telegram is routed by three indices from sender id to channel.    *)
(* The indices hold references to Device OBJECTS; a handler that replaces  *)
(* a device brings a new object, others change the registered object in    *)
(* place.  Handlers have no await inside: each is one action.              *)
(***************************************************************************)
EXTENDS Naturals

CONSTANTS
    GeraeteIds,  \* device ids
    KanalIds,    \* channel ids
    Ids,         \* sender ids
    Block,       \* those of the gateway's block of 128
    Nutzlasten,  \* the channel lists a client may submit for a device
    SpeicherFehler, \* may the save of devices.yaml fail?
    MaxObjekte,  \* bound on the Device objects of a process
    None         \* Python's None

\* A channel; without an active binding it has no binding at all.
Kanal == {k \in [rx : Ids \cup {None},     \* enocean_id
                 tx : Ids \cup {None},     \* active_sender_id
                 inaktiv : SUBSET Ids,     \* inactive_sender_ids
                 beob : SUBSET Ids] :      \* observers
              IF k.tx = None THEN k.inaktiv = {} ELSE k.tx \notin k.inaktiv}

KanalListe == UNION {[K -> Kanal] : K \in SUBSET KanalIds}

\* A Device object; nr tells the objects of a device apart.
Objekt == [nr : 0..MaxObjekte, kanaele : KanalListe]

ASSUME RegistryAssumption ==
    /\ None \notin Ids \cup GeraeteIds \cup Objekt /\ Block \subseteq Ids
    /\ Nutzlasten \subseteq KanalListe
    /\ SpeicherFehler \in BOOLEAN /\ MaxObjekte \in Nat

VARIABLES
    geraete,      \* _devices: the object of a device, [nr, kanaele], or None
    index,        \* _by_sender_id, _by_pair_id, _by_observer_id
    datei,        \* devices.yaml
    beobachtet,   \* ObservedSenderRegistry._items of the gateway
    beobDatei,    \* observed_senders.yaml
    objekte,      \* Device objects made so far
    imPlatz,      \* history: devices changed in place since the last start
    ungesichert   \* history: the last save of devices.yaml has failed

vars == <<geraete, index, datei, beobachtet, beobDatei, objekte, imPlatz, ungesichert>>

Arten == {"sender", "pair", "observer"}

Init ==
    /\ geraete = [d \in GeraeteIds |-> None]
    /\ index = [a \in Arten |-> [i \in Ids |-> {}]]
    /\ datei = [d \in GeraeteIds |-> None]
    /\ beobachtet = {} /\ beobDatei = {}
    /\ objekte = 0 /\ imPlatz = {} /\ ungesichert = FALSE

-----------------------------------------------------------------------------
(* The three indices. *)

\* The keys under which a channel stands in an index.
Schluessel(a, k) ==
    CASE a = "sender" -> {k.rx} \ {None}
      [] a = "pair" -> {k.tx} \ {None}
      [] a = "observer" -> k.inaktiv \cup k.beob

Kanaele(o) == DOMAIN o.kanaele

Eintrag(d, c, o) == [geraet |-> d, kanal |-> c, nr |-> o.nr]

Eintraege(a, i, d, o) ==
    {Eintrag(d, c, o) : c \in {k \in Kanaele(o) : i \in Schluessel(a, o.kanaele[k])}}

HatSchluessel(a, i, o) == \E c \in Kanaele(o) : i \in Schluessel(a, o.kanaele[c])

\* Mutants: the key is dropped with the entries of all devices; the entries of
\* the object stay.
OhneFremde(idx, d, o) ==
    [a \in Arten |-> [i \in Ids |->
        IF HatSchluessel(a, i, o) THEN {} ELSE idx[a][i]]]
OhneNichts(idx, d, o) == idx

\* _remove_from_index: under each key the object's channels have NOW, every
\* entry of this device is dropped.
Ohne(idx, d, o) ==
    [a \in Arten |-> [i \in Ids |->
        IF HatSchluessel(a, i, o) THEN {e \in idx[a][i] : e.geraet # d}
                                  ELSE idx[a][i]]]

Mit(idx, d, o) ==
    [a \in Arten |-> [i \in Ids |-> idx[a][i] \cup Eintraege(a, i, d, o)]]

\* upsert: neu takes the place of the registered object alt.
Upsert(d, alt, neu) ==
    /\ index' = Mit(IF alt = None THEN index ELSE Ohne(index, d, alt), d, neu)
    /\ geraete' = [geraete EXCEPT ![d] = neu]

-----------------------------------------------------------------------------
(* Handlers *)

\* All sender bindings of an object or of the registry, active or not.
Bindungen(o) ==
    UNION {Schluessel("pair", o.kanaele[c]) \cup o.kanaele[c].inaktiv :
              c \in Kanaele(o)}

Registriert == {d \in GeraeteIds : geraete[d] # None}

Zugewiesen == UNION {Bindungen(geraete[d]) : d \in Registriert}

AktiveSender ==
    {i \in Ids : \E d \in Registriert : HatSchluessel("pair", i, geraete[d])}

\* ObservedSenderRegistry.save: throttled, and a failure is only logged.
BeobSichern == beobDatei' \in {beobDatei, beobachtet'}

NeuesObjekt(ks) == [nr |-> objekte + 1, kanaele |-> ks]

\* What devices.yaml holds when the registry g is written.
Inhalt(g) == [d \in GeraeteIds |-> IF g[d] = None THEN None ELSE g[d].kanaele]

\* Mutant: the file is written before the registry is changed.
GespeichertVorher == datei' = Inhalt(geraete) /\ ungesichert' = FALSE

\* DeviceRegistry.save replaces the file atomically.
Gespeichert == datei' = Inhalt(geraete') /\ ungesichert' = FALSE

\* It raises: the handler ends there, with the registry already changed.
SaveScheitert == SpeicherFehler /\ UNCHANGED datei /\ ungesichert' = TRUE

\* create_device and update_device: the same but for a check of the URL.
GeraetSpeichern(d, ks) ==
    /\ objekte < MaxObjekte /\ objekte' = objekte + 1
    /\ LET neu == NeuesObjekt(ks)
       IN  /\ Upsert(d, geraete[d], neu)
           /\ \/ /\ Gespeichert
                 /\ beobachtet' = beobachtet \ Bindungen(neu)
                 /\ BeobSichern
              \/ SaveScheitert /\ UNCHANGED <<beobachtet, beobDatei>>
    /\ UNCHANGED imPlatz

\* delete_device
GeraetLoeschen(d) ==
    /\ geraete[d] # None
    /\ index' = Ohne(index, d, geraete[d])
    /\ geraete' = [geraete EXCEPT ![d] = None]
    /\ Gespeichert \/ SaveScheitert
    /\ UNCHANGED <<beobachtet, beobDatei, objekte, imPlatz>>

OhneKanal(o, c) ==
    [o EXCEPT !.kanaele = [k \in Kanaele(o) \ {c} |-> o.kanaele[k]]]

\* delete_channel takes the channel out of the registered object; the indices
\* are not touched.
KanalLoeschen(d, c) ==
    /\ geraete[d] # None /\ c \in Kanaele(geraete[d])
    /\ geraete' = [geraete EXCEPT ![d] = OhneKanal(@, c)]
    /\ Gespeichert \/ SaveScheitert
    /\ imPlatz' = imPlatz \cup {d}
    /\ UNCHANGED <<index, beobachtet, beobDatei, objekte>>

Eingerichtet(o, c) ==
    [o EXCEPT !.kanaele[c].tx = o.kanaele[c].rx, !.kanaele[c].inaktiv = {},
              !.kanaele[c].rx = None]

\* heizung_ziel_einrichten: ausgang_einrichten turns the registered object's
\* address into its sending id, in place, before the upsert.
ZielEinrichten(d, c) ==
    /\ geraete[d] # None /\ c \in Kanaele(geraete[d])
    /\ LET k == geraete[d].kanaele[c]
           neu == Eingerichtet(geraete[d], c)
       IN  /\ k.tx = None /\ k.rx # None
           /\ k.rx \notin AktiveSender /\ k.rx \in Block
           /\ Upsert(d, neu, neu)
    /\ Gespeichert \/ SaveScheitert
    /\ imPlatz' = imPlatz \cup {d}
    /\ UNCHANGED <<beobachtet, beobDatei, objekte>>

\* The observed-sender hook of the pipeline.
Empfang(i) ==
    /\ \A a \in Arten : index[a][i] = {}
    /\ i \in Block
    /\ beobachtet' = beobachtet \cup {i} /\ BeobSichern
    /\ UNCHANGED <<geraete, index, datei, objekte, imPlatz, ungesichert>>

\* list_gateways: cleanup_against_known_ids.
Aufraeumen ==
    /\ beobachtet' = beobachtet \ Zugewiesen
    /\ BeobSichern
    /\ UNCHANGED <<geraete, index, datei, objekte, imPlatz, ungesichert>>

\* forget_observed
Vergessen(i) ==
    /\ beobachtet' = beobachtet \ {i} /\ BeobSichern
    /\ UNCHANGED <<geraete, index, datei, objekte, imPlatz, ungesichert>>

\* A crash or an orderly stop saves nothing more; the start loads both files,
\* makes the objects anew and cleans up.
Neustart ==
    /\ objekte' = 0
    /\ geraete' = [d \in GeraeteIds |->
           IF datei[d] = None THEN None ELSE [nr |-> 0, kanaele |-> datei[d]]]
    /\ index' = [a \in Arten |-> [i \in Ids |->
           UNION {Eintraege(a, i, d, geraete'[d]) : d \in Registriert'}]]
    /\ beobachtet' = beobDatei \ Zugewiesen' /\ BeobSichern
    /\ imPlatz' = {} /\ ungesichert' = FALSE
    /\ UNCHANGED datei

Next ==
    \/ \E d \in GeraeteIds : \E ks \in Nutzlasten : GeraetSpeichern(d, ks)
    \/ \E d \in GeraeteIds : GeraetLoeschen(d)
    \/ \E d \in GeraeteIds, c \in KanalIds : KanalLoeschen(d, c) \/ ZielEinrichten(d, c)
    \/ \E i \in Ids : Empfang(i) \/ Vergessen(i)
    \/ Aufraeumen \/ Neustart

Spec == Init /\ [][Next]_vars
-----------------------------------------------------------------------------
(* Properties *)

IndexEintrag == [geraet : GeraeteIds, kanal : KanalIds, nr : 0..MaxObjekte]

\* Type invariant.
TypeOK ==
    /\ geraete \in [GeraeteIds -> Objekt \cup {None}]
    /\ index \in [Arten -> [Ids -> SUBSET IndexEintrag]]
    /\ datei \in [GeraeteIds -> KanalListe \cup {None}]
    /\ beobachtet \subseteq Block /\ beobDatei \subseteq Block
    /\ objekte \in 0..MaxObjekte
    /\ imPlatz \subseteq GeraeteIds /\ ungesichert \in BOOLEAN

\* No telegram misses a device: every channel in the registry is found under
\* each of its ids, whatever other devices that share the id were replaced,
\* changed in place or removed before.
IndexVollstaendig ==
    \A a \in Arten, d \in Registriert : \A i \in Ids :
        Eintraege(a, i, d, geraete[d]) \subseteq index[a][i]

\* No telegram reaches what is gone: an entry belongs to the registered object
\* of its device and to a channel that has this id - for every device whose
\* object no handler has changed in place since the start.
IndexGenau ==
    \A a \in Arten, i \in Ids : \A e \in index[a][i] :
        e.geraet \notin imPlatz =>
            /\ e.geraet \in Registriert
            /\ e \in Eintraege(a, i, e.geraet, geraete[e.geraet])

\* What a client was told to have worked outlives the process: the registry in
\* memory and the file differ only while the last save has failed, however many
\* failed saves and restarts came before, and whichever handler changed a device
\* in place.  So the next save brings the changes of a failed one to the disk as
\* well, and a restart takes back those and no others.
DateiWieRegister == ~ungesichert => datei = Inhalt(geraete)

\* server.py:1281: "Indizes neu aufbauen (RX-ID ist weg)".  A registered
\* channel is never looked up by a receive id it no longer has.
RxIdIstWeg ==
    \A i \in Ids : \A e \in index["sender"][i] :
        (e.geraet \in Registriert /\ e.kanal \in Kanaele(geraete[e.geraet]))
            => geraete[e.geraet].kanaele[e.kanal].rx = i
=============================================================================
