SPECIFICATION FairSpec
CONSTANTS
    Rufer = {mqtt, web}
    Speichernd = {web}
    Voll = 3000
    Laufzeit <- MCLaufzeit
    Takt = 30
    MaxSeit = 150
    Dauern = {0, 4}
    Ziele = {0, 1500}
    Staende = {3000}
    Kalibrierungen <- MCKalibrierungen
    Eigenzeit = 90
    Haltmeldungen = {"fahrt"}
    MaxNeustarts = 3
    MaxEingaben = 3
    mqtt = mqtt
    web = web
INVARIANTS TypeOK ZielVoraus StandStimmt WunschErfuellt LaufzeitBleibt AnzeigeAktuell
PROPERTIES FahrtEndet
