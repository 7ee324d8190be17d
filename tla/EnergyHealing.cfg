CONSTANTS
    Keys = {k1, k2}
    None = None
    MaxWert = 10
    MaxZeit = 1
    SaveInterval = 1
    MaxJump = 10
    MaxKw = 0
    Kulanz = 0
    Entsperren = 2
    QueueLag = 0
    SchreibFehler = TRUE
    LeseFehler = TRUE
    Nebenzaehler = {k2}
    MaxZaehler <- MCMaxZaehler
    Ausreisser <- MCAusreisser
    MaxStoerungen = 2
SPECIFICATION FairMeterSpec
PROPERTY HaengtNichtFest
CHECK_DEADLOCK FALSE
INVARIANT SauberIstGesichert
PROPERTY DateiVergisstNicht
