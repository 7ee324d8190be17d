CONSTANTS
    Keys = {k1}
    None = None
    MaxWert = 4
    MaxZeit = 3
    SaveInterval = 1
    MaxJump = 3
    MaxKw = 1
    Kulanz = 1
    Entsperren = 3
    QueueLag = 1
    SchreibFehler = TRUE
    LeseFehler = TRUE
SPECIFICATION Spec
INVARIANTS
    CacheWieSpeicher
    ReiheBelegt
    KeinNullStand
PROPERTY PubFaelltNurMitGrund
