CONSTANTS
    Gateways = {gw1, gw2}
    Frames = {press, release}
    Window = 1
    DedupMax = 5
    GwQueueMax = 2
    MgrQueueMax = 3
    Laufzeit = 1
    MaxRueck = 2
    MaxSendungen = 3
    MaxZeit = 3
SPECIFICATION Spec
INVARIANTS
    TypeOK
    HoechstensEinmal
    ReihenfolgeGewahrt
PROPERTIES
    VerworfenNurImFenster
    KommtDurch
CHECK_DEADLOCK FALSE
SYMMETRY Symmetrie
