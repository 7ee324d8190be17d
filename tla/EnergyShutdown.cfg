CONSTANTS
    Keys = {k1}
    None = None
    MaxWert = 2
    MaxZeit = 3
    SaveInterval = 1
    MaxJump = 3
    MaxKw = 1
    Kulanz = 1
    Entsperren = 2
    QueueLag = 1
    SchreibFehler = FALSE
    LeseFehler = FALSE
SPECIFICATION Spec
INVARIANT OrdentlichGesichert
