SPECIFICATION FairSpec
CONSTANTS
    Sender = {s1, s2}
    Schleife = schleife
    BackoffStart = 1
    BackoffMax = 4
INVARIANTS
    TypeOK
    StatusPasstZuWriter
    EinerSchreibt
PROPERTIES
    WiederVerbunden
    SendenKehrtZurueck
