CONSTANTS
    GeraeteIds = {d1, d2}
    KanalIds = {c1, c2}
    Ids = {i1, i2}
    Block = {i1}
    Nutzlasten <- MCNutzlasten
    SpeicherFehler = TRUE
    MaxObjekte = 1
    None = None
    c1 = c1
    c2 = c2
    i1 = i1
    i2 = i2
SPECIFICATION Spec
INVARIANTS
    IndexVollstaendig
    IndexGenau
    DateiWieRegister
SYMMETRY Symmetrie
