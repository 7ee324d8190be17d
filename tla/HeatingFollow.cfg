SPECIFICATION FairSpec
CONSTANTS
    Zonen = {z1}
    Laeufe = {takt, ui}
    Takt = takt
    Fenster = {tag}
    Sollwerte = {21}
    AbsenkWert = 15
    TestWert = 99
    AbsenkImmer = FALSE
    Keine = Keine
    TestDauer = 1
    Intervall = 1
    SaveFehler = FALSE
    LaufMax = 1
    TestBefehle = {TRUE, FALSE}
    MaxTests = 1
    MaxNeustarts = 0
PROPERTY AktorFolgt
