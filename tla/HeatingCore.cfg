SPECIFICATION Spec
SYMMETRY Symmetrie
VIEW OhneAktor
CONSTANTS
    Zonen = {z1}
    Laeufe = {takt, ui}
    Takt = takt
    Fenster = {tag}
    Sollwerte = {s21, s23}
    AbsenkWert = s15
    TestWert = test
    AbsenkImmer = FALSE
    Keine = Keine
    TestDauer = 1
    Intervall = 1
    SaveFehler = TRUE
    LaufMax = 0
    TestBefehle = {TRUE, FALSE}
    MaxTests = 1
    MaxNeustarts = 1
INVARIANT NurPlanGemerkt SauberIstGesichert
