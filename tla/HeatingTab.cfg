CONSTANTS
    Browser = {b1, b2}
    Niemand = Niemand
    Bearbeiter = {b1}
    Kreise = {k1}
    Aktorbasis <- MCAktorbasis
    WieBereich = WieBereich
    AnfangsZonen <- MCZonen
    AnfangsSchalter <- MCSchalter
    MaxZonen = 2
    MaxSchalter = 1
    MaxRaeume = 1
    MaxAnfragen = 2
    MaxEingaben = 4
SPECIFICATION Spec
INVARIANTS TypeOK BasisPasstZumAktor
PROPERTY SchalterNurPerAuftrag EntwurfBleibt AnzeigeHoltAuf
