SPECIFICATION FairSpec
CONSTANTS
  g1 = g1
  g2 = g2
  Geraete = {g1, g2}
  Keins = Keins
  Kanaele = {1, 2}
  Aktoren = {1}
  Eeps = {1, 2}
  MaxId = 2
  Anfang <- ZweiGeraete
  Vorlage = {1}
  MaxSender = 2
  MaxAnfragen = 2
  MaxEingaben = 4
INVARIANTS TypeOK EinAktiver
PROPERTIES NurGewolltes WasManSieht ListeHoltAuf
