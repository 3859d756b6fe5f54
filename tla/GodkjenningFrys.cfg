SPECIFICATION UtholdendeSpec
CONSTANTS
    anne = anne
    bo = bo
    f1 = f1
    f2 = f2
    k1 = k1
    k2 = k2
    k3 = k3
    streng = streng
    slakk = slakk
    Bruker = {anne, bo}
    Rollesett <- EttRollesett
    Forsp = {f1}
    Nokkel = {k1, k2}
    Policy = {streng}
    KreverRolle <- Streng
    Fire = {streng}
    Godkjennbar = {streng}
    MedMetadata = {}
    Utestaaende = {"ingen"}
    MaksRunde = 1
    Ingen = Ingen
PROPERTIES
    UtloptRundeLukkes
CHECK_DEADLOCK FALSE
