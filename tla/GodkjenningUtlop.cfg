SPECIFICATION Spec
CONSTANTS
    anne = anne
    bo = bo
    f1 = f1
    f2 = f2
    k1 = k1
    k2 = k2
    k3 = k3
    streng = streng
    slakk = slakk
    Bruker = {anne, bo}
    Rollesett <- ToRollesett
    Forsp = {f1, f2}
    Nokkel = {k1, k2}
    Policy = {streng, slakk}
    KreverRolle <- ToPolicyer
    Fire = {streng}
    Godkjennbar = {streng, slakk}
    MedMetadata = {}
    Utestaaende = {"ingen", "levende", "uloselig", "utfort"}
    MaksRunde = 1
    Ingen = Ingen
SYMMETRY Symmetri
INVARIANTS
    IngenEtterUtlop
CHECK_DEADLOCK FALSE
