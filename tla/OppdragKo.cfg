SPECIFICATION Spec
CONSTANTS
    i1 = i1
    i2 = i2
    i3 = i3
    gjort = gjort
    mislyktes = mislyktes
    Innsending = {i1, i2, i3}
    Resultat = {gjort, mislyktes}
    Utfort = {gjort}
    MaksClaim = 2
    Opphav = {"m37_reparasjon", "beslutning", "frigivelse"}
    Reversibilitet = {"direkte", "kompenserende", "ukjent"}
    Driftsinngrep = {"opphav", "evidensfrist"}
    Ingen = Ingen
SYMMETRY Symmetri
INVARIANTS
    SvarErSant
    ResultatHarKapabilitet
    NeiStenger
    SenUtfortFolges
    SakFolgerOppdrag
PROPERTIES
    ForsteUtfallStaar
CHECK_DEADLOCK FALSE
