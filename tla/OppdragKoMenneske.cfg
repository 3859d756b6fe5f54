SPECIFICATION RettferdigSpec
CONSTANTS
    i1 = i1
    i2 = i2
    i3 = i3
    gjort = gjort
    mislyktes = mislyktes
    Innsending = {i1}
    Resultat = {gjort, mislyktes}
    Utfort = {gjort}
    MaksClaim = 2
    Opphav = {"beslutning"}
    Reversibilitet = {"direkte"}
    Driftsinngrep = {}
    Ingen = Ingen
PROPERTIES
    SakNaarMenneske
CHECK_DEADLOCK FALSE
