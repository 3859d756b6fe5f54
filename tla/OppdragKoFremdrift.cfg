SPECIFICATION RettferdigSpec
CONSTANTS
    i1 = i1
    i2 = i2
    i3 = i3
    gjort = gjort
    mislyktes = mislyktes
    Innsending = {i1, i2}
    Resultat = {gjort, mislyktes}
    Utfort = {gjort}
    MaksClaim = 2
    Opphav = {"beslutning", "frigivelse"}
    Reversibilitet = {"direkte"}
    Driftsinngrep = {"opphav", "evidensfrist"}
    Ingen = Ingen
PROPERTIES
    OppdragEnder
CHECK_DEADLOCK FALSE
