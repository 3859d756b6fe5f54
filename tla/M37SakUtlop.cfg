SPECIFICATION RettferdigSpec
CONSTANTS
    a1 = a1
    a2 = a2
    p1 = p1
    p2 = p2
    kreditering = kreditering
    tilbakekall = tilbakekall
    samtykke = samtykke
    forfall = forfall
    Arbeider = {a1, a2}
    Policy = {p1, p2}
    Vilkaar = {samtykke, forfall}
    Handling = {kreditering, tilbakekall}
    KravAv <- TreKrav
    KompAv <- EnKomp
    MaksForsok = 2
    Ingen = Ingen
PROPERTIES
    VerifikasjonTarSlutt
