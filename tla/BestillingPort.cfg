SPECIFICATION Spec
CONSTANTS
    bunt = bunt
    rad = rad
    k1 = k1
    k2 = k2
    r1 = r1
    r2 = r2
    Foresp = {r1, r2}
    Nokkel = {k1}
    Maal = {bunt, rad}
    Hensikt <- Hensikter
    Kontrakt <- AlleOppfylte
    MaksDom = 2
    MaksVersjon = 2
    Ingen = Ingen
INVARIANT DommenSvaresAlltid
SYMMETRY Ombytte
CHECK_DEADLOCK FALSE
