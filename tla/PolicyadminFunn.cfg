SPECIFICATION Spec
CONSTANTS
    ola = ola
    kari = kari
    a = a
    b = b
    Bruker = {ola, kari}
    Utkast = {1, 2}
    Forfatter <- AvOla
    Innhold <- Dokumenter
    Forslag <- ToForslag
    Oppsett <- FraOppsett
    Utvider <- Utvidelser
    Foresp = {r1, r2}
    MaksAuthz = 1
    MaksRunde = 2
    Ingen = Ingen
SYMMETRY Ombytte
INVARIANT
    UsynkErDrift
PROPERTY
    IngenVerdilos
CHECK_DEADLOCK FALSE
