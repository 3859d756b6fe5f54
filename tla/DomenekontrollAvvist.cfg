SPECIFICATION Spec
CONSTANTS
    a = a
    b = b
    c = c
    a1 = a1
    a2 = a2
    Tenant = {a, b, c}
    Ingen = Ingen
    Adjudikator = {a1, a2}
    Hos <- HosB
    Kvote <- ToForB
    MaksGen <- IngenTilbakekalles
    MaksAuthz <- EnEndring
PROPERTY AvvistAldriVerifisert
SYMMETRY Ombytte
CHECK_DEADLOCK FALSE
