SPECIFICATION Spec
CONSTANTS
    a = a
    b = b
    c = c
    a1 = a1
    a2 = a2
    Tenant = {a, b, c}
    Ingen = Ingen
    Adjudikator = {a1, a2}
    Hos <- HosB
    Kvote <- ToForB
    MaksGen <- BTilbakekalles
    MaksAuthz <- EnEndring
INVARIANTS ParteneStemmer IngenFalskAlarm
PROPERTIES ToSaKonflikten NeiStaar
SYMMETRY Ombytte
CHECK_DEADLOCK FALSE
