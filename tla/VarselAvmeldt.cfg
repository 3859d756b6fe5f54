SPECIFICATION Spec
CONSTANTS
    kari = kari
    s1 = s1
    s2 = s2
    Bruker = {kari}
    Sender = {s1, s2}
    MaksForsok = 2
    MaksRunde = 1
    MaksId = 1
    MaksBytter = 1
    Ingen = Ingen
INVARIANT AvmeldtErUteAvKo
CHECK_DEADLOCK FALSE
