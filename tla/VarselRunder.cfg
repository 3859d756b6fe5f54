SPECIFICATION Spec
CONSTANTS
    kari = kari
    s1 = s1
    s2 = s2
    Bruker = {kari}
    Sender = {s1}
    MaksForsok = 2
    MaksRunde = 2
    MaksId = 1
    MaksBytter = 1
    Ingen = Ingen
INVARIANT LukketMaserIkke
VIEW UtenHistorie
CHECK_DEADLOCK FALSE
