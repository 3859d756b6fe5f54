SPECIFICATION RettferdigSpec
CONSTANTS
    kari = kari
    s1 = s1
    s2 = s2
    Bruker = {kari}
    Sender = {s1, s2}
    MaksForsok = 2
    MaksRunde = 1
    MaksId = 1
    MaksBytter = 1
    Ingen = Ingen
INVARIANTS SendtErSendt EnKopi LukketMaserIkke
PROPERTY KoenTommes
CHECK_DEADLOCK FALSE
