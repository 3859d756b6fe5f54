SPECIFICATION RettferdigSpec
CONSTANTS
    kari = kari
    s1 = s1
    s2 = s2
    Bruker = {kari}
    Sender = {s1}
    MaksForsok = 1
    MaksRunde = 1
    MaksId = 1
    MaksBytter = 0
    Ingen = Ingen
PROPERTY SendingTarSlutt
CHECK_DEADLOCK FALSE
