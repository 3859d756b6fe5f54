SPECIFICATION Spec
CONSTANTS
    kari = kari
    s1 = s1
    s2 = s2
    Bruker = {kari}
    Sender = {s1}
    MaksForsok = 2
    MaksRunde = 1
    MaksId = 2
    MaksBytter = 0
    Ingen = Ingen
INVARIANT EttPerHendelse
CHECK_DEADLOCK FALSE
