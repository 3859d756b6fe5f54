SPECIFICATION MotorSpec
CONSTANTS
    kasserer = kasserer
    leder = leder
    nok = nok
    eur = eur
    person = person
    intern = intern
    x = x
    v1 = v1
    v2 = v2
    Rollenavn = {kasserer, leder}
    Valuta = {nok, eur}
    Dataklasse = {person, intern}
    Verifikator = {x}
    Vilkaar = {v1, v2}
    Policyer <- SmaaPolicyer
    Hendelser <- SmaaHendelser
    BelopTak = 3
    Intet = Intet
    Ugyldig = Ugyldig
INVARIANT
    OverstyringVirker
CHECK_DEADLOCK FALSE
