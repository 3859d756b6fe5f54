SPECIFICATION Spec
CONSTANTS
    g1 = g1
    v1 = v1
    v2 = v2
    v3 = v3
    Forsp = {r1, r2}
    Nokkel = {k1, k2}
    Jti = {1, 2, 3}
    Gruppe = {g1}
    Hendelser <- ToHendelser
    Versjon = {v1, v2, v3}
    Korrupt = {v3}
    Irreversibel = {v1, v3}
    Maks <- EnGrense
    Vindu = 1
    MaksTid = 2
    MaksLogg = 2
    Ingen = Ingen
INVARIANTS
    JtiEngang
    FrekvensHolder
    LoggenHarPolicy
    IngenVranglaas
PROPERTY
    HolderNokkelloftet
