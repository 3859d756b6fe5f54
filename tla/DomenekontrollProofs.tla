------------------------ MODULE DomenekontrollProofs ------------------------
(* Theorems about the control of a hostname, for any number of tenants,    *)
(* adjudicators and challenges.                                            *)
EXTENDS Domenekontroll, FiniteSetTheorems, TLAPS

-----------------------------------------------------------------------------
(* What the operators on rows and on the case return.                      *)

LEMMA SluttGir ==
    ASSUME NEW r \in Rad, NEW st \in Status
    PROVE  /\ Slutt(r, st) \in Rad
           /\ Slutt(r, st).st = st /\ Slutt(r, st).utf = r.utf
  BY DEF Slutt, Rad

LEMMA NektetGir ==
    ASSUME NEW r \in Rad
    PROVE  Nektet(r) \in Rad /\ Nektet(r).st = "tilbakekalt" /\ Nektet(r).utf = 0
  <1>1. Slutt(r, "tilbakekalt") \in Rad /\ Slutt(r, "tilbakekalt").st = "tilbakekalt"
        BY SluttGir DEF Status
  <1> HIDE DEF Slutt
  <1> QED BY <1>1 DEF Nektet, Rad

LEMMA VantGir ==
    ASSUME NEW r \in Rad
    PROVE  Vant(r) \in Rad /\ Vant(r).st = "verifisert" /\ Vant(r).utf = r.utf
  BY DEF Vant, Rad, Status, Part

LEMMA StridGir ==
    ASSUME NEW r \in Rad, NEW m \in Tenant
    PROVE  /\ Strid(r, m) \in Rad /\ Strid(r, m).st = "avklaring_kreves"
           /\ Strid(r, m).mot = m /\ Strid(r, m).gen = r.gen + 1
           /\ Strid(r, m).utf = r.utf
  BY DEF Strid, Rad, Status, Part

LEMMA ForbigaattGir ==
    ASSUME NEW r \in [Tenant -> Rad], NEW b
    PROVE  /\ Forbigaatt(r, b) \in [Tenant -> Rad]
           /\ \A u \in Tenant :
                 IF r[u].st = "avklaring_kreves" /\ u # b
                 THEN /\ Forbigaatt(r, b)[u].st = "tilbakekalt"
                      /\ Forbigaatt(r, b)[u].utf = 0
                 ELSE Forbigaatt(r, b)[u] = r[u]
  <1>1. \A u \in Tenant : /\ Nektet(r[u]) \in Rad
                          /\ Nektet(r[u]).st = "tilbakekalt" /\ Nektet(r[u]).utf = 0
        BY NektetGir
  <1> QED BY <1>1 DEF Forbigaatt

LEMMA SikretGir ==
    ASSUME sak \in Sak, NEW k \in Konflikt
    PROVE  /\ Sikret(k) \in Sak /\ Sikret(k).apen /\ Sikret(k).om = k
           /\ \/ Sikret(k) = sak
              \/ Sikret(k).id = sak.id /\ Sikret(k).rev = sak.rev + 1
              \/ Sikret(k).id = sak.id + 1
  <1>1. CASE sak.apen /\ sak.om = k
        BY <1>1 DEF Sikret
  <1>2. CASE sak.apen /\ sak.om # k
        BY <1>2 DEF Sikret, Sak
  <1>3. CASE ~sak.apen
        BY <1>3 DEF Sikret, Sak
  <1> QED BY <1>1, <1>2, <1>3

-----------------------------------------------------------------------------
(* Types.                                                                  *)

(* A case that is open, or that somebody has a page of, is about something.*)
SakOK == sak.apen \/ (\E a \in Adjudikator : side[a] # Ingen) => sak.om \in Konflikt

TypInv == TypeOK /\ SakOK

(* What a confirmed challenge does to the rows.                            *)
LEMMA OvertaGir ==
    ASSUME TypInv, NEW t \in Tenant, Overta(t)
    PROVE  /\ rad' \in [Tenant -> Rad] /\ binding' = t
           /\ rad'[t].st = "avklaring_kreves" /\ OmRaden(t)' \in Konflikt
           /\ sak' = Sikret(OmRaden(t)')
           /\ rad[t].utf # 0 /\ rad[t].st # "avklaring_kreves"
           /\ rad'[t].utf = rad[t].utf
           /\ \A u \in Tenant \ {t} :
                 /\ rad'[u].st # "avklaring_kreves"
                 /\ rad'[u].st = "verifisert" =>
                       rad[u].st = "verifisert" /\ u # binding
                 /\ rad[u].st = "avklaring_kreves" => rad'[u].utf = 0
                 /\ rad'[u].utf \in {rad[u].utf, 0}
  <1> DEFINE e == binding
             tatt == [rad EXCEPT ![t] = Strid(@, e),
                                 ![e] = IF @.st = "verifisert"
                                        THEN Slutt(@, "tilbakekalt") ELSE @]
  <1>1. /\ rad \in [Tenant -> Rad] /\ e \in Tenant \ {t} /\ sak \in Sak
        /\ rad' = Forbigaatt(tatt, t) /\ binding' = t
        /\ sak' = Sikret(Om(t, e, rad[t].gen + 1))
        /\ rad[t].utf # 0 /\ rad[t].st # "avklaring_kreves"
        BY DEF TypInv, TypeOK, Overta, Fremmed, Bekreft, Bevist, Plukkbar, Avvist
  <1>2. /\ Strid(rad[t], e) \in Rad /\ Strid(rad[t], e).st = "avklaring_kreves"
        /\ Strid(rad[t], e).mot = e /\ Strid(rad[t], e).gen = rad[t].gen + 1
        /\ Strid(rad[t], e).utf = rad[t].utf
        BY <1>1, StridGir
  <1>3. /\ Slutt(rad[e], "tilbakekalt") \in Rad
        /\ Slutt(rad[e], "tilbakekalt").st = "tilbakekalt"
        /\ Slutt(rad[e], "tilbakekalt").utf = rad[e].utf
        BY <1>1, SluttGir DEF Status
  <1>4. /\ tatt \in [Tenant -> Rad] /\ tatt[t] = Strid(rad[t], e)
        /\ tatt[e] = IF rad[e].st = "verifisert"
                     THEN Slutt(rad[e], "tilbakekalt") ELSE rad[e]
        /\ \A u \in Tenant \ {t, e} : tatt[u] = rad[u]
    <2> HIDE DEF e
    <2> QED BY <1>1, <1>2, <1>3
  <1> HIDE DEF tatt, e
  <1>5. /\ rad' \in [Tenant -> Rad]
        /\ \A u \in Tenant :
              IF tatt[u].st = "avklaring_kreves" /\ u # t
              THEN rad'[u].st = "tilbakekalt" /\ rad'[u].utf = 0
              ELSE rad'[u] = tatt[u]
        BY <1>1, <1>4, ForbigaattGir
  <1>6. rad'[t] = Strid(rad[t], e)
        BY <1>4, <1>5
  <1>7. OmRaden(t)' = Om(t, e, rad[t].gen + 1)
        BY <1>2, <1>6 DEF OmRaden, Om
  <1>8. Om(t, e, rad[t].gen + 1) \in Konflikt
        BY <1>1 DEF Om, Konflikt, Rad
  <1>9. ASSUME NEW u \in Tenant \ {t}
        PROVE  /\ rad'[u].st # "avklaring_kreves"
               /\ rad'[u].st = "verifisert" => rad[u].st = "verifisert" /\ u # e
               /\ rad[u].st = "avklaring_kreves" => rad'[u].utf = 0
               /\ rad'[u].utf \in {rad[u].utf, 0}
    <2>1. CASE u = e
          BY <2>1, <1>3, <1>4, <1>5
    <2>2. CASE u # e
      <3>1. tatt[u] = rad[u]
            BY <2>2, <1>4
      <3> QED BY <3>1, <2>2, <1>5
    <2> QED BY <2>1, <2>2
  <1> QED BY <1>1, <1>2, <1>5, <1>6, <1>7, <1>8, <1>9 DEF e

LEMMA VerifiserGir ==
    ASSUME TypInv, NEW t \in Tenant, VerifiserDirekte(t)
    PROVE  /\ rad' \in [Tenant -> Rad] /\ binding' = t /\ sak' = sak
           /\ rad'[t].st = "verifisert" /\ rad'[t].utf = rad[t].utf
           /\ rad[t].utf # 0 /\ rad[t].st # "avklaring_kreves"
           /\ \A u \in Tenant \ {t} :
                 /\ rad'[u].st # "avklaring_kreves"
                 /\ rad'[u].st = "verifisert" =>
                       rad[u].st = "verifisert" /\ u # binding
                 /\ rad[u].st = "avklaring_kreves" => rad'[u].utf = 0
                 /\ rad'[u].utf \in {rad[u].utf, 0}
  <1> DEFINE r == [u \in Tenant |->
                     IF u = t THEN Vant(rad[u])
                     ELSE IF u = binding /\ rad[u].st = "verifisert"
                          THEN Slutt(rad[u], "utlopt") ELSE rad[u]]
  <1>1. /\ rad \in [Tenant -> Rad] /\ rad' = Forbigaatt(r, t) /\ binding' = t
        /\ sak' = sak /\ rad[t].utf # 0 /\ rad[t].st # "avklaring_kreves"
        BY DEF TypInv, TypeOK, VerifiserDirekte, Bekreft, Bevist, Plukkbar, Avvist
  <1>2. /\ Vant(rad[t]) \in Rad /\ Vant(rad[t]).st = "verifisert"
        /\ Vant(rad[t]).utf = rad[t].utf
        BY <1>1, VantGir
  <1>3. \A u \in Tenant : /\ Slutt(rad[u], "utlopt") \in Rad
                          /\ Slutt(rad[u], "utlopt").st = "utlopt"
                          /\ Slutt(rad[u], "utlopt").utf = rad[u].utf
        BY <1>1, SluttGir DEF Status
  <1>4. /\ r \in [Tenant -> Rad] /\ r[t] = Vant(rad[t])
        /\ \A u \in Tenant \ {t} :
              r[u] = IF u = binding /\ rad[u].st = "verifisert"
                     THEN Slutt(rad[u], "utlopt") ELSE rad[u]
        BY <1>1, <1>2, <1>3
  <1> HIDE DEF r
  <1>5. /\ rad' \in [Tenant -> Rad]
        /\ \A u \in Tenant :
              IF r[u].st = "avklaring_kreves" /\ u # t
              THEN rad'[u].st = "tilbakekalt" /\ rad'[u].utf = 0
              ELSE rad'[u] = r[u]
        BY <1>1, <1>4, ForbigaattGir
  <1>6. rad'[t] = Vant(rad[t])
        BY <1>4, <1>5
  <1>7. ASSUME NEW u \in Tenant \ {t}
        PROVE  /\ rad'[u].st # "avklaring_kreves"
               /\ rad'[u].st = "verifisert" => rad[u].st = "verifisert" /\ u # binding
               /\ rad[u].st = "avklaring_kreves" => rad'[u].utf = 0
               /\ rad'[u].utf \in {rad[u].utf, 0}
        BY <1>3, <1>4, <1>5
  <1> QED BY <1>1, <1>2, <1>5, <1>6, <1>7

LEMMA InitTyp == Init => TypInv
  BY DEF Init, TypInv, TypeOK, SakOK, Rad, Status, Part, Sak

(* What a page, a vote or the guard holds is a conflict.                   *)
LEMMA SteglTyp ==
    ASSUME TypInv, NEW a \in Adjudikator
    PROVE  /\ side[a] # Ingen => side[a] \in Side /\ sak.om \in Konflikt
           /\ sak.apen => sak.om \in Konflikt
  BY DEF TypInv, TypeOK, SakOK, Sak

LEMMA TypSteg == TypInv /\ [Next]_vars => TypInv'
  <1> SUFFICES ASSUME TypInv, [Next]_vars PROVE TypInv'
      OBVIOUS
  <1>1. ASSUME NEW t \in Tenant, UtstedChallenge(t) PROVE TypInv'
    <2>1. utstedt' \in [Tenant -> Nat] /\ utstedt'[t] \in Nat
          BY <1>1 DEF TypInv, TypeOK, UtstedChallenge
    <2>2. rad[t] \in Rad /\ rad \in [Tenant -> Rad]
          BY DEF TypInv, TypeOK
    <2>3. rad' \in [Tenant -> Rad]
          BY <1>1, <2>1, <2>2 DEF UtstedChallenge, Rad, Status
    <2> QED BY <1>1, <2>1, <2>3 DEF TypInv, TypeOK, SakOK, UtstedChallenge
  <1>2. ASSUME NEW t \in Tenant, ChallengeUtloper(t) \/ VerifiseringUtloper(t)
                                 \/ SlaaOppTXT(t) \/ BekreftNei(t)
        PROVE TypInv'
    <2>1. CASE ChallengeUtloper(t)
          BY <2>1 DEF TypInv, TypeOK, SakOK, ChallengeUtloper, Rad
    <2>2. CASE VerifiseringUtloper(t)
          BY <2>2 DEF TypInv, TypeOK, SakOK, VerifiseringUtloper, Rad
    <2>3. CASE SlaaOppTXT(t)
          BY <2>3 DEF TypInv, TypeOK, SakOK, SlaaOppTXT, Rad
    <2>4. CASE BekreftNei(t)
          BY <2>4 DEF TypInv, TypeOK, SakOK, BekreftNei
    <2> QED BY <1>2, <2>1, <2>2, <2>3, <2>4
  <1>3. ASSUME NEW t \in Tenant, Reappliker(t) PROVE TypInv'
    <2>1. rad \in [Tenant -> Rad] /\ rad[t] \in Rad /\ rad[t].mot \in Tenant
          BY <1>3 DEF TypInv, TypeOK, Reappliker, MaaAvklares, Avvist, Rad, Part
    <2>2. Strid(rad[t], rad[t].mot) \in Rad
          BY <2>1, StridGir
    <2>3. Om(t, rad[t].mot, rad[t].gen + 1) \in Konflikt
          BY <2>1 DEF Om, Konflikt, Rad
    <2>4. sak' \in Sak /\ sak'.om \in Konflikt
          BY <1>3, <2>3, SikretGir DEF TypInv, TypeOK, Reappliker
    <2>5. rad' \in [Tenant -> Rad]
          BY <1>3, <2>1, <2>2 DEF Reappliker
    <2> QED BY <1>3, <2>4, <2>5 DEF TypInv, TypeOK, SakOK, Reappliker, Bekreft
  <1>4. ASSUME NEW t \in Tenant, Overta(t) PROVE TypInv'
    <2>1. rad' \in [Tenant -> Rad] /\ binding' = t /\ OmRaden(t)' \in Konflikt
          /\ sak' = Sikret(OmRaden(t)')
          BY <1>4, OvertaGir
    <2>2. sak' \in Sak /\ sak'.om \in Konflikt
          BY <2>1, SikretGir DEF TypInv, TypeOK
    <2> QED BY <1>4, <2>1, <2>2 DEF TypInv, TypeOK, SakOK, Overta, Bekreft, Part
  <1>5. ASSUME NEW t \in Tenant, VerifiserDirekte(t) PROVE TypInv'
    <2>1. rad' \in [Tenant -> Rad] /\ binding' = t /\ sak' = sak
          BY <1>5, VerifiserGir
    <2> QED BY <1>5, <2>1 DEF TypInv, TypeOK, SakOK, VerifiserDirekte, Bekreft, Part
  <1>6. ASSUME NEW t \in Tenant, Tilbakekall(t) PROVE TypInv'
    <2>1. rad \in [Tenant -> Rad] /\ Slutt(rad[t], "tilbakekalt") \in Rad
          BY SluttGir DEF TypInv, TypeOK, Status
    <2>2. rad' \in [Tenant -> Rad]
          BY <1>6, <2>1 DEF Tilbakekall
    <2> QED BY <1>6, <2>2 DEF TypInv, TypeOK, SakOK, Tilbakekall
  <1>7. ASSUME NEW a \in Adjudikator, LesSide(a) PROVE TypInv'
    <2>1. sak.om \in Konflikt /\ sak \in Sak
          BY <1>7, SteglTyp DEF LesSide, TypInv, TypeOK
    <2>2. side'[a] \in Side /\ side' \in [Adjudikator -> Side \cup {Ingen}]
          BY <1>7, <2>1 DEF LesSide, TypInv, TypeOK, Side, Sak
    <2> QED BY <1>7, <2>1, <2>2 DEF TypInv, TypeOK, SakOK, LesSide
  <1>8. ASSUME NEW a \in Adjudikator, SlaaOppSak(a) PROVE TypInv'
    <2>1. side[a] \in Side /\ sak.om \in Konflikt
          BY <1>8, SteglTyp DEF SlaaOppSak
    <2>2. sak.om.gen \in Nat
          BY <2>1 DEF Konflikt
    <2>3. [side[a] EXCEPT !.trinn = "slaatt", !.gen = sak.om.gen] \in Side
          BY <2>1, <2>2 DEF Side
    <2> QED BY <1>8, <2>1, <2>3 DEF TypInv, TypeOK, SakOK, SlaaOppSak
  <1>9. ASSUME NEW a \in Adjudikator, LukkSide(a) PROVE TypInv'
        BY <1>9 DEF TypInv, TypeOK, SakOK, LukkSide
  <1>10. ASSUME NEW a \in Adjudikator, Godkjenn(a) PROVE TypInv'
    <2>1. side[a] \in Side /\ sak.om \in Konflikt /\ sak \in Sak
          BY <1>10, SteglTyp DEF Godkjenn, KanStemme, StaarSomSett, TypInv, TypeOK
    <2>2. Hos[a] \in Tenant /\ rad \in [Tenant -> Rad] /\ Vant(rad[Hos[a]]) \in Rad
          BY Antakelser, VantGir DEF TypInv, TypeOK
    <2>3. stemmer' \subseteq [av: Adjudikator, id: Nat, rev: Nat, authz: Nat, om: Konflikt]
          BY <1>10, <2>1 DEF Godkjenn, TypInv, TypeOK, Side, Sak
    <2>4. rad' \in [Tenant -> Rad]
          BY <1>10, <2>2 DEF Godkjenn
    <2>5. sak' \in Sak /\ sak'.om = sak.om
          BY <1>10, <2>1 DEF Godkjenn, Sak
    <2> QED BY <1>10, <2>1, <2>3, <2>4, <2>5
            DEF TypInv, TypeOK, SakOK, Godkjenn
  <1>11. ASSUME NEW a \in Adjudikator, Avvis(a) PROVE TypInv'
    <2>1. side[a] \in Side /\ sak.om \in Konflikt /\ sak \in Sak
          BY <1>11, SteglTyp DEF Avvis, KanStemme, StaarSomSett, TypInv, TypeOK
    <2>2. Hos[a] \in Tenant /\ rad \in [Tenant -> Rad] /\ Nektet(rad[Hos[a]]) \in Rad
          BY Antakelser, NektetGir DEF TypInv, TypeOK
    <2>3. rad' \in [Tenant -> Rad]
          BY <1>11, <2>2 DEF Avvis
    <2>4. sak' \in Sak /\ sak'.om = sak.om
          BY <1>11, <2>1 DEF Avvis, Sak
    <2> QED BY <1>11, <2>1, <2>3, <2>4 DEF TypInv, TypeOK, SakOK, Avvis
  <1>12. ASSUME NEW a \in Adjudikator, EndreMedlem(a) PROVE TypInv'
        BY <1>12 DEF TypInv, TypeOK, SakOK, EndreMedlem
  <1>13. ASSUME NEW t \in Tenant, VaktPlukk(t) PROVE TypInv'
    <2>1. OmRaden(t) \in Konflikt
          BY <1>13 DEF VaktPlukk, OmRaden, Om, Konflikt, TypInv, TypeOK, Rad, Part
    <2> QED BY <1>13, <2>1 DEF TypInv, TypeOK, SakOK, VaktPlukk
  <1>14. ASSUME VaktSok \/ VaktBekreft PROVE TypInv'
    <2>1. vakt \in [trinn: {"plukket", "sokt", "alarm"}, om: Konflikt]
          BY <1>14 DEF TypInv, TypeOK, VaktSok, VaktBekreft
    <2>2. CASE VaktSok
          BY <2>1, <2>2 DEF TypInv, TypeOK, SakOK, VaktSok
    <2>3. CASE VaktBekreft
          BY <2>1, <2>3 DEF TypInv, TypeOK, SakOK, VaktBekreft
    <2> QED BY <1>14, <2>2, <2>3
  <1>15. CASE UNCHANGED vars
        BY <1>15 DEF vars, TypInv, TypeOK, SakOK
  <1> QED BY <1>1, <1>2, <1>3, <1>4, <1>5, <1>6, <1>7, <1>8, <1>9, <1>10, <1>11,
             <1>12, <1>13, <1>14, <1>15 DEF Next

(* Every reachable state is well typed: in particular the open case always *)
(* names two tenants and a generation, and so does every page and vote.    *)
THEOREM Typekorrekt == Spec => []TypeOK
  <1>1. TypInv => TypeOK
        BY DEF TypInv
  <1> QED BY <1>1, InitTyp, TypSteg, PTL DEF Spec

-----------------------------------------------------------------------------
(* Rows, binding and case.                                                 *)

LEMMA ParteneSteg == TypInv /\ ParteneStemmer /\ [Next]_vars => ParteneStemmer'
  <1> SUFFICES ASSUME TypInv, ParteneStemmer, [Next]_vars PROVE ParteneStemmer'
      OBVIOUS
  <1> USE DEF ParteneStemmer, EierErBundet, KonfliktHarSak, HarSak, OmRaden, Om
  <1>a. rad \in [Tenant -> Rad] /\ sak \in Sak
        BY DEF TypInv, TypeOK
  <1>1. ASSUME NEW t \in Tenant, UtstedChallenge(t) PROVE ParteneStemmer'
        BY <1>1, <1>a DEF UtstedChallenge
  <1>2. ASSUME NEW t \in Tenant, ChallengeUtloper(t) \/ VerifiseringUtloper(t)
                                 \/ SlaaOppTXT(t) \/ BekreftNei(t) \/ VaktPlukk(t)
        PROVE ParteneStemmer'
    <2>1. CASE ChallengeUtloper(t)
          BY <2>1, <1>a DEF ChallengeUtloper, Rad
    <2>2. CASE VerifiseringUtloper(t)
          BY <2>2, <1>a DEF VerifiseringUtloper, Rad
    <2>3. CASE SlaaOppTXT(t) \/ BekreftNei(t) \/ VaktPlukk(t)
          BY <2>3 DEF SlaaOppTXT, BekreftNei, VaktPlukk
    <2> QED BY <1>2, <2>1, <2>2, <2>3
  <1>3. ASSUME NEW t \in Tenant, Reappliker(t) PROVE ParteneStemmer'
    <2>1. rad[t] \in Rad /\ rad[t].mot \in Tenant /\ binding = t
          BY <1>3, <1>a DEF Reappliker, MaaAvklares, Avvist, Rad, Part
    <2>2. Om(t, rad[t].mot, rad[t].gen + 1) \in Konflikt
          BY <2>1 DEF Konflikt, Rad
    <2>3. sak'.apen /\ sak'.om = Om(t, rad[t].mot, rad[t].gen + 1)
          BY <1>3, <1>a, <2>2, SikretGir DEF Reappliker
    <2>4. /\ rad'[t].st = "avklaring_kreves" /\ rad'[t].mot = rad[t].mot
          /\ rad'[t].gen = rad[t].gen + 1
          /\ \A u \in Tenant \ {t} : rad'[u] = rad[u]
          /\ binding' = t
          BY <1>3, <1>a, <2>1, StridGir DEF Reappliker
    <2>5. EierErBundet'
          BY <2>1, <2>4
    <2>6. KonfliktHarSak'
          BY <2>1, <2>3, <2>4
    <2> QED BY <2>5, <2>6
  <1>4. ASSUME NEW t \in Tenant, Overta(t) PROVE ParteneStemmer'
    <2>1. /\ binding' = t /\ rad'[t].st = "avklaring_kreves"
          /\ OmRaden(t)' \in Konflikt /\ sak' = Sikret(OmRaden(t)')
          /\ \A u \in Tenant \ {t} :
                /\ rad'[u].st # "avklaring_kreves"
                /\ rad'[u].st = "verifisert" => rad[u].st = "verifisert" /\ u # binding
          BY <1>4, OvertaGir
    <2>2. sak'.apen /\ sak'.om = OmRaden(t)'
          BY <1>a, <2>1, SikretGir
    <2> QED BY <2>1, <2>2
  <1>5. ASSUME NEW t \in Tenant, VerifiserDirekte(t) PROVE ParteneStemmer'
        BY <1>5, VerifiserGir
  <1>6. ASSUME NEW t \in Tenant, Tilbakekall(t) PROVE ParteneStemmer'
    <2>1. Slutt(rad[t], "tilbakekalt").st = "tilbakekalt"
          BY <1>a, SluttGir DEF Status
    <2> QED BY <1>6, <1>a, <2>1 DEF Tilbakekall
  <1>7. ASSUME NEW a \in Adjudikator,
               LesSide(a) \/ SlaaOppSak(a) \/ LukkSide(a) \/ EndreMedlem(a)
        PROVE ParteneStemmer'
        BY <1>7 DEF LesSide, SlaaOppSak, LukkSide, EndreMedlem
  <1>8. ASSUME NEW a \in Adjudikator, Godkjenn(a) \/ Avvis(a) PROVE ParteneStemmer'
    <2> DEFINE t == Hos[a]
    <2>1. t \in Tenant /\ rad[t].st = "avklaring_kreves"
          BY <1>8, Antakelser DEF Godkjenn, Avvis, KanStemme, StaarSomSett
    <2>2. \A u \in Tenant \ {t} : rad[u].st \notin {"verifisert", "avklaring_kreves"}
          BY <2>1
    <2>3. Vant(rad[t]).st = "verifisert" /\ Nektet(rad[t]).st = "tilbakekalt"
          BY <1>a, <2>1, VantGir, NektetGir
    <2>4. /\ binding' = binding
          /\ \/ rad' = rad /\ sak' = sak
             \/ rad' = [rad EXCEPT ![t] = Vant(@)]
             \/ rad' = [rad EXCEPT ![t] = Nektet(@)]
          BY <1>8 DEF Godkjenn, Avvis
    <2> HIDE DEF t
    <2> QED BY <1>a, <2>1, <2>2, <2>3, <2>4
  <1>9. CASE VaktSok \/ VaktBekreft \/ UNCHANGED vars
        BY <1>9 DEF VaktSok, VaktBekreft, vars
  <1> QED BY <1>1, <1>2, <1>3, <1>4, <1>5, <1>6, <1>7, <1>8, <1>9 DEF Next

LEMMA InitPartene == Init => ParteneStemmer
  BY DEF Init, ParteneStemmer, EierErBundet, KonfliktHarSak

(* Whoever is authorised or waits for a decision has the binding, and the  *)
(* row that waits is the one the open case names, through takeovers,       *)
(* reapplications, recalls and decisions (verifiser_domenekontroll).       *)
THEOREM Partene == Spec => []ParteneStemmer
  <1> QED BY InitTyp, TypSteg, InitPartene, ParteneSteg, PTL DEF Spec

(* The guard names a conflict without a case only if there is one, and     *)
(* there is none (vokt_ventende_overtakelseskonflikter).                   *)
THEOREM IngenAlarm == Spec => []IngenFalskAlarm
  <1>1. Init => IngenFalskAlarm
        BY DEF Init, IngenFalskAlarm
  <1>2. TypInv /\ ParteneStemmer /\ IngenFalskAlarm /\ [Next]_vars => IngenFalskAlarm'
    <2> SUFFICES ASSUME TypInv, ParteneStemmer, IngenFalskAlarm, [Next]_vars
                 PROVE IngenFalskAlarm'
        OBVIOUS
    <2>1. CASE vakt' = vakt
          BY <2>1 DEF IngenFalskAlarm
    <2>2. ASSUME NEW t \in Tenant, VaktPlukk(t) PROVE IngenFalskAlarm'
          BY <2>2 DEF VaktPlukk, IngenFalskAlarm
    <2>3. CASE VaktSok
      <3>1. vakt \in [trinn: {"plukket", "sokt", "alarm"}, om: Konflikt]
            BY <2>3 DEF VaktSok, TypInv, TypeOK
      <3> QED BY <2>3, <3>1 DEF VaktSok, IngenFalskAlarm
    <2>4. CASE VaktBekreft
      <3>1. vakt.om \in Konflikt /\ vakt.om.utf \in Tenant
            BY <2>4 DEF VaktBekreft, TypInv, TypeOK, Konflikt
      <3>2. StrideStaar(vakt.om) => HarSak(vakt.om)
            BY <3>1 DEF StrideStaar, ParteneStemmer, KonfliktHarSak
      <3> QED BY <2>4, <3>2 DEF VaktBekreft, IngenFalskAlarm
    <2> QED BY <2>1, <2>2, <2>3, <2>4 DEF Next, vars, UtstedChallenge,
            ChallengeUtloper, VerifiseringUtloper, SlaaOppTXT, BekreftNei,
            Reappliker, Overta, VerifiserDirekte, Bekreft, Tilbakekall, LesSide,
            SlaaOppSak, LukkSide, Godkjenn, Avvis, EndreMedlem
  <1> QED BY <1>1, <1>2, InitTyp, TypSteg, InitPartene, ParteneSteg, PTL DEF Spec

-----------------------------------------------------------------------------
(* A refusal stands: it took the challenge with it.                        *)

NeiInv == \A t \in Tenant : nei[t] => rad[t].utf = 0

(* How one step changes the rows, as far as refusals and decisions go.     *)
RadSteg ==
    \A t \in Tenant :
        /\ rad[t].st = "tilbakekalt" /\ rad'[t].st \in {"avklaring_kreves", "verifisert"}
              => rad[t].utf # 0
        /\ rad[t].st = "avklaring_kreves" /\ rad'[t].st = "verifisert"
              => \E a \in Adjudikator : /\ t = Hos[a] /\ Godkjenn(a)
                                        /\ Cardinality(Tellende(stemmer')) >= 2

LEMMA NeiSteg == TypInv /\ NeiInv /\ [Next]_vars => NeiInv' /\ RadSteg
  <1> SUFFICES ASSUME TypInv, NeiInv, [Next]_vars PROVE NeiInv' /\ RadSteg
      OBVIOUS
  <1> USE DEF NeiInv, RadSteg
  <1>a. rad \in [Tenant -> Rad] /\ nei \in [Tenant -> BOOLEAN]
        BY DEF TypInv, TypeOK
  <1>1. ASSUME NEW t \in Tenant, UtstedChallenge(t) PROVE NeiInv' /\ RadSteg
        BY <1>1, <1>a DEF UtstedChallenge
  <1>2. ASSUME NEW t \in Tenant, ChallengeUtloper(t) PROVE NeiInv' /\ RadSteg
        BY <1>2, <1>a DEF ChallengeUtloper, Rad
  <1>3. ASSUME NEW t \in Tenant, VerifiseringUtloper(t) PROVE NeiInv' /\ RadSteg
        BY <1>3, <1>a DEF VerifiseringUtloper, Rad
  <1>4. ASSUME NEW t \in Tenant, SlaaOppTXT(t) \/ BekreftNei(t) \/ VaktPlukk(t)
        PROVE NeiInv' /\ RadSteg
        BY <1>4 DEF SlaaOppTXT, BekreftNei, VaktPlukk
  <1>5. ASSUME NEW t \in Tenant, Reappliker(t) PROVE NeiInv' /\ RadSteg
    <2>1. rad[t] \in Rad /\ rad[t].mot \in Tenant
          BY <1>5, <1>a DEF Reappliker, MaaAvklares, Avvist, Rad, Part
    <2>2. Strid(rad[t], rad[t].mot).utf = rad[t].utf
          /\ Strid(rad[t], rad[t].mot).st = "avklaring_kreves"
          BY <2>1, StridGir
    <2>3. rad[t].utf # 0 /\ nei' = nei
          /\ rad' = [rad EXCEPT ![t] = Strid(@, rad[t].mot)]
          BY <1>5, <1>a DEF Reappliker, Bekreft, Bevist, Plukkbar
    <2> QED BY <1>a, <2>2, <2>3
  <1>6. ASSUME NEW t \in Tenant, Overta(t) \/ VerifiserDirekte(t)
        PROVE NeiInv' /\ RadSteg
    <2>1. /\ rad' \in [Tenant -> Rad]
          /\ rad[t].utf # 0 /\ rad[t].st # "avklaring_kreves"
          /\ rad'[t].utf = rad[t].utf
          /\ \A u \in Tenant \ {t} :
                /\ rad'[u].st # "avklaring_kreves"
                /\ rad'[u].st = "verifisert" => rad[u].st = "verifisert"
                /\ rad[u].st = "avklaring_kreves" => rad'[u].utf = 0
                /\ rad'[u].utf \in {rad[u].utf, 0}
          BY <1>6, OvertaGir, VerifiserGir
    <2>2. nei' = [u \in Tenant |-> nei[u] \/ ForbigaattNaa(u, t)]
          BY <1>6 DEF Overta, VerifiserDirekte
    <2>3. NeiInv'
      <3> SUFFICES ASSUME NEW u \in Tenant, nei'[u] PROVE rad'[u].utf = 0
          OBVIOUS
      <3>1. CASE nei[u]
            BY <3>1, <2>1
      <3>2. CASE ForbigaattNaa(u, t)
            BY <3>2, <2>1 DEF ForbigaattNaa
      <3> QED BY <2>2, <3>1, <3>2
    <2>4. RadSteg
          BY <2>1
    <2> QED BY <2>3, <2>4
  <1>7. ASSUME NEW t \in Tenant, Tilbakekall(t) PROVE NeiInv' /\ RadSteg
    <2>1. Slutt(rad[t], "tilbakekalt").st = "tilbakekalt"
          /\ Slutt(rad[t], "tilbakekalt").utf = rad[t].utf
          BY <1>a, SluttGir DEF Status
    <2>2. rad' = [rad EXCEPT ![t] = Slutt(@, "tilbakekalt")] /\ nei' = nei
          BY <1>7 DEF Tilbakekall
    <2> QED BY <1>a, <2>1, <2>2
  <1>8. ASSUME NEW a \in Adjudikator,
               LesSide(a) \/ SlaaOppSak(a) \/ LukkSide(a) \/ EndreMedlem(a)
        PROVE NeiInv' /\ RadSteg
        BY <1>8 DEF LesSide, SlaaOppSak, LukkSide, EndreMedlem
  <1>9. ASSUME NEW a \in Adjudikator, Godkjenn(a) PROVE NeiInv' /\ RadSteg
    <2>1. Hos[a] \in Tenant /\ rad[Hos[a]].st = "avklaring_kreves" /\ nei' = nei
          BY <1>9, Antakelser DEF Godkjenn, KanStemme, StaarSomSett
    <2>2. Vant(rad[Hos[a]]).utf = rad[Hos[a]].utf
          BY <1>a, <2>1, VantGir
    <2>3. CASE Cardinality(Tellende(stemmer')) >= 2
      <3>1. rad' = [rad EXCEPT ![Hos[a]] = Vant(@)]
            BY <1>9, <2>3 DEF Godkjenn
      <3> QED BY <1>9, <1>a, <2>1, <2>2, <2>3, <3>1
    <2>4. CASE ~(Cardinality(Tellende(stemmer')) >= 2)
      <3>1. rad' = rad
            BY <1>9, <2>4 DEF Godkjenn
      <3> QED BY <2>1, <3>1
    <2> QED BY <2>3, <2>4
  <1>10. ASSUME NEW a \in Adjudikator, Avvis(a) PROVE NeiInv' /\ RadSteg
    <2>1. Hos[a] \in Tenant
          BY Antakelser
    <2>2. Nektet(rad[Hos[a]]).utf = 0 /\ Nektet(rad[Hos[a]]).st = "tilbakekalt"
          BY <1>a, <2>1, NektetGir
    <2>3. rad' = [rad EXCEPT ![Hos[a]] = Nektet(@)]
          /\ nei' = [nei EXCEPT ![Hos[a]] = TRUE]
          BY <1>10 DEF Avvis
    <2> QED BY <1>a, <2>1, <2>2, <2>3
  <1>11. CASE VaktSok \/ VaktBekreft \/ UNCHANGED vars
        BY <1>11 DEF VaktSok, VaktBekreft, vars
  <1> QED BY <1>1, <1>2, <1>3, <1>4, <1>5, <1>6, <1>7, <1>8, <1>9, <1>10, <1>11 DEF Next

LEMMA InitNei == Init => NeiInv
  BY DEF Init, NeiInv

(* A tenant that was refused or passed over comes back only by a challenge *)
(* issued after it (avgjor_domeneovertakelse, degrader_forbigatte).        *)
THEOREM NeiBlirStaaende == Spec => NeiStaar
  <1>1. NeiInv /\ RadSteg =>
           \A t \in Tenant :
              rad[t].st = "tilbakekalt" /\ rad'[t].st \in {"avklaring_kreves", "verifisert"}
              => ~nei[t]
        BY DEF NeiInv, RadSteg
  <1> QED BY <1>1, InitTyp, TypSteg, InitNei, NeiSteg, PTL DEF Spec, NeiStaar

-----------------------------------------------------------------------------
(* Votes and pages are about the conflict that was seen.                   *)

(* x was seen of a case whose number and revision only grow; with the same *)
(* ones the case is about the same conflict.                               *)
Sett(x, h) ==
    /\ x.om.utf = h /\ x.id <= sak.id
    /\ x.id = sak.id => x.rev <= sak.rev
    /\ x.id = sak.id /\ x.rev = sak.rev => x.om = sak.om

SettInv == /\ \A a \in Adjudikator : side[a] # Ingen => Sett(side[a], Hos[a])
           /\ \A s \in stemmer : Sett(s, Hos[s.av])

EnStemme == \A s, u \in stemmer :
    s.av = u.av /\ s.id = u.id /\ s.rev = u.rev => s = u

SakSteg == \/ sak'.id = sak.id /\ sak'.rev = sak.rev /\ sak'.om = sak.om
           \/ sak'.id = sak.id /\ sak'.rev = sak.rev + 1
           \/ sak'.id = sak.id + 1

LEMMA SakGaarFrem == TypInv /\ [Next]_vars => SakSteg
  <1> SUFFICES ASSUME TypInv, [Next]_vars PROVE SakSteg
      OBVIOUS
  <1>1. ASSUME NEW t \in Tenant, Reappliker(t) PROVE SakSteg
    <2>1. Om(t, rad[t].mot, rad[t].gen + 1) \in Konflikt
          BY <1>1 DEF TypInv, TypeOK, Reappliker, MaaAvklares, Avvist, Rad, Part,
                      Om, Konflikt
    <2> QED BY <1>1, <2>1, SikretGir DEF TypInv, TypeOK, Reappliker, SakSteg
  <1>2. ASSUME NEW t \in Tenant, Overta(t) PROVE SakSteg
    <2>1. OmRaden(t)' \in Konflikt /\ sak' = Sikret(OmRaden(t)')
          BY <1>2, OvertaGir
    <2> QED BY <2>1, SikretGir DEF TypInv, TypeOK, SakSteg
  <1>3. ASSUME NEW a \in Adjudikator, Godkjenn(a) \/ Avvis(a) PROVE SakSteg
        BY <1>3 DEF TypInv, TypeOK, Sak, Godkjenn, Avvis, SakSteg
  <1>4. CASE sak' = sak
        BY <1>4 DEF SakSteg
  <1> QED BY <1>1, <1>2, <1>3, <1>4 DEF Next, vars, UtstedChallenge, ChallengeUtloper,
          VerifiseringUtloper, SlaaOppTXT, BekreftNei, VerifiserDirekte, Tilbakekall,
          LesSide, SlaaOppSak, LukkSide, EndreMedlem, VaktPlukk, VaktSok, VaktBekreft

LEMMA SettBlir ==
    ASSUME TypInv, TypInv', SakSteg, NEW x, NEW h, x.id \in Nat, x.rev \in Nat,
           Sett(x, h)
    PROVE  Sett(x, h)'
  BY DEF TypInv, TypeOK, Sak, SakSteg, Sett

(* The vote of the page: it is about the case as it is now.                *)
LEMMA MinStemme ==
    ASSUME TypInv, SettInv, NEW a \in Adjudikator, Godkjenn(a)
    PROVE  \E min \in stemmer' :
             /\ stemmer' = stemmer \cup {min}
             /\ min.av = a /\ min.id = sak.id /\ min.rev = sak.rev
             /\ min.om = sak.om /\ min.om.utf = Hos[a]
  <1> DEFINE min == [av |-> a, id |-> sak.id, rev |-> sak.rev,
                     authz |-> medlem[a].authz, om |-> side[a].om]
  <1>1. stemmer' = stemmer \cup {min} /\ side[a] # Ingen /\ side[a].id = sak.id
        /\ side[a].rev = sak.rev
        BY DEF Godkjenn, KanStemme, StaarSomSett, SammeRevisjon
  <1>2. side[a].om = sak.om /\ sak.om.utf = Hos[a]
        BY <1>1 DEF SettInv, Sett
  <1>3. min.av = a /\ min.id = sak.id /\ min.rev = sak.rev /\ min.om = side[a].om
        OBVIOUS
  <1> HIDE DEF min
  <1>4. min \in stemmer'
        BY <1>1
  <1> WITNESS min \in stemmer'
  <1> QED BY <1>1, <1>2, <1>3

LEMMA SettSteg == TypInv /\ SettInv /\ EnStemme /\ [Next]_vars => SettInv' /\ EnStemme'
  <1> SUFFICES ASSUME TypInv, SettInv, EnStemme, [Next]_vars
               PROVE SettInv' /\ EnStemme'
      OBVIOUS
  <1>1. TypInv' /\ SakSteg
        BY TypSteg, SakGaarFrem
  <1>2. \A x, h : x.id \in Nat /\ x.rev \in Nat /\ Sett(x, h) => Sett(x, h)'
        BY <1>1, SettBlir
  <1>3. \A s \in stemmer : Sett(s, Hos[s.av])'
    <2>1. \A s \in stemmer : s.id \in Nat /\ s.rev \in Nat
          BY DEF TypInv, TypeOK
    <2> QED BY <1>2, <2>1 DEF SettInv
  <1>4. ASSUME NEW a \in Adjudikator, side[a] # Ingen
        PROVE  side[a].id \in Nat /\ side[a].rev \in Nat
        BY <1>4 DEF TypInv, TypeOK, Side
  <1>5. CASE side' = side /\ stemmer' = stemmer
    <2>1. ASSUME NEW a \in Adjudikator, side'[a] # Ingen PROVE Sett(side[a], Hos[a])'
      <3>1. PICK x : x = side[a]
            OBVIOUS
      <3>2. Sett(x, Hos[a])'
            BY <1>2, <1>4, <1>5, <2>1, <3>1 DEF SettInv
      <3> QED BY <1>5, <3>1, <3>2 DEF Sett
    <2> QED BY <1>3, <1>5, <2>1 DEF SettInv, EnStemme
  <1>6. ASSUME NEW a \in Adjudikator,
               stemmer' = stemmer, sak' = sak,
               side' = [side EXCEPT ![a] = side'[a]],
               side'[a] # Ingen => Sett(side'[a], Hos[a])
        PROVE  SettInv' /\ EnStemme'
    <2>1. ASSUME NEW b \in Adjudikator, side'[b] # Ingen
          PROVE  Sett(side'[b], Hos[b])
      <3>1. CASE b = a
            BY <3>1, <2>1, <1>6
      <3>2. CASE b # a
            BY <3>2, <2>1, <1>6 DEF SettInv, TypInv, TypeOK
      <3> QED BY <3>1, <3>2
    <2> QED BY <1>6, <2>1 DEF SettInv, EnStemme, Sett
  <1>7. ASSUME NEW a \in Adjudikator, LesSide(a) PROVE SettInv' /\ EnStemme'
    <2>1. /\ stemmer' = stemmer /\ sak' = sak /\ sak \in Sak
          /\ sak.om.utf = Hos[a]
          /\ side' = [side EXCEPT ![a] = [trinn |-> "sett", id |-> sak.id,
                                          rev |-> sak.rev, gen |-> 0, om |-> sak.om]]
          BY <1>7 DEF LesSide, TypInv, TypeOK
    <2>2. side'[a] = [trinn |-> "sett", id |-> sak.id,
                      rev |-> sak.rev, gen |-> 0, om |-> sak.om]
          /\ side' = [side EXCEPT ![a] = side'[a]]
          BY <2>1 DEF TypInv, TypeOK
    <2>3. Sett(side'[a], Hos[a])
          BY <2>1, <2>2 DEF Sett, Sak
    <2> QED BY <1>6, <2>1, <2>2, <2>3
  <1>8. ASSUME NEW a \in Adjudikator, SlaaOppSak(a) PROVE SettInv' /\ EnStemme'
    <2>1. /\ stemmer' = stemmer /\ sak' = sak /\ side[a] # Ingen
          /\ side' = [side EXCEPT ![a] =
                        [side[a] EXCEPT !.trinn = "slaatt", !.gen = sak.om.gen]]
          BY <1>8 DEF SlaaOppSak
    <2>2. side[a] \in Side /\ Sett(side[a], Hos[a])
          BY <2>1 DEF TypInv, TypeOK, SettInv
    <2>3. /\ side' = [side EXCEPT ![a] = side'[a]]
          /\ side'[a].id = side[a].id /\ side'[a].rev = side[a].rev
          /\ side'[a].om = side[a].om
          BY <2>1, <2>2 DEF TypInv, TypeOK, Side
    <2>4. Sett(side'[a], Hos[a])
          BY <2>2, <2>3 DEF Sett
    <2> QED BY <1>6, <2>1, <2>3, <2>4
  <1>9. ASSUME NEW a \in Adjudikator, LukkSide(a) PROVE SettInv' /\ EnStemme'
    <2>1. /\ stemmer' = stemmer /\ sak' = sak
          /\ side' = [side EXCEPT ![a] = side'[a]] /\ side'[a] = Ingen
          BY <1>9 DEF LukkSide, TypInv, TypeOK
    <2> QED BY <1>6, <2>1
  <1>10. ASSUME NEW a \in Adjudikator, side' = [side EXCEPT ![a] = Ingen]
         PROVE  \A b \in Adjudikator : side'[b] # Ingen => Sett(side[b], Hos[b])'
    <2> SUFFICES ASSUME NEW b \in Adjudikator, side'[b] # Ingen
                 PROVE Sett(side[b], Hos[b])'
        OBVIOUS
    <2>1. side'[b] = side[b] /\ side[b] # Ingen
          BY <1>10 DEF TypInv, TypeOK
    <2>2. PICK x : x = side[b]
          OBVIOUS
    <2>3. Sett(x, Hos[b])'
          BY <1>2, <1>4, <2>1, <2>2 DEF SettInv
    <2> QED BY <2>1, <2>2, <2>3 DEF Sett
  <1>11. ASSUME NEW a \in Adjudikator, Godkjenn(a) PROVE SettInv' /\ EnStemme'
    <2>1. PICK min \in stemmer' :
             /\ stemmer' = stemmer \cup {min}
             /\ min.av = a /\ min.id = sak.id /\ min.rev = sak.rev
             /\ min.om = sak.om /\ min.om.utf = Hos[a]
          BY <1>11, MinStemme
    <2>2. ~HarStemt(a) /\ side' = [side EXCEPT ![a] = Ingen]
          BY <1>11 DEF Godkjenn, KanStemme
    <2>3. sak \in Sak /\ min.id \in Nat /\ min.rev \in Nat
          BY <2>1 DEF TypInv, TypeOK, Sak
    <2>4. Sett(min, Hos[min.av])
          BY <2>1, <2>3 DEF Sett
    <2>5. Sett(min, Hos[min.av])'
          BY <1>2, <2>3, <2>4
    <2>6. SettInv'
          BY <1>3, <1>10, <2>1, <2>2, <2>5 DEF SettInv
    <2>7. EnStemme'
          BY <2>1, <2>2 DEF EnStemme, HarStemt
    <2> QED BY <2>6, <2>7
  <1>12. ASSUME NEW a \in Adjudikator, Avvis(a) PROVE SettInv' /\ EnStemme'
    <2>1. side' = [side EXCEPT ![a] = Ingen] /\ stemmer' = stemmer
          BY <1>12 DEF Avvis
    <2> QED BY <1>3, <1>10, <2>1 DEF SettInv, EnStemme
  <1> QED BY <1>5, <1>7, <1>8, <1>9, <1>11, <1>12 DEF Next, vars, UtstedChallenge,
          ChallengeUtloper, VerifiseringUtloper, SlaaOppTXT, BekreftNei, Reappliker,
          Overta, VerifiserDirekte, Bekreft, Tilbakekall, EndreMedlem, VaktPlukk,
          VaktSok, VaktBekreft

LEMMA InitSett == Init => SettInv /\ EnStemme
  BY DEF Init, SettInv, EnStemme

LEMMA ToForskjellige ==
    ASSUME NEW S, Cardinality(S) >= 2
    PROVE  \E s, u \in S : s # u
  <1> SUFFICES ASSUME \A s, u \in S : s = u PROVE FALSE
      OBVIOUS
  <1>1. CASE S = {}
        BY <1>1, FS_EmptySet
  <1>2. CASE S # {}
    <2>1. PICK s \in S : TRUE
          BY <1>2
    <2>2. S = {s}
          BY <2>1
    <2>3. Cardinality({s}) = 1
          BY FS_Singleton
    <2> QED BY <2>2, <2>3
  <1> QED BY <1>1, <1>2

(* A conflict is decided in the challenger's favour only by two of its     *)
(* adjudicators, in the role, who had this very conflict before them       *)
(* (avgi_overtakelse_attestasjon), however often it changed and came back. *)
THEOREM ToSaa == Spec => ToSaKonflikten
  <1> DEFINE ToSett(t) ==
        \E s, u \in stemmer' :
            /\ s.av # u.av
            /\ {s.av, u.av} \subseteq Aktiv(t)
            /\ s.om = OmRaden(t) /\ u.om = OmRaden(t)
            /\ s.authz = medlem[s.av].authz /\ u.authz = medlem[u.av].authz
  <1>1. TypInv /\ ParteneStemmer /\ SettInv /\ EnStemme /\ NeiInv /\ [Next]_vars
        => \A t \in Tenant :
              rad[t].st = "avklaring_kreves" /\ rad'[t].st = "verifisert" => ToSett(t)
    <2> SUFFICES ASSUME TypInv, ParteneStemmer, SettInv, EnStemme, NeiInv, [Next]_vars,
                        NEW t \in Tenant,
                        rad[t].st = "avklaring_kreves", rad'[t].st = "verifisert"
                 PROVE  ToSett(t)
        OBVIOUS
    <2>1. PICK a \in Adjudikator : /\ t = Hos[a] /\ Godkjenn(a)
                                   /\ Cardinality(Tellende(stemmer')) >= 2
          BY NeiSteg DEF RadSteg
    <2>2. PICK min \in stemmer' :
             /\ stemmer' = stemmer \cup {min}
             /\ min.av = a /\ min.id = sak.id /\ min.rev = sak.rev
             /\ min.om = sak.om /\ min.om.utf = Hos[a]
          BY <2>1, MinStemme
    <2>3. sak.om = OmRaden(t)
          BY DEF ParteneStemmer, KonfliktHarSak, HarSak
    <2>4. PICK s, u \in Tellende(stemmer') : s # u
          BY <2>1, ToForskjellige
    <2>5. ASSUME NEW x \in Tellende(stemmer')
          PROVE  /\ x \in stemmer' /\ x.id = sak.id /\ x.rev = sak.rev
                 /\ x.om = sak.om /\ x.av \in Aktiv(t)
                 /\ x.authz = medlem[x.av].authz
      <3>1. /\ x \in stemmer' /\ x.id = sak.id /\ x.rev = sak.rev
            /\ medlem[x.av].aktiv /\ medlem[x.av].authz = x.authz
            BY DEF Tellende, Teller
      <3>2. x.om = sak.om /\ x.om.utf = Hos[x.av]
            BY <2>2, <3>1 DEF SettInv, Sett
      <3>3. x.av \in Adjudikator
            BY <2>2, <3>1 DEF TypInv, TypeOK
      <3>4. Hos[x.av] = t
            BY <2>3, <3>2 DEF OmRaden, Om
      <3> QED BY <3>1, <3>2, <3>3, <3>4 DEF Aktiv
    <2>6. EnStemme'
          BY SettSteg
    <2>7. s.av # u.av
          BY <2>4, <2>5, <2>6 DEF EnStemme
    <2> QED BY <2>3, <2>4, <2>5, <2>7
  <1> QED BY <1>1, InitTyp, TypSteg, InitPartene, ParteneSteg, InitNei, NeiSteg,
             InitSett, SettSteg, PTL DEF Spec, ToSaKonflikten
=============================================================================
