-------------------------- MODULE OppdragKoProofs --------------------------
(* Theorems about one order of the outbox, for any number of requests and  *)
(* claims, and any results.                                                *)
EXTENDS OppdragKo, WellFoundedInduction, TLAPS

-----------------------------------------------------------------------------
(* A non-empty set of naturals with a bound has a greatest member.         *)
LEMMA StorsteFinnes ==
    ASSUME NEW N \in Nat, NEW S \in SUBSET (0..N), S # {}
    PROVE  \E m \in S : \A n \in S : n <= m
  <1> DEFINE T == {t \in Nat : N - t \in S}
             R == OpToRel(<, Nat)
  <1>1. T # {}
    <2>1. PICK s \in S : TRUE
          OBVIOUS
    <2>2. N - s \in T
          BY <2>1
    <2> QED BY <2>2
  <1>2. PICK x \in T : \A y \in T : ~(<<y, x>> \in R)
        BY <1>1, NatLessThanWellFounded, WFMin, Zenon
  <1>3. \A y \in T : ~(y < x)
        BY <1>2 DEF OpToRel
  <1>4. \A n \in S : n <= N - x
    <2> TAKE n \in S
    <2>1. N - n \in T
          OBVIOUS
    <2> QED BY <1>3, <2>1
  <1> QED BY <1>4

-----------------------------------------------------------------------------
(* Operators of the model.                                                 *)

Sakstyper == [Aarsak -> SakStatus]

(* A case that is found or born for the order is never the one the order   *)
(* came from, and never waits for it.                                      *)
LEMMA SikretType ==
    ASSUME TypeOK, NEW A \in SUBSET (Aarsak \ {"opphav"})
    PROVE  /\ Sikret(A) \in Sakstyper
           /\ Sikret(A)["opphav"] = saker["opphav"]
           /\ \A a \in Aarsak \ {"opphav"} : Sikret(A)[a] \notin {"venter", "lost"}
  BY DEF TypeOK, Sikret, Sakstyper, SakStatus, Aarsak

(* The cases the code makes sure of are such cases.                        *)
LEMMA SikredeSaker ==
    /\ Sikkerhetssak \in SUBSET (Aarsak \ {"opphav"})
    /\ \A res : /\ Evidenssak \cup Oppfolging(res) \in SUBSET (Aarsak \ {"opphav"})
                /\ Feilsak(res) \in SUBSET (Aarsak \ {"opphav"})
  BY DEF Sikkerhetssak, Evidenssak, Oppfolging, Feilsak, Aarsak

(* Spending a capability changes no other one.                             *)
LEMMA BrentType ==
    ASSUME TypeOK, NEW g \in Gen, NEW res \in Resultat
    PROVE  /\ Brent(g, res) \in [Gen -> KapType]
           /\ Brent(g, res)[g].hash = res
           /\ Brent(g, res)[g].status = IF kap[g].status = "utstedt"
                                        THEN "brukt" ELSE kap[g].status
           /\ \A h \in Gen \ {g} : Brent(g, res)[h] = kap[h]
  BY DEF TypeOK, Brent, KapType, Hash

(* A no burns an issued capability, of the newest generation there is, and *)
(* no other.                                                               *)
LEMMA BrentAvNeiEr ==
    ASSUME TypeOK
    PROVE  \/ /\ BrentAvNei = kap
              /\ frist = "evidens" \/ \A g \in Gen : kap[g].status # "utstedt"
           \/ \E n \in Gen :
                 /\ kap[n].status = "utstedt"
                 /\ BrentAvNei = [kap EXCEPT ![n].status = "avvist"]
                 /\ \A g \in Gen : kap[g].status = "utstedt" => g <= n
  <1> DEFINE utstedt == {g \in Gen : kap[g].status = "utstedt"}
  <1>1. CASE frist = "evidens" \/ utstedt = {}
        BY <1>1 DEF BrentAvNei
  <1>2. CASE ~(frist = "evidens" \/ utstedt = {})
    <2> DEFINE nyeste == CHOOSE g \in utstedt : \A h \in utstedt : h <= g
    <2>1. utstedt \in SUBSET (0..MaksClaim) /\ MaksClaim \in Nat
          BY ClaimAntatt DEF Gen
    <2>2. \E g \in utstedt : \A h \in utstedt : h <= g
      <3> HIDE DEF utstedt
      <3> QED BY <1>2, <2>1, StorsteFinnes
    <2>3. nyeste \in utstedt /\ \A h \in utstedt : h <= nyeste
          BY <2>2
    <2>4. BrentAvNei = [kap EXCEPT ![nyeste].status = "avvist"]
          BY <1>2 DEF BrentAvNei
    <2> QED BY <2>3, <2>4
  <1> QED BY <1>1, <1>2

-----------------------------------------------------------------------------
(* The inductive invariant.                                                *)

(* A request past its arrival carries a result.                            *)
InnOK == \A i \in Innsending : inn[i].pc \in {"lest", "laast"} => inn[i].res \in Resultat

(* An open order has no result and no human's no, and one that is not      *)
(* claimed never was.                                                      *)
AapenOK ==
    /\ oppdrag.status \in Aapen =>
          oppdrag.gen <= MaksClaim /\ oppdrag.hash = Ingen /\ ~oppdrag.nei
    /\ oppdrag.status = "opprettet" => oppdrag.gen = 0

(* Only a spent capability has a result, and none is issued ahead.         *)
KapOK ==
    \A g \in Gen : /\ kap[g].hash # Ingen => kap[g].status \in {"brukt", "avvist"}
                   /\ g > oppdrag.gen => kap[g].status = "ingen"

IInv == TypeOK /\ InnOK /\ AapenOK /\ KapOK

SakerOK(s) ==
    /\ s \in Sakstyper
    /\ s["opphav"] = "ingen" <=> oppdrag.opphav # "m37_reparasjon"
    /\ \A a \in Aarsak \ {"opphav"} : s[a] \notin {"venter", "lost"}

(* A request that is replaced by a well-formed one.                        *)
LEMMA InnSteg ==
    ASSUME IInv, NEW i \in Innsending, NEW r \in InnType,
           r.pc \in {"lest", "laast"} => r.res \in Resultat,
           inn' = [inn EXCEPT ![i] = r]
    PROVE  inn' \in [Innsending -> InnType] /\ InnOK'
  BY DEF IInv, TypeOK, InnOK

LEMMA TomInnType == TomInn \in InnType /\ TomInn.pc = "ledig"
  <1>1. 1 \in Gen
        BY ClaimAntatt DEF Gen
  <1> QED BY <1>1 DEF TomInn, InnType, Hash

(* An answered request is well formed.                                     *)
LEMMA SvarInn ==
    ASSUME IInv, NEW i \in Innsending, NEW svar \in Tilsvar, Svar(i, svar)
    PROVE  inn' \in [Innsending -> InnType] /\ InnOK'
  <1> DEFINE r == [TomInn EXCEPT !.pc = "svart", !.gen = inn[i].gen,
                                 !.res = inn[i].res, !.svar = svar]
  <1>1. inn[i].gen \in Gen /\ inn[i].res \in Hash
        BY DEF IInv, TypeOK, InnType
  <1>2. r \in InnType /\ r.pc = "svart"
        BY <1>1, TomInnType DEF InnType, Tilsvar
  <1>3. inn' = [inn EXCEPT ![i] = r]
        BY DEF Svar
  <1> HIDE DEF r
  <1> QED BY <1>2, <1>3, InnSteg

LEMMA IkkeSvarInn ==
    ASSUME IInv, NEW i \in Innsending, IkkeSvar(i)
    PROVE  inn' \in [Innsending -> InnType] /\ InnOK'
  <1> DEFINE r == [TomInn EXCEPT !.pc = "svart"]
  <1>1. r \in InnType /\ r.pc = "svart"
        BY TomInnType DEF InnType
  <1>2. inn' = [inn EXCEPT ![i] = r]
        BY DEF IkkeSvar
  <1> HIDE DEF r
  <1> QED BY <1>1, <1>2, InnSteg

(* What a request has read is well formed.                                 *)
LEMMA SettType ==
    ASSUME IInv, NEW r \in InnType
    PROVE  Sett(r) \in InnType /\ Sett(r).pc = r.pc /\ Sett(r).res = r.res
  <1>1. r.gen \in Gen /\ r.iTide \in BOOLEAN
        BY DEF InnType
  <1>2. kap[r.gen].hash \in Hash /\ oppdrag.hash \in Hash
        BY <1>1 DEF IInv, TypeOK, KapType, OppdragType
  <1>3. (Gjeldende(r.gen) /\ r.iTide /\ kap[r.gen].status = "utstedt") \in BOOLEAN
        OBVIOUS
  <1> QED BY <1>2, <1>3 DEF Sett, InnType

(* What is told of a receipt is well formed.                               *)
LEMMA FoerType ==
    ASSUME IInv, NEW i \in Innsending, inn[i].pc = "laast",
           NEW h \in {"sen_kvittering", "artefakt"} \cup Strider, Foer(i, h)
    PROVE  historikk' \subseteq HendelseType
  <1>1. inn[i].res \in Resultat /\ oppdrag.nei \in BOOLEAN
        BY DEF IInv, TypeOK, InnOK, OppdragType
  <1> QED BY <1>1 DEF IInv, TypeOK, Foer, HendelseType

(* A spent capability keeps the capabilities in order.                     *)
LEMMA BrentKap ==
    ASSUME IInv, NEW i \in Innsending, inn[i].pc = "laast", Dom(i) = "ny",
           kap' = Brent(inn[i].gen, inn[i].res), oppdrag'.gen = oppdrag.gen
    PROVE  kap' \in [Gen -> KapType] /\ KapOK'
  <1> DEFINE g == inn[i].gen
             res == inn[i].res
  <1>1. g \in Gen /\ res \in Resultat
        BY DEF IInv, TypeOK, InnOK, InnType
  <1>2. Brenning(g, res, ~inn[i].kan) = "ny"
        BY DEF Dom
  <1>3. kap[g].status \in {"utstedt", "avvist"}
        BY <1>2 DEF Brenning
  <1> HIDE DEF g, res
  <1>4. /\ Brent(g, res) \in [Gen -> KapType]
        /\ Brent(g, res)[g].status \in {"brukt", "avvist"}
        /\ \A h \in Gen \ {g} : Brent(g, res)[h] = kap[h]
        BY <1>1, <1>3, BrentType DEF IInv
  <1>5. ~(g > oppdrag.gen)
        BY <1>1, <1>3 DEF IInv, KapOK
  <1>6. kap' = Brent(g, res)
        BY DEF g, res
  <1> QED BY <1>4, <1>5, <1>6 DEF IInv, KapOK

(* Cases that are made sure of stay well formed.                           *)
LEMMA SikretSaker ==
    ASSUME IInv, NEW A \in SUBSET (Aarsak \ {"opphav"})
    PROVE  SakerOK(Sikret(A))
  BY SikretType DEF IInv, TypeOK, SakerOK

(* The initial states satisfy the invariant.                               *)
LEMMA Start == Init => IInv
  <1> SUFFICES ASSUME Init PROVE IInv
      OBVIOUS
  <1>1. /\ oppdrag \in OppdragType
        /\ oppdrag.status = "opprettet" /\ oppdrag.gen = 0
        /\ oppdrag.hash = Ingen /\ oppdrag.nei = FALSE
    <2>1. 0 \in 0..(MaksClaim + 1)
          BY ClaimAntatt
    <2> QED BY <2>1 DEF Init, OppdragType, Hash
  <1>2. kap \in [Gen -> KapType] /\ \A g \in Gen : kap[g].hash = Ingen /\ kap[g].status = "ingen"
        BY DEF Init, KapType, Hash
  <1>3. SakerOK(saker)
        BY DEF Init, SakerOK, Sakstyper, SakStatus, Aarsak
  <1>4. inn \in [Innsending -> InnType] /\ InnOK
        BY TomInnType DEF Init, InnOK
  <1>5. AapenOK
        BY <1>1, ClaimAntatt DEF AapenOK
  <1> QED BY <1>1, <1>2, <1>3, <1>4, <1>5
          DEF Init, IInv, TypeOK, KapOK, SakerOK, Sakstyper

(* A human's no: the order, its capabilities and the case.                 *)
LEMMA AvvisSteg ==
    ASSUME IInv, NEW a \in Aarsak, Avvis(a)
    PROVE  IInv'
  <1>1. SakerOK(saker')
        BY DEF IInv, TypeOK, SakerOK, Sakstyper, SakStatus, Avvis
  <1>2. CASE oppdrag.status \in Aapen
    <2>1. /\ oppdrag' = [oppdrag EXCEPT !.status = "kansellert", !.nei = TRUE, !.lease = FALSE,
                            !.gen = IF oppdrag.status = "plukket" THEN oppdrag.gen + 1
                                    ELSE oppdrag.gen]
          /\ kap' = BrentAvNei
          BY <1>2 DEF Avvis, EtterNei, IInv, TypeOK, OppdragType
    <2>2. oppdrag.gen \in 0..MaksClaim /\ oppdrag.gen + 1 \in 0..(MaksClaim + 1)
          BY <1>2, ClaimAntatt DEF IInv, AapenOK, TypeOK, OppdragType
    <2>3. /\ oppdrag' \in OppdragType
          /\ oppdrag'.opphav = oppdrag.opphav /\ oppdrag'.status = "kansellert"
          /\ oppdrag'.gen \in {oppdrag.gen, oppdrag.gen + 1}
          BY <2>1, <2>2 DEF IInv, TypeOK, OppdragType
    <2>4. AapenOK'
          BY <2>3 DEF AapenOK, Aapen
    <2>5. kap' \in [Gen -> KapType] /\ KapOK'
      <3>1. \A g \in Gen : g > oppdrag'.gen => g > oppdrag.gen
            BY <2>2, <2>3 DEF Gen
      <3>2. CASE kap' = kap
            BY <3>1, <3>2 DEF IInv, TypeOK, KapOK
      <3>3. ASSUME NEW n \in Gen, kap[n].status = "utstedt",
                   kap' = [kap EXCEPT ![n].status = "avvist"]
            PROVE  kap' \in [Gen -> KapType] /\ KapOK'
        <4>1. kap' \in [Gen -> KapType]
              BY <3>3 DEF IInv, TypeOK, KapType
        <4>2. ~(n > oppdrag.gen)
              BY <3>3 DEF IInv, KapOK
        <4>3. \A g \in Gen : /\ kap'[g].hash = kap[g].hash
                             /\ kap'[g].status = IF g = n THEN "avvist" ELSE kap[g].status
              BY <3>3 DEF IInv, TypeOK, KapType
        <4> QED BY <3>1, <4>1, <4>2, <4>3 DEF IInv, KapOK
      <3> QED BY <2>1, <3>2, <3>3, BrentAvNeiEr DEF IInv
    <2> QED BY <1>1, <2>3, <2>4, <2>5 DEF IInv, TypeOK, InnOK, SakerOK, Sakstyper, Avvis
  <1>3. CASE oppdrag.status \notin Aapen
        BY <1>1, <1>3 DEF IInv, TypeOK, InnOK, AapenOK, KapOK, SakerOK, Sakstyper, Avvis
  <1> QED BY <1>2, <1>3

(* A step of a request.                                                    *)
LEMMA BareInn ==
    ASSUME IInv, inn' \in [Innsending -> InnType], InnOK',
           UNCHANGED <<oppdrag, frist, kap, saker, historikk>>
    PROVE  IInv'
  BY DEF IInv, TypeOK, AapenOK, KapOK

LEMMA LesSteg ==
    ASSUME IInv, NEW i \in Innsending, Les(i)
    PROVE  IInv'
  <1>1. PICK g \in Gen, res \in Resultat :
           inn' = [inn EXCEPT ![i] =
             Sett([TomInn EXCEPT !.pc = "lest", !.gen = g, !.res = res,
                                 !.iTide = frist = "apen"])]
        BY DEF Les
  <1> DEFINE r == [TomInn EXCEPT !.pc = "lest", !.gen = g, !.res = res,
                                 !.iTide = frist = "apen"]
  <1>2. r \in InnType /\ r.res = res
        BY TomInnType DEF InnType, Hash
  <1>3. inn' = [inn EXCEPT ![i] = Sett(r)]
        BY <1>1
  <1> HIDE DEF r
  <1>4. inn' \in [Innsending -> InnType] /\ InnOK'
        BY <1>2, <1>3, SettType, InnSteg
  <1> QED BY <1>4, BareInn DEF Les

LEMMA LaasSteg ==
    ASSUME IInv, NEW i \in Innsending, Laas(i)
    PROVE  IInv'
  <1> DEFINE mine == {a \in Aarsak : saker[a] # "ingen"}
             r == [inn[i] EXCEPT !.pc = "laast", !.laas = mine]
  <1>1. r \in InnType /\ r.res \in Resultat
        BY DEF IInv, TypeOK, InnOK, InnType, Laas
  <1>2. inn' = [inn EXCEPT ![i] = r] \/ inn' = [inn EXCEPT ![i] = Sett(r)]
        BY DEF Laas
  <1> HIDE DEF r
  <1>3. inn' \in [Innsending -> InnType] /\ InnOK'
        BY <1>1, <1>2, SettType, InnSteg
  <1> QED BY <1>3, BareInn DEF Laas

LEMMA GjensynSteg ==
    ASSUME IInv, NEW i \in Innsending, Gjensyn(i)
    PROVE  IInv'
  <1>1. PICK svar \in Tilsvar : Svar(i, svar)
        BY DEF Gjensyn, Tilsvar
  <1> QED BY <1>1, SvarInn, BareInn DEF Gjensyn

LEMMA StridSteg ==
    ASSUME IInv, NEW i \in Innsending, Strid(i)
    PROVE  IInv'
  <1>1. inn' \in [Innsending -> InnType] /\ InnOK'
        BY SvarInn DEF Strid, Tilsvar
  <1>2. SakerOK(saker')
        BY SikretSaker, SikredeSaker DEF Strid
  <1>3. historikk' \subseteq HendelseType
    <2>1. PICK h \in Strider : Foer(i, h)
          BY DEF Strid, Strider
    <2> QED BY <2>1, FoerType DEF Strid
  <1> QED BY <1>1, <1>2, <1>3
          DEF Strid, IInv, TypeOK, AapenOK, KapOK, SakerOK, Sakstyper

LEMMA ArtefaktSteg ==
    ASSUME IInv, NEW i \in Innsending, ArtefaktAvvist(i)
    PROVE  IInv'
  <1>1. inn' \in [Innsending -> InnType] /\ InnOK'
        BY SvarInn DEF ArtefaktAvvist, Tilsvar
  <1>2. SakerOK(saker')
        BY SikretSaker, SikredeSaker DEF ArtefaktAvvist
  <1>3. historikk' \subseteq HendelseType
        BY FoerType DEF ArtefaktAvvist
  <1>4. kap' \in [Gen -> KapType] /\ KapOK'
        BY BrentKap DEF ArtefaktAvvist
  <1> QED BY <1>1, <1>2, <1>3, <1>4
          DEF ArtefaktAvvist, IInv, TypeOK, AapenOK, SakerOK, Sakstyper

(* Late evidence touches the row of a rejected order only.                 *)
LEMMA SenSteg ==
    ASSUME IInv, NEW i \in Innsending, SenEvidens(i)
    PROVE  IInv'
  <1>1. inn' \in [Innsending -> InnType] /\ InnOK'
        BY SvarInn DEF SenEvidens, Tilsvar
  <1>2. SakerOK(saker')
        BY SikretSaker, SikredeSaker DEF SenEvidens
  <1>3. historikk' \subseteq HendelseType
        BY FoerType DEF SenEvidens
  <1>4. /\ oppdrag' \in OppdragType /\ oppdrag'.gen = oppdrag.gen
        /\ oppdrag'.opphav = oppdrag.opphav /\ AapenOK'
    <2>1. CASE oppdrag.nei /\ oppdrag.hash = Ingen
      <3>1. oppdrag' = [oppdrag EXCEPT !.hash = inn[i].res] /\ inn[i].res \in Hash
            BY <2>1 DEF SenEvidens, Lagre, IInv, TypeOK, InnType
      <3>2. oppdrag.status \notin Aapen
            BY <2>1 DEF IInv, AapenOK
      <3> QED BY <3>1, <3>2 DEF IInv, TypeOK, OppdragType, AapenOK, Aapen
    <2>2. CASE ~(oppdrag.nei /\ oppdrag.hash = Ingen)
          BY <2>2 DEF SenEvidens, Lagre, IInv, TypeOK, AapenOK
    <2> QED BY <2>1, <2>2
  <1>5. kap' \in [Gen -> KapType] /\ KapOK'
        BY <1>4, BrentKap DEF SenEvidens
  <1> QED BY <1>1, <1>2, <1>3, <1>4, <1>5 DEF SenEvidens, IInv, TypeOK, SakerOK, Sakstyper

LEMMA AvsluttSteg ==
    ASSUME IInv, NEW i \in Innsending, Avslutt(i)
    PROVE  IInv'
  <1> DEFINE res == inn[i].res
  <1>1. inn' \in [Innsending -> InnType] /\ InnOK'
        BY SvarInn DEF Avslutt, Tilsvar, StatusAv
  <1>2. SakerOK(saker')
    <2>1. SakerOK(Sikret(Feilsak(res)))
          BY SikretSaker, SikredeSaker
    <2> QED BY <2>1 DEF Avslutt, LukkSak, SakerOK, Sakstyper, SakStatus, Aarsak
  <1>3. /\ oppdrag' \in OppdragType /\ oppdrag'.gen = oppdrag.gen
        /\ oppdrag'.opphav = oppdrag.opphav /\ AapenOK'
    <2>1. oppdrag' = [oppdrag EXCEPT !.status = StatusAv(res), !.hash = res] /\ res \in Hash
          BY DEF Avslutt, IInv, TypeOK, InnType
    <2>2. StatusAv(res) \in {"utfort", "feilet"}
          BY DEF StatusAv
    <2> HIDE DEF res
    <2> QED BY <2>1, <2>2 DEF IInv, TypeOK, OppdragType, AapenOK, Aapen
  <1>4. kap' \in [Gen -> KapType] /\ KapOK'
        BY <1>3, BrentKap DEF Avslutt
  <1> QED BY <1>1, <1>2, <1>3, <1>4 DEF Avslutt, IInv, TypeOK, SakerOK, Sakstyper

(* Every step keeps the invariant.                                         *)
LEMMA Steg == IInv /\ [Next]_vars => IInv'
  <1> SUFFICES ASSUME IInv, [Next]_vars PROVE IInv'
      OBVIOUS
  <1>1. CASE Claim
    <2>1. oppdrag.gen \in 0..MaksClaim /\ oppdrag.gen < MaksClaim
          BY <1>1, ClaimAntatt DEF Claim, IInv, TypeOK, OppdragType
    <2>2. oppdrag.gen + 1 \in Gen
          BY <2>1, ClaimAntatt DEF Gen
    <2>3. /\ oppdrag' = [oppdrag EXCEPT !.status = "plukket", !.gen = oppdrag.gen + 1,
                                       !.lease = TRUE]
          /\ kap' = [kap EXCEPT ![oppdrag.gen + 1].status = "utstedt"]
          BY <1>1 DEF Claim, IInv, TypeOK, OppdragType
    <2>4. oppdrag' \in OppdragType /\ oppdrag'.gen = oppdrag.gen + 1
      <3>1. oppdrag.gen + 1 \in 0..(MaksClaim + 1)
            BY <2>1, ClaimAntatt
      <3>2. oppdrag \in OppdragType
            BY DEF IInv, TypeOK
      <3> QED BY <2>3, <3>1, <3>2 DEF OppdragType
    <2>5. AapenOK'
      <3>1. oppdrag.hash = Ingen /\ ~oppdrag.nei
            BY <1>1 DEF Claim, Claimbar, IInv, AapenOK, Aapen
      <3> QED BY <2>1, <2>3, <3>1, ClaimAntatt DEF IInv, TypeOK, OppdragType, AapenOK
    <2>6. kap' \in [Gen -> KapType] /\ KapOK'
      <3> DEFINE n == oppdrag.gen + 1
      <3>1. kap[n].hash = Ingen
        <4>1. n > oppdrag.gen
              BY <2>1
        <4>2. kap[n].status = "ingen"
              BY <2>2, <4>1 DEF IInv, KapOK
        <4> QED BY <2>2, <4>2 DEF IInv, KapOK
      <3>2. kap' \in [Gen -> KapType]
            BY <2>3 DEF IInv, TypeOK, KapType
      <3>3. \A g \in Gen : /\ kap'[g].hash = kap[g].hash
                           /\ kap'[g].status = IF g = n THEN "utstedt" ELSE kap[g].status
            BY <2>2, <2>3 DEF IInv, TypeOK, KapType
      <3>4. \A g \in Gen : g > oppdrag'.gen => g > oppdrag.gen /\ g # n
            BY <2>1, <2>4 DEF Gen
      <3> HIDE DEF n
      <3> QED BY <3>1, <3>2, <3>3, <3>4 DEF IInv, KapOK
    <2>7. oppdrag'.opphav = oppdrag.opphav
          BY <2>3 DEF IInv, TypeOK, OppdragType
    <2> QED BY <1>1, <2>4, <2>5, <2>6, <2>7 DEF Claim, IInv, TypeOK, InnOK
  <1>2. CASE LeaseUtloper
        BY <1>2 DEF LeaseUtloper, IInv, TypeOK, OppdragType, InnOK, AapenOK, KapOK
  <1>3. CASE FristUtloper
        BY <1>3 DEF FristUtloper, IInv, TypeOK, InnOK, AapenOK, KapOK
  <1>4. CASE Reap
    <2>1. {"evidensfrist"} \in SUBSET (Aarsak \ {"opphav"})
          BY DEF Aarsak
    <2>2. SakerOK(saker')
          BY <1>4, <2>1, SikretSaker DEF Reap
    <2>3. /\ oppdrag' \in OppdragType /\ oppdrag'.status = "feilet"
          /\ oppdrag'.gen = oppdrag.gen /\ oppdrag'.opphav = oppdrag.opphav
          BY <1>4 DEF Reap, IInv, TypeOK, OppdragType
    <2> QED BY <1>4, <2>2, <2>3
            DEF Reap, IInv, TypeOK, InnOK, AapenOK, Aapen, KapOK, SakerOK, Sakstyper
  <1>5. CASE Avbryt
        BY <1>5 DEF Avbryt, IInv, TypeOK, OppdragType, InnOK, AapenOK, Aapen, KapOK
  <1>6. ASSUME NEW i \in Innsending, Les(i) PROVE IInv'
        BY <1>6, LesSteg
  <1>7. ASSUME NEW i \in Innsending, Behandle(i) PROVE IInv'
    <2>1. CASE Laas(i)
          BY <2>1, LaasSteg
    <2>2. CASE Gjensyn(i)
          BY <2>2, GjensynSteg
    <2>3. CASE Strid(i)
          BY <2>3, StridSteg
    <2>4. CASE Ugyldig(i) \/ Feil(i)
          BY <2>4, IkkeSvarInn, BareInn DEF Ugyldig, Feil
    <2>5. CASE ArtefaktAvvist(i)
          BY <2>5, ArtefaktSteg
    <2>6. CASE SenEvidens(i)
          BY <2>6, SenSteg
    <2>7. CASE Avslutt(i)
          BY <2>7, AvsluttSteg
    <2> QED BY <1>7, <2>1, <2>2, <2>3, <2>4, <2>5, <2>6, <2>7 DEF Behandle
  <1>8. ASSUME NEW a \in Aarsak, Avvis(a) PROVE IInv'
        BY <1>8, AvvisSteg
  <1>9. ASSUME NEW a \in Aarsak, SettManuell(a) PROVE IInv'
    <2>1. SakerOK(saker')
          BY <1>9 DEF SettManuell, IInv, TypeOK, SakerOK, Sakstyper, SakStatus
    <2> QED BY <1>9, <2>1
            DEF SettManuell, IInv, TypeOK, InnOK, AapenOK, KapOK, SakerOK, Sakstyper
  <1>10. CASE UNCHANGED vars
         BY <1>10 DEF vars, IInv, TypeOK, InnOK, AapenOK, KapOK
  <1> QED BY <1>1, <1>2, <1>3, <1>4, <1>5, <1>6, <1>7, <1>8, <1>9, <1>10 DEF Next

LEMMA AlltidIInv == Spec => []IInv
  BY Start, Steg, PTL DEF Spec

(* Every reachable state of an order is well typed.                        *)
THEOREM Typekorrekt == Spec => []TypeOK
  <1>1. IInv => TypeOK
        BY DEF IInv
  <1> QED BY <1>1, AlltidIInv, PTL

-----------------------------------------------------------------------------
(* What has ended stays.                                                   *)

KapStaar == \A g \in Gen : /\ kap[g].hash # Ingen => kap'[g] = kap[g]
                           /\ kap[g].status \in {"brukt", "avvist"}
                                 => kap'[g].status = kap[g].status

OppdragStaar ==
    /\ oppdrag.status \notin Aapen => oppdrag'.status = oppdrag.status
    /\ oppdrag.hash # Ingen => oppdrag'.hash = oppdrag.hash

(* A receipt is judged new only for a capability that is issued, or burnt  *)
(* by a no and not yet used.                                               *)
LEMMA NyErUbrukt ==
    ASSUME NEW i \in Innsending, Dom(i) = "ny"
    PROVE  \/ kap[inn[i].gen].status = "utstedt"
           \/ kap[inn[i].gen].status = "avvist" /\ kap[inn[i].gen].hash = Ingen
  BY DEF Dom, Brenning

LEMMA BrentStaar ==
    ASSUME IInv, NEW i \in Innsending, inn[i].pc = "laast", Dom(i) = "ny",
           kap' = Brent(inn[i].gen, inn[i].res)
    PROVE  KapStaar
  <1> DEFINE n == inn[i].gen
  <1>1. n \in Gen /\ inn[i].res \in Resultat /\ TypeOK
        BY DEF IInv, TypeOK, InnType, InnOK
  <1>2. kap[n].hash = Ingen
        BY <1>1, NyErUbrukt DEF IInv, KapOK
  <1>3. \A g \in Gen \ {n} : kap'[g] = kap[g]
        BY <1>1, BrentType
  <1>4. kap'[n].status = IF kap[n].status = "utstedt" THEN "brukt" ELSE kap[n].status
        BY <1>1, BrentType
  <1> HIDE DEF n
  <1> QED BY <1>1, <1>2, <1>3, <1>4 DEF KapStaar

LEMMA AvvistStaar ==
    ASSUME IInv, kap' = BrentAvNei
    PROVE  KapStaar
  <1>1. CASE kap' = kap
        BY <1>1 DEF KapStaar
  <1>2. ASSUME NEW n \in Gen, kap[n].status = "utstedt",
               kap' = [kap EXCEPT ![n].status = "avvist"]
        PROVE  KapStaar
    <2>1. kap[n].hash = Ingen
          BY <1>2 DEF IInv, KapOK
    <2>2. \A g \in Gen \ {n} : kap'[g] = kap[g]
          BY <1>2 DEF IInv, TypeOK
    <2> QED BY <1>2, <2>1, <2>2 DEF KapStaar
  <1>3. TypeOK
        BY DEF IInv
  <1> QED BY <1>1, <1>2, <1>3, BrentAvNeiEr

LEMMA UtfallSteg ==
    ASSUME IInv, [Next]_vars
    PROVE  KapStaar /\ OppdragStaar
  <1>1. CASE Claim
    <2>1. oppdrag.gen + 1 \in Gen /\ oppdrag.gen + 1 > oppdrag.gen
          BY <1>1, ClaimAntatt DEF Claim, IInv, TypeOK, OppdragType, Gen
    <2>2. kap[oppdrag.gen + 1].status = "ingen" /\ kap[oppdrag.gen + 1].hash = Ingen
          BY <2>1 DEF IInv, KapOK
    <2>3. KapStaar
          BY <1>1, <2>1, <2>2 DEF Claim, IInv, TypeOK, KapType, KapStaar
    <2>4. OppdragStaar
          BY <1>1 DEF Claim, Claimbar, Aapen, IInv, TypeOK, OppdragType, OppdragStaar
    <2> QED BY <2>3, <2>4
  <1>2. CASE LeaseUtloper \/ FristUtloper \/ Reap \/ Avbryt
        BY <1>2 DEF LeaseUtloper, FristUtloper, Reap, Avbryt, IInv, TypeOK, OppdragType,
                    KapStaar, OppdragStaar
  <1>3. ASSUME NEW i \in Innsending, Les(i) PROVE KapStaar /\ OppdragStaar
        BY <1>3 DEF Les, KapStaar, OppdragStaar
  <1>4. ASSUME NEW i \in Innsending, Behandle(i) PROVE KapStaar /\ OppdragStaar
    <2>1. CASE Laas(i) \/ Gjensyn(i) \/ Strid(i) \/ Ugyldig(i) \/ Feil(i)
          BY <2>1 DEF Laas, Gjensyn, Strid, Ugyldig, Feil, KapStaar, OppdragStaar
    <2>2. CASE ArtefaktAvvist(i)
          BY <2>2, BrentStaar DEF ArtefaktAvvist, OppdragStaar
    <2>3. CASE SenEvidens(i)
      <3>1. KapStaar
            BY <2>3, BrentStaar DEF SenEvidens
      <3>2. OppdragStaar
            BY <2>3 DEF SenEvidens, Lagre, IInv, TypeOK, OppdragType, OppdragStaar
      <3> QED BY <3>1, <3>2
    <2>4. CASE Avslutt(i)
      <3>1. KapStaar
            BY <2>4, BrentStaar DEF Avslutt
      <3>2. OppdragStaar
            BY <2>4 DEF Avslutt, Lovlig, Aapen, IInv, TypeOK, OppdragType, OppdragStaar
      <3> QED BY <3>1, <3>2
    <2> QED BY <1>4, <2>1, <2>2, <2>3, <2>4 DEF Behandle
  <1>5. ASSUME NEW a \in Aarsak, Avvis(a) PROVE KapStaar /\ OppdragStaar
    <2>1. CASE oppdrag.status \in Aapen
      <3>1. KapStaar
            BY <1>5, <2>1, AvvistStaar DEF Avvis
      <3>2. OppdragStaar
            BY <1>5, <2>1 DEF Avvis, IInv, AapenOK, OppdragStaar
      <3> QED BY <3>1, <3>2
    <2>2. CASE oppdrag.status \notin Aapen
          BY <1>5, <2>2 DEF Avvis, KapStaar, OppdragStaar
    <2> QED BY <2>1, <2>2
  <1>6. ASSUME NEW a \in Aarsak, SettManuell(a) PROVE KapStaar /\ OppdragStaar
        BY <1>6 DEF SettManuell, KapStaar, OppdragStaar
  <1>7. CASE UNCHANGED vars
        BY <1>7 DEF vars, KapStaar, OppdragStaar
  <1> QED BY <1>1, <1>2, <1>3, <1>4, <1>5, <1>6, <1>7 DEF Next

(* The status of a closed order, the result stored on it, what a           *)
(* capability was spent on and its end are never changed again, however    *)
(* requests, owners, the reaper and the humans interleave.                 *)
THEOREM ForsteUtfall == Spec => ForsteUtfallStaar
  <1>1. IInv /\ [Next]_vars =>
          [ /\ oppdrag.status \notin Aapen => oppdrag'.status = oppdrag.status
            /\ oppdrag.hash # Ingen => oppdrag'.hash = oppdrag.hash
            /\ \A g \in Gen :
                  /\ kap[g].hash # Ingen => kap'[g] = kap[g]
                  /\ kap[g].status \in {"brukt", "avvist"}
                        => kap'[g].status = kap[g].status ]_vars
        BY UtfallSteg DEF KapStaar, OppdragStaar
  <1> QED BY <1>1, AlltidIInv, PTL DEF Spec, ForsteUtfallStaar

-----------------------------------------------------------------------------
(* A human's no stands.                                                    *)

(* NeiStenger is inductive relative to IInv; its last part is named here.  *)
EtterNeiEvidens ==
    oppdrag.hash # Ingen =>
        \E h \in historikk : /\ h.hendelse = "sen_kvittering" /\ h.nei
                             /\ h.res = oppdrag.hash

IngenLevende ==
    frist = "evidens" \/ \A g \in Gen : kap[g].status = "utstedt" => g < oppdrag.gen - 1

(* A step that adds no issued capability and leaves the order as it is.    *)
LEMMA NeiUendret ==
    ASSUME NeiStenger, oppdrag' = oppdrag, historikk \subseteq historikk',
           frist = "evidens" => frist' = "evidens",
           \A g \in Gen : kap'[g].status = "utstedt" => kap[g].status = "utstedt"
    PROVE  NeiStenger'
  BY DEF NeiStenger

(* Spending a capability does not issue one.                               *)
LEMMA BrentIkkeUtstedt ==
    ASSUME IInv, NEW i \in Innsending, inn[i].pc = "laast",
           kap' = Brent(inn[i].gen, inn[i].res)
    PROVE  \A g \in Gen : kap'[g].status = "utstedt" => kap[g].status = "utstedt"
  <1> DEFINE n == inn[i].gen
  <1>1. n \in Gen /\ inn[i].res \in Resultat /\ TypeOK
        BY DEF IInv, TypeOK, InnType, InnOK
  <1>2. \A g \in Gen \ {n} : kap'[g] = kap[g]
        BY <1>1, BrentType
  <1>3. kap'[n].status = IF kap[n].status = "utstedt" THEN "brukt" ELSE kap[n].status
        BY <1>1, BrentType
  <1> HIDE DEF n
  <1> QED BY <1>1, <1>2, <1>3

(* The no itself: it takes the newest owner's capability and fences it.    *)
LEMMA NeiFalt ==
    ASSUME IInv, NEW a \in Aarsak, Avvis(a), oppdrag.status \in Aapen
    PROVE  NeiStenger'
  <1>1. /\ oppdrag.hash = Ingen /\ oppdrag.gen \in 0..MaksClaim
        /\ oppdrag.status = "opprettet" => oppdrag.gen = 0
        BY ClaimAntatt DEF IInv, AapenOK, TypeOK, OppdragType
  <1>2. /\ oppdrag'.status = "kansellert" /\ oppdrag'.hash = Ingen
        /\ oppdrag'.gen = IF oppdrag.status = "plukket" THEN oppdrag.gen + 1
                          ELSE oppdrag.gen
        /\ kap' = BrentAvNei /\ frist' = frist
        BY <1>1 DEF Avvis, EtterNei, IInv, TypeOK, OppdragType
  <1>3. \A g \in Gen : kap[g].status = "utstedt" => ~(g > oppdrag.gen)
        BY DEF IInv, KapOK
  <1>4. IngenLevende'
    <2>1. CASE kap' = kap /\ (frist = "evidens" \/ \A g \in Gen : kap[g].status # "utstedt")
          BY <1>2, <2>1 DEF IngenLevende
    <2>2. ASSUME NEW n \in Gen, kap[n].status = "utstedt",
                 kap' = [kap EXCEPT ![n].status = "avvist"],
                 \A g \in Gen : kap[g].status = "utstedt" => g <= n
          PROVE  IngenLevende'
      <3>1. \A g \in Gen : kap'[g].status = "utstedt" => kap[g].status = "utstedt" /\ g # n
            BY <2>2 DEF IInv, TypeOK, KapType
      <3>2. n \in Nat \ {0} /\ n <= oppdrag.gen
            BY <1>1, <1>3, <2>2, ClaimAntatt DEF Gen
      <3>3. oppdrag.status = "plukket" /\ oppdrag'.gen = oppdrag.gen + 1
            BY <1>1, <1>2, <3>2 DEF Aapen
      <3>4. \A g \in Gen : kap'[g].status = "utstedt" => g < oppdrag'.gen - 1
        <4> TAKE g \in Gen
        <4> HAVE kap'[g].status = "utstedt"
        <4>1. g \in Nat /\ g <= n /\ g # n
              BY <2>2, <3>1, ClaimAntatt DEF Gen
        <4> QED BY <1>1, <3>2, <3>3, <4>1, ClaimAntatt
      <3> QED BY <3>4 DEF IngenLevende
    <2> QED BY <1>2, <2>1, <2>2, BrentAvNeiEr DEF IInv
  <1> QED BY <1>2, <1>4 DEF NeiStenger, IngenLevende

LEMMA NeiSteg ==
    ASSUME IInv, NeiStenger, [Next]_vars
    PROVE  NeiStenger'
  <1>1. CASE Claim
        BY <1>1 DEF Claim, Claimbar, IInv, AapenOK, Aapen, TypeOK, OppdragType, NeiStenger
  <1>2. CASE LeaseUtloper
        BY <1>2 DEF LeaseUtloper, IInv, TypeOK, OppdragType, NeiStenger
  <1>3. CASE FristUtloper
        BY <1>3, NeiUendret DEF FristUtloper
  <1>4. CASE Reap \/ Avbryt
        BY <1>4 DEF Reap, Avbryt, IInv, AapenOK, TypeOK, OppdragType, NeiStenger
  <1>5. ASSUME NEW i \in Innsending, Les(i) PROVE NeiStenger'
        BY <1>5, NeiUendret DEF Les
  <1>6. ASSUME NEW i \in Innsending, Behandle(i) PROVE NeiStenger'
    <2>1. CASE Laas(i) \/ Gjensyn(i) \/ Ugyldig(i) \/ Feil(i)
          BY <2>1, NeiUendret DEF Laas, Gjensyn, Ugyldig, Feil
    <2>2. CASE Strid(i)
          BY <2>2, NeiUendret DEF Strid, Foer
    <2>3. CASE ArtefaktAvvist(i)
          BY <2>3, NeiUendret, BrentIkkeUtstedt DEF ArtefaktAvvist, Foer
    <2>4. CASE SenEvidens(i)
      <3>1. \A g \in Gen : kap'[g].status = "utstedt" => kap[g].status = "utstedt"
            BY <2>4, BrentIkkeUtstedt DEF SenEvidens
      <3>2. CASE oppdrag.nei /\ oppdrag.hash = Ingen
        <4>1. /\ oppdrag'.status = oppdrag.status /\ oppdrag'.gen = oppdrag.gen
              /\ oppdrag'.hash = inn[i].res /\ frist' = frist
              BY <2>4, <3>2 DEF SenEvidens, Lagre, IInv, TypeOK, OppdragType
        <4>2. EtterNeiEvidens'
          <5> DEFINE h == [hendelse |-> "sen_kvittering", res |-> inn[i].res,
                           nei |-> oppdrag.nei]
          <5>1. h \in historikk'
                BY <2>4 DEF SenEvidens, Foer
          <5>2. h.hendelse = "sen_kvittering" /\ h.nei /\ h.res = oppdrag'.hash
                BY <3>2, <4>1
          <5> QED BY <5>1, <5>2 DEF EtterNeiEvidens
        <4> QED BY <3>1, <3>2, <4>1, <4>2 DEF NeiStenger, EtterNeiEvidens
      <3>3. CASE ~(oppdrag.nei /\ oppdrag.hash = Ingen)
            BY <2>4, <3>1, <3>3, NeiUendret DEF SenEvidens, Lagre, Foer
      <3> QED BY <3>2, <3>3
    <2>5. CASE Avslutt(i)
      <3>1. ~oppdrag.nei
            BY <2>5 DEF Avslutt, Lovlig, StatusAv, NeiStenger
      <3> QED BY <2>5, <3>1 DEF Avslutt, IInv, TypeOK, OppdragType, NeiStenger
    <2> QED BY <1>6, <2>1, <2>2, <2>3, <2>4, <2>5 DEF Behandle
  <1>7. ASSUME NEW a \in Aarsak, Avvis(a) PROVE NeiStenger'
    <2>1. CASE oppdrag.status \in Aapen
          BY <1>7, <2>1, NeiFalt
    <2>2. CASE oppdrag.status \notin Aapen
          BY <1>7, <2>2, NeiUendret DEF Avvis
    <2> QED BY <2>1, <2>2
  <1>8. ASSUME NEW a \in Aarsak, SettManuell(a) PROVE NeiStenger'
        BY <1>8, NeiUendret DEF SettManuell
  <1>9. CASE UNCHANGED vars
        BY <1>9, NeiUendret DEF vars
  <1> QED BY <1>1, <1>2, <1>3, <1>4, <1>5, <1>6, <1>7, <1>8, <1>9 DEF Next

(* After a human's no the order is cancelled for good, the owner it had    *)
(* has no live capability, and a receipt that was on its way when the no   *)
(* fell, or comes later, ends as evidence and never as the order's end.    *)
THEOREM NeiErEndelig == Spec => []NeiStenger
  <1>1. Init => NeiStenger
        BY DEF Init, NeiStenger
  <1> QED BY <1>1, NeiSteg, AlltidIInv, PTL DEF Spec

-----------------------------------------------------------------------------
(* What every step leaves in place.                                        *)

(* The origin and the contract of the order are for its life, the history  *)
(* only grows, and a case that is there stays there.                       *)
Fast == /\ oppdrag'.opphav = oppdrag.opphav /\ oppdrag'.rev = oppdrag.rev
        /\ historikk \subseteq historikk'
        /\ \A a \in Aarsak : saker[a] # "ingen" => saker'[a] # "ingen"

(* Making sure of cases makes no other one.                                *)
LEMMA SikretEr ==
    ASSUME TypeOK, NEW A \in SUBSET (Aarsak \ {"opphav"})
    PROVE  /\ \A a \in A : Sikret(A)[a] # "ingen"
           /\ \A a \in Aarsak \ A : Sikret(A)[a] = saker[a]
           /\ \A a \in Aarsak : saker[a] # "ingen" => Sikret(A)[a] # "ingen"
  BY DEF TypeOK, Sikret, IkkeTerminal

LEMMA LukkSakEr ==
    ASSUME NEW s \in Sakstyper, NEW res
    PROVE  /\ LukkSak(s, res) \in Sakstyper
           /\ \A a \in Aarsak \ {"opphav"} : LukkSak(s, res)[a] = s[a]
           /\ LukkSak(s, res)["opphav"] # "venter"
           /\ s["opphav"] # "ingen" => LukkSak(s, res)["opphav"] # "ingen"
           /\ LukkSak(s, res)["opphav"] = "lost" => s["opphav"] = "lost" \/ res \in Utfort
  BY DEF LukkSak, Sakstyper, SakStatus, Aarsak

LEMMA FastSteg ==
    ASSUME IInv, [Next]_vars
    PROVE  Fast
  <1>t. TypeOK /\ oppdrag \in OppdragType /\ saker \in Sakstyper
        BY DEF IInv, TypeOK, Sakstyper
  <1>1. CASE Claim \/ LeaseUtloper \/ FristUtloper \/ Avbryt
        BY <1>t, <1>1 DEF Claim, LeaseUtloper, FristUtloper, Avbryt, OppdragType, Fast
  <1>2. CASE Reap
    <2>1. {"evidensfrist"} \in SUBSET (Aarsak \ {"opphav"})
          BY DEF Aarsak
    <2> QED BY <1>t, <1>2, <2>1, SikretEr DEF Reap, OppdragType, Fast
  <1>3. ASSUME NEW i \in Innsending, Les(i) PROVE Fast
        BY <1>3 DEF Les, Fast
  <1>4. ASSUME NEW i \in Innsending, Behandle(i) PROVE Fast
    <2>1. CASE Laas(i) \/ Gjensyn(i) \/ Ugyldig(i) \/ Feil(i)
          BY <2>1 DEF Laas, Gjensyn, Ugyldig, Feil, Fast
    <2>2. CASE Strid(i)
          BY <1>t, <2>2, SikretEr, SikredeSaker DEF Strid, Foer, Fast
    <2>3. CASE ArtefaktAvvist(i)
          BY <1>t, <2>3, SikretEr, SikredeSaker DEF ArtefaktAvvist, Foer, Fast
    <2>4. CASE SenEvidens(i)
      <3>1. oppdrag'.opphav = oppdrag.opphav /\ oppdrag'.rev = oppdrag.rev
            BY <1>t, <2>4 DEF SenEvidens, Lagre, OppdragType
      <3> QED BY <1>t, <2>4, <3>1, SikretEr, SikredeSaker DEF SenEvidens, Foer, Fast
    <2>5. CASE Avslutt(i)
      <3>1. oppdrag'.opphav = oppdrag.opphav /\ oppdrag'.rev = oppdrag.rev
            BY <1>t, <2>5 DEF Avslutt, OppdragType
      <3> DEFINE s == Sikret(Feilsak(inn[i].res))
      <3>2. s \in Sakstyper /\ \A a \in Aarsak : saker[a] # "ingen" => s[a] # "ingen"
            BY <1>t, SikretType, SikretEr, SikredeSaker
      <3>3. saker' = LukkSak(s, inn[i].res) /\ historikk' = historikk
            BY <2>5 DEF Avslutt
      <3> HIDE DEF s
      <3> QED BY <3>1, <3>2, <3>3, LukkSakEr DEF Fast
    <2> QED BY <1>4, <2>1, <2>2, <2>3, <2>4, <2>5 DEF Behandle
  <1>5. ASSUME NEW a \in Aarsak, Avvis(a) PROVE Fast
        BY <1>t, <1>5 DEF Avvis, EtterNei, OppdragType, Sakstyper, Fast
  <1>6. ASSUME NEW a \in Aarsak, SettManuell(a) PROVE Fast
        BY <1>t, <1>6 DEF SettManuell, Sakstyper, Fast
  <1>7. CASE UNCHANGED vars
        BY <1>7 DEF vars, Fast
  <1> QED BY <1>1, <1>2, <1>3, <1>4, <1>5, <1>6, <1>7 DEF Next

-----------------------------------------------------------------------------
(* A signed result is not lost.                                            *)

HashHarKap == oppdrag.hash # Ingen => \E g \in Gen : kap[g].hash = oppdrag.hash
UtfortHarHash == oppdrag.status = "utfort" => oppdrag.hash \in Utfort
Spor(hash) == hash = oppdrag.hash \/ Foert("sen_kvittering", hash) \/ Foert("artefakt", hash)
KapHarSpor == \A g \in Gen : kap[g].hash # Ingen => Spor(kap[g].hash)

LEMMA ResultatEr ==
    ResultatHarKapabilitet <=> HashHarKap /\ UtfortHarHash /\ KapHarSpor
  BY DEF ResultatHarKapabilitet, HashHarKap, UtfortHarHash, KapHarSpor, Spor

(* What a step leaves of a result.                                         *)
SporEtter(hash) ==
    \/ hash = oppdrag'.hash
    \/ \E h \in historikk' : h.hendelse \in {"sen_kvittering", "artefakt"} /\ h.res = hash

LEMMA SporNaa ==
    ASSUME \A g \in Gen : kap'[g].hash # Ingen => SporEtter(kap'[g].hash)
    PROVE  KapHarSpor'
  BY DEF KapHarSpor, Spor, SporEtter, Foert

LEMMA SporBlir ==
    ASSUME IInv, Fast, OppdragStaar, ResultatHarKapabilitet, NEW g \in Gen,
           kap[g].hash # Ingen
    PROVE  SporEtter(kap[g].hash)
  <1>1. Spor(kap[g].hash)
        BY ResultatEr DEF KapHarSpor
  <1> QED BY <1>1 DEF Spor, SporEtter, Foert, Fast, OppdragStaar

(* The steps that store no result.                                         *)
LEMMA KapUendret ==
    ASSUME IInv, Fast, OppdragStaar, ResultatHarKapabilitet,
           oppdrag'.hash = oppdrag.hash,
           oppdrag'.status = "utfort" => oppdrag.status = "utfort",
           \A g \in Gen : kap'[g].hash = kap[g].hash
    PROVE  ResultatHarKapabilitet'
  <1>1. HashHarKap' /\ UtfortHarHash'
        BY ResultatEr DEF HashHarKap, UtfortHarHash
  <1>2. KapHarSpor'
        BY SporBlir, SporNaa
  <1> QED BY <1>1, <1>2
          DEF ResultatHarKapabilitet, HashHarKap, UtfortHarHash, KapHarSpor, Spor

(* A receipt that is judged new spends its capability on its result.       *)
LEMMA BrentHash ==
    ASSUME IInv, NEW i \in Innsending, inn[i].pc = "laast", Dom(i) = "ny",
           kap' = Brent(inn[i].gen, inn[i].res)
    PROVE  /\ inn[i].gen \in Gen /\ inn[i].res \in Resultat
           /\ kap'[inn[i].gen].hash = inn[i].res
           /\ \A g \in Gen \ {inn[i].gen} : kap'[g].hash = kap[g].hash
  <1>1. inn[i].gen \in Gen /\ inn[i].res \in Resultat
        BY DEF IInv, TypeOK, InnType, InnOK
  <1> QED BY <1>1, BrentType DEF IInv

(* ... and what leaves a trace of that result keeps the property, if the   *)
(* order takes it or stays as it is.                                       *)
LEMMA BrentSpor ==
    ASSUME IInv, Fast, KapStaar, OppdragStaar, ResultatHarKapabilitet,
           NEW i \in Innsending, inn[i].pc = "laast", Dom(i) = "ny",
           kap' = Brent(inn[i].gen, inn[i].res), SporEtter(inn[i].res),
           oppdrag'.hash \in {oppdrag.hash, inn[i].res},
           oppdrag'.status = "utfort" => oppdrag'.hash \in Utfort
    PROVE  ResultatHarKapabilitet'
  <1> DEFINE n == inn[i].gen
             res == inn[i].res
  <1>1. n \in Gen /\ kap'[n].hash = res /\ \A g \in Gen \ {n} : kap'[g].hash = kap[g].hash
        BY BrentHash
  <1>2. SporEtter(res) /\ oppdrag'.hash \in {oppdrag.hash, res}
        OBVIOUS
  <1> HIDE DEF n, res
  <1>3. \A g \in Gen \ {n} : kap'[g].hash # Ingen => SporEtter(kap'[g].hash)
        BY <1>1, SporBlir
  <1>4. KapHarSpor'
        BY <1>1, <1>2, <1>3, SporNaa
  <1>5. HashHarKap'
    <2>1. CASE oppdrag'.hash = res
          BY <1>1, <2>1 DEF HashHarKap
    <2>2. CASE oppdrag'.hash = oppdrag.hash /\ oppdrag.hash # Ingen
      <3>1. PICK g \in Gen : kap[g].hash = oppdrag.hash
            BY <2>2, ResultatEr DEF HashHarKap
      <3> QED BY <2>2, <3>1 DEF HashHarKap, KapStaar
    <2> QED BY <1>2, <2>1, <2>2 DEF HashHarKap
  <1> QED BY <1>4, <1>5
          DEF ResultatHarKapabilitet, HashHarKap, KapHarSpor, Spor

LEMMA ResultatSteg ==
    ASSUME IInv, NeiStenger, ResultatHarKapabilitet, [Next]_vars
    PROVE  ResultatHarKapabilitet'
  <1>a. Fast /\ KapStaar /\ OppdragStaar
        BY FastSteg, UtfallSteg
  <1>t. TypeOK /\ oppdrag \in OppdragType /\ kap \in [Gen -> KapType]
        BY DEF IInv, TypeOK
  <1>u. oppdrag.status = "utfort" => oppdrag.hash \in Utfort /\ oppdrag.hash # Ingen
        BY UtfortAntatt, IngenAntatt, ResultatEr DEF UtfortHarHash
  <1>1. CASE Claim
    <2>1. oppdrag.gen + 1 \in Gen
          BY <1>t, <1>1, ClaimAntatt DEF Claim, OppdragType, Gen
    <2> QED BY <1>a, <1>t, <1>1, <2>1, KapUendret DEF Claim, OppdragType, KapType
  <1>2. CASE LeaseUtloper \/ FristUtloper \/ Reap \/ Avbryt
        BY <1>a, <1>t, <1>2, KapUendret
           DEF LeaseUtloper, FristUtloper, Reap, Avbryt, OppdragType
  <1>3. ASSUME NEW i \in Innsending, Les(i) PROVE ResultatHarKapabilitet'
        BY <1>a, <1>3, KapUendret DEF Les
  <1>4. ASSUME NEW i \in Innsending, Behandle(i) PROVE ResultatHarKapabilitet'
    <2>1. CASE Laas(i) \/ Gjensyn(i) \/ Strid(i) \/ Ugyldig(i) \/ Feil(i)
          BY <1>a, <2>1, KapUendret DEF Laas, Gjensyn, Strid, Ugyldig, Feil
    <2>2. CASE ArtefaktAvvist(i)
      <3>1. [hendelse |-> "artefakt", res |-> inn[i].res, nei |-> oppdrag.nei] \in historikk'
            BY <2>2 DEF ArtefaktAvvist, Foer
      <3>2. SporEtter(inn[i].res)
            BY <3>1 DEF SporEtter
      <3> QED BY <1>a, <1>u, <2>2, <3>2, BrentSpor DEF ArtefaktAvvist
    <2>3. CASE SenEvidens(i)
      <3>1. [hendelse |-> "sen_kvittering", res |-> inn[i].res, nei |-> oppdrag.nei]
               \in historikk'
            BY <2>3 DEF SenEvidens, Foer
      <3>2. SporEtter(inn[i].res)
            BY <3>1 DEF SporEtter
      <3>3. oppdrag'.hash \in {oppdrag.hash, inn[i].res} /\ oppdrag'.status = oppdrag.status
            BY <1>t, <2>3 DEF SenEvidens, Lagre, OppdragType
      <3>4. oppdrag.status = "utfort" => oppdrag'.hash = oppdrag.hash
            BY <1>a, <1>u DEF OppdragStaar
      <3> QED BY <1>a, <1>u, <2>3, <3>2, <3>3, <3>4, BrentSpor DEF SenEvidens
    <2>4. CASE Avslutt(i)
      <3>1. /\ oppdrag'.hash = inn[i].res
            /\ oppdrag'.status = "utfort" => inn[i].res \in Utfort
            BY <1>t, <2>4 DEF Avslutt, StatusAv, OppdragType
      <3>2. SporEtter(inn[i].res)
            BY <3>1 DEF SporEtter
      <3> QED BY <1>a, <2>4, <3>1, <3>2, BrentSpor DEF Avslutt
    <2> QED BY <1>4, <2>1, <2>2, <2>3, <2>4 DEF Behandle
  <1>5. ASSUME NEW a \in Aarsak, Avvis(a) PROVE ResultatHarKapabilitet'
    <2>1. /\ oppdrag'.hash = oppdrag.hash
          /\ oppdrag'.status = "utfort" => oppdrag.status = "utfort"
          BY <1>t, <1>5 DEF Avvis, EtterNei, OppdragType
    <2>2. \A g \in Gen : kap'[g].hash = kap[g].hash
      <3>1. kap' = kap \/ kap' = BrentAvNei
            BY <1>5 DEF Avvis
      <3> QED BY <1>t, <3>1, BrentAvNeiEr DEF KapType
    <2> QED BY <1>a, <2>1, <2>2, KapUendret
  <1>6. ASSUME NEW a \in Aarsak, SettManuell(a) PROVE ResultatHarKapabilitet'
        BY <1>a, <1>6, KapUendret DEF SettManuell
  <1>7. CASE UNCHANGED vars
        BY <1>a, <1>7, KapUendret DEF vars
  <1> QED BY <1>1, <1>2, <1>3, <1>4, <1>5, <1>6, <1>7 DEF Next

LEMMA AlltidNei == Spec => []NeiStenger
  <1>1. Init => NeiStenger
        BY DEF Init, NeiStenger
  <1> QED BY <1>1, NeiSteg, AlltidIInv, PTL DEF Spec

(* A result stands on the order only if a capability was spent on it, and  *)
(* what a capability was spent on is on the order or in the history: a     *)
(* signed result is never lost (_ingest_kvittering).                       *)
THEOREM IngenResultatTapt == Spec => []ResultatHarKapabilitet
  <1>1. Init => ResultatHarKapabilitet
        BY DEF Init, ResultatHarKapabilitet
  <1> QED BY <1>1, ResultatSteg, AlltidIInv, AlltidNei, PTL DEF Spec

-----------------------------------------------------------------------------
(* Work done after a no is followed up.                                    *)

GjortEtterNei ==
    \E h \in historikk : h.hendelse = "sen_kvittering" /\ h.nei /\ h.res \in Utfort

LEMMA FolgesEr ==
    SenUtfortFolges <=> (saker["oppfolging"] # "ingen"
                            <=> oppdrag.rev # "direkte" /\ GjortEtterNei)
  BY DEF SenUtfortFolges, GjortEtterNei

(* The steps that neither make that case nor write late evidence.          *)
LEMMA FolgesUendret ==
    ASSUME SenUtfortFolges, Fast,
           saker["oppfolging"] = "ingen" => saker'["oppfolging"] = "ingen",
           \A h \in historikk' : h.hendelse = "sen_kvittering" => h \in historikk
    PROVE  SenUtfortFolges'
  <1>1. GjortEtterNei' <=> GjortEtterNei
        BY DEF GjortEtterNei, Fast
  <1>2. saker'["oppfolging"] = "ingen" <=> saker["oppfolging"] = "ingen"
        BY DEF Fast, Aarsak
  <1>3. SenUtfortFolges' <=> (saker'["oppfolging"] # "ingen"
                                <=> oppdrag'.rev # "direkte" /\ GjortEtterNei')
        BY DEF SenUtfortFolges, GjortEtterNei
  <1> QED BY <1>1, <1>2, <1>3, FolgesEr DEF Fast

LEMMA FolgesSteg ==
    ASSUME IInv, SenUtfortFolges, [Next]_vars
    PROVE  SenUtfortFolges'
  <1>a. Fast
        BY FastSteg
  <1>t. TypeOK /\ oppdrag \in OppdragType /\ saker \in Sakstyper /\ "oppfolging" \in Aarsak
        BY DEF IInv, TypeOK, Sakstyper, Aarsak
  <1>1. CASE Claim \/ LeaseUtloper \/ FristUtloper \/ Avbryt \/ UNCHANGED vars
        BY <1>a, <1>1, FolgesUendret DEF Claim, LeaseUtloper, FristUtloper, Avbryt, vars
  <1>2. CASE Reap
    <2>1. {"evidensfrist"} \in SUBSET (Aarsak \ {"opphav"})
          BY DEF Aarsak
    <2> QED BY <1>a, <1>t, <1>2, <2>1, SikretEr, FolgesUendret DEF Reap
  <1>3. ASSUME NEW i \in Innsending, Les(i) PROVE SenUtfortFolges'
        BY <1>a, <1>3, FolgesUendret DEF Les
  <1>4. ASSUME NEW i \in Innsending, Behandle(i) PROVE SenUtfortFolges'
    <2>1. CASE Laas(i) \/ Gjensyn(i) \/ Ugyldig(i) \/ Feil(i)
          BY <1>a, <2>1, FolgesUendret DEF Laas, Gjensyn, Ugyldig, Feil
    <2>2. CASE Strid(i) \/ ArtefaktAvvist(i)
      <3>1. saker' = Sikret(Sikkerhetssak) /\ "oppfolging" \notin Sikkerhetssak
            BY <2>2 DEF Strid, ArtefaktAvvist, Sikkerhetssak
      <3>2. \A h \in historikk' : h.hendelse = "sen_kvittering" => h \in historikk
            BY <2>2 DEF Strid, ArtefaktAvvist, Foer
      <3> QED BY <1>a, <1>t, <3>1, <3>2, SikretEr, SikredeSaker, FolgesUendret
    <2>3. CASE SenEvidens(i)
      <3> DEFINE A == Evidenssak \cup Oppfolging(inn[i].res)
                 h == [hendelse |-> "sen_kvittering", res |-> inn[i].res,
                       nei |-> oppdrag.nei]
      <3>1. A \in SUBSET (Aarsak \ {"opphav"}) /\ saker' = Sikret(A)
            BY <2>3, SikredeSaker DEF SenEvidens
      <3>2. "oppfolging" \in A <=> oppdrag.nei /\ inn[i].res \in Utfort
                                    /\ oppdrag.rev # "direkte"
            BY DEF Evidenssak, Oppfolging
      <3>3. historikk' = historikk \cup {h} /\ oppdrag'.rev = oppdrag.rev
            BY <1>a, <2>3 DEF SenEvidens, Foer, Fast
      <3>4. h.hendelse = "sen_kvittering" /\ h.res = inn[i].res /\ h.nei = oppdrag.nei
            OBVIOUS
      <3>5. GjortEtterNei' <=> GjortEtterNei \/ (oppdrag.nei /\ inn[i].res \in Utfort)
        <4> HIDE DEF h
        <4> QED BY <3>3, <3>4 DEF GjortEtterNei
      <3>6. IF "oppfolging" \in A THEN saker'["oppfolging"] # "ingen"
            ELSE saker'["oppfolging"] = saker["oppfolging"]
        <4> HIDE DEF A
        <4> QED BY <1>t, <3>1, SikretEr
      <3>7. saker["oppfolging"] # "ingen" => saker'["oppfolging"] # "ingen"
            BY <1>a, <1>t DEF Fast
      <3>8. SenUtfortFolges' <=> (saker'["oppfolging"] # "ingen"
                                    <=> oppdrag'.rev # "direkte" /\ GjortEtterNei')
            BY DEF SenUtfortFolges, GjortEtterNei
      <3> HIDE DEF A, h
      <3> QED BY <3>2, <3>3, <3>5, <3>6, <3>7, <3>8, FolgesEr
    <2>4. CASE Avslutt(i)
      <3> DEFINE s == Sikret(Feilsak(inn[i].res))
      <3>1. s \in Sakstyper /\ s["oppfolging"] = saker["oppfolging"]
        <4>1. "oppfolging" \notin Feilsak(inn[i].res)
              BY DEF Feilsak
        <4> QED BY <1>t, <4>1, SikretType, SikretEr, SikredeSaker
      <3>2. saker' = LukkSak(s, inn[i].res) /\ historikk' = historikk
            BY <2>4 DEF Avslutt
      <3> HIDE DEF s
      <3>3. saker'["oppfolging"] = saker["oppfolging"]
            BY <1>t, <3>1, <3>2, LukkSakEr
      <3> QED BY <1>a, <3>2, <3>3, FolgesUendret
    <2> QED BY <1>4, <2>1, <2>2, <2>3, <2>4 DEF Behandle
  <1>5. ASSUME NEW a \in Aarsak, Avvis(a) \/ SettManuell(a) PROVE SenUtfortFolges'
    <2>1. saker["oppfolging"] = "ingen" => saker'["oppfolging"] = "ingen"
          BY <1>t, <1>5 DEF Avvis, SettManuell, Sakstyper
    <2>2. historikk' = historikk
          BY <1>5 DEF Avvis, SettManuell
    <2> QED BY <1>a, <2>1, <2>2, FolgesUendret
  <1> QED BY <1>1, <1>2, <1>3, <1>4, <1>5 DEF Next

(* A human gets a follow-up case exactly when work was reported done after *)
(* a no and its effect does not undo itself (migration 043, section 5).    *)
THEOREM Folges == Spec => []SenUtfortFolges
  <1>1. Init => SenUtfortFolges
        BY DEF Init, SenUtfortFolges, Aarsak
  <1> QED BY <1>1, FolgesSteg, AlltidIInv, PTL DEF Spec

-----------------------------------------------------------------------------
(* The cases follow the order.                                             *)

(* While an M-37 order is open, its own case is the only one.              *)
M37Alene ==
    oppdrag.opphav = "m37_reparasjon" /\ oppdrag.status \in Aapen =>
        \A a \in Aarsak \ {"opphav"} : saker[a] = "ingen"

SakInv == SakFolgerOppdrag /\ M37Alene

(* The order ends as it is or stays closed; no case is made.               *)
LEMMA SakUendret ==
    ASSUME IInv, SakInv, Fast, oppdrag'.hash = oppdrag.hash,
           oppdrag'.status = oppdrag.status
              \/ (oppdrag.status \in Aapen /\ oppdrag'.status = "plukket"),
           \A a \in Aarsak : saker[a] = "ingen" => saker'[a] = "ingen",
           saker'["opphav"] \in {"venter", "lost"} => saker'["opphav"] = saker["opphav"]
    PROVE  SakInv'
  <1>1. "opphav" \in Aarsak /\ "evidensfrist" \in Aarsak /\ "utforelse_feilet" \in Aarsak
        BY DEF Aarsak
  <1> QED BY <1>1 DEF SakInv, SakFolgerOppdrag, M37Alene, Fast, Aapen

(* A case is made for an order that is closed, or not of M-37, and that    *)
(* keeps its status.                                                       *)
LEMMA SakSikret ==
    ASSUME IInv, SakInv, Fast, NEW A \in SUBSET (Aarsak \ {"opphav"}),
           saker' = Sikret(A), oppdrag'.status = oppdrag.status,
           oppdrag'.hash = oppdrag.hash \/ oppdrag.status = "kansellert",
           oppdrag.opphav = "m37_reparasjon" /\ oppdrag.status \in Aapen => A = {}
    PROVE  SakInv'
  <1>1. "opphav" \in Aarsak /\ "evidensfrist" \in Aarsak /\ "utforelse_feilet" \in Aarsak
        BY DEF Aarsak
  <1>2. saker'["opphav"] = saker["opphav"] /\ \A a \in Aarsak \ A : saker'[a] = saker[a]
        BY <1>1, SikretEr DEF IInv
  <1>3. SakFolgerOppdrag'
        BY <1>1, <1>2 DEF SakInv, SakFolgerOppdrag, Fast
  <1>4. M37Alene'
        BY <1>2 DEF SakInv, M37Alene, Fast
  <1> QED BY <1>3, <1>4 DEF SakInv

LEMMA SakSteg ==
    ASSUME IInv, NeiStenger, SakInv, [Next]_vars
    PROVE  SakInv'
  <1>a. Fast /\ OppdragStaar
        BY FastSteg, UtfallSteg
  <1>t. TypeOK /\ oppdrag \in OppdragType /\ saker \in Sakstyper
        BY DEF IInv, TypeOK, Sakstyper
  <1>n. /\ "opphav" \in Aarsak /\ "evidensfrist" \in Aarsak
        /\ "utforelse_feilet" \in Aarsak
        BY DEF Aarsak
  <1>u. oppdrag.opphav # "m37_reparasjon" => saker["opphav"] = "ingen"
        BY <1>t DEF TypeOK
  <1>1. CASE Claim \/ LeaseUtloper
        BY <1>a, <1>t, <1>1, SakUendret
           DEF Claim, Claimbar, LeaseUtloper, Aapen, OppdragType
  <1>2. CASE FristUtloper \/ UNCHANGED vars
        BY <1>a, <1>2, SakUendret DEF FristUtloper, vars
  <1>3. CASE Reap
    <2>1. {"evidensfrist"} \in SUBSET (Aarsak \ {"opphav"})
          BY DEF Aarsak
    <2>2. /\ saker'["opphav"] = saker["opphav"] /\ saker'["evidensfrist"] # "ingen"
          BY <1>t, <1>3, <1>n, <2>1, SikretEr DEF Reap
    <2>3. /\ saker["opphav"] = "ingen" /\ oppdrag'.status = "feilet"
          /\ oppdrag.opphav # "m37_reparasjon"
          BY <1>t, <1>u, <1>3 DEF Reap, Reapes, OppdragType
    <2>4. oppdrag'.hash = Ingen
          BY <1>t, <1>3 DEF Reap, IInv, AapenOK, OppdragType
    <2> QED BY <1>a, <2>2, <2>3, <2>4 DEF SakInv, SakFolgerOppdrag, M37Alene, Aapen, Fast
  <1>4. CASE Avbryt
    <2>1. /\ oppdrag'.status = "kansellert" /\ saker' = saker
          /\ saker["opphav"] = "ingen"
          BY <1>t, <1>u, <1>4 DEF Avbryt, OppdragType
    <2> QED BY <2>1 DEF SakInv, SakFolgerOppdrag, M37Alene, Aapen
  <1>5. ASSUME NEW i \in Innsending, Les(i) PROVE SakInv'
        BY <1>a, <1>5, SakUendret DEF Les
  <1>6. ASSUME NEW i \in Innsending, Behandle(i) PROVE SakInv'
    <2>1. CASE Laas(i) \/ Gjensyn(i) \/ Ugyldig(i) \/ Feil(i)
          BY <1>a, <2>1, SakUendret DEF Laas, Gjensyn, Ugyldig, Feil
    <2>2. CASE Strid(i) \/ ArtefaktAvvist(i)
      <3>1. saker' = Sikret(Sikkerhetssak) /\ oppdrag' = oppdrag
            BY <2>2 DEF Strid, ArtefaktAvvist
      <3>2. oppdrag.opphav = "m37_reparasjon" => Sikkerhetssak = {}
            BY DEF Sikkerhetssak
      <3> QED BY <1>a, <3>1, <3>2, SikredeSaker, SakSikret
    <2>3. CASE SenEvidens(i)
      <3> DEFINE A == Evidenssak \cup Oppfolging(inn[i].res)
      <3>1. A \in SUBSET (Aarsak \ {"opphav"}) /\ saker' = Sikret(A)
            BY <2>3, SikredeSaker DEF SenEvidens
      <3>2. oppdrag'.status = oppdrag.status
            BY <1>t, <2>3 DEF SenEvidens, Lagre, OppdragType
      <3>3. oppdrag'.hash = oppdrag.hash \/ oppdrag.status = "kansellert"
            BY <1>t, <2>3 DEF SenEvidens, Lagre, NeiStenger
      <3>4. oppdrag.opphav = "m37_reparasjon" /\ oppdrag.status \in Aapen => A = {}
            BY DEF Evidenssak, Oppfolging, IInv, AapenOK
      <3> HIDE DEF A
      <3> QED BY <1>a, <3>1, <3>2, <3>3, <3>4, SakSikret
    <2>4. CASE Avslutt(i)
      <3> DEFINE res == inn[i].res
                 s == Sikret(Feilsak(res))
      <3>1. /\ s \in Sakstyper
            /\ s["opphav"] = saker["opphav"]
            /\ res \notin Utfort /\ oppdrag.rev = "kompenserende"
                  => s["utforelse_feilet"] # "ingen"
        <4>1. res \notin Utfort /\ oppdrag.rev = "kompenserende"
                 => "utforelse_feilet" \in Feilsak(res)
              BY DEF Feilsak
        <4> QED BY <1>t, <1>n, <4>1, SikretType, SikretEr, SikredeSaker
      <3>2. /\ saker' = LukkSak(s, res)
            /\ oppdrag'.status = StatusAv(res) /\ oppdrag'.hash = res
            BY <1>t, <2>4 DEF Avslutt, OppdragType
      <3>3. res \in Resultat
            BY <2>4 DEF Avslutt, IInv, InnOK
      <3>4. oppdrag.status # "utfort" \/ StatusAv(res) = "utfort"
            BY <2>4 DEF Avslutt, Lovlig
      <3> HIDE DEF s, res
      <3>5. /\ saker'["opphav"] # "venter"
            /\ saker'["opphav"] = "lost" => saker["opphav"] = "lost" \/ res \in Utfort
            /\ saker'["utforelse_feilet"] = s["utforelse_feilet"]
            BY <1>n, <3>1, <3>2, LukkSakEr
      <3>6. saker["opphav"] = "lost" => oppdrag.status = "utfort"
            BY DEF SakInv, SakFolgerOppdrag
      <3> QED BY <1>a, <3>1, <3>2, <3>3, <3>4, <3>5, <3>6, IngenAntatt
              DEF SakInv, SakFolgerOppdrag, M37Alene, Aapen, StatusAv, Fast
    <2> QED BY <1>6, <2>1, <2>2, <2>3, <2>4 DEF Behandle
  <1>7. ASSUME NEW a \in Aarsak, Avvis(a) PROVE SakInv'
    <2>1. /\ saker' = [saker EXCEPT ![a] = "avvist"] /\ saker[a] = "manuell"
          BY <1>7 DEF Avvis
    <2>2. CASE oppdrag.status \in Aapen
      <3>1. oppdrag'.status = "kansellert"
            BY <1>t, <1>7, <2>2 DEF Avvis, EtterNei, OppdragType
      <3>2. saker'["opphav"] \notin {"venter", "lost"}
        <4>1. CASE a = "opphav"
              BY <1>t, <2>1, <4>1 DEF Sakstyper
        <4>2. CASE a # "opphav"
          <5>1. oppdrag.opphav # "m37_reparasjon"
                BY <2>1, <2>2, <4>2 DEF SakInv, M37Alene
          <5> QED BY <1>t, <1>n, <1>u, <2>1, <4>2, <5>1 DEF Sakstyper
        <4> QED BY <4>1, <4>2
      <3> QED BY <3>1, <3>2 DEF SakInv, SakFolgerOppdrag, M37Alene, Aapen
    <2>3. CASE oppdrag.status \notin Aapen
      <3>1. oppdrag' = oppdrag
            BY <1>7, <2>3 DEF Avvis
      <3>2. /\ \A b \in Aarsak : saker[b] = "ingen" => saker'[b] = "ingen"
            /\ saker'["opphav"] \in {"venter", "lost"} => saker'["opphav"] = saker["opphav"]
            BY <1>t, <1>n, <2>1 DEF Sakstyper
      <3> QED BY <1>a, <3>1, <3>2, SakUendret
    <2> QED BY <2>2, <2>3
  <1>8. ASSUME NEW a \in Aarsak, SettManuell(a) PROVE SakInv'
    <2>1. oppdrag' = oppdrag
          BY <1>8 DEF SettManuell
    <2>2. /\ \A b \in Aarsak : saker[b] = "ingen" => saker'[b] = "ingen"
          /\ saker'["opphav"] \in {"venter", "lost"} => saker'["opphav"] = saker["opphav"]
          BY <1>t, <1>n, <1>8 DEF SettManuell, Sakstyper
    <2> QED BY <1>a, <2>1, <2>2, SakUendret
  <1> QED BY <1>1, <1>2, <1>3, <1>4, <1>5, <1>6, <1>7, <1>8 DEF Next

(* The case an M-37 order came from waits only while the order is open and *)
(* is solved only by work done; an order that failed without an answer, or *)
(* under a compensating contract, has a case (lukk_sak, 043 and 209).      *)
THEOREM SakFolger == Spec => []SakFolgerOppdrag
  <1>1. Init => SakInv
        BY DEF Init, SakInv, SakFolgerOppdrag, M37Alene, Aapen, Aarsak
  <1>2. SakInv => SakFolgerOppdrag
        BY DEF SakInv
  <1> QED BY <1>1, <1>2, SakSteg, AlltidIInv, AlltidNei, PTL DEF Spec

-----------------------------------------------------------------------------
(* What an owner was told is so.                                           *)

(* Of a request r: what it has read is so still, and what it was told.     *)
LestEr(r, k, o) ==
    r.pc \in {"lest", "laast"} =>
        /\ r.svar = Ingen
        /\ r.kapHash # Ingen => k[r.gen].hash = r.kapHash
        /\ r.hash # Ingen => o.hash = r.hash

SantEr(r, k, o, h) ==
    LET sent == \E e \in h : e.hendelse = "sen_kvittering" /\ e.res = r.res
    IN  /\ r.svar # Ingen => r.pc = "svart" /\ r.res \in Resultat
        /\ r.svar \in {"utfort", "feilet", "idempotent"}
              => o.hash = r.res /\ o.status = StatusAv(r.res)
        /\ r.svar = "lagret" => k[r.gen].hash = r.res /\ sent
        /\ r.svar = "idempotent_uten" => sent
        /\ r.svar = "konflikt" => \E e \in h : e.res = r.res /\ e.hendelse # "sen_kvittering"

Holder(r, k, o, h) == LestEr(r, k, o) /\ SantEr(r, k, o, h)

(* A stored result that no human said no to ended the order.               *)
ResultatOK == oppdrag.hash # Ingen => oppdrag.nei \/ oppdrag.status = StatusAv(oppdrag.hash)

SvarInv == ResultatOK /\ \A i \in Innsending : Holder(inn[i], kap, oppdrag, historikk)

LEMMA SantFolger == SvarInv => SvarErSant
  BY DEF SvarInv, Holder, SantEr, SvarErSant, Foert

(* No step of another takes it back: results, ends and traces stay.        *)
LEMMA HolderBlir ==
    ASSUME Fast, KapStaar, OppdragStaar, NEW r \in InnType,
           Holder(r, kap, oppdrag, historikk)
    PROVE  Holder(r, kap', oppdrag', historikk')
  <1>1. r.gen \in Gen /\ Ingen \notin Resultat /\ StatusAv(r.res) \notin Aapen
        BY IngenAntatt DEF InnType, StatusAv, Aapen
  <1>2. LestEr(r, kap', oppdrag')
        BY <1>1 DEF Holder, LestEr, KapStaar, OppdragStaar
  <1>3. SantEr(r, kap', oppdrag', historikk')
    <2>1. CASE r.svar = Ingen
          BY <2>1, IngenAntatt DEF SantEr, Tilsvar
    <2>2. CASE r.svar # Ingen
      <3>1. r.pc = "svart" /\ r.res \in Resultat /\ r.res # Ingen
            BY <1>1, <2>2 DEF Holder, SantEr
      <3>2. SantEr(r, kap, oppdrag, historikk)
            BY DEF Holder
      <3> QED BY <1>1, <3>1, <3>2 DEF SantEr, Fast, KapStaar, OppdragStaar
    <2> QED BY <2>1, <2>2
  <1> QED BY <1>2, <1>3 DEF Holder

LEMMA ResultatOKSteg ==
    ASSUME IInv, NeiStenger, ResultatOK, [Next]_vars
    PROVE  ResultatOK'
  <1>t. oppdrag \in OppdragType
        BY DEF IInv, TypeOK
  <1>o. oppdrag.status \in Aapen => oppdrag.hash = Ingen
        BY DEF IInv, AapenOK
  <1>1. CASE Claim \/ LeaseUtloper \/ Reap \/ Avbryt
        BY <1>t, <1>o, <1>1
           DEF Claim, Claimbar, LeaseUtloper, Reap, Avbryt, Aapen, OppdragType, ResultatOK
  <1>2. CASE FristUtloper \/ UNCHANGED vars
        BY <1>2 DEF FristUtloper, vars, ResultatOK
  <1>3. ASSUME NEW i \in Innsending, Les(i) PROVE ResultatOK'
        BY <1>3 DEF Les, ResultatOK
  <1>4. ASSUME NEW i \in Innsending, Behandle(i) PROVE ResultatOK'
    <2>1. CASE \/ Laas(i) \/ Gjensyn(i) \/ Strid(i) \/ Ugyldig(i)
               \/ ArtefaktAvvist(i) \/ Feil(i)
          BY <2>1 DEF Laas, Gjensyn, Strid, Ugyldig, ArtefaktAvvist, Feil, ResultatOK
    <2>2. CASE SenEvidens(i)
          BY <1>t, <2>2 DEF SenEvidens, Lagre, OppdragType, ResultatOK
    <2>3. CASE Avslutt(i)
      <3>1. oppdrag'.hash = inn[i].res /\ oppdrag'.status = StatusAv(inn[i].res)
            BY <1>t, <2>3 DEF Avslutt, OppdragType
      <3> QED BY <3>1 DEF ResultatOK
    <2> QED BY <1>4, <2>1, <2>2, <2>3 DEF Behandle
  <1>5. ASSUME NEW a \in Aarsak, Avvis(a) PROVE ResultatOK'
        BY <1>t, <1>5 DEF Avvis, EtterNei, OppdragType, ResultatOK
  <1>6. ASSUME NEW a \in Aarsak, SettManuell(a) PROVE ResultatOK'
        BY <1>6 DEF SettManuell, ResultatOK
  <1> QED BY <1>1, <1>2, <1>3, <1>4, <1>5, <1>6 DEF Next

(* A request that was told svar, and what must be so for it.               *)
LEMMA SvarHolder ==
    ASSUME IInv, NEW i \in Innsending, inn[i].pc = "laast",
           NEW svar \in Tilsvar, Svar(i, svar),
           svar \in {"utfort", "feilet", "idempotent"}
              => oppdrag'.hash = inn[i].res /\ oppdrag'.status = StatusAv(inn[i].res),
           svar = "lagret" => kap'[inn[i].gen].hash = inn[i].res,
           svar \in {"lagret", "idempotent_uten"} =>
              \E e \in historikk' : e.hendelse = "sen_kvittering" /\ e.res = inn[i].res,
           svar = "konflikt" =>
              \E e \in historikk' : e.res = inn[i].res /\ e.hendelse # "sen_kvittering"
    PROVE  /\ \A j \in Innsending \ {i} : inn'[j] = inn[j]
           /\ Holder(inn'[i], kap', oppdrag', historikk')
  <1> DEFINE r == [TomInn EXCEPT !.pc = "svart", !.gen = inn[i].gen,
                                 !.res = inn[i].res, !.svar = svar]
  <1>1. inn' = [inn EXCEPT ![i] = r] /\ inn \in [Innsending -> InnType]
        BY DEF Svar, IInv, TypeOK
  <1>2. /\ r.pc = "svart" /\ r.gen = inn[i].gen
        /\ r.res = inn[i].res /\ r.svar = svar
        BY DEF TomInn
  <1>3. inn[i].res \in Resultat
        BY DEF IInv, InnOK
  <1> HIDE DEF r
  <1>4. inn'[i] = r /\ \A j \in Innsending \ {i} : inn'[j] = inn[j]
        BY <1>1
  <1>5. LestEr(r, kap', oppdrag')
        BY <1>2 DEF LestEr
  <1>6. SantEr(r, kap', oppdrag', historikk')
        BY <1>2, <1>3 DEF SantEr
  <1> QED BY <1>4, <1>5, <1>6 DEF Holder

LEMMA IkkeSvarHolder ==
    ASSUME IInv, NEW i \in Innsending, IkkeSvar(i)
    PROVE  /\ \A j \in Innsending \ {i} : inn'[j] = inn[j]
           /\ Holder(inn'[i], kap', oppdrag', historikk')
  BY IngenAntatt DEF IkkeSvar, IInv, TypeOK, TomInn, Tilsvar, Holder, LestEr, SantEr

(* What is read is so.                                                     *)
LEMMA SettHolder ==
    ASSUME IInv, NEW r \in InnType, r.svar = Ingen
    PROVE  Holder(Sett(r), kap, oppdrag, historikk)
  <1>1. Sett(r).svar = Ingen /\ Sett(r).gen = r.gen
        BY DEF Sett, InnType
  <1>2. Sett(r).kapHash = kap[r.gen].hash /\ Sett(r).hash = oppdrag.hash
        BY DEF Sett, InnType
  <1> QED BY <1>1, <1>2, IngenAntatt DEF Holder, LestEr, SantEr, Tilsvar

(* A receipt that was seen before: its result is on its capability.        *)
LEMMA GjensynEr ==
    ASSUME IInv, SvarInv, NEW i \in Innsending, Gjensyn(i)
    PROVE  \/ oppdrag.hash = inn[i].res
           \/ \E g \in Gen : kap[g].hash = inn[i].res
  <1>1. LestEr(inn[i], kap, oppdrag) /\ inn[i].gen \in Gen /\ inn[i].pc = "laast"
        BY DEF SvarInv, Holder, IInv, TypeOK, InnType, Gjensyn
  <1>2. Dom(i) = "gjensyn"
        BY DEF Gjensyn
  <1>3. CASE inn[i].kapHash # Ingen
    <2>1. inn[i].kapHash = inn[i].res
          BY <1>2, <1>3 DEF Dom
    <2> QED BY <1>1, <1>3, <2>1 DEF LestEr
  <1>4. CASE inn[i].kapHash = Ingen /\ inn[i].hash # Ingen
    <2>1. inn[i].hash = inn[i].res
          BY <1>2, <1>4 DEF Dom
    <2> QED BY <1>1, <1>4, <2>1 DEF LestEr
  <1>5. CASE inn[i].kapHash = Ingen /\ inn[i].hash = Ingen
    <2>1. Brenning(inn[i].gen, inn[i].res, ~inn[i].kan) = "gjensyn"
          BY <1>2, <1>5 DEF Dom
    <2>2. kap[inn[i].gen].hash = inn[i].res
          BY <2>1 DEF Brenning
    <2> QED BY <1>1, <2>2
  <1> QED BY <1>3, <1>4, <1>5

LEMMA GjensynHolder ==
    ASSUME IInv, NeiStenger, ResultatHarKapabilitet, SvarInv,
           NEW i \in Innsending, Gjensyn(i)
    PROVE  /\ \A j \in Innsending \ {i} : inn'[j] = inn[j]
           /\ Holder(inn'[i], kap', oppdrag', historikk')
  <1> DEFINE res == inn[i].res
  <1>1. /\ inn[i].pc = "laast" /\ res \in Resultat /\ res # Ingen
        /\ UNCHANGED <<oppdrag, kap, historikk>>
        BY IngenAntatt DEF Gjensyn, IInv, InnOK
  <1>2. CASE AltAvvist(res) /\ Svar(i, "konflikt")
        BY <1>1, <1>2, SvarHolder DEF AltAvvist, Tilsvar
  <1>3. CASE Skiftet(res) /\ Svar(i, "idempotent")
    <2>1. oppdrag.hash = res /\ oppdrag.status \in {"utfort", "feilet"}
          BY <1>3 DEF Skiftet
    <2>2. oppdrag.status = StatusAv(res)
          BY <1>1, <2>1 DEF SvarInv, ResultatOK, NeiStenger
    <2> QED BY <1>1, <1>3, <2>1, <2>2, SvarHolder DEF Tilsvar
  <1>4. CASE ~AltAvvist(res) /\ ~Skiftet(res) /\ Svar(i, "idempotent_uten")
    <2>1. Foert("sen_kvittering", res)
      <3>1. CASE oppdrag.hash = res
        <4>1. oppdrag.status \notin {"utfort", "feilet"}
              BY <1>4, <3>1 DEF Skiftet
        <4>2. oppdrag.nei
              BY <1>1, <3>1, <4>1 DEF SvarInv, ResultatOK, StatusAv
        <4> QED BY <1>1, <3>1, <4>2 DEF NeiStenger, Foert
      <3>2. CASE oppdrag.hash # res
        <4>1. PICK g \in Gen : kap[g].hash = res
              BY <3>2, GjensynEr
        <4>2. Foert("sen_kvittering", res) \/ Foert("artefakt", res)
              BY <1>1, <3>2, <4>1, ResultatEr DEF KapHarSpor, Spor
        <4> QED BY <1>4, <4>2 DEF AltAvvist, Foert
      <3> QED BY <3>1, <3>2
    <2> QED BY <1>1, <1>4, <2>1, SvarHolder DEF Foert, Tilsvar
  <1> QED BY <1>2, <1>3, <1>4 DEF Gjensyn

(* A step that leaves the requests alone, or is one request's.             *)
LEMMA AlleHolder ==
    ASSUME IInv, Fast, KapStaar, OppdragStaar, SvarInv, ResultatOK',
           \/ inn' = inn
           \/ \E i \in Innsending : /\ \A j \in Innsending \ {i} : inn'[j] = inn[j]
                                    /\ Holder(inn'[i], kap', oppdrag', historikk')
    PROVE  SvarInv'
  <1>1. ASSUME NEW j \in Innsending, inn'[j] = inn[j]
        PROVE  Holder(inn'[j], kap', oppdrag', historikk')
    <2>1. inn[j] \in InnType /\ Holder(inn[j], kap, oppdrag, historikk)
          BY DEF IInv, TypeOK, SvarInv
    <2>2. Holder(inn[j], kap', oppdrag', historikk')
          BY <2>1, HolderBlir
    <2> QED BY <1>1, <2>2
  <1>2. \A j \in Innsending : Holder(inn'[j], kap', oppdrag', historikk')
        BY <1>1
  <1> QED BY <1>2 DEF SvarInv

LEMMA SvarSteg ==
    ASSUME IInv, NeiStenger, ResultatHarKapabilitet, SvarInv, [Next]_vars
    PROVE  SvarInv'
  <1>a. Fast /\ KapStaar /\ OppdragStaar /\ ResultatOK'
        BY FastSteg, UtfallSteg, ResultatOKSteg DEF SvarInv
  <1>1. CASE \/ Claim \/ LeaseUtloper \/ FristUtloper \/ Reap \/ Avbryt
             \/ UNCHANGED vars
             \/ \E a \in Aarsak : Avvis(a) \/ SettManuell(a)
    <2>1. inn' = inn
          BY <1>1 DEF Claim, LeaseUtloper, FristUtloper, Reap, Avbryt, vars, Avvis, SettManuell
    <2> QED BY <1>a, <2>1, AlleHolder
  <1>2. ASSUME NEW i \in Innsending, Les(i) PROVE SvarInv'
    <2>1. PICK g \in Gen, res \in Resultat :
             inn' = [inn EXCEPT ![i] =
               Sett([TomInn EXCEPT !.pc = "lest", !.gen = g, !.res = res,
                                   !.iTide = frist = "apen"])]
          BY <1>2 DEF Les
    <2> DEFINE r == [TomInn EXCEPT !.pc = "lest", !.gen = g, !.res = res,
                                   !.iTide = frist = "apen"]
    <2>2. r \in InnType
          BY TomInnType DEF InnType, Hash
    <2>3. r.svar = Ingen
          BY DEF TomInn
    <2>4. inn' = [inn EXCEPT ![i] = Sett(r)] /\ UNCHANGED <<oppdrag, kap, historikk>>
          BY <1>2, <2>1 DEF Les
    <2> HIDE DEF r
    <2>5. Holder(Sett(r), kap, oppdrag, historikk)
          BY <2>2, <2>3, SettHolder
    <2>6. inn'[i] = Sett(r) /\ \A j \in Innsending \ {i} : inn'[j] = inn[j]
          BY <2>4 DEF IInv, TypeOK
    <2> QED BY <1>a, <2>4, <2>5, <2>6, AlleHolder
  <1>3. ASSUME NEW i \in Innsending, Behandle(i) PROVE SvarInv'
    <2>1. CASE Laas(i)
      <3> DEFINE r == [inn[i] EXCEPT !.pc = "laast",
                                     !.laas = {a \in Aarsak : saker[a] # "ingen"}]
      <3>1. inn[i] \in InnType /\ inn[i].pc = "lest"
            /\ Holder(inn[i], kap, oppdrag, historikk)
            BY <2>1 DEF Laas, IInv, TypeOK, SvarInv
      <3>2. r \in InnType
            BY <3>1 DEF InnType
      <3>3. /\ r.pc = "laast" /\ r.svar = Ingen /\ r.gen = inn[i].gen
            /\ r.kapHash = inn[i].kapHash /\ r.hash = inn[i].hash
            BY <3>1 DEF InnType, Holder, LestEr
      <3>4. inn' = [inn EXCEPT ![i] = r] \/ inn' = [inn EXCEPT ![i] = Sett(r)]
            BY <2>1 DEF Laas
      <3>5. UNCHANGED <<oppdrag, kap, historikk>>
            BY <2>1 DEF Laas
      <3> HIDE DEF r
      <3>6. Holder(r, kap, oppdrag, historikk)
        <4>1. LestEr(r, kap, oppdrag)
              BY <3>1, <3>3 DEF Holder, LestEr
        <4>2. SantEr(r, kap, oppdrag, historikk)
              BY <3>3, IngenAntatt DEF SantEr, Tilsvar
        <4> QED BY <4>1, <4>2 DEF Holder
      <3>7. Holder(Sett(r), kap, oppdrag, historikk)
            BY <3>2, <3>3, SettHolder
      <3>8. /\ inn'[i] \in {r, Sett(r)}
            /\ \A j \in Innsending \ {i} : inn'[j] = inn[j]
            BY <3>4 DEF IInv, TypeOK
      <3> QED BY <1>a, <3>5, <3>6, <3>7, <3>8, AlleHolder
    <2>2. CASE Gjensyn(i)
          BY <1>a, <2>2, GjensynHolder, AlleHolder
    <2>3. CASE Strid(i)
      <3>1. PICK e \in Strider : Foer(i, e)
            BY <2>3 DEF Strid, Strider
      <3>2. [hendelse |-> e, res |-> inn[i].res, nei |-> oppdrag.nei] \in historikk'
            BY <3>1 DEF Foer
      <3>3. \E h \in historikk' : h.res = inn[i].res /\ h.hendelse # "sen_kvittering"
            BY <3>2 DEF Strider
      <3> QED BY <1>a, <2>3, <3>3, SvarHolder, AlleHolder DEF Strid, Tilsvar
    <2>4. CASE Ugyldig(i) \/ Feil(i)
          BY <1>a, <2>4, IkkeSvarHolder, AlleHolder DEF Ugyldig, Feil
    <2>5. CASE ArtefaktAvvist(i)
      <3>1. [hendelse |-> "artefakt", res |-> inn[i].res, nei |-> oppdrag.nei] \in historikk'
            BY <2>5 DEF ArtefaktAvvist, Foer
      <3>2. \E h \in historikk' : h.res = inn[i].res /\ h.hendelse # "sen_kvittering"
            BY <3>1
      <3> QED BY <1>a, <2>5, <3>2, SvarHolder, AlleHolder DEF ArtefaktAvvist, Tilsvar
    <2>6. CASE SenEvidens(i)
      <3>1. [hendelse |-> "sen_kvittering", res |-> inn[i].res, nei |-> oppdrag.nei]
               \in historikk'
            BY <2>6 DEF SenEvidens, Foer
      <3>2. \E h \in historikk' : h.hendelse = "sen_kvittering" /\ h.res = inn[i].res
            BY <3>1
      <3>3. kap'[inn[i].gen].hash = inn[i].res
            BY <2>6, BrentHash DEF SenEvidens
      <3> QED BY <1>a, <2>6, <3>2, <3>3, SvarHolder, AlleHolder DEF SenEvidens, Tilsvar
    <2>7. CASE Avslutt(i)
      <3>1. oppdrag'.hash = inn[i].res /\ oppdrag'.status = StatusAv(inn[i].res)
            BY <2>7 DEF Avslutt, IInv, TypeOK, OppdragType
      <3>2. StatusAv(inn[i].res) \in {"utfort", "feilet"}
            BY DEF StatusAv
      <3>3. PICK svar \in {"utfort", "feilet"} : svar = StatusAv(inn[i].res)
            BY <3>2
      <3>4. Svar(i, svar) /\ inn[i].pc = "laast"
            BY <2>7, <3>3 DEF Avslutt
      <3> QED BY <1>a, <3>1, <3>4, SvarHolder, AlleHolder DEF Tilsvar
    <2> QED BY <1>3, <2>1, <2>2, <2>3, <2>4, <2>5, <2>6, <2>7 DEF Behandle
  <1> QED BY <1>1, <1>2, <1>3 DEF Next

(* What an owner was told of its receipt is so, and stays so, whatever     *)
(* comes after it (_ingest_kvittering, _idempotent_svar).                  *)
THEOREM SvarSant == Spec => []SvarErSant
  <1>1. Init => SvarInv
    <2> SUFFICES ASSUME Init PROVE SvarInv
        OBVIOUS
    <2>1. oppdrag.hash = Ingen
          BY DEF Init
    <2>2. ASSUME NEW i \in Innsending PROVE Holder(inn[i], kap, oppdrag, historikk)
      <3>1. inn[i] = TomInn
            BY DEF Init
      <3> QED BY <3>1, IngenAntatt DEF TomInn, Holder, LestEr, SantEr, Tilsvar
    <2> QED BY <2>1, <2>2 DEF SvarInv, ResultatOK
  <1>2. Spec => []ResultatHarKapabilitet
        BY IngenResultatTapt
  <1> QED BY <1>1, <1>2, SvarSteg, SantFolger, AlltidIInv, AlltidNei, PTL DEF Spec

-----------------------------------------------------------------------------
(* The contract with the M-37 engine (Reparasjonsordre).                   *)

(* An M-37 order fails only by an answer, and its case is never put back   *)
(* in the queue.                                                           *)
OrdreInv ==
    /\ FraM37 /\ oppdrag.status = "feilet" => oppdrag.hash # Ingen
    /\ saker["opphav"] # "ny"

(* What closes the order is the receipt of an owner that had claimed it.   *)
LEMMA AvslutterPlukket ==
    ASSUME IInv, ResultatHarKapabilitet, OrdreInv, FraM37,
           NEW i \in Innsending, Avslutt(i)
    PROVE  oppdrag.status = "plukket"
  <1> DEFINE g == inn[i].gen
  <1>1. g \in Gen
        BY DEF IInv, TypeOK, InnType
  <1>2. kap[g].status = "utstedt"
        BY IngenAntatt DEF Avslutt, Dom, Brenning
  <1> HIDE DEF g
  <1>3. oppdrag.gen # 0
        BY <1>1, <1>2 DEF IInv, TypeOK, OppdragType, KapOK, Gen
  <1>4. oppdrag.status # "opprettet"
        BY <1>3 DEF IInv, AapenOK
  <1>5. /\ oppdrag.hash = Ingen
        /\ \/ oppdrag.status = "plukket"
           \/ oppdrag.status = "opprettet"
           \/ oppdrag.status \in {"utfort", "feilet"}
        BY DEF Avslutt, Lovlig, StatusAv
  <1>6. oppdrag.status # "utfort"
        BY <1>5, UtfortAntatt, IngenAntatt, ResultatEr DEF UtfortHarHash
  <1>7. oppdrag.status # "feilet"
        BY <1>5 DEF OrdreInv
  <1> QED BY <1>4, <1>5, <1>6, <1>7

(* Neither the order of the contract nor its case moves.                   *)
LEMMA OrdreStille ==
    ASSUME Fast, oppdrag'.status = oppdrag.status,
           saker'["opphav"] = saker["opphav"]
    PROVE  UNCHANGED Ordre!vars
  BY DEF Fast, FraM37, Ordre!vars

(* Every step is one of the contract's, and the invariant is kept.         *)
LEMMA OrdreSteg ==
    ASSUME IInv, SakInv, ResultatHarKapabilitet, OrdreInv, [Next]_vars
    PROVE  OrdreInv' /\ [Ordre!Eier \/ Ordre!Menneske]_(Ordre!vars)
  <1>a. Fast /\ (FraM37' <=> FraM37)
        BY FastSteg DEF Fast, FraM37
  <1>t. TypeOK /\ oppdrag \in OppdragType /\ saker \in Sakstyper
        BY DEF IInv, TypeOK, Sakstyper
  <1>n. "opphav" \in Aarsak
        BY DEF Aarsak
  <1> DEFINE Mal == OrdreInv' /\ [Ordre!Eier \/ Ordre!Menneske]_(Ordre!vars)
  <1>s. ASSUME oppdrag'.status = oppdrag.status, saker'["opphav"] = saker["opphav"],
               oppdrag'.hash = oppdrag.hash \/ oppdrag'.hash # Ingen
        PROVE  Mal
        BY <1>a, <1>s, OrdreStille DEF OrdreInv
  <1>f. ASSUME ~FraM37, oppdrag'.status = oppdrag.status \/ saker'["opphav"] # "ny",
               saker'["opphav"] = saker["opphav"]
        PROVE  Mal
        BY <1>a, <1>f DEF OrdreInv, Ordre!vars
  <1>1. CASE Claim
    <2>1. /\ oppdrag.status \in Aapen /\ oppdrag'.status = "plukket"
          /\ saker' = saker
          BY <1>t, <1>1 DEF Claim, Claimbar, Aapen, OppdragType
    <2>2. OrdreInv'
          BY <2>1 DEF OrdreInv
    <2>3. CASE FraM37
          BY <1>a, <2>1, <2>2, <2>3 DEF Aapen, Ordre!vars, Ordre!Eier, Ordre!Plukk
    <2>4. CASE ~FraM37
          BY <1>a, <2>2, <2>4 DEF Ordre!vars
    <2> QED BY <2>2, <2>3, <2>4
  <1>2. CASE LeaseUtloper \/ FristUtloper \/ UNCHANGED vars
        BY <1>t, <1>2, <1>s DEF LeaseUtloper, FristUtloper, vars, OppdragType
  <1>3. CASE Reap \/ Avbryt
    <2>1. ~FraM37
          BY <1>3 DEF Reap, Reapes, Avbryt, FraM37
    <2>2. saker'["opphav"] = saker["opphav"]
      <3>1. {"evidensfrist"} \in SUBSET (Aarsak \ {"opphav"})
            BY DEF Aarsak
      <3> QED BY <1>t, <1>3, <3>1, SikretType DEF Reap, Avbryt
    <2> QED BY <2>1, <2>2, <1>f DEF OrdreInv
  <1>4. ASSUME NEW i \in Innsending, Les(i) PROVE Mal
        BY <1>4, <1>s DEF Les
  <1>5. ASSUME NEW i \in Innsending, Behandle(i) PROVE Mal
    <2>1. CASE Laas(i) \/ Gjensyn(i) \/ Ugyldig(i) \/ Feil(i)
          BY <2>1, <1>s DEF Laas, Gjensyn, Ugyldig, Feil
    <2>2. CASE Strid(i) \/ ArtefaktAvvist(i)
      <3>1. saker' = Sikret(Sikkerhetssak) /\ oppdrag' = oppdrag
            BY <2>2 DEF Strid, ArtefaktAvvist
      <3>2. saker'["opphav"] = saker["opphav"]
            BY <1>t, <3>1, SikretType, SikredeSaker
      <3> QED BY <3>1, <3>2, <1>s
    <2>3. CASE SenEvidens(i)
      <3>1. saker'["opphav"] = saker["opphav"]
            BY <1>t, <2>3, SikretType, SikredeSaker DEF SenEvidens
      <3>2. inn[i].res # Ingen
            BY <2>3, IngenAntatt DEF SenEvidens, IInv, InnOK
      <3>3. /\ oppdrag'.status = oppdrag.status
            /\ oppdrag'.hash = oppdrag.hash \/ oppdrag'.hash # Ingen
            BY <1>t, <2>3, <3>2 DEF SenEvidens, Lagre, OppdragType
      <3> QED BY <3>1, <3>3, <1>s
    <2>4. CASE Avslutt(i)
      <3> DEFINE res == inn[i].res
                 s == Sikret(Feilsak(res))
      <3>1. s \in Sakstyper /\ s["opphav"] = saker["opphav"]
            BY <1>t, SikretType, SikredeSaker
      <3>2. /\ saker' = LukkSak(s, res)
            /\ oppdrag'.status = StatusAv(res) /\ oppdrag'.hash = res
            BY <1>t, <2>4 DEF Avslutt, OppdragType
      <3>3. res # Ingen
            BY <2>4, IngenAntatt DEF Avslutt, IInv, InnOK
      <3> HIDE DEF s, res
      <3>4. saker'["opphav"] = IF saker["opphav"] # "venter" THEN saker["opphav"]
                               ELSE IF res \in Utfort THEN "lost" ELSE "manuell"
            BY <1>n, <3>1, <3>2 DEF LukkSak, Sakstyper
      <3>5. OrdreInv'
            BY <3>2, <3>3, <3>4 DEF OrdreInv
      <3>6. CASE FraM37
        <4>1. oppdrag.status = "plukket"
              BY <2>4, <3>6, AvslutterPlukket
        <4>2. Ordre!Kvitter(StatusAv(res))
              BY <1>a, <3>2, <3>4, <3>6, <4>1 DEF Ordre!Kvitter, StatusAv
        <4> QED BY <3>5, <4>2 DEF Ordre!Eier, StatusAv
      <3>7. CASE ~FraM37
            BY <1>a, <3>5, <3>7 DEF Ordre!vars
      <3> QED BY <3>6, <3>7
    <2> QED BY <1>5, <2>1, <2>2, <2>3, <2>4 DEF Behandle
  <1>6. ASSUME NEW a \in Aarsak, Avvis(a) PROVE Mal
    <2>1. /\ saker' = [saker EXCEPT ![a] = "avvist"] /\ saker[a] = "manuell"
          /\ oppdrag'.hash = oppdrag.hash
          /\ oppdrag'.status = IF oppdrag.status \in Aapen THEN "kansellert"
                               ELSE oppdrag.status
          BY <1>t, <1>6 DEF Avvis, EtterNei, OppdragType
    <2>2. OrdreInv'
          BY <1>a, <1>t, <1>n, <2>1 DEF OrdreInv, Sakstyper
    <2>3. CASE ~FraM37
          BY <1>a, <2>2, <2>3 DEF Ordre!vars
    <2>4. CASE FraM37 /\ a = "opphav"
      <3>1. saker'["opphav"] = "avvist"
            BY <1>t, <1>n, <2>1, <2>4 DEF Sakstyper
      <3>2. oppdrag.status # "ingen"
            BY <1>t DEF OppdragType
      <3>3. Ordre!Avvis
            BY <1>a, <2>1, <2>4, <3>1, <3>2 DEF Ordre!Avvis, Ordre!Aapen, Aapen
      <3> QED BY <2>2, <3>3 DEF Ordre!Menneske
    <2>5. CASE FraM37 /\ a # "opphav"
      <3>1. oppdrag.status \notin Aapen
            BY <2>1, <2>5 DEF SakInv, M37Alene, FraM37
      <3>2. saker'["opphav"] = saker["opphav"]
            BY <1>t, <1>n, <2>1, <2>5 DEF Sakstyper
      <3> QED BY <2>1, <3>1, <3>2, <1>s
    <2> QED BY <2>3, <2>4, <2>5
  <1>7. ASSUME NEW a \in Aarsak, SettManuell(a) PROVE Mal
    <2>1. /\ saker' = [saker EXCEPT ![a] = "manuell"] /\ saker[a] \in {"ny", "venter"}
          /\ oppdrag' = oppdrag
          BY <1>7 DEF SettManuell
    <2>2. CASE a # "opphav"
      <3>1. saker'["opphav"] = saker["opphav"]
            BY <1>t, <1>n, <2>1, <2>2 DEF Sakstyper
      <3> QED BY <2>1, <3>1, <1>s
    <2>3. CASE a = "opphav"
      <3>1. saker["opphav"] = "venter" /\ saker'["opphav"] = "manuell"
            BY <1>t, <1>n, <2>1, <2>3 DEF Sakstyper, OrdreInv
      <3>2. oppdrag.status \in Aapen
            BY <3>1 DEF SakInv, SakFolgerOppdrag
      <3>3. FraM37
            BY <1>t, <3>1 DEF TypeOK, FraM37
      <3>4. Ordre!TaOver
            BY <1>a, <2>1, <3>1, <3>2, <3>3 DEF Ordre!TaOver, Ordre!Aapen, Aapen
      <3>5. OrdreInv'
            BY <1>a, <2>1, <3>1 DEF OrdreInv
      <3> QED BY <3>4, <3>5 DEF Ordre!Menneske
    <2> QED BY <2>2, <2>3
  <1> QED BY <1>1, <1>2, <1>3, <1>4, <1>5, <1>6, <1>7 DEF Next

(* With an order the M-37 engine has placed, the outbox keeps its side of  *)
(* the contract: whatever is claimed anew, answered twice, late or in      *)
(* contradiction, the order and the case move only together, by the        *)
(* receipt of the owner that had claimed it, or as a human decides.        *)
THEOREM Ordreloftet == Spec => HolderOrdreloftet
  <1>1. Init => SakInv /\ OrdreInv /\ Ordre!Bestilt
        BY DEF Init, SakInv, SakFolgerOppdrag, M37Alene, Aapen, Aarsak, OrdreInv, FraM37,
               Ordre!Bestilt
  <1>2. Spec => []ResultatHarKapabilitet
        BY IngenResultatTapt
  <1>3. IInv /\ SakInv /\ ResultatHarKapabilitet /\ OrdreInv /\ [Next]_vars
            => OrdreInv' /\ [Ordre!Eier \/ Ordre!Menneske]_(Ordre!vars)
        BY OrdreSteg
  <1>4. Spec => []SakInv
        BY <1>1, SakSteg, AlltidIInv, AlltidNei, PTL DEF Spec
  <1> QED BY <1>1, <1>2, <1>3, <1>4, AlltidIInv, PTL
          DEF Spec, HolderOrdreloftet, Ordre!Utboksen
=============================================================================
