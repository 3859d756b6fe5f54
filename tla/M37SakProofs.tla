---------------------------- MODULE M37SakProofs ----------------------------
(* Theorems about one case of the M-37 engine, for every set of workers,   *)
(* policies and conditions and every attempt budget.                       *)
EXTENDS M37Sak, WellFoundedInduction, TLAPS

-----------------------------------------------------------------------------
(* Operators of the model.                                                 *)

(* A non-empty set of naturals with a bound has a greatest member.         *)
LEMMA StorsteFinnes ==
    ASSUME NEW N \in Nat, NEW S \in SUBSET (0..N), S # {}
    PROVE  \E m \in S : \A n \in S : n <= m
  <1> DEFINE T == {t \in Nat : N - t \in S}
             R == OpToRel(<, Nat)
  <1>1. T # {}
    <2>1. PICK s \in S : TRUE
          OBVIOUS
    <2>2. N - s \in T
          BY <2>1
    <2> QED BY <2>2
  <1>2. PICK x \in T : \A y \in T : ~(<<y, x>> \in R)
        BY <1>1, NatLessThanWellFounded, WFMin, Zenon
  <1>3. \A y \in T : ~(y < x)
        BY <1>2 DEF OpToRel
  <1>4. \A n \in S : n <= N - x
    <2> TAKE n \in S
    <2>1. N - n \in T
          OBVIOUS
    <2> QED BY <1>3, <2>1
  <1> QED BY <1>4

(* SistePositive is the newest positive round, or 0 when there is none.    *)
LEMMA SistePositiveEr ==
    /\ SistePositive \in 0..MaksForsok
    /\ SistePositive # 0 => gener[SistePositive].status = "positiv"
    /\ \A g \in Runde : gener[g].status = "positiv" => g <= SistePositive
  <1> DEFINE pos == {g \in Runde : gener[g].status = "positiv"}
  <1>1. CASE pos = {}
        BY <1>1, ForsokAntatt DEF SistePositive, Runde
  <1>2. CASE pos # {}
    <2>1. pos \in SUBSET (0..MaksForsok) /\ MaksForsok \in Nat
          BY ForsokAntatt DEF Runde
    <2> HIDE DEF pos
    <2>2. \E g \in pos : \A h \in pos : h <= g
          BY <1>2, <2>1, StorsteFinnes
    <2> USE DEF pos
    <2> QED BY <1>2, <2>1, <2>2 DEF SistePositive
  <1> QED BY <1>1, <1>2

(* The identities a plan can name are identities of the case.              *)
LEMMA PlanRid ==
    /\ \A p \in Policy : KompId(KompAv[p]) \in KompRid
    /\ \A g \in Runde, p \in Policy : /\ Fase1Id(g, KravAv[p]) \in Fase1Rid
                                      /\ Fase2Id(g, p) \in Fase2Rid
  BY DEF KompRid, Fase1Rid, Fase2Rid

(* An order to a verifier is never a business order.                       *)
LEMMA Fase1ErIkkeForretning == \A g, k : Fase1Id(g, k) \notin ForretningsRid
  <1>1. \A r \in ForretningsRid : r.slag # "fase1"
        BY DEF ForretningsRid, KompRid, Fase2Rid, KompId, Fase2Id
  <1>2. \A g, k : Fase1Id(g, k).slag = "fase1"
        BY DEF Fase1Id
  <1> QED BY <1>1, <1>2

-----------------------------------------------------------------------------
(* Type correctness.                                                       *)

(* What a worker carries: the policy it read while it plans, and from then *)
(* on the identity it registered.                                          *)
ArbeiderOK ==
    \A w \in Arbeider :
        /\ arb[w].pc = "planlegger" => arb[w].policy \in Policy
        /\ arb[w].pc \in {"planlagt", "venter", "svar"} => arb[w].rid \in Rid

TypeInv == TypeOK /\ ArbeiderOK

(* The record of a worker without a case is well formed.                   *)
LEMMA LedigType == Ledig \in ArbType /\ Ledig.pc = "ledig"
  BY ForsokAntatt DEF Ledig, ArbType

(* A worker that drops its case stays well formed, and leaves the other    *)
(* workers alone.                                                          *)
LEMMA LedigArb ==
    ASSUME TypeInv, NEW w \in Arbeider, arb' = [arb EXCEPT ![w] = Ledig]
    PROVE  arb' \in [Arbeider -> ArbType] /\ ArbeiderOK'
  BY LedigType DEF TypeInv, TypeOK, ArbeiderOK

(* A worker that moves on with its case stays well formed, and leaves the  *)
(* other workers alone.                                                    *)
LEMMA NyArb ==
    ASSUME TypeInv, NEW w \in Arbeider, NEW a \in ArbType,
           arb' = [arb EXCEPT ![w] = a],
           a.pc = "planlegger" => a.policy \in Policy,
           a.pc \in {"planlagt", "venter", "svar"} => a.rid \in Rid
    PROVE  arb' \in [Arbeider -> ArbType] /\ ArbeiderOK'
  BY DEF TypeInv, TypeOK, ArbeiderOK

(* A fenced status change keeps the case well typed.                       *)
LEMMA StatusType ==
    ASSUME TypeInv, NEW s, sak' = [sak EXCEPT !.status = s],
           s \in {"ny", "under_behandling", "venter_verifikasjon",
                  "verifikasjon_klar", "verifikasjon_retry_klar",
                  "venter_utforelse", "lost", "manuell"}
    PROVE  sak' \in SakType
  BY DEF TypeInv, TypeOK, SakType

(* Handing the case over keeps the case and the workers well formed.       *)
LEMMA AvgiType ==
    ASSUME TypeInv, NEW w \in Arbeider, NEW s, Avgi(w, s),
           s \in {"verifikasjon_retry_klar", "venter_utforelse", "lost", "manuell"}
    PROVE  sak' \in SakType /\ arb' \in [Arbeider -> ArbType] /\ ArbeiderOK'
  BY LedigArb, StatusType DEF Avgi

(* A registration keeps the operations and the orders well typed.          *)
LEMMA OpType ==
    ASSUME TypeInv, NEW r \in Rid
    PROVE  /\ OpEtter(r) \in [Rid -> {"ingen", "aktiv", "superseded"}]
           /\ OppdragEtter(r) \in [Rid -> {"ingen", "opprettet", "plukket",
                                           "utfort", "feilet", "kansellert"}]
  BY DEF TypeInv, TypeOK, OpEtter, OppdragEtter

(* An answer reaches only the worker that waits for it under this claim.   *)
LEMMA BesvarType ==
    ASSUME TypeInv, NEW k \in kall, NEW b \in {"FEIL"} \cup Utfall, Besvar(k, b)
    PROVE  kall' \subseteq KallType /\ arb' \in [Arbeider -> ArbType] /\ ArbeiderOK'
  <1>1. kall' \subseteq KallType
        BY DEF Besvar, TypeInv, TypeOK
  <1>2. ASSUME NEW w \in Arbeider
        PROVE  /\ arb'[w] \in ArbType
               /\ arb'[w].pc = "planlegger" => arb'[w].policy \in Policy
               /\ arb'[w].pc \in {"planlagt", "venter", "svar"} => arb'[w].rid \in Rid
    <2>1. /\ arb[w] \in ArbType
          /\ arb[w].pc = "planlegger" => arb[w].policy \in Policy
          /\ arb[w].pc \in {"planlagt", "venter", "svar"} => arb[w].rid \in Rid
          BY DEF TypeInv, TypeOK, ArbeiderOK
    <2>2. CASE arb'[w] = arb[w]
          BY <2>1, <2>2
    <2>3. CASE arb[w].pc = "venter" /\ arb'[w] = [arb[w] EXCEPT !.pc = "svar", !.svar = b]
          BY <2>1, <2>3 DEF ArbType
    <2> QED BY <2>2, <2>3 DEF Besvar
  <1> QED BY <1>1, <1>2 DEF Besvar, ArbeiderOK

(* The initial states are well typed.                                      *)
LEMMA TypeInit == Init => TypeInv
  <1> SUFFICES ASSUME Init PROVE TypeInv
      OBVIOUS
  <1>1. sak \in SakType
    <2>1. 0 \in Nat /\ 0 \in 0..MaksForsok /\ {} \in SUBSET Vilkaar
          BY ForsokAntatt
    <2>2. PICK v \in Vei : sak = [vei |-> v, status |-> "ny", claim |-> 0, gen |-> 0,
                                  lease |-> FALSE, forsok |-> 0, ver |-> 0, krav |-> {}]
          BY DEF Init
    <2> QED BY <2>1, <2>2 DEF SakType
  <1>2. arb \in [Arbeider -> ArbType] /\ ArbeiderOK
        BY LedigType DEF Init, ArbeiderOK
  <1>3. gener \in [Runde -> RundeType]
        BY DEF Init, RundeType, IngenRunde
  <1> QED BY <1>1, <1>2, <1>3 DEF Init, TypeInv, TypeOK

(* Every step keeps the type invariant and the workers' own invariant.     *)
LEMMA TypeSteg == TypeInv /\ [Next]_vars => TypeInv'
  <1> SUFFICES ASSUME TypeInv, [Next]_vars PROVE TypeInv'
      OBVIOUS
  <1>t. TypeOK /\ ArbeiderOK
        BY DEF TypeInv
  <1> USE DEF TypeInv, TypeOK
  <1>1. ASSUME NEW w \in Arbeider, ClaimNesteSak(w) PROVE TypeInv'
    <2>1. sak' \in SakType
      <3> DEFINE f == IF sak.status = "ny" THEN sak.forsok + 1 ELSE sak.forsok
      <3>1. f \in 0..MaksForsok /\ sak.gen + 1 \in Nat
            BY <1>1, ForsokAntatt DEF ClaimNesteSak, Claimbar, SakType
      <3>2. sak' = [sak EXCEPT !.status = "under_behandling", !.claim = sak.gen + 1,
                               !.gen = sak.gen + 1, !.lease = TRUE, !.forsok = f]
            BY <1>1 DEF ClaimNesteSak, SakType
      <3> HIDE DEF f
      <3> QED BY <3>1, <3>2 DEF SakType
    <2> DEFINE a == [Ledig EXCEPT !.pc = "claimet", !.claim = sak.gen + 1,
                                  !.fase = FaseAv(sak.status), !.ver = sak.ver]
    <2>2. a \in ArbType /\ a.pc = "claimet"
      <3>1. FaseAv(sak.status) \in {"ny", "retry", "fase2"}
            BY DEF FaseAv
      <3>2. sak.gen + 1 \in Nat /\ sak.ver \in 0..MaksForsok
            BY DEF SakType
      <3> QED BY <3>1, <3>2, LedigType DEF ArbType
    <2>3. arb' = [arb EXCEPT ![w] = a]
          BY <1>1 DEF ClaimNesteSak
    <2> HIDE DEF a
    <2>4. arb' \in [Arbeider -> ArbType] /\ ArbeiderOK'
          BY <2>2, <2>3, NyArb
    <2> QED BY <1>1, <2>1, <2>4 DEF ClaimNesteSak
  <1>2. ASSUME NEW w \in Arbeider, PlanLes(w) PROVE TypeInv'
    <2> DEFINE a == [arb[w] EXCEPT !.pc = "planlegger", !.policy = aktivPolicy,
                                   !.bevis = SistePositive]
    <2>1. a \in ArbType /\ a.pc = "planlegger" /\ a.policy \in Policy
          BY SistePositiveEr DEF ArbType
    <2>2. arb' = [arb EXCEPT ![w] = a]
          BY <1>2 DEF PlanLes
    <2> HIDE DEF a
    <2>3. arb' \in [Arbeider -> ArbType] /\ ArbeiderOK'
          BY <2>1, <2>2, NyArb
    <2> QED BY <1>2, <2>3 DEF PlanLes
  <1>3. ASSUME NEW w \in Arbeider, PlanManuell(w) PROVE TypeInv'
        BY <1>3, AvgiType DEF PlanManuell
  <1>4. ASSUME NEW w \in Arbeider, PlanLost(w) PROVE TypeInv'
        BY <1>4, AvgiType DEF PlanLost
  <1>5. ASSUME NEW w \in Arbeider, PlanKo(w) PROVE TypeInv'
    <2>1. sak' \in SakType
          BY <1>5 DEF PlanKo, SakType
    <2> QED BY <1>5, <2>1, LedigArb DEF PlanKo
  <1>6. ASSUME NEW w \in Arbeider, StartFase1(w) PROVE TypeInv'
    <2> DEFINE k == KravAv[arb[w].policy]
    <2>1. arb[w].policy \in Policy /\ k \subseteq Vilkaar
          BY <1>t, <1>6, KravAntatt DEF StartFase1, ArbeiderOK
    <2>2. sak.ver + 1 \in Runde
          BY <1>6, ForsokAntatt DEF StartFase1, Runde, SakType
    <2>3. Fase1Plan(w) \in Rid
          BY <2>1, <2>2, PlanRid DEF Fase1Plan, Rid
    <2>4. sak' \in SakType
      <3> DEFINE kr == IF sak.krav = {} THEN k ELSE sak.krav
      <3>1. kr \in SUBSET Vilkaar /\ sak.ver + 1 \in 0..MaksForsok
            BY <2>1, <2>2 DEF SakType, Runde
      <3>2. sak' = [sak EXCEPT !.status = "venter_verifikasjon",
                               !.ver = sak.ver + 1, !.krav = kr]
            BY <1>6 DEF StartFase1, SakType
      <3> HIDE DEF kr
      <3> QED BY <3>1, <3>2 DEF SakType
    <2>5. gener' \in [Runde -> RundeType]
          BY <1>6, <2>1, <2>2 DEF StartFase1, RundeType
    <2>6. /\ op' \in [Rid -> {"ingen", "aktiv", "superseded"}]
          /\ oppdrag' \in [Rid -> {"ingen", "opprettet", "plukket", "utfort",
                                   "feilet", "kansellert"}]
          BY <1>6, <2>3, OpType DEF StartFase1
    <2> QED BY <1>6, <2>4, <2>5, <2>6, LedigArb DEF StartFase1
  <1>7. ASSUME NEW w \in Arbeider, Fase2Retry(w) PROVE TypeInv'
        BY <1>7, AvgiType DEF Fase2Retry
  <1>8. ASSUME NEW w \in Arbeider, Fase2Bygger(w) PROVE TypeInv'
    <2> DEFINE a == [arb[w] EXCEPT !.pc = "planlagt", !.rid = Fase2Plan(w)]
    <2>1. arb[w].policy \in Policy /\ arb[w].bevis \in Runde
          BY <1>t, <1>8, ForsokAntatt DEF Fase2Bygger, ArbeiderOK, ArbType, Runde
    <2>2. Fase2Plan(w) \in Rid
          BY <2>1, PlanRid DEF Fase2Plan, Rid, ForretningsRid
    <2>3. a \in ArbType /\ a.pc = "planlagt" /\ a.rid \in Rid
          BY <2>2 DEF ArbType
    <2>4. arb' = [arb EXCEPT ![w] = a]
          BY <1>8 DEF Fase2Bygger
    <2> HIDE DEF a
    <2>5. arb' \in [Arbeider -> ArbType] /\ ArbeiderOK'
          BY <2>3, <2>4, NyArb
    <2> QED BY <1>8, <2>2, <2>5, OpType DEF Fase2Bygger
  <1>9. ASSUME NEW w \in Arbeider, PlanKompensasjon(w) PROVE TypeInv'
    <2> DEFINE a == [arb[w] EXCEPT !.pc = "planlagt", !.rid = KompPlan(w)]
    <2>1. arb[w].policy \in Policy
          BY <1>t, <1>9 DEF PlanKompensasjon, ArbeiderOK
    <2>2. KompPlan(w) \in Rid
          BY <2>1, PlanRid DEF KompPlan, Rid, ForretningsRid
    <2>3. a \in ArbType /\ a.pc = "planlagt" /\ a.rid \in Rid
          BY <2>2 DEF ArbType
    <2>4. arb' = [arb EXCEPT ![w] = a]
          BY <1>9 DEF PlanKompensasjon
    <2> HIDE DEF a
    <2>5. arb' \in [Arbeider -> ArbType] /\ ArbeiderOK'
          BY <2>3, <2>4, NyArb
    <2> QED BY <1>9, <2>2, <2>5, OpType DEF PlanKompensasjon
  <1>10. ASSUME NEW w \in Arbeider, UtstedKapabilitet(w) PROVE TypeInv'
    <2> DEFINE a == [arb[w] EXCEPT !.pc = "venter"]
    <2>1. arb[w] \in ArbType /\ arb[w].rid \in Rid
          BY <1>t, <1>10 DEF UtstedKapabilitet, ArbeiderOK
    <2>2. a \in ArbType /\ a.pc = "venter" /\ a.rid \in Rid
          BY <2>1 DEF ArbType
    <2>3. arb' = [arb EXCEPT ![w] = a]
          BY <1>10 DEF UtstedKapabilitet
    <2> HIDE DEF a
    <2>4. arb' \in [Arbeider -> ArbType] /\ ArbeiderOK'
          BY <2>2, <2>3, NyArb
    <2>5. arb[w].claim \in Nat
          BY <2>1 DEF ArbType
    <2>6. kap' \subseteq KapType
      <3>1. PICK r \in AktiveOp :
                kap' = kap \cup {[claim |-> arb[w].claim, rid |-> r,
                                  status |-> "utstedt", utlopt |-> FALSE]}
            BY <1>10 DEF UtstedKapabilitet
      <3>2. r \in Rid
            BY DEF AktiveOp
      <3>3. [claim |-> arb[w].claim, rid |-> r, status |-> "utstedt",
             utlopt |-> FALSE] \in KapType
            BY <2>5, <3>2 DEF KapType
      <3> QED BY <3>1, <3>3
    <2>7. kall' \subseteq KallType
      <3>1. [claim |-> arb[w].claim, nokkel |-> arb[w].rid, steg |-> "sendt",
             iTide |-> FALSE] \in KallType
            BY <2>1, <2>5 DEF KallType
      <3> QED BY <1>10, <3>1 DEF UtstedKapabilitet
    <2> QED BY <1>10, <2>4, <2>6, <2>7 DEF UtstedKapabilitet
  <1>11. ASSUME NEW w \in Arbeider, FullforNektet(w) PROVE TypeInv'
        BY <1>11, AvgiType DEF FullforNektet
  <1>12. ASSUME NEW w \in Arbeider, FullforOppdrag(w) PROVE TypeInv'
        BY <1>12, AvgiType DEF FullforOppdrag
  <1>13. ASSUME NEW w \in Arbeider, Leasetap(w) PROVE TypeInv'
        BY <1>13, LedigArb DEF Leasetap
  <1>14. ASSUME NEW w \in Arbeider, Krasj(w) PROVE TypeInv'
        BY <1>14, LedigArb DEF Krasj
  <1>15. ASSUME NEW k \in kall, Reserver(k) PROVE TypeInv'
    <2>1. kap' \subseteq KapType
          BY <1>15 DEF Reserver, SettKap, KapType
    <2>2. kall' \subseteq KallType
          BY <1>15 DEF Reserver, Neste, KallType
    <2> QED BY <1>t, <1>15, <2>1, <2>2 DEF Reserver, ArbeiderOK
  <1>16. ASSUME NEW k \in kall, Revalider(k) PROVE TypeInv'
    <2>1. kall' \subseteq KallType
          BY <1>16 DEF Revalider, Neste, KallType, KapType
    <2> QED BY <1>t, <1>16, <2>1 DEF Revalider, ArbeiderOK
  <1>17. ASSUME NEW k \in kall, Replay(k) PROVE TypeInv'
    <2>1. beslutning[k.nokkel] \in Utfall
          BY <1>17 DEF Replay, KallType
    <2> QED BY <1>17, <2>1, BesvarType DEF Replay
  <1>18. ASSUME NEW k \in kall, Avslutt(k) PROVE TypeInv'
    <2>1. PICK b \in Utfall : /\ beslutning' = [beslutning EXCEPT ![k.nokkel] = b]
                              /\ Besvar(k, b)
          BY <1>18 DEF Avslutt, Utfall
    <2>2. kap' \subseteq KapType
          BY <1>18 DEF Avslutt, SettKap, KapType
    <2> QED BY <1>18, <2>1, <2>2, BesvarType DEF Avslutt
  <1>19. ASSUME NEW k \in kall, Feilsvar(k) PROVE TypeInv'
        BY <1>19, BesvarType DEF Feilsvar
  <1>20. ASSUME NEW r \in Rid, Plukk(r) PROVE TypeInv'
        BY <1>t, <1>20 DEF Plukk, ArbeiderOK
  <1>21. ASSUME NEW r \in Rid, FristUtloper(r) PROVE TypeInv'
        BY <1>t, <1>21 DEF FristUtloper, ArbeiderOK
  <1>22. ASSUME NEW r \in Rid, Kvittering(r) PROVE TypeInv'
    <2>1. sak' \in SakType
          BY <1>22 DEF Kvittering, SakType
    <2> QED BY <1>t, <1>22, <2>1 DEF Kvittering, ArbeiderOK
  <1>23. ASSUME NEW g \in Runde, VerifKvittering(g) PROVE TypeInv'
    <2>1. sak' \in SakType
          BY <1>23 DEF VerifKvittering, SakType
    <2>2. gener' \in [Runde -> RundeType]
          BY <1>23 DEF VerifKvittering, RundeType
    <2> QED BY <1>t, <1>23, <2>1, <2>2 DEF VerifKvittering, ArbeiderOK
  <1>24. CASE LeaseUtloper
    <2>1. sak' \in SakType
          BY <1>24 DEF LeaseUtloper, SakType
    <2>2. kap' \subseteq KapType
          BY <1>24 DEF LeaseUtloper, Utlopte, KapType
    <2> QED BY <1>t, <1>24, <2>1, <2>2 DEF LeaseUtloper, ArbeiderOK
  <1>25. CASE KapabilitetUtloper
    <2>1. kap' \subseteq KapType
          BY <1>25 DEF KapabilitetUtloper, Utlopte, KapType
    <2> QED BY <1>t, <1>25, <2>1 DEF KapabilitetUtloper, ArbeiderOK
  <1>26. CASE FrigiUtlopteClaims
    <2>1. sak' \in SakType
          BY <1>26 DEF FrigiUtlopteClaims, SakType
    <2> QED BY <1>t, <1>26, <2>1 DEF FrigiUtlopteClaims, ArbeiderOK
  <1>27. CASE PolicyBytte
        BY <1>t, <1>27 DEF PolicyBytte, ArbeiderOK
  <1>28. CASE UNCHANGED vars
        BY <1>t, <1>28 DEF vars, ArbeiderOK
  <1> QED BY <1>1, <1>2, <1>3, <1>4, <1>5, <1>6, <1>7, <1>8, <1>9, <1>10,
             <1>11, <1>12, <1>13, <1>14, <1>15, <1>16, <1>17, <1>18, <1>19,
             <1>20, <1>21, <1>22, <1>23, <1>24, <1>25, <1>26, <1>27, <1>28
          DEF Next, Fremdrift, API, Eiermodul

(* Every variable keeps its shape; no counter of the case leaves its range *)
(* however workers, policies and expiries interleave.                      *)
THEOREM Typekorrekt == Spec => []TypeOK
  <1>1. Spec => []TypeInv
        BY TypeInit, TypeSteg, PTL DEF Spec
  <1>2. TypeInv => TypeOK
        BY DEF TypeInv
  <1> QED BY <1>1, <1>2, PTL

-----------------------------------------------------------------------------
(* At most one active operation, and at most one business order.           *)

(* Every registration supersedes what was active; no other step makes an   *)
(* operation active.                                                       *)
LEMMA EnAktivSteg ==
    TypeInv /\ EnAktivOperasjon /\ [Next]_vars => EnAktivOperasjon'
  <1> SUFFICES ASSUME TypeInv, EnAktivOperasjon, [Next]_vars
               PROVE  EnAktivOperasjon'
      OBVIOUS
  <1>1. CASE \E rid : op' = OpEtter(rid)
        BY <1>1 DEF EnAktivOperasjon, AktiveOp, OpEtter
  <1>2. CASE op' = op
        BY <1>2 DEF EnAktivOperasjon, AktiveOp
  <1>3. ASSUME NEW w \in Arbeider, Fremdrift(w) \/ Krasj(w)
        PROVE  op' = op \/ \E rid : op' = OpEtter(rid)
        BY <1>3 DEF Fremdrift, ClaimNesteSak, PlanLes, PlanManuell, PlanLost,
                    PlanKo, StartFase1, Fase2Retry, Fase2Bygger, PlanKompensasjon,
                    UtstedKapabilitet, FullforNektet, FullforOppdrag, Leasetap, Krasj
  <1>4. CASE API
        BY <1>2, <1>4 DEF API, Reserver, Revalider, Replay, Avslutt, Feilsvar
  <1>5. CASE Eiermodul
        BY <1>2, <1>5 DEF Eiermodul, Plukk, FristUtloper, Kvittering, VerifKvittering
  <1>6. CASE LeaseUtloper \/ KapabilitetUtloper \/ FrigiUtlopteClaims \/ PolicyBytte
        BY <1>2, <1>6
           DEF LeaseUtloper, KapabilitetUtloper, FrigiUtlopteClaims, PolicyBytte
  <1>7. CASE UNCHANGED vars
        BY <1>2, <1>7 DEF vars
  <1> QED BY <1>1, <1>2, <1>3, <1>4, <1>5, <1>6, <1>7 DEF Next

(* The unique index on the active operations of a case never refuses:      *)
(* every registration supersedes what is active first.                     *)
THEOREM EnAktiv == Spec => []EnAktivOperasjon
  <1>1. Init => EnAktivOperasjon
        BY DEF Init, EnAktivOperasjon, AktiveOp
  <1> QED BY <1>1, TypeInit, TypeSteg, EnAktivSteg, PTL DEF Spec

(* The strengthening of HoyestEttOppdrag: once there is a business order   *)
(* the case is in a status no worker can claim it from.                    *)
Avsluttet == {"venter_utforelse", "lost", "manuell"}
EttOppdragInv ==
    /\ HoyestEttOppdrag
    /\ Forretningsoppdrag # {} => sak.status \in Avsluttet

(* Most steps place no business order, forget no permission and leave a    *)
(* finished case finished.                                                 *)
LEMMA IngenNyBestilling ==
    ASSUME EttOppdragInv,
           \A r \in ForretningsRid : oppdrag'[r] # "ingen" => oppdrag[r] # "ingen",
           \A r \in ForretningsRid : beslutning[r] = "TILLAT" => beslutning'[r] = "TILLAT",
           sak.status \in Avsluttet => sak'.status \in Avsluttet
    PROVE  EttOppdragInv'
  BY DEF EttOppdragInv, HoyestEttOppdrag, Forretningsoppdrag

(* A step places a business order only for a case without one, and then    *)
(* takes that case out of treatment.                                       *)
LEMMA EttOppdragSteg == TypeInv /\ EttOppdragInv /\ [Next]_vars => EttOppdragInv'
  <1> SUFFICES ASSUME TypeInv, EttOppdragInv, [Next]_vars PROVE EttOppdragInv'
      OBVIOUS
  <1>t. TypeOK
        BY DEF TypeInv
  <1>1. ASSUME NEW w \in Arbeider,
               \/ ClaimNesteSak(w) \/ PlanLes(w) \/ PlanManuell(w) \/ PlanLost(w)
               \/ PlanKo(w) \/ Fase2Retry(w) \/ Fase2Bygger(w)
               \/ UtstedKapabilitet(w) \/ FullforNektet(w) \/ Leasetap(w) \/ Krasj(w)
        PROVE  EttOppdragInv'
    <2>1. UNCHANGED <<oppdrag, beslutning>>
          BY <1>1 DEF ClaimNesteSak, PlanLes, PlanManuell, PlanLost, PlanKo, Fase2Retry,
                      Fase2Bygger, UtstedKapabilitet, FullforNektet, Leasetap, Krasj
    <2>2. sak.status \in Avsluttet => sak' = sak
          BY <1>1 DEF ClaimNesteSak, PlanLes, PlanManuell, PlanLost, PlanKo, Fase2Retry,
                      Fase2Bygger, UtstedKapabilitet, FullforNektet, Leasetap, Krasj,
                      Avgi, Fencet, Claimbar, Avsluttet
    <2> QED BY <2>1, <2>2, IngenNyBestilling
  <1>2. ASSUME NEW w \in Arbeider, PlanKompensasjon(w) PROVE EttOppdragInv'
    <2>1. \A r \in ForretningsRid : oppdrag'[r] # "ingen" => oppdrag[r] # "ingen"
          BY <1>2 DEF PlanKompensasjon, OppdragEtter, Rid
    <2> QED BY <1>2, <2>1, IngenNyBestilling DEF PlanKompensasjon
  <1>3. ASSUME NEW w \in Arbeider, StartFase1(w) PROVE EttOppdragInv'
    <2>1. Fase1Plan(w) \notin ForretningsRid
          BY Fase1ErIkkeForretning DEF Fase1Plan
    <2>2. \A r \in ForretningsRid : oppdrag'[r] # "ingen" => oppdrag[r] # "ingen"
          BY <1>3, <2>1 DEF StartFase1, OppdragEtter, Rid
    <2>3. sak.status \notin Avsluttet
          BY <1>3 DEF StartFase1, Fencet, Avsluttet
    <2> QED BY <1>3, <2>2, <2>3, IngenNyBestilling DEF StartFase1
  <1>4. ASSUME NEW w \in Arbeider, FullforOppdrag(w) PROVE EttOppdragInv'
    <2>1. sak.status \notin Avsluttet
          BY <1>4 DEF FullforOppdrag, Avgi, Fencet, Avsluttet
    <2>2. Forretningsoppdrag = {}
          BY <2>1 DEF EttOppdragInv
    <2>3. sak'.status \in Avsluttet
          BY <1>t, <1>4 DEF FullforOppdrag, Avgi, TypeOK, SakType, Avsluttet
    <2>4. \A r \in Forretningsoppdrag' : r = arb[w].rid /\ beslutning'[r] = "TILLAT"
      <3> TAKE r \in Forretningsoppdrag'
      <3>1. r \in ForretningsRid /\ r \in Rid /\ oppdrag'[r] # "ingen"
            BY DEF Forretningsoppdrag, Rid
      <3>2. oppdrag[r] = "ingen"
            BY <2>2, <3>1 DEF Forretningsoppdrag
      <3> QED BY <1>t, <1>4, <3>1, <3>2 DEF FullforOppdrag, TypeOK
    <2> QED BY <2>3, <2>4 DEF EttOppdragInv, HoyestEttOppdrag
  <1>5. ASSUME NEW k \in kall, Avslutt(k) PROVE EttOppdragInv'
    <2>1. \A r \in ForretningsRid : beslutning[r] = "TILLAT" => beslutning'[r] = "TILLAT"
          BY <1>t, <1>5 DEF Avslutt, TypeOK, Rid
    <2> QED BY <1>5, <2>1, IngenNyBestilling DEF Avslutt
  <1>6. ASSUME NEW k \in kall, Reserver(k) \/ Revalider(k) \/ Replay(k) \/ Feilsvar(k)
        PROVE  EttOppdragInv'
        BY <1>6, IngenNyBestilling DEF Reserver, Revalider, Replay, Feilsvar
  <1>7. ASSUME NEW r \in Rid, Plukk(r) \/ FristUtloper(r) PROVE EttOppdragInv'
    <2>1. \A s \in ForretningsRid : oppdrag'[s] # "ingen" => oppdrag[s] # "ingen"
          BY <1>t, <1>7 DEF Plukk, FristUtloper, TypeOK, Rid
    <2>2. UNCHANGED <<sak, beslutning>>
          BY <1>7 DEF Plukk, FristUtloper
    <2> QED BY <2>1, <2>2, IngenNyBestilling
  <1>8. ASSUME NEW r \in Rid, Kvittering(r) PROVE EttOppdragInv'
    <2>1. \A s \in ForretningsRid : oppdrag'[s] # "ingen" => oppdrag[s] # "ingen"
          BY <1>t, <1>8 DEF Kvittering, TypeOK, Rid
    <2>2. sak.status \in Avsluttet => sak'.status \in Avsluttet
          BY <1>t, <1>8 DEF Kvittering, TypeOK, SakType, Avsluttet
    <2> QED BY <1>8, <2>1, <2>2, IngenNyBestilling DEF Kvittering
  <1>9. ASSUME NEW g \in Runde, VerifKvittering(g) PROVE EttOppdragInv'
    <2>1. \A s \in ForretningsRid : oppdrag'[s] # "ingen" => oppdrag[s] # "ingen"
          BY <1>t, <1>9 DEF VerifKvittering, TypeOK, Rid
    <2>2. sak.status \notin Avsluttet
          BY <1>9 DEF VerifKvittering, Avsluttet
    <2> QED BY <1>9, <2>1, <2>2, IngenNyBestilling DEF VerifKvittering
  <1>10. CASE LeaseUtloper \/ KapabilitetUtloper \/ FrigiUtlopteClaims \/ PolicyBytte
    <2>1. UNCHANGED <<oppdrag, beslutning>>
          BY <1>10 DEF LeaseUtloper, KapabilitetUtloper, FrigiUtlopteClaims, PolicyBytte
    <2>2. sak.status \in Avsluttet => sak' = sak
          BY <1>10 DEF LeaseUtloper, KapabilitetUtloper, FrigiUtlopteClaims,
                       PolicyBytte, Avsluttet
    <2> QED BY <2>1, <2>2, IngenNyBestilling
  <1>11. CASE UNCHANGED vars
        BY <1>11, IngenNyBestilling DEF vars
  <1> QED BY <1>1, <1>2, <1>3, <1>4, <1>5, <1>6, <1>7, <1>8, <1>9, <1>10, <1>11
          DEF Next, Fremdrift, API, Eiermodul

(* However many workers, crashes, expired leases, policy changes and late  *)
(* answers there are, a case gets at most one business order, and only on  *)
(* an identity the decision endpoint answered TILLAT for.                  *)
THEOREM EttOppdrag == Spec => []HoyestEttOppdrag
  <1>1. Init => EttOppdragInv
    <2>1. Init => Forretningsoppdrag = {}
          BY DEF Init, Forretningsoppdrag, Rid
    <2> QED BY <2>1 DEF EttOppdragInv, HoyestEttOppdrag
  <1>2. EttOppdragInv => HoyestEttOppdrag
        BY DEF EttOppdragInv
  <1> QED BY <1>1, <1>2, TypeInit, TypeSteg, EttOppdragSteg, PTL DEF Spec

-----------------------------------------------------------------------------
(* Action properties.                                                      *)

(* Only the step of a worker that holds the current claim takes a case out *)
(* of treatment, other than back to the queue.                             *)
THEOREM EierAlene == Spec => BareEierenAvslutter
  <1>1. TypeInv /\ [Next]_vars => [EierenAvslutter]_vars
    <2> SUFFICES ASSUME TypeInv, Next,
                        sak.status = "under_behandling",
                        sak'.status \notin {"under_behandling", "ny"}
                 PROVE  \E w \in Arbeider : /\ arb[w].claim = sak.claim
                                            /\ arb[w].pc # "ledig"
                                            /\ arb'[w].pc = "ledig"
        BY DEF EierenAvslutter
    <2>t. TypeOK
          BY DEF TypeInv
    <2>1. ASSUME NEW w \in Arbeider, Fencet(arb[w].claim), arb[w].pc # "ledig",
                 arb' = [arb EXCEPT ![w] = Ledig]
          PROVE  \E v \in Arbeider : /\ arb[v].claim = sak.claim
                                     /\ arb[v].pc # "ledig"
                                     /\ arb'[v].pc = "ledig"
          BY <2>t, <2>1, LedigType DEF Fencet, TypeOK
    <2>2. ASSUME NEW w \in Arbeider,
                 \/ PlanManuell(w) \/ PlanLost(w) \/ Fase2Retry(w) \/ StartFase1(w)
                 \/ FullforNektet(w) \/ FullforOppdrag(w)
          PROVE  /\ Fencet(arb[w].claim) /\ arb[w].pc # "ledig"
                 /\ arb' = [arb EXCEPT ![w] = Ledig]
          BY <2>2 DEF PlanManuell, PlanLost, Fase2Retry, StartFase1, FullforNektet,
                      FullforOppdrag, Avgi
    <2>3. ASSUME NEW w \in Arbeider,
                 \/ ClaimNesteSak(w) \/ PlanLes(w) \/ PlanKo(w) \/ Fase2Bygger(w)
                 \/ PlanKompensasjon(w) \/ UtstedKapabilitet(w) \/ Leasetap(w) \/ Krasj(w)
          PROVE  FALSE
          BY <2>t, <2>3
             DEF ClaimNesteSak, Claimbar, PlanLes, PlanKo, Fase2Bygger, PlanKompensasjon,
                 UtstedKapabilitet, Leasetap, Krasj, TypeOK, SakType
    <2>4. CASE API
          BY <2>4 DEF API, Reserver, Revalider, Replay, Avslutt, Feilsvar
    <2>5. CASE Eiermodul
          BY <2>t, <2>5 DEF Eiermodul, Plukk, FristUtloper, Kvittering, VerifKvittering,
                            TypeOK, SakType
    <2>6. CASE LeaseUtloper \/ KapabilitetUtloper \/ FrigiUtlopteClaims \/ PolicyBytte
          BY <2>t, <2>6 DEF LeaseUtloper, KapabilitetUtloper, FrigiUtlopteClaims,
                            PolicyBytte, TypeOK, SakType
    <2> QED BY <2>1, <2>2, <2>3, <2>4, <2>5, <2>6 DEF Next, Fremdrift
  <1> QED BY <1>1, TypeInit, TypeSteg, PTL DEF Spec, BareEierenAvslutter

(* What makes a terminal result final: rounds are opened in order, nothing *)
(* is ordered that was not registered, and no identity is registered twice.*)
RegistrertInv ==
    /\ \A g \in Runde : g > sak.ver => gener[g].status = "ingen"
    /\ \A r \in Rid : oppdrag[r] # "ingen" => op[r] # "ingen"
    /\ \A w \in Arbeider :
          arb[w].pc \in {"planlagt", "venter", "svar"} => op[arb[w].rid] # "ingen"

(* Steps that keep the rounds and the orders and move no worker into a     *)
(* planned state.                                                          *)
LEMMA RegistrertUendret ==
    ASSUME RegistrertInv,
           sak'.ver = sak.ver, gener' = gener,
           \A r \in Rid : oppdrag'[r] # "ingen" => oppdrag[r] # "ingen",
           \A r \in Rid : op[r] # "ingen" => op'[r] # "ingen",
           \A w \in Arbeider :
               arb'[w].pc \in {"planlagt", "venter", "svar"} => op'[arb'[w].rid] # "ingen"
    PROVE  RegistrertInv'
  BY DEF RegistrertInv

(* A registration revives no superseded operation.                         *)
LEMMA OpEtterBevarer ==
    ASSUME NEW rid
    PROVE  \A r \in Rid : /\ op[r] # "ingen" => OpEtter(rid)[r] # "ingen"
                          /\ r = rid => OpEtter(rid)[r] = "aktiv"
                          /\ r # rid /\ op[r] = "superseded" => OpEtter(rid)[r] = "superseded"
  BY DEF OpEtter

(* A registration changes no closed order.                                 *)
LEMMA OppdragEtterBevarer ==
    ASSUME NEW rid
    PROVE  \A r \in Rid :
               /\ OppdragEtter(rid)[r] # "ingen" <=> oppdrag[r] # "ingen"
               /\ oppdrag[r] # "opprettet" => OppdragEtter(rid)[r] = oppdrag[r]
  BY DEF OppdragEtter

(* Every step keeps the tie between what a worker planned and what is      *)
(* registered and ordered.                                                 *)
LEMMA RegistrertSteg == TypeInv /\ RegistrertInv /\ [Next]_vars => RegistrertInv'
  <1> SUFFICES ASSUME TypeInv, RegistrertInv, [Next]_vars PROVE RegistrertInv'
      OBVIOUS
  <1>t. TypeOK /\ ArbeiderOK
        BY DEF TypeInv
  <1>1. ASSUME NEW w \in Arbeider,
               \/ PlanManuell(w) \/ PlanLost(w) \/ PlanKo(w) \/ Fase2Retry(w)
               \/ FullforNektet(w) \/ Leasetap(w) \/ Krasj(w)
        PROVE  RegistrertInv'
    <2>1. UNCHANGED <<gener, oppdrag, op>> /\ arb' = [arb EXCEPT ![w] = Ledig]
          BY <1>1 DEF PlanManuell, PlanLost, PlanKo, Fase2Retry, FullforNektet, Leasetap,
                      Krasj, Avgi
    <2>2. sak'.ver = sak.ver
          BY <1>t, <1>1 DEF PlanManuell, PlanLost, PlanKo, Fase2Retry, FullforNektet,
                            Leasetap, Krasj, Avgi, TypeOK, SakType
    <2>3. \A v \in Arbeider :
              arb'[v].pc \in {"planlagt", "venter", "svar"} => op'[arb'[v].rid] # "ingen"
          BY <1>t, <2>1, LedigType DEF RegistrertInv, TypeOK
    <2> QED BY <2>1, <2>2, <2>3, RegistrertUendret
  <1>2. ASSUME NEW w \in Arbeider, ClaimNesteSak(w) \/ PlanLes(w) PROVE RegistrertInv'
    <2>1. UNCHANGED <<gener, oppdrag, op>>
          BY <1>2 DEF ClaimNesteSak, PlanLes
    <2>2. sak'.ver = sak.ver
          BY <1>t, <1>2 DEF ClaimNesteSak, PlanLes, TypeOK, SakType
    <2>3. arb'[w].pc \in {"claimet", "planlegger"}
      <3>1. CASE ClaimNesteSak(w)
            BY <1>t, <3>1 DEF ClaimNesteSak, Ledig, TypeOK
      <3>2. CASE PlanLes(w)
            BY <1>t, <3>2 DEF PlanLes, TypeOK, ArbType
      <3> QED BY <1>2, <3>1, <3>2
    <2>4. \A v \in Arbeider \ {w} : arb'[v] = arb[v]
          BY <1>t, <1>2 DEF ClaimNesteSak, PlanLes, TypeOK
    <2> QED BY <2>1, <2>2, <2>3, <2>4, RegistrertUendret DEF RegistrertInv
  <1>3. ASSUME NEW w \in Arbeider, Fase2Bygger(w) \/ PlanKompensasjon(w)
        PROVE  RegistrertInv'
    <2>1. PICK rid : /\ op' = OpEtter(rid) \/ (op' = op /\ op[rid] = "aktiv")
                     /\ arb' = [arb EXCEPT ![w].pc = "planlagt", ![w].rid = rid]
                     /\ rid \in Rid
                     /\ oppdrag' = oppdrag \/ oppdrag' = OppdragEtter(rid)
                     /\ UNCHANGED <<sak, gener>>
      <3>1. arb[w].policy \in Policy
            BY <1>t, <1>3 DEF Fase2Bygger, PlanKompensasjon, ArbeiderOK
      <3>2. CASE Fase2Bygger(w)
        <4>1. Fase2Plan(w) \in Rid
              BY <1>t, <3>1, <3>2, PlanRid, ForsokAntatt
                 DEF Fase2Bygger, Fase2Plan, TypeOK, ArbType, Runde, Rid, ForretningsRid
        <4> QED BY <3>2, <4>1 DEF Fase2Bygger
      <3>3. CASE PlanKompensasjon(w)
        <4>1. KompPlan(w) \in Rid
              BY <3>1, PlanRid DEF KompPlan, Rid, ForretningsRid
        <4> QED BY <3>3, <4>1 DEF PlanKompensasjon
      <3> QED BY <1>3, <3>2, <3>3
    <2>2. /\ \A r \in Rid : op[r] # "ingen" => op'[r] # "ingen"
          /\ op'[rid] # "ingen"
          BY <2>1, OpEtterBevarer
    <2>3. \A r \in Rid : oppdrag'[r] # "ingen" => oppdrag[r] # "ingen"
          BY <2>1, OppdragEtterBevarer
    <2>4. \A v \in Arbeider :
              arb'[v].pc \in {"planlagt", "venter", "svar"} => op'[arb'[v].rid] # "ingen"
      <3>1. arb'[w].rid = rid /\ \A v \in Arbeider \ {w} : arb'[v] = arb[v]
            BY <1>t, <2>1 DEF TypeOK, ArbType
      <3> QED BY <1>t, <2>2, <3>1 DEF RegistrertInv, ArbeiderOK
    <2> QED BY <2>1, <2>2, <2>3, <2>4, RegistrertUendret
  <1>4. ASSUME NEW w \in Arbeider, StartFase1(w) PROVE RegistrertInv'
    <2> DEFINE rid == Fase1Plan(w)
    <2>1. /\ op' = OpEtter(rid)
          /\ oppdrag' = [OppdragEtter(rid) EXCEPT ![rid] = "opprettet"]
          /\ arb' = [arb EXCEPT ![w] = Ledig]
          BY <1>4 DEF StartFase1
    <2>2. sak'.ver = sak.ver + 1 /\ sak.ver \in Nat
          BY <1>t, <1>4, ForsokAntatt DEF StartFase1, TypeOK, SakType
    <2>3. \A g \in Runde : g > sak'.ver => gener'[g].status = "ingen"
          BY <1>t, <1>4, <2>2, ForsokAntatt DEF StartFase1, RegistrertInv, TypeOK, Runde
    <2> HIDE DEF rid
    <2>4. \A r \in Rid : oppdrag'[r] # "ingen" => op'[r] # "ingen"
      <3> TAKE r \in Rid
      <3>1. CASE r = rid
            BY <2>1, <3>1, OpEtterBevarer
      <3>2. CASE r # rid
            <4>1. oppdrag'[r] = OppdragEtter(rid)[r]
                  BY <2>1, <3>2
            <4> QED BY <2>1, <4>1, OpEtterBevarer, OppdragEtterBevarer DEF RegistrertInv
      <3> QED BY <3>1, <3>2
    <2>5. \A v \in Arbeider :
              arb'[v].pc \in {"planlagt", "venter", "svar"} => op'[arb'[v].rid] # "ingen"
      <3>1. arb'[w].pc = "ledig" /\ \A v \in Arbeider \ {w} : arb'[v] = arb[v]
            BY <1>t, <2>1, LedigType DEF TypeOK
      <3> QED BY <1>t, <2>1, <3>1, OpEtterBevarer DEF RegistrertInv, ArbeiderOK
    <2> QED BY <2>3, <2>4, <2>5 DEF RegistrertInv
  <1>5. ASSUME NEW w \in Arbeider, UtstedKapabilitet(w) PROVE RegistrertInv'
    <2>1. UNCHANGED <<sak, gener, oppdrag, op>>
          BY <1>5 DEF UtstedKapabilitet
    <2>2. /\ arb[w].pc = "planlagt" /\ arb'[w].rid = arb[w].rid
          /\ \A v \in Arbeider \ {w} : arb'[v] = arb[v]
          BY <1>t, <1>5 DEF UtstedKapabilitet, TypeOK, ArbType
    <2> QED BY <2>1, <2>2, RegistrertUendret DEF RegistrertInv
  <1>6. ASSUME NEW w \in Arbeider, FullforOppdrag(w) PROVE RegistrertInv'
    <2>1. sak'.ver = sak.ver /\ gener' = gener /\ op' = op
          BY <1>t, <1>6 DEF FullforOppdrag, Avgi, TypeOK, SakType
    <2>2. op[arb[w].rid] # "ingen"
          BY <1>6 DEF FullforOppdrag, RegistrertInv
    <2>3. \A r \in Rid : oppdrag'[r] # "ingen" => op'[r] # "ingen"
          BY <1>t, <1>6, <2>1, <2>2 DEF FullforOppdrag, RegistrertInv, TypeOK
    <2>4. arb'[w].pc = "ledig" /\ \A v \in Arbeider \ {w} : arb'[v] = arb[v]
          BY <1>t, <1>6, LedigType DEF FullforOppdrag, Avgi, TypeOK
    <2> QED BY <2>1, <2>3, <2>4 DEF RegistrertInv
  <1>7. ASSUME NEW k \in kall,
               Reserver(k) \/ Revalider(k) \/ Replay(k) \/ Avslutt(k) \/ Feilsvar(k)
        PROVE  RegistrertInv'
    <2>1. UNCHANGED <<sak, gener, oppdrag, op>>
          BY <1>7 DEF Reserver, Revalider, Replay, Avslutt, Feilsvar
    <2>2. \A w \in Arbeider :
              \/ arb'[w] = arb[w]
              \/ arb[w].pc = "venter" /\ arb'[w].rid = arb[w].rid
      <3>1. ASSUME NEW b, Besvar(k, b), NEW w \in Arbeider
            PROVE  \/ arb'[w] = arb[w]
                   \/ arb[w].pc = "venter" /\ arb'[w].rid = arb[w].rid
        <4>1. \/ arb'[w] = arb[w]
              \/ arb[w].pc = "venter" /\ arb'[w] = [arb[w] EXCEPT !.pc = "svar", !.svar = b]
              BY <3>1 DEF Besvar
        <4>2. arb[w] \in ArbType
              BY <1>t DEF TypeOK
        <4> QED BY <4>1, <4>2 DEF ArbType
      <3> QED BY <1>7, <3>1 DEF Reserver, Revalider, Replay, Avslutt, Feilsvar
    <2> QED BY <2>1, <2>2, RegistrertUendret DEF RegistrertInv
  <1>8. CASE Eiermodul
    <2>1. UNCHANGED <<op, arb>>
          BY <1>8 DEF Eiermodul, Plukk, FristUtloper, Kvittering, VerifKvittering
    <2>2. sak'.ver = sak.ver
          BY <1>t, <1>8 DEF Eiermodul, Plukk, FristUtloper, Kvittering, VerifKvittering,
                            TypeOK, SakType
    <2>3. \A r \in Rid : oppdrag'[r] # "ingen" => oppdrag[r] # "ingen"
          BY <1>t, <1>8 DEF Eiermodul, Plukk, FristUtloper, Kvittering, VerifKvittering,
                            TypeOK
    <2>4. \A g \in Runde : gener[g].status = "ingen" => gener'[g].status = "ingen"
          BY <1>t, <1>8 DEF Eiermodul, Plukk, FristUtloper, Kvittering, VerifKvittering,
                            TypeOK, RundeType
    <2> QED BY <2>1, <2>2, <2>3, <2>4 DEF RegistrertInv
  <1>9. CASE LeaseUtloper \/ KapabilitetUtloper \/ FrigiUtlopteClaims \/ PolicyBytte
    <2>1. UNCHANGED <<gener, oppdrag, op, arb>>
          BY <1>9 DEF LeaseUtloper, KapabilitetUtloper, FrigiUtlopteClaims, PolicyBytte
    <2>2. sak'.ver = sak.ver
          BY <1>t, <1>9 DEF LeaseUtloper, KapabilitetUtloper, FrigiUtlopteClaims,
                            PolicyBytte, TypeOK, SakType
    <2> QED BY <2>1, <2>2 DEF RegistrertInv
  <1>10. CASE UNCHANGED vars
        BY <1>10 DEF vars, RegistrertInv
  <1> QED BY <1>1, <1>2, <1>3, <1>4, <1>5, <1>6, <1>7, <1>8, <1>9, <1>10
          DEF Next, Fremdrift, API

(* No step changes an outcome.                                             *)
LEMMA UtfallStaarSteg ==
    TypeInv /\ RegistrertInv /\ [Next]_vars => [UtfallStaar]_vars
  <1> SUFFICES ASSUME TypeInv, RegistrertInv, Next PROVE UtfallStaar
      BY DEF UtfallStaar
  <1>t. TypeOK /\ ArbeiderOK
        BY DEF TypeInv
  <1>1. ASSUME NEW w \in Arbeider,
               \/ ClaimNesteSak(w) \/ PlanLes(w) \/ PlanManuell(w) \/ PlanLost(w)
               \/ PlanKo(w) \/ Fase2Retry(w) \/ UtstedKapabilitet(w)
               \/ FullforNektet(w) \/ Leasetap(w) \/ Krasj(w)
        PROVE  UtfallStaar
    <2>1. UNCHANGED <<gener, op, oppdrag, beslutning>>
          BY <1>1 DEF ClaimNesteSak, PlanLes, PlanManuell, PlanLost, PlanKo, Fase2Retry,
                      UtstedKapabilitet, FullforNektet, Leasetap, Krasj
    <2>2. sak.status = "lost" => sak' = sak
          BY <1>1 DEF ClaimNesteSak, PlanLes, PlanManuell, PlanLost, PlanKo, Fase2Retry,
                      UtstedKapabilitet, FullforNektet, Leasetap, Krasj,
                      Avgi, Fencet, Claimbar
    <2> QED BY <2>1, <2>2 DEF UtfallStaar
  <1>2. ASSUME NEW w \in Arbeider, Fase2Bygger(w) \/ PlanKompensasjon(w)
        PROVE  UtfallStaar
    <2>1. UNCHANGED <<sak, gener, beslutning>>
          BY <1>2 DEF Fase2Bygger, PlanKompensasjon
    <2>2. PICK rid : \/ op' = op
                     \/ op[rid] # "superseded" /\ op' = OpEtter(rid)
          BY <1>2 DEF Fase2Bygger, PlanKompensasjon, Registrerbar
    <2>3. \A r \in Rid : op[r] = "superseded" => op'[r] = "superseded"
          BY <2>2, OpEtterBevarer
    <2>4. \A r \in Rid : oppdrag[r] # "opprettet" => oppdrag'[r] = oppdrag[r]
          BY <1>2, OppdragEtterBevarer DEF Fase2Bygger, PlanKompensasjon
    <2> QED BY <2>1, <2>3, <2>4 DEF UtfallStaar
  <1>3. ASSUME NEW w \in Arbeider, StartFase1(w) PROVE UtfallStaar
    <2> DEFINE rid == Fase1Plan(w)
    <2>1. /\ op' = OpEtter(rid) /\ op[rid] = "ingen"
          /\ oppdrag' = [OppdragEtter(rid) EXCEPT ![rid] = "opprettet"]
          /\ sak.status # "lost" /\ beslutning' = beslutning
          BY <1>3 DEF StartFase1, Registrerbar, Fencet
    <2>2. \A g \in Runde : gener[g].status \in {"positiv", "negativ"} => gener'[g] = gener[g]
      <3>1. sak.ver \in Nat
            BY <1>t, ForsokAntatt DEF TypeOK, SakType
      <3>2. \A g \in Runde : g = sak.ver + 1 => gener[g].status = "ingen"
            BY <3>1 DEF RegistrertInv, Runde
      <3> QED BY <1>t, <1>3, <3>2 DEF StartFase1, TypeOK
    <2> HIDE DEF rid
    <2>3. \A r \in Rid : op[r] = "superseded" => op'[r] = "superseded"
          BY <2>1, OpEtterBevarer
    <2>4. \A r \in Rid : oppdrag[r] \in {"utfort", "feilet", "kansellert"}
                            => oppdrag'[r] = oppdrag[r]
      <3> TAKE r \in Rid
      <3> HAVE oppdrag[r] \in {"utfort", "feilet", "kansellert"}
      <3>1. r # rid
            BY <2>1 DEF RegistrertInv
      <3>2. oppdrag'[r] = OppdragEtter(rid)[r]
            BY <2>1, <3>1
      <3> QED BY <3>2, OppdragEtterBevarer
    <2> QED BY <2>1, <2>2, <2>3, <2>4 DEF UtfallStaar
  <1>4. ASSUME NEW w \in Arbeider, FullforOppdrag(w) PROVE UtfallStaar
        BY <1>t, <1>4 DEF FullforOppdrag, Avgi, Fencet, UtfallStaar, TypeOK
  <1>5. ASSUME NEW k \in kall, Reserver(k) \/ Revalider(k) \/ Replay(k) \/ Feilsvar(k)
        PROVE  UtfallStaar
        BY <1>5 DEF Reserver, Revalider, Replay, Feilsvar, UtfallStaar
  <1>6. ASSUME NEW k \in kall, Avslutt(k) PROVE UtfallStaar
        BY <1>t, <1>6 DEF Avslutt, UtfallStaar, TypeOK
  <1>7. CASE Eiermodul
        BY <1>t, <1>7 DEF Eiermodul, Plukk, FristUtloper, Kvittering, VerifKvittering,
                          UtfallStaar, TypeOK, SakType
  <1>8. CASE LeaseUtloper \/ KapabilitetUtloper \/ FrigiUtlopteClaims \/ PolicyBytte
        BY <1>8 DEF LeaseUtloper, KapabilitetUtloper, FrigiUtlopteClaims, PolicyBytte,
                    UtfallStaar
  <1> QED BY <1>1, <1>2, <1>3, <1>4, <1>5, <1>6, <1>7, <1>8 DEF Next, Fremdrift, API

(* No decided key, closed round, closed order, superseded operation or     *)
(* solved case is ever decided, closed, revived or reopened again.         *)
THEOREM ForsteVinner == Spec => ForsteResultatVinner
  <1>1. Init => RegistrertInv
        BY DEF Init, RegistrertInv, IngenRunde, Ledig
  <1> QED BY <1>1, TypeInit, TypeSteg, RegistrertSteg, UtfallStaarSteg, PTL
          DEF Spec, ForsteResultatVinner

-----------------------------------------------------------------------------
(* Claims and capabilities.                                                *)

(* A worker that has not asked for its capability yet.                     *)
Tidlig == {"claimet", "planlegger", "planlagt"}

(* A claim number has one worker and at most one capability, and the       *)
(* capability is drawn by the worker's last step before it waits.          *)
KlaimInv ==
    /\ \A w \in Arbeider : arb[w].pc # "ledig" => arb[w].claim \in 1..sak.gen
    /\ \A v, w \in Arbeider :
          arb[v].pc # "ledig" /\ arb[w].pc # "ledig" /\ arb[v].claim = arb[w].claim
              => v = w
    /\ \A k \in kap : k.claim <= sak.gen
    /\ \A k, l \in kap : k.claim = l.claim => k = l
    /\ \A w \in Arbeider, k \in kap : arb[w].pc \in Tidlig => k.claim # arb[w].claim

(* A worker v is where it was under the same claim, or further, or free.   *)
Videre(v) ==
    \/ arb'[v].pc = "ledig"
    \/ /\ arb'[v].claim = arb[v].claim
       /\ arb[v].pc # "ledig"
       /\ arb'[v].pc \in Tidlig => arb[v].pc \in Tidlig

(* Which claims have capabilities is what decides, not their status.       *)
SammeKap == kap' = kap \/ \E c : kap' = Utlopte(c) \/ \E s : kap' = SettKap(c, s)

(* Marking capabilities keeps one per claim, and moves none to another     *)
(* claim or operation.                                                     *)
LEMMA MerketKap ==
    ASSUME TypeInv, KlaimInv, SammeKap
    PROVE  /\ \A k \in kap' : \E l \in kap : k.claim = l.claim /\ k.rid = l.rid
           /\ \A l \in kap : \E k \in kap' : k.claim = l.claim /\ k.rid = l.rid
           /\ \A k, l \in kap' : k.claim = l.claim => k = l
  <1>t. kap \subseteq KapType
        BY DEF TypeInv, TypeOK
  <1>1. CASE kap' = kap
        BY <1>1 DEF KlaimInv
  <1>2. ASSUME NEW c, kap' = Utlopte(c)
        PROVE  /\ \A k \in kap' : \E l \in kap : k.claim = l.claim /\ k.rid = l.rid
               /\ \A l \in kap : \E k \in kap' : k.claim = l.claim /\ k.rid = l.rid
               /\ \A k, l \in kap' : k.claim = l.claim => k = l
    <2> DEFINE F(k) == [k EXCEPT !.utlopt = @ \/ k.claim = c]
    <2>1. kap' = {F(k) : k \in kap}
          BY <1>2 DEF Utlopte
    <2>2. \A k \in kap : F(k).claim = k.claim /\ F(k).rid = k.rid
          BY <1>t DEF KapType
    <2> HIDE DEF F
    <2> QED BY <2>1, <2>2 DEF KlaimInv
  <1>3. ASSUME NEW c, NEW s, kap' = SettKap(c, s)
        PROVE  /\ \A k \in kap' : \E l \in kap : k.claim = l.claim /\ k.rid = l.rid
               /\ \A l \in kap : \E k \in kap' : k.claim = l.claim /\ k.rid = l.rid
               /\ \A k, l \in kap' : k.claim = l.claim => k = l
    <2> DEFINE F(k) == [k EXCEPT !.status = IF k.claim = c THEN s ELSE @]
    <2>1. kap' = {F(k) : k \in kap}
          BY <1>3 DEF SettKap
    <2>2. \A k \in kap : F(k).claim = k.claim /\ F(k).rid = k.rid
          BY <1>t DEF KapType
    <2> HIDE DEF F
    <2> QED BY <2>1, <2>2 DEF KlaimInv
  <1> QED BY <1>1, <1>2, <1>3 DEF SammeKap

(* Steps that draw no claim and no capability.                             *)
LEMMA KlaimBevart ==
    ASSUME TypeInv, KlaimInv, SammeKap, sak'.gen = sak.gen,
           \A v \in Arbeider : Videre(v) \/ arb'[v] = arb[v]
    PROVE  KlaimInv'
  <1>1. \A k \in kap' : \E l \in kap : k.claim = l.claim
        BY MerketKap
  <1>2. \A k, l \in kap' : k.claim = l.claim => k = l
        BY MerketKap
  <1>3. \A v \in Arbeider : arb'[v].pc # "ledig" =>
            /\ arb[v].pc # "ledig" /\ arb'[v].claim = arb[v].claim
            /\ arb'[v].pc \in Tidlig => arb[v].pc \in Tidlig
        BY DEF Videre
  <1>4. "ledig" \notin Tidlig
        BY DEF Tidlig
  <1>5. \A w \in Arbeider, k \in kap' : arb'[w].pc \in Tidlig => k.claim # arb'[w].claim
    <2> TAKE w \in Arbeider, k \in kap'
    <2> HAVE arb'[w].pc \in Tidlig
    <2>1. PICK l \in kap : k.claim = l.claim
          BY <1>1
    <2>2. arb[w].pc \in Tidlig /\ arb'[w].claim = arb[w].claim
          BY <1>3, <1>4
    <2> QED BY <2>1, <2>2 DEF KlaimInv
  <1>6. \A k \in kap' : k.claim <= sak'.gen
        BY <1>1 DEF KlaimInv
  <1>7. \A w \in Arbeider : arb'[w].pc # "ledig" => arb'[w].claim \in 1..sak'.gen
        BY <1>3 DEF KlaimInv
  <1>8. \A v, w \in Arbeider :
          arb'[v].pc # "ledig" /\ arb'[w].pc # "ledig" /\ arb'[v].claim = arb'[w].claim
              => v = w
        BY <1>3 DEF KlaimInv
  <1> QED BY <1>2, <1>5, <1>6, <1>7, <1>8 DEF KlaimInv

(* An answer moves the one worker that waits for it.                       *)
LEMMA BesvarVidere ==
    ASSUME TypeInv, NEW k, NEW b, Besvar(k, b), NEW v \in Arbeider
    PROVE  \/ arb'[v] = arb[v]
           \/ /\ arb[v].pc = "venter" /\ arb'[v].pc = "svar"
              /\ arb'[v].claim = arb[v].claim /\ arb'[v].ver = arb[v].ver
              /\ arb'[v].fase = arb[v].fase /\ arb'[v].bevis = arb[v].bevis
              /\ arb'[v].rid = arb[v].rid
  <1>1. \/ arb'[v] = arb[v]
        \/ arb[v].pc = "venter" /\ arb'[v] = [arb[v] EXCEPT !.pc = "svar", !.svar = b]
        BY DEF Besvar
  <1>2. arb[v] \in ArbType
        BY DEF TypeInv, TypeOK
  <1> QED BY <1>1, <1>2 DEF ArbType

(* Steps by which a worker gives its case up.                              *)
Slipp(w) ==
    \/ PlanManuell(w) \/ PlanLost(w) \/ PlanKo(w) \/ StartFase1(w) \/ Fase2Retry(w)
    \/ FullforNektet(w) \/ FullforOppdrag(w) \/ Leasetap(w) \/ Krasj(w)

(* A worker that gives its case up is free, and nothing of its claim, of   *)
(* the requests or of the decisions changes.                               *)
LEMMA SlippArb ==
    ASSUME TypeInv, NEW w \in Arbeider, Slipp(w)
    PROVE  /\ arb' = [arb EXCEPT ![w] = Ledig]
           /\ arb'[w].pc = "ledig" /\ arb'[w].fase = "ny"
           /\ \A v \in Arbeider \ {w} : arb'[v] = arb[v]
           /\ kap' = kap /\ kall' = kall /\ beslutning' = beslutning
           /\ sak'.gen = sak.gen /\ sak'.vei = sak.vei
  <1>t. TypeOK
        BY DEF TypeInv
  <1>1. arb' = [arb EXCEPT ![w] = Ledig]
        BY DEF Slipp, PlanManuell, PlanLost, PlanKo, StartFase1, Fase2Retry,
               FullforNektet, FullforOppdrag, Leasetap, Krasj, Avgi
  <1>2. sak'.gen = sak.gen /\ sak'.vei = sak.vei
        BY <1>t DEF Slipp, PlanManuell, PlanLost, PlanKo, StartFase1, Fase2Retry,
               FullforNektet, FullforOppdrag, Leasetap, Krasj, Avgi, TypeOK, SakType
  <1>3. kap' = kap /\ kall' = kall /\ beslutning' = beslutning
        BY DEF Slipp, PlanManuell, PlanLost, PlanKo, StartFase1, Fase2Retry,
               FullforNektet, FullforOppdrag, Leasetap, Krasj, Avgi
  <1> QED BY <1>t, <1>1, <1>2, <1>3 DEF TypeOK, Ledig

(* Steps by which a worker goes on planning.                               *)
Planlegg(w) == PlanLes(w) \/ Fase2Bygger(w) \/ PlanKompensasjon(w)

(* A worker that goes on planning keeps its claim and its copy of the case.*)
LEMMA PlanleggArb ==
    ASSUME TypeInv, NEW w \in Arbeider, Planlegg(w)
    PROVE  /\ arb[w].pc \in Tidlig /\ arb'[w].pc \in Tidlig
           /\ arb'[w].claim = arb[w].claim /\ arb'[w].fase = arb[w].fase
           /\ arb'[w].ver = arb[w].ver
           /\ \A v \in Arbeider \ {w} : arb'[v] = arb[v]
           /\ kap' = kap /\ kall' = kall /\ beslutning' = beslutning /\ sak' = sak
  <1>t. arb \in [Arbeider -> ArbType]
        BY DEF TypeInv, TypeOK
  <1>1. CASE PlanLes(w)
        BY <1>t, <1>1 DEF PlanLes, ArbType, Tidlig
  <1>2. CASE Fase2Bygger(w)
        BY <1>t, <1>2 DEF Fase2Bygger, ArbType, Tidlig
  <1>3. CASE PlanKompensasjon(w)
        BY <1>t, <1>3 DEF PlanKompensasjon, ArbType, Tidlig
  <1> QED BY <1>1, <1>2, <1>3 DEF Planlegg

(* A claim draws the next number for one worker and copies the case to it. *)
LEMMA ClaimArb ==
    ASSUME TypeInv, NEW w \in Arbeider, ClaimNesteSak(w)
    PROVE  /\ arb'[w] = [Ledig EXCEPT !.pc = "claimet", !.claim = sak.gen + 1,
                                      !.fase = FaseAv(sak.status), !.ver = sak.ver]
           /\ arb'[w].pc = "claimet" /\ arb'[w].claim = sak.gen + 1
           /\ arb'[w].fase = FaseAv(sak.status) /\ arb'[w].ver = sak.ver
           /\ \A v \in Arbeider \ {w} : arb'[v] = arb[v]
           /\ sak'.gen = sak.gen + 1 /\ sak'.ver = sak.ver /\ sak'.vei = sak.vei
           /\ sak'.status = "under_behandling" /\ sak'.krav = sak.krav
  BY DEF TypeInv, TypeOK, SakType, ClaimNesteSak, Ledig

(* The workers' claims and the capabilities stay one to one.               *)
LEMMA KlaimSteg == TypeInv /\ KlaimInv /\ [Next]_vars => KlaimInv'
  <1> SUFFICES ASSUME TypeInv, KlaimInv, [Next]_vars PROVE KlaimInv'
      OBVIOUS
  <1>t. TypeOK
        BY DEF TypeInv
  <1>g. sak.gen \in Nat
        BY <1>t DEF TypeOK, SakType
  <1>1. ASSUME NEW w \in Arbeider, Slipp(w) PROVE KlaimInv'
        BY <1>1, SlippArb, KlaimBevart DEF Videre, SammeKap
  <1>2. ASSUME NEW w \in Arbeider, Planlegg(w) PROVE KlaimInv'
    <2>1. Videre(w)
          BY <1>2, PlanleggArb DEF Videre, Tidlig
    <2> QED BY <1>2, <2>1, PlanleggArb, KlaimBevart DEF SammeKap
  <1>3. ASSUME NEW w \in Arbeider, ClaimNesteSak(w) PROVE KlaimInv'
    <2>1. /\ arb'[w].claim = sak.gen + 1 /\ sak'.gen = sak.gen + 1 /\ kap' = kap
          /\ \A v \in Arbeider \ {w} : arb'[v] = arb[v]
          BY <1>3, ClaimArb DEF ClaimNesteSak
    <2>2. \A v \in Arbeider \ {w} :
              arb'[v].pc # "ledig" => /\ arb'[v].claim \in 1..sak.gen
                                      /\ arb'[v].claim # arb'[w].claim
          BY <1>g, <2>1 DEF KlaimInv
    <2>3. \A k \in kap : k.claim <= sak.gen /\ k.claim \in Nat
          BY <1>t DEF KlaimInv, TypeOK, KapType
    <2>4. \A v \in Arbeider : arb'[v].pc # "ledig" => arb'[v].claim \in 1..sak'.gen
          BY <1>g, <2>1, <2>2
    <2>5. \A v \in Arbeider, k \in kap' : arb'[v].pc \in Tidlig => k.claim # arb'[v].claim
      <3> TAKE v \in Arbeider, k \in kap'
      <3>1. CASE v = w
            BY <1>g, <2>1, <2>3, <3>1
      <3>2. CASE v # w
            BY <2>1, <3>2 DEF KlaimInv
      <3> QED BY <3>1, <3>2
    <2>6. \A k \in kap' : k.claim <= sak'.gen
          BY <1>g, <2>1, <2>3
    <2>7. \A u, v \in Arbeider :
              arb'[u].pc # "ledig" /\ arb'[v].pc # "ledig" /\ arb'[u].claim = arb'[v].claim
                  => u = v
          BY <2>1, <2>2 DEF KlaimInv
    <2> QED BY <2>1, <2>4, <2>5, <2>6, <2>7 DEF KlaimInv
  <1>4. ASSUME NEW w \in Arbeider, UtstedKapabilitet(w) PROVE KlaimInv'
    <2>1. PICK r \in AktiveOp :
              kap' = kap \cup {[claim |-> arb[w].claim, rid |-> r,
                                status |-> "utstedt", utlopt |-> FALSE]}
          BY <1>4 DEF UtstedKapabilitet
    <2>2. /\ arb[w].pc = "planlagt" /\ arb'[w].pc = "venter"
          /\ arb'[w].claim = arb[w].claim /\ sak' = sak
          /\ \A v \in Arbeider \ {w} : arb'[v] = arb[v]
          BY <1>t, <1>4 DEF UtstedKapabilitet, TypeOK, ArbType
    <2>3. /\ \A k \in kap : k.claim # arb[w].claim
          /\ arb[w].claim \in 1..sak.gen
          BY <2>2 DEF KlaimInv, Tidlig
    <2>4. \A k, l \in kap' : k.claim = l.claim => k = l
      <3> DEFINE ny == [claim |-> arb[w].claim, rid |-> r,
                        status |-> "utstedt", utlopt |-> FALSE]
      <3>1. kap' = kap \cup {ny} /\ ny.claim = arb[w].claim
            BY <2>1
      <3> HIDE DEF ny
      <3> QED BY <2>3, <3>1 DEF KlaimInv
    <2>5. \A k \in kap' : k.claim <= sak'.gen
          BY <1>g, <2>1, <2>2, <2>3 DEF KlaimInv
    <2>6. \A v \in Arbeider, k \in kap' : arb'[v].pc \in Tidlig => k.claim # arb'[v].claim
      <3> TAKE v \in Arbeider, k \in kap'
      <3> HAVE arb'[v].pc \in Tidlig
      <3>1. v # w /\ arb'[v] = arb[v] /\ arb[v].pc # "ledig"
            BY <2>2 DEF Tidlig
      <3>2. arb[v].claim # arb[w].claim
            BY <2>2, <3>1 DEF KlaimInv
      <3> QED BY <2>1, <3>1, <3>2 DEF KlaimInv
    <2>7. \A v \in Arbeider : /\ arb'[v].claim = arb[v].claim
                              /\ arb'[v].pc # "ledig" => arb[v].pc # "ledig"
          BY <2>2
    <2> QED BY <2>2, <2>4, <2>5, <2>6, <2>7 DEF KlaimInv
  <1>5. ASSUME NEW k \in kall, Reserver(k) \/ Revalider(k) PROVE KlaimInv'
        BY <1>5, KlaimBevart DEF Reserver, Revalider, SammeKap
  <1>6. ASSUME NEW k \in kall, Replay(k) \/ Avslutt(k) \/ Feilsvar(k) PROVE KlaimInv'
    <2>1. PICK b : Besvar(k, b)
          BY <1>6 DEF Replay, Avslutt, Feilsvar
    <2>2. \A v \in Arbeider : Videre(v) \/ arb'[v] = arb[v]
          BY <2>1, BesvarVidere DEF Videre, Tidlig
    <2>3. SammeKap /\ sak' = sak
          BY <1>6 DEF Replay, Avslutt, Feilsvar, SammeKap
    <2> QED BY <2>2, <2>3, KlaimBevart
  <1>7. CASE Eiermodul
    <2>1. UNCHANGED <<arb, kap>>
          BY <1>7 DEF Eiermodul, Plukk, FristUtloper, Kvittering, VerifKvittering
    <2>2. sak'.gen = sak.gen
          BY <1>t, <1>7 DEF Eiermodul, Plukk, FristUtloper, Kvittering, VerifKvittering,
                            TypeOK, SakType
    <2> QED BY <2>1, <2>2, KlaimBevart DEF SammeKap
  <1>8. CASE LeaseUtloper \/ KapabilitetUtloper \/ FrigiUtlopteClaims \/ PolicyBytte
    <2>1. SammeKap /\ arb' = arb
          BY <1>8 DEF LeaseUtloper, KapabilitetUtloper, FrigiUtlopteClaims, PolicyBytte,
                      SammeKap
    <2>2. sak'.gen = sak.gen
          BY <1>t, <1>8 DEF LeaseUtloper, KapabilitetUtloper, FrigiUtlopteClaims,
                            PolicyBytte, TypeOK, SakType
    <2> QED BY <2>1, <2>2, KlaimBevart
  <1>9. CASE UNCHANGED vars
        BY <1>9 DEF vars, KlaimInv
  <1> QED BY <1>1, <1>2, <1>3, <1>4, <1>5, <1>6, <1>7, <1>8, <1>9
          DEF Next, Fremdrift, API, Slipp, Planlegg

-----------------------------------------------------------------------------
(* Burnt capabilities and decisions.                                       *)

(* A request past its revalidation has a capability for just the key it    *)
(* will decide.                                                            *)
BeslutInv ==
    /\ BruktErBesluttet
    /\ \A k \in kall : k.steg = "revalidert" =>
          \E x \in kap : x.claim = k.claim /\ x.rid = k.nokkel

Brukte == {k \in kap : k.status = "brukt"}

(* A capability is burnt by the commit of its own decision and by nothing  *)
(* else, since revalidation tied the key to the capability of the claim.   *)
LEMMA BeslutSteg == TypeInv /\ KlaimInv /\ BeslutInv /\ [Next]_vars => BeslutInv'
  <1> SUFFICES ASSUME TypeInv, KlaimInv, BeslutInv, [Next]_vars PROVE BeslutInv'
      OBVIOUS
  <1>t. TypeOK
        BY DEF TypeInv
  <1>b. /\ \A k \in Brukte : beslutning[k.rid] # "ingen"
        /\ \A r \in Rid : beslutning[r] # "ingen" => \E k \in Brukte : k.rid = r
        /\ \A k, l \in Brukte : k.rid = l.rid => k = l
        BY DEF BeslutInv, BruktErBesluttet, Brukte
  <1>m. ASSUME beslutning' = beslutning, Brukte' = Brukte PROVE BruktErBesluttet'
        BY <1>b, <1>m DEF BruktErBesluttet, Brukte
  <1>0. ASSUME UNCHANGED <<kap, kall, beslutning>> PROVE BeslutInv'
        BY <1>0 DEF BeslutInv, BruktErBesluttet
  <1>1. ASSUME NEW w \in Arbeider, Slipp(w) \/ Planlegg(w) PROVE BeslutInv'
        BY <1>0, <1>1, SlippArb, PlanleggArb
  <1>2. ASSUME NEW w \in Arbeider, ClaimNesteSak(w) PROVE BeslutInv'
        BY <1>0, <1>2 DEF ClaimNesteSak
  <1>3. ASSUME NEW w \in Arbeider, UtstedKapabilitet(w) PROVE BeslutInv'
    <2>0. PICK r \in AktiveOp :
              kap' = kap \cup {[claim |-> arb[w].claim, rid |-> r,
                                status |-> "utstedt", utlopt |-> FALSE]}
          BY <1>3 DEF UtstedKapabilitet
    <2> DEFINE x == [claim |-> arb[w].claim, rid |-> r, status |-> "utstedt",
                     utlopt |-> FALSE]
               k == [claim |-> arb[w].claim, nokkel |-> arb[w].rid, steg |-> "sendt",
                     iTide |-> FALSE]
    <2>1. kap' = kap \cup {x} /\ x.status = "utstedt"
          BY <2>0
    <2>2. kall' = kall \cup {k} /\ k.steg = "sendt"
          BY <1>3 DEF UtstedKapabilitet
    <2> HIDE DEF x, k
    <2>3. Brukte' = Brukte /\ beslutning' = beslutning
          BY <1>3, <2>1 DEF Brukte, UtstedKapabilitet
    <2> QED BY <1>m, <2>1, <2>2, <2>3 DEF BeslutInv
  <1>4. ASSUME NEW k \in kall, Reserver(k) PROVE BeslutInv'
    <2>1. PICK x \in kap : x.claim = k.claim /\ x.status = "utstedt"
          BY <1>4 DEF Reserver
    <2>2. kap' = SettKap(k.claim, "reservert") /\ beslutning' = beslutning
          BY <1>4 DEF Reserver
    <2>3. \A y \in kap : y.claim = k.claim => y = x
          BY <2>1 DEF KlaimInv
    <2>4. Brukte' = Brukte
      <3> DEFINE F(y) == [y EXCEPT !.status = IF y.claim = k.claim THEN "reservert" ELSE @]
      <3>1. kap' = {F(y) : y \in kap}
            BY <2>2 DEF SettKap
      <3>2. \A y \in kap : y.claim # k.claim => F(y) = y
            BY <1>t DEF TypeOK, KapType
      <3>3. \A y \in kap : y.claim = k.claim =>
                y.status # "brukt" /\ F(y).status # "brukt"
            BY <1>t, <2>1, <2>3 DEF TypeOK, KapType
      <3> HIDE DEF F
      <3> QED BY <3>1, <3>2, <3>3 DEF Brukte
    <2>5. \A l \in kall' : l.steg = "revalidert" => l \in kall
          BY <1>t, <1>4 DEF Reserver, Neste, TypeOK, KallType
    <2>6. \A l \in kap : \E y \in kap' : y.claim = l.claim /\ y.rid = l.rid
          BY <2>2, MerketKap DEF SammeKap
    <2> QED BY <1>m, <2>2, <2>4, <2>5, <2>6 DEF BeslutInv
  <1>5. ASSUME NEW k \in kall, Revalider(k) PROVE BeslutInv'
    <2>1. PICK x \in kap : /\ x.claim = k.claim /\ x.rid = k.nokkel
                           /\ kall' = Neste(k, "revalidert", ~x.utlopt)
          BY <1>5 DEF Revalider
    <2>2. kap' = kap /\ beslutning' = beslutning
          BY <1>5 DEF Revalider
    <2>3. \A l \in kall' : l \in kall \/ (l.claim = k.claim /\ l.nokkel = k.nokkel)
          BY <1>t, <2>1 DEF Neste, TypeOK, KallType
    <2> QED BY <2>1, <2>2, <2>3 DEF BeslutInv, BruktErBesluttet
  <1>6. ASSUME NEW k \in kall, Replay(k) \/ Feilsvar(k) PROVE BeslutInv'
    <2>1. kall' \subseteq kall /\ kap' = kap /\ beslutning' = beslutning
          BY <1>6 DEF Replay, Feilsvar, Besvar
    <2> QED BY <2>1 DEF BeslutInv, BruktErBesluttet
  <1>7. ASSUME NEW k \in kall, Avslutt(k) PROVE BeslutInv'
    <2>1. /\ k.steg = "revalidert" /\ beslutning[k.nokkel] = "ingen"
          /\ kap' = SettKap(k.claim, "brukt") /\ kall' = kall \ {k}
          BY <1>7 DEF Avslutt, Besvar
    <2>2. PICK b \in Utfall : beslutning' = [beslutning EXCEPT ![k.nokkel] = b]
          BY <1>7 DEF Avslutt, Utfall
    <2>3. PICK x \in kap : x.claim = k.claim /\ x.rid = k.nokkel
          BY <2>1 DEF BeslutInv
    <2>4. \A y \in kap : y.claim = k.claim => y = x
          BY <2>3 DEF KlaimInv
    <2> DEFINE F(y) == [y EXCEPT !.status = IF y.claim = k.claim THEN "brukt" ELSE @]
    <2>5. kap' = {F(y) : y \in kap}
          BY <2>1 DEF SettKap
    <2>6. /\ \A y \in kap : y.claim # k.claim => F(y) = y
          /\ F(x).status = "brukt" /\ F(x).rid = k.nokkel
          BY <1>t, <2>3 DEF TypeOK, KapType
    <2> HIDE DEF F
    <2>7. Brukte' = {y \in Brukte : y # x} \cup {F(x)}
          BY <2>3, <2>4, <2>5, <2>6 DEF Brukte
    <2>8. x \notin Brukte /\ k.nokkel \in Rid
          BY <1>t, <1>b, <2>1, <2>3 DEF TypeOK, KallType
    <2>9. \A y \in Brukte : y.rid # k.nokkel /\ y.rid \in Rid
          BY <1>t, <1>b, <2>1 DEF Brukte, TypeOK, KapType
    <2>10. /\ beslutning'[k.nokkel] # "ingen"
           /\ \A r \in Rid : r # k.nokkel => beslutning'[r] = beslutning[r]
          BY <1>t, <2>2, <2>8 DEF TypeOK, Utfall
    <2>11. Brukte' = Brukte \cup {F(x)}
          BY <2>7, <2>8
    <2>12. \A y \in Brukte' : beslutning'[y.rid] # "ingen"
          BY <1>b, <2>6, <2>9, <2>10, <2>11
    <2>13. \A r \in Rid : beslutning'[r] # "ingen" => \E y \in Brukte' : y.rid = r
          BY <1>b, <2>6, <2>10, <2>11
    <2>14. \A y, z \in Brukte' : y.rid = z.rid => y = z
          BY <1>b, <2>6, <2>9, <2>11
    <2>15. BruktErBesluttet'
          BY <2>12, <2>13, <2>14 DEF BruktErBesluttet, Brukte
    <2>16. \A l \in kap : \E y \in kap' : y.claim = l.claim /\ y.rid = l.rid
          BY <2>1, MerketKap DEF SammeKap
    <2> QED BY <2>1, <2>15, <2>16 DEF BeslutInv
  <1>8. CASE Eiermodul
        BY <1>0, <1>8 DEF Eiermodul, Plukk, FristUtloper, Kvittering, VerifKvittering
  <1>9. ASSUME NEW c, kap' = Utlopte(c), UNCHANGED <<kall, beslutning>> PROVE BeslutInv'
    <2> DEFINE F(y) == [y EXCEPT !.utlopt = @ \/ y.claim = c]
    <2>1. kap' = {F(y) : y \in kap}
          BY <1>9 DEF Utlopte
    <2>2. \A y \in kap : F(y).status = y.status /\ F(y).rid = y.rid
          BY <1>t DEF TypeOK, KapType
    <2> HIDE DEF F
    <2>3. Brukte' = {F(y) : y \in Brukte}
          BY <2>1, <2>2 DEF Brukte
    <2>4. /\ \A y \in Brukte : F(y).rid = y.rid
          BY <2>2 DEF Brukte
    <2>5. /\ \A y \in Brukte' : beslutning'[y.rid] # "ingen"
          /\ \A r \in Rid : beslutning'[r] # "ingen" => \E y \in Brukte' : y.rid = r
          /\ \A y, z \in Brukte' : y.rid = z.rid => y = z
          BY <1>b, <1>9, <2>3, <2>4
    <2>6. BruktErBesluttet'
          BY <2>5 DEF BruktErBesluttet, Brukte
    <2>7. \A l \in kap : \E y \in kap' : y.claim = l.claim /\ y.rid = l.rid
          BY <1>9, MerketKap DEF SammeKap
    <2> QED BY <1>9, <2>6, <2>7 DEF BeslutInv
  <1>10. CASE LeaseUtloper \/ KapabilitetUtloper
        BY <1>9, <1>10 DEF LeaseUtloper, KapabilitetUtloper
  <1>11. CASE FrigiUtlopteClaims \/ PolicyBytte \/ UNCHANGED vars
        BY <1>0, <1>11 DEF FrigiUtlopteClaims, PolicyBytte, vars
  <1> QED BY <1>1, <1>2, <1>3, <1>4, <1>5, <1>6, <1>7, <1>8, <1>10, <1>11
          DEF Next, Fremdrift, API, Slipp, Planlegg

(* A capability is burnt exactly when the decision it stands for is        *)
(* committed, and a decision burns exactly one, whatever errors, replays   *)
(* and expiries there are between reservation and commit.                  *)
THEOREM BruktBesluttet == Spec => []BruktErBesluttet
  <1>1. Init => KlaimInv /\ BeslutInv
        BY DEF Init, KlaimInv, BeslutInv, BruktErBesluttet, Ledig, Tidlig
  <1>2. BeslutInv => BruktErBesluttet
        BY DEF BeslutInv
  <1> QED BY <1>1, <1>2, TypeInit, TypeSteg, KlaimSteg, BeslutSteg, PTL DEF Spec

-----------------------------------------------------------------------------
(* Rounds, queues and orders.                                              *)

(* Only a case whose policy asks for conditions ever has rounds, workers   *)
(* in phase 2, or operations other than the compensation.                  *)
VeiInv ==
    sak.vei # "tofase" =>
        /\ sak.ver = 0
        /\ \A w \in Arbeider : arb[w].fase # "fase2"
        /\ \A r \in Rid : op[r] # "ingen" => r \in KompRid

(* The identity a worker planned is of its kind: phase 2's on the proof it *)
(* read, or a compensation.                                                *)
PlanInv ==
    \A w \in Arbeider : arb[w].pc \in {"planlagt", "venter", "svar"} =>
        arb[w].rid \in IF arb[w].fase = "fase2"
                       THEN {Fase2Id(arb[w].bevis, p) : p \in Policy}
                       ELSE KompRid

Eier(w) ==
    /\ arb[w].pc # "ledig"
    /\ arb[w].claim = sak.gen
    /\ sak.status = "under_behandling"

(* What the owner of the case copied is still so: the round, and in        *)
(* phase 2 that it is positive and is the proof the plan rests on.         *)
EierInv ==
    \A w \in Arbeider : Eier(w) =>
        /\ arb[w].ver = sak.ver
        /\ arb[w].fase = "fase2" =>
              /\ sak.ver # 0
              /\ gener[sak.ver].status = "positiv"
              /\ arb[w].pc # "claimet" => arb[w].bevis = sak.ver

Aapne == {g \in Runde : gener[g].status = "aktiv"}

(* An open round is the newest, with its own order out, and is there just  *)
(* while the case waits; a queued case has what its next worker needs.     *)
RundeInv ==
    /\ VentetRundeFinnes
    /\ KoHarGrunnlag
    /\ \A g \in Aapne : Fase1Id(g, gener[g].krav) \in Fase1Rid

(* A business order is never a verifier's, and the three kinds of identity *)
(* are told apart.                                                         *)
LEMMA Slag ==
    /\ \A r \in KompRid : r.slag = "kompensasjon"
    /\ \A g, k : Fase1Id(g, k).slag = "fase1" /\ Fase1Id(g, k).runde = g
    /\ \A g, p : Fase2Id(g, p).slag = "fase2" /\ Fase2Id(g, p).runde = g
    /\ \A r \in Fase1Rid : r.slag = "fase1"
    /\ \A r \in Fase2Rid : r.slag = "fase2"
  BY DEF KompRid, Fase1Rid, Fase2Rid, KompId, Fase1Id, Fase2Id

(* The identities of business orders are among the case's.                 *)
LEMMA RidDeler ==
    KompRid \subseteq ForretningsRid /\ ForretningsRid \subseteq Rid
    /\ Fase2Rid \subseteq ForretningsRid
  BY DEF ForretningsRid, Rid

(* A case without conditions stays so: nothing leads it into a round.      *)
LEMMA VeiSteg ==
    TypeInv /\ RundeInv /\ VeiInv /\ [Next]_vars => VeiInv'
  <1> SUFFICES ASSUME TypeInv, RundeInv, VeiInv, [Next]_vars, sak'.vei # "tofase"
               PROVE  /\ sak'.ver = 0
                      /\ \A w \in Arbeider : arb'[w].fase # "fase2"
                      /\ \A r \in Rid : op'[r] # "ingen" => r \in KompRid
      BY DEF VeiInv
  <1>t. TypeOK /\ ArbeiderOK
        BY DEF TypeInv
  <1>v. sak'.vei = sak.vei
    <2>1. ASSUME NEW w \in Arbeider, Fremdrift(w) \/ Krasj(w) PROVE sak'.vei = sak.vei
      <3>1. CASE Slipp(w)
            BY <3>1, SlippArb
      <3>2. CASE Planlegg(w)
            BY <3>2, PlanleggArb
      <3>3. CASE ClaimNesteSak(w)
            BY <3>3, ClaimArb
      <3>4. CASE UtstedKapabilitet(w)
            BY <3>4 DEF UtstedKapabilitet
      <3> QED BY <2>1, <3>1, <3>2, <3>3, <3>4 DEF Fremdrift, Slipp, Planlegg
    <2>2. CASE API
          BY <2>2 DEF API, Reserver, Revalider, Replay, Avslutt, Feilsvar
    <2>3. CASE Eiermodul
          BY <1>t, <2>3 DEF Eiermodul, Plukk, FristUtloper, Kvittering, VerifKvittering,
                            TypeOK, SakType
    <2>4. CASE LeaseUtloper \/ KapabilitetUtloper \/ FrigiUtlopteClaims \/ PolicyBytte
          BY <1>t, <2>4 DEF LeaseUtloper, KapabilitetUtloper, FrigiUtlopteClaims,
                            PolicyBytte, TypeOK, SakType
    <2>5. CASE UNCHANGED vars
          BY <2>5 DEF vars
    <2> QED BY <2>1, <2>2, <2>3, <2>4, <2>5 DEF Next
  <1>i. /\ sak.vei # "tofase" /\ sak.ver = 0
        /\ \A w \in Arbeider : arb[w].fase # "fase2"
        /\ \A r \in Rid : op[r] # "ingen" => r \in KompRid
        BY <1>v DEF VeiInv
  <1>s. sak.status # "verifikasjon_klar"
        BY <1>i DEF RundeInv, KoHarGrunnlag, KlarHarBevis
  <1>1. ASSUME NEW w \in Arbeider, Fremdrift(w) \/ Krasj(w)
        PROVE  /\ sak'.ver = sak.ver
               /\ arb'[w].fase # "fase2"
               /\ \A v \in Arbeider \ {w} : arb'[v] = arb[v]
               /\ op' = op \/ \E r \in KompRid : op' = OpEtter(r)
    <2>0. ~StartFase1(w) /\ ~Fase2Bygger(w) /\ ~Fase2Retry(w)
          BY <1>i DEF StartFase1, Fase2Bygger, Fase2Retry
    <2>1. CASE Slipp(w)
      <3>1. sak'.ver = sak.ver /\ op' = op
            BY <1>t, <2>0, <2>1
               DEF Slipp, PlanManuell, PlanLost, PlanKo, FullforNektet, FullforOppdrag,
                   Leasetap, Krasj, Avgi, TypeOK, SakType
      <3> QED BY <2>1, <3>1, SlippArb
    <2>2. CASE PlanLes(w) \/ PlanKompensasjon(w)
      <3>1. arb'[w].fase = arb[w].fase /\ sak' = sak
            /\ \A v \in Arbeider \ {w} : arb'[v] = arb[v]
            BY <2>2, PlanleggArb DEF Planlegg
      <3>2. op' = op \/ \E r \in KompRid : op' = OpEtter(r)
        <4>1. CASE PlanLes(w)
              BY <4>1 DEF PlanLes
        <4>2. CASE PlanKompensasjon(w)
          <5>1. arb[w].policy \in Policy
                BY <1>t, <4>2 DEF PlanKompensasjon, ArbeiderOK
          <5>2. KompPlan(w) \in KompRid
                BY <5>1, PlanRid DEF KompPlan
          <5> QED BY <4>2, <5>2 DEF PlanKompensasjon
        <4> QED BY <2>2, <4>1, <4>2
      <3> QED BY <1>i, <3>1, <3>2
    <2>3. CASE ClaimNesteSak(w)
      <3>1. FaseAv(sak.status) # "fase2"
            BY <1>s DEF FaseAv
      <3> QED BY <2>3, <3>1, ClaimArb DEF ClaimNesteSak
    <2>4. CASE UtstedKapabilitet(w)
          BY <1>t, <1>i, <2>4 DEF UtstedKapabilitet, TypeOK, ArbType
    <2> QED BY <1>1, <2>0, <2>1, <2>2, <2>3, <2>4 DEF Fremdrift, Slipp
  <1>2. ASSUME NEW r \in KompRid, op' = OpEtter(r)
        PROVE  \A q \in Rid : op'[q] # "ingen" => q \in KompRid
        BY <1>i, <1>2 DEF OpEtter
  <1>3. CASE \E w \in Arbeider : Fremdrift(w) \/ Krasj(w)
        BY <1>i, <1>1, <1>2, <1>3
  <1>4. CASE API
    <2>1. UNCHANGED <<sak, op>>
          BY <1>4 DEF API, Reserver, Revalider, Replay, Avslutt, Feilsvar
    <2>2. \A v \in Arbeider : arb'[v].fase = arb[v].fase
      <3>1. CASE arb' = arb
            BY <3>1
      <3>2. CASE \E k, b : Besvar(k, b)
            BY <3>2, BesvarVidere
      <3> QED BY <1>4, <3>1, <3>2 DEF API, Reserver, Revalider, Replay, Avslutt, Feilsvar
    <2> QED BY <1>i, <2>1, <2>2
  <1>5. CASE Eiermodul
    <2>1. UNCHANGED <<op, arb>>
          BY <1>5 DEF Eiermodul, Plukk, FristUtloper, Kvittering, VerifKvittering
    <2>2. sak'.ver = sak.ver
          BY <1>t, <1>5 DEF Eiermodul, Plukk, FristUtloper, Kvittering, VerifKvittering,
                            TypeOK, SakType
    <2> QED BY <1>i, <2>1, <2>2
  <1>6. CASE LeaseUtloper \/ KapabilitetUtloper \/ FrigiUtlopteClaims \/ PolicyBytte
    <2>1. UNCHANGED <<op, arb>> /\ sak'.ver = sak.ver
          BY <1>t, <1>6 DEF LeaseUtloper, KapabilitetUtloper, FrigiUtlopteClaims,
                            PolicyBytte, TypeOK, SakType
    <2> QED BY <1>i, <2>1
  <1>7. CASE UNCHANGED vars
        BY <1>i, <1>7 DEF vars
  <1> QED BY <1>3, <1>4, <1>5, <1>6, <1>7 DEF Next

(* A planned identity is the one its plan names.                           *)
LEMMA PlanSteg == TypeInv /\ VeiInv /\ PlanInv /\ [Next]_vars => PlanInv'
  <1> SUFFICES ASSUME TypeInv, VeiInv, PlanInv, [Next]_vars PROVE PlanInv'
      OBVIOUS
  <1>t. TypeOK /\ ArbeiderOK
        BY DEF TypeInv
  <1>1. ASSUME NEW w \in Arbeider, \A v \in Arbeider \ {w} : arb'[v] = arb[v],
               arb'[w].pc \in {"planlagt", "venter", "svar"} =>
                   arb'[w].rid \in IF arb'[w].fase = "fase2"
                                   THEN {Fase2Id(arb'[w].bevis, p) : p \in Policy}
                                   ELSE KompRid
        PROVE  PlanInv'
        BY <1>1 DEF PlanInv
  <1>2. ASSUME NEW w \in Arbeider, Slipp(w) PROVE PlanInv'
        BY <1>1, <1>2, SlippArb
  <1>3. ASSUME NEW w \in Arbeider, ClaimNesteSak(w) PROVE PlanInv'
        BY <1>1, <1>3, ClaimArb
  <1>4. ASSUME NEW w \in Arbeider, PlanLes(w) PROVE PlanInv'
    <2>1. arb'[w].pc = "planlegger"
          BY <1>t, <1>4 DEF PlanLes, TypeOK, ArbType
    <2> QED BY <1>1, <1>4, <2>1, PlanleggArb DEF Planlegg
  <1>5. ASSUME NEW w \in Arbeider, Fase2Bygger(w) PROVE PlanInv'
    <2>1. /\ arb'[w].fase = "fase2" /\ arb'[w].bevis = arb[w].bevis
          /\ arb'[w].rid = Fase2Plan(w) /\ arb[w].policy \in Policy
          BY <1>t, <1>5 DEF Fase2Bygger, TypeOK, ArbType, ArbeiderOK
    <2>2. arb'[w].rid \in {Fase2Id(arb'[w].bevis, p) : p \in Policy}
          BY <2>1 DEF Fase2Plan
    <2> QED BY <1>1, <1>5, <2>1, <2>2, PlanleggArb DEF Planlegg
  <1>6. ASSUME NEW w \in Arbeider, PlanKompensasjon(w) PROVE PlanInv'
    <2>1. /\ arb'[w].fase = arb[w].fase /\ arb'[w].rid = KompPlan(w)
          /\ arb[w].policy \in Policy /\ arb[w].fase # "fase2"
          BY <1>t, <1>6 DEF PlanKompensasjon, TypeOK, ArbType, ArbeiderOK, VeiInv
    <2>2. KompPlan(w) \in KompRid
          BY <2>1, PlanRid DEF KompPlan
    <2> QED BY <1>1, <1>6, <2>1, <2>2, PlanleggArb DEF Planlegg
  <1>7. ASSUME NEW w \in Arbeider, UtstedKapabilitet(w) PROVE PlanInv'
    <2>1. /\ arb[w].pc = "planlagt" /\ arb'[w].rid = arb[w].rid
          /\ arb'[w].fase = arb[w].fase /\ arb'[w].bevis = arb[w].bevis
          /\ \A v \in Arbeider \ {w} : arb'[v] = arb[v]
          BY <1>t, <1>7 DEF UtstedKapabilitet, TypeOK, ArbType
    <2>2. CASE arb[w].fase = "fase2"
      <3>1. arb[w].rid \in {Fase2Id(arb[w].bevis, p) : p \in Policy}
            BY <2>1, <2>2 DEF PlanInv
      <3> QED BY <1>1, <2>1, <2>2, <3>1
    <2>3. CASE arb[w].fase # "fase2"
      <3>1. arb[w].rid \in KompRid
            BY <2>1, <2>3 DEF PlanInv
      <3> QED BY <1>1, <2>1, <2>3, <3>1
    <2> QED BY <2>2, <2>3
  <1>8. CASE API
    <2>1. CASE arb' = arb
          BY <2>1 DEF PlanInv
    <2>2. ASSUME NEW k, NEW b, Besvar(k, b) PROVE PlanInv'
      <3>1. \A v \in Arbeider :
                \/ arb'[v] = arb[v]
                \/ /\ arb[v].pc = "venter" /\ arb'[v].fase = arb[v].fase
                   /\ arb'[v].bevis = arb[v].bevis /\ arb'[v].rid = arb[v].rid
            BY <2>2, BesvarVidere
      <3> QED BY <3>1 DEF PlanInv
    <2> QED BY <1>8, <2>1, <2>2 DEF API, Reserver, Revalider, Replay, Avslutt, Feilsvar
  <1>9. CASE Eiermodul \/ LeaseUtloper \/ KapabilitetUtloper \/ FrigiUtlopteClaims
             \/ PolicyBytte \/ UNCHANGED vars
    <2>1. arb' = arb
          BY <1>9 DEF Eiermodul, Plukk, FristUtloper, Kvittering, VerifKvittering,
                      LeaseUtloper, KapabilitetUtloper, FrigiUtlopteClaims,
                      PolicyBytte, vars
    <2> QED BY <2>1 DEF PlanInv
  <1> QED BY <1>2, <1>3, <1>4, <1>5, <1>6, <1>7, <1>8, <1>9 DEF Next, Fremdrift, Slipp

(* When the newest round is positive it is the proof a plan reads.         *)
LEMMA NyestePositiv ==
    ASSUME TypeInv, RegistrertInv, sak.ver # 0, gener[sak.ver].status = "positiv"
    PROVE  SistePositive = sak.ver
  <1>1. sak.ver \in Runde /\ sak.ver \in Nat
        BY ForsokAntatt DEF TypeInv, TypeOK, SakType, Runde
  <1>2. sak.ver <= SistePositive /\ SistePositive \in 0..MaksForsok
        BY <1>1, SistePositiveEr
  <1>3. SistePositive # 0 /\ SistePositive \in Runde /\ SistePositive \in Nat
        BY <1>1, <1>2, ForsokAntatt DEF Runde
  <1>4. gener[SistePositive].status = "positiv"
        BY <1>3, SistePositiveEr
  <1>5. ~(SistePositive > sak.ver)
        BY <1>3, <1>4 DEF RegistrertInv
  <1> QED BY <1>1, <1>2, <1>3, <1>5

(* What the owner copied stays so while it owns: no round is opened or     *)
(* closed, and no claim is drawn, in a case that is under treatment.       *)
LEMMA EierSteg ==
    TypeInv /\ RegistrertInv /\ KlaimInv /\ RundeInv /\ EierInv /\ [Next]_vars => EierInv'
  <1> SUFFICES ASSUME TypeInv, RegistrertInv, KlaimInv, RundeInv, EierInv, [Next]_vars
               PROVE  EierInv'
      OBVIOUS
  <1>t. TypeOK
        BY DEF TypeInv
  <1> DEFINE Samme(v) ==
          /\ arb[v].pc # "ledig" /\ arb'[v].claim = arb[v].claim
          /\ arb'[v].ver = arb[v].ver /\ arb'[v].fase = arb[v].fase
          /\ arb'[v].pc # "claimet" =>
                arb[v].pc # "claimet" /\ arb'[v].bevis = arb[v].bevis
  <1>0. ASSUME \/ sak'.status # "under_behandling"
               \/ /\ sak.status = "under_behandling" /\ sak'.gen = sak.gen
                  /\ sak'.ver = sak.ver /\ gener' = gener,
               \A v \in Arbeider : arb'[v].pc # "ledig" => Samme(v) \/ arb'[v] = arb[v]
        PROVE  EierInv'
        BY <1>0 DEF EierInv, Eier
  <1>1. ASSUME NEW w \in Arbeider, Slipp(w) PROVE EierInv'
    <2>1. \/ sak'.status # "under_behandling"
          \/ /\ sak.status = "under_behandling" /\ sak'.gen = sak.gen
             /\ sak'.ver = sak.ver /\ gener' = gener
          BY <1>t, <1>1
             DEF Slipp, PlanManuell, PlanLost, PlanKo, StartFase1, Fase2Retry,
                 FullforNektet, FullforOppdrag, Leasetap, Krasj, Avgi, TypeOK, SakType
    <2> QED BY <1>0, <1>1, <2>1, SlippArb
  <1>2. ASSUME NEW w \in Arbeider, ClaimNesteSak(w) PROVE EierInv'
    <2>1. \A v \in Arbeider \ {w} : ~Eier(v)'
      <3> TAKE v \in Arbeider \ {w}
      <3>1. arb[v].pc # "ledig" => arb[v].claim \in 1..sak.gen
            BY DEF KlaimInv
      <3>2. arb[v].claim # sak.gen + 1 \/ arb[v].pc = "ledig"
            BY <1>t, <3>1 DEF TypeOK, SakType
      <3>3. arb'[v] = arb[v] /\ sak'.gen = sak.gen + 1
            BY <1>2, ClaimArb
      <3> QED BY <3>2, <3>3 DEF Eier
    <2>2. gener' = gener
          BY <1>2 DEF ClaimNesteSak
    <2>3. arb'[w].fase = "fase2" => sak.status = "verifikasjon_klar"
      <3>1. FaseAv(sak.status) = "fase2" => sak.status = "verifikasjon_klar"
            BY DEF FaseAv
      <3> QED BY <1>2, <3>1, ClaimArb
    <2>4. arb'[w].fase = "fase2" => sak.ver # 0 /\ gener[sak.ver].status = "positiv"
          BY <2>3 DEF RundeInv, KoHarGrunnlag, KlarHarBevis
    <2>5. arb'[w].pc = "claimet" /\ arb'[w].ver = sak'.ver /\ sak'.ver = sak.ver
          BY <1>2, ClaimArb
    <2> QED BY <2>1, <2>2, <2>4, <2>5 DEF EierInv
  <1>3. ASSUME NEW w \in Arbeider, PlanLes(w) PROVE EierInv'
    <2>1. /\ arb[w].pc = "claimet" /\ arb'[w].bevis = SistePositive
          /\ UNCHANGED <<sak, gener>>
          BY <1>t, <1>3 DEF PlanLes, TypeOK, ArbType
    <2>2. /\ arb'[w].claim = arb[w].claim /\ arb'[w].fase = arb[w].fase
          /\ arb'[w].ver = arb[w].ver /\ \A v \in Arbeider \ {w} : arb'[v] = arb[v]
          BY <1>3, PlanleggArb DEF Planlegg
    <2>3. ASSUME Eier(w)'
          PROVE  /\ arb'[w].ver = sak'.ver
                 /\ arb'[w].fase = "fase2" =>
                       /\ sak'.ver # 0
                       /\ gener'[sak'.ver].status = "positiv"
                       /\ arb'[w].bevis = sak'.ver
      <3>1. Eier(w)
            BY <2>1, <2>2, <2>3 DEF Eier
      <3>2. /\ arb[w].ver = sak.ver
            /\ arb[w].fase = "fase2" => sak.ver # 0 /\ gener[sak.ver].status = "positiv"
            BY <3>1 DEF EierInv
      <3> QED BY <2>1, <2>2, <3>2, NyestePositiv
    <2>4. \A v \in Arbeider \ {w} : Eier(v)' => Eier(v)
          BY <2>1, <2>2 DEF Eier
    <2> QED BY <2>1, <2>2, <2>3, <2>4 DEF EierInv
  <1>4. ASSUME NEW w \in Arbeider, Fase2Bygger(w) \/ PlanKompensasjon(w) PROVE EierInv'
    <2>1. /\ arb[w].pc = "planlegger" /\ arb'[w].bevis = arb[w].bevis
          /\ UNCHANGED <<sak, gener>>
          BY <1>t, <1>4 DEF Fase2Bygger, PlanKompensasjon, TypeOK, ArbType
    <2>2. /\ arb'[w].claim = arb[w].claim /\ arb'[w].fase = arb[w].fase
          /\ arb'[w].ver = arb[w].ver /\ \A v \in Arbeider \ {w} : arb'[v] = arb[v]
          BY <1>4, PlanleggArb DEF Planlegg
    <2>3. \A v \in Arbeider : Samme(v) \/ arb'[v] = arb[v]
          BY <2>1, <2>2
    <2> QED BY <1>0, <2>1, <2>3
  <1>5. ASSUME NEW w \in Arbeider, UtstedKapabilitet(w) PROVE EierInv'
    <2>1. /\ arb[w].pc = "planlagt" /\ arb'[w].bevis = arb[w].bevis
          /\ arb'[w].claim = arb[w].claim /\ arb'[w].fase = arb[w].fase
          /\ arb'[w].ver = arb[w].ver /\ \A v \in Arbeider \ {w} : arb'[v] = arb[v]
          /\ UNCHANGED <<sak, gener>>
          BY <1>t, <1>5 DEF UtstedKapabilitet, TypeOK, ArbType
    <2>2. \A v \in Arbeider : Samme(v) \/ arb'[v] = arb[v]
          BY <2>1
    <2> QED BY <1>0, <2>1, <2>2
  <1>6. CASE API
    <2>1. UNCHANGED <<sak, gener>>
          BY <1>6 DEF API, Reserver, Revalider, Replay, Avslutt, Feilsvar
    <2>2. \A v \in Arbeider : Samme(v) \/ arb'[v] = arb[v]
      <3>1. CASE arb' = arb
            BY <3>1
      <3>2. ASSUME NEW k, NEW b, Besvar(k, b)
            PROVE  \A v \in Arbeider : Samme(v) \/ arb'[v] = arb[v]
            BY <3>2, BesvarVidere
      <3> QED BY <1>6, <3>1, <3>2
              DEF API, Reserver, Revalider, Replay, Avslutt, Feilsvar
    <2> QED BY <1>0, <2>1, <2>2
  <1>7. CASE Eiermodul
    <2>1. arb' = arb
          BY <1>7 DEF Eiermodul, Plukk, FristUtloper, Kvittering, VerifKvittering
    <2>2. CASE \E r \in Rid : Plukk(r) \/ FristUtloper(r) \/ Kvittering(r)
      <3>1. /\ gener' = gener /\ sak'.gen = sak.gen /\ sak'.ver = sak.ver
            /\ sak'.status = "under_behandling" => sak.status = "under_behandling"
            BY <1>t, <2>2 DEF Plukk, FristUtloper, Kvittering, TypeOK, SakType
      <3> QED BY <1>0, <2>1, <3>1
    <2>3. CASE \E g \in Runde : VerifKvittering(g)
      <3>1. sak'.status # "under_behandling"
            BY <1>t, <2>3 DEF VerifKvittering, TypeOK, SakType
      <3> QED BY <1>0, <2>1, <3>1
    <2> QED BY <1>7, <2>2, <2>3 DEF Eiermodul
  <1>8. CASE LeaseUtloper \/ KapabilitetUtloper \/ FrigiUtlopteClaims \/ PolicyBytte
             \/ UNCHANGED vars
    <2>1. UNCHANGED <<arb, gener>>
          BY <1>8 DEF LeaseUtloper, KapabilitetUtloper, FrigiUtlopteClaims,
                      PolicyBytte, vars
    <2>2. /\ sak'.gen = sak.gen /\ sak'.ver = sak.ver
          /\ sak'.status = "under_behandling" => sak.status = "under_behandling"
          BY <1>t, <1>8 DEF LeaseUtloper, KapabilitetUtloper, FrigiUtlopteClaims,
                            PolicyBytte, vars, TypeOK, SakType
    <2> QED BY <1>0, <2>1, <2>2
  <1> QED BY <1>1, <1>2, <1>3, <1>4, <1>5, <1>6, <1>7, <1>8 DEF Next, Fremdrift, Slipp

(* Steps that leave no round open and nothing queued need nothing more.    *)
LEMMA RundeTom ==
    ASSUME RundeInv, Aapne = {}, gener' = gener,
           sak'.status \notin {"venter_verifikasjon", "verifikasjon_klar",
                               "verifikasjon_retry_klar"}
    PROVE  RundeInv'
  BY DEF RundeInv, Aapne, VentetRundeFinnes, KoHarGrunnlag, KlarHarBevis, RetryHarBudsjett

(* Steps that leave the rounds, the waiting and the open rounds' orders as *)
(* they are.                                                               *)
LEMMA RundeBevart ==
    ASSUME RundeInv, gener' = gener, sak'.ver = sak.ver, sak'.krav = sak.krav,
           \/ sak'.status = sak.status
           \/ /\ sak.status # "venter_verifikasjon"
              /\ sak'.status \notin {"venter_verifikasjon", "verifikasjon_klar",
                                     "verifikasjon_retry_klar"},
           \A r \in Fase1Rid : oppdrag[r] \in Aapen => oppdrag'[r] \in Aapen
    PROVE  RundeInv'
  BY DEF RundeInv, Aapne, VentetRundeFinnes, KoHarGrunnlag, KlarHarBevis, RetryHarBudsjett

(* A case under treatment has no open round.                               *)
LEMMA UnderBehandling ==
    ASSUME RundeInv, sak.status # "venter_verifikasjon" PROVE Aapne = {}
  BY DEF RundeInv, VentetRundeFinnes, Aapne

(* Every step keeps the waits and the queues grounded.                     *)
LEMMA RundeSteg ==
    TypeInv /\ RegistrertInv /\ VeiInv /\ EierInv /\ RundeInv /\ [Next]_vars => RundeInv'
  <1> SUFFICES ASSUME TypeInv, RegistrertInv, VeiInv, EierInv, RundeInv, [Next]_vars
               PROVE  RundeInv'
      OBVIOUS
  <1>t. TypeOK /\ ArbeiderOK
        BY DEF TypeInv
  <1>1. ASSUME NEW w \in Arbeider,
               \/ PlanManuell(w) \/ PlanLost(w) \/ PlanKo(w)
               \/ FullforNektet(w) \/ FullforOppdrag(w)
        PROVE  RundeInv'
    <2>1. /\ sak.status = "under_behandling" /\ gener' = gener
          /\ sak'.status \in {"manuell", "lost", "ny", "venter_utforelse"}
          BY <1>t, <1>1 DEF PlanManuell, PlanLost, PlanKo, FullforNektet, FullforOppdrag,
                            Avgi, Fencet, TypeOK, SakType
    <2> QED BY <2>1, UnderBehandling, RundeTom
  <1>2. ASSUME NEW w \in Arbeider,
               \/ Leasetap(w) \/ Krasj(w) \/ PlanLes(w) \/ Fase2Bygger(w)
               \/ UtstedKapabilitet(w)
        PROVE  RundeInv'
    <2>1. UNCHANGED <<sak, gener, oppdrag>>
          BY <1>2 DEF Leasetap, Krasj, PlanLes, Fase2Bygger, UtstedKapabilitet
    <2> QED BY <2>1, RundeBevart
  <1>3. ASSUME NEW w \in Arbeider, ClaimNesteSak(w) PROVE RundeInv'
    <2>1. sak.status # "venter_verifikasjon" /\ gener' = gener
          BY <1>3 DEF ClaimNesteSak, Claimbar
    <2> QED BY <1>3, <2>1, ClaimArb, UnderBehandling, RundeTom
  <1>4. ASSUME NEW w \in Arbeider, PlanKompensasjon(w) PROVE RundeInv'
    <2>1. sak.ver = 0 /\ sak' = sak /\ gener' = gener
          BY <1>4 DEF PlanKompensasjon, VeiInv
    <2>2. Aapne = {}
          BY <2>1 DEF RundeInv, VentetRundeFinnes, Aapne, Runde
    <2> QED BY <2>1, <2>2 DEF RundeInv, Aapne, VentetRundeFinnes, KoHarGrunnlag,
                              KlarHarBevis, RetryHarBudsjett
  <1>5. ASSUME NEW w \in Arbeider, Fase2Retry(w) PROVE RundeInv'
    <2>1. /\ sak.status = "under_behandling" /\ gener' = gener /\ Eier(w)
          /\ sak'.ver = sak.ver
          /\ sak'.status = IF arb[w].ver < MaksForsok THEN "verifikasjon_retry_klar"
                                                      ELSE "manuell"
          BY <1>t, <1>5 DEF Fase2Retry, Avgi, Fencet, Eier, TypeOK, SakType
    <2>2. arb[w].ver = sak.ver
          BY <2>1 DEF EierInv
    <2>3. Aapne = {}
          BY <2>1, UnderBehandling
    <2> QED BY <2>1, <2>2, <2>3 DEF RundeInv, Aapne, VentetRundeFinnes, KoHarGrunnlag,
                                    KlarHarBevis, RetryHarBudsjett
  <1>6. ASSUME NEW w \in Arbeider, StartFase1(w) PROVE RundeInv'
    <2> DEFINE k == KravAv[arb[w].policy]
               g == sak.ver + 1
    <2>1. arb[w].policy \in Policy /\ g \in Runde
          BY <1>t, <1>6, ForsokAntatt
             DEF StartFase1, ArbeiderOK, TypeOK, SakType, Runde
    <2>2. Fase1Plan(w) = Fase1Id(g, k) /\ Fase1Id(g, k) \in Fase1Rid
          BY <2>1, PlanRid DEF Fase1Plan
    <2>3. /\ sak.status = "under_behandling"
          /\ sak'.status = "venter_verifikasjon" /\ sak'.ver = g
          BY <1>t, <1>6 DEF StartFase1, Fencet, TypeOK, SakType
    <2>4. Aapne = {}
          BY <2>3, UnderBehandling
    <2>5. gener' = [gener EXCEPT ![g] = [status |-> "aktiv", krav |-> k]]
          BY <1>6 DEF StartFase1
    <2>6. /\ gener'[g].status = "aktiv" /\ gener'[g].krav = k
          /\ \A h \in Runde : h # g => gener'[h] = gener[h]
          BY <1>t, <2>1, <2>5 DEF TypeOK
    <2>7. oppdrag'[Fase1Id(g, k)] = "opprettet"
          BY <1>6, <2>2 DEF StartFase1, OppdragEtter, Rid
    <2> HIDE DEF k, g
    <2>8. Aapne' = {g}
          BY <2>1, <2>4, <2>6 DEF Aapne
    <2> QED BY <2>1, <2>2, <2>3, <2>6, <2>7, <2>8
            DEF RundeInv, Aapne, Aapen, VentetRundeFinnes, KoHarGrunnlag, KlarHarBevis,
                RetryHarBudsjett
  <1>7. CASE API
    <2>1. UNCHANGED <<sak, gener, oppdrag>>
          BY <1>7 DEF API, Reserver, Revalider, Replay, Avslutt, Feilsvar
    <2> QED BY <2>1, RundeBevart
  <1>8. ASSUME NEW r \in Rid, Plukk(r) \/ FristUtloper(r) PROVE RundeInv'
    <2>1. UNCHANGED <<sak, gener>>
          BY <1>8 DEF Plukk, FristUtloper
    <2>2. \A s \in Fase1Rid : oppdrag[s] \in Aapen => oppdrag'[s] \in Aapen
          BY <1>t, <1>8 DEF Plukk, FristUtloper, Aapen, TypeOK, Rid
    <2> QED BY <2>1, <2>2, RundeBevart
  <1>9. ASSUME NEW r \in Rid, Kvittering(r) PROVE RundeInv'
    <2>1. r \notin Fase1Rid
          BY <1>9, Fase1ErIkkeForretning DEF Kvittering, Fase1Rid
    <2>2. \A s \in Fase1Rid : oppdrag'[s] = oppdrag[s]
          BY <1>t, <1>9, <2>1 DEF Kvittering, TypeOK, Rid
    <2>3. /\ gener' = gener /\ sak'.ver = sak.ver /\ sak'.krav = sak.krav
          /\ \/ sak'.status = sak.status
             \/ /\ sak.status = "venter_utforelse"
                /\ sak'.status \in {"lost", "manuell"}
          BY <1>t, <1>9 DEF Kvittering, TypeOK, SakType
    <2> QED BY <2>2, <2>3, RundeBevart
  <1>10. ASSUME NEW g \in Runde, VerifKvittering(g) PROVE RundeInv'
    <2>1. /\ gener[g].status = "aktiv" /\ gener[g].krav = sak.krav
          /\ sak'.ver = sak.ver /\ sak'.krav = sak.krav
          BY <1>t, <1>10 DEF VerifKvittering, TypeOK, SakType
    <2>2. g = sak.ver /\ Aapne = {g}
          BY <2>1 DEF RundeInv, VentetRundeFinnes, Aapne
    <2>3. \/ /\ gener' = [gener EXCEPT ![g].status = "positiv"]
             /\ sak'.status = "verifikasjon_klar"
          \/ /\ gener' = [gener EXCEPT ![g].status = "negativ"]
             /\ \/ sak'.status = "verifikasjon_retry_klar" /\ g < MaksForsok
                \/ sak'.status = "manuell"
          BY <1>t, <1>10 DEF VerifKvittering, TypeOK, SakType
    <2>4. /\ \A h \in Runde : h # g => gener'[h] = gener[h]
          /\ gener'[g] \in {[status |-> "positiv", krav |-> sak.krav],
                            [status |-> "negativ", krav |-> sak.krav]}
          /\ sak'.status = "verifikasjon_klar" =>
                gener'[g] = [status |-> "positiv", krav |-> sak.krav]
          BY <1>t, <2>1, <2>3 DEF TypeOK, RundeType
    <2>5. Aapne' = {}
          BY <2>2, <2>4 DEF Aapne
    <2>6. sak'.status # "venter_verifikasjon"
          BY <2>3
    <2>7. g # 0
          BY DEF Runde
    <2>8. VentetRundeFinnes'
          BY <2>5, <2>6 DEF VentetRundeFinnes, Aapne
    <2>9. KlarHarBevis' /\ RetryHarBudsjett'
          BY <2>1, <2>2, <2>3, <2>4, <2>7 DEF KlarHarBevis, RetryHarBudsjett
    <2> QED BY <2>5, <2>8, <2>9 DEF RundeInv, KoHarGrunnlag
  <1>11. CASE LeaseUtloper \/ KapabilitetUtloper \/ FrigiUtlopteClaims \/ PolicyBytte
              \/ UNCHANGED vars
    <2>1. UNCHANGED <<gener, oppdrag>>
          BY <1>11 DEF LeaseUtloper, KapabilitetUtloper, FrigiUtlopteClaims,
                       PolicyBytte, vars
    <2>2. /\ sak'.ver = sak.ver /\ sak'.krav = sak.krav
          /\ \/ sak'.status = sak.status
             \/ sak.status = "under_behandling" /\ sak'.status = "ny"
          BY <1>t, <1>11 DEF LeaseUtloper, KapabilitetUtloper, FrigiUtlopteClaims,
                             PolicyBytte, vars, TypeOK, SakType
    <2> QED BY <2>1, <2>2, RundeBevart
  <1> QED BY <1>1, <1>2, <1>3, <1>4, <1>5, <1>6, <1>7, <1>8, <1>9, <1>10, <1>11
          DEF Next, Fremdrift, Eiermodul

(* The inductive invariant the waits and the queues rest on.               *)
GrunnInv == /\ TypeInv /\ RegistrertInv /\ KlaimInv
            /\ VeiInv /\ PlanInv /\ EierInv /\ RundeInv

(* The initial states satisfy it.                                          *)
LEMMA GrunnInit == Init => GrunnInv
  <1> SUFFICES ASSUME Init PROVE GrunnInv
      OBVIOUS
  <1>1. TypeInv
        BY TypeInit
  <1>2. /\ RegistrertInv /\ KlaimInv /\ PlanInv /\ EierInv
        BY DEF Init, RegistrertInv, KlaimInv, PlanInv, EierInv, Eier, IngenRunde, Ledig,
               Tidlig
  <1>3. VeiInv
        BY DEF Init, VeiInv, Ledig
  <1>4. /\ Aapne = {} /\ sak.status = "ny"
        BY DEF Init, Aapne, IngenRunde
  <1>5. RundeInv
        BY <1>4 DEF RundeInv, VentetRundeFinnes, Aapne, KoHarGrunnlag, KlarHarBevis,
                    RetryHarBudsjett
  <1> QED BY <1>1, <1>2, <1>3, <1>5 DEF GrunnInv

(* Every step keeps it.                                                    *)
LEMMA GrunnSteg == GrunnInv /\ [Next]_vars => GrunnInv'
  BY TypeSteg, RegistrertSteg, KlaimSteg, VeiSteg, PlanSteg, EierSteg, RundeSteg
     DEF GrunnInv

(* A case queued for phase 2 has a positive newest round over just the set *)
(* frozen on it, and one queued for another round has a round left.        *)
THEOREM KoGrunnlag == Spec => []KoHarGrunnlag
  <1>1. GrunnInv => KoHarGrunnlag
        BY DEF GrunnInv, RundeInv
  <1> QED BY <1>1, GrunnInit, GrunnSteg, PTL DEF Spec

(* The case waits for a verifier just while its newest round is open, and  *)
(* that round's order can still be answered: whatever the policies say.    *)
THEOREM VentetRunde == Spec => []VentetRundeFinnes
  <1>1. GrunnInv => VentetRundeFinnes
        BY DEF GrunnInv, RundeInv
  <1> QED BY <1>1, GrunnInit, GrunnSteg, PTL DEF Spec

(* The step that places a business order is its owner's, on the identity   *)
(* the owner planned.                                                      *)
LEMMA NyttOppdrag ==
    ASSUME GrunnInv, EttOppdragInv, [Next]_vars,
           NEW r \in ForretningsRid, oppdrag[r] = "ingen", oppdrag'[r] # "ingen"
    PROVE  \E w \in Arbeider : /\ FullforOppdrag(w) /\ r = arb[w].rid
                               /\ Eier(w) /\ arb[w].pc = "svar"
  <1>t. TypeOK /\ ArbeiderOK
        BY DEF GrunnInv, TypeInv
  <1>r. r \in Rid /\ r \notin Fase1Rid
        BY Slag, RidDeler, Fase1ErIkkeForretning DEF Fase1Rid
  <1>1. ASSUME NEW w \in Arbeider, Fremdrift(w) \/ Krasj(w) PROVE FullforOppdrag(w)
    <2>1. ASSUME oppdrag' = oppdrag PROVE FALSE
          BY <2>1
    <2>2. CASE PlanKompensasjon(w)
          BY <1>r, <2>1, <2>2 DEF PlanKompensasjon, OppdragEtter
    <2>3. CASE StartFase1(w)
      <3>1. r # Fase1Plan(w)
            BY Fase1ErIkkeForretning DEF Fase1Plan
      <3> QED BY <1>r, <2>3, <3>1 DEF StartFase1, OppdragEtter
    <2> QED BY <1>1, <2>1, <2>2, <2>3
            DEF Fremdrift, Krasj, ClaimNesteSak, PlanLes, PlanManuell, PlanLost, PlanKo,
                Fase2Retry, Fase2Bygger, UtstedKapabilitet, FullforNektet, Leasetap
  <1>2. CASE API
        BY <1>2 DEF API, Reserver, Revalider, Replay, Avslutt, Feilsvar
  <1>3. CASE Eiermodul
        BY <1>t, <1>r, <1>3 DEF Eiermodul, Plukk, FristUtloper, Kvittering,
                                VerifKvittering, TypeOK
  <1>4. CASE LeaseUtloper \/ KapabilitetUtloper \/ FrigiUtlopteClaims \/ PolicyBytte
             \/ UNCHANGED vars
        BY <1>4 DEF LeaseUtloper, KapabilitetUtloper, FrigiUtlopteClaims, PolicyBytte, vars
  <1>5. PICK w \in Arbeider : FullforOppdrag(w)
        BY <1>1, <1>2, <1>3, <1>4 DEF Next
  <1>6. r = arb[w].rid
        BY <1>t, <1>r, <1>5 DEF FullforOppdrag, TypeOK
  <1>7. Eier(w) /\ arb[w].pc = "svar"
        BY <1>5 DEF FullforOppdrag, Avgi, Fencet, Eier
  <1> QED BY <1>5, <1>6, <1>7

(* Only StartFase1 opens a round, and only FullforOppdrag makes the case    *)
(* wait for an execution.                                                  *)
LEMMA SakSteg ==
    ASSUME TypeInv, [Next]_vars
    PROVE  /\ sak'.ver = sak.ver \/ \E w \in Arbeider : StartFase1(w)
           /\ \/ sak'.status # "venter_utforelse"
              \/ sak.status = "venter_utforelse"
              \/ \E w \in Arbeider : FullforOppdrag(w)
  <1>t. sak \in SakType
        BY DEF TypeInv, TypeOK
  <1> DEFINE Samme == /\ sak'.ver = sak.ver
                      /\ sak'.status = "venter_utforelse" =>
                            sak.status = "venter_utforelse"
  <1>1. ASSUME NEW w \in Arbeider, Fremdrift(w) \/ Krasj(w),
               ~StartFase1(w), ~FullforOppdrag(w)
        PROVE  Samme
    <2>1. CASE ClaimNesteSak(w)
          BY <2>1, ClaimArb
    <2>2. CASE \/ PlanLes(w) \/ Fase2Bygger(w) \/ PlanKompensasjon(w)
               \/ UtstedKapabilitet(w) \/ Leasetap(w) \/ Krasj(w)
          BY <2>2 DEF PlanLes, Fase2Bygger, PlanKompensasjon, UtstedKapabilitet,
                      Leasetap, Krasj
    <2>3. CASE PlanManuell(w) \/ PlanLost(w) \/ Fase2Retry(w) \/ FullforNektet(w)
          BY <1>t, <2>3 DEF PlanManuell, PlanLost, Fase2Retry, FullforNektet, Avgi, SakType
    <2>4. CASE PlanKo(w)
          BY <1>t, <2>4 DEF PlanKo, SakType
    <2> QED BY <1>1, <2>1, <2>2, <2>3, <2>4 DEF Fremdrift
  <1>2. CASE API
        BY <1>2 DEF API, Reserver, Revalider, Replay, Avslutt, Feilsvar
  <1>3. CASE Eiermodul
        BY <1>t, <1>3 DEF Eiermodul, Plukk, FristUtloper, Kvittering, VerifKvittering,
                          SakType
  <1>4. CASE LeaseUtloper \/ KapabilitetUtloper \/ FrigiUtlopteClaims \/ PolicyBytte
             \/ UNCHANGED vars
        BY <1>t, <1>4 DEF LeaseUtloper, KapabilitetUtloper, FrigiUtlopteClaims,
                          PolicyBytte, vars, SakType
  <1>5. ASSUME NEW w \in Arbeider, StartFase1(w) PROVE sak'.status # "venter_utforelse"
        BY <1>t, <1>5 DEF StartFase1, SakType
  <1>6. ASSUME NEW w \in Arbeider, FullforOppdrag(w) PROVE sak'.ver = sak.ver
        BY <1>t, <1>6 DEF FullforOppdrag, Avgi, SakType
  <1> QED BY <1>1, <1>2, <1>3, <1>4, <1>5, <1>6 DEF Next

(* A phase-2 order is placed by the owner on the proof it read, which is   *)
(* the newest round's; from then on no round is opened.                    *)
LEMMA BevisSteg ==
    GrunnInv /\ EttOppdragInv /\ OppdragPaaNyesteBevis /\ [Next]_vars
        => OppdragPaaNyesteBevis'
  <1> SUFFICES ASSUME GrunnInv, EttOppdragInv, OppdragPaaNyesteBevis, [Next]_vars,
                      NEW r \in ForretningsRid, oppdrag'[r] # "ingen", r \in Fase2Rid
               PROVE  r.runde = sak'.ver /\ gener'[r.runde].status = "positiv"
      BY DEF OppdragPaaNyesteBevis, Forretningsoppdrag
  <1>t. TypeOK
        BY DEF GrunnInv, TypeInv
  <1>1. CASE oppdrag[r] # "ingen"
    <2>1. r.runde = sak.ver /\ gener[r.runde].status = "positiv"
          BY <1>1 DEF OppdragPaaNyesteBevis, Forretningsoppdrag
    <2>2. sak.status \in Avsluttet
          BY <1>1 DEF EttOppdragInv, Forretningsoppdrag
    <2>3. sak'.ver = sak.ver
      <3>1. ASSUME NEW w \in Arbeider, StartFase1(w) PROVE FALSE
            BY <2>2, <3>1 DEF StartFase1, Fencet, Avsluttet
      <3> QED BY <3>1, SakSteg DEF GrunnInv
    <2>4. r.runde \in Runde
          BY Slag DEF Fase2Rid
    <2>5. gener'[r.runde] = gener[r.runde]
      <3>1. CASE UNCHANGED vars
            BY <3>1 DEF vars
      <3>2. CASE ~UNCHANGED vars
        <4>1. UtfallStaar
              BY <3>2, UtfallStaarSteg DEF GrunnInv
        <4> QED BY <2>1, <2>4, <4>1 DEF UtfallStaar
      <3> QED BY <3>1, <3>2
    <2> QED BY <2>1, <2>3, <2>5
  <1>2. CASE oppdrag[r] = "ingen"
    <2>1. PICK w \in Arbeider : /\ FullforOppdrag(w) /\ r = arb[w].rid
                                /\ Eier(w) /\ arb[w].pc = "svar"
          BY <1>2, NyttOppdrag
    <2>2. arb[w].fase = "fase2" /\ r.runde = arb[w].bevis
      <3>1. arb[w].rid \in IF arb[w].fase = "fase2"
                           THEN {Fase2Id(arb[w].bevis, p) : p \in Policy} ELSE KompRid
            BY <2>1 DEF GrunnInv, PlanInv
      <3>2. r \notin KompRid
            BY Slag
      <3> QED BY <2>1, <3>1, <3>2, Slag
    <2>3. arb[w].bevis = sak.ver /\ gener[sak.ver].status = "positiv"
          BY <2>1, <2>2 DEF GrunnInv, EierInv
    <2>4. sak'.ver = sak.ver /\ gener' = gener
          BY <1>t, <2>1 DEF FullforOppdrag, Avgi, TypeOK, SakType
    <2> QED BY <2>2, <2>3, <2>4
  <1> QED BY <1>1, <1>2

(* A phase-2 order rests on the newest round of the case, and that round   *)
(* was positive: also when the worker that placed it read its proof long   *)
(* before, and others claimed, verified and lost the case in between.      *)
THEOREM NyesteBevis == Spec => []OppdragPaaNyesteBevis
  <1>1. Init => EttOppdragInv /\ OppdragPaaNyesteBevis
    <2>1. Init => Forretningsoppdrag = {}
          BY DEF Init, Forretningsoppdrag, Rid
    <2> QED BY <2>1 DEF EttOppdragInv, HoyestEttOppdrag, OppdragPaaNyesteBevis
  <1>2. GrunnInv => TypeInv
        BY DEF GrunnInv
  <1> QED BY <1>1, <1>2, GrunnInit, GrunnSteg, EttOppdragSteg, BevisSteg, PTL DEF Spec

(* When the policies agree on the compensating action, no order the case   *)
(* waits for is cancelled under it: a stale worker plans the same one.     *)
LEMMA VentetOppdragSteg ==
    ASSUME \A p, q \in Policy : KompAv[p] = KompAv[q]
    PROVE  GrunnInv /\ EttOppdragInv /\ VentetOppdragFinnes /\ [Next]_vars
               => VentetOppdragFinnes'
  <1> SUFFICES ASSUME GrunnInv, EttOppdragInv, VentetOppdragFinnes, [Next]_vars,
                      sak'.status = "venter_utforelse"
               PROVE  \E r \in ForretningsRid : oppdrag'[r] \in Aapen
      BY DEF VentetOppdragFinnes
  <1>t. TypeOK /\ ArbeiderOK
        BY DEF GrunnInv, TypeInv
  <1>1. ASSUME NEW w \in Arbeider, FullforOppdrag(w)
        PROVE  \E r \in ForretningsRid : oppdrag'[r] \in Aapen
    <2>1. /\ arb[w].pc = "svar" /\ sak.status = "under_behandling"
          /\ arb[w].rid \in Rid
          BY <1>t, <1>1 DEF FullforOppdrag, Avgi, Fencet, ArbeiderOK
    <2>2. arb[w].rid \in ForretningsRid
      <3>1. arb[w].rid \in IF arb[w].fase = "fase2"
                           THEN {Fase2Id(arb[w].bevis, p) : p \in Policy} ELSE KompRid
            BY <2>1 DEF GrunnInv, PlanInv
      <3>2. arb[w].rid \notin Fase1Rid
            BY <3>1, Slag
      <3> QED BY <2>1, <3>2 DEF Rid
    <2>3. oppdrag[arb[w].rid] = "ingen"
          BY <2>1, <2>2 DEF EttOppdragInv, Forretningsoppdrag, Avsluttet
    <2>4. oppdrag'[arb[w].rid] = "opprettet"
          BY <1>t, <1>1, <2>1, <2>3 DEF FullforOppdrag, TypeOK
    <2> QED BY <2>2, <2>4 DEF Aapen
  <1>2. CASE ~\E w \in Arbeider : FullforOppdrag(w)
    <2>1. sak.status = "venter_utforelse"
          BY <1>2, SakSteg DEF GrunnInv
    <2>2. PICK r \in ForretningsRid : oppdrag[r] \in Aapen
          BY <2>1 DEF VentetOppdragFinnes
    <2>3. r \in Rid
          BY RidDeler
    <2>4. ASSUME NEW w \in Arbeider, PlanKompensasjon(w) PROVE oppdrag'[r] = oppdrag[r]
      <3>1. arb[w].policy \in Policy /\ sak.vei = "kompensasjon"
            BY <1>t, <2>4 DEF PlanKompensasjon, ArbeiderOK
      <3>2. \A q \in KompRid : q = KompPlan(w)
            BY <3>1 DEF KompRid, KompPlan
      <3>3. \A q \in Rid : op[q] = "aktiv" => q = KompPlan(w)
            BY <3>1, <3>2 DEF GrunnInv, VeiInv
      <3> QED BY <2>3, <2>4, <3>3 DEF PlanKompensasjon, OppdragEtter
    <2>5. ASSUME NEW w \in Arbeider, Fremdrift(w) \/ Krasj(w)
          PROVE  oppdrag'[r] = oppdrag[r]
      <3>1. ~StartFase1(w)
            BY <2>1 DEF StartFase1, Fencet
      <3> QED BY <1>2, <2>4, <2>5, <3>1
              DEF Fremdrift, Krasj, ClaimNesteSak, PlanLes, PlanManuell, PlanLost, PlanKo,
                  Fase2Retry, Fase2Bygger, UtstedKapabilitet, FullforNektet, Leasetap
    <2>6. CASE API
          BY <2>2, <2>6 DEF API, Reserver, Revalider, Replay, Avslutt, Feilsvar
    <2>7. ASSUME NEW q \in Rid, Plukk(q) \/ FristUtloper(q) PROVE oppdrag'[r] \in Aapen
          BY <1>t, <2>2, <2>3, <2>7 DEF Plukk, FristUtloper, TypeOK, Aapen
    <2>8. ASSUME NEW q \in Rid, Kvittering(q) PROVE oppdrag'[r] \in Aapen
      <3>1. sak'.status # "venter_utforelse"
        <4>1. PICK v \in BOOLEAN :
                  sak' = [sak EXCEPT !.status = IF @ # "venter_utforelse" THEN @
                                                ELSE IF v THEN "lost" ELSE "manuell"]
              BY <2>8 DEF Kvittering
        <4> QED BY <1>t, <2>1, <4>1 DEF TypeOK, SakType
      <3> QED BY <3>1
    <2>9. ASSUME NEW g \in Runde, VerifKvittering(g) PROVE oppdrag'[r] \in Aapen
          BY <2>1, <2>9 DEF VerifKvittering
    <2>10. CASE LeaseUtloper \/ KapabilitetUtloper \/ FrigiUtlopteClaims \/ PolicyBytte
                \/ UNCHANGED vars
          BY <2>2, <2>10 DEF LeaseUtloper, KapabilitetUtloper, FrigiUtlopteClaims,
                             PolicyBytte, vars
    <2> QED BY <2>2, <2>5, <2>6, <2>7, <2>8, <2>9, <2>10 DEF Next, Eiermodul
  <1> QED BY <1>1, <1>2

(* Whatever the case waits for can still answer it, when the policies      *)
(* agree on the compensating action.  (When they do not, a stale worker    *)
(* may cancel the order: BareEierenKansellerer.)                           *)
THEOREM Venting ==
    ASSUME \A p, q \in Policy : KompAv[p] = KompAv[q]
    PROVE  Spec => []VentingHarSvar
  <1>1. Init => EttOppdragInv /\ VentetOppdragFinnes
    <2>1. Init => Forretningsoppdrag = {} /\ sak.status = "ny"
          BY DEF Init, Forretningsoppdrag, Rid
    <2> QED BY <2>1 DEF EttOppdragInv, HoyestEttOppdrag, VentetOppdragFinnes
  <1>2. GrunnInv => TypeInv
        BY DEF GrunnInv
  <1>3. GrunnInv /\ EttOppdragInv /\ VentetOppdragFinnes /\ [Next]_vars
            => VentetOppdragFinnes'
        BY VentetOppdragSteg
  <1>4. GrunnInv /\ VentetOppdragFinnes => VentingHarSvar
        BY DEF GrunnInv, RundeInv, VentingHarSvar
  <1> QED BY <1>1, <1>2, <1>3, <1>4, GrunnInit, GrunnSteg, EttOppdragSteg, PTL DEF Spec

-----------------------------------------------------------------------------
(* The contract with the outbox (Reparasjonsordre).                        *)

(* While no business order moves, the order of the contract does not.      *)
LEMMA SammeOrdre ==
    ASSUME \A r \in ForretningsRid : oppdrag'[r] = oppdrag[r]
    PROVE  /\ Forretningsoppdrag' = Forretningsoppdrag
           /\ OrdrensStatus' = OrdrensStatus
  <1>1. Forretningsoppdrag' = Forretningsoppdrag
        BY DEF Forretningsoppdrag
  <1>2. CASE Forretningsoppdrag = {}
        BY <1>1, <1>2 DEF OrdrensStatus
  <1>3. CASE Forretningsoppdrag # {}
    <2> DEFINE r == CHOOSE s \in Forretningsoppdrag : TRUE
    <2>1. r \in ForretningsRid
          BY <1>3 DEF Forretningsoppdrag
    <2>2. OrdrensStatus = oppdrag[r] /\ OrdrensStatus' = oppdrag'[r]
          BY <1>1, <1>3 DEF OrdrensStatus
    <2> HIDE DEF r
    <2> QED BY <1>1, <2>1, <2>2
  <1> QED BY <1>1, <1>2, <1>3

(* The order of the contract is the one business order there is.           *)
LEMMA OrdrenEr ==
    ASSUME NEW r \in Forretningsoppdrag, \A s \in Forretningsoppdrag : s = r
    PROVE  OrdrensStatus = oppdrag[r]
  BY DEF OrdrensStatus

LEMMA OrdrenErEtter ==
    ASSUME NEW r \in Forretningsoppdrag', \A s \in Forretningsoppdrag' : s = r
    PROVE  OrdrensStatus' = oppdrag'[r]
  BY DEF OrdrensStatus

(* The case is treated exactly outside the three statuses that end it.     *)
LEMMA SakForOrdrenEr ==
    /\ sak.status \notin Avsluttet <=> SakForOrdren = "behandles"
    /\ sak.status = "venter_utforelse" <=> SakForOrdren = "venter"
    /\ sak.status \in {"lost", "manuell"} => SakForOrdren = sak.status
    /\ sak'.status \notin Avsluttet <=> SakForOrdren' = "behandles"
    /\ sak'.status = "venter_utforelse" <=> SakForOrdren' = "venter"
    /\ sak'.status \in {"lost", "manuell"} => SakForOrdren' = sak'.status
  BY DEF SakForOrdren, Avsluttet

(* The engine goes on with a case, or gives it up without an order.        *)
LEMMA UtenOrdre ==
    ASSUME EttOppdragInv, \A r \in ForretningsRid : oppdrag'[r] = oppdrag[r],
           sak.status \notin Avsluttet, sak'.status # "venter_utforelse"
    PROVE  [Ordre!Motor]_(Ordre!vars)
  <1>1. OrdrensStatus = "ingen" /\ OrdrensStatus' = "ingen"
        BY SammeOrdre DEF EttOppdragInv, OrdrensStatus
  <1>2. SakForOrdren = "behandles"
        BY SakForOrdrenEr
  <1>3. CASE sak'.status \notin Avsluttet
        BY <1>1, <1>2, <1>3, SakForOrdrenEr DEF Ordre!vars
  <1>4. CASE sak'.status \in Avsluttet
    <2>1. SakForOrdren' \in {"lost", "manuell"}
          BY <1>4, SakForOrdrenEr DEF Avsluttet
    <2> QED BY <1>1, <1>2, <2>1 DEF Ordre!Motor, Ordre!Overlat, Ordre!Init
  <1> QED BY <1>3, <1>4

LEMMA StilleOrdre ==
    ASSUME \A r \in ForretningsRid : oppdrag'[r] = oppdrag[r], sak'.status = sak.status
    PROVE  [Ordre!Motor]_(Ordre!vars)
  <1>1. SakForOrdren' = SakForOrdren
        BY DEF SakForOrdren
  <1> QED BY <1>1, SammeOrdre DEF Ordre!vars

(* Every step is one of the contract's: only the owner of the case ends    *)
(* its treatment, with the one order or without, and nobody but the owner  *)
(* of the order moves the two after that.                                  *)
LEMMA OrdreSteg ==
    ASSUME \A p, q \in Policy : KompAv[p] = KompAv[q],
           GrunnInv, EttOppdragInv, EttOppdragInv', [Next]_vars
    PROVE  [Ordre!Motor \/ Ordre!Eier]_(Ordre!vars)
  <1>t. TypeOK /\ ArbeiderOK /\ sak \in SakType
        BY DEF GrunnInv, TypeInv, TypeOK
  <1> DEFINE Samme == \A r \in ForretningsRid : oppdrag'[r] = oppdrag[r]
  <1>u. ASSUME NEW w \in Arbeider, Fencet(arb[w].claim) PROVE sak.status \notin Avsluttet
        BY <1>u DEF Fencet, Avsluttet
  <1>1. ASSUME NEW w \in Arbeider,
               \/ PlanLes(w) \/ Fase2Bygger(w) \/ UtstedKapabilitet(w)
               \/ Leasetap(w) \/ Krasj(w)
        PROVE  [Ordre!Motor]_(Ordre!vars)
    <2>1. UNCHANGED <<sak, oppdrag>>
          BY <1>1 DEF PlanLes, Fase2Bygger, UtstedKapabilitet, Leasetap, Krasj
    <2> QED BY <2>1, StilleOrdre
  <1>2. ASSUME NEW w \in Arbeider,
               \/ ClaimNesteSak(w) \/ PlanManuell(w) \/ PlanLost(w) \/ PlanKo(w)
               \/ Fase2Retry(w) \/ FullforNektet(w)
        PROVE  [Ordre!Motor]_(Ordre!vars)
    <2>1. oppdrag' = oppdrag
          BY <1>2 DEF ClaimNesteSak, PlanManuell, PlanLost, PlanKo, Fase2Retry,
                      FullforNektet
    <2>2. sak.status \notin Avsluttet
          BY <1>2 DEF ClaimNesteSak, PlanManuell, PlanLost, PlanKo, Fase2Retry,
                      FullforNektet, Avgi, Fencet, Claimbar, Avsluttet
    <2>3. sak'.status # "venter_utforelse"
          BY <1>t, <1>2 DEF ClaimNesteSak, PlanManuell, PlanLost, PlanKo, Fase2Retry,
                            FullforNektet, Avgi, SakType
    <2> QED BY <2>1, <2>2, <2>3, UtenOrdre
  <1>3. ASSUME NEW w \in Arbeider, StartFase1(w) PROVE [Ordre!Motor]_(Ordre!vars)
    <2>1. sak.status \notin Avsluttet /\ sak'.status = "venter_verifikasjon"
          BY <1>t, <1>3 DEF StartFase1, Fencet, Avsluttet, SakType
    <2>2. \A r \in ForretningsRid : oppdrag[r] = "ingen"
          BY <2>1 DEF EttOppdragInv, Forretningsoppdrag
    <2>3. Fase1Plan(w) \notin ForretningsRid
          BY Fase1ErIkkeForretning DEF Fase1Plan
    <2>4. Samme
          BY <1>3, <2>2, <2>3 DEF StartFase1, OppdragEtter, Rid
    <2> QED BY <2>1, <2>4, UtenOrdre
  <1>4. ASSUME NEW w \in Arbeider, PlanKompensasjon(w) PROVE [Ordre!Motor]_(Ordre!vars)
    <2>1. arb[w].policy \in Policy /\ sak.vei = "kompensasjon" /\ sak' = sak
          BY <1>t, <1>4 DEF PlanKompensasjon, ArbeiderOK
    <2>2. \A q \in KompRid : q = KompPlan(w)
          BY <2>1 DEF KompRid, KompPlan
    <2>3. \A q \in Rid : op[q] = "aktiv" => q = KompPlan(w)
          BY <2>1, <2>2 DEF GrunnInv, VeiInv
    <2>4. Samme
          BY <1>4, <2>3, RidDeler DEF PlanKompensasjon, OppdragEtter
    <2> QED BY <2>1, <2>4, StilleOrdre
  <1>5. ASSUME NEW w \in Arbeider, FullforOppdrag(w) PROVE Ordre!Bestill
    <2>1. /\ arb[w].pc = "svar" /\ sak.status = "under_behandling"
          /\ arb[w].rid \in Rid /\ sak'.status = "venter_utforelse"
          BY <1>t, <1>5 DEF FullforOppdrag, Avgi, Fencet, ArbeiderOK, SakType
    <2>2. arb[w].rid \in ForretningsRid
      <3>1. arb[w].rid \in IF arb[w].fase = "fase2"
                           THEN {Fase2Id(arb[w].bevis, p) : p \in Policy} ELSE KompRid
            BY <2>1 DEF GrunnInv, PlanInv
      <3>2. arb[w].rid \notin Fase1Rid
            BY <3>1, Slag
      <3> QED BY <2>1, <3>2 DEF Rid
    <2>3. Forretningsoppdrag = {}
          BY <2>1 DEF EttOppdragInv, Avsluttet
    <2>4. oppdrag[arb[w].rid] = "ingen"
          BY <2>2, <2>3 DEF Forretningsoppdrag
    <2>5. oppdrag'[arb[w].rid] = "opprettet"
          BY <1>t, <1>5, <2>1, <2>4 DEF FullforOppdrag, TypeOK
    <2>6. arb[w].rid \in Forretningsoppdrag'
          BY <2>2, <2>5 DEF Forretningsoppdrag
    <2>7. OrdrensStatus = "ingen" /\ OrdrensStatus' = "opprettet"
          BY <2>3, <2>5, <2>6, OrdrenErEtter DEF EttOppdragInv, HoyestEttOppdrag, OrdrensStatus
    <2>8. SakForOrdren = "behandles" /\ SakForOrdren' = "venter"
          BY <2>1, SakForOrdrenEr DEF Avsluttet
    <2> QED BY <2>7, <2>8 DEF Ordre!Bestill, Ordre!Init, Ordre!Bestilt
  <1>6. CASE API
    <2>1. UNCHANGED <<sak, oppdrag>>
          BY <1>6 DEF API, Reserver, Revalider, Replay, Avslutt, Feilsvar
    <2> QED BY <2>1, StilleOrdre
  <1>7. ASSUME NEW r \in Rid, Plukk(r) \/ Kvittering(r), r \in ForretningsRid
        PROVE  Ordre!Eier
    <2>1. r \in Forretningsoppdrag /\ \A s \in Forretningsoppdrag : s = r
          BY <1>7 DEF Plukk, Kvittering, Forretningsoppdrag, EttOppdragInv, HoyestEttOppdrag
    <2>2. OrdrensStatus = oppdrag[r]
          BY <2>1, OrdrenEr
    <2>3. oppdrag'[r] # "ingen"
          BY <1>t, <1>7 DEF Plukk, Kvittering, TypeOK
    <2>4. OrdrensStatus' = oppdrag'[r]
      <3>1. r \in Forretningsoppdrag'
            BY <1>7, <2>3 DEF Forretningsoppdrag
      <3> QED BY <3>1, OrdrenErEtter DEF EttOppdragInv, HoyestEttOppdrag
    <2>5. CASE Plukk(r)
      <3>1. /\ oppdrag[r] = "opprettet" /\ oppdrag'[r] = "plukket"
            /\ SakForOrdren' = SakForOrdren
            BY <1>t, <2>5 DEF Plukk, TypeOK, SakForOrdren
      <3> QED BY <2>2, <2>4, <3>1 DEF Ordre!Eier, Ordre!Plukk
    <2>6. CASE Kvittering(r)
      <3>1. PICK v \in BOOLEAN :
              /\ oppdrag' = [oppdrag EXCEPT ![r] = IF v THEN "utfort" ELSE "feilet"]
              /\ sak' = [sak EXCEPT !.status =
                            IF @ # "venter_utforelse" THEN @
                            ELSE IF v THEN "lost" ELSE "manuell"]
            BY <2>6 DEF Kvittering
      <3>2. oppdrag[r] = "plukket" /\ oppdrag'[r] = IF v THEN "utfort" ELSE "feilet"
            BY <1>t, <2>6, <3>1 DEF Kvittering, TypeOK
      <3>3. sak'.status = IF sak.status # "venter_utforelse" THEN sak.status
                          ELSE IF v THEN "lost" ELSE "manuell"
            BY <1>t, <3>1 DEF SakType
      <3>4. SakForOrdren' = IF SakForOrdren # "venter" THEN SakForOrdren
                            ELSE IF v THEN "lost" ELSE "manuell"
            BY <3>3 DEF SakForOrdren
      <3> QED BY <2>2, <2>4, <3>2, <3>4 DEF Ordre!Eier, Ordre!Kvitter
    <2> QED BY <1>7, <2>5, <2>6
  <1>8. ASSUME NEW r \in Rid, Plukk(r) \/ FristUtloper(r), r \in ForretningsRid => FristUtloper(r)
        PROVE  [Ordre!Motor]_(Ordre!vars)
    <2>1. Samme /\ sak' = sak
          BY <1>t, <1>8 DEF Plukk, FristUtloper, TypeOK, Rid
    <2> QED BY <2>1, StilleOrdre
  <1>9. ASSUME NEW g \in Runde, VerifKvittering(g) PROVE [Ordre!Motor]_(Ordre!vars)
    <2>1. sak.status \notin Avsluttet /\ sak'.status # "venter_utforelse"
          BY <1>t, <1>9 DEF VerifKvittering, Avsluttet, SakType
    <2>2. Fase1Id(g, gener[g].krav) \notin ForretningsRid
          BY Fase1ErIkkeForretning
    <2>3. Samme
          BY <1>t, <1>9, <2>2 DEF VerifKvittering, TypeOK
    <2> QED BY <2>1, <2>3, UtenOrdre
  <1>10. CASE LeaseUtloper \/ KapabilitetUtloper \/ PolicyBytte \/ UNCHANGED vars
    <2>1. oppdrag' = oppdrag /\ sak'.status = sak.status
          BY <1>t, <1>10 DEF LeaseUtloper, KapabilitetUtloper, PolicyBytte, vars, SakType
    <2> QED BY <2>1, StilleOrdre
  <1>11. CASE FrigiUtlopteClaims
    <2>1. oppdrag' = oppdrag /\ sak.status = "under_behandling" /\ sak'.status = "ny"
          BY <1>t, <1>11 DEF FrigiUtlopteClaims, SakType
    <2> QED BY <2>1, UtenOrdre DEF Avsluttet
  <1> QED BY <1>1, <1>2, <1>3, <1>4, <1>5, <1>6, <1>7, <1>8, <1>9, <1>10, <1>11
          DEF Next, Fremdrift, Eiermodul, Kvittering, Ordre!Motor

(* Seen as one order and its case, the engine keeps its side of the        *)
(* contract with the outbox: it ends the treatment once, places the order  *)
(* and parks the case in one commit, and then only the owner moves them;   *)
(* when the policies agree on the compensating action.  (When they do not, *)
(* a stale worker may cancel the order: BareEierenKansellerer.)            *)
THEOREM Ordreloftet ==
    ASSUME \A p, q \in Policy : KompAv[p] = KompAv[q]
    PROVE  Spec => HolderOrdreloftet
  <1>1. Init => EttOppdragInv /\ Ordre!Init
    <2>1. Init => Forretningsoppdrag = {} /\ sak.status = "ny"
          BY DEF Init, Forretningsoppdrag, Rid
    <2> QED BY <2>1 DEF EttOppdragInv, HoyestEttOppdrag, Ordre!Init, OrdrensStatus,
                        SakForOrdren
  <1>2. GrunnInv => TypeInv
        BY DEF GrunnInv
  <1>3. GrunnInv /\ EttOppdragInv /\ EttOppdragInv' /\ [Next]_vars
            => [Ordre!Motor \/ Ordre!Eier]_(Ordre!vars)
        BY OrdreSteg
  <1> QED BY <1>1, <1>2, <1>3, GrunnInit, GrunnSteg, EttOppdragSteg, PTL
          DEF Spec, HolderOrdreloftet, Ordre!Motorsiden

=============================================================================
