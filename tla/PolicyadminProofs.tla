-------------------------- MODULE PolicyadminProofs --------------------------
(* Theorems about how a policy comes into force, for any number of people, *)
(* drafts, documents and requests.                                         *)
EXTENDS Policyadmin, FiniteSetTheorems, TLAPS

-----------------------------------------------------------------------------
(* The inductive invariant.                                                *)

(* A request holds the row of a draft that is put forward, has read a      *)
(* document that is still there, and who attests has an open round.        *)
ForespOK == \A r \in Foresp :
    /\ f[r].steg # "ledig" => /\ f[r].u \in Utkast \ sletting.holder
                              /\ utkast[f[r].u].status = "validert"
                              /\ f[r].p \in rader \cup {Ingen}
    /\ f[r].steg = "ledig" => f[r].u = Ingen
    /\ f[r].steg \in {"attest", "fullfor"} => Aapen(f[r].u) /\ f[r].b \in Bruker
    /\ f[r].steg = "fullfor" => Terskel(f[r].u, MedMin(r))

(* A draft that was made has a document, and an open round is of it, with  *)
(* the number of signatures that change asks for; the base of every round  *)
(* is kept.                                                                *)
RundeOK(u) ==
    /\ utkast[u].status # "ingen" => utkast[u].innhold \in Innhold
    /\ Aapen(u) => /\ utkast[u].status = "validert"
                   /\ utkast[u].innhold = runde[u].innhold
                   /\ runde[u].krav = Krav(runde[u].base, runde[u].innhold)
    /\ runde[u].base \in (baser \cap rader) \cup {Ingen}
RunderOK == \A u \in Utkast : RundeOK(u)

IInv == TypeOK /\ ForespOK /\ RunderOK

FType == [steg: {"ledig", "runde", "apne", "attest", "fullfor"},
          u: Utkast \cup {Ingen}, b: Bruker \cup {Ingen},
          authz: Nat, p: Innhold \cup {Ingen}]

UtkastType == [status: {"ingen", "utkast", "validert", "forkastet", "aktivert"},
               innhold: Innhold \cup {Ingen}]

Eneste(g) == \A r, q \in Foresp : g[r].u # Ingen /\ g[r].u = g[q].u => r = q

LEMMA LedigType == Ledig \in FType
  BY DEF Ledig, FType

LEMMA UapnetType == Uapnet \in Rundeposter
  BY DEF Uapnet, Rundeposter

LEMMA InitOK == Init => IInv
  <1> SUFFICES ASSUME Init PROVE IInv
      OBVIOUS
  <1>1. f \in [Foresp -> FType] /\ Eneste(f)
        BY LedigType DEF Init, Ledig, Eneste
  <1>2. runde \in [Utkast -> Rundeposter]
        BY UapnetType DEF Init
  <1>3. TypeOK
        BY <1>1, <1>2 DEF Init, TypeOK, FType, Eneste, IngenSletting
  <1>4. ForespOK
        BY DEF Init, ForespOK, Ledig
  <1>5. RunderOK
        BY DEF Init, RunderOK, RundeOK, Aapen, Uapnet
  <1> QED BY <1>3, <1>4, <1>5 DEF IInv

-----------------------------------------------------------------------------
(* Steps on one request and on one draft.                                  *)

(* A request that ends or goes on.                                         *)
LEMMA FSteg ==
    ASSUME IInv, NEW r \in Foresp, NEW x \in FType,
           x.u = Ingen \/ x.u = f[r].u \/ (x.u \in Utkast /\ Ulaast(x.u)),
           f' = [f EXCEPT ![r] = x]
    PROVE  f' \in [Foresp -> FType] /\ Eneste(f')
  <1>1. f \in [Foresp -> FType] /\ Eneste(f)
        BY DEF IInv, TypeOK, FType, Eneste
  <1> QED BY <1>1 DEF Eneste, Ulaast

(* The signatures with the caller's.                                       *)
LEMMA MedMinType ==
    ASSUME IInv, NEW r \in Foresp, f[r].steg \in {"attest", "fullfor"}
    PROVE  MedMin(r) \in [Bruker -> Nat \cup {Ingen}]
  <1>1. f[r] \in FType /\ f[r].u \in Utkast /\ f[r].b \in Bruker
        BY DEF IInv, TypeOK, ForespOK, FType
  <1>2. runde[f[r].u].att \in [Bruker -> Nat \cup {Ingen}] /\ f[r].authz \in Nat
        BY <1>1 DEF IInv, TypeOK, Rundeposter, FType
  <1> QED BY <1>1, <1>2 DEF MedMin

(* Nobody else holds the draft a request holds.                            *)
LEMMA Alene ==
    ASSUME IInv, NEW r \in Foresp, f[r].steg # "ledig"
    PROVE  \A q \in Foresp \ {r} : f[q].u # f[r].u
  <1>1. f[r].u \in Utkast /\ f[r].u # Ingen
        BY PolicyadminAntakelse DEF IInv, ForespOK
  <1> QED BY <1>1 DEF IInv, TypeOK

(* Requests that stand still, with the draft each holds.                   *)
LEMMA ForespStaar ==
    ASSUME IInv, NEW r \in Foresp, f'[r] = f[r],
           f[r].steg # "ledig" =>
              /\ utkast'[f[r].u] = utkast[f[r].u] /\ runde'[f[r].u] = runde[f[r].u]
              /\ f[r].p \in rader' \cup {Ingen} /\ f[r].u \notin sletting'.holder
    PROVE  /\ f'[r].steg # "ledig" => /\ f'[r].u \in Utkast \ sletting'.holder
                                      /\ utkast'[f'[r].u].status = "validert"
                                      /\ f'[r].p \in rader' \cup {Ingen}
           /\ f'[r].steg = "ledig" => f'[r].u = Ingen
           /\ f'[r].steg \in {"attest", "fullfor"} => Aapen(f[r].u)' /\ f'[r].b \in Bruker
           /\ f'[r].steg = "fullfor" => Terskel(f[r].u, MedMin(r))'
  <1>1. f[r].steg # "ledig" => /\ Aapen(f[r].u)' <=> Aapen(f[r].u)
                               /\ MedMin(r)' = MedMin(r)
        BY DEF Aapen, MedMin
  <1>2. f[r].steg # "ledig" /\ Terskel(f[r].u, MedMin(r)) => Terskel(f[r].u, MedMin(r))'
        BY <1>1 DEF Terskel, Signert
  <1> QED BY <1>1, <1>2 DEF IInv, ForespOK

LEMMA RundeStaaende ==
    ASSUME IInv, NEW u \in Utkast, utkast'[u] = utkast[u], runde'[u] = runde[u],
           baser \cap rader \subseteq baser' \cap rader'
    PROVE  RundeOK(u)'
  BY DEF IInv, RunderOK, RundeOK, Aapen, Krav

LEMMA Lukking ==
    ASSUME IInv, NEW u \in Utkast, NEW t \in {"utlopt", "kansellert", "brukt"},
           runde' = [runde EXCEPT ![u].status = t]
    PROVE  /\ runde' \in [Utkast -> Rundeposter]
           /\ \A v \in Utkast \ {u} : runde'[v] = runde[v]
           /\ runde'[u].base = runde[u].base /\ runde'[u].innhold = runde[u].innhold
           /\ runde'[u].krav = runde[u].krav /\ runde'[u].att = runde[u].att
           /\ runde'[u].status = t
  <1>1. runde \in [Utkast -> Rundeposter]
        BY DEF IInv, TypeOK
  <1> QED BY <1>1 DEF Rundeposter

(* A draft that nobody holds is changed, and its round left or closed.     *)
LEMMA UtkastSteg ==
    ASSUME IInv, NEW u \in Utkast, \A r \in Foresp : f[r].u # u,
           NEW x \in UtkastType, x.status # "ingen", x.innhold \in Innhold,
           utkast' = [utkast EXCEPT ![u] = x],
           runde' = runde \/ (\E t \in {"utlopt", "kansellert"} :
                                 runde' = [runde EXCEPT ![u].status = t]),
           Aapen(u)' => x.status = "validert" /\ x.innhold = utkast[u].innhold,
           UNCHANGED <<baser, rader, aktiv, styrt, medlem, f, sletting>>
    PROVE  IInv'
  <1>1. /\ utkast'[u] = x /\ utkast' \in [Utkast -> UtkastType]
        /\ \A v \in Utkast \ {u} : utkast'[v] = utkast[v]
        BY DEF IInv, TypeOK, UtkastType
  <1>2. /\ \A v \in Utkast \ {u} : runde'[v] = runde[v]
        /\ runde'[u].base = runde[u].base /\ runde'[u].innhold = runde[u].innhold
        /\ runde'[u].krav = runde[u].krav /\ runde'[u].att = runde[u].att
        /\ Aapen(u)' => Aapen(u)
        /\ runde' \in [Utkast -> Rundeposter]
    <2>1. CASE runde' = runde
          BY <2>1 DEF IInv, TypeOK, Aapen
    <2>2. CASE \E t \in {"utlopt", "kansellert"} : runde' = [runde EXCEPT ![u].status = t]
          BY <2>2, Lukking DEF Aapen
    <2> QED BY <2>1, <2>2
  <1>3. TypeOK'
        BY <1>1, <1>2 DEF IInv, TypeOK, UtkastType
  <1>4. ForespOK'
    <2>1. ASSUME NEW r \in Foresp, f[r].steg # "ledig"
          PROVE  utkast'[f[r].u] = utkast[f[r].u] /\ runde'[f[r].u] = runde[f[r].u]
      <3>1. f[r].u \in Utkast \ {u}
            BY <2>1 DEF IInv, ForespOK
      <3> QED BY <1>1, <1>2, <3>1
    <2>2. \A r \in Foresp : f[r].steg # "ledig" =>
              f[r].p \in rader' \cup {Ingen} /\ f[r].u \notin sletting'.holder
          BY DEF IInv, ForespOK
    <2> QED BY <2>1, <2>2, ForespStaar DEF ForespOK
  <1>5. RundeOK(u)'
        BY <1>1, <1>2 DEF IInv, RunderOK, RundeOK, Krav
  <1>6. RunderOK'
        BY <1>1, <1>2, <1>5, RundeStaaende DEF RunderOK
  <1> QED BY <1>3, <1>4, <1>6 DEF IInv

(* The steps on a draft alone.                                             *)
LEMMA UtkastAlene ==
    ASSUME IInv, NEW u \in Utkast,
           \/ \E i \in Forslag[u] : OpprettUtkast(u, i) \/ Rediger(u, i)
           \/ Valider(u) \/ Gjenapne(u) \/ Forkast(u)
    PROVE  IInv'
  <1>0. /\ utkast[u] \in UtkastType
        /\ utkast[u].status # "ingen" => utkast[u].innhold \in Innhold
        /\ utkast[u].status # "validert" => ~Aapen(u)
        /\ Forslag[u] \subseteq Innhold
        BY PolicyadminAntakelse DEF IInv, TypeOK, RunderOK, RundeOK, UtkastType
  <1>1. ASSUME NEW i \in Forslag[u], OpprettUtkast(u, i) PROVE IInv'
    <2> DEFINE x == [status |-> "utkast", innhold |-> i]
    <2>1. \A r \in Foresp : f[r].u # u
          BY <1>1, PolicyadminAntakelse DEF OpprettUtkast, IInv, ForespOK
    <2>2. ~Aapen(u)'
          BY <1>0, <1>1 DEF OpprettUtkast, Aapen
    <2>3. x \in UtkastType /\ x.status # "ingen" /\ x.innhold \in Innhold
          BY <1>0 DEF UtkastType
    <2>4. utkast' = [utkast EXCEPT ![u] = x]
          BY <1>1 DEF OpprettUtkast
    <2> HIDE DEF x
    <2> QED BY <1>1, <2>1, <2>2, <2>3, <2>4, UtkastSteg DEF OpprettUtkast
  <1>2. ASSUME NEW i \in Forslag[u], Rediger(u, i) PROVE IInv'
    <2> DEFINE x == [utkast[u] EXCEPT !.innhold = i]
    <2>1. utkast' = [utkast EXCEPT ![u] = x]
          BY <1>2 DEF Rediger
    <2>2. ~Aapen(u)'
          BY <1>0, <1>2 DEF Rediger, Aapen
    <2>3. x \in UtkastType /\ x.status # "ingen" /\ x.innhold \in Innhold
          BY <1>0, <1>2 DEF UtkastType, Rediger
    <2> HIDE DEF x
    <2> QED BY <1>2, <2>1, <2>2, <2>3, UtkastSteg DEF Rediger, Ulaast
  <1>3. CASE Valider(u)
    <2> DEFINE x == [utkast[u] EXCEPT !.status = "validert"]
    <2>1. utkast' = [utkast EXCEPT ![u] = x]
          BY <1>3 DEF Valider
    <2>2. /\ x \in UtkastType /\ x.status = "validert"
          /\ x.innhold = utkast[u].innhold /\ x.innhold \in Innhold
          BY <1>0, <1>3 DEF UtkastType, Valider
    <2> HIDE DEF x
    <2> QED BY <1>3, <2>1, <2>2, UtkastSteg DEF Valider, Ulaast
  <1>4. CASE Gjenapne(u) \/ Forkast(u)
    <2>1. PICK t \in {"utkast", "forkastet"} : utkast' = [utkast EXCEPT ![u].status = t]
          BY <1>4 DEF Gjenapne, Forkast
    <2>2. utkast[u].status # "ingen" /\ Ulaast(u)
          /\ UNCHANGED <<baser, rader, aktiv, styrt, medlem, f, sletting>>
          BY <1>4 DEF Gjenapne, Forkast
    <2> DEFINE x == [utkast[u] EXCEPT !.status = t]
    <2>3. utkast' = [utkast EXCEPT ![u] = x]
          BY <2>1
    <2>4. x \in UtkastType /\ x.status # "ingen" /\ x.innhold \in Innhold
          BY <1>0, <2>2 DEF UtkastType
    <2>5. /\ runde' = runde /\ ~Aapen(u)
          \/ \E y \in {"utlopt", "kansellert"} : runde' = [runde EXCEPT ![u].status = y]
      <3>1. CASE ~Aapen(u)
            BY <1>4, <3>1 DEF Gjenapne, Forkast, TrekkRunde
      <3>2. CASE Aapen(u)
        <4>1. runde' = [runde EXCEPT ![u].status =
                           IF runde[u].forfalt THEN "utlopt" ELSE "kansellert"]
              BY <1>4, <3>2 DEF Gjenapne, Forkast, TrekkRunde, Lukket
        <4> QED BY <4>1
      <3> QED BY <3>1, <3>2
    <2>6. ~Aapen(u)'
          BY <2>5, Lukking DEF Aapen
    <2> HIDE DEF x
    <2> QED BY <2>2, <2>3, <2>4, <2>5, <2>6, UtkastSteg DEF Ulaast
  <1> QED BY <1>1, <1>2, <1>3, <1>4

(* A request's step, its draft's round changed or not.                     *)
LEMMA ForespSteg ==
    ASSUME IInv, NEW r \in Foresp, NEW x \in FType,
           f' = [f EXCEPT ![r] = x],
           \/ x = Ledig
           \/ x.steg # "ledig" /\ f[r].steg # "ledig" /\ x.u = f[r].u
           \/ x.steg # "ledig" /\ f[r].steg = "ledig" /\ x.u \in Utkast /\ Ulaast(x.u),
           x.steg # "ledig" => /\ x.u \in Utkast \ sletting.holder
                               /\ utkast'[x.u].status = "validert"
                               /\ x.p \in rader' \cup {Ingen},
           x.steg \in {"attest", "fullfor"} => Aapen(x.u)' /\ x.b \in Bruker,
           x.steg = "fullfor" => Terskel(x.u, MedMin(r))',
           \A u \in Utkast : (f[r].steg = "ledig" \/ u # f[r].u) =>
               utkast'[u] = utkast[u] /\ runde'[u] = runde[u],
           rader \subseteq rader', UNCHANGED sletting
    PROVE  f' \in [Foresp -> FType] /\ Eneste(f') /\ ForespOK'
  <1>0. /\ f'[r] = x /\ \A q \in Foresp \ {r} : f'[q] = f[q]
        /\ f[r].steg = "ledig" => f[r].u = Ingen
        BY DEF IInv, TypeOK, ForespOK
  <1>1. f' \in [Foresp -> FType] /\ Eneste(f')
        BY FSteg, LedigType DEF Ledig
  <1>2. ASSUME NEW q \in Foresp \ {r}, f[q].steg # "ledig"
        PROVE  /\ utkast'[f[q].u] = utkast[f[q].u] /\ runde'[f[q].u] = runde[f[q].u]
               /\ f[q].p \in rader' \cup {Ingen} /\ f[q].u \notin sletting'.holder
    <2>1. f[q].u \in Utkast \ sletting.holder /\ f[q].p \in rader \cup {Ingen}
          BY <1>2 DEF IInv, ForespOK
    <2>2. f[r].steg # "ledig" => f[q].u # f[r].u
          BY <1>2, Alene
    <2> QED BY <2>1, <2>2
  <1>3. x.steg = "ledig" => x.u = Ingen
        BY DEF Ledig
  <1>4. ForespOK'
    <2> SUFFICES ASSUME NEW q \in Foresp
                 PROVE  /\ f'[q].steg # "ledig" => /\ f'[q].u \in Utkast \ sletting'.holder
                                                   /\ utkast'[f'[q].u].status = "validert"
                                                   /\ f'[q].p \in rader' \cup {Ingen}
                        /\ f'[q].steg = "ledig" => f'[q].u = Ingen
                        /\ f'[q].steg \in {"attest", "fullfor"} =>
                              Aapen(f[q].u)' /\ f'[q].b \in Bruker
                        /\ f'[q].steg = "fullfor" => Terskel(f[q].u, MedMin(q))'
        BY DEF ForespOK
    <2>1. CASE q = r
          BY <1>0, <1>3, <2>1
    <2>2. CASE q # r
          BY <1>0, <1>2, <2>2, ForespStaar
    <2> QED BY <2>1, <2>2
  <1> QED BY <1>1, <1>4

(* Types of the rest, when a request's step or a membership changes.       *)
LEMMA TypeSamlet ==
    ASSUME IInv, f' \in [Foresp -> FType], Eneste(f'),
           utkast' \in [Utkast -> UtkastType], runde' \in [Utkast -> Rundeposter],
           baser' \subseteq Innhold \cup {Ingen},
           UNCHANGED <<rader, aktiv, styrt, medlem, sletting>>
    PROVE  TypeOK'
  BY DEF IInv, TypeOK, FType, Eneste, UtkastType

(* A request that reads or ends, and changes nothing else.                 *)
LEMMA LeseSteg ==
    ASSUME IInv, NEW r \in Foresp, NEW x \in FType,
           f' = [f EXCEPT ![r] = x],
           \/ x = Ledig
           \/ x.steg # "ledig" /\ f[r].steg # "ledig" /\ x.u = f[r].u
           \/ x.steg # "ledig" /\ f[r].steg = "ledig" /\ x.u \in Utkast /\ Ulaast(x.u),
           x.steg # "ledig" => /\ x.u \in Utkast \ sletting.holder
                               /\ utkast[x.u].status = "validert"
                               /\ x.p \in rader \cup {Ingen},
           x.steg \in {"attest", "fullfor"} => Aapen(x.u) /\ x.b \in Bruker,
           x.steg = "fullfor" => Terskel(x.u, MedMin(r))',
           UNCHANGED <<utkast, runde, baser, rader, aktiv, styrt, medlem, sletting>>
    PROVE  IInv'
  <1>1. f' \in [Foresp -> FType] /\ Eneste(f') /\ ForespOK'
        BY ForespSteg DEF Aapen
  <1>2. RunderOK'
        BY RundeStaaende DEF RunderOK
  <1>3. TypeOK'
        BY <1>1, TypeSamlet DEF IInv, TypeOK, UtkastType
  <1> QED BY <1>1, <1>2, <1>3 DEF IInv

LEMMA RundeLesing ==
    ASSUME IInv, NEW r \in Foresp,
           (\E u \in Utkast : RundeLes(r, u)) \/ RundeSjekk(r) \/ Feil(r)
    PROVE  IInv'
  <1>0. f[r] \in FType /\ aktiv \in rader \cup {Ingen} /\ rader \subseteq Innhold
        BY DEF IInv, TypeOK, FType
  <1>1. ASSUME NEW u \in Utkast, RundeLes(r, u) PROVE IInv'
    <2> DEFINE x == [Ledig EXCEPT !.steg = "runde", !.u = u, !.p = aktiv]
    <2>1. /\ x \in FType /\ x.steg = "runde" /\ x.u = u /\ x.p = aktiv
          BY <1>0 DEF FType, Ledig
    <2>2. /\ f' = [f EXCEPT ![r] = x] /\ f[r].steg = "ledig"
          /\ Ulaast(u) /\ utkast[u].status = "validert"
          /\ UNCHANGED <<utkast, runde, baser, rader, aktiv, styrt, medlem, sletting>>
          BY <1>1 DEF RundeLes
    <2>3. u \notin sletting.holder
          BY <2>2 DEF Ulaast
    <2> HIDE DEF x
    <2> QED BY <1>0, <2>1, <2>2, <2>3, LeseSteg
  <1>2. ASSUME f' = [f EXCEPT ![r] = Ledig],
               UNCHANGED <<utkast, runde, baser, rader, aktiv, styrt, medlem, sletting>>
        PROVE  IInv'
        BY <1>2, LedigType, LeseSteg DEF Ledig
  <1>3. CASE RundeSjekk(r)
    <2>1. CASE f' = [f EXCEPT ![r].steg = "apne"]
      <3> DEFINE x == [f[r] EXCEPT !.steg = "apne"]
      <3>1. /\ x \in FType /\ x.steg = "apne" /\ x.u = f[r].u /\ x.p = f[r].p
            BY <1>0 DEF FType
      <3>2. f' = [f EXCEPT ![r] = x]
            BY <2>1
      <3>3. f[r].steg = "runde"
            BY <1>3 DEF RundeSjekk
      <3> HIDE DEF x
      <3> QED BY <1>3, <3>1, <3>2, <3>3, LeseSteg DEF RundeSjekk, IInv, ForespOK
    <2> QED BY <1>2, <1>3, <2>1 DEF RundeSjekk
  <1>4. CASE Feil(r)
        BY <1>2, <1>4 DEF Feil
  <1> QED BY <1>1, <1>3, <1>4

(* A round is opened, with what its approvers go by.                       *)
LEMMA RundeAapning ==
    ASSUME IInv, NEW r \in Foresp, RundeSkriv(r), NEW u \in Utkast, u = f[r].u
    PROVE  IInv'
  <1> DEFINE y == [nr |-> runde[u].nr + 1, status |-> "apen", forfalt |-> FALSE,
                   base |-> f[r].p, innhold |-> utkast[u].innhold,
                   krav |-> Krav(f[r].p, utkast[u].innhold), att |-> Uapnet.att]
  <1>1. /\ f[r] \in FType /\ u \in Utkast /\ utkast[u].status = "validert"
        /\ f[r].p \in rader \cup {Ingen} /\ utkast[u].innhold \in Innhold
        /\ f[r].steg # "ledig" /\ rader \subseteq Innhold /\ runde[u].nr \in Nat
        BY DEF RundeSkriv, IInv, ForespOK, RunderOK, RundeOK, TypeOK, FType, Rundeposter
  <1>11. Krav(f[r].p, utkast[u].innhold) \in {1, 2}
         BY DEF Krav
  <1>2. /\ y \in Rundeposter /\ y.status = "apen" /\ y.base = f[r].p
        /\ y.innhold = utkast[u].innhold /\ y.krav = Krav(f[r].p, utkast[u].innhold)
    <2>1. Uapnet.att \in [Bruker -> Nat \cup {Ingen}]
          BY UapnetType DEF Rundeposter
    <2> QED BY <1>1, <1>11, <2>1 DEF Rundeposter
  <1>3. runde' = [runde EXCEPT ![u] = y]
        BY DEF RundeSkriv
  <1> HIDE DEF y
  <1>4. /\ runde' \in [Utkast -> Rundeposter] /\ runde'[u] = y
        /\ \A v \in Utkast \ {u} : runde'[v] = runde[v]
        BY <1>1, <1>2, <1>3 DEF IInv, TypeOK
  <1>5. f' \in [Foresp -> FType] /\ Eneste(f') /\ ForespOK'
    <2>1. f' = [f EXCEPT ![r] = Ledig] /\ UNCHANGED <<utkast, rader, sletting>>
          BY DEF RundeSkriv
    <2>2. Ledig.steg = "ledig" /\ Ledig \in FType
          BY LedigType DEF Ledig
    <2>3. \A v \in Utkast : v # f[r].u => runde'[v] = runde[v]
          BY <1>4
    <2> QED BY <1>1, <2>1, <2>2, <2>3, ForespSteg
  <1>6. RundeOK(u)'
    <2>1. /\ utkast'[u] = utkast[u] /\ rader' = rader /\ f[r].p \in baser'
          BY DEF RundeSkriv
    <2> QED BY <1>1, <1>2, <1>4, <2>1 DEF RundeOK, Krav
  <1>7. RunderOK'
    <2>1. baser \cap rader \subseteq baser' \cap rader' /\ utkast' = utkast
          BY DEF RundeSkriv
    <2> QED BY <1>4, <1>6, <2>1, RundeStaaende DEF RunderOK
  <1>8. TypeOK'
    <2>1. baser' \subseteq Innhold \cup {Ingen}
          BY <1>1 DEF RundeSkriv, IInv, TypeOK
    <2> QED BY <1>4, <1>5, <2>1, TypeSamlet DEF RundeSkriv, IInv, TypeOK, UtkastType
  <1> QED BY <1>5, <1>7, <1>8 DEF IInv

LEMMA AttesterLesing ==
    ASSUME IInv, NEW r \in Foresp, NEW u \in Utkast, NEW b \in Bruker,
           AttesterLes(r, u, b)
    PROVE  IInv'
  <1> DEFINE x == [steg |-> "attest", u |-> u, b |-> b, authz |-> medlem[b].authz,
                   p |-> aktiv]
  <1>1. /\ f' = [f EXCEPT ![r] = x] /\ f[r].steg = "ledig"
        /\ Ulaast(u) /\ utkast[u].status = "validert" /\ Aapen(u)
        /\ UNCHANGED <<utkast, runde, baser, rader, aktiv, styrt, medlem, sletting>>
        BY DEF AttesterLes
  <1>2. u \notin sletting.holder
        BY <1>1 DEF Ulaast
  <1>3. /\ aktiv \in rader \cup {Ingen} /\ aktiv \in Innhold \cup {Ingen}
        /\ medlem[b].authz \in Nat
        BY DEF IInv, TypeOK
  <1>4. /\ x \in FType /\ x.steg = "attest" /\ x.u = u /\ x.b = b /\ x.p = aktiv
        BY <1>3 DEF FType
  <1> HIDE DEF x
  <1> QED BY <1>1, <1>2, <1>3, <1>4, LeseSteg

(* A request under way ends, and its draft and round may have changed.     *)
LEMMA Ender ==
    ASSUME IInv, NEW r \in Foresp, f[r].steg # "ledig", NEW u \in Utkast, u = f[r].u,
           f' = [f EXCEPT ![r] = Ledig],
           utkast' \in [Utkast -> UtkastType], runde' \in [Utkast -> Rundeposter],
           \A v \in Utkast \ {u} : utkast'[v] = utkast[v] /\ runde'[v] = runde[v],
           rader \subseteq rader', RundeOK(u)', UNCHANGED <<baser, sletting>>
    PROVE  f' \in [Foresp -> FType] /\ Eneste(f') /\ ForespOK' /\ RunderOK'
  <1>1. f' \in [Foresp -> FType] /\ Eneste(f') /\ ForespOK'
    <2>1. Ledig.steg = "ledig" /\ Ledig \in FType
          BY LedigType DEF Ledig
    <2>2. \A v \in Utkast : v # f[r].u => utkast'[v] = utkast[v] /\ runde'[v] = runde[v]
          OBVIOUS
    <2> QED BY <2>1, <2>2, ForespSteg
  <1>2. RunderOK'
        BY RundeStaaende DEF RunderOK
  <1> QED BY <1>1, <1>2

(* A change of the round alone that leaves it what it was about.           *)
LEMMA RundeEndret ==
    ASSUME IInv, NEW u \in Utkast, NEW y \in Rundeposter,
           y.base = runde[u].base, y.innhold = runde[u].innhold,
           y.krav = runde[u].krav, y.status = "apen" => Aapen(u),
           runde' = [runde EXCEPT ![u] = y], UNCHANGED <<utkast, baser, rader>>
    PROVE  /\ runde' \in [Utkast -> Rundeposter]
           /\ \A v \in Utkast \ {u} : runde'[v] = runde[v]
           /\ RundeOK(u)'
  <1>1. /\ runde' \in [Utkast -> Rundeposter] /\ runde'[u] = y
        /\ \A v \in Utkast \ {u} : runde'[v] = runde[v]
        BY DEF IInv, TypeOK
  <1>2. RundeOK(u)'
        BY <1>1 DEF IInv, RunderOK, RundeOK, Aapen, Krav
  <1> QED BY <1>1, <1>2

LEMMA AttesterSkriving ==
    ASSUME IInv, NEW r \in Foresp, AttesterSkriv(r), NEW u \in Utkast, u = f[r].u
    PROVE  IInv'
  <1>0. /\ f[r] \in FType /\ f[r].steg = "attest" /\ runde[u] \in Rundeposter
        /\ Aapen(u) /\ MedMin(r) \in [Bruker -> Nat \cup {Ingen}]
        /\ UNCHANGED <<utkast, baser, rader, aktiv, styrt, medlem, sletting>>
        BY MedMinType DEF AttesterSkriv, IInv, TypeOK, FType, ForespOK
  <1>1. CASE f' = [f EXCEPT ![r] = Ledig] /\ UNCHANGED runde
        BY <1>0, <1>1, LedigType, LeseSteg DEF Ledig
  <1>2. ASSUME NEW y \in Rundeposter, y.base = runde[u].base,
               y.innhold = runde[u].innhold, y.krav = runde[u].krav,
               f' = [f EXCEPT ![r] = Ledig], runde' = [runde EXCEPT ![u] = y]
        PROVE  IInv'
    <2>1. /\ runde' \in [Utkast -> Rundeposter] /\ RundeOK(u)'
          /\ \A v \in Utkast \ {u} : runde'[v] = runde[v]
          BY <1>0, <1>2, RundeEndret
    <2>2. utkast' \in [Utkast -> UtkastType]
          BY <1>0 DEF IInv, TypeOK, UtkastType
    <2>3. f' \in [Foresp -> FType] /\ Eneste(f') /\ ForespOK' /\ RunderOK'
          BY <1>0, <1>2, <2>1, <2>2, Ender
    <2>4. TypeOK'
          BY <1>0, <2>1, <2>2, <2>3, TypeSamlet DEF IInv, TypeOK
    <2> QED BY <2>3, <2>4 DEF IInv
  <1>3. CASE /\ f' = [f EXCEPT ![r] = Ledig]
             /\ runde' = [runde EXCEPT ![u].status = "kansellert"]
    <2> DEFINE y == [runde[u] EXCEPT !.status = "kansellert"]
    <2>1. /\ y \in Rundeposter /\ y.base = runde[u].base
          /\ y.innhold = runde[u].innhold /\ y.krav = runde[u].krav
          BY <1>0 DEF Rundeposter
    <2>2. runde' = [runde EXCEPT ![u] = y]
          BY <1>3
    <2> HIDE DEF y
    <2> QED BY <1>2, <1>3, <2>1, <2>2
  <1>4. CASE /\ f' = [f EXCEPT ![r] = Ledig]
             /\ runde' = [runde EXCEPT ![u].att = MedMin(r)]
    <2> DEFINE y == [runde[u] EXCEPT !.att = MedMin(r)]
    <2>1. /\ y \in Rundeposter /\ y.base = runde[u].base
          /\ y.innhold = runde[u].innhold /\ y.krav = runde[u].krav
          BY <1>0 DEF Rundeposter
    <2>2. runde' = [runde EXCEPT ![u] = y]
          BY <1>4
    <2> HIDE DEF y
    <2> QED BY <1>2, <1>4, <2>1, <2>2
  <1>5. CASE /\ f' = [f EXCEPT ![r].steg = "fullfor"] /\ UNCHANGED runde
             /\ Terskel(u, MedMin(r))
    <2>0. PICK x : x = [f[r] EXCEPT !.steg = "fullfor"]
          OBVIOUS
    <2>1. /\ x \in FType /\ x.steg = "fullfor" /\ x.u = u /\ x.p = f[r].p /\ x.b = f[r].b
          BY <1>0, <2>0 DEF FType
    <2>2. f' = [f EXCEPT ![r] = x]
          BY <1>5, <2>0
    <2>3. f'[r].u = u /\ f'[r].b = f[r].b /\ f'[r].authz = f[r].authz
          BY <1>0, <1>5 DEF IInv, TypeOK, FType
    <2>4. MedMin(r)' = MedMin(r)
          BY <1>5, <2>3 DEF MedMin
    <2>5. Terskel(x.u, MedMin(r))'
          BY <1>5, <2>1, <2>4 DEF Terskel, Signert
    <2>6. /\ u \notin sletting.holder /\ utkast[u].status = "validert"
          /\ f[r].p \in rader \cup {Ingen} /\ f[r].b \in Bruker
          BY <1>0 DEF IInv, ForespOK
    <2>7. /\ x.steg # "ledig" /\ f[r].steg # "ledig" /\ x.u = f[r].u
          /\ x.u \in Utkast \ sletting.holder /\ utkast[x.u].status = "validert"
          /\ x.p \in rader \cup {Ingen} /\ Aapen(x.u) /\ x.b \in Bruker
          BY <1>0, <2>1, <2>6
    <2>8. UNCHANGED <<utkast, runde, baser, rader, aktiv, styrt, medlem, sletting>>
          BY <1>0, <1>5
    <2>9. x \in FType
          BY <2>1
    <2> QED BY <2>2, <2>5, <2>7, <2>8, <2>9, LeseSteg
  <1> QED BY <1>1, <1>3, <1>4, <1>5 DEF AttesterSkriv

(* A document that is newer than the active one, of a version nobody has,  *)
(* comes into force.                                                       *)
LEMMA NyAktiv ==
    ASSUME IInv, NEW i \in Innhold, \A c \in rader : c.ver = i.ver => c = i,
           rader' = rader \cup {i}, aktiv' = i
    PROVE  /\ rader' \subseteq Innhold /\ aktiv' \in rader' \cup {Ingen}
           /\ \A c, d \in rader' : c.ver = d.ver => c = d
  BY DEF IInv, TypeOK

LEMMA AttesterFullforing ==
    ASSUME IInv, NEW r \in Foresp, AttesterFullfor(r), NEW u \in Utkast, u = f[r].u
    PROVE  IInv'
  <1>0. /\ f[r] \in FType /\ f[r].steg = "fullfor" /\ runde[u] \in Rundeposter
        /\ MedMin(r) \in [Bruker -> Nat \cup {Ingen}]
        /\ utkast[u] \in UtkastType /\ utkast[u].innhold \in Innhold
        /\ f' = [f EXCEPT ![r] = Ledig] /\ UNCHANGED <<baser, medlem, sletting>>
        /\ utkast[u].status = "validert"
        BY MedMinType DEF AttesterFullfor, IInv, TypeOK, FType, ForespOK, RunderOK,
                          RundeOK, UtkastType
  <1>1. CASE UNCHANGED <<utkast, runde, rader, aktiv, styrt>>
        BY <1>0, <1>1, LedigType, LeseSteg DEF Ledig
  <1>2. CASE /\ runde' = [runde EXCEPT ![u].status = "kansellert", ![u].att = MedMin(r)]
             /\ UNCHANGED <<utkast, rader, aktiv, styrt>>
    <2> DEFINE y == [runde[u] EXCEPT !.status = "kansellert", !.att = MedMin(r)]
    <2>1. /\ y \in Rundeposter /\ y.base = runde[u].base /\ y.status = "kansellert"
          /\ y.innhold = runde[u].innhold /\ y.krav = runde[u].krav
          BY <1>0 DEF Rundeposter
    <2>2. runde' = [runde EXCEPT ![u] = y]
          BY <1>2
    <2> HIDE DEF y
    <2>3. /\ runde' \in [Utkast -> Rundeposter] /\ RundeOK(u)'
          /\ \A v \in Utkast \ {u} : runde'[v] = runde[v]
          BY <1>0, <1>2, <2>1, <2>2, RundeEndret
    <2>4. utkast' \in [Utkast -> UtkastType]
          BY <1>2 DEF IInv, TypeOK, UtkastType
    <2>5. f' \in [Foresp -> FType] /\ Eneste(f') /\ ForespOK' /\ RunderOK'
          BY <1>0, <1>2, <2>3, <2>4, Ender
    <2>6. TypeOK'
          BY <1>0, <1>2, <2>3, <2>4, <2>5, TypeSamlet DEF IInv, TypeOK
    <2> QED BY <2>5, <2>6 DEF IInv
  <1>3. CASE /\ NyVersjon(utkast[u].innhold, aktiv)
             /\ rader' = rader \cup {utkast[u].innhold}
             /\ aktiv' = utkast[u].innhold /\ styrt' = TRUE
             /\ runde' = [runde EXCEPT ![u].status = "brukt", ![u].att = MedMin(r)]
             /\ utkast' = [utkast EXCEPT ![u].status = "aktivert"]
    <2> DEFINE y == [runde[u] EXCEPT !.status = "brukt", !.att = MedMin(r)]
               x == [utkast[u] EXCEPT !.status = "aktivert"]
    <2>1. /\ y \in Rundeposter /\ y.base = runde[u].base /\ y.status = "brukt"
          /\ x \in UtkastType /\ x.innhold \in Innhold /\ x.status = "aktivert"
          BY <1>0 DEF Rundeposter, UtkastType
    <2>2. runde' = [runde EXCEPT ![u] = y] /\ utkast' = [utkast EXCEPT ![u] = x]
          BY <1>3
    <2> HIDE DEF x, y
    <2>3. /\ runde' \in [Utkast -> Rundeposter] /\ utkast' \in [Utkast -> UtkastType]
          /\ runde'[u] = y /\ utkast'[u] = x
          /\ \A v \in Utkast \ {u} : runde'[v] = runde[v] /\ utkast'[v] = utkast[v]
          BY <2>1, <2>2 DEF IInv, TypeOK, UtkastType
    <2>4. RundeOK(u)'
          BY <1>0, <1>3, <2>1, <2>3 DEF IInv, RunderOK, RundeOK, Aapen
    <2>5. f' \in [Foresp -> FType] /\ Eneste(f') /\ ForespOK' /\ RunderOK'
          BY <1>0, <1>3, <2>3, <2>4, Ender
    <2>6. /\ rader' \subseteq Innhold /\ aktiv' \in rader' \cup {Ingen}
          /\ \A c, d \in rader' : c.ver = d.ver => c = d
          BY <1>0, <1>3, NyAktiv DEF NyVersjon
    <2>7. TypeOK'
          BY <1>0, <1>3, <2>3, <2>5, <2>6 DEF IInv, TypeOK, FType, Eneste, UtkastType
    <2> QED BY <2>5, <2>7 DEF IInv
  <1> QED BY <1>1, <1>2, <1>3 DEF AttesterFullfor

(* Steps that leave requests, drafts and rounds alone.                     *)
LEMMA Utenom ==
    ASSUME IInv, UNCHANGED <<utkast, runde, baser, f>>,
           rader \subseteq rader',
           \A r \in Foresp : f[r].steg # "ledig" => f[r].u \notin sletting'.holder
    PROVE  ForespOK' /\ RunderOK'
  <1>1. RunderOK'
        BY RundeStaaende DEF RunderOK
  <1>2. \A r \in Foresp : f[r].steg # "ledig" => f[r].p \in rader' \cup {Ingen}
        BY DEF IInv, ForespOK
  <1>3. ForespOK'
        BY <1>2, ForespStaar DEF ForespOK
  <1> QED BY <1>1, <1>3

LEMMA AndreSteg ==
    ASSUME IInv,
           \/ \E c \in Innhold : SlettStart(c)
           \/ \E u \in Utkast : SlettLaas(u)
           \/ SlettVent
           \/ \E i \in Oppsett : Registrer(i)
           \/ \E b \in Bruker : EndreMedlem(b)
           \/ UNCHANGED vars
    PROVE  IInv'
  <1>0. \A r \in Foresp : f[r].steg # "ledig" => f[r].u \notin sletting.holder
        BY DEF IInv, ForespOK
  <1>1. ASSUME NEW c \in Innhold, SlettStart(c) PROVE IInv'
    <2>1. sletting'.holder = {} /\ TypeOK'
          BY <1>1 DEF SlettStart, IInv, TypeOK
    <2> QED BY <1>1, <2>1, Utenom DEF SlettStart, IInv
  <1>2. ASSUME NEW u \in Utkast, SlettLaas(u) PROVE IInv'
    <2>1. sletting'.holder = sletting.holder \cup {u} /\ TypeOK'
          BY <1>2 DEF SlettLaas, IInv, TypeOK
    <2>2. \A r \in Foresp : f[r].steg # "ledig" => f[r].u \notin sletting'.holder
          BY <1>0, <1>2, <2>1 DEF SlettLaas, Ulaast
    <2> QED BY <1>2, <2>1, <2>2, Utenom DEF SlettLaas, IInv
  <1>3. CASE SlettVent
    <2>1. sletting'.holder = sletting.holder /\ TypeOK'
          BY <1>3 DEF SlettVent, IInv, TypeOK
    <2> QED BY <1>0, <1>3, <2>1, Utenom DEF SlettVent, IInv
  <1>4. ASSUME NEW i \in Oppsett, Registrer(i) PROVE IInv'
    <2>1. i \in Innhold
          BY PolicyadminAntakelse
    <2>2. /\ rader' \subseteq Innhold /\ aktiv' \in rader' \cup {Ingen}
          /\ \A c, d \in rader' : c.ver = d.ver => c = d
          BY <1>4, <2>1, NyAktiv DEF Registrer
    <2>3. TypeOK'
          BY <1>4, <2>2 DEF Registrer, IInv, TypeOK
    <2> QED BY <1>0, <1>4, <2>3, Utenom DEF Registrer, IInv
  <1>5. ASSUME NEW b \in Bruker, EndreMedlem(b) PROVE IInv'
    <2>1. TypeOK'
          BY <1>5 DEF EndreMedlem, IInv, TypeOK
    <2> QED BY <1>0, <1>5, <2>1, Utenom DEF EndreMedlem, IInv
  <1>6. CASE UNCHANGED vars
    <2>1. TypeOK'
          BY <1>6 DEF vars, IInv, TypeOK
    <2> QED BY <1>0, <1>6, <2>1, Utenom DEF vars, IInv
  <1> QED BY <1>1, <1>2, <1>3, <1>4, <1>5, <1>6

(* A deletion has the policy alone; the bases of rounds stay.              *)
LEMMA SlettSteg == IInv /\ Slett => IInv'
  <1> SUFFICES ASSUME IInv, Slett PROVE IInv'
      OBVIOUS
  <1>0. /\ \A r \in Foresp : f[r].steg = "ledig"
        /\ sletting' = IngenSletting /\ UNCHANGED <<utkast, baser, styrt, medlem, f>>
        BY DEF Slett, Deler
  <1>1. ForespOK'
        BY <1>0 DEF IInv, ForespOK
  <1>2. IngenSletting \in [steg: {"ledig", "rydd", "vent"}, liste: SUBSET Utkast,
                           holder: SUBSET Utkast, sett: Innhold \cup {Ingen}]
        BY DEF IngenSletting
  <1>3. CASE UNCHANGED <<aktiv, rader, runde>>
    <2>1. TypeOK'
          BY <1>0, <1>2, <1>3 DEF IInv, TypeOK
    <2>2. RunderOK'
          BY <1>0, <1>3, RundeStaaende DEF RunderOK
    <2> QED BY <1>1, <2>1, <2>2 DEF IInv
  <1>4. CASE /\ aktiv' = Ingen /\ rader' = rader \cap baser
             /\ runde' = [u \in Utkast |->
                   IF u \in sletting.holder /\ Aapen(u) THEN Lukket(u) ELSE runde[u]]
    <2>1. \A u \in Utkast : runde[u] \in Rundeposter
          BY DEF IInv, TypeOK
    <2>2. ASSUME NEW u \in Utkast
          PROVE  /\ Lukket(u) \in Rundeposter /\ Lukket(u).base = runde[u].base
                 /\ Lukket(u).status # "apen"
      <3>1. CASE runde[u].forfalt
        <4>1. Lukket(u) = [runde[u] EXCEPT !.status = "utlopt"]
              BY <3>1 DEF Lukket
        <4> QED BY <2>1, <4>1 DEF Rundeposter
      <3>2. CASE ~runde[u].forfalt
        <4>1. Lukket(u) = [runde[u] EXCEPT !.status = "kansellert"]
              BY <3>2 DEF Lukket
        <4> QED BY <2>1, <4>1 DEF Rundeposter
      <3> QED BY <3>1, <3>2
    <2>3. runde' \in [Utkast -> Rundeposter]
          BY <1>4, <2>1, <2>2
    <2>4. TypeOK'
          BY <1>0, <1>2, <1>4, <2>3 DEF IInv, TypeOK
    <2>5. ASSUME NEW u \in Utkast PROVE RundeOK(u)'
      <3>1. CASE u \in sletting.holder /\ Aapen(u)
        <4>1. runde'[u] = Lukket(u)
              BY <1>4, <3>1
        <4> QED BY <1>0, <1>4, <2>2, <4>1 DEF IInv, RunderOK, RundeOK, Aapen
      <3>2. CASE ~(u \in sletting.holder /\ Aapen(u))
        <4>1. runde'[u] = runde[u]
              BY <1>4, <3>2
        <4> QED BY <1>0, <1>4, <4>1, RundeStaaende
      <3> QED BY <3>1, <3>2
    <2> QED BY <1>1, <2>4, <2>5 DEF IInv, RunderOK
  <1> QED BY <1>3, <1>4 DEF Slett

LEMMA ForfallSteg ==
    ASSUME IInv, NEW u \in Utkast, Forfall(u)
    PROVE  IInv'
  <1> DEFINE y == [runde[u] EXCEPT !.forfalt = TRUE]
  <1>1. /\ y \in Rundeposter /\ y.base = runde[u].base /\ y.status = runde[u].status
        /\ y.innhold = runde[u].innhold /\ y.krav = runde[u].krav /\ y.att = runde[u].att
    <2>1. runde[u] \in Rundeposter
          BY DEF IInv, TypeOK
    <2> QED BY <2>1 DEF Rundeposter
  <1>2. runde' = [runde EXCEPT ![u] = y]
        BY DEF Forfall
  <1> HIDE DEF y
  <1>3. /\ runde' \in [Utkast -> Rundeposter] /\ runde'[u] = y /\ RundeOK(u)'
        /\ \A v \in Utkast \ {u} : runde'[v] = runde[v]
        /\ UNCHANGED <<utkast, baser, rader, aktiv, styrt, medlem, f, sletting>>
        BY <1>1, <1>2, RundeEndret DEF Forfall, Aapen, IInv, TypeOK
  <1>4. TypeOK'
        BY <1>3 DEF IInv, TypeOK
  <1>5. RunderOK'
        BY <1>3, RundeStaaende DEF RunderOK
  <1>6. ForespOK'
    <2> SUFFICES ASSUME NEW r \in Foresp, f[r].steg # "ledig"
                 PROVE  /\ Aapen(f[r].u)' <=> Aapen(f[r].u)
                        /\ Terskel(f[r].u, MedMin(r)) => Terskel(f[r].u, MedMin(r))'
        BY <1>3 DEF IInv, ForespOK
    <2>1. f[r].u \in Utkast
          BY DEF IInv, ForespOK
    <2>2. /\ runde'[f[r].u].status = runde[f[r].u].status
          /\ runde'[f[r].u].krav = runde[f[r].u].krav
          /\ runde'[f[r].u].att = runde[f[r].u].att
          BY <1>1, <1>3, <2>1
    <2>3. MedMin(r)' = MedMin(r) /\ (Aapen(f[r].u)' <=> Aapen(f[r].u))
          BY <1>3, <2>2 DEF MedMin, Aapen
    <2> QED BY <1>3, <2>2, <2>3 DEF Terskel, Signert
  <1> QED BY <1>4, <1>5, <1>6 DEF IInv

LEMMA IInvSteg == IInv /\ [Next]_vars => IInv'
  <1> SUFFICES ASSUME IInv, [Next]_vars PROVE IInv'
      OBVIOUS
  <1>1. ASSUME NEW r \in Foresp, f[r].steg # "ledig" PROVE f[r].u \in Utkast
        BY <1>1 DEF IInv, ForespOK
  <1>2. ASSUME NEW r \in Foresp,
               RundeSkriv(r) \/ AttesterSkriv(r) \/ AttesterFullfor(r)
        PROVE  IInv'
        BY <1>1, <1>2, RundeAapning, AttesterSkriving, AttesterFullforing
        DEF RundeSkriv, AttesterSkriv, AttesterFullfor
  <1> QED BY <1>2, UtkastAlene, RundeLesing, AttesterLesing, AndreSteg, SlettSteg,
             ForfallSteg DEF Next

LEMMA Invariant == Spec => []IInv
  BY InitOK, IInvSteg, PTL DEF Spec

(* The state stays well typed: a version number has one document, the      *)
(* active one is there, and no two requests hold the same draft.           *)
THEOREM Typekorrekt == Spec => []TypeOK
  <1>1. IInv => TypeOK
        BY DEF IInv
  <1> QED BY <1>1, Invariant, PTL

(* An open round is about a draft still put forward, with the content that *)
(* was frozen, and its base can be read, whatever is reopened, discarded   *)
(* or deleted meanwhile: the draft's row is locked first by all, and the   *)
(* policy's lock keeps a deletion away from who opens a round.             *)
THEOREM RunderStaar == Spec => []RundeStaar
  <1>1. IInv => RundeStaar
        BY DEF IInv, RunderOK, RundeOK, RundeStaar
  <1> QED BY <1>1, Invariant, PTL

-----------------------------------------------------------------------------
(* What comes into force.                                                  *)

(* Of one draft's round: it is not being used up, or it is attested.       *)
Riktig(u) == runde[u].status # "brukt" /\ runde'[u].status = "brukt" => Attestert(u)

LEMMA StatusStaar ==
    ASSUME IInv, NEW u \in Utkast, NEW y,
           y.status = "brukt" => runde[u].status = "brukt",
           runde' = [runde EXCEPT ![u] = y]
    PROVE  \A v \in Utkast : Riktig(v)
  <1>1. runde'[u] = y /\ \A v \in Utkast \ {u} : runde'[v] = runde[v]
        BY DEF IInv, TypeOK
  <1> QED BY <1>1 DEF Riktig

(* At the threshold: the policy has not moved under the request, and what  *)
(* was signed is what the round froze.                                     *)
LEMMA Ikraft ==
    ASSUME IInv, NEW r \in Foresp, AttesterFullfor(r), NEW u \in Utkast, u = f[r].u
    PROVE  /\ \A v \in Utkast : Riktig(v)
           /\ aktiv' = aktiv \/ Attestert(u)
  <1>0. /\ runde[u] \in Rundeposter /\ Aapen(u) /\ Terskel(u, MedMin(r))
        /\ runde[u].krav = Krav(runde[u].base, runde[u].innhold)
        /\ MedMin(r) \in [Bruker -> Nat \cup {Ingen}]
        BY MedMinType DEF AttesterFullfor, IInv, TypeOK, ForespOK, RunderOK, RundeOK
  <1>1. CASE UNCHANGED <<utkast, runde, rader, aktiv, styrt>>
        BY <1>1 DEF Riktig
  <1>2. CASE /\ runde' = [runde EXCEPT ![u].status = "kansellert", ![u].att = MedMin(r)]
             /\ UNCHANGED <<utkast, rader, aktiv, styrt>>
    <2> DEFINE y == [runde[u] EXCEPT !.status = "kansellert", !.att = MedMin(r)]
    <2>1. y.status = "kansellert"
          BY <1>0 DEF Rundeposter
    <2>2. runde' = [runde EXCEPT ![u] = y]
          BY <1>2
    <2> HIDE DEF y
    <2> QED BY <1>2, <2>1, <2>2, StatusStaar
  <1>3. CASE /\ FortsattMed(MedMin(r)) /\ SammeDiff(r) /\ aktiv = f[r].p
             /\ aktiv' = utkast[u].innhold
             /\ runde' = [runde EXCEPT ![u].status = "brukt", ![u].att = MedMin(r)]
    <2> DEFINE y == [runde[u] EXCEPT !.status = "brukt", !.att = MedMin(r)]
    <2>1. y.status = "brukt" /\ y.att = MedMin(r)
          BY <1>0 DEF Rundeposter
    <2>2. runde' = [runde EXCEPT ![u] = y]
          BY <1>3
    <2> HIDE DEF y
    <2>3. /\ runde'[u].status = "brukt" /\ runde'[u].att = MedMin(r)
          /\ \A v \in Utkast \ {u} : runde'[v] = runde[v]
          BY <2>1, <2>2 DEF IInv, TypeOK
    <2>4. runde[u].innhold = aktiv' /\ runde[u].base = aktiv
          BY <1>3 DEF SammeDiff
    <2>5. /\ Cardinality(Signert(MedMin(r))) >= Krav(aktiv, aktiv')
          /\ Signert(MedMin(r)) # {Forfatter[u]}
          BY <1>0, <2>4 DEF Terskel
    <2>6. Signert(MedMin(r)) # {}
          BY <2>5, FS_EmptySet DEF Krav
    <2>7. Signert(MedMin(r)) \ {Forfatter[u]} # {}
          BY <2>5, <2>6
    <2>8. Attestert(u)
          BY <1>0, <1>3, <2>3, <2>4, <2>5, <2>7 DEF Attestert, FortsattMed
    <2> QED BY <2>3, <2>8 DEF Riktig
  <1> QED BY <1>1, <1>2, <1>3 DEF AttesterFullfor

(* A round that is withdrawn is not used up.                               *)
LEMMA Trukket ==
    ASSUME IInv, NEW u \in Utkast
    PROVE  Lukket(u).status \in {"utlopt", "kansellert"}
  <1>1. runde[u] \in Rundeposter
        BY DEF IInv, TypeOK
  <1> QED BY <1>1 DEF Rundeposter, Lukket

(* Signing is not using up.                                                *)
LEMMA SkrivStaar ==
    ASSUME IInv, NEW r \in Foresp, AttesterSkriv(r), NEW u \in Utkast, u = f[r].u
    PROVE  \A v \in Utkast : Riktig(v)
  <1>1. runde[u] \in Rundeposter /\ Aapen(u)
        BY DEF AttesterSkriv, IInv, TypeOK, ForespOK
  <1>2. CASE UNCHANGED runde
        BY <1>2 DEF Riktig
  <1>3. CASE runde' = [runde EXCEPT ![u].status = "kansellert"]
    <2> DEFINE y == [runde[u] EXCEPT !.status = "kansellert"]
    <2>1. y.status = "kansellert" /\ runde' = [runde EXCEPT ![u] = y]
          BY <1>1, <1>3 DEF Rundeposter
    <2> HIDE DEF y
    <2> QED BY <2>1, StatusStaar
  <1>4. CASE runde' = [runde EXCEPT ![u].att = MedMin(r)]
    <2> DEFINE y == [runde[u] EXCEPT !.att = MedMin(r)]
    <2>1. y.status = runde[u].status /\ runde' = [runde EXCEPT ![u] = y]
          BY <1>1, <1>4 DEF Rundeposter
    <2> HIDE DEF y
    <2> QED BY <2>1, StatusStaar
  <1> QED BY <1>2, <1>3, <1>4 DEF AttesterSkriv

(* What is withdrawn, opened or past its time leaves the active policy.    *)
LEMMA RundeAlene ==
    ASSUME IInv,
           \/ \E u \in Utkast : Gjenapne(u) \/ Forkast(u) \/ Forfall(u)
           \/ \E r \in Foresp : RundeSkriv(r)
    PROVE  aktiv' = aktiv /\ \A v \in Utkast : Riktig(v)
  <1>1. ASSUME NEW u \in Utkast, Gjenapne(u) \/ Forkast(u)
        PROVE  aktiv' = aktiv /\ \A v \in Utkast : Riktig(v)
    <2>1. CASE UNCHANGED runde
          BY <1>1, <2>1 DEF Gjenapne, Forkast, Riktig
    <2>2. CASE runde' = [runde EXCEPT ![u] = Lukket(u)]
          BY <1>1, <2>2, Trukket, StatusStaar DEF Gjenapne, Forkast
    <2> QED BY <1>1, <2>1, <2>2 DEF Gjenapne, Forkast, TrekkRunde
  <1>2. ASSUME NEW u \in Utkast, Forfall(u)
        PROVE  aktiv' = aktiv /\ \A v \in Utkast : Riktig(v)
    <2> DEFINE y == [runde[u] EXCEPT !.forfalt = TRUE]
    <2>1. runde[u] \in Rundeposter
          BY DEF IInv, TypeOK
    <2>2. y.status = runde[u].status /\ runde' = [runde EXCEPT ![u] = y]
          BY <1>2, <2>1 DEF Rundeposter, Forfall
    <2> HIDE DEF y
    <2> QED BY <1>2, <2>2, StatusStaar DEF Forfall
  <1>3. ASSUME NEW r \in Foresp, RundeSkriv(r)
        PROVE  aktiv' = aktiv /\ \A v \in Utkast : Riktig(v)
    <2>1. PICK u \in Utkast : u = f[r].u
          BY <1>3 DEF RundeSkriv, IInv, ForespOK
    <2> QED BY <1>3, <2>1, StatusStaar DEF RundeSkriv
  <1> QED BY <1>1, <1>2, <1>3

LEMMA SlettTar ==
    ASSUME IInv, Slett
    PROVE  aktiv' \in {aktiv, Ingen} /\ \A v \in Utkast : Riktig(v)
  BY Trukket DEF Slett, Riktig

LEMMA AttestertSteg ==
    ASSUME IInv, [Next]_vars
    PROVE  /\ aktiv' \notin {aktiv, Ingen} /\ styrt' => \E u \in Utkast : Attestert(u)
           /\ \A u \in Utkast : Riktig(u)
  <1>1. CASE UNCHANGED <<runde, aktiv>>
        BY <1>1 DEF Riktig
  <1>2. ASSUME NEW r \in Foresp, AttesterSkriv(r) \/ AttesterFullfor(r)
        PROVE  /\ aktiv' # aktiv => \E u \in Utkast : Attestert(u)
               /\ \A u \in Utkast : Riktig(u)
    <2>1. PICK u \in Utkast : u = f[r].u
          BY <1>2 DEF AttesterSkriv, AttesterFullfor, IInv, ForespOK
    <2> QED BY <1>2, <2>1, SkrivStaar, Ikraft DEF AttesterSkriv
  <1>3. ASSUME NEW i \in Oppsett, Registrer(i)
        PROVE  ~styrt' /\ \A u \in Utkast : Riktig(u)
        BY <1>3 DEF Registrer, Riktig
  <1>4. ASSUME NEW u \in Utkast,
               \/ \E i \in Forslag[u] : OpprettUtkast(u, i) \/ Rediger(u, i)
               \/ Valider(u) \/ SlettLaas(u)
        PROVE  UNCHANGED <<runde, aktiv>>
        BY <1>4 DEF OpprettUtkast, Rediger, Valider, SlettLaas
  <1>5. ASSUME NEW r \in Foresp,
               \/ \E u \in Utkast : \/ RundeLes(r, u)
                                    \/ \E b \in Bruker : AttesterLes(r, u, b)
               \/ RundeSjekk(r) \/ Feil(r)
        PROVE  UNCHANGED <<runde, aktiv>>
        BY <1>5 DEF RundeLes, AttesterLes, RundeSjekk, Feil
  <1>6. ASSUME \/ \E c \in Innhold : SlettStart(c)
               \/ SlettVent
               \/ \E b \in Bruker : EndreMedlem(b)
               \/ UNCHANGED vars
        PROVE  UNCHANGED <<runde, aktiv>>
        BY <1>6 DEF SlettStart, SlettVent, EndreMedlem, vars
  <1> QED BY <1>1, <1>2, <1>3, <1>4, <1>5, <1>6, RundeAlene, SlettTar DEF Next

(* What comes into force after the first activation through a round is     *)
(* exactly what enough people signed, one of them not the author, with the *)
(* authority they still have, and as a change of what it replaces: the     *)
(* recomputed diff and the pointer under aktiver_policy's lock see to it,  *)
(* whatever was edited, deleted or registered since the round was opened.  *)
THEOREM AktivertAttestert == Spec => AktivertErAttestert
  <1>1. IInv /\ [Next]_vars =>
           [/\ aktiv' \notin {aktiv, Ingen} /\ styrt' => \E u \in Utkast : Attestert(u)
            /\ \A u \in Utkast :
                 runde[u].status # "brukt" /\ runde'[u].status = "brukt"
                 => Attestert(u)]_vars
        BY AttestertSteg DEF Riktig
  <1> QED BY <1>1, Invariant, PTL DEF Spec, AktivertErAttestert
=============================================================================
