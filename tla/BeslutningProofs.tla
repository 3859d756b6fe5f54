-------------------------- MODULE BeslutningProofs --------------------------
(* Theorems about the decision endpoint, for any number of requests, keys, *)
(* attestations, groups and policy versions.                               *)
EXTENDS Beslutning, FiniteSetTheorems, TLAPS

-----------------------------------------------------------------------------
(* Types, and what a request holds at each step.                           *)

(* A request carries what it came with, from the policy step on a policy,  *)
(* and a reservation only under a limit.                                   *)
ForespOK(x) ==
    /\ x \in Foresp
    /\ x.steg # "ledig" => x.nokkel \in Nokkel /\ x.hendelse \in Hendelser
    /\ x.steg \in {"jti", "motor", "frek", "tell"} => x.pol \in Versjon
    /\ x.steg \in {"frek", "tell"} => Maks[x.pol] \in Nat
    /\ x.steg = "avslutt" => x.dom \in Utfall
    /\ x.reservert => /\ x.steg = "avslutt" /\ x.pol \in Versjon
                      /\ Maks[x.pol] \in Nat /\ x.dom = "TILLAT"

Inne == Steg \ {"ledig", "sendt"}

TypeInv == TypeOK /\ \A r \in Forsp : ForespOK(f[r])

LEMMA TomOK == ForespOK(Tom) /\ Tom.steg = "ledig"
  BY BeslutningAntakelse DEF ForespOK, Tom, Foresp, Steg

(* Replacing a request by a well-formed one.                               *)
LEMMA NyForesp ==
    ASSUME TypeInv, NEW r \in Forsp, NEW x, ForespOK(x),
           f' = [f EXCEPT ![r] = x]
    PROVE  f' \in [Forsp -> Foresp] /\ \A q \in Forsp : ForespOK(f'[q])
  BY DEF TypeInv, TypeOK, ForespOK

(* Ending a transaction.                                                   *)
LEMMA SlippType ==
    ASSUME TypeInv, NEW r \in Forsp, Slipp(r)
    PROVE  /\ f' \in [Forsp -> Foresp] /\ \A q \in Forsp : ForespOK(f'[q])
           /\ laas' \in [Forsp -> SUBSET Laas]
           /\ \A q \in Forsp : f'[q].steg = "ledig" => laas'[q] = {}
  <1>1. f' \in [Forsp -> Foresp] /\ \A q \in Forsp : ForespOK(f'[q])
        BY TomOK, NyForesp DEF Slipp
  <1>2. laas' \in [Forsp -> SUBSET Laas]
        BY DEF Slipp, TypeInv, TypeOK
  <1>3. \A q \in Forsp : f'[q].steg = "ledig" => laas'[q] = {}
        BY DEF Slipp, TypeInv, TypeOK
  <1> QED BY <1>1, <1>2, <1>3

(* Going on with a request that stays under way, with more locks or not.   *)
LEMMA VidereType ==
    ASSUME TypeInv, NEW r \in Forsp, NEW x, ForespOK(x), x.steg # "ledig",
           f' = [f EXCEPT ![r] = x],
           NEW l \in SUBSET Laas, laas' = [laas EXCEPT ![r] = @ \cup l]
    PROVE  /\ f' \in [Forsp -> Foresp] /\ \A q \in Forsp : ForespOK(f'[q])
           /\ laas' \in [Forsp -> SUBSET Laas]
           /\ \A q \in Forsp : f'[q].steg = "ledig" => laas'[q] = {}
  <1>1. f' \in [Forsp -> Foresp] /\ \A q \in Forsp : ForespOK(f'[q])
        BY NyForesp
  <1>2. laas' \in [Forsp -> SUBSET Laas]
        BY DEF TypeInv, TypeOK
  <1>3. \A q \in Forsp : f'[q].steg = "ledig" => laas'[q] = {}
        BY DEF TypeInv, TypeOK
  <1> QED BY <1>1, <1>2, <1>3

(* The same without a lock.                                                *)
LEMMA StegType ==
    ASSUME TypeInv, NEW r \in Forsp, NEW x, ForespOK(x), x.steg # "ledig",
           f' = [f EXCEPT ![r] = x], UNCHANGED laas
    PROVE  /\ f' \in [Forsp -> Foresp] /\ \A q \in Forsp : ForespOK(f'[q])
           /\ laas' \in [Forsp -> SUBSET Laas]
           /\ \A q \in Forsp : f'[q].steg = "ledig" => laas'[q] = {}
  <1>1. laas' = [laas EXCEPT ![r] = @ \cup {}]
        BY DEF TypeInv, TypeOK
  <1>2. {} \in SUBSET Laas
        OBVIOUS
  <1> QED BY <1>1, <1>2, VidereType

(* The locks there are.                                                    *)
LEMMA LaasType ==
    ASSUME TypeInv, NEW r \in Forsp, f[r].steg # "ledig"
    PROVE  /\ {<<"idem", f[r].nokkel>>} \in SUBSET Laas
           /\ {<<"frek", f[r].hendelse.gruppe>>} \in SUBSET Laas
           /\ f[r].hendelse.jti \subseteq Jti
           /\ \A j \in Jti : {<<"jti", j>>} \in SUBSET Laas
  <1>1. f[r].nokkel \in Nokkel /\ f[r].hendelse \in Hendelse
        BY HendelserAntakelse DEF TypeInv, ForespOK
  <1>2. f[r].hendelse.gruppe \in Gruppe /\ f[r].hendelse.jti \subseteq Jti
        BY <1>1 DEF Hendelse
  <1> QED BY <1>1, <1>2 DEF Laas

LEMMA InitType == Init => TypeInv
  <1> SUFFICES ASSUME Init PROVE TypeInv
      OBVIOUS
  <1>1. \A r \in Forsp : ForespOK(f[r])
        BY TomOK DEF Init
  <1>2. TypeOK
        BY <1>1, BeslutningAntakelse DEF Init, TypeOK, ForespOK
  <1> QED BY <1>1, <1>2 DEF TypeInv

(* Every step keeps the types, one case per action.                        *)
LEMMA TypeSteg == TypeInv /\ [Next]_vars => TypeInv'
  <1> SUFFICES ASSUME TypeInv, [Next]_vars PROVE TypeInv'
      OBVIOUS
  <1> USE DEF TypeInv
  <1>0. \A r \in Forsp : ForespOK(f[r]) /\ f[r] \in Foresp
        BY DEF ForespOK
  <1>1. ASSUME NEW r \in Forsp, NEW k \in Nokkel, NEW h \in Hendelser, Send(r, k, h)
        PROVE  TypeInv'
    <2> DEFINE x == [Tom EXCEPT !.steg = "sendt", !.nokkel = k, !.hendelse = h,
                                !.naa = naa]
    <2>1. ForespOK(x) /\ x.steg # "ledig"
          BY BeslutningAntakelse DEF ForespOK, Tom, Foresp, Steg, TypeOK
    <2>2. f' = [f EXCEPT ![r] = x] /\ UNCHANGED laas
          BY <1>1 DEF Send
    <2> HIDE DEF x
    <2> QED BY <1>1, <2>1, <2>2, StegType DEF Send, TypeOK
  <1>2. ASSUME NEW r \in Forsp, Krev(r) PROVE TypeInv'
    <2>1. CASE Slipp(r)
          BY <1>2, <2>1, SlippType DEF Krev, TypeOK
    <2>2. CASE Ta(r, <<"idem", f[r].nokkel>>) /\ Videre(r, "port")
      <3> DEFINE x == [f[r] EXCEPT !.steg = "port"]
      <3>1. ForespOK(x) /\ x.steg # "ledig"
            BY <1>0, <1>2 DEF ForespOK, Foresp, Steg, Krev
      <3>2. f' = [f EXCEPT ![r] = x]
            BY <2>2 DEF Videre
      <3>3. {<<"idem", f[r].nokkel>>} \in SUBSET Laas
            BY <1>2, LaasType DEF Krev
      <3> HIDE DEF x
      <3> QED BY <1>2, <2>2, <3>1, <3>2, <3>3, VidereType DEF Ta, Krev, TypeOK
    <2> QED BY <1>2, <2>1, <2>2 DEF Krev
  <1>3. ASSUME NEW r \in Forsp, Attestasjonsport(r) PROVE TypeInv'
    <2>1. \E x : ForespOK(x) /\ x.steg # "ledig" /\ f' = [f EXCEPT ![r] = x]
      <3>1. CASE Videre(r, "policy")
        <4> DEFINE x == [f[r] EXCEPT !.steg = "policy"]
        <4>1. ForespOK(x) /\ x.steg # "ledig"
              BY <1>0, <1>3 DEF ForespOK, Foresp, Steg, Attestasjonsport
        <4> QED BY <3>1, <4>1 DEF Videre
      <3>2. CASE Portstopp(r, Ingen)
        <4> DEFINE x == [f[r] EXCEPT !.steg = "avslutt", !.pol = Ingen, !.dom = "STOPP"]
        <4>1. ForespOK(x) /\ x.steg # "ledig"
              BY <1>0, <1>3 DEF ForespOK, Foresp, Steg, Utfall, Attestasjonsport
        <4> QED BY <3>2, <4>1 DEF Portstopp
      <3> QED BY <1>3, <3>1, <3>2 DEF Attestasjonsport
    <2> QED BY <1>3, <2>1, StegType DEF Attestasjonsport, TypeOK
  <1>4. ASSUME NEW r \in Forsp, HentAktiv(r) PROVE TypeInv'
    <2>1. CASE Slipp(r)
          BY <1>4, <2>1, SlippType DEF HentAktiv, TypeOK
    <2>2. CASE Portstopp(r, Ingen) /\ UNCHANGED laas
      <3> DEFINE x == [f[r] EXCEPT !.steg = "avslutt", !.pol = Ingen, !.dom = "STOPP"]
      <3>1. ForespOK(x) /\ x.steg # "ledig"
            BY <1>0, <1>4 DEF ForespOK, Foresp, Steg, Utfall, HentAktiv
      <3>2. f' = [f EXCEPT ![r] = x]
            BY <2>2 DEF Portstopp
      <3> HIDE DEF x
      <3> QED BY <1>4, <2>2, <3>1, <3>2, StegType DEF HentAktiv, TypeOK
    <2>3. CASE /\ aktiv \in Versjon \ Korrupt /\ UNCHANGED laas
               /\ f' = [f EXCEPT ![r].pol = aktiv,
                    ![r].steg = IF aktiv \in Irreversibel THEN "jti" ELSE "motor"]
      <3> DEFINE x == [f[r] EXCEPT !.pol = aktiv,
                         !.steg = IF aktiv \in Irreversibel THEN "jti" ELSE "motor"]
      <3>1. ForespOK(x) /\ x.steg # "ledig"
            BY <1>0, <1>4, <2>3 DEF ForespOK, Foresp, Steg, HentAktiv
      <3>2. f' = [f EXCEPT ![r] = x]
            BY <2>3
      <3> HIDE DEF x
      <3> QED BY <1>4, <2>3, <3>1, <3>2, StegType DEF HentAktiv, TypeOK
    <2> QED BY <1>4, <2>1, <2>2, <2>3 DEF HentAktiv
  <1>5. ASSUME NEW r \in Forsp, NEW j \in Jti, JtiLaas(r, j) PROVE TypeInv'
    <2>1. {<<"jti", j>>} \in SUBSET Laas
          BY <1>5, LaasType DEF JtiLaas
    <2>2. f' = [f EXCEPT ![r] = f[r]] /\ f[r].steg # "ledig"
          BY <1>5 DEF JtiLaas, TypeOK
    <2> QED BY <1>0, <1>5, <2>1, <2>2, VidereType DEF JtiLaas, Ta, TypeOK
  <1>6. ASSUME NEW r \in Forsp, JtiSjekk(r) PROVE TypeInv'
    <2>1. \E x : ForespOK(x) /\ x.steg # "ledig" /\ f' = [f EXCEPT ![r] = x]
      <3>1. CASE Videre(r, "motor")
        <4> DEFINE x == [f[r] EXCEPT !.steg = "motor"]
        <4>1. ForespOK(x) /\ x.steg # "ledig"
              BY <1>0, <1>6 DEF ForespOK, Foresp, Steg, JtiSjekk
        <4> QED BY <3>1, <4>1 DEF Videre
      <3>2. CASE Portstopp(r, f[r].pol)
        <4> DEFINE x == [f[r] EXCEPT !.steg = "avslutt", !.pol = f[r].pol, !.dom = "STOPP"]
        <4>1. ForespOK(x) /\ x.steg # "ledig"
              BY <1>0, <1>6 DEF ForespOK, Foresp, Steg, Utfall, JtiSjekk
        <4> QED BY <3>2, <4>1 DEF Portstopp
      <3> QED BY <1>6, <3>1, <3>2 DEF JtiSjekk
    <2> QED BY <1>6, <2>1, StegType DEF JtiSjekk, TypeOK
  <1>7. ASSUME NEW r \in Forsp, Motor(r) PROVE TypeInv'
    <2>1. \E x : ForespOK(x) /\ x.steg # "ledig" /\ f' = [f EXCEPT ![r] = x]
      <3>1. CASE Grense(r) # Ingen /\ Videre(r, "frek")
        <4> DEFINE x == [f[r] EXCEPT !.steg = "frek"]
        <4>1. ForespOK(x) /\ x.steg # "ledig"
              BY <1>0, <1>7, <3>1, BeslutningAntakelse
              DEF ForespOK, Foresp, Steg, Motor, Grense
        <4> QED BY <3>1, <4>1 DEF Videre
      <3>2. CASE \E u \in Utfall : f' = [f EXCEPT ![r].steg = "avslutt", ![r].dom = u]
        <4>1. PICK u \in Utfall : f' = [f EXCEPT ![r].steg = "avslutt", ![r].dom = u]
              BY <3>2
        <4> DEFINE x == [f[r] EXCEPT !.steg = "avslutt", !.dom = u]
        <4>2. ForespOK(x) /\ x.steg # "ledig"
              BY <1>0, <1>7 DEF ForespOK, Foresp, Steg, Motor
        <4> QED BY <4>1, <4>2
      <3> QED BY <1>7, <3>1, <3>2 DEF Motor
    <2> QED BY <1>7, <2>1, StegType DEF Motor, TypeOK
  <1>8. ASSUME NEW r \in Forsp, FrekLaas(r) PROVE TypeInv'
    <2> DEFINE x == [f[r] EXCEPT !.steg = "tell"]
    <2>1. ForespOK(x) /\ x.steg # "ledig"
          BY <1>0, <1>8 DEF ForespOK, Foresp, Steg, FrekLaas
    <2>2. f' = [f EXCEPT ![r] = x]
          BY <1>8 DEF FrekLaas, Videre
    <2>3. {<<"frek", f[r].hendelse.gruppe>>} \in SUBSET Laas
          BY <1>8, LaasType DEF FrekLaas
    <2> HIDE DEF x
    <2> QED BY <1>8, <2>1, <2>2, <2>3, VidereType DEF Ta, FrekLaas, TypeOK
  <1>9. ASSUME NEW r \in Forsp, Reserver(r) PROVE TypeInv'
    <2>1. \E x : ForespOK(x) /\ x.steg # "ledig" /\ f' = [f EXCEPT ![r] = x]
      <3>1. CASE f' = [f EXCEPT ![r].steg = "avslutt", ![r].dom = "TILLAT",
                                ![r].reservert = TRUE]
        <4> DEFINE x == [f[r] EXCEPT !.steg = "avslutt", !.dom = "TILLAT",
                                     !.reservert = TRUE]
        <4>1. ForespOK(x) /\ x.steg # "ledig"
              BY <1>0, <1>9 DEF ForespOK, Foresp, Steg, Utfall, Reserver
        <4> QED BY <3>1, <4>1
      <3>2. CASE \E u \in {"STOPP", "UNNTAK"} :
                    f' = [f EXCEPT ![r].steg = "avslutt", ![r].dom = u]
        <4>1. PICK u \in {"STOPP", "UNNTAK"} :
                    f' = [f EXCEPT ![r].steg = "avslutt", ![r].dom = u]
              BY <3>2
        <4> DEFINE x == [f[r] EXCEPT !.steg = "avslutt", !.dom = u]
        <4>2. ForespOK(x) /\ x.steg # "ledig"
              BY <1>0, <1>9 DEF ForespOK, Foresp, Steg, Utfall, Reserver
        <4> QED BY <4>1, <4>2
      <3> QED BY <1>9, <3>1, <3>2 DEF Reserver
    <2> QED BY <1>9, <2>1, StegType DEF Reserver, TypeOK
  <1>10. ASSUME NEW r \in Forsp, Avslutt(r) PROVE TypeInv'
    <2>1. /\ f[r].nokkel \in Nokkel /\ f[r].hendelse \in Hendelser
          /\ f[r].dom \in Utfall /\ f[r].pol \in Versjon \cup {Ingen}
          /\ f[r].naa \in Nat
          BY <1>0, <1>10 DEF Avslutt, ForespOK, Foresp
    <2>2. f[r].hendelse.gruppe \in Gruppe /\ f[r].hendelse.jti \subseteq Jti
          BY <2>1, HendelserAntakelse DEF Hendelse
    <2>3. logg' \in Seq(Post)
          BY <1>10, <2>1 DEF Avslutt, Post, TypeOK
    <2>4. frek' \in Seq([gruppe: Gruppe, naa: Nat, maks: Nat])
      <3>1. f[r].reservert => Grense(r) \in Nat
            BY <1>0 DEF ForespOK, Grense
      <3> DEFINE plass == [gruppe |-> f[r].hendelse.gruppe, naa |-> f[r].naa,
                           maks |-> Grense(r)]
      <3>2. frek' = IF f[r].reservert THEN Append(frek, plass) ELSE frek
            BY <1>10 DEF Avslutt
      <3>3. f[r].reservert => plass \in [gruppe: Gruppe, naa: Nat, maks: Nat]
            BY <2>1, <2>2, <3>1
      <3>4. frek \in Seq([gruppe: Gruppe, naa: Nat, maks: Nat])
            BY DEF TypeOK
      <3> DEFINE Plass == [gruppe: Gruppe, naa: Nat, maks: Nat]
      <3>5. CASE f[r].reservert
        <4>1. frek' = Append(frek, plass) /\ plass \in Plass /\ frek \in Seq(Plass)
              BY <3>2, <3>3, <3>4, <3>5
        <4>2. frek' \in Seq(Plass)
          <5> HIDE DEF plass, Plass
          <5> QED BY <4>1
        <4> QED BY <4>2
      <3>6. CASE ~f[r].reservert
            BY <3>2, <3>4, <3>6
      <3> QED BY <3>5, <3>6
    <2>5. brukt' \subseteq Jti
          BY <1>10, <2>2 DEF Avslutt, Forbrukte, TypeOK
    <2>6. idem' \in [Nokkel -> [inn: Hendelser, svar: Utfall] \cup {Ingen}]
          BY <1>10, <2>1 DEF Avslutt, TypeOK
    <2>7. Slipp(r)
          BY <1>10 DEF Avslutt
    <2> QED BY <1>10, <2>3, <2>4, <2>5, <2>6, <2>7, SlippType DEF Avslutt, TypeOK
  <1>11. ASSUME NEW r \in Forsp, Feil(r) PROVE TypeInv'
         BY <1>11, SlippType DEF Feil, TypeOK
  <1>12. ASSUME NEW v \in Versjon, PolicyAktiveres(v) \/ SlettVent(v) PROVE TypeInv'
         BY <1>0, <1>12 DEF PolicyAktiveres, SlettVent, TypeOK
  <1>13. CASE Slett
         BY <1>0, <1>13 DEF Slett, TypeOK
  <1>14. CASE Tikk
         BY <1>0, <1>14 DEF Tikk, TypeOK
  <1>15. CASE UNCHANGED vars
         BY <1>0, <1>15 DEF vars, TypeOK
  <1> QED BY <1>1, <1>2, <1>3, <1>4, <1>5, <1>6, <1>7, <1>8, <1>9, <1>10, <1>11,
             <1>12, <1>13, <1>14, <1>15 DEF Next, Trinn

LEMMA TypeInvariant == Spec => []TypeInv
  BY InitType, TypeSteg, PTL DEF Spec

(* Whatever is decided, lost or deleted, the state stays well typed: locks *)
(* go with their transaction, and a version number has a row only while it *)
(* is there.                                                               *)
THEOREM Typekorrekt == Spec => []TypeOK
  <1>1. TypeInv => TypeOK
        BY DEF TypeInv
  <1> QED BY <1>1, TypeInvariant, PTL

-----------------------------------------------------------------------------
(* Locks.                                                                  *)

(* A lock has one holder; from its claim on a request holds its key, which *)
(* nobody has settled; a reservation is made under its group's lock.       *)
LaasInv ==
    /\ \A r, q \in Forsp : r # q => laas[r] \cap laas[q] = {}
    /\ \A r \in Forsp : f[r].steg \in Inne =>
          <<"idem", f[r].nokkel>> \in laas[r] /\ idem[f[r].nokkel] = Ingen
    /\ \A r \in Forsp : f[r].steg = "tell" \/ f[r].reservert =>
          <<"frek", f[r].hendelse.gruppe>> \in laas[r]

LEMMA InitLaas == Init => LaasInv
  BY DEF Init, LaasInv, Tom, Inne

(* What one request does leaves the others alone.                          *)
LEMMA Andre ==
    ASSUME TypeInv, NEW r \in Forsp,
           \/ \E k \in Nokkel, h \in Hendelser : Send(r, k, h)
           \/ Trinn(r) \/ Feil(r)
    PROVE  \A q \in Forsp \ {r} : f'[q] = f[q] /\ laas'[q] = laas[q]
  <1> USE DEF TypeInv, TypeOK
  <1>1. ASSUME Slipp(r) PROVE \A q \in Forsp \ {r} : f'[q] = f[q] /\ laas'[q] = laas[q]
        BY <1>1 DEF Slipp
  <1>2. ASSUME NEW x, Videre(r, x) PROVE \A q \in Forsp \ {r} : f'[q] = f[q]
        BY <1>2 DEF Videre
  <1>3. ASSUME NEW x, Portstopp(r, x) PROVE \A q \in Forsp \ {r} : f'[q] = f[q]
        BY <1>3 DEF Portstopp
  <1>4. ASSUME NEW l, Ta(r, l) PROVE \A q \in Forsp \ {r} : laas'[q] = laas[q]
        BY <1>4 DEF Ta
  <1>5. CASE \E k \in Nokkel, h \in Hendelser : Send(r, k, h)
        BY <1>5 DEF Send
  <1>6. CASE Krev(r)
        BY <1>6, <1>1, <1>2, <1>4 DEF Krev
  <1>7. CASE Attestasjonsport(r) \/ JtiSjekk(r)
        BY <1>7, <1>2, <1>3 DEF Attestasjonsport, JtiSjekk
  <1>8. CASE HentAktiv(r)
        BY <1>8, <1>1, <1>3 DEF HentAktiv
  <1>9. CASE \E j \in Jti : JtiLaas(r, j)
        BY <1>9, <1>4 DEF JtiLaas
  <1>10. CASE Motor(r)
        BY <1>10, <1>2 DEF Motor
  <1>11. CASE FrekLaas(r)
        BY <1>11, <1>2, <1>4 DEF FrekLaas
  <1>12. CASE Reserver(r)
        BY <1>12 DEF Reserver
  <1>13. CASE Avslutt(r) \/ Feil(r)
        BY <1>13, <1>1 DEF Avslutt, Feil
  <1> QED BY <1>5, <1>6, <1>7, <1>8, <1>9, <1>10, <1>11, <1>12, <1>13 DEF Trinn

(* What a request itself may come to, and which locks it takes.            *)
LEMMA Egen ==
    ASSUME TypeInv, NEW r \in Forsp, Trinn(r) \/ Feil(r)
    PROVE  \/ /\ f'[r] = Tom /\ laas'[r] = {}
           \/ /\ f'[r].nokkel = f[r].nokkel /\ f'[r].hendelse = f[r].hendelse
              /\ f[r].steg # "ledig" /\ f'[r].steg # "ledig"
              /\ \/ laas'[r] = laas[r]
                 \/ \E l \in Laas : KanTa(r, l) /\ laas'[r] = laas[r] \cup {l}
  <1> USE DEF TypeInv, TypeOK
  <1>1. ASSUME Slipp(r) PROVE f'[r] = Tom /\ laas'[r] = {}
        BY <1>1 DEF Slipp
  <1>2. ASSUME NEW x, Videre(r, x)
        PROVE  f'[r].nokkel = f[r].nokkel /\ f'[r].hendelse = f[r].hendelse
               /\ f'[r].steg = x
        BY <1>2 DEF Videre, Foresp
  <1>3. ASSUME NEW x, Portstopp(r, x)
        PROVE  f'[r].nokkel = f[r].nokkel /\ f'[r].hendelse = f[r].hendelse
               /\ f'[r].steg = "avslutt"
        BY <1>3 DEF Portstopp, Foresp
  <1>4. ASSUME NEW l, Ta(r, l) PROVE laas'[r] = laas[r] \cup {l}
        BY <1>4 DEF Ta
  <1>5. CASE Krev(r)
    <2>1. CASE Slipp(r)
          BY <1>1, <2>1
    <2>2. CASE ~Slipp(r)
      <3>1. <<"idem", f[r].nokkel>> \in Laas
            BY <1>5, LaasType DEF Krev
      <3> QED BY <1>5, <2>2, <3>1, <1>2, <1>4 DEF Krev
    <2> QED BY <2>1, <2>2
  <1>6. CASE Attestasjonsport(r)
        BY <1>6, <1>2, <1>3 DEF Attestasjonsport
  <1>7. CASE HentAktiv(r)
        BY <1>7, <1>1, <1>3 DEF HentAktiv, Foresp
  <1>8. CASE \E j \in Jti : JtiLaas(r, j)
    <2>1. PICK j \in Jti : JtiLaas(r, j)
          BY <1>8
    <2>2. <<"jti", j>> \in Laas
          BY <2>1, LaasType DEF JtiLaas
    <2> QED BY <2>1, <2>2, <1>4 DEF JtiLaas
  <1>9. CASE JtiSjekk(r)
        BY <1>9, <1>2, <1>3 DEF JtiSjekk
  <1>10. CASE Motor(r)
        BY <1>10, <1>2 DEF Motor, Foresp
  <1>11. CASE FrekLaas(r)
    <2>1. <<"frek", f[r].hendelse.gruppe>> \in Laas
          BY <1>11, LaasType DEF FrekLaas
    <2> QED BY <1>11, <2>1, <1>2, <1>4 DEF FrekLaas
  <1>12. CASE Reserver(r)
        BY <1>12 DEF Reserver, Foresp
  <1>13. CASE Avslutt(r) \/ Feil(r)
        BY <1>13, <1>1 DEF Avslutt, Feil
  <1> QED BY <1>5, <1>6, <1>7, <1>8, <1>9, <1>10, <1>11, <1>12, <1>13 DEF Trinn

(* Only a commit is seen by others.                                        *)
LEMMA Usett ==
    ASSUME NEW r \in Forsp, ~Avslutt(r),
           \/ \E k \in Nokkel, h \in Hendelser : Send(r, k, h)
           \/ Trinn(r) \/ Feil(r)
    PROVE  UNCHANGED <<idem, logg, brukt, frek, versjoner, aktiv, sletting>>
  BY DEF Send, Trinn, Feil, Krev, Attestasjonsport, HentAktiv, JtiLaas, JtiSjekk,
         Motor, FrekLaas, Reserver

(* Into the transaction comes who takes a free key.                        *)
LEMMA Innkomst ==
    ASSUME TypeInv, NEW r \in Forsp, Trinn(r) \/ Feil(r), f'[r].steg \in Inne
    PROVE  \/ f[r].steg \in Inne
           \/ <<"idem", f[r].nokkel>> \in laas'[r] /\ idem[f[r].nokkel] = Ingen
  <1>1. CASE Krev(r)
    <2>1. CASE Slipp(r)
          BY <2>1 DEF Slipp, Tom, Inne, TypeInv, TypeOK
    <2>2. CASE ErNy(f[r].nokkel) /\ Ta(r, <<"idem", f[r].nokkel>>)
          BY <2>2 DEF ErNy, Ta, TypeInv, TypeOK
    <2> QED BY <1>1, <2>1, <2>2 DEF Krev
  <1>2. CASE Feil(r)
        BY <1>2 DEF Feil, Slipp, Tom, Inne, TypeInv, TypeOK
  <1>3. CASE ~Krev(r) /\ Trinn(r)
        BY <1>3 DEF Trinn, Inne, Steg, Attestasjonsport, HentAktiv, JtiLaas, JtiSjekk,
                    Motor, FrekLaas, Reserver, Avslutt
  <1> QED BY <1>1, <1>2, <1>3

(* Who comes to counting takes the group's lock, who comes to a            *)
(* reservation has counted.                                                *)
LEMMA Opphav ==
    ASSUME TypeInv, NEW r \in Forsp, Trinn(r) \/ Feil(r),
           f'[r].steg = "tell" \/ f'[r].reservert
    PROVE  FrekLaas(r) \/ Reserver(r)
  <1>0. f[r] \in Foresp /\ laas \in [Forsp -> SUBSET Laas] /\ f \in [Forsp -> Foresp]
        BY DEF TypeInv, TypeOK
  <1>1. ~Slipp(r)
        BY <1>0 DEF Slipp, Tom
  <1>2. ASSUME NEW x, Videre(r, x)
        PROVE  f'[r].reservert = f[r].reservert /\ f'[r].steg = x
        BY <1>0, <1>2 DEF Videre, Foresp
  <1>3. ASSUME NEW x, Portstopp(r, x)
        PROVE  f'[r].reservert = f[r].reservert /\ f'[r].steg = "avslutt"
        BY <1>0, <1>3 DEF Portstopp, Foresp
  <1>4. SUFFICES ASSUME ~FrekLaas(r) /\ ~Reserver(r) PROVE FALSE
        OBVIOUS
  <1>5. f[r].steg # "avslutt" /\ Trinn(r)
        BY <1>1, <1>4 DEF Trinn, Krev, Attestasjonsport, HentAktiv, JtiLaas, JtiSjekk,
                          Motor, Avslutt, Feil
  <1>6. f[r].reservert = FALSE
        BY <1>0, <1>5 DEF TypeInv, ForespOK, Foresp
  <1>7. CASE Krev(r)
        BY <1>1, <1>2, <1>6, <1>7 DEF Krev
  <1>8. CASE Attestasjonsport(r)
        BY <1>2, <1>3, <1>6, <1>8 DEF Attestasjonsport
  <1>9. CASE HentAktiv(r)
    <2>1. CASE Portstopp(r, Ingen)
          BY <1>3, <1>6, <2>1
    <2>2. CASE aktiv \in Versjon \ Korrupt
          BY <1>0, <1>1, <1>6, <1>9, <2>2 DEF HentAktiv, Foresp
    <2> QED BY <1>1, <1>9, <2>1, <2>2 DEF HentAktiv
  <1>10. CASE \E j \in Jti : JtiLaas(r, j)
        BY <1>6, <1>10 DEF JtiLaas
  <1>11. CASE JtiSjekk(r)
        BY <1>2, <1>3, <1>6, <1>11 DEF JtiSjekk
  <1>12. CASE Motor(r)
    <2>1. CASE Videre(r, "frek")
          BY <1>2, <1>6, <2>1
    <2>2. CASE \E u \in Utfall : f' = [f EXCEPT ![r].steg = "avslutt", ![r].dom = u]
          BY <1>0, <1>6, <2>2 DEF Foresp
    <2> QED BY <1>12, <2>1, <2>2 DEF Motor
  <1> QED BY <1>1, <1>4, <1>5, <1>7, <1>8, <1>9, <1>10, <1>11, <1>12 DEF Trinn, Avslutt

(* Both are done under it.                                                 *)
LEMMA UnderLaas ==
    ASSUME TypeInv, LaasInv, NEW r \in Forsp, Trinn(r) \/ Feil(r),
           f'[r].steg = "tell" \/ f'[r].reservert
    PROVE  <<"frek", f'[r].hendelse.gruppe>> \in laas'[r]
  <1>0. f[r] \in Foresp /\ laas \in [Forsp -> SUBSET Laas] /\ f \in [Forsp -> Foresp]
        BY DEF TypeInv, TypeOK
  <1>1. CASE FrekLaas(r)
    <2>1. laas'[r] = laas[r] \cup {<<"frek", f[r].hendelse.gruppe>>}
          BY <1>0, <1>1 DEF FrekLaas, Ta
    <2>2. f'[r].hendelse = f[r].hendelse
          BY <1>0, <1>1 DEF FrekLaas, Videre, Foresp
    <2> QED BY <2>1, <2>2
  <1>2. CASE Reserver(r)
    <2>1. f[r].steg = "tell" /\ laas' = laas
          BY <1>2 DEF Reserver
    <2>2. f'[r].hendelse = f[r].hendelse
          BY <1>0, <1>2 DEF Reserver, Foresp
    <2> QED BY <2>1, <2>2 DEF LaasInv
  <1> QED BY <1>1, <1>2, Opphav

LEMMA LaasSteg == TypeInv /\ LaasInv /\ [Next]_vars => LaasInv'
  <1> SUFFICES ASSUME TypeInv, LaasInv, [Next]_vars PROVE LaasInv'
      OBVIOUS
  <1>1. ASSUME NEW r \in Forsp, NEW k \in Nokkel, NEW h \in Hendelser, Send(r, k, h)
        PROVE  LaasInv'
    <2>1. f'[r].steg = "sendt" /\ f'[r].reservert = FALSE /\ UNCHANGED <<laas, idem>>
          BY <1>1 DEF Send, Tom, TypeInv, TypeOK
    <2>2. \A q \in Forsp \ {r} : f'[q] = f[q]
          BY <1>1, Andre
    <2> QED BY <2>1, <2>2 DEF LaasInv, Inne
  <1>2. ASSUME NEW r \in Forsp, Trinn(r) \/ Feil(r) PROVE LaasInv'
    <2>0. \A q \in Forsp \ {r} : f'[q] = f[q] /\ laas'[q] = laas[q]
          BY <1>2, Andre
    <2>1. \A p, q \in Forsp : p # q => laas'[p] \cap laas'[q] = {}
      <3>1. \A q \in Forsp \ {r} : laas'[r] \cap laas[q] = {}
        <4>1. CASE laas'[r] = {} \/ laas'[r] = laas[r]
              BY <4>1 DEF LaasInv
        <4>2. CASE \E l \in Laas : KanTa(r, l) /\ laas'[r] = laas[r] \cup {l}
              BY <4>2 DEF LaasInv, KanTa
        <4> QED BY <1>2, <4>1, <4>2, Egen
      <3> QED BY <2>0, <3>1 DEF LaasInv
    <2>2. ASSUME NEW q \in Forsp, f'[q].steg \in Inne
          PROVE  <<"idem", f'[q].nokkel>> \in laas'[q] /\ idem'[f'[q].nokkel] = Ingen
      <3>1. CASE q # r
        <4>1. <<"idem", f[q].nokkel>> \in laas[q] /\ idem[f[q].nokkel] = Ingen
              BY <2>0, <2>2, <3>1 DEF LaasInv
        <4>2. CASE Avslutt(r)
          <5>0. f[r].steg \in Inne
                BY <4>2 DEF Avslutt, Inne, Steg
          <5>1. <<"idem", f[r].nokkel>> \in laas[r] /\ laas[r] \cap laas[q] = {}
                BY <3>1, <5>0 DEF LaasInv
          <5>2. f[r].nokkel # f[q].nokkel
                BY <4>1, <5>1
          <5>3. idem' = [idem EXCEPT ![f[r].nokkel] =
                           [inn |-> f[r].hendelse, svar |-> f[r].dom]]
                BY <4>2 DEF Avslutt
          <5>4. f[q].nokkel \in Nokkel /\ idem \in [Nokkel -> [inn: Hendelser, svar: Utfall] \cup {Ingen}]
                BY <2>0, <2>2, <3>1 DEF TypeInv, TypeOK, ForespOK, Inne, Steg
          <5>5. idem'[f[q].nokkel] = Ingen
                BY <4>1, <5>2, <5>3, <5>4
          <5> QED BY <2>0, <3>1, <4>1, <5>5
        <4>3. CASE ~Avslutt(r)
              BY <1>2, <2>0, <3>1, <4>1, <4>3, Usett
        <4> QED BY <4>2, <4>3
      <3>2. CASE q = r
        <4>1. f'[r] # Tom /\ ~Slipp(r)
              BY <2>2, <3>2 DEF Tom, Inne, Slipp, TypeInv, TypeOK
        <4>2. ~Avslutt(r)
              BY <4>1 DEF Avslutt
        <4>3. f'[r].nokkel = f[r].nokkel /\ laas[r] \subseteq laas'[r]
              BY <1>2, <4>1, Egen
        <4>4. idem' = idem
              BY <1>2, <4>2, Usett
        <4> QED BY <1>2, <2>2, <3>2, <4>3, <4>4, Innkomst DEF LaasInv
      <3> QED BY <3>1, <3>2
    <2>3. ASSUME NEW q \in Forsp, f'[q].steg = "tell" \/ f'[q].reservert
          PROVE  <<"frek", f'[q].hendelse.gruppe>> \in laas'[q]
          BY <1>2, <2>0, <2>3, UnderLaas DEF LaasInv
    <2> QED BY <2>1, <2>2, <2>3 DEF LaasInv
  <1>3. CASE UNCHANGED <<f, laas, idem>>
        BY <1>3 DEF LaasInv
  <1> QED BY <1>1, <1>2, <1>3
          DEF Next, PolicyAktiveres, SlettVent, Slett, Tikk, vars

(* The two invariants everything below rests on.                           *)
Grunn == TypeInv /\ LaasInv

LEMMA GrunnInvariant == Spec => []Grunn
  <1>1. Init => Grunn
        BY InitType, InitLaas DEF Grunn
  <1>2. Grunn /\ [Next]_vars => Grunn'
        BY TypeSteg, LaasSteg DEF Grunn
  <1> QED BY <1>1, <1>2, PTL DEF Spec

(* A step is a request's or changes neither requests nor what they commit. *)
LEMMA Stegene ==
    ASSUME [Next]_vars
    PROVE  \/ \E r \in Forsp : \/ \E k \in Nokkel, h \in Hendelser : Send(r, k, h)
                               \/ Trinn(r) \/ Feil(r)
           \/ /\ UNCHANGED <<f, laas, idem, logg, brukt, frek>>
              /\ \/ \E v \in Versjon : PolicyAktiveres(v)
                 \/ Slett
                 \/ UNCHANGED <<versjoner, aktiv>>
  BY DEF Next, PolicyAktiveres, SlettVent, Slett, Tikk, vars

(* The log grows by a commit only.                                         *)
LEMMA LoggVokser ==
    ASSUME TypeInv, NEW r \in Forsp, Avslutt(r)
    PROVE  LET n == Len(logg) + 1 IN
           /\ Len(logg) \in Nat /\ DOMAIN logg = 1..Len(logg) /\ DOMAIN logg' = 1..n
           /\ \A i \in DOMAIN logg : logg'[i] = logg[i] /\ logg[i] \in Post
           /\ logg'[n].nokkel = f[r].nokkel /\ logg'[n].hendelse = f[r].hendelse
           /\ logg'[n].pol = f[r].pol /\ logg'[n].utfall = f[r].dom
  <1> DEFINE e == [nokkel |-> f[r].nokkel, hendelse |-> f[r].hendelse,
                   pol |-> f[r].pol, utfall |-> f[r].dom]
  <1>1. logg \in Seq(Post) /\ logg' = Append(logg, e)
        BY DEF TypeInv, TypeOK, Avslutt
  <1> HIDE DEF e
  <1>2. /\ Len(logg) \in Nat
        /\ DOMAIN logg = 1..Len(logg) /\ DOMAIN logg' = 1..(Len(logg) + 1)
        /\ \A i \in DOMAIN logg : logg'[i] = logg[i] /\ logg[i] \in Post
        /\ logg'[Len(logg) + 1] = e
        BY <1>1
  <1> QED BY <1>2 DEF e

-----------------------------------------------------------------------------
(* Attestations.                                                           *)

(* A request that may let an irreversible action through.                  *)
Baerer(r) == /\ f[r].pol \in Irreversibel
             /\ \/ f[r].steg \in {"motor", "frek", "tell"}
                \/ f[r].steg = "avslutt" /\ f[r].dom = "TILLAT"

(* It holds its attestations' locks, and found them unused; what has been  *)
(* let through is used.                                                    *)
JtiInv ==
    /\ \A r \in Forsp : Baerer(r) =>
          \A j \in f[r].hendelse.jti : <<"jti", j>> \in laas[r] /\ j \notin brukt
    /\ \A j \in Jti : \A i \in DOMAIN logg : Utlost(i, j) => j \in brukt
    /\ JtiEngang

LEMMA BlirBaerer ==
    ASSUME TypeInv, NEW r \in Forsp, Trinn(r) \/ Feil(r), Baerer(r)'
    PROVE  \/ Baerer(r)
           \/ \A j \in f[r].hendelse.jti : <<"jti", j>> \in laas[r] /\ j \notin brukt
  <1>0. f[r] \in Foresp /\ f \in [Forsp -> Foresp] /\ f[r].steg # "ledig" =>
            f[r].hendelse.jti \subseteq Jti
        BY LaasType DEF TypeInv, TypeOK
  <1>00. f[r] \in Foresp /\ f \in [Forsp -> Foresp]
        BY DEF TypeInv, TypeOK
  <1>1. ~Slipp(r)
        BY <1>00 DEF Slipp, Tom, Baerer
  <1>2. ASSUME NEW x, Videre(r, x)
        PROVE  f'[r].steg = x /\ f'[r].pol = f[r].pol /\ f'[r].dom = f[r].dom
        BY <1>00, <1>2 DEF Videre, Foresp
  <1>3. ASSUME NEW x, Portstopp(r, x)
        PROVE  f'[r].steg = "avslutt" /\ f'[r].dom = "STOPP"
        BY <1>00, <1>3 DEF Portstopp, Foresp
  <1>4. CASE Krev(r)
        BY <1>1, <1>2, <1>4 DEF Krev, Baerer
  <1>5. CASE Attestasjonsport(r)
        BY <1>2, <1>3, <1>5 DEF Attestasjonsport, Baerer
  <1>6. CASE HentAktiv(r)
    <2>1. CASE Portstopp(r, Ingen)
          BY <1>3, <2>1 DEF Baerer
    <2>2. CASE f' = [f EXCEPT ![r].pol = aktiv,
                      ![r].steg = IF aktiv \in Irreversibel THEN "jti" ELSE "motor"]
          BY <1>00, <2>2 DEF Baerer, Foresp
    <2> QED BY <1>1, <1>6, <2>1, <2>2 DEF HentAktiv
  <1>7. CASE \E j \in Jti : JtiLaas(r, j)
        BY <1>7 DEF JtiLaas, Baerer
  <1>8. CASE JtiSjekk(r)
    <2>1. CASE f[r].hendelse.jti \cap brukt = {}
          BY <1>8, <2>1 DEF JtiSjekk, Igjen
    <2>2. CASE Portstopp(r, f[r].pol)
          BY <1>3, <2>2 DEF Baerer
    <2> QED BY <1>8, <2>1, <2>2 DEF JtiSjekk
  <1>9. CASE Motor(r)
    <2>1. CASE Videre(r, "frek")
          BY <1>2, <1>9, <2>1 DEF Motor, Baerer
    <2>2. CASE \E u \in Utfall : f' = [f EXCEPT ![r].steg = "avslutt", ![r].dom = u]
      <3>1. f'[r].pol = f[r].pol
            BY <1>00, <2>2 DEF Foresp
      <3>2. f[r].steg = "motor"
            BY <1>9 DEF Motor
      <3> QED BY <3>1, <3>2 DEF Baerer
    <2> QED BY <1>9, <2>1, <2>2 DEF Motor
  <1>10. CASE FrekLaas(r)
        BY <1>2, <1>10 DEF FrekLaas, Baerer
  <1>11. CASE Reserver(r)
    <2>1. f[r].steg = "tell" /\ f'[r].pol = f[r].pol
          BY <1>00, <1>11 DEF Reserver, Foresp
    <2> QED BY <2>1 DEF Baerer
  <1> QED BY <1>1, <1>4, <1>5, <1>6, <1>7, <1>8, <1>9, <1>10, <1>11
          DEF Trinn, Avslutt, Feil

LEMMA JtiSteg == Grunn /\ JtiInv /\ [Next]_vars => JtiInv'
  <1> SUFFICES ASSUME Grunn, JtiInv, [Next]_vars PROVE JtiInv'
      OBVIOUS
  <1> USE DEF Grunn
  <1>1. ASSUME NEW r \in Forsp, NEW k \in Nokkel, NEW h \in Hendelser, Send(r, k, h)
        PROVE  JtiInv'
    <2>1. f'[r].steg = "sendt" /\ UNCHANGED <<laas, brukt, logg>>
          BY <1>1 DEF Send, Tom, TypeInv, TypeOK
    <2>2. \A q \in Forsp \ {r} : f'[q] = f[q]
          BY <1>1, Andre
    <2> QED BY <2>1, <2>2 DEF JtiInv, Baerer, JtiEngang, Utlost
  <1>2. ASSUME NEW r \in Forsp, Trinn(r) \/ Feil(r), ~Avslutt(r) PROVE JtiInv'
    <2>1. \A q \in Forsp \ {r} : f'[q] = f[q] /\ laas'[q] = laas[q]
          BY <1>2, Andre
    <2>2. brukt' = brukt /\ logg' = logg
          BY <1>2, Usett
    <2>3. ASSUME Baerer(r)'
          PROVE  \A j \in f'[r].hendelse.jti : <<"jti", j>> \in laas'[r] /\ j \notin brukt
      <3>1. f'[r].hendelse = f[r].hendelse /\ laas[r] \subseteq laas'[r]
            BY <1>2, <2>3, Egen DEF Baerer, Tom
      <3> QED BY <1>2, <2>3, <3>1, BlirBaerer DEF JtiInv
    <2> QED BY <2>1, <2>2, <2>3 DEF JtiInv, Baerer, JtiEngang, Utlost
  <1>3. ASSUME NEW r \in Forsp, Avslutt(r) PROVE JtiInv'
    <2>0. Trinn(r) /\ f'[r].steg = "ledig"
          BY <1>3 DEF Trinn, Avslutt, Slipp, Tom, TypeInv, TypeOK
    <2>1. \A q \in Forsp \ {r} : f'[q] = f[q] /\ laas'[q] = laas[q]
          BY <2>0, Andre
    <2>2. brukt' = brukt \cup Forbrukte(r)
          BY <1>3 DEF Avslutt
    <2>3. Forbrukte(r) # {} => Baerer(r)
          BY <1>3 DEF Forbrukte, Baerer, Avslutt
    <2>4. Forbrukte(r) \subseteq f[r].hendelse.jti
          BY DEF Forbrukte
    <2>5. ASSUME NEW q \in Forsp, Baerer(q)', NEW j \in f'[q].hendelse.jti
          PROVE  <<"jti", j>> \in laas'[q] /\ j \notin brukt'
      <3>1. q # r
            BY <2>0, <2>5 DEF Baerer
      <3>2. Baerer(q) /\ f'[q].hendelse = f[q].hendelse
            BY <2>1, <2>5, <3>1 DEF Baerer
      <3>3. <<"jti", j>> \in laas[q] /\ j \notin brukt
            BY <2>5, <3>2 DEF JtiInv
      <3>4. j \notin Forbrukte(r)
        <4>1. SUFFICES ASSUME j \in Forbrukte(r) PROVE FALSE
              OBVIOUS
        <4>2. <<"jti", j>> \in laas[r]
              BY <2>3, <2>4, <4>1 DEF JtiInv
        <4> QED BY <3>1, <3>3, <4>2 DEF LaasInv
      <3> QED BY <2>1, <2>2, <3>1, <3>3, <3>4
    <2>60. /\ DOMAIN logg = 1..Len(logg) /\ DOMAIN logg' = 1..(Len(logg) + 1)
           /\ \A i \in DOMAIN logg : logg'[i] = logg[i]
           /\ logg'[Len(logg) + 1].hendelse = f[r].hendelse
           /\ logg'[Len(logg) + 1].pol = f[r].pol
           /\ logg'[Len(logg) + 1].utfall = f[r].dom
           /\ Len(logg) \in Nat
          BY <1>3, LoggVokser
    <2>6. ASSUME NEW j \in Jti, NEW i \in DOMAIN logg', Utlost(i, j)'
          PROVE  \/ i \in DOMAIN logg /\ Utlost(i, j) /\ j \in brukt
                 \/ i = Len(logg) + 1 /\ j \in Forbrukte(r) /\ j \notin brukt
      <3>0. /\ logg'[i].utfall = "TILLAT" /\ logg'[i].pol \in Irreversibel
            /\ j \in logg'[i].hendelse.jti
            BY <2>6 DEF Utlost
      <3>1. CASE i \in DOMAIN logg
        <4>1. Utlost(i, j)
              BY <2>60, <3>0, <3>1 DEF Utlost
        <4> QED BY <3>1, <4>1 DEF JtiInv
      <3>2. CASE i \notin DOMAIN logg
        <4>1. i = Len(logg) + 1
              BY <2>60, <3>2
        <4>2. j \in Forbrukte(r)
              BY <2>60, <3>0, <4>1 DEF Forbrukte
        <4> QED BY <2>3, <2>4, <4>1, <4>2 DEF JtiInv
      <3> QED BY <3>1, <3>2
    <2>7. \A j \in Jti : \A i \in DOMAIN logg' : Utlost(i, j)' => j \in brukt'
          BY <2>2, <2>6
    <2>8. JtiEngang'
      <3> SUFFICES ASSUME NEW j \in Jti, NEW m \in DOMAIN logg', NEW n \in DOMAIN logg',
                          Utlost(m, j)', Utlost(n, j)'
                   PROVE  m = n
          BY DEF JtiEngang
      <3> QED BY <2>6 DEF JtiInv, JtiEngang
    <2> QED BY <2>5, <2>7, <2>8 DEF JtiInv
  <1>4. CASE UNCHANGED <<f, laas, idem, logg, brukt, frek>>
        BY <1>4 DEF JtiInv, Baerer, JtiEngang, Utlost
  <1> QED BY <1>1, <1>2, <1>3, <1>4, Stegene

(* An attestation lets at most one irreversible action through: the locks  *)
(* of its jti are held from the check that it is unused to the commit that *)
(* uses it (kjerne.py, steps 4b and 5).                                    *)
THEOREM Engang == Spec => []JtiEngang
  <1>1. Init => JtiInv
        BY DEF Init, JtiInv, Baerer, Tom, JtiEngang
  <1>2. JtiInv => JtiEngang
        BY DEF JtiInv
  <1> QED BY <1>1, <1>2, GrunnInvariant, JtiSteg, PTL DEF Spec

-----------------------------------------------------------------------------
(* Keys.                                                                   *)

(* A decision in the log has its answer.                                   *)
BokInv == \A i \in DOMAIN logg : idem[logg[i].nokkel] # Ingen

LEMMA BokSteg == Grunn /\ BokInv /\ [Next]_vars => BokInv'
  <1> SUFFICES ASSUME Grunn, BokInv, [Next]_vars PROVE BokInv'
      OBVIOUS
  <1> USE DEF Grunn
  <1>1. ASSUME NEW r \in Forsp, Avslutt(r) PROVE BokInv'
    <2>1. /\ DOMAIN logg = 1..Len(logg) /\ DOMAIN logg' = 1..(Len(logg) + 1)
          /\ \A i \in DOMAIN logg : logg'[i] = logg[i]
          /\ logg'[Len(logg) + 1].nokkel = f[r].nokkel
          /\ Len(logg) \in Nat
          BY <1>1, LoggVokser
    <2> DEFINE rad == [inn |-> f[r].hendelse, svar |-> f[r].dom]
    <2>2. rad # Ingen /\ f[r].nokkel \in Nokkel
          BY <1>1, SvarAntakelse DEF Avslutt, TypeInv, ForespOK
    <2>3. idem' = [idem EXCEPT ![f[r].nokkel] = rad]
          BY <1>1 DEF Avslutt
    <2>4. \A k \in Nokkel : idem[k] # Ingen => idem'[k] # Ingen
      <3> HIDE DEF rad
      <3> QED BY <2>2, <2>3 DEF TypeInv, TypeOK
    <2>5. idem'[f[r].nokkel] # Ingen
      <3> HIDE DEF rad
      <3> QED BY <2>2, <2>3 DEF TypeInv, TypeOK
    <2>6. \A i \in DOMAIN logg : logg[i].nokkel \in Nokkel
          BY <1>1, LoggVokser DEF Post
    <2> QED BY <2>1, <2>4, <2>5, <2>6 DEF BokInv
  <1>2. CASE UNCHANGED <<idem, logg>>
        BY <1>2 DEF BokInv
  <1> QED BY <1>1, <1>2, Stegene, Usett

(* The abstract operation is the commit.                                   *)
LEMMA NokkelSteg ==
    Grunn /\ BokInv /\ [Next]_vars => [Nokkelbok!Next]_(Nokkelbok!vars)
  <1> SUFFICES ASSUME Grunn, BokInv, [Next]_vars
               PROVE  [Nokkelbok!Next]_(Nokkelbok!vars)
      OBVIOUS
  <1> USE DEF Grunn
  <1>1. ASSUME NEW r \in Forsp, Avslutt(r), NEW k \in Nokkel, k = f[r].nokkel
        PROVE  Nokkelbok!Next
    <2> DEFINE rad == [inn |-> f[r].hendelse, svar |-> f[r].dom]
               bundet == [n \in Nokkel |-> IF idem[n] = Ingen THEN Ingen ELSE idem[n].inn]
               svar == [n \in Nokkel |-> IF idem[n] = Ingen THEN Ingen ELSE idem[n].svar]
               virket == {logg[i].nokkel : i \in DOMAIN logg}
    <2>1. /\ rad # Ingen
          /\ rad.inn \in Hendelser /\ rad.svar \in Utfall
          BY <1>1, SvarAntakelse DEF Avslutt, TypeInv, ForespOK
    <2>2. idem[k] = Ingen
          BY <1>1 DEF LaasInv, Avslutt, Inne, Steg
    <2>3. k \notin virket
          BY <2>2 DEF BokInv
    <2>4. idem' = [idem EXCEPT ![k] = rad]
          BY <1>1 DEF Avslutt
    <2>5. idem'[k] = rad /\ \A n \in Nokkel \ {k} : idem'[n] = idem[n]
      <3> HIDE DEF rad
      <3> QED BY <2>4 DEF TypeInv, TypeOK
    <2>6. bundet'[k] = rad.inn /\ svar'[k] = rad.svar
      <3> HIDE DEF rad
      <3> QED BY <2>1, <2>5
    <2>7. bundet' = [bundet EXCEPT ![k] = bundet'[k]]
      <3> HIDE DEF rad
      <3> QED BY <2>1, <2>5
    <2>8. svar' = [svar EXCEPT ![k] = svar'[k]]
      <3> HIDE DEF rad
      <3> QED BY <2>1, <2>5
    <2>9. virket' = virket \cup {k}
      <3>1. /\ DOMAIN logg = 1..Len(logg) /\ DOMAIN logg' = 1..(Len(logg) + 1)
            /\ \A i \in DOMAIN logg : logg'[i] = logg[i]
            /\ logg'[Len(logg) + 1].nokkel = k
            /\ Len(logg) \in Nat
            BY <1>1, LoggVokser
      <3> QED BY <3>1
    <2>10. bundet[k] = Ingen
      <3> QED BY <2>1, <2>2
    <2>11. Nokkelbok!Fullfor(k)
      <3>1. bundet'[k] \in Hendelser /\ svar'[k] \in Utfall
            BY <2>1, <2>6
      <3> QED BY <2>7, <2>8, <2>9, <2>10, <3>1 DEF Nokkelbok!Fullfor
    <2>12. k \in Nokkel \ virket
           BY <2>1, <2>3
    <2> QED BY <2>11, <2>12, Zenon DEF Nokkelbok!Next
  <1>2. CASE UNCHANGED <<idem, logg>>
        BY <1>2 DEF Nokkelbok!vars
  <1>3. \A r \in Forsp : Avslutt(r) => f[r].nokkel \in Nokkel
        BY DEF Avslutt, TypeInv, ForespOK
  <1> QED BY <1>1, <1>2, <1>3, Stegene, Usett

(* The endpoint implements the promise of its keys: one input, one answer, *)
(* and the decision is there exactly when the answer is, through retries,  *)
(* errors, crashes and any number of requests with the same key.           *)
THEOREM Nokkelloftet == Spec => HolderNokkelloftet
  <1>1. Init => BokInv
        BY DEF Init, BokInv
  <1>2. Init => Nokkelbok!Init
        BY DEF Init, Nokkelbok!Init
  <1>3. Spec => []BokInv
        BY <1>1, GrunnInvariant, BokSteg, PTL DEF Spec
  <1> QED BY <1>2, <1>3, GrunnInvariant, NokkelSteg, PTL
          DEF Spec, HolderNokkelloftet, Nokkelbok!Spec

-----------------------------------------------------------------------------
(* The policy a decision was taken under.                                  *)

(* Who has read a policy keeps it from being deleted.                      *)
PolInv ==
    /\ \A r \in Forsp : DelerPolicy(r) => f[r].pol \in versjoner
    /\ LoggenHarPolicy

LEMMA BlirDeler ==
    ASSUME TypeInv, NEW r \in Forsp, Trinn(r) \/ Feil(r), DelerPolicy(r)'
    PROVE  (DelerPolicy(r) /\ f'[r].pol = f[r].pol) \/ f'[r].pol \in versjoner
  <1>00. f[r] \in Foresp /\ f \in [Forsp -> Foresp]
        BY DEF TypeInv, TypeOK
  <1>1. ~Slipp(r)
        BY <1>00 DEF Slipp, Tom, DelerPolicy
  <1>2. ASSUME NEW x, Videre(r, x)
        PROVE  f'[r].steg = x /\ f'[r].pol = f[r].pol
        BY <1>00, <1>2 DEF Videre, Foresp
  <1>3. ASSUME NEW x, Portstopp(r, x)
        PROVE  f'[r].steg = "avslutt" /\ f'[r].pol = x
        BY <1>00, <1>3 DEF Portstopp, Foresp
  <1>4. CASE Krev(r)
        BY <1>1, <1>2, <1>4 DEF Krev, DelerPolicy
  <1>5. CASE Attestasjonsport(r)
        BY <1>2, <1>3, <1>5 DEF Attestasjonsport, DelerPolicy
  <1>6. CASE HentAktiv(r)
    <2>1. CASE Portstopp(r, Ingen)
          BY <1>3, <2>1 DEF DelerPolicy
    <2>2. CASE /\ aktiv \in Versjon \ Korrupt
               /\ f' = [f EXCEPT ![r].pol = aktiv,
                      ![r].steg = IF aktiv \in Irreversibel THEN "jti" ELSE "motor"]
      <3>1. f'[r].pol = aktiv
            BY <1>00, <2>2 DEF Foresp
      <3>2. aktiv \in versjoner
            BY <2>2, BeslutningAntakelse DEF TypeInv, TypeOK
      <3> QED BY <3>1, <3>2
    <2> QED BY <1>1, <1>6, <2>1, <2>2 DEF HentAktiv
  <1>7. CASE \E j \in Jti : JtiLaas(r, j)
        BY <1>7 DEF JtiLaas, DelerPolicy
  <1>8. CASE JtiSjekk(r)
        BY <1>2, <1>3, <1>8 DEF JtiSjekk, DelerPolicy
  <1>9. CASE Motor(r)
    <2>1. CASE Videre(r, "frek")
          BY <1>2, <1>9, <2>1 DEF Motor, DelerPolicy
    <2>2. CASE \E u \in Utfall : f' = [f EXCEPT ![r].steg = "avslutt", ![r].dom = u]
      <3>1. f'[r].pol = f[r].pol
            BY <1>00, <2>2 DEF Foresp
      <3>2. f[r].steg = "motor"
            BY <1>9 DEF Motor
      <3> QED BY <3>1, <3>2 DEF DelerPolicy
    <2> QED BY <1>9, <2>1, <2>2 DEF Motor
  <1>10. CASE FrekLaas(r)
        BY <1>2, <1>10 DEF FrekLaas, DelerPolicy
  <1>11. CASE Reserver(r)
    <2>1. f[r].steg = "tell" /\ f'[r].pol = f[r].pol
          BY <1>00, <1>11 DEF Reserver, Foresp
    <2> QED BY <2>1 DEF DelerPolicy
  <1> QED BY <1>1, <1>4, <1>5, <1>6, <1>7, <1>8, <1>9, <1>10, <1>11
          DEF Trinn, Avslutt, Feil

LEMMA PolSteg == Grunn /\ PolInv /\ [Next]_vars => PolInv'
  <1> SUFFICES ASSUME Grunn, PolInv, [Next]_vars PROVE PolInv'
      OBVIOUS
  <1> USE DEF Grunn
  <1>1. ASSUME NEW r \in Forsp, NEW k \in Nokkel, NEW h \in Hendelser, Send(r, k, h)
        PROVE  PolInv'
    <2>1. f'[r].steg = "sendt" /\ UNCHANGED <<logg, versjoner>>
          BY <1>1 DEF Send, Tom, TypeInv, TypeOK
    <2>2. \A q \in Forsp \ {r} : f'[q] = f[q]
          BY <1>1, Andre
    <2> QED BY <2>1, <2>2 DEF PolInv, DelerPolicy, LoggenHarPolicy
  <1>2. ASSUME NEW r \in Forsp, Trinn(r) \/ Feil(r) PROVE PolInv'
    <2>1. \A q \in Forsp \ {r} : f'[q] = f[q]
          BY <1>2, Andre
    <2>2. versjoner' = versjoner
          BY <1>2, Usett DEF Avslutt
    <2>3. \A q \in Forsp : DelerPolicy(q)' => f'[q].pol \in versjoner'
          BY <1>2, <2>1, <2>2, BlirDeler DEF PolInv, DelerPolicy
    <2>4. LoggenHarPolicy'
      <3>1. CASE Avslutt(r)
        <4>1. /\ DOMAIN logg = 1..Len(logg) /\ DOMAIN logg' = 1..(Len(logg) + 1)
              /\ \A i \in DOMAIN logg : logg'[i] = logg[i]
              /\ logg'[Len(logg) + 1].pol = f[r].pol
              /\ Len(logg) \in Nat
              BY <3>1, LoggVokser
        <4>2. f[r].pol # Ingen => f[r].pol \in versjoner
              BY <3>1 DEF PolInv, DelerPolicy, Avslutt
        <4> QED BY <2>2, <4>1, <4>2 DEF PolInv, LoggenHarPolicy
      <3>2. CASE ~Avslutt(r)
            BY <1>2, <3>2, Usett DEF PolInv, LoggenHarPolicy
      <3> QED BY <3>1, <3>2
    <2> QED BY <2>3, <2>4 DEF PolInv
  <1>3. CASE UNCHANGED <<f, laas, idem, logg, brukt, frek>>
             /\ \E v \in Versjon : PolicyAktiveres(v)
        BY <1>3 DEF PolInv, DelerPolicy, LoggenHarPolicy, PolicyAktiveres
  <1>4. CASE UNCHANGED <<f, laas, idem, logg, brukt, frek>> /\ Slett
    <2>1. \A r \in Forsp : ~DelerPolicy(r) /\ ~DelerPolicy(r)'
          BY <1>4 DEF Slett, DelerPolicy
    <2>2. Brukte = {} => \A i \in DOMAIN logg : logg[i].pol = Ingen
          BY DEF PolInv, LoggenHarPolicy, Brukte
    <2>3. LoggenHarPolicy'
          BY <1>4, <2>2 DEF Slett, PolInv, LoggenHarPolicy
    <2> QED BY <2>1, <2>3 DEF PolInv
  <1>5. CASE UNCHANGED <<f, laas, idem, logg, brukt, frek, versjoner, aktiv>>
        BY <1>5 DEF PolInv, DelerPolicy, LoggenHarPolicy
  <1> QED BY <1>1, <1>2, <1>3, <1>4, <1>5, Stegene

(* A policy that has decided anything is never deleted, also when the      *)
(* deletion is asked for between the reading of it and the commit: the     *)
(* shared lock that hent_aktiv takes lasts to the commit.                  *)
THEOREM PolicyBlir == Spec => []LoggenHarPolicy
  <1>1. Init => PolInv
        BY DEF Init, PolInv, DelerPolicy, Tom, LoggenHarPolicy
  <1>2. PolInv => LoggenHarPolicy
        BY DEF PolInv
  <1> QED BY <1>1, <1>2, GrunnInvariant, PolSteg, PTL DEF Spec

-----------------------------------------------------------------------------
(* Frequency.                                                              *)

Plass == [gruppe: Gruppe, naa: Nat, maks: Nat]

(* What a request counts.                                                  *)
Talt(r) == {i \in DOMAIN frek : /\ frek[i].gruppe = f[r].hendelse.gruppe
                                /\ frek[i].naa + Vindu >= f[r].naa}

(* A reservation that is not committed yet still has room.                 *)
FrekInv ==
    /\ \A r \in Forsp : f[r].reservert => Antall(r) < Grense(r)
    /\ FrekvensHolder

LEMMA Endelig ==
    ASSUME TypeInv, NEW S \in SUBSET DOMAIN frek
    PROVE  IsFiniteSet(S) /\ Cardinality(S) \in Nat
  <1>1. DOMAIN frek = 1..Len(frek) /\ Len(frek) \in Nat
        BY DEF TypeInv, TypeOK
  <1>2. IsFiniteSet(1..Len(frek))
        BY <1>1, FS_Interval
  <1> QED BY <1>1, <1>2, FS_Subset, FS_CardinalityType

LEMMA FrekVokser ==
    ASSUME TypeInv, NEW r \in Forsp, Avslutt(r), f[r].reservert
    PROVE  LET n == Len(frek) + 1 IN
           /\ Len(frek) \in Nat /\ DOMAIN frek = 1..Len(frek) /\ DOMAIN frek' = 1..n
           /\ \A i \in DOMAIN frek : frek'[i] = frek[i] /\ frek[i] \in Plass
           /\ frek'[n].gruppe = f[r].hendelse.gruppe
           /\ frek'[n].naa = f[r].naa /\ frek'[n].maks = Grense(r)
  <1> DEFINE e == [gruppe |-> f[r].hendelse.gruppe, naa |-> f[r].naa,
                   maks |-> Grense(r)]
  <1>1. frek \in Seq(Plass) /\ frek' = Append(frek, e)
        BY DEF TypeInv, TypeOK, Avslutt, Plass
  <1>2. /\ Len(frek) \in Nat
        /\ DOMAIN frek = 1..Len(frek) /\ DOMAIN frek' = 1..(Len(frek) + 1)
        /\ \A i \in DOMAIN frek : frek'[i] = frek[i] /\ frek[i] \in Plass
        /\ frek'[Len(frek) + 1] = e
    <2> HIDE DEF e
    <2> QED BY <1>1
  <1> QED BY <1>2

(* A window with the new entry holds what was counted, and the new one.    *)
LEMMA VinduHolder ==
    ASSUME Grunn, FrekInv, NEW r \in Forsp, Avslutt(r), f[r].reservert,
           NEW t \in 0..MaksTid, NEW g \in Gruppe, IVindu(t, g)' # {}
    PROVE  \E i \in IVindu(t, g)' : Cardinality(IVindu(t, g)') <= frek'[i].maks
  <1> DEFINE n == Len(frek) + 1
             ny == IVindu(t, g)'
             gml == IVindu(t, g)
  <1>1. /\ Len(frek) \in Nat /\ DOMAIN frek = 1..Len(frek) /\ DOMAIN frek' = 1..n
        /\ \A i \in DOMAIN frek : frek'[i] = frek[i] /\ frek[i] \in Plass
        /\ frek'[n].gruppe = f[r].hendelse.gruppe
        /\ frek'[n].naa = f[r].naa /\ frek'[n].maks = Grense(r)
        BY FrekVokser DEF Grunn
  <1>2. gml \subseteq DOMAIN frek /\ n \notin gml
        BY <1>1 DEF IVindu
  <1>3. CASE n \notin ny
    <2>1. ny = gml
          BY <1>1, <1>3 DEF IVindu
    <2>2. PICK i \in gml : Cardinality(gml) <= frek[i].maks
          BY <2>1 DEF FrekInv, FrekvensHolder
    <2> QED BY <1>1, <1>2, <2>1, <2>2
  <1>4. CASE n \in ny
    <2>1. ny = gml \cup {n}
          BY <1>1, <1>4 DEF IVindu
    <2>2. g = f[r].hendelse.gruppe /\ f[r].naa \in t..(t + Vindu)
          BY <1>1, <1>4 DEF IVindu
    <2>3. gml \subseteq Talt(r)
      <3> SUFFICES ASSUME NEW i \in gml PROVE i \in Talt(r)
          OBVIOUS
      <3>1. i \in DOMAIN frek /\ frek[i].gruppe = g /\ frek[i].naa \in t..(t + Vindu)
            BY DEF IVindu
      <3>2. frek[i].naa \in Nat /\ f[r].naa \in Nat /\ Vindu \in Nat /\ t \in Nat
            BY <1>1, <3>1, BeslutningAntakelse DEF Plass, Grunn, TypeInv, ForespOK, Foresp
      <3>3. frek[i].naa + Vindu >= f[r].naa
            BY <2>2, <3>1, <3>2
      <3> QED BY <2>2, <3>1, <3>3 DEF Talt
    <2>4. IsFiniteSet(gml) /\ Cardinality(gml) \in Nat
          BY <1>2, Endelig DEF Grunn
    <2>5. IsFiniteSet(Talt(r)) /\ Cardinality(Talt(r)) \in Nat
      <3>1. Talt(r) \in SUBSET DOMAIN frek
            BY DEF Talt
      <3> QED BY <3>1, Endelig DEF Grunn
    <2>6. Cardinality(gml) <= Cardinality(Talt(r))
          BY <2>3, <2>5, FS_Subset
    <2>7. Cardinality(Talt(r)) < Grense(r)
          BY DEF FrekInv, Antall, Talt
    <2>8. Cardinality(ny) = Cardinality(gml) + 1
      <3> HIDE DEF ny, gml
      <3> QED BY <1>2, <2>1, <2>4, FS_AddElement
    <2>9. Grense(r) \in Nat
          BY DEF Grunn, TypeInv, ForespOK, Grense
    <2>10. Cardinality(ny) <= frek'[n].maks
           BY <1>1, <2>4, <2>5, <2>6, <2>7, <2>8, <2>9
    <2> QED BY <1>4, <2>10
  <1> QED BY <1>3, <1>4

LEMMA FrekSteg == Grunn /\ FrekInv /\ [Next]_vars => FrekInv'
  <1> SUFFICES ASSUME Grunn, FrekInv, [Next]_vars PROVE FrekInv'
      OBVIOUS
  <1> USE DEF Grunn
  <1>1. ASSUME NEW r \in Forsp, NEW k \in Nokkel, NEW h \in Hendelser, Send(r, k, h)
        PROVE  FrekInv'
    <2>1. f'[r].reservert = FALSE /\ frek' = frek
          BY <1>1 DEF Send, Tom, TypeInv, TypeOK
    <2>2. \A q \in Forsp \ {r} : f'[q] = f[q]
          BY <1>1, Andre
    <2> QED BY <2>1, <2>2 DEF FrekInv, Antall, Grense, FrekvensHolder, IVindu
  <1>2. ASSUME NEW r \in Forsp, Trinn(r) \/ Feil(r), ~Avslutt(r) PROVE FrekInv'
    <2>1. \A q \in Forsp \ {r} : f'[q] = f[q]
          BY <1>2, Andre
    <2>2. frek' = frek
          BY <1>2, Usett
    <2>3. ASSUME f'[r].reservert PROVE Antall(r)' < Grense(r)'
      <3>1. Reserver(r)
        <4>1. CASE FrekLaas(r)
          <5>1. f[r].steg = "frek" /\ f'[r].reservert = f[r].reservert
                BY <4>1 DEF FrekLaas, Videre, TypeInv, TypeOK, Foresp
          <5> QED BY <2>3, <5>1 DEF TypeInv, ForespOK
        <4> QED BY <1>2, <2>3, <4>1, Opphav
      <3>2. /\ f'[r].hendelse = f[r].hendelse /\ f'[r].naa = f[r].naa
            /\ f'[r].pol = f[r].pol
            BY <3>1 DEF Reserver, TypeInv, TypeOK, Foresp
      <3>3. ErPlass(r)
        <4> SUFFICES ASSUME ~ErPlass(r) PROVE FALSE
            OBVIOUS
        <4>1. f[r].reservert = FALSE
              BY <3>1 DEF Reserver, TypeInv, ForespOK, Foresp
        <4>2. f'[r].reservert = f[r].reservert
              BY <3>1 DEF Reserver, TypeInv, TypeOK, Foresp
        <4> QED BY <2>3, <4>1, <4>2
      <3>4. Grense(r) # Ingen
            BY <3>1, BeslutningAntakelse DEF Reserver, Grense, TypeInv, ForespOK
      <3>5. Antall(r)' = Antall(r) /\ Grense(r)' = Grense(r)
            BY <2>2, <3>2 DEF Antall, Grense
      <3> QED BY <3>3, <3>4, <3>5 DEF ErPlass
    <2>4. FrekvensHolder'
          BY <2>2 DEF FrekInv, FrekvensHolder, IVindu
    <2>5. ASSUME NEW q \in Forsp \ {r}, f'[q].reservert PROVE Antall(q)' < Grense(q)'
      <3>1. f'[q] = f[q]
            BY <2>1
      <3> QED BY <2>2, <2>5, <3>1 DEF FrekInv, Antall, Grense
    <2> QED BY <2>3, <2>4, <2>5 DEF FrekInv
  <1>3. ASSUME NEW r \in Forsp, Avslutt(r) PROVE FrekInv'
    <2>1. \A q \in Forsp \ {r} : f'[q] = f[q]
          BY <1>3, Andre DEF Trinn
    <2>2. f'[r].reservert = FALSE
          BY <1>3 DEF Avslutt, Slipp, Tom, TypeInv, TypeOK
    <2>3. CASE ~f[r].reservert
      <3>1. frek' = frek
            BY <1>3, <2>3 DEF Avslutt
      <3>2. FrekvensHolder'
            BY <3>1 DEF FrekInv, FrekvensHolder, IVindu
      <3>3. ASSUME NEW q \in Forsp, f'[q].reservert PROVE Antall(q)' < Grense(q)'
        <4>1. f'[q] = f[q]
              BY <2>1, <2>2, <3>3
        <4> QED BY <3>1, <3>3, <4>1 DEF FrekInv, Antall, Grense
      <3> QED BY <3>2, <3>3 DEF FrekInv
    <2>4. CASE f[r].reservert
      <3>1. ASSUME NEW q \in Forsp, f'[q].reservert
            PROVE  Antall(q)' < Grense(q)'
        <4>1. q # r /\ f'[q] = f[q]
              BY <2>1, <2>2, <3>1
        <4>2. f[q].hendelse.gruppe # f[r].hendelse.gruppe
          <5>1. /\ <<"frek", f[q].hendelse.gruppe>> \in laas[q]
                /\ <<"frek", f[r].hendelse.gruppe>> \in laas[r]
                /\ laas[q] \cap laas[r] = {}
                BY <2>4, <3>1, <4>1 DEF LaasInv
          <5> QED BY <5>1
        <4>3. Talt(q)' = Talt(q)
              BY <1>3, <2>4, <4>1, <4>2, FrekVokser DEF Talt
        <4> QED BY <3>1, <4>1, <4>3 DEF FrekInv, Antall, Talt, Grense
      <3>2. FrekvensHolder'
            BY <1>3, <2>4, VinduHolder DEF FrekvensHolder
      <3> QED BY <3>1, <3>2 DEF FrekInv
    <2> QED BY <2>3, <2>4
  <1>4. CASE UNCHANGED <<f, laas, idem, logg, brukt, frek>>
        BY <1>4 DEF FrekInv, Antall, Grense, FrekvensHolder, IVindu
  <1> QED BY <1>1, <1>2, <1>3, <1>4, Stegene

(* No window of the length the policy counts over holds more decisions of  *)
(* a group than the policies they were taken under allow, although each is *)
(* judged by the time it came: what is counted has no end (pg.py,          *)
(* kjerne._forsok_reservasjon), and the group's lock lasts to the commit.  *)
THEOREM Frekvens == Spec => []FrekvensHolder
  <1>1. Init => FrekInv
        BY DEF Init, FrekInv, Tom, FrekvensHolder, IVindu
  <1>2. FrekInv => FrekvensHolder
        BY DEF FrekInv
  <1> QED BY <1>1, <1>2, GrunnInvariant, FrekSteg, PTL DEF Spec

-----------------------------------------------------------------------------
(* Waiting.                                                                *)

(* Locks are taken in one order, and each only at its step.                *)
OrdenInv == \A r \in Forsp :
    /\ \A k \in Nokkel : <<"idem", k>> \in laas[r] => f[r].steg \in Inne
    /\ \A j \in Jti : <<"jti", j>> \in laas[r] =>
          /\ f[r].steg \in {"jti", "motor", "frek", "tell", "avslutt"}
          /\ f[r].steg = "jti" => \A k \in Igjen(r) : j < k
    /\ \A g \in Gruppe : <<"frek", g>> \in laas[r] => f[r].steg \in {"tell", "avslutt"}

(* Going on and taking a lock keep the order.                              *)
LEMMA OrdenVidere ==
    ASSUME Grunn, OrdenInv, NEW r \in Forsp, Trinn(r) \/ Feil(r)
    PROVE  /\ \A k \in Nokkel : <<"idem", k>> \in laas'[r] => f'[r].steg \in Inne
           /\ \A j \in Jti : <<"jti", j>> \in laas'[r] =>
                 /\ f'[r].steg \in {"jti", "motor", "frek", "tell", "avslutt"}
                 /\ f'[r].steg = "jti" => \A k \in Igjen(r)' : j < k
           /\ \A g \in Gruppe :
                 <<"frek", g>> \in laas'[r] => f'[r].steg \in {"tell", "avslutt"}
  <1> USE DEF Grunn
  <1>0. f[r] \in Foresp /\ laas \in [Forsp -> SUBSET Laas] /\ f \in [Forsp -> Foresp]
        BY DEF TypeInv, TypeOK
  <1>1. CASE Slipp(r)
        BY <1>0, <1>1 DEF Slipp
  <1>2. ASSUME NEW x, Videre(r, x) PROVE f'[r].steg = x
        BY <1>0, <1>2 DEF Videre, Foresp
  <1>3. ASSUME NEW x, Portstopp(r, x) PROVE f'[r].steg = "avslutt"
        BY <1>0, <1>3 DEF Portstopp, Foresp
  <1>4. ASSUME NEW l, Ta(r, l) PROVE laas'[r] = laas[r] \cup {l}
        BY <1>0, <1>4 DEF Ta
  <1>5. CASE Krev(r) /\ ~Slipp(r)
    <2>1. f[r].steg = "sendt" /\ f'[r].steg = "port"
          /\ laas'[r] = laas[r] \cup {<<"idem", f[r].nokkel>>}
          BY <1>2, <1>4, <1>5 DEF Krev
    <2> QED BY <2>1 DEF OrdenInv, Inne, Steg
  <1>6. CASE Attestasjonsport(r)
    <2>1. f[r].steg = "port" /\ f'[r].steg \in {"policy", "avslutt"} /\ laas' = laas
          BY <1>2, <1>3, <1>6 DEF Attestasjonsport
    <2> QED BY <2>1 DEF OrdenInv, Inne, Steg
  <1>7. CASE HentAktiv(r) /\ ~Slipp(r)
    <2>1. f[r].steg = "policy" /\ f'[r].steg \in {"jti", "motor", "avslutt"} /\ laas' = laas
          BY <1>0, <1>3, <1>7 DEF HentAktiv, Foresp
    <2> QED BY <2>1 DEF OrdenInv, Inne, Steg
  <1>8. CASE \E j \in Jti : JtiLaas(r, j)
    <2>1. PICK j \in Jti : JtiLaas(r, j)
          BY <1>8
    <2>2. f[r].steg = "jti" /\ f' = f /\ ErNeste(r, j)
          /\ laas'[r] = laas[r] \cup {<<"jti", j>>}
          BY <1>4, <2>1 DEF JtiLaas
    <2>3. Igjen(r)' = Igjen(r) \ {j}
          BY <2>2 DEF Igjen
    <2>4. f[r].hendelse.jti \subseteq Jti
          BY <2>2, LaasType
    <2>5. \A k \in Igjen(r) \ {j} : j < k
      <3> SUFFICES ASSUME NEW k \in Igjen(r) \ {j} PROVE j < k
          OBVIOUS
      <3>1. k \in Nat /\ j \in Nat
            BY <2>4, BeslutningAntakelse DEF Igjen
      <3>2. j <= k
            BY <2>2 DEF ErNeste
      <3> QED BY <3>1, <3>2
    <2>6. \A i \in Jti : <<"jti", i>> \in laas'[r] => \A k \in Igjen(r)' : i < k
          BY <2>2, <2>3, <2>5 DEF OrdenInv
    <2> QED BY <2>2, <2>6 DEF OrdenInv, Inne, Steg
  <1>9. CASE JtiSjekk(r)
    <2>1. f[r].steg = "jti" /\ f'[r].steg \in {"motor", "avslutt"} /\ laas' = laas
          BY <1>2, <1>3, <1>9 DEF JtiSjekk
    <2> QED BY <2>1 DEF OrdenInv, Inne, Steg
  <1>10. CASE Motor(r)
    <2>1. f[r].steg = "motor" /\ laas' = laas
          BY <1>10 DEF Motor
    <2>2. f'[r].steg \in {"frek", "avslutt"}
      <3>1. CASE \E u \in Utfall : f' = [f EXCEPT ![r].steg = "avslutt", ![r].dom = u]
            BY <1>0, <3>1 DEF Foresp
      <3> QED BY <1>2, <1>10, <3>1 DEF Motor
    <2> QED BY <2>1, <2>2 DEF OrdenInv, Inne, Steg
  <1>11. CASE FrekLaas(r)
    <2>1. f[r].steg = "frek" /\ f'[r].steg = "tell"
          /\ laas'[r] = laas[r] \cup {<<"frek", f[r].hendelse.gruppe>>}
          BY <1>2, <1>4, <1>11 DEF FrekLaas
    <2> QED BY <2>1 DEF OrdenInv, Inne, Steg
  <1>12. CASE Reserver(r)
    <2>1. f[r].steg = "tell" /\ f'[r].steg = "avslutt" /\ laas' = laas
          BY <1>0, <1>12 DEF Reserver, Foresp
    <2> QED BY <2>1 DEF OrdenInv, Inne, Steg
  <1> QED BY <1>1, <1>5, <1>6, <1>7, <1>8, <1>9, <1>10, <1>11, <1>12
          DEF Trinn, Avslutt, Feil

LEMMA OrdenSteg == Grunn /\ OrdenInv /\ [Next]_vars => OrdenInv'
  <1> SUFFICES ASSUME Grunn, OrdenInv, [Next]_vars PROVE OrdenInv'
      OBVIOUS
  <1> USE DEF Grunn
  <1>1. ASSUME NEW r \in Forsp, NEW k \in Nokkel, NEW h \in Hendelser, Send(r, k, h)
        PROVE  OrdenInv'
    <2>1. laas'[r] = {} /\ laas' = laas
          BY <1>1 DEF Send, TypeInv, TypeOK
    <2>2. \A q \in Forsp \ {r} : f'[q] = f[q]
          BY <1>1, Andre
    <2> QED BY <2>1, <2>2 DEF OrdenInv, Igjen
  <1>2. ASSUME NEW r \in Forsp, Trinn(r) \/ Feil(r) PROVE OrdenInv'
    <2>1. \A q \in Forsp \ {r} : f'[q] = f[q] /\ laas'[q] = laas[q]
          BY <1>2, Andre
    <2> QED BY <1>2, <2>1, OrdenVidere DEF OrdenInv, Igjen
  <1>3. CASE UNCHANGED <<f, laas, idem, logg, brukt, frek>>
        BY <1>3 DEF OrdenInv, Igjen
  <1> QED BY <1>1, <1>2, <1>3, Stegene

(* Of finitely many things one is of the greatest measure: the set of      *)
(* those of greater measure cannot shrink for ever.                        *)
LEMMA StorsteMaal ==
    ASSUME NEW S, IsFiniteSet(S), S # {}, NEW w, \A s \in S : w[s] \in Nat
    PROVE  \E m \in S : \A n \in S : w[n] <= w[m]
  <1> DEFINE Over(m) == {n \in S : w[n] > w[m]}
             T == {Over(m) : m \in S}
             R == StrictSubsetOrdering(S)
  <1>1. IsWellFoundedOn(R, SUBSET S)
        BY FS_StrictSubsetOrderingWellFounded, FS_FiniteSubsetsOfFinite
  <1>2. T \subseteq SUBSET S /\ T # {}
        OBVIOUS
  <1>3. PICK x \in T : \A y \in T : ~(<<y, x>> \in R)
    <2> HIDE DEF T, R
    <2> QED BY <1>1, <1>2, WFMin, Zenon
  <1>4. PICK m \in S : x = Over(m)
        BY <1>3
  <1>5. ASSUME NEW n \in S, w[n] > w[m] PROVE FALSE
    <2>1. Over(n) \subseteq Over(m)
          BY <1>5
    <2>2. n \in Over(m) /\ n \notin Over(n)
          BY <1>5
    <2>3. <<Over(n), Over(m)>> \in R
          BY <2>1, <2>2 DEF StrictSubsetOrdering
    <2>4. Over(n) \in T
          OBVIOUS
    <2> HIDE DEF Over, T, R
    <2> QED BY <1>3, <1>4, <2>3, <2>4
  <1> QED BY <1>5

(* No circle, by the order: counting waits for nobody, a jti only for a    *)
(* greater one, the deletion only for those past the policy, the policy    *)
(* only for the deletion, and a key only for those inside.                 *)
LEMMA Vranglaasfri == Grunn /\ OrdenInv => IngenVranglaas
  <1> SUFFICES ASSUME Grunn, OrdenInv, NEW S \in SUBSET Aktor, S # {},
                      \A x \in S : VenterPaa(x) \cap S # {}
               PROVE  FALSE
      BY DEF IngenVranglaas
  <1> USE DEF Grunn
  <1>0. "sletting" \notin Forsp /\ \A r \in Forsp : f[r] \in Foresp
        BY BeslutningAntakelse DEF TypeInv, TypeOK
  <1>1. ASSUME NEW r \in S \cap Forsp
        PROVE  \/ \E q \in (S \cap Forsp) \ {r} : Vil(r) \cap laas[q] # {}
               \/ f[r].steg = "policy" /\ "sletting" \in S
        BY <1>0, <1>1 DEF VenterPaa
  <1>2. \A r \in S \cap Forsp : f[r].steg \in {"sendt", "policy", "jti", "frek"}
    <2> SUFFICES ASSUME NEW r \in S \cap Forsp,
                        f[r].steg \notin {"sendt", "policy", "jti", "frek"}
                 PROVE  FALSE
        OBVIOUS
    <2>1. Vil(r) = {}
          BY DEF Vil
    <2> QED BY <1>1, <2>1
  <1>3. \A r \in S \cap Forsp : f[r].steg # "frek"
    <2> SUFFICES ASSUME NEW r \in S \cap Forsp, f[r].steg = "frek" PROVE FALSE
        OBVIOUS
    <2>1. f[r].hendelse.gruppe \in Gruppe
          BY HendelserAntakelse DEF TypeInv, ForespOK, Hendelse
    <2>2. PICK q \in S \cap Forsp : <<"frek", f[r].hendelse.gruppe>> \in laas[q]
          BY <1>1 DEF Vil
    <2>3. f[q].steg \in {"tell", "avslutt"}
          BY <2>1, <2>2 DEF OrdenInv
    <2> QED BY <1>2, <2>3
  <1>4. \A r \in S \cap Forsp : f[r].steg # "jti"
    <2> DEFINE J == {r \in S \cap Forsp : f[r].steg = "jti"}
               w == [r \in J |-> CHOOSE j \in Jti : ErNeste(r, j)]
    <2> SUFFICES ASSUME J # {} PROVE FALSE
        OBVIOUS
    <2>1. ASSUME NEW r \in J
          PROVE  \E q \in J : w[r] \in Nat /\ w[q] > w[r]
      <3>1. PICK q \in (S \cap Forsp) \ {r} : Vil(r) \cap laas[q] # {}
            BY <1>1, <2>1
      <3>2. Vil(r) = {<<"jti", j>> : j \in {i \in Jti : ErNeste(r, i)}}
            BY <2>1 DEF Vil
      <3>3. PICK j \in Jti : ErNeste(r, j) /\ <<"jti", j>> \in laas[q]
            BY <3>1, <3>2
      <3>4. Jti \subseteq Nat
            BY BeslutningAntakelse
      <3>5. \A i \in Jti : ErNeste(r, i) => i = j
            BY <3>3, <3>4 DEF ErNeste
      <3>6. w[r] = j
            BY <2>1, <3>3, <3>5
      <3>7. q \in J /\ \A k \in Igjen(q) : j < k
            BY <1>2, <1>3, <3>3 DEF OrdenInv
      <3>8. \E i \in Jti : ErNeste(q, i)
        <4>1. Vil(q) # {}
              BY <1>1, <3>7
        <4>2. Vil(q) = {<<"jti", i>> : i \in {n \in Jti : ErNeste(q, n)}}
              BY <3>7 DEF Vil
        <4> QED BY <4>1, <4>2
      <3>9. w[q] \in Jti /\ ErNeste(q, w[q])
            BY <3>7, <3>8
      <3>10. w[q] > j
        <4> HIDE DEF w
        <4> QED BY <3>3, <3>4, <3>7, <3>9 DEF ErNeste
      <3> HIDE DEF w, J
      <3> QED BY <3>3, <3>4, <3>6, <3>7, <3>10
    <2>2. IsFiniteSet(J)
      <3>1. J \subseteq Forsp
            OBVIOUS
      <3> HIDE DEF J
      <3> QED BY <3>1, FS_Subset, BeslutningAntakelse
    <2>3. PICK m \in J : \A n \in J : w[n] <= w[m]
      <3> HIDE DEF w, J
      <3> QED BY <2>1, <2>2, StorsteMaal
    <2> HIDE DEF w, J
    <2> QED BY <2>1, <2>3
  <1>5. "sletting" \notin S
    <2> SUFFICES ASSUME "sletting" \in S PROVE FALSE
        OBVIOUS
    <2>1. PICK r \in S \cap Forsp : DelerPolicy(r)
          BY <1>0 DEF VenterPaa, Aktor
    <2> QED BY <1>2, <1>3, <1>4, <2>1 DEF DelerPolicy
  <1>6. \A r \in S \cap Forsp : f[r].steg # "policy"
    <2> SUFFICES ASSUME NEW r \in S \cap Forsp, f[r].steg = "policy" PROVE FALSE
        OBVIOUS
    <2>1. Vil(r) = {}
          BY DEF Vil
    <2> QED BY <1>1, <1>5, <2>1
  <1>7. PICK r \in S \cap Forsp : f[r].steg = "sendt"
        BY <1>2, <1>3, <1>4, <1>5, <1>6 DEF Aktor
  <1>8. f[r].nokkel \in Nokkel
        BY <1>7 DEF TypeInv, ForespOK
  <1>9. PICK q \in S \cap Forsp : <<"idem", f[r].nokkel>> \in laas[q]
        BY <1>1, <1>5, <1>7 DEF Vil
  <1>10. f[q].steg \in Inne
         BY <1>8, <1>9 DEF OrdenInv
  <1> QED BY <1>2, <1>3, <1>4, <1>6, <1>10 DEF Inne

(* No circle of requests and a deletion, each waiting for the next, for    *)
(* any number of requests and any sets of attestations: jti_liste is       *)
(* sorted, and the kinds of locks are taken in one order.                  *)
THEOREM Fremkommelig == Spec => []IngenVranglaas
  <1>1. Init => OrdenInv
        BY DEF Init, OrdenInv
  <1>2. Grunn /\ OrdenInv => IngenVranglaas
        BY Vranglaasfri
  <1> QED BY <1>1, <1>2, GrunnInvariant, OrdenSteg, PTL DEF Spec
=============================================================================
