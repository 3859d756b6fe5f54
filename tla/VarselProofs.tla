---------------------------- MODULE VarselProofs ----------------------------
(* Theorems about notices and their mails, for any number of recipients,   *)
(* rounds, senders and attempts.                                           *)
EXTENDS Varsel, TLAPS

-----------------------------------------------------------------------------
(* Types.  A sender with a mail in hand has the claim it took it by.       *)

RundeType == [st: {"ingen", "apen", "lukket"}, forfalt: BOOLEAN, av: SUBSET Bruker]
KanalType == [valg: Kanal, nr: 0..MaksBytter]
FType == [steg: Steg, kun: SUBSET Bruker, rader: SUBSET Nokkel, tatt: BOOLEAN,
          klaim: Klaim \cup {Ingen}]

Aktiv(s) == f[s].steg \in {"smtp", "ok", "nei"}
AktivOK == \A s \in Sender : Aktiv(s) => f[s].klaim \in Klaim
TypInv == TypeOK /\ AktivOK

LEMMA Typer == TypeOK <=> /\ runde \in [Runde -> RundeType]
                          /\ kanal \in [Bruker -> KanalType]
                          /\ rad \in [Nokkel -> Rad]
                          /\ f \in [Sender -> FType]
                          /\ levert \subseteq Klaim /\ tapt \subseteq Klaim
                          /\ urydda \subseteq Nokkel
  BY DEF TypeOK, RundeType, KanalType, FType

LEMMA UtenType == ASSUME NEW i \in 0..MaksId PROVE Uten(i) \in Rad
  BY VarselAntatt DEF Uten, Rad

LEMMA AvType == Av \in FType
  BY DEF Av, FType, Steg

LEMMA AvlystType ==
  ASSUME NEW r \in Rad
  PROVE  /\ Avlyst(r.st) \in {"ingen", "koet", "under_sending", "sendt",
                              "feilet", "ikke_aktuelt"}
         /\ Avlyst(r.st) # "koet"
         /\ r.st \notin IKo => Avlyst(r.st) = r.st
         /\ r.st \in IKo => Avlyst(r.st) = "ikke_aktuelt"
  BY DEF Avlyst, IKo, Rad

(* What the opening of a round makes of a row.                             *)
LEMMA OpprettetType ==
  ASSUME NEW k \in Nokkel, NEW r \in Rad
  PROVE  /\ Opprettet(k, r) \in Rad
         /\ \/ Opprettet(k, r) = r
            \/ /\ r.st = "ingen"
               /\ Opprettet(k, r).st \in {"koet", "ikke_aktuelt"}
               /\ Opprettet(k, r).id = r.id + 1
  <1>1. CASE r.st = "ingen" /\ r.id < MaksId
        <2>1. r.id + 1 \in 0..MaksId
              BY <1>1, VarselAntatt DEF Rad
        <2>2. Uten(r.id + 1) \in Rad
              BY <2>1, UtenType
        <2> QED BY <1>1, <2>1, <2>2 DEF Opprettet, Rad, Uten
  <1>2. CASE ~(r.st = "ingen" /\ r.id < MaksId)
        BY <1>2 DEF Opprettet
  <1> QED BY <1>1, <1>2

(* A retired row is read and in no queue, and otherwise what it was.       *)
LEMMA PensjonertType ==
  ASSUME NEW r \in Rad
  PROVE  LET p == Pensjonert(r) IN
         /\ p \in Rad
         /\ p.id = r.id /\ p.forsok = r.forsok /\ p.klaim = r.klaim
         /\ p.st = r.st \/ (r.st \in IKo /\ p.st = "ikke_aktuelt")
         /\ p.st # "ingen" => p.lest /\ p.st # "koet"
  BY AvlystType DEF Pensjonert, Rad, IKo

LEMMA RyddetType ==
  ASSUME NEW R \in [Nokkel -> Rad], NEW ks, NEW feilet \in SUBSET ks,
         feilet \subseteq Nokkel, urydda \subseteq Nokkel, Ryddet(R, ks, feilet)
  PROVE  /\ rad' \in [Nokkel -> Rad]
         /\ urydda' \subseteq Nokkel
         /\ \A k \in Nokkel : rad'[k] = R[k] \/ rad'[k] = Pensjonert(R[k])
         /\ \A k \in Nokkel \cap ks :
               rad'[k].st # "ingen" /\ k \notin urydda'
                   => rad'[k].lest /\ rad'[k].st # "koet"
         /\ \A k \in Nokkel \ ks : rad'[k] = R[k] /\ (k \in urydda' <=> k \in urydda)
  <1>1. rad' = [k \in Nokkel |-> IF k \in ks \ feilet THEN Pensjonert(R[k]) ELSE R[k]]
        BY DEF Ryddet, Pensjoner
  <1>2. urydda' = (urydda \ ks) \cup {k \in feilet : R[k].st # "ingen"}
        BY DEF Ryddet
  <1>3. \A k \in Nokkel : R[k] \in Rad /\ Pensjonert(R[k]) \in Rad
        BY PensjonertType
  <1>4. rad' \in [Nokkel -> Rad]
        BY <1>1, <1>3
  <1>5. ASSUME NEW k \in Nokkel \cap ks, rad'[k].st # "ingen", k \notin urydda'
        PROVE  rad'[k].lest /\ rad'[k].st # "koet"
        <2>1. CASE k \in feilet
              BY <1>1, <1>2, <1>5, <2>1
        <2>2. CASE k \notin feilet
              BY <1>1, <1>5, <2>2, PensjonertType
        <2> QED BY <2>1, <2>2
  <1> QED BY <1>1, <1>2, <1>4, <1>5

LEMMA RyddType ==
  ASSUME NEW R \in [Nokkel -> Rad], NEW ks \in SUBSET Nokkel,
         urydda \subseteq Nokkel, Rydd(R, ks)
  PROVE  \E feilet \in SUBSET ks : Ryddet(R, ks, feilet)
  BY DEF Rydd

LEMMA OmType == ASSUME NEW n \in Runde PROVE Om(n) \in SUBSET Nokkel
  BY DEF Om, Nokkel

-----------------------------------------------------------------------------
(* What the steps of the portal do to a row: nothing, call its mail off,   *)
(* delete it unless a sender has it, or make a new one.                    *)
Rolig(r, q) ==
    \/ /\ q.id = r.id /\ q.forsok = r.forsok /\ q.klaim = r.klaim
       /\ q.st = r.st \/ (r.st \in IKo /\ q.st = "ikke_aktuelt")
    \/ r.st # "under_sending" /\ q.st = "ingen" /\ q.id = r.id
    \/ r.st = "ingen" /\ q.st \in {"koet", "ikke_aktuelt"} /\ q.id = r.id + 1

Portal == /\ UNCHANGED <<f, levert, tapt>>
          /\ rad' \in [Nokkel -> Rad]
          /\ \A k \in Nokkel : Rolig(rad[k], rad'[k])

LEMMA RoligRydd ==
  ASSUME NEW r \in Rad, NEW m \in Rad, Rolig(r, m),
         m = r \/ (r.st = "ingen" /\ m.st \in {"koet", "ikke_aktuelt"} /\ m.id = r.id + 1),
         NEW q, q = m \/ q = Pensjonert(m)
  PROVE  Rolig(r, q)
  BY PensjonertType DEF Rolig, IKo

-----------------------------------------------------------------------------
(* Typekorrekt.                                                            *)

LEMMA TypInit == Init => TypInv
  <1> SUFFICES ASSUME Init PROVE TypInv
      OBVIOUS
  <1>1. Uten(0) \in Rad
        BY UtenType, VarselAntatt
  <1>2. runde \in [Runde -> RundeType] /\ kanal \in [Bruker -> KanalType]
        BY VarselAntatt DEF Init, RundeType, KanalType, Kanal
  <1>3. TypeOK
        BY <1>1, <1>2, AvType, Typer DEF Init
  <1>4. AktivOK
        BY DEF Init, AktivOK, Aktiv, Av
  <1> QED BY <1>3, <1>4 DEF TypInv

(* The steps of the portal, one by one.                                    *)
LEMMA PortalSteg ==
  ASSUME TypInv,
         \/ \E n \in Runde : \/ ApneRunde(n) \/ Forfaller(n) \/ TrekkTilbake(n)
                             \/ ForsonVarsling(n)
                             \/ \E b \in Bruker : Attester(b, n)
         \/ \E b \in Bruker : ForsonPensjonering(b) \/ SettKanal(b)
         \/ \E k \in Nokkel : MerkLest(k) \/ Slett(k) \/ Tid(k)
  PROVE  TypInv' /\ Portal
  <1> USE DEF TypInv
  <1>0. /\ runde \in [Runde -> RundeType] /\ kanal \in [Bruker -> KanalType]
        /\ rad \in [Nokkel -> Rad] /\ f \in [Sender -> FType]
        /\ levert \subseteq Klaim /\ tapt \subseteq Klaim /\ urydda \subseteq Nokkel
        BY Typer
  <1>a. ASSUME UNCHANGED <<f, levert, tapt>>, runde' \in [Runde -> RundeType],
               kanal' \in [Bruker -> KanalType], urydda' \subseteq Nokkel,
               rad' \in [Nokkel -> Rad], \A k \in Nokkel : Rolig(rad[k], rad'[k])
        PROVE  TypInv' /\ Portal
        BY <1>0, <1>a DEF Portal, AktivOK, Aktiv, TypeOK, RundeType, KanalType, FType
  <1>b. \A k \in Nokkel : Rolig(rad[k], rad[k])
        BY DEF Rolig
  <1>c. ASSUME NEW R \in [Nokkel -> Rad],
               \A k \in Nokkel :
                  \/ R[k] = rad[k]
                  \/ /\ rad[k].st = "ingen" /\ R[k].st \in {"koet", "ikke_aktuelt"}
                     /\ R[k].id = rad[k].id + 1,
               NEW ks \in SUBSET Nokkel, NEW feilet \in SUBSET ks, Ryddet(R, ks, feilet)
        PROVE  /\ rad' \in [Nokkel -> Rad] /\ urydda' \subseteq Nokkel
               /\ \A k \in Nokkel : Rolig(rad[k], rad'[k])
        <2>1. /\ rad' \in [Nokkel -> Rad] /\ urydda' \subseteq Nokkel
              /\ \A k \in Nokkel : rad'[k] = R[k] \/ rad'[k] = Pensjonert(R[k])
              BY <1>0, <1>c, RyddetType
        <2>2. ASSUME NEW k \in Nokkel PROVE Rolig(rad[k], rad'[k])
              <3>1. rad[k] \in Rad /\ R[k] \in Rad /\ Rolig(rad[k], R[k])
                    BY <1>0, <1>c DEF Rolig
              <3> QED BY <3>1, <2>1, <1>c, RoligRydd
        <2> QED BY <2>1, <2>2
  <1>d. ASSUME NEW hvem \in SUBSET Bruker, NEW n \in Runde
        PROVE  LET R == [k \in Nokkel |-> IF k \in hvem \X {n}
                                          THEN Opprettet(k, rad[k]) ELSE rad[k]]
               IN  /\ R \in [Nokkel -> Rad]
                   /\ \A k \in Nokkel :
                        \/ R[k] = rad[k]
                        \/ /\ rad[k].st = "ingen" /\ R[k].st \in {"koet", "ikke_aktuelt"}
                           /\ R[k].id = rad[k].id + 1
        BY <1>0, OpprettetType
  <1>1. ASSUME NEW n \in Runde, ApneRunde(n) PROVE TypInv' /\ Portal
        <2> DEFINE forrige == {m \in Runde : runde[m].st = "apen"}
                   ks == UNION {Om(m) : m \in forrige}
        <2>1. runde' \in [Runde -> RundeType] /\ UNCHANGED <<kanal, f, levert, tapt>>
              <3>1. runde' = [m \in Runde |-> IF m = n THEN [runde[m] EXCEPT !.st = "apen"]
                                 ELSE IF m \in forrige
                                 THEN [runde[m] EXCEPT !.st = "lukket"] ELSE runde[m]]
                    BY <1>1 DEF ApneRunde
              <3>2. UNCHANGED <<kanal, f, levert, tapt>>
                    BY <1>1 DEF ApneRunde
              <3>3. ASSUME NEW m \in Runde
                    PROVE  /\ runde[m] \in RundeType
                           /\ [runde[m] EXCEPT !.st = "apen"] \in RundeType
                           /\ [runde[m] EXCEPT !.st = "lukket"] \in RundeType
                    BY <1>0 DEF RundeType
              <3> HIDE DEF forrige
              <3> QED BY <3>1, <3>2, <3>3
        <2>2. PICK hvem \in SUBSET Bruker :
                 Rydd([k \in Nokkel |-> IF k \in hvem \X {n}
                                        THEN Opprettet(k, rad[k]) ELSE rad[k]], ks)
              BY <1>1 DEF ApneRunde
        <2>3. ks \in SUBSET Nokkel
              BY OmType
        <2>4. PICK feilet \in SUBSET ks :
                 Ryddet([k \in Nokkel |-> IF k \in hvem \X {n}
                                          THEN Opprettet(k, rad[k]) ELSE rad[k]], ks, feilet)
              BY <1>0, <1>d, <2>2, <2>3, RyddType
        <2> QED BY <1>0, <1>a, <1>c, <1>d, <2>1, <2>3, <2>4
  <1>2. ASSUME NEW n \in Runde, Forfaller(n) PROVE TypInv' /\ Portal
        <2>1. runde' \in [Runde -> RundeType]
              BY <1>0, <1>2 DEF Forfaller, RundeType
        <2> QED BY <1>0, <1>a, <1>b, <1>2, <2>1 DEF Forfaller
  <1>3. ASSUME NEW n \in Runde, TrekkTilbake(n) PROVE TypInv' /\ Portal
        <2>1. runde' \in [Runde -> RundeType] /\ UNCHANGED <<kanal, f, levert, tapt>>
              BY <1>0, <1>3 DEF TrekkTilbake, RundeType
        <2>2. PICK feilet \in SUBSET Om(n) : Ryddet(rad, Om(n), feilet)
              BY <1>0, <1>3, OmType, RyddType DEF TrekkTilbake
        <2> QED BY <1>0, <1>a, <1>c, <2>1, <2>2, OmType
  <1>4. ASSUME NEW n \in Runde, ForsonVarsling(n) PROVE TypInv' /\ Portal
        <2>1. PICK hvem \in SUBSET (Bruker \ runde[n].av) :
                 rad' = [k \in Nokkel |-> IF k \in hvem \X {n}
                                          THEN Opprettet(k, rad[k]) ELSE rad[k]]
              BY <1>4 DEF ForsonVarsling
        <2>2. hvem \in SUBSET Bruker
              OBVIOUS
        <2>3. rad' \in [Nokkel -> Rad] /\ \A k \in Nokkel : Rolig(rad[k], rad'[k])
              BY <1>0, <1>d, <2>1, <2>2 DEF Rolig
        <2> QED BY <1>0, <1>a, <1>4, <2>3 DEF ForsonVarsling
  <1>5. ASSUME NEW n \in Runde, NEW b \in Bruker, Attester(b, n) PROVE TypInv' /\ Portal
        <2>1. runde' \in [Runde -> RundeType] /\ UNCHANGED <<kanal, f, levert, tapt>>
              BY <1>0, <1>5 DEF Attester, RundeType
        <2>2. <<b, n>> \in Om(n)
              BY DEF Om
        <2>3. \E ks \in SUBSET Nokkel : \E feilet \in SUBSET ks : Ryddet(rad, ks, feilet)
              <3>1. CASE Rydd(rad, {<<b, n>>})
                    BY <1>0, <2>2, <3>1, OmType, RyddType
              <3>2. CASE Rydd(rad, Om(n))
                    BY <1>0, <3>2, OmType, RyddType
              <3>3. CASE Ryddet(rad, Om(n), Om(n) \ {<<b, n>>})
                    BY <3>3, OmType
              <3> QED BY <1>5, <3>1, <3>2, <3>3 DEF Attester
        <2> QED BY <1>0, <1>a, <1>c, <2>1, <2>3
  <1>6. ASSUME NEW b \in Bruker, ForsonPensjonering(b) PROVE TypInv' /\ Portal
        <2>1. PICK R \in SUBSET Runde : Ryddet(rad, {k \in Foreldet(b) : k[2] \in R}, {})
              BY <1>6 DEF ForsonPensjonering
        <2>2. {k \in Foreldet(b) : k[2] \in R} \in SUBSET Nokkel
              BY DEF Foreldet
        <2> QED BY <1>0, <1>a, <1>c, <1>6, <2>1, <2>2 DEF ForsonPensjonering
  <1>7. ASSUME NEW b \in Bruker, SettKanal(b) PROVE TypInv' /\ Portal
        <2>1. PICK v \in Kanal :
                 /\ kanal' = [kanal EXCEPT ![b] = [valg |-> v, nr |-> @.nr + 1]]
                 /\ rad' = [k \in Nokkel |-> IF k[1] = b /\ v = "kun_portal"
                                             THEN [rad[k] EXCEPT !.st = Avlyst(@)] ELSE rad[k]]
              BY <1>7 DEF SettKanal
        <2>2. kanal' \in [Bruker -> KanalType]
              BY <1>0, <1>7, <2>1, VarselAntatt DEF SettKanal, KanalType
        <2>3. ASSUME NEW k \in Nokkel
              PROVE  /\ [rad[k] EXCEPT !.st = Avlyst(@)] \in Rad
                     /\ Rolig(rad[k], [rad[k] EXCEPT !.st = Avlyst(@)])
              <3>1. rad[k] \in Rad
                    BY <1>0
              <3> QED BY <3>1, AvlystType DEF Rad, Rolig
        <2>4. rad' \in [Nokkel -> Rad] /\ \A k \in Nokkel : Rolig(rad[k], rad'[k])
              BY <1>0, <1>b, <2>1, <2>3
        <2> QED BY <1>0, <1>a, <1>7, <2>2, <2>4 DEF SettKanal
  <1>8. ASSUME NEW k \in Nokkel, MerkLest(k) \/ Slett(k) \/ Tid(k) PROVE TypInv' /\ Portal
        <2>1. rad[k] \in Rad /\ Uten(rad[k].id) \in Rad
              BY <1>0, UtenType DEF Rad
        <2>2. PICK q \in Rad : rad' = [rad EXCEPT ![k] = q] /\ Rolig(rad[k], q)
              <3>1. CASE MerkLest(k)
                    <4> DEFINE q == [rad[k] EXCEPT !.lest = TRUE, !.st = Avlyst(@)]
                    <4>1. rad' = [rad EXCEPT ![k] = q]
                          BY <1>0, <3>1 DEF MerkLest
                    <4>2. q \in Rad /\ Rolig(rad[k], q)
                          BY <2>1, AvlystType DEF Rad, Rolig
                    <4> HIDE DEF q
                    <4> QED BY <4>1, <4>2
              <3>2. CASE Slett(k)
                    BY <1>0, <2>1, <3>2 DEF Slett, Rolig, Uten
              <3>3. CASE Tid(k)
                    <4> DEFINE q == [rad[k] EXCEPT !.gammel = TRUE]
                    <4>1. rad' = [rad EXCEPT ![k] = q]
                          BY <1>0, <3>3 DEF Tid
                    <4>2. q \in Rad /\ Rolig(rad[k], q)
                          BY <2>1 DEF Rad, Rolig
                    <4> HIDE DEF q
                    <4> QED BY <4>1, <4>2
              <3> QED BY <1>8, <3>1, <3>2, <3>3
        <2>3. rad' \in [Nokkel -> Rad] /\ \A j \in Nokkel : Rolig(rad[j], rad'[j])
              BY <1>0, <1>b, <2>2
        <2>4. UNCHANGED <<runde, kanal, f, levert, tapt>> /\ urydda' \subseteq Nokkel
              BY <1>0, <1>8 DEF MerkLest, Slett, Tid
        <2> QED BY <1>0, <1>a, <2>3, <2>4
  <1> QED BY <1>1, <1>2, <1>3, <1>4, <1>5, <1>6, <1>7, <1>8

(* The steps of a sender.                                                  *)
LEMMA SenderSteg ==
  ASSUME TypInv, NEW s \in Sender,
         \/ RekoeLes(s) \/ RekoeSkriv(s) \/ KlaimEpost(s)
         \/ Stans(s) \/ Smtp(s) \/ SettStatus(s) \/ Krasj(s)
  PROVE  TypInv'
  <1>0. /\ runde \in [Runde -> RundeType] /\ kanal \in [Bruker -> KanalType]
        /\ rad \in [Nokkel -> Rad] /\ f \in [Sender -> FType]
        /\ levert \subseteq Klaim /\ tapt \subseteq Klaim /\ urydda \subseteq Nokkel
        /\ AktivOK
        BY Typer DEF TypInv
  <1>a. ASSUME NEW g \in FType, f' = [f EXCEPT ![s] = g],
               g.steg \in {"smtp", "ok", "nei"} => g.klaim \in Klaim,
               rad' \in [Nokkel -> Rad], levert' \subseteq Klaim, tapt' \subseteq Klaim,
               UNCHANGED <<runde, kanal, urydda>>
        PROVE  TypInv'
        <2>1. f' \in [Sender -> FType] /\ AktivOK'
              BY <1>0, <1>a DEF AktivOK, Aktiv
        <2> QED BY <1>0, <1>a, <2>1 DEF TypInv, TypeOK, RundeType, KanalType, FType
  <1>b. f[s] \in FType
        BY <1>0
  <1>c. \A k \in Nokkel : Holder(k) \in Klaim
        BY <1>0 DEF Holder, Klaim, Rad
  <1>1. CASE RekoeLes(s)
        <2> DEFINE g == [Av EXCEPT !.steg = "rekoe", !.kun = {b \in Bruker : KunPortal(b)},
                                   !.rader = {k \in Nokkel : Rekoes(k)}]
        <2>1. g \in FType /\ g.steg = "rekoe"
              BY DEF Av, FType, Steg
        <2>2. f' = [f EXCEPT ![s] = g] /\ UNCHANGED <<runde, kanal, rad, levert, tapt, urydda>>
              BY <1>1 DEF RekoeLes
        <2> HIDE DEF g
        <2> QED BY <1>0, <1>a, <2>1, <2>2
  <1>2. CASE RekoeSkriv(s)
        <2> DEFINE ks == {k \in f[s].rader : Rekoes(k)}
        <2>1. ks \subseteq Nokkel
              BY <1>b DEF FType
        <2>2. rad' \in [Nokkel -> Rad]
              <3>1. rad' = [k \in Nokkel |-> IF k \in ks
                         THEN [rad[k] EXCEPT !.st = Tilbake(s, k), !.klaim = 0, !.gammel = FALSE]
                         ELSE rad[k]]
                    BY <1>2 DEF RekoeSkriv
              <3>2. \A k \in Nokkel :
                       [rad[k] EXCEPT !.st = Tilbake(s, k), !.klaim = 0, !.gammel = FALSE] \in Rad
                    <4> SUFFICES ASSUME NEW k \in Nokkel
                                 PROVE  [rad[k] EXCEPT !.st = Tilbake(s, k), !.klaim = 0,
                                                       !.gammel = FALSE] \in Rad
                        OBVIOUS
                    <4>1. Tilbake(s, k) \in {"ikke_aktuelt", "koet"}
                          BY DEF Tilbake
                    <4>2. rad[k] \in Rad /\ 0 \in 0..MaksForsok
                          BY <1>0, VarselAntatt
                    <4> QED BY <4>1, <4>2 DEF Rad
              <3> QED BY <1>0, <3>1, <3>2
        <2>3. tapt' \subseteq Klaim
              BY <1>0, <1>c, <1>2, <2>1 DEF RekoeSkriv
        <2> DEFINE g == [Av EXCEPT !.steg = "lokke"]
        <2>4. g \in FType /\ g.steg = "lokke"
              BY DEF Av, FType, Steg
        <2>5. f' = [f EXCEPT ![s] = g] /\ UNCHANGED <<runde, kanal, levert, urydda>>
              BY <1>2 DEF RekoeSkriv
        <2> HIDE DEF g
        <2> QED BY <1>0, <1>a, <2>2, <2>3, <2>4, <2>5
  <1>3. CASE KlaimEpost(s)
        <2>1. PICK k \in Nokkel :
                 /\ Klaimbar(k)
                 /\ rad' = [rad EXCEPT ![k].st = "under_sending", ![k].gammel = FALSE,
                                ![k].forsok = @ + 1, ![k].klaim = rad[k].forsok + 1]
                 /\ f' = [f EXCEPT ![s].steg = "smtp", ![s].tatt = TRUE,
                            ![s].klaim = [nokkel |-> k, id |-> rad[k].id,
                                          nr |-> rad[k].forsok + 1]]
              BY <1>3 DEF KlaimEpost
        <2>2. rad[k] \in Rad /\ rad[k].forsok + 1 \in 0..MaksForsok
              BY <1>0, <2>1, VarselAntatt DEF Klaimbar, Rad
        <2>3. rad' \in [Nokkel -> Rad]
              BY <1>0, <2>1, <2>2 DEF Rad
        <2> DEFINE c == [nokkel |-> k, id |-> rad[k].id, nr |-> rad[k].forsok + 1]
                   g == [f[s] EXCEPT !.steg = "smtp", !.tatt = TRUE, !.klaim = c]
        <2>4. c \in Klaim
              BY <2>2 DEF Klaim, Rad
        <2>5. g \in FType /\ g.klaim \in Klaim
              BY <1>b, <2>4 DEF FType, Steg
        <2>6. f' = [f EXCEPT ![s] = g] /\ UNCHANGED <<runde, kanal, levert, tapt, urydda>>
              BY <1>0, <1>3, <2>1 DEF KlaimEpost, FType
        <2> HIDE DEF g
        <2> QED BY <1>0, <1>a, <2>3, <2>5, <2>6
  <1>4. CASE Stans(s) \/ Krasj(s)
        <2>1. f' = [f EXCEPT ![s] = Av] /\ UNCHANGED <<runde, kanal, rad, levert, tapt, urydda>>
              BY <1>4 DEF Stans, Krasj
        <2>2. Av.steg = "av"
              BY DEF Av
        <2> QED BY <1>0, <1>a, <2>1, <2>2, AvType
  <1>5. CASE Smtp(s)
        <2>1. f[s].klaim \in Klaim
              BY <1>0, <1>5 DEF Smtp, AktivOK, Aktiv
        <2>2. PICK st \in {"ok", "nei"} : f' = [f EXCEPT ![s].steg = st]
              BY <1>5 DEF Smtp
        <2> DEFINE g == [f[s] EXCEPT !.steg = st]
        <2>3. g \in FType /\ g.klaim \in Klaim
              BY <1>b, <2>1 DEF FType, Steg
        <2>4. f' = [f EXCEPT ![s] = g]
              BY <1>0, <2>2 DEF FType
        <2>5. levert' \subseteq Klaim /\ tapt' \subseteq Klaim
              BY <1>0, <1>5, <2>1 DEF Smtp
        <2>6. UNCHANGED <<runde, kanal, rad, urydda>>
              BY <1>5 DEF Smtp
        <2> HIDE DEF g
        <2> QED BY <1>0, <1>a, <2>3, <2>4, <2>5, <2>6
  <1>6. CASE SettStatus(s)
        <2>1. f[s].klaim.nokkel \in Nokkel
              BY <1>0, <1>6 DEF SettStatus, AktivOK, Aktiv, Klaim
        <2>2. rad' \in [Nokkel -> Rad]
              <3> DEFINE k == f[s].klaim.nokkel
                         q == [rad[k] EXCEPT !.st = IF f[s].steg = "ok" THEN "sendt" ELSE "feilet",
                                             !.klaim = 0, !.gammel = FALSE]
              <3>1. rad[k] \in Rad /\ 0 \in 0..MaksForsok
                    BY <1>0, <2>1, VarselAntatt
              <3>2. q \in Rad
                    BY <3>1 DEF Rad
              <3>3. rad' = [rad EXCEPT ![k] = q] \/ rad' = rad
                    BY <1>0, <1>6, <2>1 DEF SettStatus
              <3> QED BY <1>0, <3>2, <3>3
        <2> DEFINE g == [f[s] EXCEPT !.steg = "lokke", !.klaim = Ingen]
        <2>3. g \in FType /\ g.steg = "lokke"
              BY <1>b DEF FType, Steg
        <2>4. f' = [f EXCEPT ![s] = g]
              BY <1>0, <1>6 DEF SettStatus, FType
        <2>5. UNCHANGED <<runde, kanal, levert, tapt, urydda>>
              BY <1>6 DEF SettStatus
        <2> HIDE DEF g
        <2> QED BY <1>0, <1>a, <2>2, <2>3, <2>4, <2>5
  <1> QED BY <1>1, <1>2, <1>3, <1>4, <1>5, <1>6

LEMMA TypNext == TypInv /\ [Next]_vars => TypInv'
  <1> SUFFICES ASSUME TypInv, [Next]_vars PROVE TypInv'
      OBVIOUS
  <1>1. CASE UNCHANGED vars
        BY <1>1 DEF vars, TypInv, TypeOK, AktivOK, Aktiv
  <1>2. CASE Next
        BY <1>2, PortalSteg, SenderSteg DEF Next
  <1> QED BY <1>1, <1>2

(* Every reachable state is well typed: no row is claimed more often than  *)
(* MaksForsok, whatever the senders do (varsel_rekoe, varsel_klaim_epost). *)
THEOREM Typekorrekt == Spec => []TypeOK
  <1>1. TypInv => TypeOK
        BY DEF TypInv
  <1> QED BY <1>1, TypInit, TypNext, PTL DEF Spec

-----------------------------------------------------------------------------
(* The mails.  A claim is known while a sender has it or once its mail was *)
(* accepted.  A known claim of the row there is now is either lost, or the *)
(* last word, or the one that is being sent; so of two known claims of one *)
(* row the earlier is lost.                                                *)
Kjent(p) == p \in levert \/ \E s \in Sender : Aktiv(s) /\ p = f[s].klaim

SvarOK == \A s \in Sender : /\ f[s].steg = "ok" => f[s].klaim \in levert
                            /\ f[s].steg = "nei" => f[s].klaim \in tapt
TokenOK == \A k \in Nokkel :
    rad[k].st = "under_sending" => rad[k].klaim = rad[k].forsok
Avgjort(p) == LET r == rad[p.nokkel] IN
    /\ p.id <= r.id
    /\ p.id = r.id /\ r.st # "ingen"
          => /\ p.nr <= r.forsok
             /\ \/ p \in tapt \/ r.st = "sendt"
                \/ r.st = "under_sending" /\ p.nr = r.klaim
KlaimOK == \A p \in Klaim : Kjent(p) => Avgjort(p)
Orden == \A p, q \in Klaim :
    Kjent(p) /\ Kjent(q) /\ p.nokkel = q.nokkel /\ p.id = q.id /\ p.nr < q.nr => p \in tapt

KlaimInv == SvarOK /\ TokenOK /\ SendtErSendt /\ KlaimOK /\ Orden

LEMMA KlaimInit == Init => KlaimInv
  <1> SUFFICES ASSUME Init PROVE KlaimInv
      OBVIOUS
  <1>1. \A s \in Sender : f[s].steg = "av"
        BY DEF Init, Av
  <1>2. \A k \in Nokkel : rad[k].st = "ingen"
        BY DEF Init, Uten
  <1>3. \A p : ~Kjent(p)
        BY <1>1 DEF Kjent, Aktiv, Init
  <1> QED BY <1>1, <1>2, <1>3 DEF KlaimInv, SvarOK, TokenOK, SendtErSendt, KlaimOK, Orden

LEMMA KlaimPortal ==
  ASSUME TypInv, KlaimInv, Portal
  PROVE  KlaimInv'
  <1>0. rad \in [Nokkel -> Rad] /\ rad' \in [Nokkel -> Rad]
        BY Typer DEF TypInv, Portal
  <1>1. \A p : Kjent(p)' <=> Kjent(p)
        BY DEF Kjent, Aktiv, Portal
  <1>2. SvarOK'
        BY DEF KlaimInv, SvarOK, Portal
  <1>3. TokenOK'
        BY <1>0 DEF KlaimInv, TokenOK, Portal, Rolig, IKo
  <1>4. SendtErSendt'
        <2> SUFFICES ASSUME NEW k \in Nokkel, rad'[k].st = "sendt"
                     PROVE  [nokkel |-> k, id |-> rad'[k].id, nr |-> rad'[k].forsok] \in levert
            BY DEF SendtErSendt, Portal
        <2>1. rad[k].st = "sendt" /\ rad'[k].id = rad[k].id /\ rad'[k].forsok = rad[k].forsok
              BY DEF Portal, Rolig
        <2> QED BY <2>1 DEF KlaimInv, SendtErSendt
  <1>5. KlaimOK'
        <2> SUFFICES ASSUME NEW p \in Klaim, Kjent(p) PROVE Avgjort(p)'
            BY <1>1 DEF KlaimOK
        <2>1. Avgjort(p) /\ p.nokkel \in Nokkel /\ p.id \in Nat
              BY VarselAntatt DEF KlaimInv, KlaimOK, Klaim
        <2>2. rad[p.nokkel] \in Rad /\ Rolig(rad[p.nokkel], rad'[p.nokkel])
              BY <1>0, <2>1 DEF Portal
        <2>3. tapt' = tapt /\ rad[p.nokkel].id \in Nat
              BY <2>2, VarselAntatt DEF Portal, Rad
        <2> QED BY <2>1, <2>2, <2>3 DEF Avgjort, Rolig, IKo
  <1>6. Orden'
        BY <1>1 DEF KlaimInv, Orden, Portal
  <1> QED BY <1>2, <1>3, <1>4, <1>5, <1>6 DEF KlaimInv

LEMMA KlaimSender ==
  ASSUME TypInv, KlaimInv, NEW s \in Sender,
         \/ RekoeLes(s) \/ RekoeSkriv(s) \/ KlaimEpost(s)
         \/ Stans(s) \/ Smtp(s) \/ SettStatus(s) \/ Krasj(s)
  PROVE  KlaimInv'
  <1>0. /\ rad \in [Nokkel -> Rad] /\ f \in [Sender -> FType]
        /\ levert \subseteq Klaim /\ tapt \subseteq Klaim /\ AktivOK
        BY Typer DEF TypInv
  <1>k. \A p \in Klaim : p.nokkel \in Nokkel /\ p.id \in Nat /\ p.nr \in Nat
        BY VarselAntatt DEF Klaim
  <1>r. \A k \in Nokkel : rad[k] \in Rad /\ rad[k].id \in Nat /\ rad[k].forsok \in Nat
                          /\ rad[k].klaim \in Nat
        BY <1>0, VarselAntatt DEF Rad
  <1>1. CASE RekoeLes(s) \/ Stans(s) \/ Krasj(s)
        <2>1. UNCHANGED <<rad, levert, tapt>>
              BY <1>1 DEF RekoeLes, Stans, Krasj
        <2>2. PICK g : f' = [f EXCEPT ![s] = g] /\ g.steg \in {"av", "rekoe"}
              <3>1. CASE RekoeLes(s)
                    <4> DEFINE g == [Av EXCEPT !.steg = "rekoe",
                                               !.kun = {b \in Bruker : KunPortal(b)},
                                               !.rader = {k \in Nokkel : Rekoes(k)}]
                    <4>1. f' = [f EXCEPT ![s] = g]
                          BY <3>1 DEF RekoeLes
                    <4>2. g.steg = "rekoe"
                          BY DEF Av
                    <4> HIDE DEF g
                    <4> QED BY <4>1, <4>2
              <3>2. CASE Stans(s) \/ Krasj(s)
                    <4>1. f' = [f EXCEPT ![s] = Av]
                          BY <3>2 DEF Stans, Krasj
                    <4>2. Av.steg = "av"
                          BY DEF Av
                    <4> QED BY <4>1, <4>2
              <3> QED BY <1>1, <3>1, <3>2
        <2>3. \A p : Kjent(p)' => Kjent(p)
              BY <1>0, <2>1, <2>2 DEF Kjent, Aktiv
        <2>4. SvarOK'
              BY <1>0, <2>1, <2>2 DEF KlaimInv, SvarOK
        <2> QED BY <2>1, <2>3, <2>4
                DEF KlaimInv, TokenOK, SendtErSendt, KlaimOK, Orden, Avgjort
  <1>2. CASE RekoeSkriv(s)
        <2> DEFINE ks == {k \in f[s].rader : Rekoes(k)}
        <2>1. /\ rad' = [k \in Nokkel |-> IF k \in ks
                   THEN [rad[k] EXCEPT !.st = Tilbake(s, k), !.klaim = 0, !.gammel = FALSE]
                   ELSE rad[k]]
              /\ tapt' = tapt \cup {Holder(k) : k \in {j \in ks : /\ rad[j].st = "under_sending"
                                                                  /\ rad[j].gammel}}
              /\ levert' = levert /\ f' = [f EXCEPT ![s] = [Av EXCEPT !.steg = "lokke"]]
              BY <1>2 DEF RekoeSkriv
        <2>2. \A k \in Nokkel \cap ks :
                 /\ rad[k].st \in {"feilet", "under_sending"}
                 /\ rad[k].st = "under_sending" => Holder(k) \in tapt'
                 /\ rad'[k].st \in {"koet", "ikke_aktuelt"}
                 /\ rad'[k].id = rad[k].id /\ rad'[k].forsok = rad[k].forsok
              <3> SUFFICES ASSUME NEW k \in Nokkel \cap ks
                           PROVE  /\ rad[k].st \in {"feilet", "under_sending"}
                                  /\ rad[k].st = "under_sending" => Holder(k) \in tapt'
                                  /\ rad'[k].st \in {"koet", "ikke_aktuelt"}
                                  /\ rad'[k].id = rad[k].id /\ rad'[k].forsok = rad[k].forsok
                  OBVIOUS
              <3>1. rad[k].st \in {"feilet", "under_sending"} /\ rad[k].gammel
                    BY DEF Rekoes
              <3>2. rad[k].st = "under_sending" => Holder(k) \in tapt'
                    BY <2>1, <3>1
              <3>3. rad'[k] = [rad[k] EXCEPT !.st = Tilbake(s, k), !.klaim = 0, !.gammel = FALSE]
                    BY <2>1
              <3>4. Tilbake(s, k) \in {"koet", "ikke_aktuelt"}
                    BY DEF Tilbake
              <3> QED BY <1>r, <3>1, <3>2, <3>3, <3>4 DEF Rad
        <2>3. \A k \in Nokkel \ ks : rad'[k] = rad[k]
              BY <2>1
        <2>4. tapt \subseteq tapt' /\ \A p : Kjent(p)' => Kjent(p)
              BY <1>0, <2>1 DEF Kjent, Aktiv, Av
        <2> HIDE DEF ks
        <2>5. SvarOK'
              BY <1>0, <2>1, <2>4 DEF KlaimInv, SvarOK, Av
        <2>6. TokenOK'
              BY <2>2, <2>3 DEF KlaimInv, TokenOK
        <2>7. SendtErSendt'
              <3> SUFFICES ASSUME NEW k \in Nokkel, rad'[k].st = "sendt"
                           PROVE  [nokkel |-> k, id |-> rad'[k].id, nr |-> rad'[k].forsok] \in levert
                  BY <2>1 DEF SendtErSendt
              <3>1. rad'[k] = rad[k]
                    BY <2>2, <2>3
              <3> QED BY <3>1 DEF KlaimInv, SendtErSendt
        <2>8. KlaimOK'
              <3> SUFFICES ASSUME NEW p \in Klaim, Kjent(p) PROVE Avgjort(p)'
                  BY <2>4 DEF KlaimOK
              <3> DEFINE k == p.nokkel
              <3>1. Avgjort(p) /\ k \in Nokkel
                    BY <1>k DEF KlaimInv, KlaimOK
              <3>2. CASE k \notin ks
                    BY <2>3, <2>4, <3>1, <3>2 DEF Avgjort
              <3>3. CASE k \in ks /\ p.id = rad[k].id
                    <4>1. rad[k].st = "under_sending" /\ p.nr = rad[k].klaim => p = Holder(k)
                          BY <3>3 DEF Holder, Klaim
                    <4>2. p \in tapt'
                          BY <2>2, <2>4, <3>1, <3>3, <4>1 DEF Avgjort
                    <4> QED BY <2>2, <3>1, <3>3, <4>2 DEF Avgjort
              <3>4. CASE k \in ks /\ p.id # rad[k].id
                    BY <2>2, <3>1, <3>4 DEF Avgjort
              <3> QED BY <3>2, <3>3, <3>4
        <2>9. Orden'
              BY <2>4 DEF KlaimInv, Orden
        <2> QED BY <2>5, <2>6, <2>7, <2>8, <2>9 DEF KlaimInv
  <1>3. CASE KlaimEpost(s)
        <2>1. PICK k \in Nokkel :
                 /\ Klaimbar(k)
                 /\ rad' = [rad EXCEPT ![k].st = "under_sending", ![k].gammel = FALSE,
                                ![k].forsok = @ + 1, ![k].klaim = rad[k].forsok + 1]
                 /\ f' = [f EXCEPT ![s].steg = "smtp", ![s].tatt = TRUE,
                            ![s].klaim = [nokkel |-> k, id |-> rad[k].id,
                                          nr |-> rad[k].forsok + 1]]
                 /\ levert' = levert /\ tapt' = tapt
              BY <1>3 DEF KlaimEpost
        <2> DEFINE c == [nokkel |-> k, id |-> rad[k].id, nr |-> rad[k].forsok + 1]
        <2>2. /\ rad[k].st = "koet"
              /\ rad'[k].st = "under_sending" /\ rad'[k].id = rad[k].id
              /\ rad'[k].forsok = rad[k].forsok + 1 /\ rad'[k].klaim = rad[k].forsok + 1
              /\ \A j \in Nokkel \ {k} : rad'[j] = rad[j]
              BY <1>0, <1>r, <2>1 DEF Klaimbar, Rad
        <2>3. f'[s].steg = "smtp" /\ f'[s].klaim = c /\ \A q \in Sender \ {s} : f'[q] = f[q]
              BY <1>0, <2>1 DEF FType
        <2>4. \A p : Kjent(p)' => Kjent(p) \/ p = c
              BY <2>1, <2>3 DEF Kjent, Aktiv
        <2>5. \A p \in Klaim : Kjent(p) /\ p.nokkel = k /\ p.id = rad[k].id
                                  => p \in tapt /\ p.nr < rad[k].forsok + 1
              BY <1>k, <1>r, <2>2 DEF KlaimInv, KlaimOK, Avgjort
        <2>l. levert' = levert /\ tapt' = tapt
              BY <2>1
        <2>6. SvarOK'
              BY <2>l, <2>3 DEF KlaimInv, SvarOK
        <2>7. TokenOK'
              BY <2>2 DEF KlaimInv, TokenOK
        <2>8. SendtErSendt'
              <3> SUFFICES ASSUME NEW j \in Nokkel, rad'[j].st = "sendt"
                           PROVE  [nokkel |-> j, id |-> rad'[j].id, nr |-> rad'[j].forsok] \in levert
                  BY <2>l DEF SendtErSendt
              <3>1. rad'[j] = rad[j]
                    BY <2>2
              <3> QED BY <3>1 DEF KlaimInv, SendtErSendt
        <2>9. KlaimOK'
              <3> SUFFICES ASSUME NEW p \in Klaim, Kjent(p) \/ p = c PROVE Avgjort(p)'
                  BY <2>4 DEF KlaimOK
              <3>1. CASE p = c
                    BY <1>r, <2>2, <3>1 DEF Avgjort
              <3>2. CASE Kjent(p) /\ p.nokkel = k
                    <4>1. Avgjort(p)
                          BY <3>2 DEF KlaimInv, KlaimOK
                    <4> QED BY <1>k, <1>r, <2>1, <2>2, <2>5, <3>2, <4>1 DEF Avgjort
              <3>3. CASE Kjent(p) /\ p.nokkel # k
                    <4>1. Avgjort(p) /\ rad'[p.nokkel] = rad[p.nokkel]
                          BY <1>k, <2>2, <3>3 DEF KlaimInv, KlaimOK
                    <4> QED BY <2>1, <4>1 DEF Avgjort
              <3> QED BY <3>1, <3>2, <3>3
        <2>10. Orden'
              <3> SUFFICES ASSUME NEW p \in Klaim, NEW q \in Klaim,
                                  Kjent(p) \/ p = c, Kjent(q) \/ q = c,
                                  p.nokkel = q.nokkel, p.id = q.id, p.nr < q.nr
                           PROVE  p \in tapt
                  BY <2>1, <2>4 DEF Orden
              <3>1. CASE Kjent(p) /\ Kjent(q)
                    BY <3>1 DEF KlaimInv, Orden
              <3>2. CASE Kjent(p) /\ q = c
                    BY <2>5, <3>2
              <3>3. CASE p = c /\ Kjent(q)
                    BY <1>k, <1>r, <2>5, <3>3
              <3>4. CASE p = c /\ q = c
                    BY <1>r, <3>4
              <3> QED BY <3>1, <3>2, <3>3, <3>4
        <2> QED BY <2>6, <2>7, <2>8, <2>9, <2>10 DEF KlaimInv
  <1>4. CASE Smtp(s)
        <2>1. f[s].steg = "smtp" /\ rad' = rad /\ f[s].klaim \in Klaim
              BY <1>0, <1>4 DEF Smtp, AktivOK, Aktiv
        <2>2. PICK st \in {"ok", "nei"} :
                 /\ f' = [f EXCEPT ![s].steg = st]
                 /\ st = "ok" => f[s].klaim \in levert'
                 /\ st = "nei" => f[s].klaim \in tapt'
              BY <1>4 DEF Smtp
        <2>3. /\ levert \subseteq levert' /\ levert' \subseteq levert \cup {f[s].klaim}
              /\ tapt \subseteq tapt'
              BY <1>4 DEF Smtp
        <2>4. /\ f'[s].steg = st /\ f'[s].klaim = f[s].klaim
              /\ \A q \in Sender \ {s} : f'[q] = f[q]
              BY <1>0, <2>2 DEF FType
        <2>5. \A p : Kjent(p)' => Kjent(p)
              BY <2>1, <2>3, <2>4 DEF Kjent, Aktiv
        <2>6. SvarOK'
              BY <2>2, <2>3, <2>4 DEF KlaimInv, SvarOK
        <2>7. TokenOK' /\ SendtErSendt'
              BY <2>1, <2>3 DEF KlaimInv, TokenOK, SendtErSendt
        <2>8. KlaimOK' /\ Orden'
              BY <2>1, <2>3, <2>5 DEF KlaimInv, KlaimOK, Orden, Avgjort
        <2> QED BY <2>6, <2>7, <2>8 DEF KlaimInv
  <1>5. CASE SettStatus(s)
        <2> DEFINE c == f[s].klaim
                   k == c.nokkel
        <2>1. /\ f[s].steg \in {"ok", "nei"} /\ c \in Klaim /\ k \in Nokkel
              /\ UNCHANGED <<levert, tapt>>
              BY <1>0, <1>5, <1>k DEF SettStatus, AktivOK, Aktiv
        <2>2. /\ f'[s].steg = "lokke" /\ \A q \in Sender \ {s} : f'[q] = f[q]
              BY <1>0, <1>5 DEF SettStatus, FType
        <2>3. \A p : Kjent(p)' => Kjent(p)
              BY <2>1, <2>2 DEF Kjent, Aktiv
        <2>4. SvarOK' /\ Orden'
              BY <2>1, <2>2, <2>3 DEF KlaimInv, SvarOK, Orden
        <2>5. CASE ~Mitt(s)
              <3>1. rad' = rad
                    BY <1>5, <2>5 DEF SettStatus
              <3> QED BY <2>1, <2>3, <2>4, <3>1
                      DEF KlaimInv, TokenOK, SendtErSendt, KlaimOK, Avgjort
        <2>6. CASE Mitt(s)
              <3>1. rad' = [rad EXCEPT ![k].st = IF f[s].steg = "ok" THEN "sendt" ELSE "feilet",
                                       ![k].klaim = 0, ![k].gammel = FALSE]
                    BY <1>5, <2>6 DEF SettStatus
              <3>2. /\ rad'[k].st = IF f[s].steg = "ok" THEN "sendt" ELSE "feilet"
                    /\ rad'[k].id = rad[k].id /\ rad'[k].forsok = rad[k].forsok
                    /\ \A j \in Nokkel \ {k} : rad'[j] = rad[j]
                    BY <1>0, <1>r, <2>1, <3>1 DEF Rad
              <3>3. /\ rad[k].st = "under_sending" /\ c = Holder(k)
                    /\ rad[k].klaim = rad[k].forsok
                    BY <2>1, <2>6 DEF Mitt, KlaimInv, TokenOK
              <3>4. TokenOK'
                    BY <3>2 DEF KlaimInv, TokenOK
              <3>5. SendtErSendt'
                    <4> SUFFICES ASSUME NEW j \in Nokkel, rad'[j].st = "sendt"
                                 PROVE  [nokkel |-> j, id |-> rad'[j].id,
                                         nr |-> rad'[j].forsok] \in levert
                        BY <2>1 DEF SendtErSendt
                    <4>1. CASE j = k
                          BY <3>2, <3>3, <4>1 DEF Holder, KlaimInv, SvarOK
                    <4>2. CASE j # k
                          BY <3>2, <4>2 DEF KlaimInv, SendtErSendt
                    <4> QED BY <4>1, <4>2
              <3>6. KlaimOK'
                    <4> SUFFICES ASSUME NEW p \in Klaim, Kjent(p) PROVE Avgjort(p)'
                        BY <2>3 DEF KlaimOK
                    <4>1. Avgjort(p) /\ p.nokkel \in Nokkel
                          BY <1>k DEF KlaimInv, KlaimOK
                    <4>2. CASE p.nokkel # k
                          BY <2>1, <3>2, <4>1, <4>2 DEF Avgjort
                    <4>3. CASE p.nokkel = k /\ f[s].steg = "ok"
                          BY <3>2, <3>3, <4>1, <4>3 DEF Avgjort
                    <4>4. CASE p.nokkel = k /\ f[s].steg = "nei"
                          <5>1. c \in tapt
                                BY <4>4 DEF KlaimInv, SvarOK
                          <5>2. p.id = rad[k].id /\ p.nr = rad[k].klaim => p = c
                                BY <3>3, <4>4 DEF Holder, Klaim
                          <5> QED BY <2>1, <3>2, <3>3, <4>1, <4>4, <5>1, <5>2 DEF Avgjort
                    <4> QED BY <2>1, <4>2, <4>3, <4>4
              <3> QED BY <2>4, <3>4, <3>5, <3>6 DEF KlaimInv
        <2> QED BY <2>5, <2>6
  <1> QED BY <1>1, <1>2, <1>3, <1>4, <1>5

LEMMA KlaimNext == TypInv /\ KlaimInv /\ [Next]_vars => KlaimInv'
  <1> SUFFICES ASSUME TypInv, KlaimInv, [Next]_vars PROVE KlaimInv'
      OBVIOUS
  <1>1. CASE UNCHANGED vars
        BY <1>1 DEF vars, KlaimInv, SvarOK, TokenOK, SendtErSendt, KlaimOK, Orden,
                    Kjent, Aktiv, Avgjort
  <1>2. CASE Next
        BY <1>2, PortalSteg, KlaimPortal, KlaimSender DEF Next
  <1> QED BY <1>1, <1>2

(* A row says sendt only of a mail the server accepted                     *)
(* (varsel_sett_epoststatus and its token).                                *)
THEOREM SendtSant == Spec => []SendtErSendt
  <1>1. KlaimInv => SendtErSendt
        BY DEF KlaimInv
  <1> QED BY <1>1, TypInit, TypNext, KlaimInit, KlaimNext, PTL DEF Spec

(* Of two mails of one row the earlier was taken back after its lease, or  *)
(* answered by an error (varsel_rekoe, varsel_klaim_epost).                *)
THEOREM Kopi == Spec => []EnKopi
  <1>1. TypInv /\ KlaimInv => EnKopi
        BY Typer DEF TypInv, KlaimInv, Orden, Kjent, EnKopi
  <1> QED BY <1>1, TypInit, TypNext, KlaimInit, KlaimNext, PTL DEF Spec

-----------------------------------------------------------------------------
(* The notices of a closed round.                                          *)
Taus(k) == runde[k[2]].st = "lukket" /\ Finnes(k) /\ k \notin urydda
               => rad[k].lest /\ rad[k].st # "koet"

LEMMA TausPortal ==
  ASSUME TypInv, LukketMaserIkke,
         \/ \E n \in Runde : \/ ApneRunde(n) \/ Forfaller(n) \/ TrekkTilbake(n)
                             \/ ForsonVarsling(n)
                             \/ \E b \in Bruker : Attester(b, n)
         \/ \E b \in Bruker : ForsonPensjonering(b) \/ SettKanal(b)
         \/ \E k \in Nokkel : MerkLest(k) \/ Slett(k) \/ Tid(k)
  PROVE  LukketMaserIkke'
  <1>0. /\ runde \in [Runde -> RundeType]
        /\ rad \in [Nokkel -> Rad] /\ urydda \subseteq Nokkel
        BY Typer DEF TypInv
  <1>t. LukketMaserIkke <=> \A k \in Nokkel : Taus(k)
        BY DEF LukketMaserIkke, Taus
  <1>u. LukketMaserIkke' <=> \A k \in Nokkel : Taus(k)'
        BY DEF LukketMaserIkke, Taus
  <1>n. \A k \in Nokkel : k[2] \in Runde
        BY DEF Nokkel
  (* Retiring the rows of every round that is closed by the step.          *)
  <1>a. ASSUME NEW R \in [Nokkel -> Rad], NEW ks \in SUBSET Nokkel,
               NEW feilet \in SUBSET ks, Ryddet(R, ks, feilet),
               \A k \in Nokkel \ ks : runde'[k[2]].st = "lukket"
                                         => runde[k[2]].st = "lukket" /\ R[k] = rad[k]
        PROVE  LukketMaserIkke'
        <2>1. /\ \A k \in Nokkel \cap ks :
                    rad'[k].st # "ingen" /\ k \notin urydda'
                        => rad'[k].lest /\ rad'[k].st # "koet"
              /\ \A k \in Nokkel \ ks : rad'[k] = R[k] /\ (k \in urydda' <=> k \in urydda)
              BY <1>0, <1>a, RyddetType
        <2>2. ASSUME NEW k \in Nokkel PROVE Taus(k)'
              <3>1. CASE k \in ks
                    BY <2>1, <3>1 DEF Taus, Finnes
              <3>2. CASE k \notin ks
                    BY <1>a, <1>t, <2>1, <3>2 DEF Taus, Finnes
              <3> QED BY <3>1, <3>2
        <2> QED BY <1>u, <2>2
  (* A step that closes no round and makes no notice louder.               *)
  <1>b. ASSUME UNCHANGED urydda,
               \A k \in Nokkel :
                  /\ runde'[k[2]].st = "lukket" => runde[k[2]].st = "lukket"
                  /\ \/ rad'[k] = rad[k] \/ rad'[k].st = "ingen"
                     \/ runde[k[2]].st # "lukket"
                     \/ /\ rad[k].st # "ingen" /\ (rad[k].lest => rad'[k].lest)
                        /\ rad'[k].st = "koet" => rad[k].st = "koet"
        PROVE  LukketMaserIkke'
        BY <1>b, <1>t, <1>u DEF Taus, Finnes
  <1>1. ASSUME NEW n \in Runde, ApneRunde(n) PROVE LukketMaserIkke'
        <2> DEFINE forrige == {m \in Runde : runde[m].st = "apen"}
                   ks == UNION {Om(m) : m \in forrige}
        <2>1. PICK hvem \in SUBSET Bruker :
                 Rydd([k \in Nokkel |-> IF k \in hvem \X {n}
                                        THEN Opprettet(k, rad[k]) ELSE rad[k]], ks)
              BY <1>1 DEF ApneRunde
        <2> DEFINE R == [k \in Nokkel |-> IF k \in hvem \X {n}
                                          THEN Opprettet(k, rad[k]) ELSE rad[k]]
        <2>2. R \in [Nokkel -> Rad] /\ ks \in SUBSET Nokkel
              BY <1>0, OpprettetType, OmType
        <2>3. PICK feilet \in SUBSET ks : Ryddet(R, ks, feilet)
              BY <1>0, <2>1, <2>2, RyddType
        <2>4. ASSUME NEW k \in Nokkel \ ks, runde'[k[2]].st = "lukket"
              PROVE  runde[k[2]].st = "lukket" /\ R[k] = rad[k]
              <3>1. runde' = [m \in Runde |-> IF m = n THEN [runde[m] EXCEPT !.st = "apen"]
                                 ELSE IF m \in forrige
                                 THEN [runde[m] EXCEPT !.st = "lukket"] ELSE runde[m]]
                    BY <1>1 DEF ApneRunde
              <3>2. k[2] \in Runde /\ k \in Om(k[2])
                    BY DEF Om, Nokkel
              <3>3. k[2] \notin forrige
                    BY <3>2
              <3>4. k[2] # n
                    BY <1>0, <2>4, <3>1, <3>2 DEF RundeType
              <3>5. runde'[k[2]] = runde[k[2]]
                    BY <3>1, <3>2, <3>3, <3>4
              <3>6. k \notin hvem \X {n}
                    BY <3>4
              <3> QED BY <2>4, <3>5, <3>6
        <2> QED BY <1>a, <2>2, <2>3, <2>4
  <1>2. ASSUME NEW n \in Runde, Forfaller(n) PROVE LukketMaserIkke'
        <2>1. \A m \in Runde : runde'[m].st = runde[m].st
              BY <1>0, <1>2 DEF Forfaller, RundeType
        <2> QED BY <1>b, <1>n, <1>2, <2>1 DEF Forfaller
  <1>3. ASSUME NEW n \in Runde, TrekkTilbake(n) PROVE LukketMaserIkke'
        <2>1. PICK feilet \in SUBSET Om(n) : Ryddet(rad, Om(n), feilet)
              BY <1>0, <1>3, OmType, RyddType DEF TrekkTilbake
        <2>2. \A m \in Runde \ {n} : runde'[m] = runde[m]
              BY <1>0, <1>3 DEF TrekkTilbake
        <2>3. \A k \in Nokkel \ Om(n) : k[2] # n
              BY DEF Om, Nokkel
        <2> QED BY <1>0, <1>a, <1>n, <2>1, <2>2, <2>3, OmType
  <1>4. ASSUME NEW n \in Runde, ForsonVarsling(n) PROVE LukketMaserIkke'
        <2>1. PICK hvem \in SUBSET (Bruker \ runde[n].av) :
                 rad' = [k \in Nokkel |-> IF k \in hvem \X {n}
                                          THEN Opprettet(k, rad[k]) ELSE rad[k]]
              BY <1>4 DEF ForsonVarsling
        <2>2. runde[n].st # "lukket" /\ UNCHANGED <<runde, urydda>>
              BY <1>4 DEF ForsonVarsling, Levende
        <2>3. \A k \in Nokkel : rad'[k] = rad[k] \/ k[2] = n
              BY <2>1
        <2> QED BY <1>b, <2>2, <2>3
  <1>5. ASSUME NEW n \in Runde, NEW b \in Bruker, Attester(b, n) PROVE LukketMaserIkke'
        <2>0. <<b, n>> \in Om(n)
              BY DEF Om
        <2>1. CASE runde' = [runde EXCEPT ![n].av = @ \cup {b}] /\ Rydd(rad, {<<b, n>>})
              <3>1. PICK feilet \in SUBSET {<<b, n>>} : Ryddet(rad, {<<b, n>>}, feilet)
                    BY <1>0, <2>0, <2>1, OmType, RyddType
              <3>2. \A m \in Runde : runde'[m].st = runde[m].st
                    BY <1>0, <2>1 DEF RundeType
              <3>3. {<<b, n>>} \in SUBSET Nokkel
                    BY <2>0, OmType
              <3> QED BY <1>0, <1>a, <1>n, <3>1, <3>2, <3>3
        <2>2. CASE /\ runde' = [runde EXCEPT ![n].st = "lukket"]
                   /\ Rydd(rad, Om(n)) \/ Ryddet(rad, Om(n), Om(n) \ {<<b, n>>})
              <3>1. PICK feilet \in SUBSET Om(n) : Ryddet(rad, Om(n), feilet)
                    BY <1>0, <2>2, OmType, RyddType
              <3>2. \A m \in Runde \ {n} : runde'[m] = runde[m]
                    BY <1>0, <2>2
              <3>3. \A k \in Nokkel \ Om(n) : k[2] # n
                    BY DEF Om, Nokkel
              <3> QED BY <1>0, <1>a, <1>n, <3>1, <3>2, <3>3, OmType
        <2> QED BY <1>5, <2>1, <2>2 DEF Attester
  <1>6. ASSUME NEW b \in Bruker, ForsonPensjonering(b) PROVE LukketMaserIkke'
        <2>1. PICK R \in SUBSET Runde : Ryddet(rad, {k \in Foreldet(b) : k[2] \in R}, {})
              BY <1>6 DEF ForsonPensjonering
        <2>2. {k \in Foreldet(b) : k[2] \in R} \in SUBSET Nokkel
              BY DEF Foreldet
        <2>3. runde' = runde
              BY <1>6 DEF ForsonPensjonering
        <2> QED BY <1>0, <1>a, <2>1, <2>2, <2>3
  <1>7. ASSUME NEW b \in Bruker, SettKanal(b) PROVE LukketMaserIkke'
        <2>1. \A k \in Nokkel : \/ rad'[k] = rad[k]
                                \/ rad'[k] = [rad[k] EXCEPT !.st = Avlyst(@)]
              BY <1>7 DEF SettKanal
        <2>2. UNCHANGED <<runde, urydda>>
              BY <1>7 DEF SettKanal
        <2>3. ASSUME NEW k \in Nokkel
              PROVE  \/ rad'[k] = rad[k] \/ rad'[k].st = "ingen"
                     \/ /\ rad[k].st # "ingen" /\ (rad[k].lest => rad'[k].lest)
                        /\ rad'[k].st = "koet" => rad[k].st = "koet"
              <3>1. rad[k] \in Rad
                    BY <1>0
              <3>2. CASE rad'[k] = [rad[k] EXCEPT !.st = Avlyst(@)]
                    <4>1. rad'[k].st = Avlyst(rad[k].st) /\ rad'[k].lest = rad[k].lest
                          BY <3>1, <3>2 DEF Rad
                    <4>2. rad[k].st = "ingen" => Avlyst(rad[k].st) = "ingen"
                          BY DEF Avlyst, IKo
                    <4>3. Avlyst(rad[k].st) # "koet"
                          BY <3>1, AvlystType
                    <4> QED BY <4>1, <4>2, <4>3
              <3> QED BY <2>1, <3>2
        <2> QED BY <1>b, <2>2, <2>3
  <1>8. ASSUME NEW k \in Nokkel, MerkLest(k) PROVE LukketMaserIkke'
        <2>1. /\ \A j \in Nokkel \ {k} : rad'[j] = rad[j]
              /\ rad[k].st # "ingen" /\ rad'[k].lest /\ rad'[k].st = Avlyst(rad[k].st)
              BY <1>0, <1>8 DEF MerkLest, Finnes, Rad
        <2>2. rad'[k].st # "koet"
              BY <1>0, <2>1, AvlystType
        <2> QED BY <1>b, <1>8, <2>1, <2>2 DEF MerkLest
  <1>9. ASSUME NEW k \in Nokkel, Slett(k) PROVE LukketMaserIkke'
        <2>1. /\ \A j \in Nokkel \ {k} : rad'[j] = rad[j] /\ (j \in urydda' <=> j \in urydda)
              /\ rad'[k].st = "ingen" /\ runde' = runde
              BY <1>0, <1>9 DEF Slett, Uten
        <2>2. ASSUME NEW j \in Nokkel PROVE Taus(j)'
              BY <1>t, <2>1 DEF Taus, Finnes
        <2> QED BY <1>u, <2>2
  <1>10. ASSUME NEW k \in Nokkel, Tid(k) PROVE LukketMaserIkke'
        <2>1. /\ \A j \in Nokkel \ {k} : rad'[j] = rad[j]
              /\ rad[k].st # "ingen" /\ rad'[k].lest = rad[k].lest /\ rad'[k].st = rad[k].st
              BY <1>0, <1>10 DEF Tid, Rad
        <2> QED BY <1>b, <1>10, <2>1 DEF Tid
  <1> QED BY <1>1, <1>2, <1>3, <1>4, <1>5, <1>6, <1>7, <1>8, <1>9, <1>10

LEMMA TausSender ==
  ASSUME TypInv, LukketMaserIkke, NEW s \in Sender,
         \/ RekoeLes(s) \/ RekoeSkriv(s) \/ KlaimEpost(s)
         \/ Stans(s) \/ Smtp(s) \/ SettStatus(s) \/ Krasj(s)
  PROVE  LukketMaserIkke'
  <1>0. rad \in [Nokkel -> Rad] /\ f \in [Sender -> FType] /\ AktivOK
        BY Typer DEF TypInv
  <1>r. \A k \in Nokkel : rad[k] \in Rad
        BY <1>0
  <1>1. UNCHANGED <<runde, urydda>>
        BY DEF RekoeLes, RekoeSkriv, KlaimEpost, Stans, Smtp, SettStatus, Krasj
  <1>2. ASSUME \A k \in Nokkel : \/ rad'[k] = rad[k]
                                 \/ /\ rad[k].st # "ingen" /\ rad'[k].lest = rad[k].lest
                                    /\ rad'[k].st = "koet" => ~rad[k].lest
        PROVE  LukketMaserIkke'
        BY <1>1, <1>2 DEF LukketMaserIkke, Finnes
  <1>3. CASE RekoeLes(s) \/ Stans(s) \/ Smtp(s) \/ Krasj(s)
        <2>1. rad' = rad
              BY <1>3 DEF RekoeLes, Stans, Smtp, Krasj
        <2> QED BY <1>2, <2>1
  <1>4. CASE RekoeSkriv(s)
        <2> DEFINE ks == {k \in f[s].rader : Rekoes(k)}
        <2>1. rad' = [k \in Nokkel |-> IF k \in ks
                   THEN [rad[k] EXCEPT !.st = Tilbake(s, k), !.klaim = 0, !.gammel = FALSE]
                   ELSE rad[k]]
              BY <1>4 DEF RekoeSkriv
        <2>2. ASSUME NEW k \in Nokkel, k \in ks
              PROVE  /\ rad[k].st # "ingen" /\ rad'[k].lest = rad[k].lest
                     /\ rad'[k].st = "koet" => ~rad[k].lest
              <3>1. rad[k].st # "ingen"
                    BY <2>2 DEF Rekoes
              <3>2. rad'[k].lest = rad[k].lest /\ rad'[k].st = Tilbake(s, k)
                    BY <1>r, <2>1, <2>2 DEF Rad
              <3> QED BY <3>1, <3>2 DEF Tilbake
        <2>3. \A k \in Nokkel \ ks : rad'[k] = rad[k]
              BY <2>1
        <2> QED BY <1>2, <2>2, <2>3
  <1>5. CASE KlaimEpost(s)
        <2>1. PICK k \in Nokkel :
                 /\ Klaimbar(k)
                 /\ rad' = [rad EXCEPT ![k].st = "under_sending", ![k].gammel = FALSE,
                                ![k].forsok = @ + 1, ![k].klaim = rad[k].forsok + 1]
              BY <1>5 DEF KlaimEpost
        <2>2. /\ rad[k].st # "ingen" /\ rad'[k].lest = rad[k].lest
              /\ rad'[k].st = "under_sending"
              /\ \A j \in Nokkel \ {k} : rad'[j] = rad[j]
              BY <1>0, <1>r, <2>1 DEF Klaimbar, Rad
        <2> QED BY <1>2, <2>2
  <1>6. CASE SettStatus(s)
        <2> DEFINE k == f[s].klaim.nokkel
        <2>1. k \in Nokkel
              BY <1>0, <1>6 DEF SettStatus, AktivOK, Aktiv, Klaim
        <2>2. CASE Mitt(s)
              <3>1. rad' = [rad EXCEPT ![k].st = IF f[s].steg = "ok" THEN "sendt" ELSE "feilet",
                                       ![k].klaim = 0, ![k].gammel = FALSE]
                    BY <1>6, <2>2 DEF SettStatus
              <3>2. rad[k].st = "under_sending"
                    BY <2>2 DEF Mitt
              <3>3. /\ rad'[k].lest = rad[k].lest /\ rad'[k].st # "koet"
                    /\ \A j \in Nokkel \ {k} : rad'[j] = rad[j]
                    BY <1>0, <1>r, <2>1, <3>1 DEF Rad
              <3> QED BY <1>2, <3>2, <3>3
        <2>3. CASE ~Mitt(s)
              BY <1>2, <1>6, <2>3 DEF SettStatus
        <2> QED BY <2>2, <2>3
  <1> QED BY <1>3, <1>4, <1>5, <1>6

(* A closed round asks nobody, unless a retirement failed and was not made *)
(* up for (pensjoner_runde, varsel_rekoe).                                 *)
THEOREM LukketTaus == Spec => []LukketMaserIkke
  <1>1. Init => LukketMaserIkke
        BY DEF Init, LukketMaserIkke, Finnes, Uten
  <1>2. TypInv /\ LukketMaserIkke /\ [Next]_vars => LukketMaserIkke'
        <2> SUFFICES ASSUME TypInv, LukketMaserIkke, [Next]_vars PROVE LukketMaserIkke'
            OBVIOUS
        <2>1. CASE UNCHANGED vars
              BY <2>1 DEF vars, LukketMaserIkke, Finnes
        <2>2. CASE Next
              BY <2>2, TausPortal, TausSender DEF Next
        <2> QED BY <2>1, <2>2
  <1> QED BY <1>1, <1>2, TypInit, TypNext, PTL DEF Spec
=============================================================================
