------------------------- MODULE GodkjenningProofs -------------------------
(* Theorems about the human handling of a case, for any number of people,  *)
(* requests, keys, policies and rounds; about the policy engine, for any   *)
(* policies, events and approvals; and about what the first takes the      *)
(* second to answer.                                                       *)
EXTENDS Godkjenning, Policymotor, FiniteSetTheorems, SequenceTheorems,
        WellFoundedInduction, TLAPS

-----------------------------------------------------------------------------
(* What a step may do.                                                     *)

(* Nothing that is stored changes but the order behind the case, and then  *)
(* as the world changes it.                                                *)
Verden == UNCHANGED <<sak, flagget, stemmer, utfall, idem, logg>>

(* The request is in a place to write: in the round that is open, or in    *)
(* one it opens.                                                           *)
Sted(x, n, rp, hopp) ==
    /\ f[x].pc = "vurdert"
    /\ \/ /\ Aktiv = {} /\ KanAapne(x)
          /\ n = NesteRunde /\ rp = f[x].policy /\ hopp = 1
       \/ /\ n \in Aktiv /\ n \notin f[x].utlopt
          /\ \A s \in stemmer : s.runde = n => s.bruker # f[x].bruker
          /\ rp = runder[n].policy /\ hopp = 0

AvvisGjort(x, n, rp, hopp) ==
    /\ f[x].handling = "avvis"
    /\ Attester(x, n, [policy |-> rp, status |-> "kansellert"])
    /\ Til("avvist", hopp + 1)
    /\ oppdrag' = IF oppdrag = "levende" THEN "kansellert" ELSE oppdrag
    /\ Fullfor(x, "avvist")
    /\ UNCHANGED <<flagget, utfall>>

EskalerGjort(x, n, rp, hopp) ==
    /\ f[x].handling = "eskaler"
    /\ Eskaler(x, n, rp, hopp)

Ja(x, n) == Godkjennere(n, stemmer \cup {Attestasjon(x, n)})

VenterGjort(x, n, rp, hopp) ==
    /\ f[x].handling = "godkjenn"
    /\ ~(Cardinality(Ja(x, n)) >= Terskel(f[x].policy))
    /\ Attester(x, n, [policy |-> rp, status |-> "apen"])
    /\ IF sak.status = "venter_andre_godkjenner" THEN UNCHANGED sak
       ELSE Til("venter_andre_godkjenner", hopp + 1)
    /\ Fullfor(x, "venter_andre_godkjenner")
    /\ UNCHANGED <<flagget, oppdrag, utfall>>

DomGjort(x, n, rp, hopp) ==
    /\ f[x].handling = "godkjenn"
    /\ Cardinality(Ja(x, n)) >= Terskel(f[x].policy)
    /\ ~Avgjort(rp)
    /\ Attester(x, n, [policy |-> rp, status |-> "brukt"])
    /\ \E svar \in {"TILLAT", "UNNTAK"}, loftet, gyldige, iTide \in BOOLEAN :
         /\ loftet => rp = f[x].policy
         /\ Til(IF svar = "TILLAT" THEN "venter_utforelse" ELSE "manuell", hopp + 2)
         /\ utfall' = utfall \cup
              {[runde |-> n, policy |-> rp, under |-> f[x].policy, svar |-> svar,
                loftet |-> loftet, gyldige |-> gyldige, iTide |-> iTide]}
         /\ Fullfor(x, svar)
    /\ UNCHANGED <<flagget, oppdrag>>

Skriver(x, n, rp, hopp) ==
    \/ AvvisGjort(x, n, rp, hopp) \/ EskalerGjort(x, n, rp, hopp)
    \/ VenterGjort(x, n, rp, hopp) \/ DomGjort(x, n, rp, hopp)

(* A request ends and has changed nothing.                                 *)
Slutt(x) ==
    /\ f' = [f EXCEPT ![x] = TomForsp]
    /\ UNCHANGED <<varig, medlem, aktiv>>

(* A rejection is barred: only the case's version and the flag move.       *)
Flagger(x) ==
    /\ f[x].pc = "laast" /\ Sperret(x)
    /\ sak' = IF flagget = oppdrag THEN sak ELSE [sak EXCEPT !.versjon = @ + 1]
    /\ flagget' = oppdrag
    /\ Fullfor(x, "utestaaende_oppdrag")
    /\ UNCHANGED <<oppdrag, runder, stemmer, utfall>>

(* A request goes on, with nothing stored.                                 *)
Gaar(x) ==
    /\ UNCHANGED <<varig, medlem, aktiv>>
    /\ \/ /\ f[x].pc = "sendt" /\ idem[f[x].nokkel].inn = Ingen
          /\ \A y \in Forsp : HarNokkel(y) => f[y].nokkel # f[x].nokkel
          /\ f' = [f EXCEPT ![x].pc = "nokkel"]
       \/ /\ f[x].pc = "nokkel" /\ \A y \in Forsp : ~HarSak(y)
          /\ HarScope(medlem[f[x].bruker]) /\ f[x].versjon = sak.versjon
          /\ f' = [f EXCEPT ![x].pc = "laast", ![x].roller = medlem[f[x].bruker]]
       \/ /\ f[x].pc = "laast" /\ ~Sperret(x)
          /\ f[x].handling = "godkjenn" => HarRolle(x, aktiv)
          /\ f' = [f EXCEPT ![x].pc = "vurdert", ![x].policy = aktiv,
                            ![x].sett = oppdrag]

(* What the engine may answer, and that it lifts only under the policy the *)
(* round froze.                                                            *)
LEMMA MotorSvar ==
    ASSUME NEW p, NEW rp, NEW rollene, NEW grunn \in {"tillat", "bundet", "annen"},
           NEW loft \in BOOLEAN
    PROVE  LET d == Motor(p, rp, rollene, grunn, loft) IN
           /\ d.svar \in {"TILLAT", "UNNTAK"} \cup Sikkerhet
           /\ d.loftet \in BOOLEAN
           /\ d.loftet => rp = p
  <1>1. CASE grunn = "tillat"
        BY <1>1 DEF Motor, Sikkerhet
  <1>2. CASE grunn # "tillat" /\ (rp # p \/ p \in MedMetadata)
        BY <1>2 DEF Motor, Sikkerhet
  <1>3. CASE grunn = "annen" /\ rp = p /\ p \notin MedMetadata
        BY <1>3 DEF Motor, Sikkerhet
  <1>4. CASE grunn = "bundet" /\ rp = p /\ p \notin MedMetadata
    <2>1. Motor(p, rp, rollene, grunn, loft) =
            IF p \notin Godkjennbar THEN [svar |-> "UNNTAK", loftet |-> FALSE]
            ELSE IF KreverRolle[p] \notin rollene
            THEN [svar |-> "rolle_mangler", loftet |-> FALSE]
            ELSE [svar |-> IF loft THEN "TILLAT" ELSE "UNNTAK", loftet |-> loft]
          BY <1>4 DEF Motor
    <2> DEFINE d == Motor(p, rp, rollene, grunn, loft)
    <2>2. \/ d = [svar |-> "UNNTAK", loftet |-> FALSE]
          \/ d = [svar |-> "rolle_mangler", loftet |-> FALSE]
          \/ loft /\ d = [svar |-> "TILLAT", loftet |-> TRUE]
          \/ ~loft /\ d = [svar |-> "UNNTAK", loftet |-> FALSE]
          BY <2>1
    <2> HIDE DEF d
    <2>3. CASE d = [svar |-> "UNNTAK", loftet |-> FALSE]
          BY <2>3 DEF d
    <2>4. CASE d = [svar |-> "rolle_mangler", loftet |-> FALSE]
          BY <2>4 DEF d, Sikkerhet
    <2>5. CASE d = [svar |-> "TILLAT", loftet |-> TRUE]
      <3>1. d.svar = "TILLAT" /\ d.loftet = TRUE
            BY <2>5
      <3> QED BY <1>4, <3>1 DEF d
    <2> QED BY <2>2, <2>3, <2>4, <2>5 DEF d
  <1> QED BY <1>1, <1>2, <1>3, <1>4

LEMMA KartGodkjenn ==
    ASSUME NEW x \in Forsp, NEW n, NEW rp, NEW hopp, f[x].handling = "godkjenn",
           Godkjenn(x, n, rp, hopp)
    PROVE  Slutt(x) \/ VenterGjort(x, n, rp, hopp) \/ DomGjort(x, n, rp, hopp)
  <1> DEFINE ja == Ja(x, n)
             nok == Cardinality(ja) >= Terskel(f[x].policy)
  <1>1. CASE ~nok
        BY <1>1 DEF Godkjenn, VenterGjort, Ja
  <1>2. ASSUME nok,
               NEW grunn \in {"tillat", "bundet", "annen"}, NEW loft \in BOOLEAN,
               NEW d, d = Motor(f[x].policy, rp, {s.rolle : s \in ja}, grunn, loft),
               ~Avgjort(rp), d.svar \notin Sikkerhet,
               Attester(x, n, [policy |-> rp, status |-> "brukt"]),
               Til(IF d.svar = "TILLAT" THEN "venter_utforelse" ELSE "manuell",
                   hopp + 2),
               NEW gyldige \in BOOLEAN, NEW iTide \in BOOLEAN,
               utfall' = utfall \cup
                    {[runde |-> n, policy |-> rp, under |-> f[x].policy,
                      svar |-> d.svar, loftet |-> d.loftet,
                      gyldige |-> gyldige, iTide |-> iTide]},
               Fullfor(x, d.svar), UNCHANGED <<flagget, oppdrag>>
        PROVE  DomGjort(x, n, rp, hopp)
    <2>1. /\ d.svar \in {"TILLAT", "UNNTAK"} /\ d.loftet \in BOOLEAN
          /\ d.loftet => rp = f[x].policy
          BY <1>2, MotorSvar
    <2> QED BY <1>2, <2>1 DEF DomGjort
  <1>3. ASSUME nok,
               NEW grunn \in {"tillat", "bundet", "annen"}, NEW loft \in BOOLEAN,
               NEW d, d = Motor(f[x].policy, rp, {s.rolle : s \in ja}, grunn, loft),
               ~Avgjort(rp), d.svar \notin Sikkerhet,
               Attester(x, n, [policy |-> rp, status |-> "brukt"]),
               Til(IF d.svar = "TILLAT" THEN "venter_utforelse" ELSE "manuell",
                   hopp + 2),
               utfall' = utfall \cup
                    {[runde |-> n, policy |-> rp, under |-> f[x].policy,
                      svar |-> d.svar, loftet |-> d.loftet,
                      gyldige |-> \A s \in ja \ {Attestasjon(x, n)} :
                                     s.rolle \in medlem[s.bruker],
                      iTide |-> ~runder[n].utlopt]},
               Fullfor(x, d.svar), UNCHANGED <<flagget, oppdrag>>
        PROVE  DomGjort(x, n, rp, hopp)
    <2>1. (\A s \in ja \ {Attestasjon(x, n)} : s.rolle \in medlem[s.bruker]) \in BOOLEAN
          OBVIOUS
    <2>2. (~runder[n].utlopt) \in BOOLEAN
          OBVIOUS
    <2> QED BY <1>2, <1>3, <2>1, <2>2
  <1> QED BY <1>1, <1>3 DEF Godkjenn, Ja, Nei, Slutt

LEMMA KartRunde ==
    ASSUME NEW x \in Forsp, NEW n, NEW rp, NEW hopp, IRundeN(x, n, rp, hopp),
           f[x].handling \in Handling
    PROVE  Slutt(x) \/ Skriver(x, n, rp, hopp)
  <1>1. CASE f[x].handling = "avvis"
        BY <1>1 DEF IRundeN, Avvis, AvvisGjort, Skriver, Nei, Slutt
  <1>2. CASE f[x].handling = "eskaler"
        BY <1>2 DEF IRundeN, EskalerGjort, Skriver
  <1>3. CASE f[x].handling = "godkjenn"
    <2>1. Godkjenn(x, n, rp, hopp)
          BY <1>3 DEF IRundeN
    <2> QED BY <1>3, <2>1, KartGodkjenn DEF Skriver
  <1> QED BY <1>1, <1>2, <1>3 DEF Handling

(* The world: roles, policies, the clock and the order.                    *)
VerdenSteg == RollerEndres \/ PolicyAktiveres \/ RundeUtloper \/ OppdragSlutter

LEMMA Kart ==
    ASSUME Next, \A x \in Forsp : f[x].pc = "vurdert" => f[x].handling \in Handling
    PROVE  \/ VerdenSteg
           \/ \E x \in Forsp :
                 \/ Send(x) \/ Slutt(x) \/ Flagger(x) \/ Gaar(x)
                 \/ \E n, rp, hopp : Sted(x, n, rp, hopp) /\ Skriver(x, n, rp, hopp)
  <1>1. ASSUME NEW x \in Forsp, Krev(x)
        PROVE  Slutt(x) \/ Gaar(x)
        BY <1>1 DEF Krev, Nei, Slutt, Gaar
  <1>2. ASSUME NEW x \in Forsp, Laas(x)
        PROVE  Slutt(x) \/ Gaar(x)
        BY <1>2 DEF Laas, Nei, Slutt, Gaar
  <1>3. ASSUME NEW x \in Forsp, Vurder(x)
        PROVE  Slutt(x) \/ Gaar(x) \/ Flagger(x)
        BY <1>3 DEF Vurder, Nei, Slutt, Gaar, Flagger
  <1>4. ASSUME NEW x \in Forsp, Avgjor(x)
        PROVE  \/ Slutt(x)
               \/ \E n, rp, hopp : Sted(x, n, rp, hopp) /\ Skriver(x, n, rp, hopp)
    <2>0. f[x].pc = "vurdert" /\ f[x].handling \in Handling
          BY <1>4 DEF Avgjor
    <2>1. CASE \E svar : Nei(x, svar)
          BY <2>1 DEF Nei, Slutt
    <2>2. ASSUME Aktiv = {}, KanAapne(x), IRundeN(x, NesteRunde, f[x].policy, 1)
          PROVE  \/ Slutt(x)
                 \/ \E n, rp, hopp : Sted(x, n, rp, hopp) /\ Skriver(x, n, rp, hopp)
      <3>1. Sted(x, NesteRunde, f[x].policy, 1)
            BY <2>0, <2>2 DEF Sted
      <3> QED BY <2>0, <2>2, <3>1, KartRunde
    <2>3. ASSUME NEW n \in Aktiv, n \notin f[x].utlopt,
                 \A s \in stemmer : s.runde = n => s.bruker # f[x].bruker,
                 IRundeN(x, n, runder[n].policy, 0)
          PROVE  \/ Slutt(x)
                 \/ \E m, rp, hopp : Sted(x, m, rp, hopp) /\ Skriver(x, m, rp, hopp)
      <3>1. Sted(x, n, runder[n].policy, 0)
            BY <2>0, <2>3 DEF Sted
      <3> QED BY <2>0, <2>3, <3>1, KartRunde
    <2> QED BY <1>4, <2>1, <2>2, <2>3 DEF Avgjor
  <1> QED BY <1>1, <1>2, <1>3, <1>4 DEF Next, Forsok, VerdenSteg

-----------------------------------------------------------------------------
(* The invariant.                                                          *)

(* A request has what its step takes, and was about a version there was;   *)
(* from the case's lock on it is about the one there is.                   *)
ForespOK == \A x \in Forsp :
    /\ f[x].pc # "ledig" => /\ f[x].bruker \in Bruker /\ f[x].handling \in Handling
                            /\ f[x].nokkel \in Nokkel /\ f[x].versjon <= sak.versjon
    /\ HarSak(x) => f[x].versjon = sak.versjon /\ HarScope(f[x].roller)
    /\ f[x].pc = "vurdert" =>
          /\ f[x].policy \in Policy
          /\ f[x].handling = "avvis" => oppdrag # "uloselig"

(* One request holds the case, one holds a key, and a key that is held is  *)
(* a fresh one.                                                            *)
LaasInv ==
    /\ \A x, y \in Forsp : HarSak(x) /\ HarSak(y) => x = y
    /\ \A x, y \in Forsp :
          HarNokkel(x) /\ HarNokkel(y) /\ f[x].nokkel = f[y].nokkel => x = y
    /\ \A x \in Forsp : HarNokkel(x) => idem[f[x].nokkel].inn = Ingen

(* Rounds are numbered from one on, and there is a number left for whoever *)
(* may have to open one.                                                   *)
Aapnede == {n \in Runde : runder[n].status # "ingen"}
PlassInv ==
    /\ \E c \in 0..MaksRunde : Aapnede = 1..c
    /\ \A x \in Forsp :
          f[x].pc # "ledig" /\ f[x].versjon = sak.versjon /\ Aktiv = {}
              => NesteRunde \in Runde

(* Votes and outcomes are of opened rounds, and an open round has one      *)
(* vote: its opener's, an approval under the policy it froze.              *)
RundeInv ==
    /\ \A n \in Runde : runder[n].status = "ingen" =>
          \A s \in stemmer : s.runde # n
    /\ \A m, n \in Aktiv : m = n
    /\ \A n \in Aktiv : \E s \in stemmer :
          /\ {t \in stemmer : t.runde = n} = {s}
          /\ s.handling = "godkjenn" /\ s.policy = runder[n].policy
          /\ s.rolle = KreverRolle[s.policy]
    /\ (\E u \in utfall : u.svar = "TILLAT") => sak.status = "venter_utforelse"

TypInv == TypeOK /\ ForespOK
SaksInv == TypInv /\ LaasInv /\ PlassInv /\ RundeInv /\ RundeBaererSak

(* A settled key has its entry in the log, and the other way around.       *)
BokInv == \A k \in Nokkel : /\ k \in logg <=> idem[k].inn # Ingen
                            /\ idem[k].inn = Ingen => idem[k].svar = Ingen

-----------------------------------------------------------------------------
(* Records and sets.                                                       *)

OppdragStatus == Levende \cup {"ingen", "utfort", "kansellert"}
SakType == [status: {"manuell", "avvist", "venter_utforelse"} \cup IRunde, versjon: Nat]
RundeType == [status: {"ingen", "apen", "brukt", "kansellert"},
              policy: Policy \cup {Ingen}, utlopt: BOOLEAN]
StemmeType == [runde: Runde, bruker: Bruker, handling: Handling, policy: Policy,
               rolle: Rolle, versjon: Nat, nokkel: Nokkel]
UtfallType == [runde: Runde, policy: Policy, under: Policy, svar: {"TILLAT", "UNNTAK"},
               loftet: BOOLEAN, gyldige: BOOLEAN, iTide: BOOLEAN]
IdemType == [inn: AlleInndata \cup {Ingen}, svar: Svar \cup {Ingen}]
FType == [pc: {"ledig", "sendt", "nokkel", "laast", "vurdert"},
          bruker: Bruker \cup {Ingen}, handling: Handling \cup {Ingen},
          nokkel: Nokkel \cup {Ingen}, versjon: Nat, roller: SUBSET Rolle,
          policy: Policy \cup {Ingen}, sett: OppdragStatus \cup {Ingen},
          utlopt: SUBSET Runde]

LEMMA Typer == TypeOK <=>
    /\ sak \in SakType /\ flagget \in {Ingen, "uloselig"}
    /\ oppdrag \in OppdragStatus /\ runder \in [Runde -> RundeType]
    /\ stemmer \subseteq StemmeType /\ utfall \subseteq UtfallType
    /\ idem \in [Nokkel -> IdemType] /\ logg \subseteq Nokkel
    /\ medlem \in [Bruker -> Rollesett] /\ aktiv \in Policy
    /\ f \in [Forsp -> FType]
  BY DEF TypeOK, SakType, RundeType, StemmeType, UtfallType, IdemType, FType,
         OppdragStatus

LEMMA NyeTyper ==
    ASSUME sak' \in SakType, flagget' \in {Ingen, "uloselig"},
           oppdrag' \in OppdragStatus, runder' \in [Runde -> RundeType],
           stemmer' \subseteq StemmeType, utfall' \subseteq UtfallType,
           idem' \in [Nokkel -> IdemType], logg' \subseteq Nokkel,
           medlem' \in [Bruker -> Rollesett], aktiv' \in Policy,
           f' \in [Forsp -> FType]
    PROVE  TypeOK'
  BY DEF TypeOK, SakType, RundeType, StemmeType, UtfallType, IdemType, FType,
         OppdragStatus

LEMMA TomType == TomForsp \in FType /\ TomForsp.pc = "ledig"
  BY DEF TomForsp, FType

(* A request that ends leaves the others alone.                            *)
LEMMA Tomt ==
    ASSUME TypeOK, NEW x \in Forsp, f' = [f EXCEPT ![x] = TomForsp]
    PROVE  /\ f' \in [Forsp -> FType]
           /\ f'[x].pc = "ledig" /\ \A y \in Forsp \ {x} : f'[y] = f[y]
           /\ ~HarSak(x)' /\ ~HarNokkel(x)'
  BY Typer, TomType DEF HarSak, HarNokkel

(* The number the next round gets, and the rounds there are.               *)
LEMMA Neste ==
    ASSUME NEW c \in 0..MaksRunde, Aapnede = 1..c
    PROVE  NesteRunde = c + 1
  <1>1. c \in Nat /\ 1 \in Int
        BY RundeAntatt
  <1>2. Cardinality(1..c) = c
        BY <1>1, FS_Interval
  <1> QED BY <1>2 DEF NesteRunde, Aapnede

(* Where a request writes.                                                 *)
LEMMA StedType ==
    ASSUME SaksInv, NEW x \in Forsp, NEW n, NEW rp, NEW hopp, Sted(x, n, rp, hopp)
    PROVE  /\ n \in Runde /\ rp \in Policy /\ hopp \in 0..1
           /\ f[x].policy \in Policy /\ f[x].bruker \in Bruker
           /\ f[x].handling \in Handling /\ f[x].nokkel \in Nokkel
           /\ HarSak(x) /\ HarNokkel(x) /\ f[x].versjon = sak.versjon
           /\ runder[n].status \in {"ingen", "apen"}
           /\ n \in Aktiv <=> Aktiv # {}
           /\ \A m \in Aktiv : m = n
           /\ Aktiv = {} => /\ runder[n].status = "ingen" /\ sak.status = "manuell"
                            /\ \A s \in stemmer : s.runde # n
                            /\ rp = f[x].policy
  <1> USE DEF SaksInv, TypInv
  <1>1. /\ f[x].policy \in Policy /\ f[x].bruker \in Bruker
        /\ f[x].handling \in Handling /\ f[x].nokkel \in Nokkel
        /\ HarSak(x) /\ HarNokkel(x) /\ f[x].versjon = sak.versjon
        BY DEF Sted, ForespOK, HarSak, HarNokkel
  <1>2. CASE Aktiv = {} /\ KanAapne(x) /\ n = NesteRunde /\ rp = f[x].policy /\ hopp = 1
    <2>1. n \in Runde
          BY <1>1, <1>2 DEF PlassInv, HarSak
    <2>2. PICK c \in 0..MaksRunde : Aapnede = 1..c
          BY DEF PlassInv
    <2>3. n \notin Aapnede
          BY <1>2, <2>2, Neste, RundeAntatt
    <2>4. runder[n].status = "ingen"
          BY <2>1, <2>3 DEF Aapnede
    <2> QED BY <1>1, <1>2, <2>1, <2>4 DEF KanAapne, RundeInv
  <1>3. CASE n \in Aktiv /\ rp = runder[n].policy /\ hopp = 0
    <2>1. PICK s \in stemmer : s.policy = runder[n].policy
          BY <1>3 DEF RundeInv
    <2>2. s.policy \in Policy
          BY Typer DEF StemmeType
    <2> QED BY <1>1, <1>3, <2>1, <2>2 DEF Aktiv, RundeInv
  <1> QED BY <1>2, <1>3 DEF Sted

LEMMA StemmeOK ==
    ASSUME SaksInv, NEW x \in Forsp, NEW n, NEW rp, NEW hopp, Sted(x, n, rp, hopp)
    PROVE  /\ Attestasjon(x, n) \in StemmeType
           /\ Attestasjon(x, n).runde = n /\ Attestasjon(x, n).bruker = f[x].bruker
           /\ Attestasjon(x, n).handling = f[x].handling
           /\ Attestasjon(x, n).policy = f[x].policy
           /\ f[x].handling = "godkjenn" =>
                 Attestasjon(x, n).rolle = KreverRolle[f[x].policy]
  <1>1. f[x] \in FType /\ f[x].roller # {}
        BY StedType, Typer DEF SaksInv, TypInv, ForespOK, HarScope
  <1>2. (CHOOSE r \in f[x].roller : TRUE) \in Rolle
        BY <1>1 DEF FType
  <1>3. KreverRolle[f[x].policy] \in Rolle
        BY StedType, KreverAntatt DEF Rolle
  <1> QED BY <1>1, <1>2, <1>3, StedType DEF Attestasjon, StemmeType, FType

(* Whoever votes first has one name on the list, and two with the opener.  *)
LEMMA JaEn ==
    ASSUME SaksInv, NEW x \in Forsp, NEW n, NEW rp, NEW hopp, Sted(x, n, rp, hopp),
           f[x].handling = "godkjenn", Aktiv = {}
    PROVE  Ja(x, n) = {Attestasjon(x, n)} /\ Cardinality(Ja(x, n)) = 1
  <1>1. Ja(x, n) = {Attestasjon(x, n)}
        BY StedType, StemmeOK DEF Ja, Godkjennere
  <1> QED BY <1>1, FS_Singleton

LEMMA JaTo ==
    ASSUME SaksInv, NEW x \in Forsp, NEW n, NEW rp, NEW hopp, Sted(x, n, rp, hopp),
           f[x].handling = "godkjenn", Aktiv # {}
    PROVE  /\ Cardinality(Ja(x, n)) = 2
           /\ Cardinality({t.bruker : t \in Ja(x, n)}) = 2
           /\ \A t \in Ja(x, n) : t # Attestasjon(x, n) =>
                 t.policy = rp /\ t.rolle = KreverRolle[rp]
  <1> DEFINE a == Attestasjon(x, n)
  <1>1. PICK s \in stemmer :
           /\ {t \in stemmer : t.runde = n} = {s}
           /\ s.handling = "godkjenn" /\ s.policy = runder[n].policy
           /\ s.rolle = KreverRolle[s.policy]
        BY StedType DEF SaksInv, RundeInv
  <1>2. /\ a.runde = n /\ a.handling = "godkjenn" /\ a.bruker = f[x].bruker
        BY StemmeOK
  <1>3. s.bruker # f[x].bruker /\ rp = runder[n].policy
        BY <1>1 DEF Sted
  <1>4. Ja(x, n) = {s, a}
        BY <1>1, <1>2 DEF Ja, Godkjennere
  <1>5. {t.bruker : t \in Ja(x, n)} = {s.bruker, a.bruker}
        BY <1>4
  <1> HIDE DEF a
  <1>6. \A p, q : p # q => Cardinality({p, q}) = 2
    <2> TAKE p, q
    <2> HAVE p # q
    <2>1. IsFiniteSet({p}) /\ Cardinality({p}) = 1
          BY FS_Singleton
    <2>2. {p} \cup {q} = {p, q} /\ q \notin {p}
          OBVIOUS
    <2>3. Cardinality({p} \cup {q}) = Cardinality({p}) + 1
          BY <2>1, <2>2, FS_AddElement
    <2> QED BY <2>1, <2>2, <2>3
  <1>7. Cardinality({s, a}) = 2 /\ Cardinality({s.bruker, a.bruker}) = 2
        BY <1>2, <1>3, <1>6
  <1>8. \A t \in Ja(x, n) : t # a => t.policy = rp /\ t.rolle = KreverRolle[rp]
        BY <1>1, <1>3, <1>4
  <1> QED BY <1>4, <1>5, <1>7, <1>8 DEF a

(* So a vote that has to wait opened its round.                            *)
LEMMA VenterNy ==
    ASSUME SaksInv, NEW x \in Forsp, NEW n, NEW rp, NEW hopp, Sted(x, n, rp, hopp),
           VenterGjort(x, n, rp, hopp)
    PROVE  /\ Aktiv = {} /\ hopp = 1
           /\ Til("venter_andre_godkjenner", 2)
  <1>1. Terskel(f[x].policy) \in 1..2
        BY DEF Terskel
  <1>2. Aktiv = {}
    <2>1. f[x].handling = "godkjenn" /\ ~(Cardinality(Ja(x, n)) >= Terskel(f[x].policy))
          BY DEF VenterGjort
    <2>2. Aktiv # {} => Cardinality(Ja(x, n)) = 2
          BY <2>1, JaTo
    <2> QED BY <1>1, <2>1, <2>2
  <1>3. hopp = 1
        BY <1>2 DEF Sted
  <1> QED BY <1>2, <1>3, StedType DEF VenterGjort

(* What the commit stores under the key.                                   *)
LEMMA Fullfort ==
    ASSUME TypInv, NEW x \in Forsp, f[x].pc # "ledig", NEW svar \in Svar,
           Fullfor(x, svar)
    PROVE  /\ f[x].nokkel \in Nokkel /\ InndataAv(x) \in AlleInndata
           /\ InndataAv(x) # Ingen
           /\ idem' \in [Nokkel -> IdemType]
           /\ idem'[f[x].nokkel].inn = InndataAv(x)
           /\ idem'[f[x].nokkel].svar = svar
           /\ \A k \in Nokkel \ {f[x].nokkel} : idem'[k] = idem[k]
           /\ logg' = logg \cup {f[x].nokkel}
           /\ f' = [f EXCEPT ![x] = TomForsp]
           /\ medlem' = medlem /\ aktiv' = aktiv
  <1> USE Typer DEF TypInv
  <1>1. /\ f[x].nokkel \in Nokkel /\ f[x].bruker \in Bruker
        /\ f[x].handling \in Handling /\ f[x].versjon \in Nat
        BY DEF ForespOK, FType
  <1>2. InndataAv(x) \in AlleInndata /\ InndataAv(x) # Ingen
        BY <1>1, IngenAntatt DEF InndataAv, AlleInndata
  <1> DEFINE rad == [inn |-> InndataAv(x), svar |-> svar]
  <1>3. rad \in IdemType /\ rad.inn = InndataAv(x) /\ rad.svar = svar
        BY <1>2 DEF IdemType
  <1>4. idem' = [idem EXCEPT ![f[x].nokkel] = rad]
        BY DEF Fullfor
  <1> HIDE DEF rad
  <1> QED BY <1>1, <1>2, <1>3, <1>4 DEF Fullfor

(* What a step that writes in a round always does.                         *)
Skrevet(x, n, rp) ==
    /\ runder' \in [Runde -> RundeType]
    /\ runder'[n].status \in {"apen", "brukt", "kansellert"} /\ runder'[n].policy = rp
    /\ \A m \in Runde \ {n} : runder'[m] = runder[m]
    /\ stemmer' = stemmer \cup {Attestasjon(x, n)}
    /\ sak' \in SakType /\ sak'.versjon > sak.versjon
    /\ flagget' = flagget
    /\ oppdrag' \in {oppdrag, "kansellert"}
    /\ utfall' \subseteq UtfallType
    /\ \E svar \in Svar : Fullfor(x, svar)

LEMMA RundeAttestert ==
    ASSUME TypeOK, NEW x \in Forsp, NEW n \in Runde, NEW rp \in Policy,
           NEW st \in {"apen", "brukt", "kansellert"},
           Attester(x, n, [policy |-> rp, status |-> st])
    PROVE  /\ runder' \in [Runde -> RundeType]
           /\ runder'[n].status = st /\ runder'[n].policy = rp
           /\ \A m \in Runde \ {n} : runder'[m] = runder[m]
           /\ stemmer' = stemmer \cup {Attestasjon(x, n)}
  <1>1. runder' = [runder EXCEPT ![n] = [@ EXCEPT !.policy = rp, !.status = st]]
        BY DEF Attester
  <1>2. runder[n] \in RundeType /\ runder \in [Runde -> RundeType]
        BY Typer
  <1>3. /\ [runder[n] EXCEPT !.policy = rp, !.status = st] \in RundeType
        /\ [runder[n] EXCEPT !.policy = rp, !.status = st].status = st
        /\ [runder[n] EXCEPT !.policy = rp, !.status = st].policy = rp
        BY <1>2 DEF RundeType
  <1> QED BY <1>1, <1>2, <1>3 DEF Attester

LEMMA Tilstand ==
    ASSUME TypeOK, NEW st \in {"manuell", "avvist", "venter_utforelse"} \cup IRunde,
           NEW h \in 1..3, Til(st, h)
    PROVE  /\ sak' \in SakType /\ sak'.versjon > sak.versjon
           /\ sak'.status = st
  BY Typer DEF Til, SakType

LEMMA SkriverKart ==
    ASSUME SaksInv, NEW x \in Forsp, NEW n, NEW rp, NEW hopp, Sted(x, n, rp, hopp),
           Skriver(x, n, rp, hopp)
    PROVE  Skrevet(x, n, rp)
  <1>0. /\ TypeOK /\ n \in Runde /\ rp \in Policy /\ hopp \in 0..1
        /\ f[x].policy \in Policy
        BY StedType DEF SaksInv, TypInv
  <1>u. utfall \subseteq UtfallType
        BY <1>0, Typer
  <1>1. CASE AvvisGjort(x, n, rp, hopp)
    <2>1. /\ Attester(x, n, [policy |-> rp, status |-> "kansellert"])
          /\ Til("avvist", hopp + 1) /\ Fullfor(x, "avvist")
          /\ UNCHANGED <<flagget, utfall>> /\ oppdrag' \in {oppdrag, "kansellert"}
          BY <1>1 DEF AvvisGjort
    <2>2. hopp + 1 \in 1..3
          BY <1>0
    <2>3. sak' \in SakType /\ sak'.versjon > sak.versjon
          BY <1>0, <2>1, <2>2, Tilstand
    <2> QED BY <1>0, <1>u, <2>1, <2>3, RundeAttestert DEF Skrevet, Svar
  <1>2. CASE EskalerGjort(x, n, rp, hopp)
    <2>1. /\ Attester(x, n, [policy |-> rp, status |-> "kansellert"])
          /\ Til("manuell", hopp + 1) /\ Fullfor(x, "eskalert")
          /\ UNCHANGED <<flagget, utfall, oppdrag>>
          BY <1>2 DEF EskalerGjort, Eskaler
    <2>2. hopp + 1 \in 1..3
          BY <1>0
    <2>3. sak' \in SakType /\ sak'.versjon > sak.versjon
          BY <1>0, <2>1, <2>2, Tilstand
    <2> QED BY <1>0, <1>u, <2>1, <2>3, RundeAttestert DEF Skrevet, Svar
  <1>3. CASE VenterGjort(x, n, rp, hopp)
    <2>1. /\ Attester(x, n, [policy |-> rp, status |-> "apen"])
          /\ Fullfor(x, "venter_andre_godkjenner")
          /\ UNCHANGED <<flagget, utfall, oppdrag>>
          BY <1>3 DEF VenterGjort
    <2>2. sak' \in SakType /\ sak'.versjon > sak.versjon
          BY <1>0, <1>3, VenterNy, Tilstand DEF IRunde
    <2> QED BY <1>0, <1>u, <2>1, <2>2, RundeAttestert DEF Skrevet, Svar
  <1>4. CASE DomGjort(x, n, rp, hopp)
    <2>1. PICK svar \in {"TILLAT", "UNNTAK"}, loftet, gyldige, iTide \in BOOLEAN :
             /\ Til(IF svar = "TILLAT" THEN "venter_utforelse" ELSE "manuell", hopp + 2)
             /\ utfall' = utfall \cup
                  {[runde |-> n, policy |-> rp, under |-> f[x].policy, svar |-> svar,
                    loftet |-> loftet, gyldige |-> gyldige, iTide |-> iTide]}
             /\ Fullfor(x, svar)
          BY <1>4 DEF DomGjort
    <2>2. /\ Attester(x, n, [policy |-> rp, status |-> "brukt"])
          /\ UNCHANGED <<flagget, oppdrag>>
          BY <1>4 DEF DomGjort
    <2>3. hopp + 2 \in 1..3
          BY <1>0
    <2>4. sak' \in SakType /\ sak'.versjon > sak.versjon
          BY <1>0, <2>1, <2>3, Tilstand
    <2>5. utfall' \subseteq UtfallType
          BY <1>0, <1>u, <2>1 DEF UtfallType
    <2> QED BY <1>0, <2>1, <2>2, <2>4, <2>5, RundeAttestert DEF Skrevet, Svar
  <1> QED BY <1>1, <1>2, <1>3, <1>4 DEF Skriver

-----------------------------------------------------------------------------
(* Types.                                                                  *)

LEMMA InitTyp == Init => TypInv
  <1> SUFFICES ASSUME Init PROVE TypInv
      OBVIOUS
  <1>1. \A x \in Forsp : f[x] = TomForsp
        BY DEF Init
  <1>2. ForespOK
        BY <1>1, TomType DEF ForespOK, HarSak
  <1>3. TomRunde \in RundeType
        BY DEF TomRunde, RundeType
  <1>4. runder \in [Runde -> RundeType] /\ f \in [Forsp -> FType]
        BY <1>3, TomType DEF Init
  <1>5. idem \in [Nokkel -> IdemType]
        BY DEF Init, IdemType
  <1>6. sak \in SakType /\ oppdrag \in OppdragStatus
        BY UteAntatt DEF Init, SakType, OppdragStatus, Levende
  <1> QED BY <1>2, <1>4, <1>5, <1>6, Typer DEF Init, TypInv

(* The world leaves the requests alone, and brings nothing that cannot be  *)
(* dissolved.                                                              *)
LEMMA VerdenKart ==
    ASSUME TypeOK, VerdenSteg
    PROVE  /\ UNCHANGED <<sak, flagget, stemmer, utfall, idem, logg, f>>
           /\ oppdrag' \in OppdragStatus
           /\ oppdrag' \in Levende => oppdrag' = oppdrag
           /\ runder' \in [Runde -> RundeType]
           /\ \A n \in Runde : /\ runder'[n].status = runder[n].status
                               /\ runder'[n].policy = runder[n].policy
           /\ medlem' \in [Bruker -> Rollesett] /\ aktiv' \in Policy
  <1> USE Typer
  <1>1. CASE RollerEndres
        BY <1>1 DEF RollerEndres, varig
  <1>2. CASE PolicyAktiveres
        BY <1>2 DEF PolicyAktiveres, varig
  <1>3. CASE RundeUtloper
    <2>1. PICK n \in Aktiv : runder' = [runder EXCEPT ![n].utlopt = TRUE]
          BY <1>3 DEF RundeUtloper
    <2>2. n \in Runde /\ [runder[n] EXCEPT !.utlopt = TRUE] \in RundeType
          BY DEF Aktiv, RundeType
    <2> QED BY <1>3, <2>1, <2>2 DEF RundeUtloper, RundeType
  <1>4. CASE OppdragSlutter
        BY <1>4 DEF OppdragSlutter, Levende, OppdragStatus
  <1> QED BY <1>1, <1>2, <1>3, <1>4 DEF VerdenSteg

(* Requests of which nothing changed, about a case that did not move, stay *)
(* as they were; about one that moved, those that do not hold it.          *)
LEMMA ForespBlir ==
    ASSUME TypInv, NEW x, \A y \in Forsp \ {x} : f'[y] = f[y],
           sak'.versjon >= sak.versjon, sak'.versjon \in Nat,
           sak' = sak \/ \A y \in Forsp \ {x} : ~HarSak(y),
           oppdrag' = "uloselig" => oppdrag = "uloselig",
           x \in Forsp => f'[x].pc = "ledig"
    PROVE  ForespOK'
  <1> USE DEF TypInv
  <1>1. \A y \in Forsp : f[y] \in FType /\ f[y].versjon \in Nat
        BY Typer DEF FType
  <1>2. sak.versjon \in Nat
        BY Typer DEF SakType
  <1> SUFFICES ASSUME NEW y \in Forsp, f'[y].pc # "ledig"
               PROVE  /\ f'[y].bruker \in Bruker /\ f'[y].handling \in Handling
                      /\ f'[y].nokkel \in Nokkel /\ f'[y].versjon <= sak'.versjon
                      /\ HarSak(y)' => f'[y].versjon = sak'.versjon /\ HarScope(f'[y].roller)
                      /\ f'[y].pc = "vurdert" =>
                            /\ f'[y].policy \in Policy
                            /\ f'[y].handling = "avvis" => oppdrag' # "uloselig"
      BY DEF ForespOK, HarSak
  <1>3. f'[y] = f[y] /\ (sak' = sak \/ ~HarSak(y))
        OBVIOUS
  <1> QED BY <1>1, <1>2, <1>3 DEF ForespOK, HarSak

LEMMA TypSteg == SaksInv /\ [Next]_vars => TypInv'
  <1> SUFFICES ASSUME SaksInv, [Next]_vars PROVE TypInv'
      OBVIOUS
  <1> USE DEF SaksInv
  <1>0. TypInv /\ TypeOK /\ ForespOK
        BY DEF TypInv
  <1>s. sak.versjon \in Nat /\ sak \in SakType
        BY <1>0, Typer DEF SakType
  <1>1. CASE VerdenSteg
    <2>1. TypeOK'
          BY <1>0, <1>1, VerdenKart, Typer, NyeTyper
    <2>2. ForespOK'
      <3>1. f' = f /\ sak' = sak /\ (oppdrag' = "uloselig" => oppdrag = "uloselig")
            BY <1>0, <1>1, VerdenKart DEF Levende
      <3> QED BY <1>0, <3>1 DEF ForespOK, HarSak
    <2> QED BY <2>1, <2>2 DEF TypInv
  <1>2. ASSUME NEW x \in Forsp, Send(x) PROVE TypInv'
    <2>1. PICK b \in Bruker, h \in Handling, k \in Nokkel, v \in 1..sak.versjon :
             f' = [f EXCEPT ![x] = [TomForsp EXCEPT
                 !.pc = "sendt", !.bruker = b, !.handling = h, !.nokkel = k,
                 !.versjon = v, !.utlopt = Utlopte]]
          BY <1>2 DEF Send
    <2> DEFINE ny == [TomForsp EXCEPT
                 !.pc = "sendt", !.bruker = b, !.handling = h, !.nokkel = k,
                 !.versjon = v, !.utlopt = Utlopte]
    <2>2. /\ ny \in FType /\ ny.pc = "sendt" /\ ny.bruker = b /\ ny.handling = h
          /\ ny.nokkel = k /\ ny.versjon = v
      <3>1. v \in Nat /\ Utlopte \in SUBSET Runde
            BY <1>s DEF Utlopte
      <3> QED BY <3>1, TomType DEF FType
    <2> HIDE DEF ny
    <2>3. f' \in [Forsp -> FType] /\ f'[x] = ny /\ \A y \in Forsp \ {x} : f'[y] = f[y]
          BY <1>0, <2>1, <2>2, Typer DEF ny
    <2>4. UNCHANGED <<varig, medlem, aktiv>>
          BY <1>2 DEF Send
    <2>5. TypeOK'
          BY <1>0, <2>3, <2>4, Typer, NyeTyper DEF varig
    <2>6. v <= sak.versjon
          BY <1>s
    <2>7. ForespOK'
          BY <1>0, <2>2, <2>3, <2>4, <2>6 DEF varig, ForespOK, HarSak
    <2> QED BY <2>5, <2>7 DEF TypInv
  <1>3. ASSUME NEW x \in Forsp, Slutt(x) PROVE TypInv'
    <2>1. UNCHANGED <<varig, medlem, aktiv>> /\ f' = [f EXCEPT ![x] = TomForsp]
          BY <1>3 DEF Slutt
    <2>2. TypeOK'
          BY <1>0, <2>1, Tomt, Typer, NyeTyper DEF varig
    <2>3. ForespOK'
      <3>1. sak' = sak /\ oppdrag' = oppdrag /\ sak'.versjon >= sak.versjon
            BY <1>s, <2>1 DEF varig
      <3> QED BY <1>0, <1>s, <2>1, <3>1, Tomt, ForespBlir
    <2> QED BY <2>2, <2>3 DEF TypInv
  <1>4. ASSUME NEW x \in Forsp, Gaar(x) PROVE TypInv'
    <2>1. UNCHANGED <<varig, medlem, aktiv>>
          BY <1>4 DEF Gaar
    <2>2. f[x] \in FType /\ (medlem[f[x].bruker] \in SUBSET Rolle \/ f[x].pc = "ledig")
          BY <1>0, Typer DEF ForespOK, Rolle
    <2>3. \E ny \in FType :
             /\ f' = [f EXCEPT ![x] = ny]
             /\ ny.pc # "ledig" /\ f[x].pc # "ledig"
             /\ ny.bruker = f[x].bruker /\ ny.handling = f[x].handling
             /\ ny.nokkel = f[x].nokkel /\ ny.versjon = f[x].versjon
             /\ ny.pc \in {"laast", "vurdert"} =>
                   ny.versjon = sak.versjon /\ HarScope(ny.roller)
             /\ ny.pc = "vurdert" =>
                   /\ ny.policy \in Policy
                   /\ ny.handling = "avvis" => oppdrag # "uloselig"
      <3>0. f[x] \in FType
            BY <1>0, Typer
      <3>1. CASE f[x].pc = "sendt" /\ f' = [f EXCEPT ![x].pc = "nokkel"]
        <4> DEFINE ny == [f[x] EXCEPT !.pc = "nokkel"]
        <4>1. ny \in FType
              BY <3>0 DEF FType
        <4> QED BY <3>0, <3>1, <4>1 DEF FType
      <3>2. CASE /\ f[x].pc = "nokkel" /\ HarScope(medlem[f[x].bruker])
                 /\ f[x].versjon = sak.versjon
                 /\ f' = [f EXCEPT ![x].pc = "laast", ![x].roller = medlem[f[x].bruker]]
        <4> DEFINE ny == [f[x] EXCEPT !.pc = "laast", !.roller = medlem[f[x].bruker]]
        <4>1. ny \in FType
              BY <2>2, <3>0, <3>2 DEF FType
        <4>2. /\ ny.pc = "laast" /\ ny.bruker = f[x].bruker
              /\ ny.handling = f[x].handling /\ ny.nokkel = f[x].nokkel
              /\ ny.versjon = f[x].versjon /\ ny.roller = medlem[f[x].bruker]
              BY <3>0 DEF FType
        <4>3. f' = [f EXCEPT ![x] = ny]
              BY <3>2
        <4> HIDE DEF ny
        <4> QED BY <3>2, <4>1, <4>2, <4>3
      <3>3. CASE /\ f[x].pc = "laast" /\ ~Sperret(x)
                 /\ f' = [f EXCEPT ![x].pc = "vurdert", ![x].policy = aktiv,
                                   ![x].sett = oppdrag]
        <4> DEFINE ny == [f[x] EXCEPT !.pc = "vurdert", !.policy = aktiv, !.sett = oppdrag]
        <4>1. ny \in FType
              BY <1>0, <3>0, Typer DEF FType
        <4>2. f[x].versjon = sak.versjon /\ HarScope(f[x].roller)
              BY <1>0, <3>3 DEF ForespOK, HarSak
        <4>3. aktiv \in Policy
              BY <1>0, Typer
        <4>4. /\ ny.pc = "vurdert" /\ ny.bruker = f[x].bruker
              /\ ny.handling = f[x].handling /\ ny.nokkel = f[x].nokkel
              /\ ny.versjon = f[x].versjon /\ ny.roller = f[x].roller
              /\ ny.policy = aktiv
              BY <3>0 DEF FType
        <4>5. f' = [f EXCEPT ![x] = ny]
              BY <3>3
        <4>6. f[x].handling = "avvis" => oppdrag # "uloselig"
              BY <3>3 DEF Sperret
        <4> HIDE DEF ny
        <4> QED BY <3>3, <4>1, <4>2, <4>3, <4>4, <4>5, <4>6
      <3> QED BY <1>4, <3>1, <3>2, <3>3 DEF Gaar
    <2>4. f' \in [Forsp -> FType]
          BY <1>0, <2>3, Typer
    <2>5. TypeOK'
          BY <1>0, <2>1, <2>4, Typer, NyeTyper DEF varig
    <2>6. ForespOK'
          BY <1>0, <2>1, <2>3, Typer DEF varig, ForespOK, HarSak
    <2> QED BY <2>5, <2>6 DEF TypInv
  <1>5. ASSUME NEW x \in Forsp, Flagger(x) PROVE TypInv'
    <2>1. /\ f[x].pc = "laast" /\ HarSak(x)
          /\ \A y \in Forsp \ {x} : ~HarSak(y)
          BY <1>5 DEF Flagger, HarSak, LaasInv
    <2>2. Fullfor(x, "utestaaende_oppdrag") /\ "utestaaende_oppdrag" \in Svar
          BY <1>5 DEF Flagger, Svar
    <2>3. sak' \in SakType /\ sak'.versjon >= sak.versjon /\ sak'.versjon \in Nat
          BY <1>s, <1>5 DEF Flagger, SakType
    <2>4. flagget' \in {Ingen, "uloselig"} /\ UNCHANGED <<oppdrag, runder, stemmer, utfall>>
          BY <1>5 DEF Flagger, Sperret
    <2>5. idem' \in [Nokkel -> IdemType] /\ logg' \subseteq Nokkel
          BY <1>0, <2>1, <2>2, Fullfort, Typer
    <2>6. f' = [f EXCEPT ![x] = TomForsp] /\ medlem' = medlem /\ aktiv' = aktiv
          BY <2>2 DEF Fullfor
    <2>7. TypeOK'
          BY <1>0, <2>3, <2>4, <2>5, <2>6, Tomt, Typer, NyeTyper
    <2>8. ForespOK'
          BY <1>0, <2>1, <2>3, <2>4, <2>6, Tomt, ForespBlir
    <2> QED BY <2>7, <2>8 DEF TypInv
  <1>6. ASSUME NEW x \in Forsp, NEW n, NEW rp, NEW hopp, Sted(x, n, rp, hopp),
               Skriver(x, n, rp, hopp)
        PROVE  TypInv'
    <2>1. Skrevet(x, n, rp)
          BY <1>6, SkriverKart
    <2>2. /\ HarSak(x) /\ f[x].pc # "ledig" /\ \A y \in Forsp \ {x} : ~HarSak(y)
          BY <1>6, StedType DEF HarSak, LaasInv
    <2>3. PICK svar \in Svar : Fullfor(x, svar)
          BY <2>1 DEF Skrevet
    <2>4. idem' \in [Nokkel -> IdemType] /\ logg' \subseteq Nokkel
          BY <1>0, <2>2, <2>3, Fullfort, Typer
    <2>5. f' = [f EXCEPT ![x] = TomForsp] /\ medlem' = medlem /\ aktiv' = aktiv
          BY <2>3 DEF Fullfor
    <2>6. stemmer' \subseteq StemmeType
          BY <1>0, <1>6, <2>1, StemmeOK, Typer DEF Skrevet
    <2>7. sak' \in SakType /\ sak'.versjon >= sak.versjon /\ sak'.versjon \in Nat
          BY <1>s, <2>1 DEF Skrevet, SakType
    <2>8. oppdrag' \in OppdragStatus /\ (oppdrag' = "uloselig" => oppdrag = "uloselig")
          BY <1>0, <2>1, Typer DEF Skrevet, OppdragStatus
    <2>9. TypeOK'
          BY <1>0, <2>1, <2>4, <2>5, <2>6, <2>7, <2>8, Tomt, Typer, NyeTyper DEF Skrevet
    <2>10. ForespOK'
          BY <1>0, <2>2, <2>5, <2>7, <2>8, Tomt, ForespBlir
    <2> QED BY <2>9, <2>10 DEF TypInv
  <1>7. CASE UNCHANGED vars
        BY <1>0, <1>7 DEF vars, TypInv, TypeOK, ForespOK, HarSak, Levende, Runde
  <1>8. \A x \in Forsp : f[x].pc = "vurdert" => f[x].handling \in Handling
        BY <1>0 DEF ForespOK
  <1> QED BY <1>1, <1>2, <1>3, <1>4, <1>5, <1>6, <1>7, <1>8, Kart

-----------------------------------------------------------------------------
(* Locks.                                                                  *)

(* A request that ends, by itself or with its commit, lets go of both.     *)
LEMMA LaasSlutt ==
    ASSUME SaksInv, NEW x \in Forsp, f' = [f EXCEPT ![x] = TomForsp],
           \/ idem' = idem
           \/ /\ HarNokkel(x)
              /\ \A k \in Nokkel \ {f[x].nokkel} : idem'[k] = idem[k]
    PROVE  LaasInv'
  <1>1. /\ \A y \in Forsp \ {x} : f'[y] = f[y]
        /\ ~HarSak(x)' /\ ~HarNokkel(x)'
        BY Tomt DEF SaksInv, TypInv
  <1>2. \A y \in Forsp : HarSak(y)' => y # x /\ HarSak(y)
        BY <1>1 DEF HarSak
  <1>3. \A y \in Forsp : HarNokkel(y)' => y # x /\ HarNokkel(y) /\ f'[y] = f[y]
        BY <1>1 DEF HarNokkel
  <1>4. \A y \in Forsp : HarNokkel(y) => f[y].nokkel \in Nokkel
        BY DEF SaksInv, TypInv, ForespOK, HarNokkel
  <1>5. \A y \in Forsp : HarNokkel(y)' => idem'[f'[y].nokkel].inn = Ingen
    <2> SUFFICES ASSUME NEW y \in Forsp, HarNokkel(y)'
                 PROVE  idem'[f'[y].nokkel].inn = Ingen
        OBVIOUS
    <2>1. /\ y # x /\ HarNokkel(y) /\ f'[y] = f[y] /\ f[y].nokkel \in Nokkel
          BY <1>3, <1>4
    <2>2. idem' = idem \/ (HarNokkel(x) /\ f[y].nokkel # f[x].nokkel)
          BY <2>1 DEF SaksInv, LaasInv
    <2>3. idem'[f[y].nokkel] = idem[f[y].nokkel]
          BY <2>1, <2>2
    <2> QED BY <2>1, <2>3 DEF SaksInv, LaasInv
  <1>6. \A y, z \in Forsp : HarSak(y)' /\ HarSak(z)' => y = z
        BY <1>2 DEF SaksInv, LaasInv
  <1>7. \A y, z \in Forsp :
           HarNokkel(y)' /\ HarNokkel(z)' /\ f'[y].nokkel = f'[z].nokkel => y = z
        BY <1>3 DEF SaksInv, LaasInv
  <1> QED BY <1>5, <1>6, <1>7 DEF LaasInv

LEMMA LaasSteg == SaksInv /\ [Next]_vars => LaasInv'
  <1> SUFFICES ASSUME SaksInv, [Next]_vars PROVE LaasInv'
      OBVIOUS
  <1>0. /\ TypInv /\ TypeOK /\ ForespOK /\ LaasInv /\ f \in [Forsp -> FType]
        BY Typer DEF SaksInv, TypInv
  <1>1. CASE UNCHANGED <<f, idem>>
        BY <1>0, <1>1 DEF LaasInv, HarSak, HarNokkel
  <1>2. ASSUME NEW x \in Forsp, Send(x) PROVE LaasInv'
    <2>1. f[x].pc = "ledig" /\ idem' = idem
          BY <1>2 DEF Send, varig
    <2>2. /\ \A y \in Forsp \ {x} : f'[y] = f[y]
          /\ f'[x].pc = "sendt"
      <3>1. PICK b \in Bruker, h \in Handling, k \in Nokkel, v \in 1..sak.versjon :
               f' = [f EXCEPT ![x] = [TomForsp EXCEPT
                   !.pc = "sendt", !.bruker = b, !.handling = h, !.nokkel = k,
                   !.versjon = v, !.utlopt = Utlopte]]
            BY <1>2 DEF Send
      <3> QED BY <1>0, <3>1, TomType DEF FType
    <2> QED BY <1>0, <2>1, <2>2 DEF LaasInv, HarSak, HarNokkel
  <1>3. ASSUME NEW x \in Forsp, Slutt(x) PROVE LaasInv'
        BY <1>3, LaasSlutt DEF Slutt, varig
  <1>4. ASSUME NEW x \in Forsp, Gaar(x) PROVE LaasInv'
    <2>1. /\ idem' = idem /\ \A y \in Forsp \ {x} : f'[y] = f[y]
          /\ f'[x].nokkel = f[x].nokkel
          BY <1>0, <1>4 DEF Gaar, varig, FType
    <2>2. CASE /\ f[x].pc = "sendt" /\ idem[f[x].nokkel].inn = Ingen
               /\ \A y \in Forsp : HarNokkel(y) => f[y].nokkel # f[x].nokkel
               /\ f'[x].pc = "nokkel"
          BY <1>0, <2>1, <2>2 DEF LaasInv, HarSak, HarNokkel
    <2>3. CASE /\ f[x].pc = "nokkel" /\ \A y \in Forsp : ~HarSak(y)
               /\ f'[x].pc = "laast"
          BY <1>0, <2>1, <2>3 DEF LaasInv, HarSak, HarNokkel
    <2>4. CASE f[x].pc = "laast" /\ f'[x].pc = "vurdert"
          BY <1>0, <2>1, <2>4 DEF LaasInv, HarSak, HarNokkel
    <2>5. f[x] \in FType
          BY <1>0
    <2> QED BY <1>0, <1>4, <2>2, <2>3, <2>4, <2>5 DEF Gaar, FType
  <1>5. ASSUME NEW x \in Forsp, HarNokkel(x), NEW svar \in Svar, Fullfor(x, svar)
        PROVE  LaasInv'
    <2>1. f[x].pc # "ledig"
          BY <1>5 DEF HarNokkel
    <2> QED BY <1>0, <1>5, <2>1, Fullfort, LaasSlutt
  <1>6. ASSUME NEW x \in Forsp, Flagger(x) PROVE LaasInv'
    <2>1. HarNokkel(x) /\ "utestaaende_oppdrag" \in Svar
          BY <1>6 DEF Flagger, HarNokkel, Svar
    <2> QED BY <1>5, <1>6, <2>1 DEF Flagger
  <1>7. ASSUME NEW x \in Forsp, NEW n, NEW rp, NEW hopp, Sted(x, n, rp, hopp),
               Skriver(x, n, rp, hopp)
        PROVE  LaasInv'
        BY <1>5, <1>7, SkriverKart, StedType DEF Skrevet
  <1>8. VerdenSteg => UNCHANGED <<f, idem>>
        BY <1>0, VerdenKart
  <1>9. \A x \in Forsp : f[x].pc = "vurdert" => f[x].handling \in Handling
        BY <1>0 DEF ForespOK
  <1> QED BY <1>1, <1>2, <1>3, <1>4, <1>6, <1>7, <1>8, <1>9, Kart DEF vars

-----------------------------------------------------------------------------
(* Rounds are numbered, and there is always a number left.                 *)

(* What counts is which rounds are opened, and which of them are open.     *)
LEMMA PlassBlir ==
    ASSUME SaksInv, \A n \in Runde : runder'[n].status = runder[n].status,
           \A x \in Forsp :
              f'[x].pc # "ledig" /\ f'[x].versjon = sak'.versjon /\ Aktiv = {} =>
                 NesteRunde \in Runde
    PROVE  PlassInv'
  <1>1. Aapnede' = Aapnede /\ Aktiv' = Aktiv
        BY DEF Aapnede, Aktiv
  <1>2. NesteRunde' = NesteRunde
        BY <1>1 DEF NesteRunde, Aapnede
  <1> QED BY <1>1, <1>2 DEF PlassInv, SaksInv

LEMMA PlassSteg == SaksInv /\ [Next]_vars => PlassInv'
  <1> SUFFICES ASSUME SaksInv, [Next]_vars PROVE PlassInv'
      OBVIOUS
  <1>0. /\ TypInv /\ TypeOK /\ ForespOK /\ f \in [Forsp -> FType] /\ PlassInv
        /\ sak.versjon \in Nat
        BY Typer DEF SaksInv, TypInv, SakType
  <1>1. ASSUME UNCHANGED <<f, sak>>, \A n \in Runde : runder'[n].status = runder[n].status
        PROVE  PlassInv'
        BY <1>0, <1>1, PlassBlir DEF PlassInv
  <1>2. ASSUME NEW x \in Forsp, Send(x) PROVE PlassInv'
    <2>1. \A y \in Forsp \ {x} : f'[y] = f[y]
          BY <1>0, <1>2 DEF Send
    <2>2. (Aktiv = {} => NesteRunde \in Runde) /\ sak' = sak /\ runder' = runder
          BY <1>2 DEF Send, varig
    <2> QED BY <1>0, <2>1, <2>2, PlassBlir DEF PlassInv
  <1>3. ASSUME NEW x \in Forsp, Slutt(x) PROVE PlassInv'
    <2>1. /\ f'[x].pc = "ledig" /\ \A y \in Forsp \ {x} : f'[y] = f[y]
          /\ sak' = sak /\ runder' = runder
          BY <1>0, <1>3, Tomt DEF Slutt, varig
    <2> QED BY <1>0, <2>1, PlassBlir DEF PlassInv
  <1>4. ASSUME NEW x \in Forsp, Gaar(x) PROVE PlassInv'
    <2>1. /\ \A y \in Forsp \ {x} : f'[y] = f[y]
          /\ f'[x].versjon = f[x].versjon /\ f[x].pc # "ledig"
          /\ sak' = sak /\ runder' = runder
          BY <1>0, <1>4 DEF Gaar, varig, FType
    <2> QED BY <1>0, <2>1, PlassBlir DEF PlassInv
  <1>5. ASSUME NEW x \in Forsp, Flagger(x) PROVE PlassInv'
    <2>1. f' = [f EXCEPT ![x] = TomForsp] /\ runder' = runder
          BY <1>5 DEF Flagger, Fullfor
    <2>2. f'[x].pc = "ledig" /\ \A y \in Forsp \ {x} : f'[y] = f[y]
          BY <1>0, <2>1, Tomt
    <2>3. sak' = sak \/ sak'.versjon = sak.versjon + 1
          BY <1>0, <1>5, Typer DEF Flagger, SakType
    <2>4. \A y \in Forsp : f[y].versjon \in Nat
          BY <1>0 DEF FType
    <2>5. \A y \in Forsp : f'[y].pc # "ledig" /\ f'[y].versjon = sak'.versjon
                              => f[y].pc # "ledig" /\ f[y].versjon = sak.versjon
          BY <1>0, <2>2, <2>3, <2>4 DEF ForespOK
    <2> QED BY <1>0, <2>1, <2>5, PlassBlir DEF PlassInv
  <1>6. ASSUME NEW x \in Forsp, NEW n, NEW rp, NEW hopp, Sted(x, n, rp, hopp),
               Skriver(x, n, rp, hopp)
        PROVE  PlassInv'
    <2>1. Skrevet(x, n, rp) /\ n \in Runde
          BY <1>6, SkriverKart, StedType
    <2>2. PICK c \in 0..MaksRunde : Aapnede = 1..c
          BY <1>0 DEF PlassInv
    <2>3. \E d \in 0..MaksRunde : Aapnede' = 1..d
      <3>1. Aapnede' = Aapnede \cup {n}
            BY <2>1 DEF Skrevet, Aapnede
      <3>2. CASE n \in Aktiv
            BY <2>2, <3>1, <3>2 DEF Aktiv, Aapnede
      <3>3. CASE n = NesteRunde
        <4>1. n = c + 1
              BY <2>2, <3>3, Neste
        <4>2. c \in Nat /\ c + 1 \in 0..MaksRunde
              BY <2>1, <4>1, RundeAntatt DEF Runde
        <4>3. (1..c) \cup {c + 1} = 1..(c + 1)
              BY <4>2
        <4> QED BY <2>2, <3>1, <4>1, <4>2, <4>3
      <3> QED BY <1>6, <3>2, <3>3 DEF Sted
    <2>4. f' = [f EXCEPT ![x] = TomForsp]
          BY <2>1 DEF Skrevet, Fullfor
    <2>5. f'[x].pc = "ledig" /\ \A y \in Forsp \ {x} : f'[y] = f[y]
          BY <1>0, <2>4, Tomt
    <2>6. sak'.versjon > sak.versjon /\ sak'.versjon \in Nat
          BY <2>1 DEF Skrevet, SakType
    <2>7. \A y \in Forsp : f[y].versjon \in Nat
          BY <1>0 DEF FType
    <2>8. \A y \in Forsp : ~(f'[y].pc # "ledig" /\ f'[y].versjon = sak'.versjon)
          BY <1>0, <2>5, <2>6, <2>7 DEF ForespOK
    <2> QED BY <2>3, <2>8 DEF PlassInv
  <1>7. VerdenSteg => /\ UNCHANGED <<f, sak>>
                      /\ \A n \in Runde : runder'[n].status = runder[n].status
        BY <1>0, VerdenKart
  <1>8. \A x \in Forsp : f[x].pc = "vurdert" => f[x].handling \in Handling
        BY <1>0 DEF ForespOK
  <1> QED BY <1>1, <1>2, <1>3, <1>4, <1>5, <1>6, <1>7, <1>8, Kart DEF vars

-----------------------------------------------------------------------------
(* Rounds, votes and outcomes.                                             *)

LEMMA InitRunde == Init => LaasInv /\ PlassInv /\ RundeInv /\ RundeBaererSak
  <1> SUFFICES ASSUME Init PROVE LaasInv /\ PlassInv /\ RundeInv /\ RundeBaererSak
      OBVIOUS
  <1>1. \A x \in Forsp : f[x].pc = "ledig" /\ ~HarSak(x) /\ ~HarNokkel(x)
        BY TomType DEF Init, HarSak, HarNokkel
  <1>2. \A n \in Runde : runder[n].status = "ingen"
        BY DEF Init, TomRunde
  <1>3. Aapnede = {} /\ Aktiv = {}
        BY <1>2 DEF Aapnede, Aktiv
  <1>4. sak.status = "manuell" /\ stemmer = {} /\ utfall = {}
        BY DEF Init
  <1>5. LaasInv
        BY <1>1 DEF LaasInv
  <1>6. PlassInv
    <2>1. Aapnede = 1..0 /\ 0 \in 0..MaksRunde
          BY <1>3, RundeAntatt
    <2> QED BY <1>1, <2>1 DEF PlassInv
  <1>7. RundeInv
        BY <1>3, <1>4 DEF RundeInv
  <1>8. RundeBaererSak
    <2>1. {u \in utfall : u.svar = "TILLAT"} = {} /\ Cardinality({}) = 0
          BY <1>4, FS_EmptySet
    <2> QED BY <1>2, <1>3, <1>4, <2>1 DEF RundeBaererSak, IRunde
  <1> QED BY <1>5, <1>6, <1>7, <1>8

(* Everything about rounds is about their status and policy, the votes, the *)
(* outcomes and the status of the case.                                    *)
LEMMA RundeBlir ==
    ASSUME SaksInv, sak'.status = sak.status, stemmer' = stemmer, utfall' = utfall,
           \A n \in Runde : /\ runder'[n].status = runder[n].status
                            /\ runder'[n].policy = runder[n].policy
    PROVE  RundeInv' /\ RundeBaererSak' /\ (LoftetAvNok => LoftetAvNok')
  <1>1. Aktiv' = Aktiv /\ Aktiv \subseteq Runde
        BY DEF Aktiv
  <1>2. RundeInv'
        BY <1>1 DEF SaksInv, RundeInv
  <1>3. RundeBaererSak'
        BY <1>1 DEF SaksInv, RundeBaererSak, Godkjennere
  <1>4. LoftetAvNok => LoftetAvNok'
    <2>1. \A u \in utfall : u.runde \in Runde
          BY Typer DEF SaksInv, TypInv, UtfallType
    <2> QED BY <2>1 DEF LoftetAvNok, Godkjennere
  <1> QED BY <1>2, <1>3, <1>4

(* The rest of a step that writes in a round: nobody has been let through, *)
(* the round has no outcome, and the others stay as they are.              *)
LEMMA RundeSkrevet ==
    ASSUME SaksInv, NEW x \in Forsp, NEW n, NEW rp, NEW hopp, Sted(x, n, rp, hopp),
           Skriver(x, n, rp, hopp)
    PROVE  /\ \A m \in Runde \ {n} : runder'[m].status # "apen"
           /\ \A u \in utfall : u.svar # "TILLAT" /\ u.runde \in Runde /\ u.runde # n
           /\ \A m \in Runde : runder'[m].status = "ingen" =>
                 \A s \in stemmer' : s.runde # m
           /\ \A m \in Runde \ {n} : (runder'[m].status = "brukt")
                                      <=> (\E u \in utfall : u.runde = m)
           /\ LoftetAvNok => \A u \in utfall : u.loftet =>
                 LET ja == Godkjennere(u.runde, stemmer') IN
                 /\ u.under = u.policy
                 /\ u.policy = runder'[u.runde].policy
                 /\ Cardinality({s.bruker : s \in ja}) >= Terskel(u.policy)
                 /\ \A s \in ja : s.policy = u.policy /\ s.rolle = KreverRolle[u.policy]
           /\ sak.status \in {"manuell"} \cup IRunde
  <1>1. /\ Skrevet(x, n, rp) /\ n \in Runde /\ runder[n].status \in {"ingen", "apen"}
        /\ \A m \in Aktiv : m = n
        BY SkriverKart, StedType
  <1>2. /\ \A m \in Runde \ {n} : runder'[m] = runder[m]
        /\ stemmer' = stemmer \cup {Attestasjon(x, n)}
        /\ runder'[n].status # "ingen"
        /\ Attestasjon(x, n).runde = n
        BY <1>1, StemmeOK DEF Skrevet
  <1>3. \A m \in Runde \ {n} : runder'[m].status # "apen"
        BY <1>1, <1>2 DEF Aktiv
  <1>4. sak.status \in {"manuell"} \cup IRunde
        BY StedType DEF SaksInv, RundeBaererSak
  <1>5. \A u \in utfall : u.svar # "TILLAT" /\ u.runde \in Runde /\ u.runde # n
        BY <1>1, <1>4, Typer
           DEF SaksInv, TypInv, RundeInv, RundeBaererSak, UtfallType, IRunde
  <1>6. \A m \in Runde : runder'[m].status = "ingen" => \A s \in stemmer' : s.runde # m
        BY <1>2 DEF SaksInv, RundeInv
  <1>7. \A m \in Runde \ {n} : (runder'[m].status = "brukt")
                               <=> (\E u \in utfall : u.runde = m)
        BY <1>2 DEF SaksInv, RundeBaererSak
  <1>8. ASSUME LoftetAvNok, NEW u \in utfall, u.loftet
        PROVE  LET ja == Godkjennere(u.runde, stemmer') IN
               /\ u.under = u.policy
               /\ u.policy = runder'[u.runde].policy
               /\ Cardinality({s.bruker : s \in ja}) >= Terskel(u.policy)
               /\ \A s \in ja : s.policy = u.policy /\ s.rolle = KreverRolle[u.policy]
    <2>1. Godkjennere(u.runde, stemmer') = Godkjennere(u.runde, stemmer)
          BY <1>2, <1>5 DEF Godkjennere
    <2>2. runder'[u.runde] = runder[u.runde]
          BY <1>2, <1>5
    <2> QED BY <1>8, <2>1, <2>2 DEF LoftetAvNok
  <1> QED BY <1>3, <1>4, <1>5, <1>6, <1>7, <1>8

LEMMA RundeLukket ==
    ASSUME SaksInv, NEW x \in Forsp, NEW n, NEW rp, NEW hopp, Sted(x, n, rp, hopp),
           AvvisGjort(x, n, rp, hopp) \/ EskalerGjort(x, n, rp, hopp)
    PROVE  RundeInv' /\ RundeBaererSak' /\ (LoftetAvNok => LoftetAvNok')
  <1>1. Skriver(x, n, rp, hopp)
        BY DEF Skriver
  <1>2. /\ Attester(x, n, [policy |-> rp, status |-> "kansellert"])
        /\ \E st \in {"avvist", "manuell"} : Til(st, hopp + 1)
        /\ utfall' = utfall
        BY DEF AvvisGjort, EskalerGjort, Eskaler
  <1>3. TypeOK /\ n \in Runde /\ rp \in Policy /\ hopp + 1 \in 1..3
        BY StedType DEF SaksInv, TypInv
  <1>4. runder'[n].status = "kansellert" /\ sak'.status \in {"avvist", "manuell"}
        BY <1>2, <1>3, RundeAttestert, Tilstand
  <1>5. Aktiv' = {}
        BY <1>1, <1>4, RundeSkrevet DEF Aktiv
  <1>6. {u \in utfall' : u.svar = "TILLAT"} = {}
        BY <1>1, <1>2, RundeSkrevet
  <1>7. RundeInv'
        BY <1>1, <1>5, <1>6, RundeSkrevet DEF RundeInv
  <1>8. RundeBaererSak'
    <2>1. \A m \in Runde : (runder'[m].status = "brukt") <=> (\E u \in utfall' : u.runde = m)
          BY <1>1, <1>2, <1>4, RundeSkrevet
    <2>2. \A u, v \in utfall' : u.policy = v.policy => u = v
          BY <1>2 DEF SaksInv, RundeBaererSak
    <2>3. Cardinality({}) = 0
          BY FS_EmptySet
    <2> QED BY <1>4, <1>5, <1>6, <2>1, <2>2, <2>3 DEF RundeBaererSak, IRunde
  <1>9. LoftetAvNok => LoftetAvNok'
        BY <1>1, <1>2, RundeSkrevet DEF LoftetAvNok
  <1> QED BY <1>7, <1>8, <1>9

LEMMA RundeAapnet ==
    ASSUME SaksInv, NEW x \in Forsp, NEW n, NEW rp, NEW hopp, Sted(x, n, rp, hopp),
           VenterGjort(x, n, rp, hopp)
    PROVE  RundeInv' /\ RundeBaererSak' /\ (LoftetAvNok => LoftetAvNok')
  <1> DEFINE a == Attestasjon(x, n)
  <1>1. Skriver(x, n, rp, hopp)
        BY DEF Skriver
  <1>2. /\ Attester(x, n, [policy |-> rp, status |-> "apen"])
        /\ Til("venter_andre_godkjenner", 2) /\ Aktiv = {}
        /\ utfall' = utfall /\ f[x].handling = "godkjenn"
        BY VenterNy DEF VenterGjort
  <1>3. /\ TypeOK /\ n \in Runde /\ rp \in Policy
        /\ rp = f[x].policy /\ \A s \in stemmer : s.runde # n
        BY <1>2, StedType DEF SaksInv, TypInv
  <1>4. /\ runder'[n].status = "apen" /\ runder'[n].policy = rp
        /\ stemmer' = stemmer \cup {a}
        BY <1>2, <1>3, RundeAttestert
  <1>5. sak'.status = "venter_andre_godkjenner"
        BY <1>2, <1>3, Tilstand DEF IRunde
  <1>6. /\ a.runde = n /\ a.handling = "godkjenn" /\ a.policy = rp
        /\ a.rolle = KreverRolle[a.policy]
        BY <1>2, <1>3, StemmeOK
  <1> HIDE DEF a
  <1>7. Aktiv' = {n}
        BY <1>1, <1>3, <1>4, RundeSkrevet DEF Aktiv
  <1>8. {t \in stemmer' : t.runde = n} = {a}
        BY <1>3, <1>4, <1>6
  <1>9. {u \in utfall' : u.svar = "TILLAT"} = {}
        BY <1>1, <1>2, RundeSkrevet
  <1>10. RundeInv'
    <2>1. \A m \in Runde : runder'[m].status = "ingen" => \A s \in stemmer' : s.runde # m
          BY <1>1, RundeSkrevet
    <2>2. a \in stemmer' /\ a.policy = runder'[n].policy
          BY <1>4, <1>6
    <2> QED BY <1>6, <1>7, <1>8, <1>9, <2>1, <2>2 DEF RundeInv
  <1>11. RundeBaererSak'
    <2>1. \A m \in Runde : (runder'[m].status = "brukt") <=> (\E u \in utfall' : u.runde = m)
          BY <1>1, <1>2, <1>4, RundeSkrevet
    <2>2. \A u, v \in utfall' : u.policy = v.policy => u = v
          BY <1>2 DEF SaksInv, RundeBaererSak
    <2>3. Cardinality({}) = 0 /\ Cardinality({n}) = 1
          BY FS_EmptySet, FS_Singleton
    <2>4. a \in Godkjennere(n, stemmer')
          BY <1>4, <1>6 DEF Godkjennere
    <2> QED BY <1>5, <1>7, <1>9, <2>1, <2>2, <2>3, <2>4 DEF RundeBaererSak, IRunde
  <1>12. LoftetAvNok => LoftetAvNok'
        BY <1>1, <1>2, RundeSkrevet DEF LoftetAvNok
  <1> QED BY <1>10, <1>11, <1>12

LEMMA RundeAvgjort ==
    ASSUME SaksInv, NEW x \in Forsp, NEW n, NEW rp, NEW hopp, Sted(x, n, rp, hopp),
           DomGjort(x, n, rp, hopp)
    PROVE  RundeInv' /\ RundeBaererSak' /\ (LoftetAvNok => LoftetAvNok')
  <1>1. Skriver(x, n, rp, hopp)
        BY DEF Skriver
  <1>2. /\ Attester(x, n, [policy |-> rp, status |-> "brukt"])
        /\ f[x].handling = "godkjenn" /\ ~Avgjort(rp)
        /\ Cardinality(Ja(x, n)) >= Terskel(f[x].policy)
        BY DEF DomGjort
  <1>3. TypeOK /\ n \in Runde /\ rp \in Policy /\ hopp + 2 \in 1..3
        BY StedType DEF SaksInv, TypInv
  <1>4. PICK svar \in {"TILLAT", "UNNTAK"}, loftet, gyldige, iTide \in BOOLEAN :
           /\ loftet => rp = f[x].policy
           /\ Til(IF svar = "TILLAT" THEN "venter_utforelse" ELSE "manuell", hopp + 2)
           /\ utfall' = utfall \cup
                {[runde |-> n, policy |-> rp, under |-> f[x].policy, svar |-> svar,
                  loftet |-> loftet, gyldige |-> gyldige, iTide |-> iTide]}
        BY DEF DomGjort
  <1> DEFINE ny == [runde |-> n, policy |-> rp, under |-> f[x].policy, svar |-> svar,
                    loftet |-> loftet, gyldige |-> gyldige, iTide |-> iTide]
  <1>5. /\ utfall' = utfall \cup {ny} /\ ny.runde = n /\ ny.policy = rp
        /\ ny.under = f[x].policy /\ ny.svar = svar /\ ny.loftet = loftet
        BY <1>4
  <1> HIDE DEF ny
  <1>6. /\ runder'[n].status = "brukt" /\ runder'[n].policy = rp
        /\ stemmer' = stemmer \cup {Attestasjon(x, n)}
        BY <1>2, <1>3, RundeAttestert
  <1>7. sak'.status = IF svar = "TILLAT" THEN "venter_utforelse" ELSE "manuell"
        BY <1>3, <1>4, Tilstand
  <1>8. Aktiv' = {}
        BY <1>1, <1>6, RundeSkrevet DEF Aktiv
  <1>9. {u \in utfall' : u.svar = "TILLAT"} = IF svar = "TILLAT" THEN {ny} ELSE {}
        BY <1>1, <1>5, RundeSkrevet
  <1>10. RundeInv'
    <2>1. (\E u \in utfall' : u.svar = "TILLAT") => sak'.status = "venter_utforelse"
          BY <1>7, <1>9
    <2> QED BY <1>1, <1>8, <2>1, RundeSkrevet DEF RundeInv
  <1>11. RundeBaererSak'
    <2>1. \A m \in Runde : (runder'[m].status = "brukt") <=> (\E u \in utfall' : u.runde = m)
          BY <1>1, <1>5, <1>6, RundeSkrevet
    <2>2. \A u, v \in utfall' : u.policy = v.policy => u = v
          BY <1>2, <1>5 DEF SaksInv, RundeBaererSak, Avgjort
    <2>3. Cardinality({}) = 0 /\ Cardinality({ny}) = 1
          BY FS_EmptySet, FS_Singleton
    <2>4. Cardinality({u \in utfall' : u.svar = "TILLAT"}) <= 1
          BY <1>9, <2>3
    <2>5. sak'.status \notin IRunde
          BY <1>7 DEF IRunde
    <2> QED BY <1>8, <2>1, <2>2, <2>3, <2>4, <2>5 DEF RundeBaererSak
  <1>12. ASSUME LoftetAvNok PROVE LoftetAvNok'
    <2>1. Godkjennere(n, stemmer') = Ja(x, n)
          BY <1>6 DEF Ja
    <2>2. ASSUME loftet
          PROVE  /\ f[x].policy = rp
                 /\ Cardinality({s.bruker : s \in Ja(x, n)}) >= Terskel(rp)
                 /\ \A s \in Ja(x, n) : s.policy = rp /\ s.rolle = KreverRolle[rp]
      <3>1. f[x].policy = rp
            BY <1>4, <2>2
      <3>2. /\ Attestasjon(x, n).policy = rp
            /\ Attestasjon(x, n).rolle = KreverRolle[rp]
            BY <1>2, <3>1, StemmeOK
      <3>3. CASE Aktiv = {}
        <4>1. Ja(x, n) = {Attestasjon(x, n)} /\ Cardinality(Ja(x, n)) = 1
              BY <1>2, <3>3, JaEn
        <4>2. {s.bruker : s \in Ja(x, n)} = {Attestasjon(x, n).bruker}
              BY <4>1
        <4>3. Cardinality({s.bruker : s \in Ja(x, n)}) = 1
              BY <4>2, FS_Singleton
        <4> QED BY <1>2, <3>1, <3>2, <4>1, <4>3
      <3>4. CASE Aktiv # {}
        <4>1. /\ Cardinality(Ja(x, n)) = 2
              /\ Cardinality({t.bruker : t \in Ja(x, n)}) = 2
              /\ \A t \in Ja(x, n) : t # Attestasjon(x, n) =>
                    t.policy = rp /\ t.rolle = KreverRolle[rp]
              BY <1>2, <3>4, JaTo
        <4> QED BY <1>2, <3>1, <3>2, <4>1
      <3> QED BY <3>3, <3>4
    <2>3. ASSUME NEW u \in utfall', u.loftet
          PROVE  LET ja == Godkjennere(u.runde, stemmer') IN
                 /\ u.under = u.policy
                 /\ u.policy = runder'[u.runde].policy
                 /\ Cardinality({s.bruker : s \in ja}) >= Terskel(u.policy)
                 /\ \A s \in ja : s.policy = u.policy /\ s.rolle = KreverRolle[u.policy]
      <3>1. CASE u \in utfall
            BY <1>1, <1>12, <2>3, <3>1, RundeSkrevet
      <3>2. CASE u = ny
            BY <1>5, <1>6, <2>1, <2>2, <2>3, <3>2
      <3> QED BY <1>5, <3>1, <3>2
    <2> QED BY <2>3 DEF LoftetAvNok
  <1> QED BY <1>10, <1>11, <1>12

LEMMA RundeSteg ==
    SaksInv /\ [Next]_vars =>
        RundeInv' /\ RundeBaererSak' /\ (LoftetAvNok => LoftetAvNok')
  <1> SUFFICES ASSUME SaksInv, [Next]_vars
               PROVE  RundeInv' /\ RundeBaererSak' /\ (LoftetAvNok => LoftetAvNok')
      OBVIOUS
  <1>0. TypeOK /\ \A x \in Forsp : f[x].pc = "vurdert" => f[x].handling \in Handling
        BY DEF SaksInv, TypInv, ForespOK
  <1>1. CASE VerdenSteg
        BY <1>0, <1>1, VerdenKart, RundeBlir
  <1>2. CASE /\ UNCHANGED <<runder, stemmer, utfall>> /\ sak'.status = sak.status
        BY <1>2, RundeBlir
  <1>3. ASSUME NEW x \in Forsp, Send(x) \/ Slutt(x) \/ Flagger(x) \/ Gaar(x)
        PROVE  UNCHANGED <<runder, stemmer, utfall>> /\ sak'.status = sak.status
        BY <1>0, <1>3, Typer DEF Send, Slutt, Flagger, Gaar, varig, SakType
  <1>4. ASSUME NEW x \in Forsp, NEW n, NEW rp, NEW hopp, Sted(x, n, rp, hopp),
               Skriver(x, n, rp, hopp)
        PROVE  RundeInv' /\ RundeBaererSak' /\ (LoftetAvNok => LoftetAvNok')
        BY <1>4, RundeLukket, RundeAapnet, RundeAvgjort DEF Skriver
  <1> QED BY <1>0, <1>1, <1>2, <1>3, <1>4, Kart DEF vars

-----------------------------------------------------------------------------
(* Rejected is rejected.                                                   *)

LEMMA NeiSteg == SaksInv /\ NeiErNei /\ [Next]_vars => NeiErNei'
  <1> SUFFICES ASSUME SaksInv, NeiErNei, [Next]_vars PROVE NeiErNei'
      OBVIOUS
  <1>0. TypeOK /\ ForespOK
        BY DEF SaksInv, TypInv
  <1>1. sak'.status = "avvist" => \A u \in utfall' : u.svar # "TILLAT"
        BY RundeSteg DEF RundeInv
  <1>2. ASSUME sak'.status = sak.status, oppdrag' \in Levende => oppdrag' = oppdrag
        PROVE  NeiErNei'
        BY <1>1, <1>2 DEF NeiErNei, Levende
  <1>3. CASE VerdenSteg
        BY <1>0, <1>2, <1>3, VerdenKart
  <1>4. ASSUME NEW x \in Forsp, Send(x) \/ Slutt(x) \/ Flagger(x) \/ Gaar(x)
        PROVE  sak'.status = sak.status /\ oppdrag' = oppdrag
        BY <1>0, <1>4, Typer DEF Send, Slutt, Flagger, Gaar, varig, SakType
  <1>5. ASSUME NEW x \in Forsp, NEW n, NEW rp, NEW hopp, Sted(x, n, rp, hopp),
               Skriver(x, n, rp, hopp)
        PROVE  NeiErNei'
    <2>1. hopp + 1 \in 1..3 /\ hopp + 2 \in 1..3 /\ HarSak(x)
          BY <1>5, StedType
    <2>2. CASE AvvisGjort(x, n, rp, hopp)
      <3>1. /\ f[x].handling = "avvis" /\ f[x].pc = "vurdert"
            /\ oppdrag' = IF oppdrag = "levende" THEN "kansellert" ELSE oppdrag
            BY <1>5, <2>2 DEF AvvisGjort, Sted
      <3>2. oppdrag # "uloselig"
            BY <1>0, <3>1 DEF ForespOK
      <3> QED BY <1>1, <3>1, <3>2 DEF NeiErNei, Levende
    <2>3. CASE EskalerGjort(x, n, rp, hopp)
      <3>1. Til("manuell", hopp + 1)
            BY <2>3 DEF EskalerGjort, Eskaler
      <3>2. sak'.status = "manuell"
            BY <1>0, <2>1, <3>1, Tilstand
      <3> QED BY <3>2 DEF NeiErNei
    <2>4. CASE VenterGjort(x, n, rp, hopp)
      <3>1. sak'.status = "venter_andre_godkjenner"
            BY <1>0, <1>5, <2>4, VenterNy, Tilstand DEF IRunde
      <3> QED BY <3>1 DEF NeiErNei
    <2>5. CASE DomGjort(x, n, rp, hopp)
      <3>1. PICK st \in {"venter_utforelse", "manuell"} : Til(st, hopp + 2)
            BY <2>5 DEF DomGjort
      <3>2. sak'.status = st
            BY <1>0, <2>1, <3>1, Tilstand
      <3> QED BY <3>2 DEF NeiErNei
    <2> QED BY <1>5, <2>2, <2>3, <2>4, <2>5 DEF Skriver
  <1>6. CASE UNCHANGED vars
        BY <1>2, <1>6 DEF vars
  <1>7. \A x \in Forsp : f[x].pc = "vurdert" => f[x].handling \in Handling
        BY <1>0 DEF ForespOK
  <1> QED BY <1>2, <1>3, <1>4, <1>5, <1>6, <1>7, Kart

-----------------------------------------------------------------------------
(* Keys.                                                                   *)

(* Only a commit touches them, and only those of a request that holds one. *)
LEMMA Virker ==
    ASSUME SaksInv, [Next]_vars
    PROVE  \/ UNCHANGED <<idem, logg>>
           \/ \E x \in Forsp, svar \in Svar : HarNokkel(x) /\ Fullfor(x, svar)
  <1>0. TypeOK /\ \A x \in Forsp : f[x].pc = "vurdert" => f[x].handling \in Handling
        BY DEF SaksInv, TypInv, ForespOK
  <1>1. CASE VerdenSteg
        BY <1>0, <1>1, VerdenKart
  <1>2. ASSUME NEW x \in Forsp, Send(x) \/ Slutt(x) \/ Gaar(x)
        PROVE  UNCHANGED <<idem, logg>>
        BY <1>2 DEF Send, Slutt, Gaar, varig
  <1>3. ASSUME NEW x \in Forsp, Flagger(x)
        PROVE  HarNokkel(x) /\ \E svar \in Svar : Fullfor(x, svar)
        BY <1>3 DEF Flagger, HarNokkel, Svar
  <1>4. ASSUME NEW x \in Forsp, NEW n, NEW rp, NEW hopp, Sted(x, n, rp, hopp),
               Skriver(x, n, rp, hopp)
        PROVE  HarNokkel(x) /\ \E svar \in Svar : Fullfor(x, svar)
        BY <1>4, StedType, SkriverKart DEF Skrevet
  <1> QED BY <1>0, <1>1, <1>2, <1>3, <1>4, Kart DEF vars

(* The commit is the abstract operation.                                   *)
LEMMA FullforNokkel ==
    ASSUME SaksInv, BokInv, NEW x \in Forsp, NEW ny \in Svar, HarNokkel(x), Fullfor(x, ny)
    PROVE  BokInv' /\ Nokkelbok!Next
  <1> DEFINE bundet == [n \in Nokkel |-> idem[n].inn]
             gitt == [n \in Nokkel |-> idem[n].svar]
  <1>1. TypInv /\ TypeOK /\ f[x].pc # "ledig"
        BY DEF SaksInv, TypInv, HarNokkel
  <1>k. PICK k \in Nokkel : k = f[x].nokkel
        BY <1>1, Fullfort
  <1>2. /\ k \in Nokkel /\ InndataAv(x) \in AlleInndata /\ InndataAv(x) # Ingen
        /\ idem'[k].inn = InndataAv(x) /\ idem'[k].svar = ny
        /\ \A n \in Nokkel \ {k} : idem'[n] = idem[n]
        /\ logg' = logg \cup {k}
        BY <1>1, <1>k, Fullfort
  <1>3. idem[k].inn = Ingen
        BY <1>k DEF SaksInv, LaasInv
  <1>4. BokInv'
        BY <1>2 DEF BokInv
  <1>5. k \in Nokkel \ logg
        BY <1>2, <1>3 DEF BokInv
  <1>6. bundet[k] = Ingen
        BY <1>2, <1>3
  <1>7. bundet' = [bundet EXCEPT ![k] = bundet'[k]] /\ bundet'[k] \in AlleInndata
        BY <1>2
  <1>8. gitt' = [gitt EXCEPT ![k] = gitt'[k]] /\ gitt'[k] \in Svar
        BY <1>2
  <1>9. Nokkelbok!Fullfor(k)
        BY <1>2, <1>6, <1>7, <1>8 DEF Nokkelbok!Fullfor
  <1>10. Nokkelbok!Next
        BY <1>5, <1>9, Zenon DEF Nokkelbok!Next
  <1> QED BY <1>4, <1>10

-----------------------------------------------------------------------------
(* The theorems.                                                           *)

LEMMA Saksinvariant == Spec => []SaksInv
  <1>1. Init => SaksInv
        BY InitTyp, InitRunde DEF SaksInv
  <1>2. SaksInv /\ [Next]_vars => SaksInv'
        BY TypSteg, LaasSteg, PlassSteg, RundeSteg DEF SaksInv
  <1> QED BY <1>1, <1>2, PTL DEF Spec

(* Every variable keeps to its type, the rows of the rounds, the votes and *)
(* the outcomes included (core/api/unntaksbehandling.py).                  *)
THEOREM Typekorrekt == Spec => []TypeOK
  <1>1. SaksInv => TypeOK
        BY DEF SaksInv, TypInv
  <1> QED BY <1>1, Saksinvariant, PTL

(* A case waits for approval exactly while one round with a vote is open,  *)
(* outcomes and used rounds come together, and it is let through once      *)
(* (steps 7 to 10 of the handling endpoint).                               *)
THEOREM RundenBaerer == Spec => []RundeBaererSak
  <1>1. SaksInv => RundeBaererSak
        BY DEF SaksInv
  <1> QED BY <1>1, Saksinvariant, PTL

(* What humans lifted over the policy was approved by as many different    *)
(* people as it demands, all under the policy the round froze, whatever    *)
(* policies and roles did between the votes.                               *)
THEOREM LoftetNok == Spec => []LoftetAvNok
  <1>1. Init => LoftetAvNok
        BY DEF Init, LoftetAvNok
  <1>2. SaksInv /\ LoftetAvNok /\ [Next]_vars => LoftetAvNok'
        BY RundeSteg
  <1> QED BY <1>1, <1>2, Saksinvariant, PTL DEF Spec

(* A rejected case has no live order behind it and was never let through:  *)
(* gate 14a and the dissolution in the same commit.                        *)
THEOREM NeiStaarFast == Spec => []NeiErNei
  <1>1. Init => NeiErNei
        BY DEF Init, NeiErNei
  <1> QED BY <1>1, NeiSteg, Saksinvariant, PTL DEF Spec

(* The handling endpoint keeps the promise of its idempotency keys, through *)
(* repeats, races and every answer that leaves nothing behind (_fullfor).  *)
THEOREM Nokkelen == Spec => HolderNokkelloftet
  <1>1. Init => BokInv
        BY DEF Init, BokInv
  <1>2. Init => Nokkelbok!Init
        BY DEF Init, Nokkelbok!Init
  <1>3. SaksInv /\ BokInv /\ [Next]_vars => BokInv'
        BY Virker, FullforNokkel DEF BokInv
  <1>4. SaksInv /\ BokInv /\ [Next]_vars => [Nokkelbok!Next]_(Nokkelbok!vars)
        BY Virker, FullforNokkel DEF Nokkelbok!vars
  <1>5. Spec => []BokInv
        BY <1>1, <1>3, Saksinvariant, PTL DEF Spec
  <1> QED BY <1>2, <1>4, <1>5, Saksinvariant, PTL
          DEF Spec, HolderNokkelloftet, Nokkelbok!Spec

(* The engine never turns an approval away as a deviation when it is asked *)
(* about the policy the round froze and one who may has approved.          *)
LEMMA MotorTar ==
    ASSUME NEW p, p \notin MedMetadata, NEW rollene, KreverRolle[p] \in rollene,
           NEW grunn \in {"tillat", "bundet", "annen"}, NEW loft \in BOOLEAN
    PROVE  Motor(p, p, rollene, grunn, loft).svar \notin Sikkerhet
  <1> DEFINE d == Motor(p, p, rollene, grunn, loft)
  <1>1. CASE grunn = "tillat"
        BY <1>1 DEF Motor, Sikkerhet
  <1>2. CASE grunn = "annen"
        BY <1>2 DEF Motor, Sikkerhet
  <1>3. CASE grunn = "bundet"
    <2>1. d = IF p \notin Godkjennbar THEN [svar |-> "UNNTAK", loftet |-> FALSE]
              ELSE [svar |-> IF loft THEN "TILLAT" ELSE "UNNTAK", loftet |-> loft]
          BY <1>3 DEF Motor
    <2> HIDE DEF d
    <2>2. d.svar \in {"TILLAT", "UNNTAK"}
          BY <2>1
    <2> QED BY <2>2 DEF d, Sikkerhet
  <1> QED BY <1>1, <1>2, <1>3

(* The end of an approval in an open round that froze its policy.          *)
LEMMA StemmenTas ==
    ASSUME SaksInv, MedMetadata = {}, NEW x \in Forsp, NEW n \in Aktiv, Avgjor(x),
           f[x].handling = "godkjenn", f[x].policy = runder[n].policy,
           n \notin f[x].utlopt, \A u \in utfall : u.policy # f[x].policy
    PROVE  \E s \in stemmer' : s.runde = n /\ s.bruker = f[x].bruker
  <1> DEFINE p == f[x].policy
             a == Attestasjon(x, n)
  <1>1. \A m \in Aktiv : m = n
        BY DEF SaksInv, RundeInv
  <1>2. a.runde = n /\ a.bruker = f[x].bruker /\ a.rolle = KreverRolle[p]
        /\ a.handling = "godkjenn"
        BY DEF Attestasjon
  <1>3. CASE \E s \in stemmer : s.runde = n /\ s.bruker = f[x].bruker
    <2>1. \E svar : Nei(x, svar)
          BY <1>1, <1>3 DEF Avgjor
    <2>2. stemmer' = stemmer
          BY <2>1 DEF Nei, varig
    <2> QED BY <1>3, <2>2
  <1>4. CASE \A s \in stemmer : s.runde = n => s.bruker # f[x].bruker
    <2>1. IRundeN(x, n, p, 0)
          BY <1>1, <1>4 DEF Avgjor
    <2>2. Godkjenn(x, n, p, 0)
          BY <2>1 DEF IRundeN
    <2>3. ~Avgjort(p)
          BY DEF Avgjort
    <2> DEFINE ja == Ja(x, n)
               rollene == {s.rolle : s \in ja}
    <2>4. KreverRolle[p] \in rollene
      <3>1. a \in ja
            BY <1>2 DEF Ja, Godkjennere
      <3> QED BY <1>2, <3>1
    <2>5. \A grunn \in {"tillat", "bundet", "annen"}, loft \in BOOLEAN :
            Motor(p, p, rollene, grunn, loft).svar \notin Sikkerhet
          BY <2>4, MotorTar
    <2>6. \E st : Attester(x, n, [policy |-> p, status |-> st])
      <3>1. CASE Cardinality(ja) >= Terskel(p)
        <4>1. PICK grunn \in {"tillat", "bundet", "annen"}, loft \in BOOLEAN :
                LET d == Motor(p, p, rollene, grunn, loft) IN
                \/ Avgjort(p) /\ Nei(x, "feil")
                \/ /\ ~Avgjort(p) /\ d.svar \in Sikkerhet
                   /\ Nei(x, d.svar)
                \/ /\ ~Avgjort(p) /\ d.svar \notin Sikkerhet
                   /\ Attester(x, n, [policy |-> p, status |-> "brukt"])
              BY <2>2, <3>1 DEF Godkjenn, Ja
        <4> QED BY <2>3, <2>5, <4>1
      <3>2. CASE ~(Cardinality(ja) >= Terskel(p))
            BY <2>2, <3>2 DEF Godkjenn, Ja
      <3> QED BY <3>1, <3>2
    <2>7. a \in stemmer'
          BY <2>6 DEF Attester
    <2> QED BY <1>2, <2>7
  <1> QED BY <1>3, <1>4

(* Where no policy carries metadata, a vote its caller may cast, in an     *)
(* open round and under the policy the round froze, is counted.            *)
THEOREM VoteCounts == ASSUME MedMetadata = {} PROVE Spec => StemmeTeller
  <1> DEFINE Telt ==
        \A x \in Forsp, n \in Aktiv :
            (/\ f[x].pc = "vurdert" /\ f'[x].pc = "ledig"
             /\ f[x].handling = "godkjenn" /\ f[x].policy = runder[n].policy
             /\ n \notin f[x].utlopt
             /\ \A u \in utfall : u.policy # f[x].policy)
            => \E s \in stemmer' : s.runde = n /\ s.bruker = f[x].bruker
  <1>1. SaksInv /\ [Next]_vars => [Telt]_vars
    <2> SUFFICES ASSUME SaksInv, Next, NEW x \in Forsp, NEW n \in Aktiv,
                        f[x].pc = "vurdert", f'[x].pc = "ledig",
                        f[x].handling = "godkjenn", f[x].policy = runder[n].policy,
                        n \notin f[x].utlopt, \A u \in utfall : u.policy # f[x].policy
                 PROVE  \E s \in stemmer' : s.runde = n /\ s.bruker = f[x].bruker
        OBVIOUS
    <2>1. f'[x] # f[x]
          OBVIOUS
    <2>2. f \in [Forsp -> FType]
          BY Typer DEF SaksInv, TypInv
    <2>3. Avgjor(x)
      <3>1. CASE RollerEndres \/ PolicyAktiveres \/ RundeUtloper \/ OppdragSlutter
            BY <2>1, <3>1
            DEF RollerEndres, PolicyAktiveres, RundeUtloper, OppdragSlutter
      <3>2. ASSUME NEW y \in Forsp, Send(y) PROVE FALSE
            BY <2>1, <2>2, <3>2 DEF Send
      <3>3. ASSUME NEW y \in Forsp, Krev(y) PROVE FALSE
            BY <2>1, <2>2, <3>3 DEF Krev, Nei
      <3>4. ASSUME NEW y \in Forsp, Laas(y) PROVE FALSE
            BY <2>1, <2>2, <3>4 DEF Laas, Nei
      <3>5. ASSUME NEW y \in Forsp, Vurder(y) PROVE FALSE
            BY <2>1, <2>2, <3>5 DEF Vurder, Nei, Fullfor
      <3>6. ASSUME NEW y \in Forsp, Avgjor(y), y # x PROVE FALSE
        <4>1. f[y].pc = "vurdert"
              BY <3>6 DEF Avgjor
        <4>2. HarSak(x) /\ HarSak(y)
              BY <4>1 DEF HarSak
        <4> QED BY <3>6, <4>2 DEF SaksInv, LaasInv
      <3> QED BY <3>1, <3>2, <3>3, <3>4, <3>5, <3>6 DEF Next, Forsok
    <2> QED BY <2>3, StemmenTas
  <1> QED BY <1>1, Saksinvariant, PTL DEF Spec, StemmeTeller

-----------------------------------------------------------------------------
(* The engine: its controls and the plain conjunction of them.             *)

LEMMA FoerstEr ==
    /\ DOMAIN Foerst = 1..17
    /\ Foerst[1] = "uautentisert_kontekst" /\ Foerst[2] = "ukjent_handling"
    /\ Foerst[3] = "modus_alltid_stopp" /\ Foerst[4] = "rolle_ikke_tillatt"
    /\ Foerst[5] = "policy_belopsgrense_ugyldig" /\ Foerst[6] = "belop_ugyldig"
    /\ Foerst[7] = "belop_over_grense" /\ Foerst[8] = "valuta_ikke_tillatt"
    /\ Foerst[9] = "policy_tidssone_ugyldig"
    /\ Foerst[10] = "tidspunkt_ugyldig_eller_naivt"
    /\ Foerst[11] = "utenfor_tidsvindu"
    /\ Foerst[12] = "frekvens_grupperingsverdi_mangler"
    /\ Foerst[13] = "frekvensgrense_naadd"
    /\ Foerst[14] = "dataklassifisering_mangler"
    /\ Foerst[15] = "dataklassifisering_ubetrodd_kilde"
    /\ Foerst[16] = "dataklasse_ikke_tillatt" /\ Foerst[17] = "vilkaar"
  BY DEF Foerst

(* The first breach is one, and no breach comes before it.                 *)
LEMMA MinstEr ==
    ASSUME NEW S \in SUBSET Nat, S # {}
    PROVE  Minst(S) \in S /\ \A m \in S : Minst(S) <= m
  <1> DEFINE R == OpToRel(<, Nat)
  <1>1. PICK n \in S : \A m \in S : ~(<<m, n>> \in R)
        BY NatLessThanWellFounded, WFMin, Zenon
  <1>2. \A m \in S : ~(m < n)
        BY <1>1 DEF OpToRel
  <1>3. \A m \in S : n <= m
        BY <1>2
  <1> QED BY <1>3 DEF Minst

LEMMA BruttEr ==
    ASSUME NEW p, NEW e
    PROVE  /\ Brutt(Foerst[1], p, e) <=> ~e.autentisert
           /\ Brutt(Foerst[2], p, e) <=> ~p.kjent
           /\ Brutt(Foerst[3], p, e) <=> p.modus = "alltid_stopp"
           /\ Brutt(Foerst[4], p, e) <=> e.rolle \notin p.tillatt_for
           /\ Brutt(Foerst[5], p, e) <=> p.belop_maks = Ugyldig
           /\ Brutt(Foerst[6], p, e) <=> p.belop_maks # Intet /\ e.belop = Ugyldig
           /\ Brutt(Foerst[7], p, e) <=> /\ p.belop_maks \in Nat /\ e.belop \in Nat
                                         /\ e.belop > p.belop_maks
           /\ Brutt(Foerst[8], p, e) <=> p.valuta # {} /\ e.valuta \notin p.valuta
           /\ Brutt(Foerst[9], p, e) <=> p.tidsvindu = "sone_ugyldig"
           /\ Brutt(Foerst[10], p, e) <=> p.tidsvindu = "vindu" /\ e.tidspunkt = "naiv"
           /\ Brutt(Foerst[11], p, e) <=> p.tidsvindu = "vindu" /\ e.tidspunkt = "ute"
           /\ Brutt(Foerst[12], p, e) <=> p.frekvens # Intet /\ ~e.gruppe
           /\ Brutt(Foerst[13], p, e) <=> p.frekvens # Intet /\ e.antall >= p.frekvens
           /\ Brutt(Foerst[14], p, e) <=> p.dataklasser # {} /\ e.dataklasser = {}
           /\ Brutt(Foerst[15], p, e) <=> p.dataklasser # {} /\ ~e.betroddKilde
           /\ Brutt(Foerst[16], p, e) <=>
                 p.dataklasser # {} /\ ~(e.dataklasser \subseteq p.dataklasser)
           /\ Brutt(Foerst[17], p, e) <=> IkkeOppfylt(p, e) # {}
  <1>1. /\ Brutt(Foerst[1], p, e) <=> ~e.autentisert
        /\ Brutt(Foerst[2], p, e) <=> ~p.kjent
        /\ Brutt(Foerst[3], p, e) <=> p.modus = "alltid_stopp"
        /\ Brutt(Foerst[4], p, e) <=> e.rolle \notin p.tillatt_for
        BY FoerstEr DEF Brutt
  <1>2. /\ Brutt(Foerst[5], p, e) <=> p.belop_maks = Ugyldig
        /\ Brutt(Foerst[6], p, e) <=> p.belop_maks # Intet /\ e.belop = Ugyldig
        /\ Brutt(Foerst[7], p, e) <=> /\ p.belop_maks \in Nat /\ e.belop \in Nat
                                      /\ e.belop > p.belop_maks
        /\ Brutt(Foerst[8], p, e) <=> p.valuta # {} /\ e.valuta \notin p.valuta
        BY FoerstEr DEF Brutt
  <1>3. /\ Brutt(Foerst[9], p, e) <=> p.tidsvindu = "sone_ugyldig"
        /\ Brutt(Foerst[10], p, e) <=> p.tidsvindu = "vindu" /\ e.tidspunkt = "naiv"
        /\ Brutt(Foerst[11], p, e) <=> p.tidsvindu = "vindu" /\ e.tidspunkt = "ute"
        /\ Brutt(Foerst[12], p, e) <=> p.frekvens # Intet /\ ~e.gruppe
        /\ Brutt(Foerst[13], p, e) <=> p.frekvens # Intet /\ e.antall >= p.frekvens
        BY FoerstEr DEF Brutt
  <1>4. /\ Brutt(Foerst[14], p, e) <=> p.dataklasser # {} /\ e.dataklasser = {}
        /\ Brutt(Foerst[15], p, e) <=> p.dataklasser # {} /\ ~e.betroddKilde
        /\ Brutt(Foerst[16], p, e) <=>
              p.dataklasser # {} /\ ~(e.dataklasser \subseteq p.dataklasser)
        /\ Brutt(Foerst[17], p, e) <=> IkkeOppfylt(p, e) # {}
        BY FoerstEr DEF Brutt
  <1> QED BY <1>1, <1>2, <1>3, <1>4

(* Two events that agree on what a case keeps break the same controls,     *)
(* but for those that look at what it does not keep.                       *)
LEMMA BruttLikt ==
    ASSUME NEW p, NEW e, NEW h,
           e.rolle = h.rolle, e.belop = h.belop, e.valuta = h.valuta,
           e.tidspunkt = h.tidspunkt, e.dataklasser = h.dataklasser,
           e.betroddKilde = h.betroddKilde
    PROVE  /\ Brutt(Foerst[2], p, e) <=> Brutt(Foerst[2], p, h)
           /\ Brutt(Foerst[3], p, e) <=> Brutt(Foerst[3], p, h)
           /\ Brutt(Foerst[4], p, e) <=> Brutt(Foerst[4], p, h)
           /\ Brutt(Foerst[5], p, e) <=> Brutt(Foerst[5], p, h)
           /\ Brutt(Foerst[6], p, e) <=> Brutt(Foerst[6], p, h)
           /\ Brutt(Foerst[7], p, e) <=> Brutt(Foerst[7], p, h)
           /\ Brutt(Foerst[8], p, e) <=> Brutt(Foerst[8], p, h)
           /\ Brutt(Foerst[9], p, e) <=> Brutt(Foerst[9], p, h)
           /\ Brutt(Foerst[10], p, e) <=> Brutt(Foerst[10], p, h)
           /\ Brutt(Foerst[11], p, e) <=> Brutt(Foerst[11], p, h)
           /\ Brutt(Foerst[14], p, e) <=> Brutt(Foerst[14], p, h)
           /\ Brutt(Foerst[15], p, e) <=> Brutt(Foerst[15], p, h)
           /\ Brutt(Foerst[16], p, e) <=> Brutt(Foerst[16], p, h)
  <1>1. /\ Brutt(Foerst[2], p, e) <=> Brutt(Foerst[2], p, h)
        /\ Brutt(Foerst[3], p, e) <=> Brutt(Foerst[3], p, h)
        /\ Brutt(Foerst[4], p, e) <=> Brutt(Foerst[4], p, h)
        BY FoerstEr DEF Brutt
  <1>2. /\ Brutt(Foerst[5], p, e) <=> Brutt(Foerst[5], p, h)
        /\ Brutt(Foerst[6], p, e) <=> Brutt(Foerst[6], p, h)
        /\ Brutt(Foerst[7], p, e) <=> Brutt(Foerst[7], p, h)
        /\ Brutt(Foerst[8], p, e) <=> Brutt(Foerst[8], p, h)
        BY FoerstEr DEF Brutt
  <1>3. /\ Brutt(Foerst[9], p, e) <=> Brutt(Foerst[9], p, h)
        /\ Brutt(Foerst[10], p, e) <=> Brutt(Foerst[10], p, h)
        /\ Brutt(Foerst[11], p, e) <=> Brutt(Foerst[11], p, h)
        BY FoerstEr DEF Brutt
  <1>4. /\ Brutt(Foerst[14], p, e) <=> Brutt(Foerst[14], p, h)
        /\ Brutt(Foerst[15], p, e) <=> Brutt(Foerst[15], p, h)
        /\ Brutt(Foerst[16], p, e) <=> Brutt(Foerst[16], p, h)
        BY FoerstEr DEF Brutt
  <1> QED BY <1>1, <1>2, <1>3, <1>4

LEMMA LovligEr ==
    ASSUME NEW p, NEW e
    PROVE  /\ Lovlig(p, e) <=>
                 LET k == Krav(p, e) IN
                 /\ k.kontekst /\ k.kjent /\ k.modus /\ k.rolle /\ k.belop
                 /\ k.valuta /\ k.tid /\ k.frekvens /\ k.data /\ k.vilkaar
           /\ DOMAIN Krav(p, e) = {"kontekst", "kjent", "modus", "rolle", "belop",
                                   "valuta", "tid", "frekvens", "data", "vilkaar"}
  <1>1. DOMAIN Krav(p, e) = {"kontekst", "kjent", "modus", "rolle", "belop",
                             "valuta", "tid", "frekvens", "data", "vilkaar"}
        BY DEF Krav
  <1> QED BY <1>1 DEF Lovlig

(* The reference of one condition: attested by a trusted verifier, about   *)
(* this resource, in time, and high enough or true.                        *)
Oppfylt(p, e, i) ==
    LET v == p.vilkaar[i]
        a == e.att[v.navn] IN
    /\ a # Intet
    /\ <<a.verifikator, v.navn>> \in p.betrodd
    /\ a.ressurs /\ ~a.utlopt
    /\ IF v.min = Intet THEN a.resultat
       ELSE a.verdi # Ugyldig /\ a.verdi >= v.min

LEMMA VilkaarType ==
    ASSUME NEW p \in Policyinnhold, NEW i \in DOMAIN p.vilkaar
    PROVE  /\ p.vilkaar[i].navn \in Vilkaar /\ p.vilkaar[i].verifikator \in Verifikator
           /\ p.vilkaar[i].min \in Nat \cup {Intet}
  <1> DEFINE V == [navn: Vilkaar, verifikator: Verifikator, min: Nat \cup {Intet}]
  <1>1. p.vilkaar \in Seq(V)
        BY DEF Policyinnhold
  <1>2. p.vilkaar[i] \in V
        BY <1>1, ElementOfSeq, LenProperties
  <1> QED BY <1>2

LEMMA VilkaarEr ==
    ASSUME NEW p \in Policyinnhold, NEW e \in Hendelse, NEW i \in DOMAIN p.vilkaar
    PROVE  VilkaarFeil(p, e, i) = "ok" <=> Oppfylt(p, e, i)
  <1> DEFINE v == p.vilkaar[i]
             a == e.att[v.navn]
  <1>1. v.navn \in Vilkaar /\ v.min \in Nat \cup {Intet}
        BY VilkaarType
  <1>2. a \in Attest \cup {Intet}
        BY <1>1 DEF Hendelse
  <1>3. a # Intet => /\ a.ressurs \in BOOLEAN /\ a.utlopt \in BOOLEAN
                     /\ a.resultat \in BOOLEAN /\ a.verdi \in Nat \cup {Ugyldig}
        BY <1>2 DEF Attest
  <1>4. Intet \notin Nat /\ Ugyldig \notin Nat /\ Intet # Ugyldig
        BY IntetAntatt
  <1>5. CASE a = Intet
        BY <1>5 DEF VilkaarFeil, Oppfylt
  <1>6. CASE a # Intet /\ <<a.verifikator, v.navn>> \notin p.betrodd
        BY <1>6 DEF VilkaarFeil, Oppfylt
  <1>7. CASE a # Intet /\ <<a.verifikator, v.navn>> \in p.betrodd
    <2>1. VilkaarFeil(p, e, i) =
            IF ~a.ressurs THEN "attestasjon_feil_ressurs"
            ELSE IF a.utlopt THEN "attestasjon_utlopt"
            ELSE IF v.min # Intet /\ a.verdi = Ugyldig
            THEN "attestasjon_verdi_ugyldig"
            ELSE IF v.min # Intet /\ a.verdi < v.min
            THEN "attestasjon_under_terskel"
            ELSE IF v.min = Intet /\ ~a.resultat
            THEN "attestasjon_negativ" ELSE "ok"
          BY <1>7 DEF VilkaarFeil
    <2>2. Oppfylt(p, e, i) <=>
            /\ a.ressurs /\ ~a.utlopt
            /\ IF v.min = Intet THEN a.resultat ELSE a.verdi # Ugyldig /\ a.verdi >= v.min
          BY <1>7 DEF Oppfylt
    <2> HIDE DEF v, a
    <2> QED BY <1>1, <1>3, <1>4, <1>7, <2>1, <2>2
  <1> QED BY <1>5, <1>6, <1>7

LEMMA SyttenTall ==
    \A n \in 1..17 :
        \/ n = 1 \/ n = 2 \/ n = 3 \/ n = 4 \/ n = 5 \/ n = 6 \/ n = 7 \/ n = 8 \/ n = 9
        \/ n = 10 \/ n = 11 \/ n = 12 \/ n = 13 \/ n = 14 \/ n = 15 \/ n = 16 \/ n = 17
  OBVIOUS

(* Each requirement is the absence of the breaches of its control.         *)
LEMMA KravBrutt ==
    ASSUME NEW p \in Policyinnhold, NEW e \in Hendelse
    PROVE  LET k == Krav(p, e) IN
           /\ k.kontekst <=> ~Brutt(Foerst[1], p, e)
           /\ k.kjent <=> ~Brutt(Foerst[2], p, e)
           /\ k.modus <=> ~Brutt(Foerst[3], p, e)
           /\ k.rolle <=> ~Brutt(Foerst[4], p, e)
           /\ k.belop <=> /\ ~Brutt(Foerst[5], p, e) /\ ~Brutt(Foerst[6], p, e)
                          /\ ~Brutt(Foerst[7], p, e)
           /\ k.valuta <=> ~Brutt(Foerst[8], p, e)
           /\ k.tid <=> /\ ~Brutt(Foerst[9], p, e) /\ ~Brutt(Foerst[10], p, e)
                        /\ ~Brutt(Foerst[11], p, e)
           /\ k.frekvens <=> ~Brutt(Foerst[12], p, e) /\ ~Brutt(Foerst[13], p, e)
           /\ k.data <=> /\ ~Brutt(Foerst[14], p, e) /\ ~Brutt(Foerst[15], p, e)
                         /\ ~Brutt(Foerst[16], p, e)
           /\ k.vilkaar <=> ~Brutt(Foerst[17], p, e)
  <1> DEFINE k == Krav(p, e)
  <1>1. Intet \notin Nat /\ Ugyldig \notin Nat /\ Intet # Ugyldig
        BY IntetAntatt
  <1>2. k.kontekst <=> ~Brutt(Foerst[1], p, e)
        BY BruttEr DEF Krav
  <1>3. k.kjent <=> ~Brutt(Foerst[2], p, e)
        BY BruttEr DEF Krav
  <1>4. k.modus <=> ~Brutt(Foerst[3], p, e)
        BY BruttEr DEF Krav
  <1>5. k.rolle <=> ~Brutt(Foerst[4], p, e)
        BY BruttEr DEF Krav
  <1>6. k.belop <=> /\ ~Brutt(Foerst[5], p, e) /\ ~Brutt(Foerst[6], p, e)
                    /\ ~Brutt(Foerst[7], p, e)
    <2>1. p.belop_maks \in Nat \cup {Intet, Ugyldig} /\ e.belop \in Nat \cup {Ugyldig}
          BY DEF Policyinnhold, Hendelse
    <2>2. k.belop <=> p.belop_maks = Intet \/ (/\ p.belop_maks \in Nat /\ e.belop \in Nat
                                              /\ e.belop <= p.belop_maks)
          BY DEF Krav
    <2> HIDE DEF k
    <2> QED BY <1>1, <2>1, <2>2, BruttEr
  <1>7. k.valuta <=> ~Brutt(Foerst[8], p, e)
        BY BruttEr DEF Krav
  <1>8. k.tid <=> /\ ~Brutt(Foerst[9], p, e) /\ ~Brutt(Foerst[10], p, e)
                   /\ ~Brutt(Foerst[11], p, e)
    <2>1. p.tidsvindu \in {"uten", "vindu", "sone_ugyldig"} /\ e.tidspunkt \in Tid
          BY DEF Policyinnhold, Hendelse
    <2>2. k.tid <=> p.tidsvindu = "uten" \/ (p.tidsvindu = "vindu" /\ e.tidspunkt = "inne")
          BY DEF Krav
    <2> HIDE DEF k
    <2> QED BY <2>1, <2>2, BruttEr DEF Tid
  <1>9. k.frekvens <=> ~Brutt(Foerst[12], p, e) /\ ~Brutt(Foerst[13], p, e)
    <2>1. p.frekvens \in Nat \cup {Intet} /\ e.antall \in Nat
          BY DEF Policyinnhold, Hendelse
    <2>2. k.frekvens <=> p.frekvens = Intet \/ (e.gruppe /\ e.antall < p.frekvens)
          BY DEF Krav
    <2> HIDE DEF k
    <2> QED BY <2>1, <2>2, BruttEr
  <1>10. k.data <=> /\ ~Brutt(Foerst[14], p, e) /\ ~Brutt(Foerst[15], p, e)
                    /\ ~Brutt(Foerst[16], p, e)
    <2>1. k.data <=> p.dataklasser = {} \/
                  (/\ e.dataklasser # {} /\ e.dataklasser \subseteq p.dataklasser
                   /\ e.betroddKilde)
          BY DEF Krav
    <2> HIDE DEF k
    <2> QED BY <2>1, BruttEr
  <1>11. k.vilkaar <=> ~Brutt(Foerst[17], p, e)
    <2>1. k.vilkaar <=> \A i \in DOMAIN p.vilkaar : Oppfylt(p, e, i)
          BY DEF Krav, Oppfylt
    <2>2. IkkeOppfylt(p, e) = {} <=> \A i \in DOMAIN p.vilkaar : Oppfylt(p, e, i)
          BY VilkaarEr DEF IkkeOppfylt
    <2> HIDE DEF k
    <2> QED BY <2>1, <2>2, BruttEr
  <1> HIDE DEF k
  <1>12. /\ k.kontekst <=> ~Brutt(Foerst[1], p, e)
         /\ k.kjent <=> ~Brutt(Foerst[2], p, e)
         /\ k.modus <=> ~Brutt(Foerst[3], p, e)
         /\ k.rolle <=> ~Brutt(Foerst[4], p, e)
         /\ k.belop <=> /\ ~Brutt(Foerst[5], p, e) /\ ~Brutt(Foerst[6], p, e)
                        /\ ~Brutt(Foerst[7], p, e)
         /\ k.valuta <=> ~Brutt(Foerst[8], p, e)
         /\ k.tid <=> /\ ~Brutt(Foerst[9], p, e) /\ ~Brutt(Foerst[10], p, e)
                      /\ ~Brutt(Foerst[11], p, e)
         /\ k.frekvens <=> ~Brutt(Foerst[12], p, e) /\ ~Brutt(Foerst[13], p, e)
         /\ k.data <=> /\ ~Brutt(Foerst[14], p, e) /\ ~Brutt(Foerst[15], p, e)
                       /\ ~Brutt(Foerst[16], p, e)
         /\ k.vilkaar <=> ~Brutt(Foerst[17], p, e)
         BY <1>2, <1>3, <1>4, <1>5, <1>6, <1>7, <1>8, <1>9, <1>10, <1>11
  <1> QED BY <1>12 DEF k

(* No control is broken exactly when every control is met.                 *)
THEOREM FeilLovlig ==
    ASSUME NEW p \in Policyinnhold, NEW e \in Hendelse
    PROVE  Feil(p, e) = {} <=> Lovlig(p, e)
  <1>1. Feil(p, e) = {} <=> \A n \in 1..17 : ~Brutt(Foerst[n], p, e)
        BY FoerstEr DEF Feil
  <1>2. Feil(p, e) = {} <=>
          /\ ~Brutt(Foerst[1], p, e) /\ ~Brutt(Foerst[2], p, e)
          /\ ~Brutt(Foerst[3], p, e) /\ ~Brutt(Foerst[4], p, e)
          /\ ~Brutt(Foerst[5], p, e) /\ ~Brutt(Foerst[6], p, e)
          /\ ~Brutt(Foerst[7], p, e) /\ ~Brutt(Foerst[8], p, e)
          /\ ~Brutt(Foerst[9], p, e) /\ ~Brutt(Foerst[10], p, e)
          /\ ~Brutt(Foerst[11], p, e) /\ ~Brutt(Foerst[12], p, e)
          /\ ~Brutt(Foerst[13], p, e) /\ ~Brutt(Foerst[14], p, e)
          /\ ~Brutt(Foerst[15], p, e) /\ ~Brutt(Foerst[16], p, e)
          /\ ~Brutt(Foerst[17], p, e)
        BY <1>1, SyttenTall
  <1> DEFINE k == Krav(p, e)
  <1>3. Lovlig(p, e) <=> /\ k.kontekst /\ k.kjent /\ k.modus /\ k.rolle /\ k.belop
                         /\ k.valuta /\ k.tid /\ k.frekvens /\ k.data /\ k.vilkaar
        BY LovligEr
  <1> QED BY <1>2, <1>3, KravBrutt

-----------------------------------------------------------------------------
(* The verdict.                                                            *)

LEMMA FeilSet ==
    ASSUME NEW p, NEW e
    PROVE  /\ Feil(p, e) \in SUBSET (1..17)
           /\ \A n \in 1..17 : n \in Feil(p, e) <=> Brutt(Foerst[n], p, e)
  BY FoerstEr DEF Feil

(* Ordinarily an action is let through when nothing is broken, else it is  *)
(* stopped on the first breach.                                            *)
LEMMA EvaluerEr ==
    ASSUME NEW p, NEW e
    PROVE  /\ Evaluer(p, e).utfall = "TILLAT" <=> Feil(p, e) = {}
           /\ Feil(p, e) # {} =>
                 /\ Minst(Feil(p, e)) \in Feil(p, e)
                 /\ \A m \in Feil(p, e) : Minst(Feil(p, e)) <= m
                 /\ Evaluer(p, e).grunn = Foerst[Minst(Feil(p, e))]
  <1>1. Feil(p, e) = {} => Evaluer(p, e).utfall = "TILLAT"
        BY DEF Evaluer, Dom
  <1>2. Feil(p, e) # {} => /\ Evaluer(p, e).utfall # "TILLAT"
                           /\ Evaluer(p, e).grunn = Foerst[Minst(Feil(p, e))]
        BY DEF Evaluer, Dom, BruddUtfall, Grunn
  <1>3. Feil(p, e) # {} => /\ Minst(Feil(p, e)) \in Feil(p, e)
                           /\ \A m \in Feil(p, e) : Minst(Feil(p, e)) <= m
        BY FeilSet, MinstEr
  <1> QED BY <1>1, <1>2, <1>3

(* metadata is the only field the engine does not see.                     *)
LEMMA MotorpolicyEr ==
    ASSUME NEW p \in Policyinnhold
    PROVE  /\ Motorpolicy(p) \in Policyinnhold
           /\ \A felt \in {"kjent", "modus", "ved_brudd", "irreversibel", "tillatt_for",
                           "belop_maks", "valuta", "tidsvindu", "frekvens",
                           "dataklasser", "vilkaar", "betrodd", "godkjennbar",
                           "krever_rolle"} : Motorpolicy(p)[felt] = p[felt]
           /\ Motorpolicy(p) = p <=> ~p.metadata
  BY DEF Motorpolicy, Policyinnhold

LEMMA MotorpolicyFeil ==
    ASSUME NEW p \in Policyinnhold, NEW e
    PROVE  Feil(Motorpolicy(p), e) = Feil(p, e)
  <1> DEFINE q == Motorpolicy(p)
  <1>1. /\ q.kjent = p.kjent /\ q.modus = p.modus /\ q.tillatt_for = p.tillatt_for
        /\ q.belop_maks = p.belop_maks /\ q.valuta = p.valuta
        /\ q.tidsvindu = p.tidsvindu /\ q.frekvens = p.frekvens
        /\ q.dataklasser = p.dataklasser /\ q.vilkaar = p.vilkaar
        /\ q.betrodd = p.betrodd
        BY MotorpolicyEr
  <1> HIDE DEF q
  <1>2. \A i : VilkaarFeil(q, e, i) = VilkaarFeil(p, e, i)
        BY <1>1 DEF VilkaarFeil
  <1>3. IkkeOppfylt(q, e) = IkkeOppfylt(p, e)
        BY <1>1, <1>2 DEF IkkeOppfylt
  <1>4. \A k : Brutt(k, q, e) = Brutt(k, p, e)
        BY <1>1, <1>3 DEF Brutt
  <1>5. Feil(q, e) = Feil(p, e)
        BY <1>4 DEF Feil
  <1> QED BY <1>5 DEF q

(* What the ordinary verdict means: _evaluer of the policy.                *)
LEMMA EvaluateEr ==
    ASSUME NEW p \in Policyinnhold, NEW e \in Hendelse
    PROVE  /\ Evaluate(p, e).utfall = "TILLAT" <=> Lovlig(p, e)
           /\ Evaluate(p, e).utfall = "TILLAT" <=> Feil(p, e) = {}
           /\ Feil(p, e) # {} =>
                 /\ Minst(Feil(p, e)) \in Feil(p, e)
                 /\ \A m \in Feil(p, e) : Minst(Feil(p, e)) <= m
                 /\ Evaluate(p, e).grunn = Foerst[Minst(Feil(p, e))]
  BY EvaluerEr, MotorpolicyFeil, FeilLovlig DEF Evaluate

(* The event of a case that waits for people.                              *)
LEMMA IntensjonEr ==
    ASSUME NEW p, NEW h \in Hendelse
    PROVE  LET e == Intensjon(p, h) IN
           /\ e \in Hendelse
           /\ e.autentisert <=> RolleOk(p, h)
           /\ e.rolle = h.rolle /\ e.belop = h.belop /\ e.valuta = h.valuta
           /\ e.tidspunkt = h.tidspunkt /\ e.dataklasser = h.dataklasser
           /\ e.betroddKilde = h.betroddKilde /\ e.antall = h.antall
           /\ ~e.gruppe /\ \A v \in Vilkaar : e.att[v] = Intet
  <1>1. RolleOk(p, h) \in BOOLEAN
        BY DEF RolleOk
  <1> QED BY <1>1 DEF Intensjon, Hendelse

(* A case stopped on one of the codes that can be lifted stops on it again *)
(* when it is decided for people.                                          *)
LEMMA IntensjonStopper ==
    ASSUME NEW p \in Policyinnhold, NEW h \in Hendelse,
           Feil(p, h) # {}, Minst(Feil(p, h)) \in {7, 8}
    PROVE  LET e == Intensjon(p, h) IN
           /\ Feil(p, e) # {} /\ Minst(Feil(p, e)) = Minst(Feil(p, h))
           /\ Evaluate(p, e).utfall # "TILLAT"
           /\ Evaluate(p, e).grunn = Foerst[Minst(Feil(p, h))]
  <1> DEFINE e == Intensjon(p, h)
             k == Minst(Feil(p, h))
  <1>1. k \in Feil(p, h) /\ \A m \in Feil(p, h) : k <= m
        BY EvaluerEr
  <1>2. RolleOk(p, h)
        BY <1>1, FeilSet DEF RolleOk
  <1>3. e.autentisert
        BY <1>2, IntensjonEr
  <1>4. \A n \in 2..8 : n \in Feil(p, e) <=> n \in Feil(p, h)
    <2>1. /\ e.rolle = h.rolle /\ e.belop = h.belop /\ e.valuta = h.valuta
          /\ e.tidspunkt = h.tidspunkt /\ e.dataklasser = h.dataklasser
          /\ e.betroddKilde = h.betroddKilde
          BY IntensjonEr
    <2> HIDE DEF e
    <2>2. /\ Brutt(Foerst[2], p, e) <=> Brutt(Foerst[2], p, h)
          /\ Brutt(Foerst[3], p, e) <=> Brutt(Foerst[3], p, h)
          /\ Brutt(Foerst[4], p, e) <=> Brutt(Foerst[4], p, h)
          /\ Brutt(Foerst[5], p, e) <=> Brutt(Foerst[5], p, h)
          /\ Brutt(Foerst[6], p, e) <=> Brutt(Foerst[6], p, h)
          /\ Brutt(Foerst[7], p, e) <=> Brutt(Foerst[7], p, h)
          /\ Brutt(Foerst[8], p, e) <=> Brutt(Foerst[8], p, h)
          BY <2>1, BruttLikt
    <2>3. \A n \in 2..8 : Brutt(Foerst[n], p, e) <=> Brutt(Foerst[n], p, h)
          BY <2>2, SyttenTall
    <2> QED BY <2>3, FeilSet
  <1>5. 1 \notin Feil(p, e)
        BY <1>3, BruttEr, FeilSet
  <1>6. k \in Feil(p, e) /\ \A m \in Feil(p, e) : k <= m
    <2>1. k \in Feil(p, e)
          BY <1>1, <1>4
    <2>2. \A m \in 2..8 : m \in Feil(p, e) => k <= m
          BY <1>1, <1>4
    <2> QED BY <1>5, <2>1, <2>2, FeilSet
  <1>7. Minst(Feil(p, e)) = k
    <2>1. /\ Minst(Feil(p, e)) \in Feil(p, e)
          /\ \A m \in Feil(p, e) : Minst(Feil(p, e)) <= m
          BY <1>6, EvaluerEr
    <2>2. Minst(Feil(p, e)) <= k /\ k <= Minst(Feil(p, e))
          BY <1>6, <2>1
    <2>3. Minst(Feil(p, e)) \in Nat /\ k \in Nat
          BY <1>1, <2>1, FeilSet
    <2> HIDE DEF k, e
    <2> QED BY <2>2, <2>3
  <1>8. e \in Hendelse
        BY IntensjonEr
  <1> QED BY <1>6, <1>7, <1>8, EvaluateEr

-----------------------------------------------------------------------------
(* The approval.                                                           *)

LEMMA OverstyringType ==
    ASSUME NEW p \in Policyinnhold, NEW k \in DOMAIN p.godkjennbar,
           p.godkjennbar[k] # Intet
    PROVE  /\ k \in Loftbar \cup {"annen_kode"}
           /\ p.godkjennbar[k] \in Overstyring
           /\ p.godkjennbar[k].belop_maks \in Nat \cup {Intet, Ugyldig}
           /\ p.godkjennbar[k].valuta \in Valuta \cup {Intet}
  <1>1. p.godkjennbar \in [Loftbar \cup {"annen_kode"} -> Overstyring \cup {Intet}]
        BY DEF Policyinnhold
  <1>2. k \in Loftbar \cup {"annen_kode"} /\ p.godkjennbar[k] \in Overstyring
        BY <1>1
  <1> QED BY <1>2 DEF Overstyring

(* The controls that stay when one is lifted.                              *)
Ovrige(p, e, kode) ==
    LET k == Krav(p, e)
        unntatt == IF kode = "belop_over_grense" THEN "belop" ELSE "valuta" IN
    \A n \in DOMAIN k \ {unntatt} : k[n]

LEMMA OvrigeEr ==
    ASSUME NEW p, NEW e
    PROVE  LET k == Krav(p, e) IN
           /\ Ovrige(p, e, "belop_over_grense") <=>
                 /\ k.kontekst /\ k.kjent /\ k.modus /\ k.rolle
                 /\ k.valuta /\ k.tid /\ k.frekvens /\ k.data /\ k.vilkaar
           /\ Ovrige(p, e, "valuta_ikke_tillatt") <=>
                 /\ k.kontekst /\ k.kjent /\ k.modus /\ k.rolle
                 /\ k.belop /\ k.tid /\ k.frekvens /\ k.data /\ k.vilkaar
  <1> DEFINE k == Krav(p, e)
             D == {"kontekst", "kjent", "modus", "rolle", "belop",
                   "valuta", "tid", "frekvens", "data", "vilkaar"}
  <1>1. DOMAIN k = D
        BY LovligEr
  <1>2. D \ {"belop"} = {"kontekst", "kjent", "modus", "rolle",
                         "valuta", "tid", "frekvens", "data", "vilkaar"}
        OBVIOUS
  <1>3. D \ {"valuta"} = {"kontekst", "kjent", "modus", "rolle", "belop",
                          "tid", "frekvens", "data", "vilkaar"}
        OBVIOUS
  <1>4. Ovrige(p, e, "belop_over_grense") <=> \A n \in DOMAIN k \ {"belop"} : k[n]
        BY DEF Ovrige
  <1>5. Ovrige(p, e, "valuta_ikke_tillatt") <=> \A n \in DOMAIN k \ {"valuta"} : k[n]
        BY DEF Ovrige
  <1> HIDE DEF k
  <1> QED BY <1>1, <1>2, <1>3, <1>4, <1>5 DEF k

(* When nothing but the liftable control is broken, the others are met.    *)
LEMMA OvrigeUtenFeil ==
    ASSUME NEW p \in Policyinnhold, NEW e \in Hendelse, NEW n \in {7, 8},
           \A m \in 1..17 : m \in Feil(p, e) => m = n
    PROVE  Ovrige(p, e, Foerst[n])
  <1>1. \A m \in 1..17 : m # n => ~Brutt(Foerst[m], p, e)
        BY FeilSet
  <1>2. CASE n = 7
    <2>1. Foerst[n] = "belop_over_grense"
          BY <1>2, FoerstEr
    <2> QED BY <1>1, <1>2, <2>1, KravBrutt, OvrigeEr
  <1>3. CASE n = 8
    <2>1. Foerst[n] = "valuta_ikke_tillatt"
          BY <1>3, FoerstEr
    <2> QED BY <1>1, <1>3, <2>1, KravBrutt, OvrigeEr
  <1> QED BY <1>2, <1>3

(* The second pass: under the lifted policy an event within the approval   *)
(* is lawful exactly when every other control of the policy is met.        *)
LEMMA LoftEr ==
    ASSUME NEW p \in Policyinnhold, NEW e \in Hendelse, NEW k \in Loftbar,
           p.godkjennbar[k] # Intet,
           KanLoftes(k, p.godkjennbar[k]), Innenfor(p.godkjennbar[k], e)
    PROVE  /\ Loftet(p, k, p.godkjennbar[k]) \in Policyinnhold
           /\ Lovlig(Loftet(p, k, p.godkjennbar[k]), e) <=> Ovrige(p, e, k)
  <1> DEFINE o == p.godkjennbar[k]
             q == Loftet(p, k, o)
  <1>0. /\ o.belop_maks \in Nat \cup {Intet, Ugyldig} /\ o.valuta \in Valuta \cup {Intet}
        /\ p.belop_maks \in Nat \cup {Intet, Ugyldig} /\ p.valuta \in SUBSET Valuta
        /\ Intet \notin Nat /\ Intet # Ugyldig
    <2>1. DOMAIN p.godkjennbar = Loftbar \cup {"annen_kode"}
          BY DEF Policyinnhold
    <2>2. k \in DOMAIN p.godkjennbar
          BY <2>1
    <2>3. o.belop_maks \in Nat \cup {Intet, Ugyldig} /\ o.valuta \in Valuta \cup {Intet}
          BY <2>2, OverstyringType
    <2> QED BY <2>3, IntetAntatt DEF Policyinnhold
  <1>a. /\ o.valuta # Intet => e.valuta = o.valuta
        /\ o.belop_maks # Intet => /\ e.belop \in Nat /\ o.belop_maks \in Nat
                                   /\ e.belop <= o.belop_maks
        BY DEF Innenfor
  <1>1. CASE k = "belop_over_grense"
    <2>1. o.belop_maks # Intet
          BY <1>1 DEF KanLoftes
    <2>2. q = [p EXCEPT !.belop_maks = o.belop_maks]
          BY <1>1 DEF Loftet
    <2> HIDE DEF o
    <2>3. /\ q \in Policyinnhold /\ q.belop_maks = o.belop_maks
          /\ q.kjent = p.kjent /\ q.modus = p.modus /\ q.tillatt_for = p.tillatt_for
          /\ q.valuta = p.valuta /\ q.tidsvindu = p.tidsvindu /\ q.frekvens = p.frekvens
          /\ q.dataklasser = p.dataklasser /\ q.vilkaar = p.vilkaar
          /\ q.betrodd = p.betrodd
          BY <2>2, <1>0 DEF Policyinnhold
    <2> HIDE DEF q
    <2>4. LET a == Krav(p, e)
              b == Krav(q, e) IN
          /\ b.kontekst = a.kontekst /\ b.kjent = a.kjent /\ b.modus = a.modus
          /\ b.rolle = a.rolle /\ b.valuta = a.valuta /\ b.tid = a.tid
          /\ b.frekvens = a.frekvens /\ b.data = a.data /\ b.vilkaar = a.vilkaar
          BY <2>3 DEF Krav
    <2>5. Krav(q, e).belop
          BY <2>1, <2>3, <1>a DEF Krav
    <2>6. Lovlig(q, e) <=> Ovrige(p, e, k)
          BY <1>1, <2>4, <2>5, LovligEr, OvrigeEr
    <2> QED BY <2>3, <2>6 DEF q, o
  <1>2. CASE k = "valuta_ikke_tillatt"
    <2>1. o.valuta # Intet
          BY <1>2 DEF KanLoftes
    <2>2. q = [p EXCEPT !.valuta = @ \cup {o.valuta}]
          BY <1>2 DEF Loftet
    <2> HIDE DEF o
    <2>a. p.valuta \cup {o.valuta} \in SUBSET Valuta
          BY <2>1, <1>0
    <2>3. /\ q \in Policyinnhold /\ q.valuta = p.valuta \cup {o.valuta}
          /\ q.kjent = p.kjent /\ q.modus = p.modus /\ q.tillatt_for = p.tillatt_for
          /\ q.belop_maks = p.belop_maks /\ q.tidsvindu = p.tidsvindu
          /\ q.frekvens = p.frekvens /\ q.dataklasser = p.dataklasser
          /\ q.vilkaar = p.vilkaar /\ q.betrodd = p.betrodd
      <3> DEFINE v == p.valuta \cup {o.valuta}
      <3>1. q = [p EXCEPT !.valuta = v]
            BY <2>2
      <3> HIDE DEF v, q
      <3>2. /\ q \in Policyinnhold /\ q.valuta = v
            /\ q.kjent = p.kjent /\ q.modus = p.modus /\ q.tillatt_for = p.tillatt_for
            /\ q.belop_maks = p.belop_maks /\ q.tidsvindu = p.tidsvindu
            /\ q.frekvens = p.frekvens /\ q.dataklasser = p.dataklasser
            /\ q.vilkaar = p.vilkaar /\ q.betrodd = p.betrodd
            BY <2>a, <3>1 DEF Policyinnhold, v
      <3> QED BY <3>2 DEF v
    <2> HIDE DEF q
    <2>4. LET a == Krav(p, e)
              b == Krav(q, e) IN
          /\ b.kontekst = a.kontekst /\ b.kjent = a.kjent /\ b.modus = a.modus
          /\ b.rolle = a.rolle /\ b.belop = a.belop /\ b.tid = a.tid
          /\ b.frekvens = a.frekvens /\ b.data = a.data /\ b.vilkaar = a.vilkaar
          BY <2>3 DEF Krav
    <2>5. Krav(q, e).valuta
          BY <2>1, <2>3, <1>a DEF Krav
    <2>6. Lovlig(q, e) <=> Ovrige(p, e, k)
          BY <1>2, <2>4, <2>5, LovligEr, OvrigeEr
    <2> QED BY <2>3, <2>6 DEF q, o
  <1> QED BY <1>1, <1>2 DEF Loftbar

(* A verdict without an approval, and the reasons it may have.             *)
LEMMA EvaluerType ==
    ASSUME NEW p, NEW e
    PROVE  /\ Evaluer(p, e) \in Domstype
           /\ ~Evaluer(p, e).loftet /\ ~Evaluer(p, e).sikkerhet
           /\ Evaluer(p, e).grunn \in {Foerst[n] : n \in DOMAIN Foerst} \cup {"ok"}
  <1> DEFINE d == Evaluer(p, e)
  <1>1. CASE Feil(p, e) = {}
        BY <1>1 DEF Evaluer, Dom, Domstype, Grunner
  <1>2. CASE Feil(p, e) # {}
    <2>1. Grunn(p, e) \in {Foerst[n] : n \in DOMAIN Foerst}
          BY <1>2, EvaluerEr, FeilSet, FoerstEr DEF Grunn
    <2>2. PICK u \in {"TILLAT", "STOPP", "UNNTAK"} :
            d = [utfall |-> u, grunn |-> Grunn(p, e), loftet |-> FALSE, sikkerhet |-> FALSE]
          BY <1>2 DEF Evaluer, Dom, BruddUtfall
    <2>3. Grunn(p, e) \in Grunner
          BY <2>1 DEF Grunner
    <2> HIDE DEF d
    <2>4. d.grunn = Grunn(p, e) /\ ~d.loftet /\ ~d.sikkerhet /\ d \in Domstype
          BY <2>2, <2>3 DEF Domstype
    <2> QED BY <2>1, <2>4 DEF d
  <1> QED BY <1>1, <1>2

(* The second pass keeps the verdict, and says whether it was needed.      *)
LEMMA EtterLoftEr ==
    ASSUME NEW p, NEW e
    PROVE  LET nytt == EtterLoft(Evaluer(p, e)) IN
           /\ nytt \in Domstype /\ nytt.utfall = Evaluer(p, e).utfall
           /\ nytt.loftet <=> nytt.utfall = "TILLAT"
           /\ ~nytt.sikkerhet /\ nytt.grunn = Evaluer(p, e).grunn
  <1> DEFINE d == Evaluer(p, e)
  <1>1. d \in Domstype /\ ~d.sikkerhet
        BY EvaluerType
  <1> HIDE DEF d
  <1>2. LET nytt == EtterLoft(d) IN
        /\ nytt \in Domstype /\ nytt.utfall = d.utfall
        /\ nytt.loftet <=> nytt.utfall = "TILLAT"
        /\ ~nytt.sikkerhet /\ nytt.grunn = d.grunn
        BY <1>1 DEF EtterLoft, Domstype
  <1> QED BY <1>2 DEF d

(* What an approval of a stopped action may be answered, branch by branch: *)
(* it is refused, and after that the stop stands, the role is missing, the *)
(* bound is passed, or the second pass decides.                            *)
Avvik(p, g, r) ==
    \/ ~g.omSaken /\ r = Dom("STOPP", "godkjenning_feltavvik", FALSE, TRUE)
    \/ /\ g.omSaken /\ ~(g.sammePolicy /\ ~p.metadata)
       /\ r = Dom("STOPP", "godkjenning_policy_avvik", FALSE, TRUE)
    \/ /\ g.omSaken /\ g.sammePolicy /\ ~p.metadata /\ g.utlopt
       /\ r = Dom("STOPP", "godkjenning_utlopt", FALSE, FALSE)

Anvendt(p, e, g, k, r) ==
    LET o == p.godkjennbar[k]
        d == Evaluate(p, e) IN
    /\ g.omSaken /\ g.sammePolicy /\ ~p.metadata /\ ~g.utlopt
    /\ \/ (k # d.grunn \/ o = Intet) /\ r = d
       \/ /\ k = d.grunn /\ o # Intet
          /\ \/ /\ p.krever_rolle \notin g.roller
                /\ r = Dom("STOPP", "godkjenning_rolle_mangler", FALSE, TRUE)
             \/ /\ p.krever_rolle \in g.roller /\ ~Innenfor(o, e)
                /\ \E b \in BOOLEAN :
                      /\ b <=> UgyldigGrense(o, e)
                      /\ r = Dom("STOPP", "godkjenning_over_maks", FALSE, b)
             \/ /\ p.krever_rolle \in g.roller /\ Innenfor(o, e) /\ ~KanLoftes(k, o)
                /\ r = d
             \/ /\ p.krever_rolle \in g.roller /\ Innenfor(o, e) /\ KanLoftes(k, o)
                /\ r = EtterLoft(Evaluer(Loftet(Motorpolicy(p), k, o), e))

LEMMA AnvendGrener ==
    ASSUME NEW p \in Policyinnhold, NEW e, NEW g \in MenneskeligGodkjenning, NEW k,
           Evaluate(p, e).utfall # "TILLAT"
    PROVE  \/ Avvik(p, g, EvaluateMed(p, e, g, k))
           \/ Anvendt(p, e, g, k, EvaluateMed(p, e, g, k))
  <1> DEFINE m == Motorpolicy(p)
             d == Evaluate(p, e)
             fr == Frosset(p, g)
             o == p.godkjennbar[k]
             r == EvaluateMed(p, e, g, k)
  <1>1. /\ m \in Policyinnhold /\ m.godkjennbar = p.godkjennbar
        /\ m.krever_rolle = p.krever_rolle /\ (m = p <=> ~p.metadata)
        BY MotorpolicyEr
  <1>2. g.omSaken \in BOOLEAN /\ g.sammePolicy \in BOOLEAN /\ g.utlopt \in BOOLEAN
        BY DEF MenneskeligGodkjenning
  <1>3. m # Intet
        BY <1>1, IntetAntatt
  <1>4. fr = m <=> g.sammePolicy /\ ~p.metadata
        BY <1>1, <1>2, <1>3 DEF Frosset
  <1>5. r = Anvend(m, e, g, fr, k, d)
        BY DEF EvaluateMed
  <1>6. d.utfall # "TILLAT"
        OBVIOUS
  <1> HIDE DEF fr, d, m, r
  <1>7. CASE ~g.omSaken
        BY <1>2, <1>5, <1>6, <1>7 DEF Anvend, Avvik, r
  <1>8. CASE g.omSaken /\ fr # m
        BY <1>2, <1>4, <1>5, <1>6, <1>8 DEF Anvend, Avvik, r
  <1>9. CASE g.omSaken /\ fr = m /\ g.utlopt
        BY <1>2, <1>4, <1>5, <1>6, <1>9 DEF Anvend, Avvik, r
  <1>10. CASE g.omSaken /\ fr = m /\ ~g.utlopt
    <2> DEFINE b == UgyldigGrense(o, e)
    <2>1. r = IF k # d.grunn \/ o = Intet THEN d
              ELSE IF p.krever_rolle \notin g.roller
              THEN Dom("STOPP", "godkjenning_rolle_mangler", FALSE, TRUE)
              ELSE IF ~Innenfor(o, e)
              THEN Dom("STOPP", "godkjenning_over_maks", FALSE, b)
              ELSE IF ~KanLoftes(k, o) THEN d
              ELSE EtterLoft(Evaluer(Loftet(m, k, o), e))
          BY <1>1, <1>2, <1>5, <1>6, <1>10 DEF Anvend
    <2>2. b \in BOOLEAN /\ (b <=> UgyldigGrense(o, e))
          BY DEF UgyldigGrense
    <2>3. g.omSaken /\ g.sammePolicy /\ ~p.metadata /\ ~g.utlopt
          BY <1>4, <1>10
    <2> HIDE DEF b, o
    <2>4. \/ (k # d.grunn \/ o = Intet) /\ r = d
          \/ /\ k = d.grunn /\ o # Intet
             /\ \/ /\ p.krever_rolle \notin g.roller
                   /\ r = Dom("STOPP", "godkjenning_rolle_mangler", FALSE, TRUE)
                \/ /\ p.krever_rolle \in g.roller /\ ~Innenfor(o, e)
                   /\ r = Dom("STOPP", "godkjenning_over_maks", FALSE, b)
                \/ /\ p.krever_rolle \in g.roller /\ Innenfor(o, e) /\ ~KanLoftes(k, o)
                   /\ r = d
                \/ /\ p.krever_rolle \in g.roller /\ Innenfor(o, e) /\ KanLoftes(k, o)
                   /\ r = EtterLoft(Evaluer(Loftet(m, k, o), e))
          BY <2>1
    <2>5. Anvendt(p, e, g, k, r)
          BY <2>2, <2>3, <2>4 DEF Anvendt, o, d, m
    <2> QED BY <2>5 DEF r
  <1> QED BY <1>2, <1>7, <1>8, <1>9, <1>10

(* What an approval needs to let an action through, for an event that the  *)
(* ordinary pass stops on the code the approval is for.                    *)
LEMMA AnvendEr ==
    ASSUME NEW p \in Policyinnhold, NEW e \in Hendelse, NEW g \in MenneskeligGodkjenning,
           NEW k \in Loftbar, p.godkjennbar[k] # Intet,
           Evaluate(p, e).utfall # "TILLAT", Evaluate(p, e).grunn = k
    PROVE  EvaluateMed(p, e, g, k).utfall = "TILLAT" <=>
              /\ g.omSaken /\ g.sammePolicy /\ ~p.metadata /\ ~g.utlopt
              /\ p.krever_rolle \in g.roller
              /\ Innenfor(p.godkjennbar[k], e) /\ KanLoftes(k, p.godkjennbar[k])
              /\ Ovrige(p, e, k)
  <1> DEFINE m == Motorpolicy(p)
             o == p.godkjennbar[k]
             nytt == Evaluer(Loftet(m, k, o), e)
             r == EvaluateMed(p, e, g, k)
  <1>1. m \in Policyinnhold /\ m.godkjennbar = p.godkjennbar
        BY MotorpolicyEr
  <1>2. Ovrige(m, e, k) <=> Ovrige(p, e, k)
    <2>1. /\ m.kjent = p.kjent /\ m.modus = p.modus /\ m.tillatt_for = p.tillatt_for
          /\ m.belop_maks = p.belop_maks /\ m.valuta = p.valuta
          /\ m.tidsvindu = p.tidsvindu /\ m.frekvens = p.frekvens
          /\ m.dataklasser = p.dataklasser /\ m.vilkaar = p.vilkaar
          /\ m.betrodd = p.betrodd
          BY MotorpolicyEr
    <2> HIDE DEF m
    <2>2. Krav(m, e) = Krav(p, e)
          BY <2>1 DEF Krav
    <2> QED BY <2>2 DEF Ovrige
  <1>3. Innenfor(o, e) /\ KanLoftes(k, o) =>
           (EtterLoft(nytt).utfall = "TILLAT" <=> Ovrige(p, e, k))
    <2> SUFFICES ASSUME Innenfor(o, e), KanLoftes(k, o)
                 PROVE  EtterLoft(nytt).utfall = "TILLAT" <=> Ovrige(p, e, k)
        OBVIOUS
    <2>1. /\ Loftet(m, k, o) \in Policyinnhold
          /\ Lovlig(Loftet(m, k, o), e) <=> Ovrige(m, e, k)
          BY <1>1, LoftEr
    <2>2. nytt.utfall = "TILLAT" <=> Lovlig(Loftet(m, k, o), e)
          BY <2>1, EvaluerEr, FeilLovlig
    <2> QED BY <1>2, <2>1, <2>2, EtterLoftEr
  <1>4. CASE Avvik(p, g, r)
    <2>1. r.utfall # "TILLAT"
          BY <1>4 DEF Avvik, Dom
    <2> QED BY <1>4, <2>1 DEF Avvik
  <1>5. CASE Anvendt(p, e, g, k, r)
    <2>1. g.omSaken /\ g.sammePolicy /\ ~p.metadata /\ ~g.utlopt
          BY <1>5 DEF Anvendt
    <2>2. CASE ~(/\ p.krever_rolle \in g.roller /\ Innenfor(o, e) /\ KanLoftes(k, o))
      <3>1. r.utfall # "TILLAT"
            BY <1>5, <2>2 DEF Anvendt, Dom
      <3> QED BY <2>2, <3>1
    <2>3. CASE p.krever_rolle \in g.roller /\ Innenfor(o, e) /\ KanLoftes(k, o)
      <3>1. r = EtterLoft(nytt)
            BY <1>5, <2>3 DEF Anvendt
      <3> QED BY <1>3, <2>1, <2>3, <3>1
    <2> QED BY <2>2, <2>3
  <1> QED BY <1>4, <1>5, AnvendGrener

-----------------------------------------------------------------------------
(* The inductive invariant of the decision point: what each verdict was    *)
(* computed from is still at hand, and the contract is the policy's own.   *)

DomPaa(p, k, e) ==
    IF Portbrudd(e) # "ok" THEN Dom("STOPP", Portbrudd(e), FALSE, FALSE)
    ELSE IF k = "ingen" THEN Dom("STOPP", "policy_korrupt", FALSE, FALSE)
    ELSE Evaluate(p, e)

MotorInv ==
    /\ policy \in Policyer
    /\ kontrakt # Intet =>
          kontrakt = IF Innforbar(policy) THEN "innforing"
                     ELSE IF Lastbar(policy) THEN "lasting" ELSE "ingen"
    /\ dom # Intet => /\ kontrakt # Intet /\ hendelse \in Hendelser
                      /\ dom = DomPaa(policy, kontrakt, hendelse)
    /\ dom2 # Intet =>
          /\ dom # Intet /\ dom.utfall # "TILLAT"
          /\ dom.grunn \in DOMAIN policy.godkjennbar
          /\ policy.godkjennbar[dom.grunn] # Intet
          /\ godkj \in MenneskeligGodkjenning
          /\ dom2 = EvaluateMed(policy, Intensjon(policy, hendelse), godkj, dom.grunn)

(* What has been decided is what the engine computes of the policy, its    *)
(* contract, the event and the approval at hand.                           *)
THEOREM MotorInvariant == MotorSpec => []MotorInv
  <1>1. MotorInit => MotorInv
        BY DEF MotorInit, MotorInv
  <1>2. MotorInv /\ [MotorNext]_motorvars => MotorInv'
    <2> SUFFICES ASSUME MotorInv, [MotorNext]_motorvars PROVE MotorInv'
        OBVIOUS
    <2> USE DEF MotorInv
    <2>1. CASE Valider
          BY <2>1 DEF Valider
    <2>2. ASSUME NEW e \in Hendelser, FraNettet(e) PROVE MotorInv'
          BY <2>2 DEF FraNettet, DomPaa
    <2>3. ASSUME NEW g \in MenneskeligGodkjenning, FraMennesket(g) PROVE MotorInv'
          BY <2>3 DEF FraMennesket
    <2>4. CASE UNCHANGED motorvars
          BY <2>4 DEF motorvars
    <2> QED BY <2>1, <2>2, <2>3, <2>4 DEF MotorNext
  <1> QED BY <1>1, <1>2, PTL DEF MotorSpec

LEMMA PortbruddEr ==
    ASSUME NEW e \in Hendelse
    PROVE  Portbrudd(e) \in {"attestasjon_signatur_ugyldig",
                             "attestasjon_feil_binding", "ok"}
  <1>1. \A v \in Attestert(e) : /\ e.att[v].signert \in BOOLEAN
                                /\ e.att[v].bundet \in BOOLEAN
                                /\ e.att[v].utlopt \in BOOLEAN
        BY DEF Attestert, Hendelse, Attest
  <1>2. CASE \E v \in Attestert(e) : ~e.att[v].signert
        BY <1>1, <1>2 DEF Portbrudd
  <1>3. CASE /\ \A v \in Attestert(e) : e.att[v].signert
             /\ \E v \in Attestert(e) : ~e.att[v].bundet \/ e.att[v].utlopt
        BY <1>1, <1>3 DEF Portbrudd
  <1>4. CASE \A v \in Attestert(e) : /\ e.att[v].signert /\ e.att[v].bundet
                                     /\ ~e.att[v].utlopt
        BY <1>1, <1>4 DEF Portbrudd
  <1> QED BY <1>1, <1>2, <1>3, <1>4

(* Of the engine's reasons only two can be approved past, the seventh and  *)
(* the eighth.                                                             *)
LEMMA LoftbarGrunn ==
    ASSUME NEW p \in Policyinnhold, NEW e \in Hendelse,
           Evaluate(p, e).utfall # "TILLAT",
           Evaluate(p, e).grunn \in Loftbar \cup {"annen_kode"}
    PROVE  /\ Evaluate(p, e).grunn \in Loftbar
           /\ Feil(p, e) # {} /\ Minst(Feil(p, e)) \in {7, 8}
           /\ Evaluate(p, e).grunn = Foerst[Minst(Feil(p, e))]
  <1> DEFINE n == Minst(Feil(p, e))
             k == Evaluate(p, e).grunn
  <1>1. Feil(p, e) # {} /\ k = Foerst[n] /\ n \in 1..17
        BY EvaluateEr, FeilSet
  <1>2. Foerst[n] \in {"belop_over_grense", "valuta_ikke_tillatt", "annen_kode"}
        BY <1>1 DEF Loftbar
  <1> HIDE DEF n, k
  <1>3. n \in {7, 8}
        BY <1>1, <1>2, SyttenTall, FoerstEr
  <1>4. k \in Loftbar
        BY <1>1, <1>3, FoerstEr DEF Loftbar
  <1> QED BY <1>1, <1>3, <1>4 DEF n, k

(* Only a verdict of the engine can wait for people.                       *)
LEMMA FraMotoren ==
    ASSUME MotorInv, dom # Intet, dom.utfall # "TILLAT",
           dom.grunn \in DOMAIN policy.godkjennbar
    PROVE  /\ dom.grunn \in Loftbar
           /\ kontrakt # "ingen" /\ Lastbar(policy)
           /\ Feil(policy, hendelse) # {}
           /\ Minst(Feil(policy, hendelse)) \in {7, 8}
           /\ dom.grunn = Foerst[Minst(Feil(policy, hendelse))]
  <1>1. policy \in Policyinnhold /\ hendelse \in Hendelse
        BY PolicyerAntatt, HendelserAntatt DEF MotorInv
  <1>2. dom.grunn \in {"belop_over_grense", "valuta_ikke_tillatt", "annen_kode"}
        BY <1>1 DEF Policyinnhold, Loftbar
  <1>3. dom = DomPaa(policy, kontrakt, hendelse)
        BY DEF MotorInv
  <1>4. Portbrudd(hendelse) = "ok" /\ kontrakt # "ingen"
        BY <1>1, <1>2, <1>3, PortbruddEr DEF DomPaa, Dom
  <1>5. dom = Evaluate(policy, hendelse)
        BY <1>3, <1>4 DEF DomPaa
  <1>6. Lastbar(policy)
        BY <1>4 DEF MotorInv, Innforbar
  <1> QED BY <1>1, <1>2, <1>4, <1>5, <1>6, LoftbarGrunn DEF MotorInv, Loftbar

LEMMA TillatErLovligHer == ASSUME MotorInv PROVE TillatErLovlig
  <1>1. policy \in Policyinnhold
        BY PolicyerAntatt DEF MotorInv
  <1>2. dom # Intet => (dom.utfall = "TILLAT" <=>
          /\ Portbrudd(hendelse) = "ok" /\ kontrakt # "ingen"
          /\ Lovlig(policy, hendelse))
    <2> SUFFICES ASSUME dom # Intet
                 PROVE  dom.utfall = "TILLAT" <=>
                          /\ Portbrudd(hendelse) = "ok" /\ kontrakt # "ingen"
                          /\ Lovlig(policy, hendelse)
        OBVIOUS
    <2>1. hendelse \in Hendelse /\ dom = DomPaa(policy, kontrakt, hendelse)
          BY HendelserAntatt DEF MotorInv
    <2> QED BY <1>1, <2>1, EvaluateEr DEF DomPaa, Dom
  <1> DEFINE e == Intensjon(policy, hendelse)
             k == dom.grunn
             o == policy.godkjennbar[k]
  <1>3. dom2 # Intet =>
          /\ k \in Loftbar /\ Lastbar(policy)
          /\ e \in Hendelse /\ \A v \in Vilkaar : e.att[v] = Intet
          /\ dom2.utfall = "TILLAT" <=>
                /\ godkj.omSaken /\ godkj.sammePolicy /\ ~policy.metadata /\ ~godkj.utlopt
                /\ policy.krever_rolle \in godkj.roller
                /\ LovligMed(policy, e, k, o)
    <2> SUFFICES ASSUME dom2 # Intet
                 PROVE  /\ k \in Loftbar /\ Lastbar(policy)
                        /\ e \in Hendelse /\ \A v \in Vilkaar : e.att[v] = Intet
                        /\ dom2.utfall = "TILLAT" <=>
                              /\ godkj.omSaken /\ godkj.sammePolicy
                              /\ ~policy.metadata /\ ~godkj.utlopt
                              /\ policy.krever_rolle \in godkj.roller
                              /\ LovligMed(policy, e, k, o)
        OBVIOUS
    <2>1. /\ dom # Intet /\ dom.utfall # "TILLAT" /\ o # Intet
          /\ k \in DOMAIN policy.godkjennbar /\ godkj \in MenneskeligGodkjenning
          /\ dom2 = EvaluateMed(policy, e, godkj, k)
          BY DEF MotorInv
    <2>2. hendelse \in Hendelse
          BY <2>1, HendelserAntatt DEF MotorInv
    <2>3. /\ k \in Loftbar /\ Lastbar(policy)
          /\ Feil(policy, hendelse) # {} /\ Minst(Feil(policy, hendelse)) \in {7, 8}
          /\ k = Foerst[Minst(Feil(policy, hendelse))]
          BY <2>1, FraMotoren
    <2>4. e \in Hendelse /\ \A v \in Vilkaar : e.att[v] = Intet
          BY <2>2, IntensjonEr
    <2>5. /\ Evaluate(policy, e).utfall # "TILLAT" /\ Evaluate(policy, e).grunn = k
          /\ Minst(Feil(policy, e)) = Minst(Feil(policy, hendelse))
          /\ Minst(Feil(policy, e)) \in Feil(policy, e)
          BY <1>1, <2>2, <2>3, <2>4, IntensjonStopper, EvaluateEr
    <2>6. ~Krav(policy, e)[IF k = "belop_over_grense" THEN "belop" ELSE "valuta"]
      <3> HIDE DEF e
      <3>0. Minst(Feil(policy, e)) \in {7, 8} /\ k = Foerst[Minst(Feil(policy, e))]
            BY <2>3, <2>5
      <3>1. CASE k = "belop_over_grense"
        <4>1. 7 \in Feil(policy, e)
              BY <2>5, <3>0, <3>1, FoerstEr
        <4>2. policy.belop_maks \in Nat /\ e.belop \in Nat /\ e.belop > policy.belop_maks
              BY <4>1, FeilSet, BruttEr
        <4>3. policy.belop_maks # Intet /\ ~(e.belop <= policy.belop_maks)
              BY <4>2, IntetAntatt
        <4>4. Krav(policy, e).belop <=>
                 policy.belop_maks = Intet
                 \/ (/\ policy.belop_maks \in Nat /\ e.belop \in Nat
                     /\ e.belop <= policy.belop_maks)
              BY DEF Krav
        <4>5. ~Krav(policy, e).belop
              BY <4>3, <4>4
        <4> QED BY <3>1, <4>5
      <3>2. CASE k # "belop_over_grense"
        <4>1. 8 \in Feil(policy, e)
              BY <2>5, <3>0, <3>2, FoerstEr
        <4>2. policy.valuta # {} /\ e.valuta \notin policy.valuta
              BY <4>1, FeilSet, BruttEr
        <4>3. ~Krav(policy, e).valuta
              BY <4>2 DEF Krav
        <4> QED BY <3>2, <4>3
      <3> QED BY <3>1, <3>2
    <2>7. LovligMed(policy, e, k, o) <=>
            KanLoftes(k, o) /\ Ovrige(policy, e, k) /\ Innenfor(o, e)
          BY <2>3, <2>6 DEF LovligMed, Ovrige
    <2>8. EvaluateMed(policy, e, godkj, k).utfall = "TILLAT" <=>
            /\ godkj.omSaken /\ godkj.sammePolicy /\ ~policy.metadata /\ ~godkj.utlopt
            /\ policy.krever_rolle \in godkj.roller
            /\ Innenfor(o, e) /\ KanLoftes(k, o) /\ Ovrige(policy, e, k)
          BY <1>1, <2>1, <2>3, <2>4, <2>5, AnvendEr
    <2> HIDE DEF e, k, o
    <2> QED BY <2>1, <2>3, <2>4, <2>7, <2>8
  <1>4. ASSUME policy.irreversibel, Lastbar(policy), NEW h \in Hendelse,
               Krav(policy, h).modus, Krav(policy, h).vilkaar
        PROVE  Attestert(h) # {}
    <2>1. policy.vilkaar # <<>>
          BY <1>4 DEF Lastbar, Krav
    <2>2. 1 \in DOMAIN policy.vilkaar
      <3> DEFINE V == [navn: Vilkaar, verifikator: Verifikator, min: Nat \cup {Intet}]
      <3>1. policy.vilkaar \in Seq(V)
            BY <1>1 DEF Policyinnhold
      <3> HIDE DEF V
      <3> QED BY <2>1, <3>1, EmptySeq, LenProperties
    <2>3. policy.vilkaar[1].navn \in Vilkaar
          BY <1>1, <2>2, VilkaarType
    <2>4. \A i \in DOMAIN policy.vilkaar : Oppfylt(policy, h, i)
          BY <1>4 DEF Krav, Oppfylt
    <2>5. h.att[policy.vilkaar[1].navn] # Intet
          BY <2>2, <2>4 DEF Oppfylt
    <2> QED BY <2>3, <2>5 DEF Attestert
  <1>5. policy.irreversibel =>
          /\ dom # Intet /\ dom.utfall = "TILLAT" => Attestert(hendelse) # {}
          /\ dom2 # Intet => dom2.utfall # "TILLAT"
    <2>1. ASSUME policy.irreversibel, dom # Intet, dom.utfall = "TILLAT"
          PROVE  Attestert(hendelse) # {}
      <3>1. kontrakt # "ingen" /\ Lovlig(policy, hendelse) /\ hendelse \in Hendelse
            BY <1>2, <2>1, HendelserAntatt DEF MotorInv
      <3>2. Lastbar(policy)
            BY <2>1, <3>1 DEF MotorInv, Innforbar
      <3>3. Krav(policy, hendelse).modus /\ Krav(policy, hendelse).vilkaar
            BY <3>1, LovligEr
      <3> QED BY <1>4, <2>1, <3>1, <3>2, <3>3
    <2>2. ASSUME policy.irreversibel, dom2 # Intet, dom2.utfall = "TILLAT"
          PROVE  FALSE
      <3>1. Ovrige(policy, e, k) /\ k \in Loftbar
            BY <1>3, <2>2 DEF LovligMed, Ovrige
      <3>2. Krav(policy, e).modus /\ Krav(policy, e).vilkaar
            BY <3>1, OvrigeEr DEF Loftbar
      <3>3. Attestert(e) # {}
            BY <1>3, <1>4, <2>2, <3>2
      <3> QED BY <1>3, <2>2, <3>3 DEF Attestert
    <2> QED BY <2>1, <2>2
  <1>6. dom2 # Intet => (dom2.utfall = "TILLAT" <=>
          LET ee == Intensjon(policy, hendelse) IN
          /\ godkj.omSaken /\ godkj.sammePolicy /\ ~policy.metadata /\ ~godkj.utlopt
          /\ policy.krever_rolle \in godkj.roller
          /\ LovligMed(policy, ee, dom.grunn, policy.godkjennbar[dom.grunn]))
        BY <1>3
  <1> QED BY <1>2, <1>5, <1>6 DEF TillatErLovlig

(* The early returns of the engine and its second pass for an approval let *)
(* through exactly what the policy's controls, taken together, allow.      *)
THEOREM LetThroughIsLawful == MotorSpec => []TillatErLovlig
  BY MotorInvariant, TillatErLovligHer, PTL

-----------------------------------------------------------------------------
(* Type correctness.                                                       *)

(* An approval is logged as used exactly when it was what let the action   *)
(* through.                                                                *)
LEMMA EvaluateMedType ==
    ASSUME NEW p \in Policyinnhold, NEW e, NEW g \in MenneskeligGodkjenning, NEW k,
           Evaluate(p, e).utfall # "TILLAT"
    PROVE  LET r == EvaluateMed(p, e, g, k) IN
           r \in Domstype /\ (r.loftet <=> r.utfall = "TILLAT")
  <1> DEFINE r == EvaluateMed(p, e, g, k)
             o == p.godkjennbar[k]
             Mulig(d) == d \in Domstype /\ (d.loftet <=> d.utfall = "TILLAT")
  <1>1. \A b \in BOOLEAN :
          /\ Mulig(Dom("STOPP", "godkjenning_feltavvik", FALSE, b))
          /\ Mulig(Dom("STOPP", "godkjenning_policy_avvik", FALSE, b))
          /\ Mulig(Dom("STOPP", "godkjenning_utlopt", FALSE, b))
          /\ Mulig(Dom("STOPP", "godkjenning_rolle_mangler", FALSE, b))
          /\ Mulig(Dom("STOPP", "godkjenning_over_maks", FALSE, b))
        BY DEF Dom, Domstype, Grunner
  <1>2. Mulig(Evaluate(p, e))
        BY EvaluerType DEF Evaluate
  <1>3. \A q : Mulig(EtterLoft(Evaluer(q, e)))
        BY EtterLoftEr
  <1>4. /\ Avvik(p, g, r) => Mulig(r)
        /\ Anvendt(p, e, g, k, r) => Mulig(r)
    <2> HIDE DEF Mulig
    <2> QED BY <1>1, <1>2, <1>3 DEF Avvik, Anvendt
  <1>5. Mulig(r)
        BY <1>4, AnvendGrener
  <1> QED BY <1>5 DEF Mulig

(* Each variable of the decision point keeps its type, and an approval is  *)
(* logged as used exactly when it let the action through.                  *)
THEOREM MotorTypes == MotorSpec => []MotorTypeOK
  <1>1. MotorSpec => [](hendelse \in Hendelse \cup {Intet} /\
                        godkj \in MenneskeligGodkjenning \cup {Intet})
    <2> DEFINE T == /\ hendelse \in Hendelse \cup {Intet}
                    /\ godkj \in MenneskeligGodkjenning \cup {Intet}
    <2>1. MotorInit => T
          BY DEF MotorInit
    <2>2. T /\ [MotorNext]_motorvars => T'
          BY HendelserAntatt
          DEF MotorNext, Valider, FraNettet, FraMennesket, motorvars
    <2> QED BY <2>1, <2>2, PTL DEF MotorSpec
  <1>2. ASSUME MotorInv, hendelse \in Hendelse \cup {Intet},
               godkj \in MenneskeligGodkjenning \cup {Intet}
        PROVE  MotorTypeOK
    <2>1. policy \in Policyinnhold
          BY <1>2, PolicyerAntatt DEF MotorInv
    <2>2. kontrakt \in {Intet, "innforing", "lasting", "ingen"}
          BY <1>2 DEF MotorInv
    <2>3. dom # Intet => dom \in Domstype /\ ~dom.loftet
      <3> SUFFICES ASSUME dom # Intet PROVE dom \in Domstype /\ ~dom.loftet
          OBVIOUS
      <3>1. dom = DomPaa(policy, kontrakt, hendelse) /\ hendelse \in Hendelse
            BY <1>2, HendelserAntatt DEF MotorInv
      <3>2. Portbrudd(hendelse) \in Grunner
            BY <3>1, PortbruddEr DEF Grunner
      <3> QED BY <3>1, <3>2, EvaluerType DEF DomPaa, Dom, Domstype, Grunner, Evaluate
    <2>4. dom2 # Intet => dom2 \in Domstype /\ (dom2.loftet <=> dom2.utfall = "TILLAT")
      <3> SUFFICES ASSUME dom2 # Intet
                   PROVE  dom2 \in Domstype /\ (dom2.loftet <=> dom2.utfall = "TILLAT")
          OBVIOUS
      <3> DEFINE e == Intensjon(policy, hendelse)
      <3>1. /\ dom # Intet /\ dom.utfall # "TILLAT"
            /\ dom.grunn \in DOMAIN policy.godkjennbar
            /\ godkj \in MenneskeligGodkjenning /\ hendelse \in Hendelse
            /\ dom2 = EvaluateMed(policy, e, godkj, dom.grunn)
            BY <1>2, HendelserAntatt DEF MotorInv
      <3>2. /\ Feil(policy, hendelse) # {}
            /\ Minst(Feil(policy, hendelse)) \in {7, 8}
            BY <1>2, <3>1, FraMotoren
      <3>3. Evaluate(policy, e).utfall # "TILLAT"
            BY <2>1, <3>1, <3>2, IntensjonStopper
      <3> QED BY <2>1, <3>1, <3>3, EvaluateMedType
    <2> QED BY <1>2, <2>1, <2>2, <2>3, <2>4 DEF MotorTypeOK
  <1> QED BY <1>1, <1>2, MotorInvariant, PTL

-----------------------------------------------------------------------------
(* The introduction contract.                                              *)

Feilfri ==
    [omSaken |-> TRUE, sammePolicy |-> TRUE, utlopt |-> FALSE, roller |-> Rollenavn]

(* An override that some event needs, and that lets it through, moves a    *)
(* blocked outcome.                                                        *)
LEMMA AnvendeligFlytter ==
    ASSUME NEW p \in Policyinnhold, NEW k \in DOMAIN p.godkjennbar,
           p.godkjennbar[k] # Intet, Anvendelig(p, k)
    PROVE  /\ k \in Loftbar /\ KanLoftes(k, p.godkjennbar[k])
           /\ FlytterNoe(p, k, p.godkjennbar[k])
  <1> DEFINE o == p.godkjennbar[k]
  <1>1. PICK h \in Hendelser :
          /\ Evaluate(p, h).utfall # "TILLAT" /\ Evaluate(p, h).grunn = k
          /\ EvaluateMed(p, Intensjon(p, h), Feilfri, k).utfall = "TILLAT"
        BY DEF Anvendelig, Feilfri
  <1> DEFINE e == Intensjon(p, h)
  <1>2. h \in Hendelse /\ e \in Hendelse
        BY <1>1, HendelserAntatt, IntensjonEr
  <1>3. Feilfri \in MenneskeligGodkjenning
        BY DEF Feilfri, MenneskeligGodkjenning
  <1>4. /\ k \in Loftbar /\ Feil(p, h) # {} /\ Minst(Feil(p, h)) \in {7, 8}
        /\ k = Foerst[Minst(Feil(p, h))]
        BY <1>1, <1>2, OverstyringType, LoftbarGrunn
  <1>5. Evaluate(p, e).utfall # "TILLAT" /\ Evaluate(p, e).grunn = k
        BY <1>2, <1>4, IntensjonStopper
  <1>6. Innenfor(o, e) /\ KanLoftes(k, o) /\ Ovrige(p, e, k)
        BY <1>1, <1>2, <1>3, <1>4, <1>5, AnvendEr
  <1>7. Krav(p, e).modus /\ Krav(p, e).rolle
        BY <1>4, <1>6, OvrigeEr DEF Loftbar
  <1>8. p.modus # "alltid_stopp" /\ p.tillatt_for # {}
        BY <1>7 DEF Krav
  <1>9. e.belop = h.belop /\ e.valuta = h.valuta
        BY <1>2, IntensjonEr
  <1>10. Minst(Feil(p, h)) \in Feil(p, h)
        BY <1>2, <1>4, EvaluateEr
  <1>11. o.belop_maks \in Nat \cup {Intet, Ugyldig} /\ Intet \notin Nat
        BY OverstyringType, IntetAntatt
  <1>12. CASE k = "belop_over_grense"
    <2>1. 7 \in Feil(p, h)
          BY <1>4, <1>10, <1>12, FoerstEr
    <2>2. p.belop_maks \in Nat /\ h.belop \in Nat /\ h.belop > p.belop_maks
          BY <2>1, FeilSet, BruttEr
    <2>3. o.belop_maks # Intet
          BY <1>6, <1>12 DEF KanLoftes
    <2>4. o.belop_maks \in Nat /\ e.belop <= o.belop_maks
          BY <1>6, <2>3 DEF Innenfor
    <2>5. p.belop_maks # Intet /\ o.belop_maks > p.belop_maks
      <3> HIDE DEF o, e
      <3> QED BY <1>9, <1>11, <2>2, <2>4
    <2>6. Krav(p, e).valuta
          BY <1>6, <1>12, OvrigeEr
    <2>7. p.valuta # {} /\ o.valuta # Intet => o.valuta \in p.valuta
          BY <1>6, <2>6 DEF Krav, Innenfor
    <2> QED BY <1>4, <1>6, <1>8, <1>12, <2>5, <2>7 DEF FlytterNoe
  <1>13. CASE k = "valuta_ikke_tillatt"
    <2>1. 8 \in Feil(p, h)
          BY <1>4, <1>10, <1>13, FoerstEr
    <2>2. p.valuta # {} /\ h.valuta \notin p.valuta
          BY <2>1, FeilSet, BruttEr
    <2>3. o.valuta = e.valuta
          BY <1>6, <1>13 DEF KanLoftes, Innenfor
    <2>4. o.valuta \notin p.valuta
          BY <1>9, <2>2, <2>3
    <2> QED BY <1>4, <1>6, <1>8, <1>13, <2>2, <2>4 DEF FlytterNoe
  <1> QED BY <1>4, <1>12, <1>13 DEF Loftbar

(* The event that stops on an override's code and on nothing else: it is   *)
(* unlimited by the other controls and exactly as large as the override    *)
(* allows, or of its currency.                                             *)
Vitne(p, k, o, r) ==
    [autentisert |-> TRUE, rolle |-> r,
     belop |-> IF k = "belop_over_grense" THEN o.belop_maks ELSE 0,
     valuta |-> o.valuta, tidspunkt |-> "inne", gruppe |-> TRUE, antall |-> 0,
     dataklasser |-> p.dataklasser, betroddKilde |-> TRUE,
     att |-> [v \in Vilkaar |-> Intet]]

(* A policy limited by no condition and no frequency meets every control   *)
(* of such an event but the one it is made for.                            *)
LEMMA VitneFeil ==
    ASSUME NEW p \in Policyinnhold, NEW k \in Loftbar, NEW r \in p.tillatt_for,
           p.godkjennbar[k] # Intet, Lastbar(p), KanLoftes(k, p.godkjennbar[k]),
           FlytterNoe(p, k, p.godkjennbar[k]),
           p.kjent, p.vilkaar = <<>>, p.frekvens = Intet
    PROVE  LET e == Vitne(p, k, p.godkjennbar[k], r) IN
           /\ e \in Hendelse /\ Innenfor(p.godkjennbar[k], e)
           /\ Feil(p, e) = {IF k = "belop_over_grense" THEN 7 ELSE 8}
  <1> DEFINE o == p.godkjennbar[k]
             e == Vitne(p, k, o, r)
  <1>1. k \in DOMAIN p.godkjennbar
        BY DEF Policyinnhold
  <1>2. /\ o.belop_maks \in Nat \cup {Intet} /\ o.valuta \in Valuta
        /\ k = "belop_over_grense" => o.belop_maks \in Nat
    <2>1. o.belop_maks \in Nat \cup {Intet, Ugyldig} /\ o.valuta \in Valuta \cup {Intet}
          BY <1>1, OverstyringType
    <2>2. o.belop_maks # Ugyldig /\ (o.belop_maks # Intet => o.valuta # Intet)
          BY <1>1 DEF Lastbar
    <2>3. /\ k = "belop_over_grense" => o.belop_maks # Intet
          /\ k = "valuta_ikke_tillatt" => o.valuta # Intet
          BY DEF KanLoftes
    <2> HIDE DEF o
    <2> QED BY <2>1, <2>2, <2>3 DEF Loftbar
  <1>3. /\ p.belop_maks \in Nat \cup {Intet} /\ p.tidsvindu \in {"uten", "vindu"}
        /\ p.modus # "alltid_stopp" /\ Intet # Ugyldig
        /\ Intet \notin Nat /\ Ugyldig \notin Nat
        /\ r \in Rollenavn /\ p.dataklasser \subseteq Dataklasse
        BY IntetAntatt DEF Policyinnhold, Lastbar, FlytterNoe
  <1>4. /\ e.autentisert /\ e.rolle = r /\ e.valuta = o.valuta /\ e.tidspunkt = "inne"
        /\ e.gruppe /\ e.antall = 0 /\ e.dataklasser = p.dataklasser /\ e.betroddKilde
        /\ e.belop = IF k = "belop_over_grense" THEN o.belop_maks ELSE 0
        BY DEF Vitne
  <1>5. e.belop \in Nat
        BY <1>2, <1>4
  <1>6. e \in Hendelse
        BY <1>2, <1>3, <1>5 DEF Vitne, Hendelse, Tid
  <1>7. Innenfor(o, e)
        BY <1>2, <1>4 DEF Innenfor
  <1>8. /\ k = "belop_over_grense" =>
              /\ p.belop_maks # Intet /\ o.belop_maks > p.belop_maks
              /\ p.valuta # {} => o.valuta \in p.valuta
        /\ k = "valuta_ikke_tillatt" => p.valuta # {} /\ o.valuta \notin p.valuta
    <2>1. o.valuta # Intet
          BY <1>2, IntetAntatt
    <2> QED BY <2>1 DEF FlytterNoe
  <1>9. IkkeOppfylt(p, e) = {}
        BY DEF IkkeOppfylt
  <1> HIDE DEF e, o
  <1>10. /\ ~Brutt(Foerst[1], p, e) /\ ~Brutt(Foerst[2], p, e)
         /\ ~Brutt(Foerst[3], p, e) /\ ~Brutt(Foerst[4], p, e)
         /\ ~Brutt(Foerst[5], p, e) /\ ~Brutt(Foerst[6], p, e)
         BY <1>3, <1>4, <1>5, BruttEr
  <1>11. /\ ~Brutt(Foerst[9], p, e) /\ ~Brutt(Foerst[10], p, e)
         /\ ~Brutt(Foerst[11], p, e) /\ ~Brutt(Foerst[12], p, e)
         /\ ~Brutt(Foerst[13], p, e) /\ ~Brutt(Foerst[14], p, e)
         /\ ~Brutt(Foerst[15], p, e) /\ ~Brutt(Foerst[16], p, e)
         /\ ~Brutt(Foerst[17], p, e)
         BY <1>3, <1>4, <1>9, BruttEr
  <1>12. CASE k = "belop_over_grense"
    <2>1. Brutt(Foerst[7], p, e)
          BY <1>2, <1>3, <1>4, <1>8, <1>12, BruttEr
    <2>2. ~Brutt(Foerst[8], p, e)
          BY <1>4, <1>8, <1>12, BruttEr
    <2>3. \A n \in 1..17 : Brutt(Foerst[n], p, e) <=> n = 7
          BY <1>10, <1>11, <2>1, <2>2, SyttenTall
    <2> QED BY <1>6, <1>7, <1>12, <2>3, FeilSet DEF e, o
  <1>13. CASE k = "valuta_ikke_tillatt"
    <2>1. ~Brutt(Foerst[7], p, e)
          BY <1>3, <1>4, <1>13, BruttEr
    <2>2. Brutt(Foerst[8], p, e)
          BY <1>4, <1>8, <1>13, BruttEr
    <2>3. \A n \in 1..17 : Brutt(Foerst[n], p, e) <=> n = 8
          BY <1>10, <1>11, <2>1, <2>2, SyttenTall
    <2> QED BY <1>6, <1>7, <1>13, <2>3, FeilSet DEF e, o
  <1> QED BY <1>12, <1>13 DEF Loftbar

(* An override that moves something lets that event through.               *)
LEMMA FlytterAnvendelig ==
    ASSUME Hendelser = Hendelse,
           NEW p \in Policyinnhold, NEW k \in Loftbar,
           p.godkjennbar[k] # Intet, Lastbar(p), KanLoftes(k, p.godkjennbar[k]),
           FlytterNoe(p, k, p.godkjennbar[k]),
           p.kjent, p.vilkaar = <<>>, p.frekvens = Intet, ~p.metadata
    PROVE  Anvendelig(p, k)
  <1> DEFINE o == p.godkjennbar[k]
  <1>1. PICK r \in p.tillatt_for : TRUE
        BY DEF FlytterNoe
  <1> DEFINE h == Vitne(p, k, o, r)
             e == Intensjon(p, h)
             n == IF k = "belop_over_grense" THEN 7 ELSE 8
  <1>2. h \in Hendelse /\ Innenfor(o, h) /\ Feil(p, h) = {n}
        BY VitneFeil
  <1>3. n \in {7, 8} /\ Foerst[n] = k
        BY FoerstEr DEF Loftbar
  <1> HIDE DEF h, n
  <1>4. Minst(Feil(p, h)) = n
        BY <1>2, <1>3, EvaluateEr
  <1>5. Evaluate(p, h).utfall # "TILLAT" /\ Evaluate(p, h).grunn = k
        BY <1>2, <1>3, <1>4, EvaluateEr
  <1>6. Evaluate(p, e).utfall # "TILLAT" /\ Evaluate(p, e).grunn = k
        BY <1>2, <1>3, <1>4, IntensjonStopper
  <1>7. /\ e \in Hendelse /\ (e.autentisert <=> RolleOk(p, h))
        /\ e.rolle = h.rolle /\ e.belop = h.belop /\ e.valuta = h.valuta
        /\ e.tidspunkt = h.tidspunkt /\ e.dataklasser = h.dataklasser
        /\ e.betroddKilde = h.betroddKilde
        BY <1>2, IntensjonEr
  <1>8. RolleOk(p, h)
        BY <1>2, <1>3 DEF RolleOk
  <1>9. Innenfor(o, e)
        BY <1>2, <1>7 DEF Innenfor
  <1>10. Ovrige(p, e, k)
    <2>1. \A m \in 1..17 : m # n => ~Brutt(Foerst[m], p, h)
          BY <1>2, FeilSet
    <2> HIDE DEF e
    <2>2. \A m \in 1..17 : m \in Feil(p, e) => m = n
      <3>1. /\ Brutt(Foerst[3], p, e) <=> Brutt(Foerst[3], p, h)
            /\ Brutt(Foerst[4], p, e) <=> Brutt(Foerst[4], p, h)
            /\ Brutt(Foerst[5], p, e) <=> Brutt(Foerst[5], p, h)
            /\ Brutt(Foerst[6], p, e) <=> Brutt(Foerst[6], p, h)
            /\ Brutt(Foerst[7], p, e) <=> Brutt(Foerst[7], p, h)
            /\ Brutt(Foerst[8], p, e) <=> Brutt(Foerst[8], p, h)
            BY <1>7, BruttLikt
      <3>2. /\ Brutt(Foerst[9], p, e) <=> Brutt(Foerst[9], p, h)
            /\ Brutt(Foerst[10], p, e) <=> Brutt(Foerst[10], p, h)
            /\ Brutt(Foerst[11], p, e) <=> Brutt(Foerst[11], p, h)
            /\ Brutt(Foerst[14], p, e) <=> Brutt(Foerst[14], p, h)
            /\ Brutt(Foerst[15], p, e) <=> Brutt(Foerst[15], p, h)
            /\ Brutt(Foerst[16], p, e) <=> Brutt(Foerst[16], p, h)
            BY <1>7, BruttLikt
      <3>3. /\ ~Brutt(Foerst[1], p, e) /\ ~Brutt(Foerst[2], p, e)
            /\ ~Brutt(Foerst[12], p, e) /\ ~Brutt(Foerst[13], p, e)
            BY <1>7, <1>8, BruttEr
      <3>4. ~Brutt(Foerst[17], p, e)
        <4>1. IkkeOppfylt(p, e) = {}
              BY DEF IkkeOppfylt
        <4> QED BY <4>1, BruttEr
      <3>5. \A m \in 1..17 : Brutt(Foerst[m], p, e) => m = n
            BY <1>3, <2>1, <3>1, <3>2, <3>3, <3>4, SyttenTall
      <3> QED BY <3>5, FeilSet
    <2> QED BY <1>3, <1>7, <2>2, OvrigeUtenFeil
  <1>11. /\ Feilfri \in MenneskeligGodkjenning /\ Feilfri.omSaken /\ Feilfri.sammePolicy
         /\ ~Feilfri.utlopt /\ p.krever_rolle \in Feilfri.roller
         BY DEF Feilfri, MenneskeligGodkjenning, Policyinnhold
  <1>12. EvaluateMed(p, e, Feilfri, k).utfall = "TILLAT"
         BY <1>6, <1>7, <1>9, <1>10, <1>11, AnvendEr
  <1>13. h \in Hendelser
         BY <1>2
  <1> QED BY <1>5, <1>12, <1>13 DEF Anvendelig, Feilfri

LEMMA EnkelOverstyringVirkerHer ==
    ASSUME Hendelser = Hendelse, MotorInv PROVE EnkelOverstyringVirker
  <1> SUFFICES ASSUME kontrakt \in {"innforing", "lasting"}, policy.kjent,
                      policy.vilkaar = <<>>, policy.frekvens = Intet, ~policy.metadata
               PROVE  kontrakt = "innforing" <=>
                        /\ Baerbar(policy)
                        /\ \A k \in DOMAIN policy.godkjennbar :
                              policy.godkjennbar[k] # Intet => Anvendelig(policy, k)
      BY DEF EnkelOverstyringVirker
  <1>1. policy \in Policyinnhold
        BY PolicyerAntatt DEF MotorInv
  <1>2. kontrakt # Intet
        BY IntetAntatt
  <1>3. kontrakt = "innforing" <=> Innforbar(policy)
        BY <1>2 DEF MotorInv
  <1>4. Lastbar(policy)
        BY <1>2 DEF MotorInv, Innforbar
  <1>5. ASSUME Innforbar(policy), NEW k \in DOMAIN policy.godkjennbar,
               policy.godkjennbar[k] # Intet
        PROVE  Anvendelig(policy, k)
    <2>1. /\ k \in Loftbar /\ KanLoftes(k, policy.godkjennbar[k])
          /\ FlytterNoe(policy, k, policy.godkjennbar[k])
          BY <1>5 DEF Innforbar
    <2> QED BY <1>1, <1>4, <1>5, <2>1, FlytterAnvendelig
  <1>6. ASSUME Baerbar(policy),
               \A k \in DOMAIN policy.godkjennbar :
                   policy.godkjennbar[k] # Intet => Anvendelig(policy, k)
        PROVE  Innforbar(policy)
    <2>1. ASSUME NEW k \in DOMAIN policy.godkjennbar, policy.godkjennbar[k] # Intet
          PROVE  /\ k \in Loftbar /\ KanLoftes(k, policy.godkjennbar[k])
                 /\ FlytterNoe(policy, k, policy.godkjennbar[k])
          BY <1>1, <1>6, <2>1, AnvendeligFlytter
    <2> QED BY <1>4, <1>6, <2>1 DEF Innforbar
  <1>7. Innforbar(policy) => Baerbar(policy)
        BY DEF Innforbar
  <1> QED BY <1>3, <1>5, <1>6, <1>7

(* Where every amount can be carried, the introduction contract turns away *)
(* a policy exactly when it has an override such that no event that may    *)
(* come would be stopped on its code and let through by a flawless         *)
(* approval.                                                               *)
THEOREM IntroductionTurnsAwayTheUseless ==
    ASSUME Hendelser = Hendelse PROVE MotorSpec => []EnkelOverstyringVirker
  BY MotorInvariant, EnkelOverstyringVirkerHer, PTL

-----------------------------------------------------------------------------
(* The engine in the round: what Godkjenning leaves to a choice is what    *)
(* Policymotor computes.                                                   *)

(* The contents behind the names: policies that load, with the role, the   *)
(* override of the case's code k and the metadata that the names stand for.*)
Innholdet(innhold, k) ==
    /\ innhold \in [Policy -> Policyinnhold]
    /\ \A p \in Policy :
          /\ Lastbar(innhold[p])
          /\ KreverRolle[p] = innhold[p].krever_rolle
          /\ p \in Godkjennbar <=> innhold[p].godkjennbar[k] # Intet
          /\ p \in MedMetadata <=> innhold[p].metadata

(* The endpoint makes the approval: of the case it has locked, in a round  *)
(* that was not expired at the time the engine is given too, and with the  *)
(* hash of the policy the round froze.                                     *)
FraEndepunktet(g, p, rp) == g.omSaken /\ ~g.utlopt /\ (g.sammePolicy <=> rp = p)

(* What the endpoint tells apart in a verdict.                             *)
SvarAv(d) ==
    IF d.utfall = "TILLAT" THEN "TILLAT"
    ELSE IF d.grunn = "godkjenning_policy_avvik" THEN "policy_avvik"
    ELSE IF d.grunn = "godkjenning_rolle_mangler" THEN "rolle_mangler" ELSE "UNNTAK"

SomMotoren(d, r) ==
    /\ d.svar = SvarAv(r) /\ (d.loftet <=> r.loftet)
    /\ d.svar \in Sikkerhet <=> r.sikkerhet

(* A verdict of the ordinary path is let through or goes back to people.   *)
LEMMA SvarAvEvaluer ==
    ASSUME NEW p, NEW e
    PROVE  /\ SvarAv(Evaluer(p, e)) =
                 IF Evaluer(p, e).utfall = "TILLAT" THEN "TILLAT" ELSE "UNNTAK"
           /\ SvarAv(EtterLoft(Evaluer(p, e))) =
                 IF Evaluer(p, e).utfall = "TILLAT" THEN "TILLAT" ELSE "UNNTAK"
  <1>1. /\ Evaluer(p, e).grunn # "godkjenning_policy_avvik"
        /\ Evaluer(p, e).grunn # "godkjenning_rolle_mangler"
    <2>1. \A n \in 1..17 : Foerst[n] # "godkjenning_policy_avvik"
                           /\ Foerst[n] # "godkjenning_rolle_mangler"
          BY SyttenTall, FoerstEr
    <2> QED BY <2>1, EvaluerType, FoerstEr
  <1> QED BY <1>1, EtterLoftEr DEF SvarAv

(* The three things that are compared, one by one.                         *)
LEMMA SomMotorenNaar ==
    ASSUME NEW m, NEW s, NEW l \in BOOLEAN, m = [svar |-> s, loftet |-> l],
           NEW r, SvarAv(r) = s, r.loftet <=> l, r.sikkerhet <=> s \in Sikkerhet
    PROVE  SomMotoren(m, r)
  <1>1. m.svar = s /\ m.loftet = l
        OBVIOUS
  <1>2. m.loftet <=> r.loftet
        BY <1>1
  <1> QED BY <1>1, <1>2, Zenon DEF SomMotoren

(* What a refusal of Anvend says to the endpoint.                          *)
LEMMA SvarAvDom ==
    ASSUME NEW u, u # "TILLAT", NEW grunn, NEW b \in BOOLEAN
    PROVE  /\ SvarAv(Dom(u, grunn, FALSE, b)) =
                IF grunn = "godkjenning_policy_avvik" THEN "policy_avvik"
                ELSE IF grunn = "godkjenning_rolle_mangler" THEN "rolle_mangler"
                ELSE "UNNTAK"
           /\ ~Dom(u, grunn, FALSE, b).loftet
           /\ Dom(u, grunn, FALSE, b).sikkerhet <=> b
  BY DEF SvarAv, Dom

LEMMA HvaSomErSikkerhet ==
    /\ "policy_avvik" \in Sikkerhet /\ "rolle_mangler" \in Sikkerhet
    /\ "TILLAT" \notin Sikkerhet /\ "UNNTAK" \notin Sikkerhet
  BY DEF Sikkerhet

(* Whatever the engine answers in a round, Godkjenning has that answer     *)
(* among its choices: the verdict, whether it was lifted, and whether it   *)
(* is for the security queue.  So what is proved of the rounds for every   *)
(* choice holds with the real engine in them.                              *)
THEOREM EngineInTheRound ==
    ASSUME NEW innhold, NEW k \in Loftbar \cup {"annen_kode"}, Innholdet(innhold, k),
           NEW p \in Policy, NEW rp \in Policy, NEW e,
           NEW g \in MenneskeligGodkjenning, FraEndepunktet(g, p, rp)
    PROVE  \E grunn \in {"tillat", "bundet", "annen"}, loft \in BOOLEAN :
              SomMotoren(Motor(p, rp, g.roller, grunn, loft),
                         EvaluateMed(innhold[p], e, g, k))
  <1> DEFINE q == innhold[p]
             d == Evaluate(q, e)
             o == q.godkjennbar[k]
             r == EvaluateMed(q, e, g, k)
  <1>1. /\ q \in Policyinnhold /\ Lastbar(q)
        /\ KreverRolle[p] = q.krever_rolle /\ (p \in Godkjennbar <=> o # Intet)
        /\ p \in MedMetadata <=> q.metadata
        BY DEF Innholdet
  <1>2. k \in DOMAIN q.godkjennbar
        BY <1>1 DEF Policyinnhold
  <1>3. /\ ~d.loftet /\ ~d.sikkerhet
        /\ SvarAv(d) = IF d.utfall = "TILLAT" THEN "TILLAT" ELSE "UNNTAK"
        BY EvaluerType, SvarAvEvaluer DEF Evaluate
  <1> HIDE DEF q, d, o, r
  <1>4. CASE d.utfall = "TILLAT"
    <2>1. r = d
          BY <1>4 DEF r, d, EvaluateMed, Anvend
    <2>2. Motor(p, rp, g.roller, "tillat", FALSE) = [svar |-> "TILLAT", loftet |-> FALSE]
          BY DEF Motor
    <2>3. SomMotoren(Motor(p, rp, g.roller, "tillat", FALSE), r)
          BY <1>3, <1>4, <2>1, <2>2, SomMotorenNaar, HvaSomErSikkerhet
    <2> QED BY <2>3 DEF r, q
  <1>5. CASE d.utfall # "TILLAT" /\ Avvik(q, g, r)
    <2>1. /\ r = Dom("STOPP", "godkjenning_policy_avvik", FALSE, TRUE)
          /\ rp # p \/ p \in MedMetadata
          BY <1>1, <1>5 DEF Avvik, FraEndepunktet
    <2>2. Motor(p, rp, g.roller, "annen", FALSE) = [svar |-> "policy_avvik", loftet |-> FALSE]
          BY <2>1 DEF Motor
    <2>3. SomMotoren(Motor(p, rp, g.roller, "annen", FALSE), r)
          BY <2>1, <2>2, SomMotorenNaar, SvarAvDom, HvaSomErSikkerhet
    <2> QED BY <2>3 DEF r, q
  <1>6. CASE d.utfall # "TILLAT" /\ Anvendt(q, e, g, k, r)
    <2>1. rp = p /\ p \notin MedMetadata
          BY <1>1, <1>6 DEF Anvendt, FraEndepunktet
    <2>2. Motor(p, rp, g.roller, "annen", FALSE) = [svar |-> "UNNTAK", loftet |-> FALSE]
          BY <2>1 DEF Motor
    <2>3. CASE r = d
      <3>1. SomMotoren(Motor(p, rp, g.roller, "annen", FALSE), r)
            BY <1>3, <1>6, <2>2, <2>3, SomMotorenNaar, HvaSomErSikkerhet
      <3> QED BY <3>1 DEF r, q
    <2>4. CASE r # d
      <3>1. o # Intet /\ p \in Godkjennbar
            BY <1>1, <1>6, <2>4 DEF Anvendt, d, o
      <3>2. \A loft \in BOOLEAN :
              Motor(p, rp, g.roller, "bundet", loft) =
                IF KreverRolle[p] \notin g.roller
                THEN [svar |-> "rolle_mangler", loftet |-> FALSE]
                ELSE [svar |-> IF loft THEN "TILLAT" ELSE "UNNTAK", loftet |-> loft]
            BY <2>1, <3>1 DEF Motor
      <3>3. CASE q.krever_rolle \notin g.roller
        <4>1. r = Dom("STOPP", "godkjenning_rolle_mangler", FALSE, TRUE)
              BY <1>6, <2>4, <3>3 DEF Anvendt, d
        <4>2. Motor(p, rp, g.roller, "bundet", FALSE) =
                [svar |-> "rolle_mangler", loftet |-> FALSE]
              BY <1>1, <3>2, <3>3
        <4>3. SomMotoren(Motor(p, rp, g.roller, "bundet", FALSE), r)
              BY <4>1, <4>2, SomMotorenNaar, SvarAvDom, HvaSomErSikkerhet
        <4> QED BY <4>3 DEF r, q
      <3>4. CASE q.krever_rolle \in g.roller /\ ~Innenfor(o, e)
        <4>1. PICK b \in BOOLEAN :
                /\ b <=> UgyldigGrense(o, e)
                /\ r = Dom("STOPP", "godkjenning_over_maks", FALSE, b)
              BY <1>6, <2>4, <3>4 DEF Anvendt, d, o
        <4>2. o.belop_maks # Ugyldig
              BY <1>1, <1>2, <3>1 DEF Lastbar, o
        <4>3. ~b
              BY <4>1, <4>2 DEF UgyldigGrense
        <4>4. SomMotoren(Motor(p, rp, g.roller, "annen", FALSE), r)
              BY <2>2, <4>1, <4>3, SomMotorenNaar, SvarAvDom, HvaSomErSikkerhet
        <4> QED BY <4>4 DEF r, q
      <3>5. CASE q.krever_rolle \in g.roller /\ Innenfor(o, e) /\ KanLoftes(k, o)
        <4> DEFINE nytt == Evaluer(Loftet(Motorpolicy(q), k, o), e)
        <4>1. r = EtterLoft(nytt)
              BY <1>6, <2>4, <3>5 DEF Anvendt, d, o
        <4>2. /\ r.loftet <=> nytt.utfall = "TILLAT"
              /\ ~r.sikkerhet /\ SvarAv(r) = IF nytt.utfall = "TILLAT" THEN "TILLAT" ELSE "UNNTAK"
              BY <4>1, EtterLoftEr, SvarAvEvaluer
        <4> HIDE DEF nytt
        <4>3. CASE nytt.utfall = "TILLAT"
          <5>1. Motor(p, rp, g.roller, "bundet", TRUE) = [svar |-> "TILLAT", loftet |-> TRUE]
                BY <1>1, <3>2, <3>5
          <5>2. SomMotoren(Motor(p, rp, g.roller, "bundet", TRUE), r)
                BY <4>2, <4>3, <5>1, SomMotorenNaar, HvaSomErSikkerhet
          <5> QED BY <5>2 DEF r, q
        <4>4. CASE nytt.utfall # "TILLAT"
          <5>1. SomMotoren(Motor(p, rp, g.roller, "annen", FALSE), r)
                BY <2>2, <4>2, <4>4, SomMotorenNaar, HvaSomErSikkerhet
          <5> QED BY <5>1 DEF r, q
        <4> QED BY <4>3, <4>4
      <3> QED BY <1>6, <2>4, <3>3, <3>4, <3>5 DEF Anvendt, d, o
    <2> QED BY <2>3, <2>4
  <1>7. d.utfall # "TILLAT" => Avvik(q, g, r) \/ Anvendt(q, e, g, k, r)
        BY <1>1, AnvendGrener DEF d, r
  <1> QED BY <1>4, <1>5, <1>6, <1>7
=============================================================================
