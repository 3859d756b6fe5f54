------------------------------ MODULE OppdragKo ------------------------------
(***************************************************************************)
(* The life of ONE order ("oppdrag") in the outbox: owner modules claim it *)
(* under a lease and get a capability for one receipt, receipts come late, *)
(* twice, in contradiction or from an earlier owner, a human rejects the   *)
(* case behind the order, and a reaper closes what nobody answered.        *)
(*                                                                         *)
(* A receipt request reads the capability and the order without any lock   *)
(* (Les), waits for the cases of the order and reads again only if there   *)
(* are any (Laas), and then burns the capability, writes and commits in    *)
(* one step: from the burning on nothing it has judged is read again, and  *)
(* the order's row is first locked by the UPDATE that closes it.           *)
(*                                                                         *)
(* There is no clock: the lease and the two deadlines run out by actions.  *)
(* A request keeps the time it arrived, as the code does.  One capability  *)
(* is issued per claim, in its transaction, so it is named by the          *)
(* owner_generation; owner_claim_id is as fresh as that and left out.      *)
(* The result hash of a receipt is its result.  Feil... as in M37Sak.      *)
(***************************************************************************)
EXTENDS Naturals, FiniteSets

CONSTANTS
    Innsending,       \* BOUND: receipt requests, each sent at most once
    Resultat,         \* results a receipt can report
    Utfort,           \* those of them that report the work as done
    MaksClaim,        \* BOUND: how many times the order is claimed
    Opphav,           \* origins the order may have
    Reversibilitet,   \* classes of the contract that binds the order
    Driftsinngrep,    \* BOUND: reasons whose case someone sets to manuell by hand
    Ingen             \* "no result"

Tilsvar == {"utfort", "feilet", "lagret", "idempotent", "idempotent_uten",
            "konflikt"}

ASSUME UtfortAntatt  == Utfort \subseteq Resultat
ASSUME ClaimAntatt   == MaksClaim \in Nat \ {0}
ASSUME OpphavAntatt  == Opphav \subseteq {"m37_reparasjon", "beslutning", "frigivelse"}
ASSUME KlasseAntatt  == Reversibilitet \subseteq
                           {"direkte", "kompenserende", "irreversibel", "ukjent"}
ASSUME IngenAntatt   == Ingen \notin Resultat \cup Tilsvar
ASSUME InngrepAntatt == Driftsinngrep \subseteq
                           {"opphav", "evidensfrist", "sikkerhet", "oppfolging",
                            "utforelse_feilet"}

VARIABLES
    oppdrag,     \* the row of table oppdrag
    frist,       \* which of its two deadlines have passed
    kap,         \* kvitteringskapabiliteter, per generation
    saker,       \* unntak: the newest case of the order per reason (arsak)
    historikk,   \* unntak_historikk: what is said of receipts
    inn          \* receipt requests

vars == <<oppdrag, frist, kap, saker, historikk, inn>>

Gen     == 1..MaksClaim
Aarsak  == {"opphav", "evidensfrist", "sikkerhet", "oppfolging", "utforelse_feilet"}
Aapen   == {"opprettet", "plukket"}
IkkeTerminal == {"ny", "manuell"}           \* cases sikre_sak may reuse
(* motstridende_kvittering, with kilde oppdrag or not                      *)
Strider == {"strid_oppdrag", "strid_kapabilitet"}
TomInn == [pc |-> "ledig", gen |-> 1, res |-> Ingen, iTide |-> FALSE,
           kapHash |-> Ingen, hash |-> Ingen, kan |-> FALSE, laas |-> {},
           svar |-> Ingen]

Init ==
    /\ oppdrag \in [opphav: Opphav, rev: Reversibilitet, status: {"opprettet"},
                    gen: {0}, lease: {FALSE}, hash: {Ingen}, nei: {FALSE}]
    /\ frist = "apen"
    /\ kap = [g \in Gen |-> [status |-> "ingen", hash |-> Ingen]]
    /\ saker = [a \in Aarsak |->
                  IF a = "opphav" /\ oppdrag.opphav = "m37_reparasjon"
                  THEN "venter" ELSE "ingen"]
    /\ historikk = {}
    /\ inn = [i \in Innsending |-> TomInn]

-----------------------------------------------------------------------------
(* Owners.                                                                 *)

Claimbar == \/ oppdrag.status = "opprettet"
            \/ oppdrag.status = "plukket" /\ ~oppdrag.lease

(* claim_neste_oppdrag and utsted_kvitteringskapabilitet, one transaction. *)
Claim ==
    /\ Claimbar /\ frist = "apen"
    /\ oppdrag.gen < MaksClaim
    /\ oppdrag' = [oppdrag EXCEPT !.status = "plukket", !.gen = @ + 1, !.lease = TRUE]
    /\ kap' = [kap EXCEPT ![oppdrag.gen + 1].status = "utstedt"]
    /\ UNCHANGED <<frist, saker, historikk, inn>>

(* forny_oppdragslease only puts this moment off.                          *)
LeaseUtloper ==
    /\ oppdrag.lease
    /\ oppdrag' = [oppdrag EXCEPT !.lease = FALSE]
    /\ UNCHANGED <<frist, kap, saker, historikk, inn>>

FristUtloper ==
    /\ frist # "evidens"
    /\ frist' = IF frist = "apen" THEN "utforelse" ELSE "evidens"
    /\ UNCHANGED <<oppdrag, kap, saker, historikk, inn>>

-----------------------------------------------------------------------------
(* Cases.  A row lock is held from Laas to the end of the transaction.     *)

Ulaast(a) == \A i \in Innsending : a \notin inn[i].laas
LaastAvAndre(i, a) == \E j \in Innsending \ {i} : a \in inn[j].laas

(* sikre_sak_for_oppdrag waits for the row it would reuse, and never       *)
(* reuses a terminal one.                                                  *)
KanSikre(A, i) == \A a \in A : saker[a] \in IkkeTerminal => ~LaastAvAndre(i, a)

Sikret(A) == [a \in Aarsak |-> IF a \in A /\ saker[a] \notin IkkeTerminal
                               THEN "ny" ELSE saker[a]]

(* An M-37 order has its case already; otherwise one is found or born.     *)
Sikkerhetssak == IF oppdrag.opphav = "m37_reparasjon" THEN {} ELSE {"sikkerhet"}
Evidenssak    == IF oppdrag.opphav = "m37_reparasjon" \/ oppdrag.nei
                 THEN {} ELSE {"evidensfrist"}

(* Section 5 of 043: what a late receipt that says the work was done asks  *)
(* for when a human had said no.  Unknown reversibility is not safe.       *)
FeilOppfolging(res) ==
    IF oppdrag.nei /\ res \in Utfort /\ oppdrag.rev \in {"kompenserende", "irreversibel"}
    THEN {"oppfolging"} ELSE {}

Oppfolging(res) ==
    IF oppdrag.nei /\ res \in Utfort /\ oppdrag.rev # "direkte"
    THEN {"oppfolging"} ELSE {}

(* Migration 209: a failed compensating job is shown to a human.           *)
FeilFeilsak(res) == {}

Feilsak(res) ==
    IF res \notin Utfort /\ oppdrag.rev = "kompenserende"
    THEN {"utforelse_feilet"} ELSE {}

(* The case an M-37 order came from waits for it.                          *)
LukkSak(s, res) ==
    IF s["opphav"] = "venter"
    THEN [s EXCEPT !["opphav"] = IF res \in Utfort THEN "lost" ELSE "manuell"]
    ELSE s

-----------------------------------------------------------------------------
(* The receipt capability.                                                 *)

(* bruk_kvitteringskapabilitet for a receipt; sen = the three-argument     *)
(* form 'sen_evidens'.  Its expiry is measured at the start of the         *)
(* transaction, where Les has measured it.                                 *)
Brenning(g, res, sen) ==
    CASE \/ kap[g].status = "utstedt"
         \/ kap[g].status = "avvist" /\ sen /\ kap[g].hash = Ingen -> "ny"
      [] kap[g].status = "avvist" /\ ~sen                          -> "ugyldig"
      [] OTHER -> IF kap[g].hash = res THEN "gjensyn" ELSE "strid"

FeilBrent(g, res) ==
    [kap EXCEPT ![g].status = IF @ = "utstedt" THEN "brukt" ELSE @]

Brent(g, res) ==
    [kap EXCEPT ![g].status = IF @ = "utstedt" THEN "brukt" ELSE @,
                ![g].hash = res]

-----------------------------------------------------------------------------
(* Receipts.                                                               *)

(* The owner's capability of the order as it is now (owner fencing).       *)
Gjeldende(g) == g = oppdrag.gen /\ oppdrag.status = "plukket"

Sett(r) == [r EXCEPT !.kapHash = kap[r.gen].hash, !.hash = oppdrag.hash,
                     !.kan = Gjeldende(r.gen) /\ r.iTide
                             /\ kap[r.gen].status = "utstedt"]

(* The end of the transaction: the locks go, and of the request only what  *)
(* its owner was told is remembered; an error tells it nothing.            *)
Svar(i, svar) ==
    inn' = [inn EXCEPT ![i] = [TomInn EXCEPT !.pc = "svart", !.gen = inn[i].gen,
                                             !.res = inn[i].res, !.svar = svar]]

IkkeSvar(i) == inn' = [inn EXCEPT ![i] = [TomInn EXCEPT !.pc = "svart"]]

Foer(i, hendelse) ==
    historikk' = historikk \cup {[hendelse |-> hendelse, res |-> inn[i].res,
                                  nei |-> oppdrag.nei]}

(* A signed receipt for capability g arrives, with some result.            *)
Les(i) ==
    /\ inn[i].pc = "ledig"
    /\ frist # "evidens"
    /\ \E g \in Gen, res \in Resultat :
          /\ kap[g].status # "ingen"
          /\ inn' = [inn EXCEPT ![i] =
                Sett([TomInn EXCEPT !.pc = "lest", !.gen = g, !.res = res,
                                    !.iTide = frist = "apen"])]
    /\ UNCHANGED <<oppdrag, frist, kap, saker, historikk>>

(* SELECT ... FOR UPDATE of the order's cases.  Without a case there is    *)
(* nothing to lock, and what was read before is not read again.            *)
Laas(i) ==
    LET mine == {a \in Aarsak : saker[a] # "ingen"}
        r    == [inn[i] EXCEPT !.pc = "laast", !.laas = mine]
    IN  /\ inn[i].pc = "lest"
        /\ \A a \in mine : Ulaast(a)
        /\ inn' = [inn EXCEPT ![i] = IF mine = {} THEN r ELSE Sett(r)]
        /\ UNCHANGED <<oppdrag, frist, kap, saker, historikk>>

(* What the receipt is: the capability remembers what it was used for, the *)
(* order what closed it, and last the burning decides.                     *)
Dom(i) ==
    LET r == inn[i]
        Mot(hash) == IF hash = r.res THEN "gjensyn" ELSE "strid"
    IN  CASE r.kapHash # Ingen -> Mot(r.kapHash)
          [] r.kapHash = Ingen /\ r.hash # Ingen -> Mot(r.hash)
          [] OTHER -> Brenning(r.gen, r.res, ~r.kan)

(* _kvittering_alt_avvist: this receipt was refused for its artefact.      *)
AltAvvist(res) == \E h \in historikk : h.hendelse = "artefakt" /\ h.res = res

(* _idempotent_svar: did that receipt change the order's status?           *)
FeilSkiftet(res) == oppdrag.hash = res

Skiftet(res) == oppdrag.status \in {"utfort", "feilet"} /\ oppdrag.hash = res

Gjensyn(i) ==
    LET res == inn[i].res
    IN  /\ inn[i].pc = "laast" /\ Dom(i) = "gjensyn"
        /\ \/ AltAvvist(res) /\ Svar(i, "konflikt")
           \/ ~AltAvvist(res) /\ Skiftet(res) /\ Svar(i, "idempotent")
           \/ ~AltAvvist(res) /\ ~Skiftet(res) /\ Svar(i, "idempotent_uten")
        /\ UNCHANGED <<oppdrag, frist, kap, saker, historikk>>

Strid(i) ==
    /\ inn[i].pc = "laast" /\ Dom(i) = "strid"
    /\ KanSikre(Sikkerhetssak, i) /\ saker' = Sikret(Sikkerhetssak)
    /\ Foer(i, IF inn[i].kapHash = Ingen /\ inn[i].hash # Ingen
               THEN "strid_oppdrag" ELSE "strid_kapabilitet")
    /\ Svar(i, "konflikt")
    /\ UNCHANGED <<oppdrag, frist, kap>>

(* The capability was burnt by a no that the request did not see.          *)
Ugyldig(i) ==
    /\ inn[i].pc = "laast" /\ Dom(i) = "ugyldig"
    /\ IkkeSvar(i)
    /\ UNCHANGED <<oppdrag, frist, kap, saker, historikk>>

(* The artefact of a successful receipt is not what was signed: the burnt  *)
(* capability stands, and nothing else is concluded.                       *)
ArtefaktAvvist(i) ==
    /\ inn[i].pc = "laast" /\ Dom(i) = "ny" /\ inn[i].res \in Utfort
    /\ kap' = Brent(inn[i].gen, inn[i].res)
    /\ KanSikre(Sikkerhetssak, i) /\ saker' = Sikret(Sikkerhetssak)
    /\ Foer(i, "artefakt")
    /\ Svar(i, "konflikt")
    /\ UNCHANGED <<oppdrag, frist>>

(* A receipt that cannot close anything is kept as evidence.  Only on a    *)
(* rejected order, and only the first one, it is stored on the order; the  *)
(* trigger lets the API write no order of origin frigivelse.               *)
Lagre(i) ==
    IF oppdrag.nei /\ oppdrag.hash = Ingen
    THEN /\ oppdrag.opphav # "frigivelse"
         /\ oppdrag' = [oppdrag EXCEPT !.hash = inn[i].res]
    ELSE UNCHANGED oppdrag

SenEvidens(i) ==
    LET A == Evidenssak \cup Oppfolging(inn[i].res)
    IN  /\ inn[i].pc = "laast" /\ Dom(i) = "ny" /\ ~inn[i].kan
        /\ kap' = Brent(inn[i].gen, inn[i].res)
        /\ Lagre(i)
        /\ KanSikre(A, i) /\ saker' = Sikret(A)
        /\ Foer(i, "sen_kvittering")
        /\ Svar(i, "lagret")
        /\ UNCHANGED frist

StatusAv(res) == IF res \in Utfort THEN "utfort" ELSE "feilet"

(* oppdrag_kolonnelaas for an UPDATE by the API that stores a receipt.     *)
FeilLovlig(til) == oppdrag.opphav # "frigivelse"

Lovlig(til) ==
    /\ oppdrag.opphav # "frigivelse"
    /\ oppdrag.hash = Ingen
    /\ \/ oppdrag.status = "plukket"
       \/ oppdrag.status = "opprettet" /\ til = "feilet"
       \/ oppdrag.status = til

(* The receipt closes the order: UPDATE ... WHERE id, in the status the    *)
(* order has by now; if the trigger refuses, all is rolled back (Feil).    *)
Avslutt(i) ==
    LET res == inn[i].res
    IN  /\ inn[i].pc = "laast" /\ Dom(i) = "ny" /\ inn[i].kan
        /\ kap' = Brent(inn[i].gen, res)
        /\ Lovlig(StatusAv(res))
        /\ oppdrag' = [oppdrag EXCEPT !.status = StatusAv(res), !.hash = res]
        /\ KanSikre(Feilsak(res), i)
        /\ saker' = LukkSak(Sikret(Feilsak(res)), res)
        /\ Svar(i, StatusAv(res))
        /\ UNCHANGED <<frist, historikk>>

(* Any error before the commit: a refused UPDATE, a lock that is given up, *)
(* a lost connection.                                                      *)
Feil(i) ==
    /\ inn[i].pc \in {"lest", "laast"}
    /\ IkkeSvar(i)
    /\ UNCHANGED <<oppdrag, frist, kap, saker, historikk>>

Behandle(i) ==
    \/ Laas(i) \/ Gjensyn(i) \/ Strid(i) \/ Ugyldig(i)
    \/ ArtefaktAvvist(i) \/ SenEvidens(i) \/ Avslutt(i) \/ Feil(i)

-----------------------------------------------------------------------------
(* The reaper and the humans.                                              *)

FeilReapes == oppdrag.opphav = "beslutning"

Reapes == oppdrag.opphav \in {"beslutning", "frigivelse"}

(* reap_evidensfrister skips a case somebody holds (SKIP LOCKED).          *)
Reap ==
    /\ Reapes /\ oppdrag.status \in Aapen /\ frist = "evidens"
    /\ saker["evidensfrist"] \in IkkeTerminal => Ulaast("evidensfrist")
    /\ oppdrag' = [oppdrag EXCEPT !.status = "feilet"]
    /\ saker' = Sikret({"evidensfrist"})
    /\ UNCHANGED <<frist, kap, historikk, inn>>

(* avvis_med_opplosning fences a claimed order (hop 1) and cancels it.     *)
FeilEtterNei(o) ==
    [o EXCEPT !.status = IF @ = "plukket" THEN "opprettet" ELSE "kansellert",
              !.nei = TRUE, !.lease = FALSE]

EtterNei(o) ==
    [o EXCEPT !.status = "kansellert", !.nei = TRUE, !.lease = FALSE,
              !.gen = IF o.status = "plukket" THEN @ + 1 ELSE @]

(* It burns the newest issued capability, unless that has expired.         *)
BrentAvNei ==
    LET utstedt == {g \in Gen : kap[g].status = "utstedt"}
    IN  IF frist = "evidens" \/ utstedt = {} THEN kap
        ELSE LET nyeste == CHOOSE g \in utstedt : \A h \in utstedt : h <= g
             IN  [kap EXCEPT ![nyeste].status = "avvist"]

(* A human rejects case a; an open order is resolved in the same commit.   *)
Avvis(a) ==
    /\ saker[a] = "manuell" /\ Ulaast(a)
    /\ saker' = [saker EXCEPT ![a] = "avvist"]
    /\ IF oppdrag.status \in Aapen
       THEN oppdrag' = EtterNei(oppdrag) /\ kap' = BrentAvNei
       ELSE UNCHANGED <<oppdrag, kap>>
    /\ UNCHANGED <<frist, historikk, inn>>

(* By hand in the database: nothing in the code takes an order's case from *)
(* ny, or from waiting while the order is open, to manuell.                *)
SettManuell(a) ==
    /\ a \in Driftsinngrep
    /\ saker[a] \in {"ny", "venter"} /\ Ulaast(a)
    /\ saker' = [saker EXCEPT ![a] = "manuell"]
    /\ UNCHANGED <<oppdrag, frist, kap, historikk, inn>>

(* The customer stops an evaluation (a compensating contract).             *)
Avbryt ==
    /\ oppdrag.opphav = "beslutning" /\ oppdrag.rev = "kompenserende"
    /\ oppdrag.status \in Aapen
    /\ oppdrag' = [oppdrag EXCEPT !.status = "kansellert"]
    /\ UNCHANGED <<frist, kap, saker, historikk, inn>>

Next ==
    \/ Claim \/ LeaseUtloper \/ FristUtloper \/ Reap \/ Avbryt
    \/ \E i \in Innsending : Les(i) \/ Behandle(i)
    \/ \E a \in Aarsak : Avvis(a) \/ SettManuell(a)

Spec == Init /\ [][Next]_vars

(* Deadlines pass, the reaper's timer runs, and the API ends each request, *)
(* by an answer or by an error.                                            *)
Rettferdig ==
    /\ WF_vars(FristUtloper) /\ WF_vars(Reap)
    /\ \A i \in Innsending : WF_vars(Behandle(i))

RettferdigSpec == Spec /\ Rettferdig

-----------------------------------------------------------------------------
(* Properties.                                                             *)

Hash == Resultat \cup {Ingen}

OppdragType ==
    [opphav: Opphav, rev: Reversibilitet,
     status: {"opprettet", "plukket", "utfort", "feilet", "kansellert"},
     gen: 0..(MaksClaim + 1), lease: BOOLEAN, hash: Hash, nei: BOOLEAN]
KapType == [status: {"ingen", "utstedt", "brukt", "avvist"}, hash: Hash]
SakStatus == {"ingen", "ny", "venter", "manuell", "avvist", "lost"}
HendelseType == [hendelse: {"sen_kvittering", "artefakt"} \cup Strider,
                 res: Resultat, nei: BOOLEAN]
InnType ==
    [pc: {"ledig", "lest", "laast", "svart"}, gen: Gen, res: Hash, iTide: BOOLEAN,
     kapHash: Hash, hash: Hash, kan: BOOLEAN, laas: SUBSET Aarsak,
     svar: Tilsvar \cup {Ingen}]

(* TypeOK: every variable keeps its shape; only an M-37 order's origin is  *)
(* a case that waits for it.                                               *)
TypeOK ==
    /\ oppdrag \in OppdragType
    /\ frist \in {"apen", "utforelse", "evidens"}
    /\ kap \in [Gen -> KapType]
    /\ saker \in [Aarsak -> SakStatus]
    /\ saker["opphav"] = "ingen" <=> oppdrag.opphav # "m37_reparasjon"
    /\ \A a \in Aarsak \ {"opphav"} : saker[a] \notin {"venter", "lost"}
    /\ historikk \subseteq HendelseType
    /\ inn \in [Innsending -> InnType]

Foert(hendelse, res) == \E h \in historikk : h.hendelse = hendelse /\ h.res = res

(* SvarErSant: what an owner was told of its receipt is so, and stays so:  *)
(* told utfort, feilet or idempotent, the order ended with that result;    *)
(* told lagret or idempotent_uten, the evidence is kept; told konflikt,    *)
(* there is a trace of it.                                                 *)
SvarErSant ==
    \A i \in Innsending :
        LET svar == inn[i].svar
            res  == inn[i].res
        IN  /\ svar \in {"utfort", "feilet", "idempotent"}
                  => oppdrag.hash = res /\ oppdrag.status = StatusAv(res)
            /\ svar = "lagret" => /\ kap[inn[i].gen].hash = res
                                  /\ Foert("sen_kvittering", res)
            /\ svar = "idempotent_uten" => Foert("sen_kvittering", res)
            /\ svar = "konflikt" =>
                  \E h \in historikk : h.res = res /\ h.hendelse # "sen_kvittering"

(* ResultatHarKapabilitet: a result stands on the order only if a          *)
(* capability was spent on it, and the reverse: each spent capability's    *)
(* result is the order's or is in the history; nothing signed is lost.     *)
ResultatHarKapabilitet ==
    /\ oppdrag.hash # Ingen => \E g \in Gen : kap[g].hash = oppdrag.hash
    /\ oppdrag.status = "utfort" => oppdrag.hash \in Utfort
    /\ \A g \in Gen : kap[g].hash # Ingen =>
          \/ kap[g].hash = oppdrag.hash
          \/ Foert("sen_kvittering", kap[g].hash)
          \/ Foert("artefakt", kap[g].hash)

(* NeiStenger: after a human's no the order is cancelled, its last owner   *)
(* has no live capability, and no receipt makes the result of the order    *)
(* anything but evidence: it was stored after the no.                      *)
NeiStenger ==
    oppdrag.nei =>
        /\ oppdrag.status = "kansellert"
        /\ frist = "evidens" \/ \A g \in Gen : kap[g].status = "utstedt" => g < oppdrag.gen - 1
        /\ oppdrag.hash # Ingen =>
              \E h \in historikk : /\ h.hendelse = "sen_kvittering" /\ h.nei
                                   /\ h.res = oppdrag.hash

(* SenUtfortFolges: a human gets a follow-up case exactly when the work    *)
(* was reported done after a no and its effect does not undo itself.       *)
SenUtfortFolges ==
    saker["oppfolging"] # "ingen" <=>
        /\ oppdrag.rev # "direkte"
        /\ \E h \in historikk : h.hendelse = "sen_kvittering" /\ h.nei /\ h.res \in Utfort

(* SakFolgerOppdrag: the case an M-37 order came from waits exactly while  *)
(* the order is open, unless it was taken over by hand, and is solved only *)
(* by work that was done; an order that failed without an answer, or under *)
(* a compensating contract, has a case.                                    *)
SakFolgerOppdrag ==
    /\ saker["opphav"] = "venter" => oppdrag.status \in Aapen
    /\ saker["opphav"] = "lost" => oppdrag.status = "utfort"
    /\ oppdrag.status = "feilet" /\ oppdrag.hash = Ingen => saker["evidensfrist"] # "ingen"
    /\ oppdrag.status = "feilet" /\ oppdrag.hash # Ingen /\ oppdrag.rev = "kompenserende"
          => saker["utforelse_feilet"] # "ingen"

(* ForsteUtfallStaar: what has ended stays: the status of a closed order,  *)
(* a stored result, a capability's result and its end.                     *)
ForsteUtfallStaar ==
    [][ /\ oppdrag.status \notin Aapen => oppdrag'.status = oppdrag.status
        /\ oppdrag.hash # Ingen => oppdrag'.hash = oppdrag.hash
        /\ \A g \in Gen :
              /\ kap[g].hash # Ingen => kap'[g] = kap[g]
              /\ kap[g].status \in {"brukt", "avvist"}
                    => kap'[g].status = kap[g].status ]_vars

(* HolderOrdreloftet: of an M-37 order and the case it came from, the      *)
(* outbox shows the engine what Reparasjonsordre allows: they end together *)
(* by the owner's receipt, or a human takes the case over.  (An order of   *)
(* another origin is nothing of the engine's and seen standing still.)     *)
FraM37 == oppdrag.opphav = "m37_reparasjon"

Ordre == INSTANCE Reparasjonsordre WITH
            sak     <- IF FraM37 THEN saker["opphav"] ELSE "venter",
            oppdrag <- IF FraM37 THEN oppdrag.status ELSE "opprettet"

HolderOrdreloftet == Ordre!Utboksen

(* OppdragEnder: an order that a decision or a release placed comes to an  *)
(* end, whatever its owners do.                                            *)
OppdragEnder == oppdrag.opphav # "m37_reparasjon" ~> oppdrag.status \notin Aapen

-----------------------------------------------------------------------------
(* What the comments say and the code does not do.                         *)

(* NyEierVinner: a receipt that closes the order is the one of the owner   *)
(* the order has at that moment, never of an earlier one.                  *)
NyEierVinner ==
    [][ oppdrag.status \in Aapen /\ oppdrag'.hash # Ingen
        => kap'[oppdrag.gen].hash = oppdrag'.hash ]_vars

(* UlikeResultaterSes: two owners that delivered different results, both   *)
(* accepted, leave a contradiction in the history for a human to see.      *)
UlikeResultaterSes ==
    LET levert(g) == kap[g].hash # Ingen /\ ~Foert("artefakt", kap[g].hash)
    IN  \A g, h \in Gen :
            levert(g) /\ levert(h) /\ kap[g].hash # kap[h].hash
            => \E k \in historikk : k.hendelse \in Strider

(* EierensUtforelseFolges: an owner that delivers only one result, namely  *)
(* that the work was done, after a no and with an effect that does not     *)
(* undo itself, gets a follow-up case also when another owner's result is  *)
(* stored on the order.                                                    *)
EierensUtforelseFolges ==
    \A h \in historikk :
        /\ h.hendelse = "strid_oppdrag" /\ h.nei /\ h.res \in Utfort
        /\ oppdrag.rev # "direkte"
        => saker["oppfolging"] # "ingen"

(* SakNaarMenneske: a case born for the order does not stay where nobody,  *)
(* neither a worker nor a human, may act on it.                            *)
SakNaarMenneske ==
    \A a \in Aarsak : saker[a] = "ny" ~> saker[a] # "ny"

=============================================================================
