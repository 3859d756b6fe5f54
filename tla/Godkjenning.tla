---------------------------- MODULE Godkjenning ----------------------------
(***************************************************************************)
(* Human handling of ONE exception case: approve ("godkjenn"), reject      *)
(* ("avvis") or escalate ("eskaler"), with approval rounds and four eyes.  *)
(*                                                                         *)
(* POST /v1/unntak/{id}/handling is one transaction.  It takes the advis-  *)
(* ory lock of its idempotency key (Krev), locks the case and authorises   *)
(* the caller anew (Laas), reads the active policy and what is outstanding *)
(* (Vurder), and then opens a round if it must, attests, counts, asks the  *)
(* engine and commits or rolls back (Avgjor).  Memberships, the active     *)
(* policy, orders and the clock move between any two of these steps: none  *)
(* of them is under a lock of this transaction.                            *)
(*                                                                         *)
(* The case was stopped on one grounds code, the one every round binds.    *)
(* The engine's verdict without the human is a choice: it depends on the   *)
(* hour, on counters and on the policy.  The MAC of the envelope is left   *)
(* out: the server signs and verifies it over the same locked data.        *)
(* "venter_utforelse" is spelt in ASCII; godkjenning_klar and klar exist   *)
(* only inside Avgjor.                                                     *)
(***************************************************************************)
EXTENDS Naturals, FiniteSets

CONSTANTS
    Bruker,
    Rollesett,       \* BOUND: sets of roles a member may hold
    Forsp,           \* BOUND: requests in flight at a time
    Nokkel,          \* BOUND: Idempotency-Key values clients use
    Policy,          \* contents a policy may have while it is active
    KreverRolle,     \* menneskelig_overstyring.krever_rolle
    Fire,            \* policies with krever_fire_oyne
    Godkjennbar,     \* policies where the case's (grunnkode, handling) is godkjennbar
    MedMetadata,     \* policies whose content has the key "metadata"
    Utestaaende,     \* what a manual case may have outstanding
    MaksRunde,       \* BOUND: rounds opened for the case
    Ingen

Handling == {"godkjenn", "avvis", "eskaler"}

ASSUME KreverAntatt == KreverRolle \in [Policy -> UNION Rollesett]
ASSUME PolicyAntatt == Fire \subseteq Policy /\ Godkjennbar \subseteq Policy
                       /\ MedMetadata \subseteq Policy
ASSUME UteAntatt    == Utestaaende \subseteq {"ingen", "levende", "uloselig", "utfort"}
ASSUME RundeAntatt  == MaksRunde \in Nat \ {0}
ASSUME IngenAntatt  == Ingen \notin Bruker \X Handling \X Nat

VARIABLES
    sak,        \* the row of table unntak: status and saksversjon
    flagget,    \* the outstanding state last noted as avklaring_kreves
    oppdrag,    \* the order or work capability behind the case
    runder,     \* godkjenningsrunde, by number
    stemmer,    \* menneskelig_attestasjon
    utfall,     \* godkjenningsutfall, with what the decision rested on
    idem,       \* idempotens: input and answer of a finished operation
    logg,       \* keys of committed operations (unntak_historikk)
    medlem,     \* brukermedlemskap: roles held now
    aktiv,      \* the active policy
    f           \* the requests

vars == <<sak, flagget, oppdrag, runder, stemmer, utfall, idem, logg,
          medlem, aktiv, f>>
varig == <<sak, flagget, oppdrag, runder, stemmer, utfall, idem, logg>>

Runde   == 1..MaksRunde
Levende == {"levende", "uloselig"}
IRunde  == {"venter_godkjenning", "venter_andre_godkjenner"}
TomRunde == [status |-> "ingen", policy |-> Ingen, utlopt |-> FALSE]
TomForsp == [pc |-> "ledig", bruker |-> Ingen, handling |-> Ingen,
             nokkel |-> Ingen, versjon |-> 0, roller |-> {},
             policy |-> Ingen, sett |-> Ingen, utlopt |-> {}]

Init ==
    /\ sak = [status |-> "manuell", versjon |-> 1]
    /\ flagget = Ingen
    /\ oppdrag \in Utestaaende
    /\ runder = [n \in Runde |-> TomRunde]
    /\ stemmer = {} /\ utfall = {}
    /\ idem = [k \in Nokkel |-> [inn |-> Ingen, svar |-> Ingen]]
    /\ logg = {}
    /\ medlem \in [Bruker -> Rollesett]
    /\ aktiv \in Policy
    /\ f = [x \in Forsp |-> TomForsp]

-----------------------------------------------------------------------------
(* The world around the transaction.                                       *)

RollerEndres == \E b \in Bruker, r \in Rollesett :
    /\ r # medlem[b]
    /\ medlem' = [medlem EXCEPT ![b] = r]
    /\ UNCHANGED <<varig, aktiv, f>>

PolicyAktiveres == \E p \in Policy \ {aktiv} :
    /\ aktiv' = p
    /\ UNCHANGED <<varig, medlem, f>>

Aktiv == {n \in Runde : runder[n].status = "apen"}

(* utloper passes: RUNDE_TTL after the round was opened.                    *)
RundeUtloper == \E n \in Aktiv :
    /\ ~runder[n].utlopt
    /\ runder' = [runder EXCEPT ![n].utlopt = TRUE]
    /\ UNCHANGED <<sak, flagget, oppdrag, stemmer, utfall, idem, logg,
                   medlem, aktiv, f>>

(* A receipt closes the order, the worker ends its capability.             *)
OppdragSlutter ==
    /\ oppdrag \in Levende
    /\ oppdrag' = IF oppdrag = "levende" THEN "utfort" ELSE "ingen"
    /\ UNCHANGED <<sak, flagget, runder, stemmer, utfall, idem, logg,
                   medlem, aktiv, f>>

-----------------------------------------------------------------------------
(* The request.                                                            *)

InndataAv(x)  == <<f[x].bruker, f[x].handling, f[x].versjon>>     \* input_hash
HarNokkel(x) == f[x].pc \in {"nokkel", "laast", "vurdert"}
FeilHarSak(x) == HarNokkel(x)
HarSak(x)    == f[x].pc \in {"laast", "vurdert"}

Utlopte == {n \in Runde : runder[n].utlopt}       \* as the clock stands now

NesteRunde == Cardinality({n \in Runde : runder[n].status # "ingen"}) + 1

(* A client acts on the version its page shows, which may be old when the  *)
(* request gets through, or repeats one that is finished.  The time a      *)
(* request is judged by is the time it came, before every wait.            *)
Send(x) ==
    /\ f[x].pc = "ledig"
    /\ Aktiv = {} => NesteRunde \in Runde
    /\ \E b \in Bruker, h \in Handling, k \in Nokkel, v \in 1..sak.versjon :
         /\ v = sak.versjon \/ idem[k].inn = <<b, h, v>>
         /\ f' = [f EXCEPT ![x] = [TomForsp EXCEPT
                 !.pc = "sendt", !.bruker = b, !.handling = h, !.nokkel = k,
                 !.versjon = v, !.utlopt = Utlopte]]
    /\ UNCHANGED <<varig, medlem, aktiv>>

(* The end of a request that changes nothing, its key included; svar is    *)
(* what the client is told.                                                *)
Nei(x, svar) ==
    /\ f' = [f EXCEPT ![x] = TomForsp]
    /\ UNCHANGED <<varig, medlem, aktiv>>

(* _fullfor: the answer is stored and committed with everything else.      *)
Fullfor(x, svar) ==
    /\ f' = [f EXCEPT ![x] = TomForsp]
    /\ idem' = [idem EXCEPT ![f[x].nokkel] = [inn |-> InndataAv(x), svar |-> svar]]
    /\ logg' = logg \cup {f[x].nokkel}
    /\ UNCHANGED <<medlem, aktiv>>

FeilKrev(x) ==
    /\ f[x].pc = "sendt"
    /\ \A y \in Forsp : HarNokkel(y) => f[y].nokkel # f[x].nokkel
    /\ \/ /\ idem[f[x].nokkel].inn # InndataAv(x)
          /\ f' = [f EXCEPT ![x].pc = "nokkel"]
          /\ UNCHANGED <<varig, medlem, aktiv>>
       \/ /\ idem[f[x].nokkel].inn = InndataAv(x)
          /\ Nei(x, idem[f[x].nokkel].svar)

(* A key in use is waited for; a finished one answers as it did then.      *)
Krev(x) ==
    LET gammel == idem[f[x].nokkel] IN
    /\ f[x].pc = "sendt"
    /\ \A y \in Forsp : HarNokkel(y) => f[y].nokkel # f[x].nokkel
    /\ \/ /\ gammel.inn = Ingen
          /\ f' = [f EXCEPT ![x].pc = "nokkel"]
          /\ UNCHANGED <<varig, medlem, aktiv>>
       \/ /\ gammel.inn \notin {Ingen, InndataAv(x)}
          /\ Nei(x, "idempotenskonflikt")
       \/ /\ gammel.inn = InndataAv(x)
          /\ Nei(x, gammel.svar)

(* The scopes approve, reject and escalate: one role has them, and has all. *)
HarScope(roller) == "godkjenner" \in roller

(* FOR UPDATE, authorisation after the lock, the optimistic lock.          *)
Laas(x) ==
    LET roller == medlem[f[x].bruker] IN
    /\ f[x].pc = "nokkel"
    /\ \A y \in Forsp : ~HarSak(y)
    /\ \/ /\ ~HarScope(roller)
          /\ Nei(x, "scope_mangler")
       \/ /\ HarScope(roller)
          /\ f[x].versjon # sak.versjon
          /\ Nei(x, "saksversjon_utdatert")
       \/ /\ HarScope(roller)
          /\ f[x].versjon = sak.versjon
          /\ f' = [f EXCEPT ![x].pc = "laast", ![x].roller = roller]
          /\ UNCHANGED <<varig, medlem, aktiv>>

HarRolle(x, p) == KreverRolle[p] \in f[x].roller

(* Gate 14a: a no while a work capability or a verification order lives.   *)
FeilSperret(x) == FALSE
Sperret(x) == f[x].handling = "avvis" /\ oppdrag = "uloselig"

(* hent_aktiv, the business role and, for a rejection, what is outstanding *)
(* something live that cannot be dissolved blocks it, and the case is      *)
(* flagged once per outstanding state.                             *)
Vurder(x) ==
    /\ f[x].pc = "laast"
    /\ \/ /\ f[x].handling = "godkjenn" /\ ~HarRolle(x, aktiv)
          /\ Nei(x, "mangler_rolle")
       \/ /\ Sperret(x)
          /\ sak' = IF flagget = oppdrag THEN sak
                    ELSE [sak EXCEPT !.versjon = @ + 1]
          /\ flagget' = oppdrag
          /\ Fullfor(x, "utestaaende_oppdrag")
          /\ UNCHANGED <<oppdrag, runder, stemmer, utfall>>
       \/ /\ f[x].handling = "godkjenn" => HarRolle(x, aktiv)
          /\ ~Sperret(x)
          /\ f' = [f EXCEPT ![x].pc = "vurdert", ![x].policy = aktiv,
                            ![x].sett = oppdrag]
          /\ UNCHANGED <<varig, medlem, aktiv>>

Attestasjon(x, n) ==
    [runde |-> n, bruker |-> f[x].bruker, handling |-> f[x].handling,
     policy |-> f[x].policy,
     rolle |-> IF f[x].handling = "godkjenn" THEN KreverRolle[f[x].policy]
               ELSE CHOOSE r \in f[x].roller : TRUE,
     versjon |-> f[x].versjon, nokkel |-> f[x].nokkel]

Godkjennere(n, st) == {s \in st : s.runde = n /\ s.handling = "godkjenn"}
Terskel(p) == IF p \in Fire THEN 2 ELSE 1

(* A status the transaction passes through costs a version of its own:     *)
(* unntak_kolonnelaas counts every change.                                 *)
Til(status, hopp) == sak' = [status |-> status, versjon |-> sak.versjon + hopp]

(* opprett_godkjenningsrunde, when there is no active round.               *)
KanAapne(x) ==
    /\ sak.status = "manuell"
    /\ f[x].handling = "godkjenn" => f[x].policy \in Godkjennbar

(* The primary key of godkjenningsutfall: one outcome per frozen policy.    *)
Avgjort(rp) == \E u \in utfall : u.policy = rp

(* evaluate() with the human's approval: what the engine may answer.       *)
(* grunn is its verdict without the human: TILLAT, the code the round has  *)
(* bound, or another code; loft is its verdict once that code is lifted.   *)
FeilMotor(p, rp, rollene, grunn, loft) ==
    IF grunn = "annen" \/ (grunn = "bundet" /\ p \notin Godkjennbar)
    THEN [svar |-> "UNNTAK", loftet |-> FALSE]
    ELSE [svar |-> IF grunn = "tillat" \/ loft THEN "TILLAT" ELSE "UNNTAK",
          loftet |-> grunn # "tillat" /\ loft]
Motor(p, rp, rollene, grunn, loft) ==
    CASE grunn = "tillat" -> [svar |-> "TILLAT", loftet |-> FALSE]
      [] grunn # "tillat" /\ (rp # p \/ p \in MedMetadata) ->
            [svar |-> "policy_avvik", loftet |-> FALSE]
      [] grunn = "annen" /\ rp = p /\ p \notin MedMetadata ->
            [svar |-> "UNNTAK", loftet |-> FALSE]
      [] grunn = "bundet" /\ rp = p /\ p \notin MedMetadata ->
            IF p \notin Godkjennbar THEN [svar |-> "UNNTAK", loftet |-> FALSE]
            ELSE IF KreverRolle[p] \notin rollene
            THEN [svar |-> "rolle_mangler", loftet |-> FALSE]
            ELSE [svar |-> IF loft THEN "TILLAT" ELSE "UNNTAK", loftet |-> loft]
Sikkerhet == {"policy_avvik", "rolle_mangler"}

Attester(x, n, ny) ==
    /\ runder' = [runder EXCEPT ![n] =
                    [@ EXCEPT !.policy = ny.policy, !.status = ny.status]]
    /\ stemmer' = stemmer \cup {Attestasjon(x, n)}

(* avvis: the no and the dissolution of a live order are one commit; an    *)
(* order that was carried out meanwhile undoes everything, the key too.    *)
Avvis(x, n, rp, hopp) ==
    \/ /\ f[x].sett = "levende" /\ oppdrag = "utfort"
       /\ Nei(x, "oppdrag_utfort")
    \/ /\ ~(f[x].sett = "levende" /\ oppdrag = "utfort")
       /\ Attester(x, n, [policy |-> rp, status |-> "kansellert"])
       /\ Til("avvist", hopp + 1)
       /\ oppdrag' = IF oppdrag = "levende" THEN "kansellert" ELSE oppdrag
       /\ Fullfor(x, "avvist")
       /\ UNCHANGED <<flagget, utfall>>

FeilEskaler(x, n, rp, hopp) ==
    /\ Attester(x, n, [policy |-> rp, status |-> "apen"])
    /\ Til("manuell", hopp + 1)
    /\ Fullfor(x, "eskalert")
    /\ UNCHANGED <<flagget, oppdrag, utfall>>
Eskaler(x, n, rp, hopp) ==
    /\ Attester(x, n, [policy |-> rp, status |-> "kansellert"])
    /\ Til("manuell", hopp + 1)
    /\ Fullfor(x, "eskalert")
    /\ UNCHANGED <<flagget, oppdrag, utfall>>

(* godkjenn: below the threshold the vote waits; at it the engine decides, *)
(* the round is used and the outcome recorded.  A second outcome under the *)
(* same policy breaks the primary key and a security verdict is routed:    *)
(* both leave nothing behind.                                              *)
Godkjenn(x, n, rp, hopp) ==
    LET ja == Godkjennere(n, stemmer \cup {Attestasjon(x, n)})
        nok == Cardinality(ja) >= Terskel(f[x].policy) IN
    \/ /\ ~nok
       /\ Attester(x, n, [policy |-> rp, status |-> "apen"])
       /\ IF sak.status = "venter_andre_godkjenner" THEN UNCHANGED sak
          ELSE Til("venter_andre_godkjenner", hopp + 1)
       /\ Fullfor(x, "venter_andre_godkjenner")
       /\ UNCHANGED <<flagget, oppdrag, utfall>>
    \/ /\ nok
       /\ \E grunn \in {"tillat", "bundet", "annen"}, loft \in BOOLEAN :
            LET d == Motor(f[x].policy, rp, {s.rolle : s \in ja}, grunn, loft) IN
            \/ /\ Avgjort(rp)
               /\ Nei(x, "feil")
            \/ /\ ~Avgjort(rp)
               /\ d.svar \in Sikkerhet
               /\ Nei(x, d.svar)
            \/ /\ ~Avgjort(rp)
               /\ d.svar \notin Sikkerhet
               /\ Attester(x, n, [policy |-> rp, status |-> "brukt"])
               /\ Til(IF d.svar = "TILLAT" THEN "venter_utforelse" ELSE "manuell",
                      hopp + 2)
               /\ utfall' = utfall \cup
                    {[runde |-> n, policy |-> rp, under |-> f[x].policy,
                      svar |-> d.svar, loftet |-> d.loftet,
                      gyldige |-> \A s \in ja \ {Attestasjon(x, n)} :
                                     s.rolle \in medlem[s.bruker],
                      iTide |-> ~runder[n].utlopt]}
               /\ Fullfor(x, d.svar)
               /\ UNCHANGED <<flagget, oppdrag>>

IRundeN(x, n, rp, hopp) ==
    CASE f[x].handling = "avvis"    -> Avvis(x, n, rp, hopp)
      [] f[x].handling = "eskaler"  -> Eskaler(x, n, rp, hopp)
      [] f[x].handling = "godkjenn" -> Godkjenn(x, n, rp, hopp)

(* Step 7 and on: the round, the attestation, the handling, the commit.    *)
Avgjor(x) ==
    /\ f[x].pc = "vurdert"
    /\ \/ /\ Aktiv = {} /\ ~KanAapne(x)
          /\ Nei(x, IF sak.status # "manuell" THEN "runde_ulovlig_tilstand"
                    ELSE "godkjenn_utilgjengelig")
       \/ /\ Aktiv = {} /\ KanAapne(x)
          /\ IRundeN(x, NesteRunde, f[x].policy, 1)
       \/ \E n \in Aktiv :
            \/ /\ n \in f[x].utlopt
               /\ Nei(x, "runde_utlopt")
            \/ /\ n \notin f[x].utlopt
               /\ \E s \in stemmer : s.runde = n /\ s.bruker = f[x].bruker
               /\ Nei(x, "allerede_attestert")
            \/ /\ n \notin f[x].utlopt
               /\ \A s \in stemmer : s.runde = n => s.bruker # f[x].bruker
               /\ IRundeN(x, n, runder[n].policy, 0)

Forsok(x) == Krev(x) \/ Laas(x) \/ Vurder(x) \/ Avgjor(x)

Next ==
    \/ RollerEndres \/ PolicyAktiveres \/ RundeUtloper \/ OppdragSlutter
    \/ \E x \in Forsp : Send(x) \/ Forsok(x)

Spec == Init /\ [][Next]_vars

(* A request that has reached the server runs to its end: both locks are   *)
(* PostgreSQL's, whose waiters are served in turn.                         *)
FairSpec == Spec /\ \A x \in Forsp : SF_vars(Forsok(x))

(* Somebody who may do it keeps trying to reject the case with a new key,  *)
(* and keeps trying to approve it.                                         *)
Proever(b, h) == \E x \in Forsp :
    /\ Send(x) /\ HarScope(medlem[b])
    /\ f'[x].bruker = b /\ f'[x].handling = h
    /\ f'[x].versjon = sak.versjon /\ idem[f'[x].nokkel].inn = Ingen
UtholdendeSpec == FairSpec /\ \A b \in Bruker :
    SF_vars(Proever(b, "avvis")) /\ SF_vars(Proever(b, "godkjenn"))

-----------------------------------------------------------------------------
(* Properties.                                                             *)

Svar == {"utestaaende_oppdrag", "avvist", "eskalert",
         "venter_andre_godkjenner", "TILLAT", "UNNTAK"}
Rolle == UNION Rollesett
AlleInndata == Bruker \X Handling \X Nat

(* What each variable may hold.                                            *)
TypeOK ==
    /\ sak \in [status: {"manuell", "avvist", "venter_utforelse"} \cup IRunde,
                versjon: Nat]
    /\ flagget \in {Ingen, "uloselig"}
    /\ oppdrag \in Levende \cup {"ingen", "utfort", "kansellert"}
    /\ runder \in [Runde ->
          [status: {"ingen", "apen", "brukt", "kansellert"},
           policy: Policy \cup {Ingen}, utlopt: BOOLEAN]]
    /\ stemmer \subseteq [runde: Runde, bruker: Bruker, handling: Handling,
                          policy: Policy, rolle: Rolle, versjon: Nat,
                          nokkel: Nokkel]
    /\ utfall \subseteq [runde: Runde, policy: Policy, under: Policy,
                         svar: {"TILLAT", "UNNTAK"}, loftet: BOOLEAN,
                         gyldige: BOOLEAN, iTide: BOOLEAN]
    /\ idem \in [Nokkel -> [inn: AlleInndata \cup {Ingen}, svar: Svar \cup {Ingen}]]
    /\ logg \subseteq Nokkel
    /\ medlem \in [Bruker -> Rollesett]
    /\ aktiv \in Policy
    /\ f \in [Forsp ->
          [pc: {"ledig", "sendt", "nokkel", "laast", "vurdert"},
           bruker: Bruker \cup {Ingen}, handling: Handling \cup {Ingen},
           nokkel: Nokkel \cup {Ingen}, versjon: Nat, roller: SUBSET Rolle,
           policy: Policy \cup {Ingen},
           sett: Levende \cup {"ingen", "utfort", "kansellert", Ingen},
           utlopt: SUBSET Runde]]

(* An action lifted over the policy's no by humans was approved by as many *)
(* different people as the policy the round froze demands, each of whom    *)
(* voted in that round, under that very policy, in the role it requires,   *)
(* and the engine evaluated that policy and no other.  Policies are acti-  *)
(* vated and roles are moved between any two votes.                        *)
LoftetAvNok == \A u \in utfall : u.loftet =>
    LET ja == Godkjennere(u.runde, stemmer) IN
    /\ u.under = u.policy
    /\ u.policy = runder[u.runde].policy
    /\ Cardinality({s.bruker : s \in ja}) >= Terskel(u.policy)
    /\ \A s \in ja : s.policy = u.policy /\ s.rolle = KreverRolle[u.policy]

(* The case waits for approval exactly while a round is open, and an open  *)
(* round already has a vote: a round nobody voted in would hold the case   *)
(* without anyone having asked for it.  A used round and its outcome come  *)
(* together, one to a frozen policy, and a case is let through at most     *)
(* once, whatever was retried, raced or reopened.                          *)
RundeBaererSak ==
    /\ (sak.status \in IRunde) <=> (Aktiv # {})
    /\ Cardinality(Aktiv) <= 1
    /\ \A n \in Aktiv : Godkjennere(n, stemmer) # {}
    /\ \A n \in Runde : (runder[n].status = "brukt")
                         <=> (\E u \in utfall : u.runde = n)
    /\ Cardinality({u \in utfall : u.svar = "TILLAT"}) <= 1
    /\ \A u, v \in utfall : u.policy = v.policy => u = v

(* A rejected case has nothing left that could still be carried out, and   *)
(* no decision that lets it through, whatever came first.                  *)
NeiErNei == sak.status = "avvist" =>
    /\ oppdrag \notin Levende
    /\ \A u \in utfall : u.svar # "TILLAT"

(* A vote its caller may cast, in an open round and under the policy the   *)
(* round froze, is counted: nothing but the clock, another vote of the     *)
(* same person or an earlier outcome of that policy takes it away.         *)
StemmeTeller == [][
    \A x \in Forsp, n \in Aktiv :
        (/\ f[x].pc = "vurdert" /\ f'[x].pc = "ledig"
         /\ f[x].handling = "godkjenn" /\ f[x].policy = runder[n].policy
         /\ n \notin f[x].utlopt
         /\ \A u \in utfall : u.policy # f[x].policy)
        => \E s \in stemmer' : s.runde = n /\ s.bruker = f[x].bruker]_vars

(* The operation behind a key is done once, with one answer, for one       *)
(* input: the promise of table idempotens.                                 *)
Nokkelbok == INSTANCE Engangsnokkel WITH
    Inndata <- AlleInndata,
    Ubrukt <- Ingen,
    bundet <- [k \in Nokkel |-> idem[k].inn],
    svar <- [k \in Nokkel |-> idem[k].svar],
    virket <- logg
HolderNokkelloftet == Nokkelbok!Spec

(* Every request is answered: keys and the case are waited for in one      *)
(* order, so nobody waits on everybody.                                    *)
AlleFaarSvar == \A x \in Forsp : f[x].pc = "sendt" ~> f[x].pc = "ledig"

-----------------------------------------------------------------------------
(* What documents of the repository say, and the code does not do.         *)

(* At the last approval both users' membership and role are looked at      *)
(* again (PR-012, V8): the one who approved first still holds the role.    *)
AlleRevalidert == \A u \in utfall : u.loftet => u.gyldige

(* The expiry of both attestations is looked at under the same lock.       *)
IngenEtterUtlop == \A u \in utfall : u.loftet => u.iTide

(* An expired round is closed, so that the case is not frozen.             *)
UtloptRundeLukkes == \A n \in Runde :
    (n \in Aktiv /\ runder[n].utlopt) ~> n \notin Aktiv

(* A case that humans let through has been handed to the outbox.           *)
GodkjentErLevert == sak.status = "venter_utforelse" => oppdrag # "ingen"
=============================================================================
