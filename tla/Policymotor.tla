---------------------------- MODULE Policymotor ----------------------------
(***************************************************************************)
(* The policy engine, M-1: a pure decision over a policy, an authenticated *)
(* context and an event (_evaluer), the one way a human may lift it        *)
(* (_anvend_menneskelig_godkjenning), the attestation gates in front of it *)
(* and the contract a policy meets before it is loaded or introduced       *)
(* (valider_policy, valider_ny_policy).                                    *)
(*                                                                         *)
(* A policy is seen as the fields that ONE of its actions meets; the       *)
(* action of the event is that one, or unknown to the policy.  Amounts are *)
(* natural numbers or Ugyldig (bool, float, negative, too precise); clock  *)
(* arithmetic, time zones and text are reduced to their verdicts.  An      *)
(* event is decided when it comes, and again when humans have approved it: *)
(* then from what the case has kept of it (bygg_handlingsintensjon).       *)
(*                                                                         *)
(* Names that an endpoint's module needs too carry Motor in them, so that  *)
(* one module can extend both (GodkjenningProofs does).                    *)
(***************************************************************************)
EXTENDS Naturals, Sequences

CONSTANTS
    Rollenavn, Valuta, Dataklasse, Verifikator,
    Vilkaar,         \* names of conditions
    Policyer,        \* BOUND: policies considered
    Hendelser,       \* BOUND: events considered
    BelopTak,        \* amounts with at most 18 digits (BELOP_MAKS_SIFRE) are below it
    Intet, Ugyldig

\* The reasons the engine stops on, in the order it looks for them.
Foerst == <<"uautentisert_kontekst", "ukjent_handling", "modus_alltid_stopp",
            "rolle_ikke_tillatt", "policy_belopsgrense_ugyldig", "belop_ugyldig",
            "belop_over_grense", "valuta_ikke_tillatt", "policy_tidssone_ugyldig",
            "tidspunkt_ugyldig_eller_naivt", "utenfor_tidsvindu",
            "frekvens_grupperingsverdi_mangler", "frekvensgrense_naadd",
            "dataklassifisering_mangler", "dataklassifisering_ubetrodd_kilde",
            "dataklasse_ikke_tillatt", "vilkaar">>

Loftbar == {"belop_over_grense", "valuta_ikke_tillatt"}
VedBrudd == {"unntakskoe", "stopp_og_varsle", "frys"}
Tid == {"inne", "ute", "naiv"}

Attest ==
    [verifikator: Verifikator, signert: BOOLEAN, bundet: BOOLEAN,
     ressurs: BOOLEAN,        \* attests the resource of the event
     utlopt: BOOLEAN, verdi: Nat \cup {Ugyldig}, resultat: BOOLEAN]

Overstyring ==
    [belop_maks: Nat \cup {Intet, Ugyldig}, valuta: Valuta \cup {Intet}]

Policyinnhold ==
    [kjent: BOOLEAN,          \* the action of the event is in the policy
     modus: {"auto", "auto_med_vilkaar", "alltid_stopp"},
     ved_brudd: VedBrudd, irreversibel: BOOLEAN,
     tillatt_for: SUBSET Rollenavn,
     belop_maks: Nat \cup {Intet, Ugyldig}, valuta: SUBSET Valuta,
     tidsvindu: {"uten", "vindu", "sone_ugyldig"},
     frekvens: Nat \cup {Intet}, dataklasser: SUBSET Dataklasse,
     vilkaar: Seq([navn: Vilkaar, verifikator: Verifikator,
                   min: Nat \cup {Intet}]),
     betrodd: SUBSET (Verifikator \X Vilkaar),
     godkjennbar: [Loftbar \cup {"annen_kode"} -> Overstyring \cup {Intet}],
     krever_rolle: Rollenavn, metadata: BOOLEAN]

Hendelse ==
    [autentisert: BOOLEAN, rolle: Rollenavn,
     belop: Nat \cup {Ugyldig}, valuta: Valuta,
     tidspunkt: Tid, gruppe: BOOLEAN, antall: Nat,
     dataklasser: SUBSET Dataklasse, betroddKilde: BOOLEAN,
     att: [Vilkaar -> Attest \cup {Intet}]]

MenneskeligGodkjenning ==
    [omSaken: BOOLEAN,        \* all six envelope fields equal the event's
     sammePolicy: BOOLEAN,    \* the round froze the content that is active now
     utlopt: BOOLEAN, roller: SUBSET Rollenavn]

ASSUME PolicyerAntatt  == Policyer \subseteq Policyinnhold
ASSUME HendelserAntatt == Hendelser \subseteq Hendelse
ASSUME BelopTakAntatt  == BelopTak \in Nat
ASSUME IntetAntatt     == /\ Intet # Ugyldig /\ {Intet, Ugyldig} \cap Nat = {}
                          /\ Intet \notin Valuta \cup Attest \cup Overstyring
                          /\ Intet \notin Policyinnhold \cup {"innforing", "lasting", "ingen"}

VARIABLES
    policy,     \* the row of policyer at hand
    kontrakt,   \* the strictest contract it was found to meet
    hendelse,   \* the event that came
    dom,        \* the Decision on it
    godkj,      \* the human approval of the case it became
    dom2        \* the Decision with that approval

motorvars == <<policy, kontrakt, hendelse, dom, godkj, dom2>>

-----------------------------------------------------------------------------
(* _evaluer.                                                               *)

(* A condition of the policy is met by an attestation of a verifier it     *)
(* trusts for it, on this resource, not expired, and high enough or true.  *)
VilkaarFeil(p, e, i) ==
    LET v == p.vilkaar[i]
        a == e.att[v.navn] IN
    CASE a = Intet -> "attestasjon_mangler"
      [] a # Intet /\ <<a.verifikator, v.navn>> \notin p.betrodd ->
            "verifikator_ikke_betrodd"
      [] a # Intet /\ <<a.verifikator, v.navn>> \in p.betrodd ->
            IF ~a.ressurs THEN "attestasjon_feil_ressurs"
            ELSE IF a.utlopt THEN "attestasjon_utlopt"
            ELSE IF v.min # Intet /\ a.verdi = Ugyldig
            THEN "attestasjon_verdi_ugyldig"
            ELSE IF v.min # Intet /\ a.verdi < v.min
            THEN "attestasjon_under_terskel"
            ELSE IF v.min = Intet /\ ~a.resultat
            THEN "attestasjon_negativ" ELSE "ok"
IkkeOppfylt(p, e) == {i \in DOMAIN p.vilkaar : VilkaarFeil(p, e, i) # "ok"}

(* The event breaks the control named k, the controls before it met.       *)
Brutt(k, p, e) ==
    CASE k = "uautentisert_kontekst" -> ~e.autentisert
      [] k = "ukjent_handling"       -> ~p.kjent
      [] k = "modus_alltid_stopp"    -> p.modus = "alltid_stopp"
      [] k = "rolle_ikke_tillatt"    -> e.rolle \notin p.tillatt_for
      [] k = "policy_belopsgrense_ugyldig" -> p.belop_maks = Ugyldig
      [] k = "belop_ugyldig"         -> p.belop_maks # Intet /\ e.belop = Ugyldig
      [] k = "belop_over_grense"     -> /\ p.belop_maks \in Nat /\ e.belop \in Nat
                                        /\ e.belop > p.belop_maks
      [] k = "valuta_ikke_tillatt"   -> p.valuta # {} /\ e.valuta \notin p.valuta
      [] k = "policy_tidssone_ugyldig" -> p.tidsvindu = "sone_ugyldig"
      [] k = "tidspunkt_ugyldig_eller_naivt" ->
            p.tidsvindu = "vindu" /\ e.tidspunkt = "naiv"
      [] k = "utenfor_tidsvindu"     -> p.tidsvindu = "vindu" /\ e.tidspunkt = "ute"
      [] k = "frekvens_grupperingsverdi_mangler" -> p.frekvens # Intet /\ ~e.gruppe
      [] k = "frekvensgrense_naadd"  -> p.frekvens # Intet /\ e.antall >= p.frekvens
      [] k = "dataklassifisering_mangler" -> p.dataklasser # {} /\ e.dataklasser = {}
      [] k = "dataklassifisering_ubetrodd_kilde" ->
            p.dataklasser # {} /\ ~e.betroddKilde
      [] k = "dataklasse_ikke_tillatt" ->
            p.dataklasser # {} /\ ~(e.dataklasser \subseteq p.dataklasser)
      [] k = "vilkaar"               -> IkkeOppfylt(p, e) # {}

Feil(p, e) == {n \in DOMAIN Foerst : Brutt(Foerst[n], p, e)}
Minst(S) == CHOOSE n \in S : \A m \in S : n <= m
Grunn(p, e) == Foerst[Minst(Feil(p, e))]

(* Breaches that are STOPP whatever the policy wants done on a breach.     *)
TvingStopp(p, e) ==
    \/ Grunn(p, e) \in {"uautentisert_kontekst", "policy_belopsgrense_ugyldig",
                        "policy_tidssone_ugyldig"}
    \/ /\ Grunn(p, e) = "vilkaar"
       /\ VilkaarFeil(p, e, Minst(IkkeOppfylt(p, e))) = "verifikator_ikke_betrodd"

(* brudd_utfall: what the action says shall be done on a breach.           *)
BruddUtfall(p) == IF p.ved_brudd = "unntakskoe" THEN "UNNTAK" ELSE "STOPP"

Dom(utfall, grunn, loftet, sikkerhet) ==
    [utfall |-> utfall, grunn |-> grunn, loftet |-> loftet, sikkerhet |-> sikkerhet]

Evaluer(p, e) ==
    IF Feil(p, e) = {} THEN Dom("TILLAT", "ok", FALSE, FALSE)
    ELSE Dom(IF Grunn(p, e) = "ukjent_handling" THEN "UNNTAK"
             ELSE IF TvingStopp(p, e) THEN "STOPP" ELSE BruddUtfall(p),
             Grunn(p, e), FALSE, FALSE)

-----------------------------------------------------------------------------
(* The human approval.                                                     *)

(* metadata never reaches the engine.                                      *)
Motorpolicy(p) == [p EXCEPT !.metadata = FALSE]

(* What the round froze the hash of: the whole content.                    *)
Frosset(p, g) == IF g.sammePolicy THEN p ELSE Intet

(* The bound of the approval, which the engine owns.                       *)
Innenfor(o, e) ==
    /\ o.valuta # Intet => e.valuta = o.valuta
    /\ o.belop_maks # Intet => /\ e.belop \in Nat /\ o.belop_maks \in Nat
                               /\ e.belop <= o.belop_maks

(* A bound that cannot be read is for the security queue; the currency is  *)
(* looked at first.                                                        *)
UgyldigGrense(o, e) == o.belop_maks = Ugyldig /\ o.valuta \in {Intet, e.valuta}

(* _loft_policy: the policy with exactly the control behind the code       *)
(* raised, where that control can be expressed as one.                     *)
KanLoftes(k, o) ==
    \/ k = "belop_over_grense" /\ o.belop_maks # Intet
    \/ k = "valuta_ikke_tillatt" /\ o.valuta # Intet
FeilLoftet(p, k, o) ==
    [p EXCEPT !.belop_maks = IF o.belop_maks = Intet THEN @ ELSE o.belop_maks,
              !.valuta = IF o.valuta = Intet THEN @ ELSE @ \cup {o.valuta}]
Loftet(p, k, o) ==
    IF k = "belop_over_grense" THEN [p EXCEPT !.belop_maks = o.belop_maks]
    ELSE [p EXCEPT !.valuta = @ \cup {o.valuta}]

(* The second pass; only a TILLAT bears the approval.                      *)
EtterLoft(nytt) == [nytt EXCEPT !.loftet = nytt.utfall = "TILLAT"]

(* _anvend_menneskelig_godkjenning: d is the ordinary verdict, k the code  *)
(* the case was stopped on, frosset the policy the round was opened under. *)
Anvend(p, e, g, frosset, k, d) ==
    LET o == p.godkjennbar[k] IN
    CASE d.utfall = "TILLAT" -> d
      [] d.utfall # "TILLAT" /\ ~g.omSaken ->
            Dom("STOPP", "godkjenning_feltavvik", FALSE, TRUE)
      [] d.utfall # "TILLAT" /\ g.omSaken /\ frosset # p ->
            Dom("STOPP", "godkjenning_policy_avvik", FALSE, TRUE)
      [] d.utfall # "TILLAT" /\ g.omSaken /\ frosset = p /\ g.utlopt ->
            Dom("STOPP", "godkjenning_utlopt", FALSE, FALSE)
      [] d.utfall # "TILLAT" /\ g.omSaken /\ frosset = p /\ ~g.utlopt ->
            IF k # d.grunn \/ o = Intet THEN d
            ELSE IF p.krever_rolle \notin g.roller
            THEN Dom("STOPP", "godkjenning_rolle_mangler", FALSE, TRUE)
            ELSE IF ~Innenfor(o, e)
            THEN Dom("STOPP", "godkjenning_over_maks", FALSE, UgyldigGrense(o, e))
            ELSE IF ~KanLoftes(k, o) THEN d
            ELSE EtterLoft(Evaluer(Loftet(p, k, o), e))

(* evaluate, without and with an approval.                                 *)
Evaluate(p, e) == Evaluer(Motorpolicy(p), e)
EvaluateMed(p, e, g, k) ==
    Anvend(Motorpolicy(p), e, g, Frosset(p, g), k, Evaluate(p, e))

(* bygg_handlingsintensjon and the event made of it: action, resource,     *)
(* amount, currency, time and data classes are kept, the role where the    *)
(* engine had found it allowed; attestations and the grouping value are    *)
(* not.                                                                    *)
RolleOk(p, e) == \A n \in Feil(p, e) : n > 4
Intensjon(p, e) ==
    [e EXCEPT !.autentisert = RolleOk(p, e), !.gruppe = FALSE,
              !.att = [v \in Vilkaar |-> Intet]]

(* kontroller_hendelse, then kontroller_binding, of EVERY attestation.     *)
Attestert(e) == {v \in Vilkaar : e.att[v] # Intet}
Portbrudd(e) ==
    CASE \E v \in Attestert(e) : ~e.att[v].signert -> "attestasjon_signatur_ugyldig"
      [] /\ \A v \in Attestert(e) : e.att[v].signert
         /\ \E v \in Attestert(e) : ~e.att[v].bundet \/ e.att[v].utlopt ->
            "attestasjon_feil_binding"
      [] \A v \in Attestert(e) : /\ e.att[v].signert /\ e.att[v].bundet
                                 /\ ~e.att[v].utlopt -> "ok"

-----------------------------------------------------------------------------
(* The contracts.                                                          *)

(* The action has a `grenser` that says something.                         *)
HarGrenser(p) ==
    p.belop_maks # Intet \/ p.valuta # {} \/ p.tidsvindu # "uten" \/ p.frekvens # Intet

(* _valider: JSON Schema and semantics, asked of every policy loaded.      *)
Lastbar(p) ==
    /\ p.belop_maks # Ugyldig /\ p.tidsvindu # "sone_ugyldig"
    /\ \A k \in DOMAIN p.godkjennbar : p.godkjennbar[k] # Intet =>
          /\ p.godkjennbar[k].belop_maks # Ugyldig
          /\ p.godkjennbar[k].belop_maks # Intet => p.godkjennbar[k].valuta # Intet
    /\ p.irreversibel => p.vilkaar # <<>> \/ (HarGrenser(p) /\ p.modus = "alltid_stopp")
    /\ \A i \in DOMAIN p.vilkaar :
          <<p.vilkaar[i].verifikator, p.vilkaar[i].navn>> \in p.betrodd
    /\ p.modus = "auto_med_vilkaar" => p.vilkaar # <<>>

(* _loftet_flytter_noe: there is a blocked outcome this entry moves.       *)
FeilFlytterNoe(p, k, o) ==
    /\ p.modus # "alltid_stopp" /\ p.tillatt_for # {}
    /\ k = "belop_over_grense" =>
          /\ p.belop_maks # Intet
          /\ o.belop_maks > p.belop_maks
    /\ k = "valuta_ikke_tillatt" => p.valuta # {} /\ o.valuta \notin p.valuta
FlytterNoe(p, k, o) ==
    /\ p.modus # "alltid_stopp" /\ p.tillatt_for # {}
    /\ k = "belop_over_grense" =>
          /\ p.belop_maks # Intet
          /\ o.belop_maks > p.belop_maks
          /\ p.valuta # {} /\ o.valuta # Intet => o.valuta \in p.valuta
    /\ k = "valuta_ikke_tillatt" => p.valuta # {} /\ o.valuta \notin p.valuta

(* _belopene_kan_baeres: every layer that measures an amount can carry it. *)
Baerbar(p) ==
    \A b \in {p.belop_maks} \cup
             {p.godkjennbar[k].belop_maks :
                k \in {k \in DOMAIN p.godkjennbar : p.godkjennbar[k] # Intet}} :
        b \in Nat => b < BelopTak

(* valider_ny_policy: what is asked of a policy on its way in, as well; of *)
(* the overrides by _overstyring_kan_anvendes.                             *)
Innforbar(p) ==
    /\ Lastbar(p) /\ Baerbar(p)
    /\ \A k \in DOMAIN p.godkjennbar :
          LET o == p.godkjennbar[k] IN
          o # Intet => k \in Loftbar /\ KanLoftes(k, o) /\ FlytterNoe(p, k, o)

-----------------------------------------------------------------------------
MotorInit ==
    /\ policy \in Policyer
    /\ kontrakt = Intet /\ hendelse = Intet /\ dom = Intet
    /\ godkj = Intet /\ dom2 = Intet

Valider ==
    /\ kontrakt = Intet
    /\ kontrakt' = IF Innforbar(policy) THEN "innforing"
                   ELSE IF Lastbar(policy) THEN "lasting" ELSE "ingen"
    /\ UNCHANGED <<policy, hendelse, dom, godkj, dom2>>

(* POST /v1/beslutning: the gates, a policy that loads, the engine.        *)
FraNettet(e) ==
    /\ kontrakt # Intet /\ dom = Intet
    /\ hendelse' = e
    /\ dom' = IF Portbrudd(e) # "ok"
              THEN Dom("STOPP", Portbrudd(e), FALSE, FALSE)
              ELSE IF kontrakt = "ingen"
              THEN Dom("STOPP", "policy_korrupt", FALSE, FALSE)
              ELSE Evaluate(policy, e)
    /\ UNCHANGED <<policy, kontrakt, godkj, dom2>>

(* The last approval of the case, whose (code, action) can be approved.    *)
FraMennesket(g) ==
    /\ dom # Intet /\ dom2 = Intet
    /\ dom.utfall # "TILLAT" /\ dom.grunn \in DOMAIN policy.godkjennbar
    /\ policy.godkjennbar[dom.grunn] # Intet
    /\ godkj' = g
    /\ dom2' = EvaluateMed(policy, Intensjon(policy, hendelse), g, dom.grunn)
    /\ UNCHANGED <<policy, kontrakt, hendelse, dom>>

MotorNext ==
    \/ Valider
    \/ \E e \in Hendelser : FraNettet(e)
    \/ \E g \in MenneskeligGodkjenning : FraMennesket(g)

MotorSpec == MotorInit /\ [][MotorNext]_motorvars

-----------------------------------------------------------------------------
(* Properties.                                                             *)

Grunner == {Foerst[n] : n \in DOMAIN Foerst} \cup
    {"ok", "policy_korrupt", "attestasjon_signatur_ugyldig",
     "attestasjon_feil_binding", "godkjenning_feltavvik", "godkjenning_policy_avvik",
     "godkjenning_utlopt", "godkjenning_rolle_mangler", "godkjenning_over_maks"}
Domstype == [utfall: {"TILLAT", "STOPP", "UNNTAK"}, grunn: Grunner,
             loftet: BOOLEAN, sikkerhet: BOOLEAN]

(* What each variable may hold; the approval is logged as used only when   *)
(* it was what let the action through.                                     *)
MotorTypeOK ==
    /\ policy \in Policyinnhold
    /\ kontrakt \in {Intet, "innforing", "lasting", "ingen"}
    /\ hendelse \in Hendelse \cup {Intet}
    /\ godkj \in MenneskeligGodkjenning \cup {Intet}
    /\ dom \in Domstype \cup {Intet} /\ dom2 \in Domstype \cup {Intet}
    /\ dom # Intet => ~dom.loftet
    /\ dom2 # Intet => (dom2.loftet <=> dom2.utfall = "TILLAT")

(* The reference: what a policy asks of an event, one entry per control,   *)
(* in no order and with no early return.                                   *)
Krav(p, e) ==
    [kontekst |-> e.autentisert, kjent |-> p.kjent,
     modus    |-> p.modus # "alltid_stopp",
     rolle    |-> e.rolle \in p.tillatt_for,
     belop    |-> p.belop_maks = Intet \/ (/\ p.belop_maks \in Nat /\ e.belop \in Nat
                                           /\ e.belop <= p.belop_maks),
     valuta   |-> p.valuta = {} \/ e.valuta \in p.valuta,
     tid      |-> p.tidsvindu = "uten"
                  \/ (p.tidsvindu = "vindu" /\ e.tidspunkt = "inne"),
     frekvens |-> p.frekvens = Intet \/ (e.gruppe /\ e.antall < p.frekvens),
     data     |-> p.dataklasser = {} \/
                  (/\ e.dataklasser # {} /\ e.dataklasser \subseteq p.dataklasser
                   /\ e.betroddKilde),
     vilkaar  |-> \A i \in DOMAIN p.vilkaar :
                    LET v == p.vilkaar[i]
                        a == e.att[v.navn] IN
                    /\ a # Intet
                    /\ <<a.verifikator, v.navn>> \in p.betrodd
                    /\ a.ressurs /\ ~a.utlopt
                    /\ IF v.min = Intet THEN a.resultat
                       ELSE a.verdi # Ugyldig /\ a.verdi >= v.min]

Lovlig(p, e) == LET k == Krav(p, e) IN \A n \in DOMAIN k : k[n]

(* Everything but the control the approval is for, and that one within     *)
(* what the policy lets people approve.                                    *)
LovligMed(p, e, kode, o) ==
    LET k == Krav(p, e)
        unntatt == IF kode = "belop_over_grense" THEN "belop" ELSE "valuta" IN
    /\ kode \in Loftbar /\ KanLoftes(kode, o)
    /\ ~k[unntatt]
    /\ \A n \in DOMAIN k \ {unntatt} : k[n]
    /\ Innenfor(o, e)

(* An action is let through exactly when every control of the policy is    *)
(* met and every attestation that came along is genuine; or when people    *)
(* with the role approved THIS case under THIS policy in time, and the     *)
(* only control unmet is the one they approved, within the approval's own  *)
(* bound.  The engine decides both by early returns and a second pass.  An *)
(* irreversible action is let through only with an attestation whose jti   *)
(* the caller consumes: without one it could be replayed; and an approval  *)
(* lets none through, since that path consumes no jti at all.              *)
TillatErLovlig ==
    /\ dom # Intet => (dom.utfall = "TILLAT" <=>
          /\ Portbrudd(hendelse) = "ok" /\ kontrakt # "ingen"
          /\ Lovlig(policy, hendelse))
    /\ dom2 # Intet => (dom2.utfall = "TILLAT" <=>
          LET e == Intensjon(policy, hendelse) IN
          /\ godkj.omSaken /\ godkj.sammePolicy /\ ~policy.metadata /\ ~godkj.utlopt
          /\ policy.krever_rolle \in godkj.roller
          /\ LovligMed(policy, e, dom.grunn, policy.godkjennbar[dom.grunn]))
    /\ policy.irreversibel =>
          /\ dom # Intet /\ dom.utfall = "TILLAT" => Attestert(hendelse) # {}
          /\ dom2 # Intet => dom2.utfall # "TILLAT"

(* There is an event that stops on the code, and that a flawless approval  *)
(* then lets through.                                                      *)
Anvendelig(p, k) == \E e \in Hendelser :
    /\ Evaluate(p, e).utfall # "TILLAT" /\ Evaluate(p, e).grunn = k
    /\ EvaluateMed(p, Intensjon(p, e),
          [omSaken |-> TRUE, sammePolicy |-> TRUE, utlopt |-> FALSE,
           roller |-> Rollenavn], k).utfall = "TILLAT"

(* The introduction contract turns away exactly the overrides that could   *)
(* never be applied, and the amounts no layer below can carry, for an      *)
(* action that is not limited by more than it measures: no conditions, no  *)
(* frequency, and policies without metadata.                               *)
EnkelOverstyringVirker ==
    (/\ kontrakt \in {"innforing", "lasting"} /\ dom = Intet
     /\ policy.kjent /\ policy.vilkaar = <<>> /\ policy.frekvens = Intet
     /\ ~policy.metadata)
    => (kontrakt = "innforing" <=>
          /\ Baerbar(policy)
          /\ \A k \in DOMAIN policy.godkjennbar :
                policy.godkjennbar[k] # Intet => Anvendelig(policy, k))

-----------------------------------------------------------------------------
(* What comments of the code say, and the code does not do.                *)

(* A policy that is let in has no override that can never work             *)
(* (_overstyring_kan_anvendes); one without metadata, whose hash agrees.   *)
OverstyringVirker ==
    (/\ kontrakt = "innforing" /\ dom = Intet
     /\ policy.kjent /\ ~policy.metadata) =>
        \A k \in DOMAIN policy.godkjennbar :
            policy.godkjennbar[k] # Intet => Anvendelig(policy, k)
=============================================================================
