--------------------------- MODULE Domenekontroll ---------------------------
(***************************************************************************)
(* Who controls one hostname: the tenants' rows in domenekontroll, the one *)
(* hostname_binding, the takeover case of the platform, the worker that    *)
(* looks up the challenges, the guard that looks for conflicts without a   *)
(* case, and the people who decide a takeover.  Every transition of rows,  *)
(* binding and case is one transaction under the hostname's advisory lock, *)
(* so one step; what is read before it may be stale when it comes.         *)
(*                                                                         *)
(* Left out: revalidation (it only stamps a time), wildcard scope, events  *)
(* and notices, the queue order between hostnames.  A rejecting vote       *)
(* decides at once, so only approving ones are kept.                       *)
(***************************************************************************)
EXTENDS Integers, FiniteSets

CONSTANTS Tenant,        \* tenants that may ask for the hostname
          Ingen,         \* no tenant, no page, no tuple
          Adjudikator,   \* members with the role domeneadjudikator
          Hos,           \* the tenant each of them is a member of
          Kvote,         \* bound: challenges each tenant issues
          MaksGen,       \* bound: generation of each tenant's row a recall may leave
          MaksAuthz      \* bound: changes of each membership

ASSUME Antakelser ==
    /\ Hos \in [Adjudikator -> Tenant] /\ Ingen \notin Tenant
    /\ Kvote \in [Tenant -> Nat] /\ MaksGen \in [Tenant -> Nat]
    /\ MaksAuthz \in [Adjudikator -> Nat]

VARIABLES
    rad,       \* domenekontroll: one row per tenant
    binding,   \* hostname_binding
    sak,       \* the takeover case last made (at most one is open)
    stemmer,   \* overtakelse_attestasjon, approvals
    medlem,    \* brukermedlemskap of the adjudicators
    oppslag,   \* what the worker's DNS lookup brought home, not yet written
    side,      \* the case page each adjudicator has before them
    vakt,      \* the tuple the guard has picked
    utstedt,   \* challenges issued to each tenant: each has a token of its own
    nei        \* ghost: refused, and no challenge issued to the tenant since

vars == <<rad, binding, sak, stemmer, medlem, oppslag, side, vakt, utstedt, nei>>

Status == {"ingen", "ventende", "verifisert", "avklaring_kreves", "utlopt", "tilbakekalt"}
Part == Tenant \cup {Ingen}
Konflikt == [utf: Tenant, tapt: Tenant, gen: Nat]
Rad == [st: Status, gen: Nat, mot: Part, utf: Nat, fersk: BOOLEAN]
Sak == [id: Nat, rev: Nat, apen: BOOLEAN, om: Konflikt \cup {Ingen}]
Side == [trinn: {"sett", "slaatt"}, id: Nat, rev: Nat, gen: Nat, om: Konflikt]

TypeOK ==
    /\ rad \in [Tenant -> Rad]
    /\ binding \in Part
    /\ sak \in Sak
    /\ stemmer \subseteq [av: Adjudikator, id: Nat, rev: Nat, authz: Nat, om: Konflikt]
    /\ medlem \in [Adjudikator -> [aktiv: BOOLEAN, authz: Nat]]
    /\ oppslag \in [Tenant -> Nat]
    /\ side \in [Adjudikator -> Side \cup {Ingen}]
    /\ vakt \in {Ingen} \cup [trinn: {"plukket", "sokt", "alarm"}, om: Konflikt]
    /\ utstedt \in [Tenant -> Nat]
    /\ nei \in [Tenant -> BOOLEAN]

Init ==
    /\ rad = [t \in Tenant |-> [st |-> "ingen", gen |-> 0, mot |-> Ingen,
                                utf |-> 0, fersk |-> FALSE]]
    /\ binding = Ingen
    /\ sak = [id |-> 0, rev |-> 0, apen |-> FALSE, om |-> Ingen]
    /\ stemmer = {} /\ vakt = Ingen
    /\ utstedt = [t \in Tenant |-> 0]
    /\ medlem = [a \in Adjudikator |-> [aktiv |-> TRUE, authz |-> 0]]
    /\ side = [a \in Adjudikator |-> Ingen]
    /\ oppslag = [t \in Tenant |-> 0] /\ nei = [t \in Tenant |-> FALSE]

Om(t, m, g) == [utf |-> t, tapt |-> m, gen |-> g]
OmRaden(t) == Om(t, rad[t].mot, rad[t].gen)
Avvist(r) == r.st = "tilbakekalt" /\ r.mot # Ingen
Aktiv(t) == {a \in Adjudikator : Hos[a] = t /\ medlem[a].aktiv}

(* The authorisation, or the wait for one, ends: the generation counts it. *)
Slutt(r, st) == [st |-> st, gen |-> r.gen + 1, mot |-> r.mot, utf |-> r.utf, fersk |-> FALSE]

FeilNektet(r) == Slutt(r, "tilbakekalt")

(* A refused challenger must publish a new challenge to come back.         *)
Nektet(r) == [Slutt(r, "tilbakekalt") EXCEPT !.utf = 0]

Vant(r) == [st |-> "verifisert", gen |-> r.gen + 1, mot |-> Ingen, utf |-> r.utf, fersk |-> TRUE]

(* The conflict names the opponent.                                        *)
Strid(r, m) == [st |-> "avklaring_kreves", gen |-> r.gen + 1, mot |-> m, utf |-> r.utf,
                fersk |-> FALSE]

(* The trigger on hostname_binding: whoever else waits for a decision has  *)
(* been passed over.                                                       *)
Forbigaatt(r, b) ==
    [t \in Tenant |-> IF r[t].st = "avklaring_kreves" /\ t # b THEN Nektet(r[t]) ELSE r[t]]

ForbigaattNaa(t, b) == rad[t].st = "avklaring_kreves" /\ t # b

FeilSikret(k) ==
    IF sak.apen THEN sak ELSE [id |-> sak.id + 1, rev |-> 0, apen |-> TRUE, om |-> k]

(* The open case follows the conflict: the same one is left alone, another *)
(* one revises it, and without an open case a new one is made.             *)
Sikret(k) ==
    CASE sak.apen /\ sak.om = k -> sak
      [] sak.apen /\ sak.om # k -> [id |-> sak.id, rev |-> sak.rev + 1, apen |-> TRUE, om |-> k]
      [] OTHER -> [id |-> sak.id + 1, rev |-> 0, apen |-> TRUE, om |-> k]

---------------------------------------------------------------------------
(* The customer issues a challenge: not while a takeover is being decided. *)
(* A lapsed verification is written down first; a row that ended is queued *)
(* again, but a refused one keeps its status, which is its fence.          *)
UtstedChallenge(t) ==
    LET r == rad[t]
        lapset == r.st = "verifisert" /\ ~r.fersk
        koes == lapset \/ r.st \in {"ingen", "utlopt"}
                       \/ (r.st = "tilbakekalt" /\ r.mot = Ingen)
    IN  /\ r.st # "avklaring_kreves"
        /\ utstedt[t] < Kvote[t]
        /\ utstedt' = [utstedt EXCEPT ![t] = @ + 1]
        /\ rad' = [rad EXCEPT ![t] =
             [st |-> IF koes THEN "ventende" ELSE r.st,
              gen |-> IF lapset THEN r.gen + 1 ELSE r.gen,
              mot |-> r.mot, utf |-> utstedt'[t], fersk |-> r.fersk]]
        /\ nei' = [nei EXCEPT ![t] = FALSE]
        /\ UNCHANGED <<binding, sak, stemmer, medlem, oppslag, side, vakt>>

ChallengeUtloper(t) ==
    /\ rad[t].utf # 0 /\ rad[t].st \in {"ventende", "tilbakekalt"}
    /\ rad' = [rad EXCEPT ![t].utf = 0]
    /\ UNCHANGED <<binding, sak, stemmer, medlem, oppslag, side, vakt, utstedt, nei>>

(* Ninety days pass.                                                       *)
VerifiseringUtloper(t) ==
    /\ rad[t].st = "verifisert" /\ rad[t].fersk
    /\ rad' = [rad EXCEPT ![t].fersk = FALSE]
    /\ UNCHANGED <<binding, sak, stemmer, medlem, oppslag, side, vakt, utstedt, nei>>

(* The worker picks waiting and refused rows and looks their names up; the *)
(* customer has published the challenge that the row now carries.          *)
Plukkbar(r) == (r.st = "ventende" \/ Avvist(r)) /\ r.utf # 0

SlaaOppTXT(t) ==
    /\ Plukkbar(rad[t]) /\ oppslag[t] = 0
    /\ oppslag' = [oppslag EXCEPT ![t] = rad[t].utf]
    /\ UNCHANGED <<rad, binding, sak, stemmer, medlem, side, vakt, utstedt, nei>>

(* bekreft_domenechallenge holds the answer against the challenge that the *)
(* row carries now.                                                        *)
Bevist(t) == Plukkbar(rad[t]) /\ oppslag[t] = rad[t].utf

BekreftNei(t) ==
    /\ oppslag[t] # 0 /\ ~Bevist(t)
    /\ oppslag' = [oppslag EXCEPT ![t] = 0]
    /\ UNCHANGED <<rad, binding, sak, stemmer, medlem, side, vakt, utstedt, nei>>

Bekreft(t) ==
    /\ oppslag[t] # 0 /\ Bevist(t)
    /\ oppslag' = [oppslag EXCEPT ![t] = 0]
    /\ UNCHANGED <<stemmer, medlem, side, vakt, utstedt>>

(* verifiser_domenekontroll: a refused challenger that still has the       *)
(* binding gets a new conflict with the same opponent.                     *)
MaaAvklares(t) == binding = t /\ Avvist(rad[t])

Reappliker(t) ==
    /\ Bekreft(t) /\ MaaAvklares(t)
    /\ rad' = [rad EXCEPT ![t] = Strid(@, @.mot)]
    /\ sak' = Sikret(Om(t, rad[t].mot, rad[t].gen + 1))
    /\ UNCHANGED <<binding, nei>>

(* Another tenant is authorised, or waits for a decision: it loses that,   *)
(* the binding moves, and the case names the new conflict.                 *)
Opptatt(e) == \/ rad[e].st = "verifisert" /\ rad[e].fersk
              \/ rad[e].st = "avklaring_kreves"

Fremmed(t) == binding \in Tenant \ {t}

Overta(t) ==
    /\ Bekreft(t) /\ Fremmed(t) /\ Opptatt(binding)
    /\ LET e == binding
           tatt == [rad EXCEPT ![t] = Strid(@, e),
                               ![e] = IF @.st = "verifisert"
                                      THEN Slutt(@, "tilbakekalt") ELSE @]
       IN  /\ rad' = Forbigaatt(tatt, t)
           /\ sak' = Sikret(Om(t, e, rad[t].gen + 1))
    /\ binding' = t
    /\ nei' = [u \in Tenant |-> nei[u] \/ ForbigaattNaa(u, t)]

(* Nobody is in the way: a verification that lapsed unnoticed is written   *)
(* down, and the tenant is authorised.                                     *)
VerifiserDirekte(t) ==
    /\ Bekreft(t) /\ ~MaaAvklares(t)
    /\ Fremmed(t) => ~Opptatt(binding)
    /\ LET r == [u \in Tenant |->
                   IF u = t THEN Vant(rad[u])
                   ELSE IF u = binding /\ rad[u].st = "verifisert"
                        THEN Slutt(rad[u], "utlopt") ELSE rad[u]]
       IN  rad' = Forbigaatt(r, t)
    /\ binding' = t
    /\ nei' = [u \in Tenant |-> nei[u] \/ ForbigaattNaa(u, t)]
    /\ UNCHANGED sak

(* An operator recalls a tenant's control, whatever state it is in.        *)
Tilbakekall(t) ==
    /\ rad[t].st \notin {"ingen", "tilbakekalt"} /\ rad[t].gen < MaksGen[t]
    /\ rad' = [rad EXCEPT ![t] = Slutt(@, "tilbakekalt")]
    /\ UNCHANGED <<binding, sak, stemmer, medlem, oppslag, side, vakt, utstedt, nei>>

---------------------------------------------------------------------------
(* An adjudicator of the challenger opens the page of the open case; later *)
(* a vote is sent with the revision of the page, and the server looks the  *)
(* case up before it takes the lock.                                       *)
LesSide(a) ==
    /\ side[a] = Ingen /\ sak.apen /\ sak.om.utf = Hos[a]
    /\ side' = [side EXCEPT ![a] = [trinn |-> "sett", id |-> sak.id,
                                    rev |-> sak.rev, gen |-> 0, om |-> sak.om]]
    /\ UNCHANGED <<rad, binding, sak, stemmer, medlem, oppslag, vakt, utstedt, nei>>

FeilSammeRevisjon(s) == TRUE

(* saksrevisjon: the page is of the conflict the case is about now.        *)
SammeRevisjon(s) == s.rev = sak.rev

SakenFinnes(a) ==
    side[a].id = sak.id /\ sak.om.utf = Hos[a] /\ SammeRevisjon(side[a])

(* The generation sent on is the one the case carries at the lookup.       *)
SlaaOppSak(a) ==
    LET s == side[a] IN
    /\ s # Ingen /\ s.trinn = "sett" /\ SakenFinnes(a)
    /\ side' = [side EXCEPT ![a] = [s EXCEPT !.trinn = "slaatt", !.gen = sak.om.gen]]
    /\ UNCHANGED <<rad, binding, sak, stemmer, medlem, oppslag, vakt, utstedt, nei>>

(* What the vote must find under the lock.                                 *)
StaarSomSett(a) ==
    LET t == Hos[a]
        s == side[a]
    IN  /\ s # Ingen /\ s.trinn = "slaatt" /\ s.id = sak.id
        /\ rad[t].st = "avklaring_kreves" /\ rad[t].gen = s.gen
        /\ sak.om.utf = t /\ sak.om.gen = s.gen
        /\ SammeRevisjon(s)

(* The primary key: one vote of an actor per revision of a case.           *)
HarStemt(a) == \E s \in stemmer : s.av = a /\ s.id = sak.id /\ s.rev = sak.rev

KanStemme(a) == StaarSomSett(a) /\ medlem[a].aktiv /\ ~HarStemt(a)

(* The answer is that the case has moved on; the page is loaded anew.      *)
LukkSide(a) ==
    /\ side[a] # Ingen
    /\ \/ side[a].trinn = "sett" /\ ~SakenFinnes(a)
       \/ side[a].trinn = "slaatt" /\ ~KanStemme(a)
    /\ side' = [side EXCEPT ![a] = Ingen]
    /\ UNCHANGED <<rad, binding, sak, stemmer, medlem, oppslag, vakt, utstedt, nei>>

(* Votes count while their voter is an active adjudicator on the version   *)
(* the vote was cast under.                                                *)
Teller(s) == medlem[s.av].aktiv /\ medlem[s.av].authz = s.authz

Tellende(ss) == {s \in ss : s.id = sak.id /\ s.rev = sak.rev /\ Teller(s)}

Godkjenn(a) ==
    LET t == Hos[a]
        min == [av |-> a, id |-> sak.id, rev |-> sak.rev,
                authz |-> medlem[a].authz, om |-> side[a].om]
    IN  /\ KanStemme(a)
        /\ stemmer' = stemmer \cup {min}
        /\ Cardinality(Tellende(stemmer')) >= 2 => binding = t
        /\ IF Cardinality(Tellende(stemmer')) >= 2
           THEN /\ rad' = [rad EXCEPT ![t] = Vant(@)]
                /\ sak' = [sak EXCEPT !.apen = FALSE]
           ELSE UNCHANGED <<rad, sak>>
        /\ side' = [side EXCEPT ![a] = Ingen]
        /\ UNCHANGED <<binding, medlem, oppslag, vakt, utstedt, nei>>

Avvis(a) ==
    LET t == Hos[a] IN
    /\ KanStemme(a)
    /\ rad' = [rad EXCEPT ![t] = Nektet(@)]
    /\ nei' = [nei EXCEPT ![t] = TRUE]
    /\ sak' = [sak EXCEPT !.apen = FALSE]
    /\ side' = [side EXCEPT ![a] = Ingen]
    /\ UNCHANGED <<binding, stemmer, medlem, oppslag, vakt, utstedt>>

EndreMedlem(a) ==
    /\ medlem[a].authz < MaksAuthz[a]
    /\ \E b \in BOOLEAN :
         medlem' = [medlem EXCEPT ![a] = [aktiv |-> b, authz |-> @.authz + 1]]
    /\ UNCHANGED <<rad, binding, sak, stemmer, oppslag, side, vakt, utstedt, nei>>

---------------------------------------------------------------------------
(* vokt_ventende: pick a conflict and commit; look for its case; only when *)
(* there is none, look again under the lock, and raise the alarm.          *)
HarSak(k) == sak.apen /\ sak.om = k

VaktPlukk(t) ==
    /\ vakt = Ingen /\ rad[t].st = "avklaring_kreves" /\ rad[t].mot # Ingen
    /\ vakt' = [trinn |-> "plukket", om |-> OmRaden(t)]
    /\ UNCHANGED <<rad, binding, sak, stemmer, medlem, oppslag, side, utstedt, nei>>

VaktSok ==
    /\ vakt # Ingen /\ vakt.trinn = "plukket"
    /\ vakt' = IF HarSak(vakt.om) THEN Ingen ELSE [vakt EXCEPT !.trinn = "sokt"]
    /\ UNCHANGED <<rad, binding, sak, stemmer, medlem, oppslag, side, utstedt, nei>>

FeilStrideStaar(k) == TRUE

(* Under the lock: the row still waits in the very conflict picked.        *)
StrideStaar(k) == rad[k.utf].st = "avklaring_kreves" /\ OmRaden(k.utf) = k

VaktBekreft ==
    /\ vakt # Ingen /\ vakt.trinn = "sokt"
    /\ vakt' = IF StrideStaar(vakt.om) /\ ~HarSak(vakt.om)
               THEN [vakt EXCEPT !.trinn = "alarm"] ELSE Ingen
    /\ UNCHANGED <<rad, binding, sak, stemmer, medlem, oppslag, side, utstedt, nei>>

Next ==
    \/ \E t \in Tenant :
          \/ UtstedChallenge(t) \/ ChallengeUtloper(t) \/ VerifiseringUtloper(t)
          \/ SlaaOppTXT(t) \/ BekreftNei(t)
          \/ Reappliker(t) \/ Overta(t) \/ VerifiserDirekte(t)
          \/ Tilbakekall(t) \/ VaktPlukk(t)
    \/ \E a \in Adjudikator :
          \/ LesSide(a) \/ SlaaOppSak(a) \/ LukkSide(a)
          \/ Godkjenn(a) \/ Avvis(a) \/ EndreMedlem(a)
    \/ VaktSok \/ VaktBekreft

Spec == Init /\ [][Next]_vars

---------------------------------------------------------------------------
(* Whoever is authorised, or waits for a decision, has the binding: so at  *)
(* most one tenant is either, and en_verifisert_per_hostname never bites.  *)
EierErBundet == \A t \in Tenant :
    rad[t].st \in {"verifisert", "avklaring_kreves"} => binding = t

(* The row that waits for a decision is the one the open case is about,    *)
(* party, opponent and generation, through every takeover and reapplication*)
(* (the deferred trigger domenekontroll_krev_sak never refuses a commit).  *)
KonfliktHarSak == \A t \in Tenant :
    rad[t].st = "avklaring_kreves" => HarSak(OmRaden(t))

(* Rows, binding and case agree about who is party to what.                *)
ParteneStemmer == EierErBundet /\ KonfliktHarSak

(* A conflict is decided in the challenger's favour only by two of its     *)
(* adjudicators, in the role now, who had this very conflict before them.  *)
ToSaKonflikten == [][
    \A t \in Tenant : rad[t].st = "avklaring_kreves" /\ rad'[t].st = "verifisert" =>
        \E s, u \in stemmer' :
            /\ s.av # u.av
            /\ {s.av, u.av} \subseteq Aktiv(t)
            /\ s.om = OmRaden(t) /\ u.om = OmRaden(t)
            /\ s.authz = medlem[s.av].authz /\ u.authz = medlem[u.av].authz]_vars

(* A refusal stands until the customer acts: a tenant that was refused or  *)
(* passed over comes back only by a challenge issued after it, whatever    *)
(* the zone still holds and the worker still has on its way.               *)
NeiStaar == [][
    \A t \in Tenant : rad[t].st = "tilbakekalt" /\ rad'[t].st \in {"avklaring_kreves", "verifisert"}
                        => ~nei[t]]_vars

(* The guard never cries for an operator: every conflict it names has had  *)
(* its case, or is over.                                                   *)
IngenFalskAlarm == vakt = Ingen \/ vakt.trinn # "alarm"

(* The documents say that a refused challenger's proof leads to a new      *)
(* decision, never to an authorisation.                                    *)
AvvistAldriVerifisert == [][
    \A t \in Tenant : Avvist(rad[t]) => rad'[t].st # "verifisert"]_vars

(* The documents say that an adjudicator who says no decides, whatever the *)
(* others said: among two who may act, one can still vote.                 *)
NeiVirker == \A t \in Tenant :
    rad[t].st = "avklaring_kreves" /\ Cardinality(Aktiv(t)) >= 2 =>
        \E a \in Aktiv(t) : ~HarStemt(a)
=============================================================================
