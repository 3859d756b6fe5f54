------------------------------- MODULE M37Sak -------------------------------
(***************************************************************************)
(* The life of ONE exception case ("unntak") in the M-37 engine: workers   *)
(* claim it under a lease, plan a repair, ask the API for a policy         *)
(* decision with a single-use capability, place an order in the outbox,    *)
(* and owner modules answer with receipts.                                 *)
(*                                                                         *)
(* Everything that guards one case in the database is a variable here; the *)
(* workers are processes with a private, possibly stale, copy of what they *)
(* read.  One action is one committed transaction, except that planning    *)
(* reads (PlanLes) and writes in two steps, since nothing is locked in     *)
(* between, and the decision endpoint is three steps for the same reason.  *)
(*                                                                         *)
(* There is no clock.  A lease, a capability or a deadline runs out by an  *)
(* action of its own at any time; the predicate "> now()" of the SQL reads *)
(* the corresponding flag.  claim_id is fresh for every claim, so it is    *)
(* represented by the claim_generation it was drawn for; 0 is NULL.        *)
(* Two status names are spelt in ASCII: venter_utforelse and lost.         *)
(*                                                                         *)
(* A definition called Feil... is a faulty variant of the one after it.    *)
(* Nothing uses it; put in the place of its original it shows that a       *)
(* property notices the fault.                                             *)
(***************************************************************************)
EXTENDS Naturals, FiniteSets

CONSTANTS
    Arbeider,     \* worker processes
    Policy,       \* versions the tenant's policy may have
    Vilkaar,      \* conditions a policy can put on the case's action
    Handling,     \* actions that compensate (reverse) another action
    KravAv,       \* KravAv[p]: the conditions policy p puts on the action
    KompAv,       \* KompAv[p]: the action that policy p reverses it with
    MaksForsok,   \* least(maks_auto_forsok_snapshot, 3)
    Ingen         \* "no value"

ASSUME ForsokAntatt == MaksForsok \in Nat \ {0}
ASSUME KravAntatt   == KravAv \in [Policy -> SUBSET Vilkaar]
ASSUME KompAntatt   == KompAv \in [Policy -> Handling]
ASSUME IngenAntatt  == Ingen \notin Policy /\ Ingen \notin Arbeider

VARIABLES
    aktivPolicy,  \* the active policy
    sak,          \* the row of table unntak
    gener,        \* verifikasjonsgenerasjon: one row per round
    op,           \* reparasjonsoperasjoner: status per repair_operation_id
    oppdrag,      \* oppdrag: status per repair_operation_id (UNIQUE)
    frist,        \* which of an order's two deadlines have passed
    kap,          \* arbeidskapabiliteter: at most one per claim
    kall,         \* POST /v1/beslutning requests the API is working on
    beslutning,   \* idempotens + revisjonslogg, per idempotency key
    arb           \* the workers

vars == <<aktivPolicy, sak, gener, op, oppdrag, frist, kap, kall, beslutning, arb>>

Runde == 1..MaksForsok

-----------------------------------------------------------------------------
(* Identities.  The code hashes these components; a record keeps them      *)
(* apart exactly as an injective hash does.  No attempt counter and no     *)
(* claim is part of any of them.                                           *)

KompId(h)      == [slag |-> "kompensasjon", runde |-> 0, grunnlag |-> h]
Fase1Id(g, k)  == [slag |-> "fase1", runde |-> g, grunnlag |-> k]
Fase2Id(g, p)  == [slag |-> "fase2", runde |-> g, grunnlag |-> p]

KompRid  == {KompId(KompAv[p]) : p \in Policy}
Fase1Rid == {Fase1Id(g, KravAv[p]) : g \in Runde, p \in Policy}
Fase2Rid == {Fase2Id(g, p) : g \in Runde, p \in Policy}
ForretningsRid == KompRid \cup Fase2Rid
Rid == ForretningsRid \cup Fase1Rid

Vei == {"kompensasjon", "tofase", "lokal"}
Aapen == {"opprettet", "plukket"}          \* an order that can still be answered
Ledig == [pc |-> "ledig", claim |-> 0, fase |-> "ny", ver |-> 0,
          policy |-> Ingen, bevis |-> 0, rid |-> Ingen, svar |-> Ingen]
IngenRunde == [status |-> "ingen", krav |-> {}]

Init ==
    /\ aktivPolicy \in Policy
    /\ sak \in [vei: Vei, status: {"ny"}, claim: {0}, gen: {0}, lease: {FALSE},
                forsok: {0}, ver: {0}, krav: {{}}]
    /\ gener = [g \in Runde |-> IngenRunde]
    /\ op = [r \in Rid |-> "ingen"]
    /\ oppdrag = [r \in Rid |-> "ingen"]
    /\ frist = [r \in Rid |-> "apen"]
    /\ kap = {}
    /\ kall = {}
    /\ beslutning = [r \in Rid |-> "ingen"]
    /\ arb = [w \in Arbeider |-> Ledig]

-----------------------------------------------------------------------------
(* Claiming, and giving a claim back.                                      *)

FeilFencet(c) == sak.status = "under_behandling" /\ sak.lease

(* Four conjuncts fence every write on the case: claim_id, generation,     *)
(* status and a live lease.                                                *)
Fencet(c) ==
    /\ sak.claim = c
    /\ sak.gen = c
    /\ sak.status = "under_behandling"
    /\ sak.lease

Claimbar ==
    \/ sak.status = "ny" /\ sak.forsok < MaksForsok
    \/ sak.status \in {"verifikasjon_klar", "verifikasjon_retry_klar"}

FaseAv(status) ==
    CASE status = "verifikasjon_klar"       -> "fase2"
      [] status = "verifikasjon_retry_klar" -> "retry"
      [] OTHER                              -> "ny"

ClaimNesteSak(w) ==
    /\ arb[w].pc = "ledig"
    /\ Claimbar
    /\ sak' = [sak EXCEPT !.status = "under_behandling",
                          !.claim  = sak.gen + 1,
                          !.gen    = sak.gen + 1,
                          !.lease  = TRUE,
                          !.forsok = IF sak.status = "ny" THEN @ + 1 ELSE @]
    /\ arb' = [arb EXCEPT ![w] = [Ledig EXCEPT !.pc = "claimet",
                                               !.claim = sak.gen + 1,
                                               !.fase = FaseAv(sak.status),
                                               !.ver = sak.ver]]
    /\ UNCHANGED <<aktivPolicy, gener, op, oppdrag, frist, kap, kall, beslutning>>

(* A capability never outlives the lease it was issued under.              *)
Utlopte(c) == {[k EXCEPT !.utlopt = @ \/ k.claim = c] : k \in kap}

LeaseUtloper ==
    /\ sak.status = "under_behandling"
    /\ sak.lease
    /\ sak' = [sak EXCEPT !.lease = FALSE]
    /\ kap' = Utlopte(sak.claim)
    /\ UNCHANGED <<aktivPolicy, gener, op, oppdrag, frist, kall, beslutning, arb>>

KapabilitetUtloper ==
    \E k \in kap :
        /\ ~k.utlopt
        /\ kap' = Utlopte(k.claim)
        /\ UNCHANGED <<aktivPolicy, sak, gener, op, oppdrag, frist, kall,
                       beslutning, arb>>

FeilFrigiUtlopteClaims ==
    /\ sak.status = "under_behandling"
    /\ ~sak.lease
    /\ sak.forsok < MaksForsok
    /\ sak' = [sak EXCEPT !.status = "ny", !.claim = 0]
    /\ UNCHANGED <<aktivPolicy, gener, op, oppdrag, frist, kap, kall,
                   beslutning, arb>>

FrigiUtlopteClaims ==
    /\ sak.status = "under_behandling"
    /\ ~sak.lease
    /\ sak' = [sak EXCEPT !.status = "ny", !.claim = 0]
    /\ UNCHANGED <<aktivPolicy, gener, op, oppdrag, frist, kap, kall,
                   beslutning, arb>>

PolicyBytte ==
    /\ aktivPolicy' \in Policy \ {aktivPolicy}
    /\ UNCHANGED <<sak, gener, op, oppdrag, frist, kap, kall, beslutning, arb>>

-----------------------------------------------------------------------------
(* (b) Planning.  PlanLes is what the transaction reads without locking.   *)

FeilSistePositive ==
    LET pos == {g \in Runde : gener[g].status = "positiv"}
    IN  IF pos = {} THEN 0 ELSE CHOOSE g \in pos : \A h \in pos : g <= h

SistePositive ==
    LET pos == {g \in Runde : gener[g].status = "positiv"}
    IN  IF pos = {} THEN 0 ELSE CHOOSE g \in pos : \A h \in pos : h <= g

PlanLes(w) ==
    /\ arb[w].pc = "claimet"
    /\ arb' = [arb EXCEPT ![w].pc = "planlegger",
                          ![w].policy = aktivPolicy,
                          ![w].bevis = SistePositive]
    /\ UNCHANGED <<aktivPolicy, sak, gener, op, oppdrag, frist, kap, kall,
                   beslutning>>

(* Every fenced write that ends the worker's part of the case.             *)
Avgi(w, status) ==
    /\ Fencet(arb[w].claim)
    /\ sak' = [sak EXCEPT !.status = status]
    /\ arb' = [arb EXCEPT ![w] = Ledig]

(* The many reasons to hand the case to a human: no readable payload, no   *)
(* active policy, no handler, an irreversible action, a passed reversal    *)
(* deadline, no budget for another round, missing or unreadable proof,     *)
(* revoked authority.  Each is a condition on data the model leaves out.   *)
PlanManuell(w) ==
    /\ arb[w].pc = "planlegger"
    /\ Avgi(w, "manuell")
    /\ UNCHANGED <<aktivPolicy, gener, op, oppdrag, frist, kap, kall, beslutning>>

(* R2, the local check: the case is solved ...                             *)
PlanLost(w) ==
    /\ arb[w].pc = "planlegger"
    /\ sak.vei = "lokal"
    /\ Avgi(w, "lost")
    /\ UNCHANGED <<aktivPolicy, gener, op, oppdrag, frist, kap, kall, beslutning>>

(* ... or goes straight back to the queue: lease cut short, claim dropped. *)
PlanKo(w) ==
    /\ arb[w].pc = "planlegger"
    /\ sak.vei = "lokal"
    /\ Fencet(arb[w].claim)
    /\ sak' = [sak EXCEPT !.status = "ny", !.claim = 0, !.lease = FALSE]
    /\ arb' = [arb EXCEPT ![w] = Ledig]
    /\ UNCHANGED <<aktivPolicy, gener, op, oppdrag, frist, kap, kall, beslutning>>

(* _registrer_reparasjon, shared by every path: an active operation with   *)
(* another identity is superseded and its unclaimed order cancelled ...    *)
AktiveOp == {r \in Rid : op[r] = "aktiv"}

Blokkert(rid) ==
    \E r \in AktiveOp \ {rid} :
        \/ oppdrag[r] = "plukket"
        \/ oppdrag[r] = "utfort" /\ r \notin Fase1Rid

OpEtter(rid) ==
    [r \in Rid |-> IF r = rid THEN "aktiv"
                   ELSE IF op[r] = "aktiv" THEN "superseded" ELSE op[r]]

OppdragEtter(rid) ==
    [r \in Rid |-> IF r # rid /\ op[r] = "aktiv" /\ oppdrag[r] = "opprettet"
                   THEN "kansellert" ELSE oppdrag[r]]

(* ... and the INSERT fails on its primary key for an identity that was    *)
(* registered, and superseded, before.                                     *)
Registrerbar(rid) == op[rid] = "ingen" /\ ~Blokkert(rid)

KompPlan(w)  == KompId(KompAv[arb[w].policy])
Fase1Plan(w) == Fase1Id(sak.ver + 1, KravAv[arb[w].policy])
Fase2Plan(w) == Fase2Id(arb[w].bevis, arb[w].policy)

(* R1, phase 1: a new round, its operation, its order and the status, all  *)
(* in one transaction under the row lock start_verifikasjonsgenerasjon     *)
(* takes.  The case keeps the first set; the round stores the new plan's.  *)
StartFase1(w) ==
    LET k   == KravAv[arb[w].policy]
        g   == sak.ver + 1
        rid == Fase1Plan(w)
    IN
    /\ arb[w].pc = "planlegger"
    /\ sak.vei = "tofase"
    /\ arb[w].fase # "fase2"
    /\ k # {}
    /\ Fencet(arb[w].claim)
    /\ g <= MaksForsok
    /\ Registrerbar(rid)
    /\ gener' = [gener EXCEPT ![g] = [status |-> "aktiv", krav |-> k]]
    /\ op' = OpEtter(rid)
    /\ oppdrag' = [OppdragEtter(rid) EXCEPT ![rid] = "opprettet"]
    /\ sak' = [sak EXCEPT !.status = "venter_verifikasjon",
                          !.ver = g,
                          !.krav = IF @ = {} THEN k ELSE @]
    /\ arb' = [arb EXCEPT ![w] = Ledig]
    /\ UNCHANGED <<aktivPolicy, frist, kap, kall, beslutning>>

FeilFase2Retry(w) ==
    /\ arb[w].pc = "planlegger"
    /\ arb[w].fase = "fase2"
    /\ arb[w].bevis # 0
    /\ Avgi(w, IF arb[w].ver <= MaksForsok THEN "verifikasjon_retry_klar"
                                           ELSE "manuell")
    /\ UNCHANGED <<aktivPolicy, gener, op, oppdrag, frist, kap, kall, beslutning>>

(* Phase 2 gives up on the set: an expired proof, or a policy that now     *)
(* requires more.  The budget is judged on the worker's copy of the case.  *)
Fase2Retry(w) ==
    /\ arb[w].pc = "planlegger"
    /\ arb[w].fase = "fase2"
    /\ arb[w].bevis # 0
    /\ Avgi(w, IF arb[w].ver < MaksForsok THEN "verifikasjon_retry_klar"
                                          ELSE "manuell")
    /\ UNCHANGED <<aktivPolicy, gener, op, oppdrag, frist, kap, kall, beslutning>>

(* Phase 2 registers the decision it will ask for.  Every active operation *)
(* is superseded first, unconditionally; nothing here is fenced.           *)
Fase2Bygger(w) ==
    LET krav == KravAv[arb[w].policy]
        rid  == Fase2Plan(w)
    IN
    /\ arb[w].pc = "planlegger"
    /\ arb[w].fase = "fase2"
    /\ arb[w].bevis # 0
    /\ krav \subseteq sak.krav
    /\ krav # {}
    /\ op[rid] = "ingen"
    /\ op' = OpEtter(rid)
    /\ arb' = [arb EXCEPT ![w].pc = "planlagt", ![w].rid = rid]
    /\ UNCHANGED <<aktivPolicy, sak, gener, oppdrag, frist, kap, kall, beslutning>>

(* The compensation path registers its operation; nothing here is fenced.  *)
PlanKompensasjon(w) ==
    LET rid == KompPlan(w)
    IN
    /\ arb[w].pc = "planlegger"
    /\ sak.vei = "kompensasjon"
    /\ \/ /\ op[rid] = "aktiv"                      \* idempotent replay
          /\ UNCHANGED <<op, oppdrag>>
       \/ /\ Registrerbar(rid)
          /\ op' = OpEtter(rid)
          /\ oppdrag' = OppdragEtter(rid)
    /\ arb' = [arb EXCEPT ![w].pc = "planlagt", ![w].rid = rid]
    /\ UNCHANGED <<aktivPolicy, sak, gener, frist, kap, kall, beslutning>>

-----------------------------------------------------------------------------
(* The capability and the decision endpoint.                               *)

(* The database derives the operation from the case's active registration; *)
(* the worker's key is the one it planned.  The POST leaves at once.       *)
UtstedKapabilitet(w) ==
    /\ arb[w].pc = "planlagt"
    /\ Fencet(arb[w].claim)
    /\ \E r \in AktiveOp :
          kap' = kap \cup {[claim |-> arb[w].claim, rid |-> r,
                            status |-> "utstedt", utlopt |-> FALSE]}
    /\ kall' = kall \cup {[claim |-> arb[w].claim, nokkel |-> arb[w].rid,
                           steg |-> "sendt", iTide |-> FALSE]}
    /\ arb' = [arb EXCEPT ![w].pc = "venter"]
    /\ UNCHANGED <<aktivPolicy, sak, gener, op, oppdrag, frist, beslutning>>

Neste(k, steg, iTide) ==
    (kall \ {k}) \cup {[k EXCEPT !.steg = steg, !.iTide = iTide]}

SettKap(c, status) ==
    {[x EXCEPT !.status = IF x.claim = c THEN status ELSE @] : x \in kap}

FeilReserver(k) ==
    /\ k.steg = "sendt"
    /\ \E x \in kap : x.claim = k.claim /\ x.status = "utstedt" /\ ~x.utlopt
    /\ kap' = SettKap(k.claim, "brukt")
    /\ kall' = Neste(k, "reservert", FALSE)
    /\ UNCHANGED <<aktivPolicy, sak, gener, op, oppdrag, frist, beslutning, arb>>

(* Pre-auth, a transaction of its own: utstedt -> reservert.               *)
Reserver(k) ==
    /\ k.steg = "sendt"
    /\ \E x \in kap : x.claim = k.claim /\ x.status = "utstedt" /\ ~x.utlopt
    /\ kap' = SettKap(k.claim, "reservert")
    /\ kall' = Neste(k, "reservert", FALSE)
    /\ UNCHANGED <<aktivPolicy, sak, gener, op, oppdrag, frist, beslutning, arb>>

(* The start of the decision transaction: the capability is compared with  *)
(* the case, which is read and not locked.  now() is the start of the      *)
(* transaction, so this is also when the capability's expiry is measured.  *)
Revalider(k) ==
    /\ k.steg = "reservert"
    /\ Fencet(k.claim)
    /\ \E x \in kap :
          /\ x.claim = k.claim
          /\ x.rid = k.nokkel
          /\ kall' = Neste(k, "revalidert", ~x.utlopt)
    /\ UNCHANGED <<aktivPolicy, sak, gener, op, oppdrag, frist, kap, beslutning, arb>>

Besvar(k, b) ==
    /\ kall' = kall \ {k}
    /\ arb' = [w \in Arbeider |->
                 IF arb[w].pc = "venter" /\ arb[w].claim = k.claim
                 THEN [arb[w] EXCEPT !.pc = "svar", !.svar = b] ELSE arb[w]]

(* A key that is already settled is replayed, and burns no capability.     *)
Replay(k) ==
    /\ k.steg = "revalidert"
    /\ beslutning[k.nokkel] # "ingen"
    /\ Besvar(k, beslutning[k.nokkel])
    /\ UNCHANGED <<aktivPolicy, sak, gener, op, oppdrag, frist, kap, beslutning>>

FeilAvslutt(k) ==
    /\ k.steg = "revalidert"
    /\ k.iTide
    /\ \E x \in kap : x.claim = k.claim /\ x.status = "reservert"
    /\ \E b \in {"TILLAT", "NEKTET"} :
          /\ beslutning' = [beslutning EXCEPT ![k.nokkel] = b]
          /\ Besvar(k, b)
    /\ kap' = SettKap(k.claim, "brukt")
    /\ UNCHANGED <<aktivPolicy, sak, gener, op, oppdrag, frist>>

(* The decision, the settled key and the burnt capability: one commit.     *)
Avslutt(k) ==
    /\ k.steg = "revalidert"
    /\ k.iTide
    /\ beslutning[k.nokkel] = "ingen"
    /\ \E x \in kap : x.claim = k.claim /\ x.status = "reservert"
    /\ \E b \in {"TILLAT", "NEKTET"} :
          /\ beslutning' = [beslutning EXCEPT ![k.nokkel] = b]
          /\ Besvar(k, b)
    /\ kap' = SettKap(k.claim, "brukt")
    /\ UNCHANGED <<aktivPolicy, sak, gener, op, oppdrag, frist>>

(* Any refusal or error before the commit rolls everything back.           *)
Feilsvar(k) ==
    /\ Besvar(k, "FEIL")
    /\ UNCHANGED <<aktivPolicy, sak, gener, op, oppdrag, frist, kap, beslutning>>

API == \E k \in kall : \/ Reserver(k) \/ Revalider(k) \/ Replay(k)
                       \/ Avslutt(k) \/ Feilsvar(k)

-----------------------------------------------------------------------------
(* (c) Finishing, and losing, a case.                                      *)

FullforNektet(w) ==
    /\ arb[w].pc = "svar"
    /\ arb[w].svar # "TILLAT"
    /\ Avgi(w, "manuell")
    /\ UNCHANGED <<aktivPolicy, gener, op, oppdrag, frist, kap, kall, beslutning>>

FeilFullforOppdrag(w) ==
    /\ arb[w].pc = "svar"
    /\ arb[w].svar = "TILLAT"
    /\ oppdrag' = [oppdrag EXCEPT ![arb[w].rid] = "opprettet"]
    /\ sak' = [sak EXCEPT !.status = IF Fencet(arb[w].claim)
                                     THEN "venter_utforelse" ELSE @]
    /\ arb' = [arb EXCEPT ![w] = Ledig]
    /\ UNCHANGED <<aktivPolicy, gener, op, frist, kap, kall, beslutning>>

(* The order is placed unless one with this identity exists; it must have  *)
(* a committed decision to point at.  Order and status are one commit.     *)
FullforOppdrag(w) ==
    LET rid == arb[w].rid
    IN
    /\ arb[w].pc = "svar"
    /\ arb[w].svar = "TILLAT"
    /\ \/ oppdrag[rid] # "ingen" /\ UNCHANGED oppdrag
       \/ /\ oppdrag[rid] = "ingen"
          /\ beslutning[rid] = "TILLAT"
          /\ oppdrag' = [oppdrag EXCEPT ![rid] = "opprettet"]
    /\ Avgi(w, "venter_utforelse")
    /\ UNCHANGED <<aktivPolicy, gener, op, frist, kap, kall, beslutning>>

(* Leasetap: a fenced statement hits no row, or a registration is blocked  *)
(* by an order in progress; the transaction rolls back and the worker      *)
(* drops the case.                                                         *)
Leasetap(w) ==
    /\ \/ arb[w].pc \in {"planlegger", "planlagt", "svar"} /\ ~Fencet(arb[w].claim)
       \/ /\ arb[w].pc = "planlegger"
          /\ arb[w].fase # "fase2"
          /\ \/ sak.vei = "kompensasjon" /\ op[KompPlan(w)] # "aktiv" /\ Blokkert(KompPlan(w))
             \/ sak.vei = "tofase" /\ Blokkert(Fase1Plan(w))
    /\ arb' = [arb EXCEPT ![w] = Ledig]
    /\ UNCHANGED <<aktivPolicy, sak, gener, op, oppdrag, frist, kap, kall, beslutning>>

(* The process dies: killed, an HTTP timeout, a unique violation.  Its     *)
(* open transaction rolls back, its POST lives on, and a new process takes *)
(* its place.                                                              *)
Krasj(w) ==
    /\ arb[w].pc # "ledig"
    /\ arb' = [arb EXCEPT ![w] = Ledig]
    /\ UNCHANGED <<aktivPolicy, sak, gener, op, oppdrag, frist, kap, kall, beslutning>>

-----------------------------------------------------------------------------
(* Owner modules and verifiers, as this case sees them.                    *)

Plukk(r) ==
    /\ oppdrag[r] = "opprettet"
    /\ frist[r] = "apen"
    /\ oppdrag' = [oppdrag EXCEPT ![r] = "plukket"]
    /\ UNCHANGED <<aktivPolicy, sak, gener, op, frist, kap, kall, beslutning, arb>>

FristUtloper(r) ==
    /\ oppdrag[r] \in Aapen
    /\ \/ frist[r] = "apen" /\ frist' = [frist EXCEPT ![r] = "utforelse_ute"]
       \/ frist[r] = "utforelse_ute" /\ frist' = [frist EXCEPT ![r] = "evidens_ute"]
    /\ UNCHANGED <<aktivPolicy, sak, gener, op, oppdrag, kap, kall, beslutning, arb>>

FeilVerifKvittering(g) ==
    LET r == Fase1Id(g, gener[g].krav)
    IN
    /\ gener[g].status = "aktiv"
    /\ oppdrag[r] = "plukket"
    /\ frist[r] # "evidens_ute"
    /\ sak.status = "venter_verifikasjon"
    /\ \/ /\ gener' = [gener EXCEPT ![g].status = "positiv"]
          /\ sak' = [sak EXCEPT !.status = "verifikasjon_klar"]
       \/ /\ g < MaksForsok
          /\ sak' = [sak EXCEPT !.status = "verifikasjon_retry_klar"]
          /\ UNCHANGED gener
    /\ oppdrag' = [oppdrag EXCEPT ![r] = "utfort"]
    /\ UNCHANGED <<aktivPolicy, op, frist, kap, kall, beslutning, arb>>

(* registrer_verifikasjonsbevis, the accepting path.  The round is found   *)
(* through the order; the verifier delivers the set the order asked for,   *)
(* which must be exactly the set frozen on the case.  Everything else is   *)
(* answered avvist, idempotent or konflikt, and changes none of this.      *)
VerifKvittering(g) ==
    LET r == Fase1Id(g, gener[g].krav)
    IN
    /\ gener[g].status = "aktiv"
    /\ oppdrag[r] = "plukket"
    /\ frist[r] # "evidens_ute"
    /\ sak.status = "venter_verifikasjon"
    /\ gener[g].krav = sak.krav
    /\ \/ /\ gener' = [gener EXCEPT ![g].status = "positiv"]
          /\ sak' = [sak EXCEPT !.status = "verifikasjon_klar"]
       \/ /\ gener' = [gener EXCEPT ![g].status = "negativ"]
          /\ sak' = [sak EXCEPT !.status = IF g < MaksForsok
                                           THEN "verifikasjon_retry_klar"
                                           ELSE "manuell"]
       \/ /\ gener' = [gener EXCEPT ![g].status = "negativ"]   \* permanent
          /\ sak' = [sak EXCEPT !.status = "manuell"]
    /\ oppdrag' = [oppdrag EXCEPT ![r] = "utfort"]
    /\ UNCHANGED <<aktivPolicy, op, frist, kap, kall, beslutning, arb>>

(* The closing receipt of a business order.  (Late receipts are evidence   *)
(* only.)                                                                  *)
Kvittering(r) ==
    /\ r \in ForretningsRid
    /\ oppdrag[r] = "plukket"
    /\ frist[r] = "apen"
    /\ \E vellykket \in BOOLEAN :
          /\ oppdrag' = [oppdrag EXCEPT ![r] = IF vellykket THEN "utfort" ELSE "feilet"]
          /\ sak' = [sak EXCEPT !.status =
                        IF @ # "venter_utforelse" THEN @
                        ELSE IF vellykket THEN "lost" ELSE "manuell"]
    /\ UNCHANGED <<aktivPolicy, gener, op, frist, kap, kall, beslutning, arb>>

-----------------------------------------------------------------------------
Fremdrift(w) ==
    \/ ClaimNesteSak(w) \/ PlanLes(w) \/ PlanManuell(w) \/ PlanLost(w)
    \/ PlanKo(w) \/ StartFase1(w) \/ Fase2Retry(w) \/ Fase2Bygger(w)
    \/ PlanKompensasjon(w) \/ UtstedKapabilitet(w) \/ FullforNektet(w)
    \/ FullforOppdrag(w) \/ Leasetap(w)

Eiermodul == \/ \E r \in Rid : Plukk(r) \/ FristUtloper(r) \/ Kvittering(r)
             \/ \E g \in Runde : VerifKvittering(g)

Next ==
    \/ \E w \in Arbeider : Fremdrift(w) \/ Krasj(w)
    \/ API
    \/ Eiermodul
    \/ LeaseUtloper \/ KapabilitetUtloper \/ FrigiUtlopteClaims \/ PolicyBytte

Spec == Init /\ [][Next]_vars

(* Fairness.  Every worker process loops; a wait for the API ends, since   *)
(* the HTTP client times out; leases run out with time, and every pass of  *)
(* the loop releases the ones that have.  Nothing is assumed of the API,   *)
(* of the policy administrator or of the owner modules.                    *)
Tidsavbrudd(w) == arb[w].pc = "venter" /\ Krasj(w)

Rettferdig ==
    /\ \A w \in Arbeider : WF_vars(Fremdrift(w)) /\ WF_vars(Tidsavbrudd(w))
    /\ WF_vars(LeaseUtloper) /\ WF_vars(FrigiUtlopteClaims)
    /\ \A r \in Rid : WF_vars(FristUtloper(r))

RettferdigSpec == Spec /\ Rettferdig

-----------------------------------------------------------------------------
(* Properties.                                                             *)

Utfall == {"TILLAT", "NEKTET"}

SakType ==
    [vei: Vei,
     status: {"ny", "under_behandling", "venter_verifikasjon",
              "verifikasjon_klar", "verifikasjon_retry_klar",
              "venter_utforelse", "lost", "manuell"},
     claim: Nat, gen: Nat, lease: BOOLEAN,
     forsok: 0..MaksForsok, ver: 0..MaksForsok, krav: SUBSET Vilkaar]

RundeType == [status: {"ingen", "aktiv", "positiv", "negativ"}, krav: SUBSET Vilkaar]

KapType == [claim: Nat, rid: Rid, status: {"utstedt", "reservert", "brukt"},
            utlopt: BOOLEAN]

KallType == [claim: Nat, nokkel: Rid, steg: {"sendt", "reservert", "revalidert"},
             iTide: BOOLEAN]

ArbType ==
    [pc: {"ledig", "claimet", "planlegger", "planlagt", "venter", "svar"},
     claim: Nat, fase: {"ny", "retry", "fase2"}, ver: 0..MaksForsok,
     policy: Policy \cup {Ingen}, bevis: 0..MaksForsok, rid: Rid \cup {Ingen},
     svar: {Ingen, "FEIL"} \cup Utfall]

(* TypeOK: every variable keeps its shape; in particular no counter of the *)
(* case leaves its range.                                                  *)
TypeOK ==
    /\ aktivPolicy \in Policy
    /\ sak \in SakType
    /\ gener \in [Runde -> RundeType]
    /\ op \in [Rid -> {"ingen", "aktiv", "superseded"}]
    /\ oppdrag \in [Rid -> {"ingen", "opprettet", "plukket", "utfort",
                             "feilet", "kansellert"}]
    /\ frist \in [Rid -> {"apen", "utforelse_ute", "evidens_ute"}]
    /\ kap \subseteq KapType
    /\ kall \subseteq KallType
    /\ beslutning \in [Rid -> {"ingen"} \cup Utfall]
    /\ arb \in [Arbeider -> ArbType]

Forretningsoppdrag == {r \in ForretningsRid : oppdrag[r] # "ingen"}

(* HoyestEttOppdrag: whatever crashes, retries, policy changes and stale   *)
(* workers there are, a case gets at most one business order, only on an   *)
(* identity the decision endpoint answered TILLAT for.                     *)
HoyestEttOppdrag ==
    /\ \A r, s \in Forretningsoppdrag : r = s
    /\ \A r \in Forretningsoppdrag : beslutning[r] = "TILLAT"

(* OppdragPaaNyesteBevis: a phase-2 order rests on the newest round of the *)
(* case, and that round was positive: never on a proof from a round that a *)
(* later one has replaced.                                                 *)
OppdragPaaNyesteBevis ==
    \A r \in Forretningsoppdrag \cap Fase2Rid :
        r.runde = sak.ver /\ gener[r.runde].status = "positiv"

(* VentetRundeFinnes: the case waits for a verifier exactly while a round  *)
(* is open; it is the newest one, the only one, and its order is out.      *)
VentetRundeFinnes ==
    LET aapne == {g \in Runde : gener[g].status = "aktiv"}
    IN  /\ sak.status = "venter_verifikasjon" <=> aapne # {}
        /\ \A g \in aapne :
              g = sak.ver /\ oppdrag[Fase1Id(g, gener[g].krav)] \in Aapen

(* KlarHarBevis: a case offered for phase 2 has a positive newest round,   *)
(* over exactly the set frozen on the case.                                *)
KlarHarBevis ==
    sak.status = "verifikasjon_klar" =>
        sak.ver # 0 /\ gener[sak.ver] = [status |-> "positiv", krav |-> sak.krav]

(* RetryHarBudsjett: a case is queued for another round only if the budget *)
(* still has one, so that the retry cannot fail on the budget.             *)
RetryHarBudsjett ==
    sak.status = "verifikasjon_retry_klar" => sak.ver < MaksForsok

(* VentetOppdragFinnes: a case that waits for execution has an order that  *)
(* an owner module can still answer.                                       *)
VentetOppdragFinnes ==
    sak.status = "venter_utforelse" =>
        \E r \in ForretningsRid : oppdrag[r] \in Aapen

(* VentingHarSvar: whatever the case waits for can still answer it: the    *)
(* verifier's round is open and its order out, the owner's order is open.  *)
(* Neither a crash, a late receipt nor a stale worker parts the two.       *)
VentingHarSvar == VentetRundeFinnes /\ VentetOppdragFinnes

(* KoHarGrunnlag: a case queued for phase 2 or for another round has what  *)
(* the worker who claims it needs: the proof, or a round left to open.     *)
KoHarGrunnlag == KlarHarBevis /\ RetryHarBudsjett

(* BruktErBesluttet: a capability is burnt exactly when the decision it    *)
(* stands for is committed, and each decision burnt exactly one.           *)
BruktErBesluttet ==
    LET brukte == {k \in kap : k.status = "brukt"}
    IN  /\ \A k \in brukte : beslutning[k.rid] # "ingen"
        /\ \A r \in Rid : beslutning[r] # "ingen" => \E k \in brukte : k.rid = r
        /\ \A k, l \in brukte : k.rid = l.rid => k = l

(* EnAktivOperasjon: at most one repair operation of the case is active;   *)
(* the unique index en_aktiv_reparasjon_per_sak never has to refuse.       *)
EnAktivOperasjon == \A r, s \in AktiveOp : r = s

(* BareEierenAvslutter: a case leaves under_behandling, other than back to *)
(* the queue, only by a step of the worker that holds its current claim.   *)
EierenAvslutter ==
    sak.status = "under_behandling" /\ sak'.status \notin {"under_behandling", "ny"}
        => \E w \in Arbeider : /\ arb[w].claim = sak.claim
                               /\ arb[w].pc # "ledig" /\ arb'[w].pc = "ledig"

BareEierenAvslutter == [][EierenAvslutter]_vars

(* ForsteResultatVinner: what is terminal stays so.  A decided key keeps   *)
(* its answer, a closed round its result, a closed order its outcome, a    *)
(* superseded operation is never revived, and a solved case stays solved.  *)
UtfallStaar ==
    /\ \A r \in Rid :
          /\ beslutning[r] # "ingen" => beslutning'[r] = beslutning[r]
          /\ op[r] = "superseded" => op'[r] = "superseded"
          /\ oppdrag[r] \in {"utfort", "feilet", "kansellert"}
                 => oppdrag'[r] = oppdrag[r]
    /\ \A g \in Runde : gener[g].status \in {"positiv", "negativ"}
                           => gener'[g] = gener[g]
    /\ sak.status = "lost" => sak'.status = "lost"

ForsteResultatVinner == [][UtfallStaar]_vars

(* HolderOrdreloftet: seen as one order and its case, the engine does what *)
(* the outbox may expect (Reparasjonsordre): the treatment ends once, with *)
(* the order or without, and from then on only the owner moves the two;    *)
(* when the policies agree on the compensating action.                     *)
OrdrensStatus == IF Forretningsoppdrag = {} THEN "ingen"
                 ELSE oppdrag[CHOOSE r \in Forretningsoppdrag : TRUE]

SakForOrdren ==
    CASE sak.status = "venter_utforelse"      -> "venter"
      [] sak.status \in {"lost", "manuell"}   -> sak.status
      [] OTHER                                -> "behandles"

Ordre == INSTANCE Reparasjonsordre WITH sak <- SakForOrdren, oppdrag <- OrdrensStatus

HolderOrdreloftet == Ordre!Motorsiden

(* AutomatikkenEnder: under fairness the automatic treatment of a case     *)
(* comes to an end: from some time on no worker claims it again, whatever  *)
(* crashes, expiries, retries and negative receipts there were.            *)
AutomatikkenEnder ==
    <>[](sak.status \notin {"under_behandling", "verifikasjon_klar",
                            "verifikasjon_retry_klar"})

-----------------------------------------------------------------------------
(* What the documents say and the code does not do.                        *)

(* AldriStaaendeNy: a case whose attempts are used up is not left standing *)
(* in status ny, where no worker may claim it.                             *)
AldriStaaendeNy == sak.status = "ny" => sak.forsok < MaksForsok

(* SammeSettPaaNytt: a later round verifies exactly the set that was       *)
(* frozen on the case at the first one.                                    *)
SammeSettPaaNytt ==
    \A g \in Runde : gener[g].status # "ingen" => gener[g].krav = sak.krav

(* BareEierenKansellerer: a worker changes the case's orders only while it *)
(* holds the case's current claim under a live lease.                      *)
BareEierenKansellerer ==
    [][ \A r \in Rid :
          oppdrag[r] = "opprettet" /\ oppdrag'[r] = "kansellert"
          => \E w \in Arbeider : arb[w] # arb'[w] /\ Fencet(arb[w].claim) ]_vars

(* VerifikasjonTarSlutt: a case does not wait for a verifier for ever; an  *)
(* unanswered round runs out, and the case is retried or handed over.      *)
VerifikasjonTarSlutt ==
    sak.status = "venter_verifikasjon" ~> sak.status # "venter_verifikasjon"

=============================================================================
