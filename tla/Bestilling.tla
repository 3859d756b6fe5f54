----------------------------- MODULE Bestilling -----------------------------
(* A customer's order on its way in (core/api/bestilling.py): the client's *)
(* key is locked, an earlier answer is replayed, ports ask the registers,  *)
(* the decision endpoint decides and commits, and a transaction of its own *)
(* then places the order, binds the bundle it consumes and books the       *)
(* answer under the key.  A process may die between the two commits; the   *)
(* retry is to find the decision and complete it, not to take another.     *)
(*                                                                         *)
(* The decision endpoint is taken at its word (module Beslutning): one     *)
(* decision per key of its own, which carries the client's key and the     *)
(* intent.                                                                 *)
EXTENDS Naturals, Sequences, FiniteSets

CONSTANTS
    Foresp,       \* requests under way
    Nokkel,       \* the clients' keys
    Hensikt,      \* normalised intents: [type, maal, id]
    Maal,         \* what they are about: bundles, claims, host names ...
    Kontrakt,     \* payloads that meet the contract of their type (oppdragskontrakt)
    MaksDom,      \* bound: decisions
    MaksVersjon,  \* bound: changes of a register row
    Ingen

ASSUME BestillingAntatt ==
    /\ Hensikt \subseteq [type: {"evaluering", "register"}, maal: Maal, id: Nat]
    /\ Kontrakt \subseteq [hensikt: Hensikt, rad: Nat]
    /\ Ingen \notin Foresp \cup Nokkel
    /\ Nokkel \cap Maal = {}

VARIABLES
    reg,       \* reg[m]: what its register says of m, and the version of it
    claimbar,  \* a deployment of the owner module takes orders
    laas,      \* session locks: on a client key, and on a bundle
    dom,       \* committed decisions, in order (idempotens, revisjonslogg)
    oppdrag,   \* orders: the decision each rests on, and what it carries
    bok,       \* bestilling_idempotens
    f,         \* the requests
    svar,      \* the answer this very step gave, if it gave one
    avbrutt    \* decisions whose request died before it had placed the order

vars == <<reg, claimbar, laas, dom, oppdrag, bok, f, svar, avbrutt>>

Ledig == [steg |-> "ledig", nokkel |-> Ingen, hensikt |-> Ingen, kjent |-> FALSE,
          versjon |-> 0, dom |-> 0]

Init ==
    /\ reg = [m \in Maal |-> [st |-> "klar", versjon |-> 1]]
    /\ claimbar = TRUE
    /\ laas = [x \in Nokkel \cup Maal |-> Ingen]
    /\ dom = <<>> /\ oppdrag = {} /\ avbrutt = {}
    /\ bok = [n \in Nokkel |-> Ingen]
    /\ f = [r \in Foresp |-> Ledig] /\ svar = Ingen

-----------------------------------------------------------------------------
Maalet(r) == f[r].hensikt.maal
Evaluering(r) == f[r].hensikt.type = "evaluering"

(* Decisions under the client's key, whatever intent they were for; a      *)
(* request without a key has a random one that nobody meets again.         *)
Under(n) == IF n = Ingen THEN {} ELSE {d \in DOMAIN dom : dom[d].nokkel = n}
Tidligere(r) == Under(f[r].nokkel)
Eksakt(r) == {d \in Tidligere(r) : dom[d].hensikt = f[r].hensikt}

HarOppdrag(d) == \E o \in oppdrag : o.dom = d

Slipp(r) == laas' = [x \in DOMAIN laas |-> IF laas[x] = r THEN Ingen ELSE laas[x]]
Gitt(h, kode, d) == [nokkel |-> h.nokkel, hensikt |-> h.hensikt,
                     kjent |-> h.kjent, kode |-> kode, dom |-> d]
Svar(r, kode, d) ==
    /\ svar' = Gitt(f[r], kode, d)
    /\ f' = [f EXCEPT ![r] = Ledig]
    /\ Slipp(r)

-----------------------------------------------------------------------------
(* The request takes the lock on its key and, with it, reads the row that  *)
(* only its holder writes.                                                 *)
Sendt(n, i) == [Ledig EXCEPT !.steg = "port", !.nokkel = n, !.hensikt = i,
                            !.kjent = Under(n) # {}]
FeilNokkelOpptatt(n) == FALSE                     \* mutant: no lock on the key
NokkelOpptatt(n) == n # Ingen /\ laas[n] # Ingen

Opptatt(r, n, i) ==
    /\ f[r].steg = "ledig" /\ NokkelOpptatt(n)
    /\ svar' = Gitt(Sendt(n, i), "opptatt", 0)
    /\ UNCHANGED <<reg, claimbar, laas, dom, oppdrag, bok, f, avbrutt>>

Gjenspill(r, n, i) ==
    /\ f[r].steg = "ledig" /\ ~NokkelOpptatt(n)
    /\ n # Ingen /\ bok[n] # Ingen
    /\ svar' = IF bok[n].hensikt = i THEN Gitt(Sendt(n, i), "ok", bok[n].dom)
                                     ELSE Gitt(Sendt(n, i), "konflikt", 0)
    /\ UNCHANGED <<reg, claimbar, laas, dom, oppdrag, bok, f, avbrutt>>

Mottak(r, n, i) ==
    /\ f[r].steg = "ledig" /\ ~NokkelOpptatt(n)
    /\ n # Ingen => bok[n] = Ingen
    /\ f' = [f EXCEPT ![r] = Sendt(n, i)]
    /\ laas' = IF n = Ingen THEN laas ELSE [laas EXCEPT ![n] = r]
    /\ svar' = Ingen
    /\ UNCHANGED <<reg, claimbar, dom, oppdrag, bok, avbrutt>>

(* The ports.  An evaluation first looks for a decision under its key: one *)
(* that is taken passes every port, and one that is final (not a permit of *)
(* this very intent) needs no lock on the bundle either.  The other types  *)
(* meet their port, and the one on the module, decided or not.             *)
FeilGjenopprettbar(r) == Evaluering(r) /\ Eksakt(r) # {}   \* mutant: exact key only
Gjenopprettbar(r) == Evaluering(r) /\ Tidligere(r) # {}
Endelig(r) == /\ Gjenopprettbar(r)
              /\ \A d \in Eksakt(r) : dom[d].utfall # "TILLAT"
TarBunt(r) == Evaluering(r) /\ ~Endelig(r)
FeilBuntOpptatt(r) == FALSE                       \* mutant: no lock on the bundle
BuntOpptatt(r) == TarBunt(r) /\ laas[Maalet(r)] # Ingen
MaalKlart(r) == Gjenopprettbar(r) \/ reg[Maalet(r)].st = "klar"
ModulKlar(r) == Gjenopprettbar(r) \/ claimbar
Slipper(r) == f[r].steg = "port" /\ ~BuntOpptatt(r) /\ MaalKlart(r) /\ ModulKlar(r)

PortAvviser(r) ==
    /\ f[r].steg = "port"
    /\ \/ BuntOpptatt(r) /\ Svar(r, "inndata_opptatt", 0)
       \/ ~BuntOpptatt(r) /\ ~MaalKlart(r) /\ Svar(r, "ubrukelig", 0)
       \/ /\ ~BuntOpptatt(r) /\ MaalKlart(r) /\ ~ModulKlar(r)
          /\ Svar(r, "utilgjengelig", 0)
    /\ UNCHANGED <<reg, claimbar, dom, oppdrag, bok, avbrutt>>

LaasBunt(r) == laas' = IF TarBunt(r) THEN [laas EXCEPT ![Maalet(r)] = r] ELSE laas

(* A decision under the key for another intent is a conflict ...           *)
Konflikt(r) ==
    /\ Slipper(r) /\ Tidligere(r) # {} /\ Eksakt(r) = {}
    /\ Svar(r, "konflikt", 0)
    /\ UNCHANGED <<reg, claimbar, dom, oppdrag, bok, avbrutt>>

(* ... one for this intent is taken over as it stands, with what the port  *)
(* measured now ...                                                        *)
Gjenopprett(r) ==
    /\ Slipper(r)
    /\ \E d \in Eksakt(r) :
          f' = [f EXCEPT ![r].steg = "hale", ![r].dom = d,
                         ![r].versjon = reg[Maalet(r)].versjon]
    /\ LaasBunt(r)
    /\ svar' = Ingen
    /\ UNCHANGED <<reg, claimbar, dom, oppdrag, bok, avbrutt>>

(* ... and without one the request goes to the decision endpoint.          *)
TilBeslutning(r) ==
    /\ Slipper(r) /\ Tidligere(r) = {}
    /\ f' = [f EXCEPT ![r].steg = "dom", ![r].versjon = reg[Maalet(r)].versjon]
    /\ LaasBunt(r)
    /\ svar' = Ingen
    /\ UNCHANGED <<reg, claimbar, dom, oppdrag, bok, avbrutt>>

(* The decision is committed, with a place in the frequency window, before *)
(* anything of the order is written; or there is none (policy_ukjent, or   *)
(* an error of the endpoint).                                              *)
Behandle(r) ==
    /\ f[r].steg = "dom" /\ Len(dom) < MaksDom
    /\ \E u \in {"TILLAT", "NEI"} :
          dom' = Append(dom, [nokkel |-> f[r].nokkel, hensikt |-> f[r].hensikt,
                              utfall |-> u, versjon |-> f[r].versjon])
    /\ f' = [f EXCEPT ![r].steg = "hale", ![r].dom = Len(dom) + 1]
    /\ svar' = Ingen
    /\ UNCHANGED <<reg, claimbar, laas, oppdrag, bok, avbrutt>>

IngenDom(r) ==
    /\ f[r].steg = "dom" /\ Svar(r, "feil", 0)
    /\ UNCHANGED <<reg, claimbar, dom, oppdrag, bok, avbrutt>>

(* What an order carries: an evaluation's its body and a profile that only *)
(* grows, the others' what the register said of the row.                   *)
Nyttelast(i, v) == [hensikt |-> i, rad |-> IF i.type = "evaluering" THEN 0 ELSE v]

(* The tail, one transaction: the payload, which must meet its contract,   *)
(* the order with its bundle, the booked answer.  A bundle that cannot be  *)
(* bound takes the order with it.                                          *)
Skylder(r) == dom[f[r].dom].utfall = "TILLAT" /\ ~HarOppdrag(f[r].dom)
Bryter(r) == /\ dom[f[r].dom].utfall = "TILLAT"
             /\ Nyttelast(f[r].hensikt, f[r].versjon) \notin Kontrakt

Kontraktbrudd(r) ==
    /\ f[r].steg = "hale" /\ Bryter(r)
    /\ Svar(r, "feil", 0)
    /\ UNCHANGED <<reg, claimbar, dom, oppdrag, bok, avbrutt>>

Bokfor(r) ==
    /\ bok' = IF f[r].nokkel = Ingen \/ bok[f[r].nokkel] # Ingen THEN bok
              ELSE [bok EXCEPT ![f[r].nokkel] =
                      [hensikt |-> f[r].hensikt, dom |-> f[r].dom]]
    /\ Svar(r, "ok", f[r].dom)

UtenOppdrag(r) ==
    /\ f[r].steg = "hale" /\ ~Skylder(r) /\ ~Bryter(r)
    /\ Bokfor(r)
    /\ UNCHANGED <<reg, claimbar, dom, oppdrag, avbrutt>>

MedOppdrag(r) ==
    /\ f[r].steg = "hale" /\ Skylder(r) /\ ~Bryter(r)
    /\ Evaluering(r) => reg[Maalet(r)].st = "klar"
    /\ oppdrag' = oppdrag \cup {[dom |-> f[r].dom, hensikt |-> f[r].hensikt,
                                 versjon |-> f[r].versjon]}
    /\ reg' = IF Evaluering(r) THEN [reg EXCEPT ![Maalet(r)].st = "bundet"] ELSE reg
    /\ Bokfor(r)
    /\ UNCHANGED <<claimbar, dom, avbrutt>>

BuntUbrukelig(r) ==
    /\ f[r].steg = "hale" /\ Skylder(r) /\ ~Bryter(r)
    /\ Evaluering(r) /\ reg[Maalet(r)].st # "klar"
    /\ Svar(r, "ubrukelig", 0)
    /\ UNCHANGED <<reg, claimbar, dom, oppdrag, bok, avbrutt>>

(* The process dies or its database call fails: what is uncommitted is     *)
(* undone, and the session's locks go with the session.                    *)
Krasj(r) ==
    /\ f[r].steg # "ledig"
    /\ f' = [f EXCEPT ![r] = Ledig]
    /\ Slipp(r)
    /\ avbrutt' = IF f[r].steg = "hale" THEN avbrutt \cup {f[r].dom} ELSE avbrutt
    /\ svar' = Ingen
    /\ UNCHANGED <<reg, claimbar, dom, oppdrag, bok>>

-----------------------------------------------------------------------------
(* The world around: a bundle expires for good, another row changes, can   *)
(* no longer be ordered on, and can again; modules come and go.            *)
ErBunt(m) == \E i \in Hensikt : i.type = "evaluering" /\ i.maal = m

Utlop(m) ==
    /\ reg[m].st = "klar"
    /\ reg' = [reg EXCEPT ![m].st = "ute"]
    /\ svar' = Ingen
    /\ UNCHANGED <<claimbar, laas, dom, oppdrag, bok, f, avbrutt>>

Fornyes(m) ==
    /\ ~ErBunt(m) /\ reg[m].versjon < MaksVersjon
    /\ reg' = [reg EXCEPT ![m] = [st |-> "klar", versjon |-> @.versjon + 1]]
    /\ svar' = Ingen
    /\ UNCHANGED <<claimbar, laas, dom, oppdrag, bok, f, avbrutt>>

Modul ==
    /\ claimbar' = ~claimbar
    /\ svar' = Ingen
    /\ UNCHANGED <<reg, laas, dom, oppdrag, bok, f, avbrutt>>

Next ==
    \/ \E r \in Foresp :
          \/ \E n \in Nokkel \cup {Ingen}, i \in Hensikt :
                Opptatt(r, n, i) \/ Gjenspill(r, n, i) \/ Mottak(r, n, i)
          \/ PortAvviser(r) \/ Konflikt(r) \/ Gjenopprett(r) \/ TilBeslutning(r)
          \/ Behandle(r) \/ IngenDom(r)
          \/ Kontraktbrudd(r) \/ UtenOppdrag(r) \/ MedOppdrag(r) \/ BuntUbrukelig(r)
          \/ Krasj(r)
    \/ \E m \in Maal : Utlop(m) \/ Fornyes(m)
    \/ Modul

Spec == Init /\ [][Next]_vars

-----------------------------------------------------------------------------
(* Properties.                                                             *)

Steg == {"ledig", "port", "dom", "hale"}
Kode == {"ok", "konflikt", "opptatt", "inndata_opptatt", "ubrukelig",
         "utilgjengelig", "feil"}
Forespoersel == [steg: Steg, nokkel: Nokkel \cup {Ingen}, hensikt: Hensikt \cup {Ingen},
                 kjent: BOOLEAN, versjon: Nat, dom: Nat]

(* What each variable may hold.                                            *)
TypeOK ==
    /\ reg \in [Maal -> [st: {"klar", "ute", "bundet"}, versjon: Nat]]
    /\ claimbar \in BOOLEAN
    /\ laas \in [Nokkel \cup Maal -> Foresp \cup {Ingen}]
    /\ dom \in Seq([nokkel: Nokkel \cup {Ingen}, hensikt: Hensikt,
                    utfall: {"TILLAT", "NEI"}, versjon: Nat])
    /\ oppdrag \subseteq [dom: DOMAIN dom, hensikt: Hensikt, versjon: Nat]
    /\ bok \in [Nokkel -> [hensikt: Hensikt, dom: DOMAIN dom] \cup {Ingen}]
    /\ f \in [Foresp -> Forespoersel]
    /\ \A r \in Foresp : /\ f[r].steg # "ledig" => f[r].hensikt \in Hensikt
                         /\ f[r].steg = "hale" => f[r].dom \in DOMAIN dom
    /\ svar \in [nokkel: Nokkel \cup {Ingen}, hensikt: Hensikt, kjent: BOOLEAN,
                 kode: Kode, dom: Nat] \cup {Ingen}
    /\ avbrutt \subseteq DOMAIN dom

(* A client's key stands for one decision, whatever bodies come with it,   *)
(* at once or after a crash; and who is answered "ok" is answered with the *)
(* decision of the key and body sent, its order placed if it permits.      *)
Svarte(kode) == svar # Ingen /\ svar.kode = kode
EnDomPerNokkel ==
    /\ \A d, e \in DOMAIN dom :
          dom[d].nokkel = dom[e].nokkel /\ dom[d].nokkel # Ingen => d = e
    /\ Svarte("ok") =>
          LET d == dom[svar.dom] IN
          /\ d.nokkel = svar.nokkel /\ d.hensikt = svar.hensikt
          /\ d.utfall = "TILLAT" => HarOppdrag(svar.dom)

(* A permit burns a place in the window, so it gives an order: who loses   *)
(* the race for a bundle loses it before the decision.  Left without one   *)
(* are only those whose request died, those whose bundle expired between   *)
(* the port and the binding, and those that breach the contract with the   *)
(* very payload the decision was about.                                    *)
KontraktenBrytes(d) == Nyttelast(dom[d].hensikt, dom[d].versjon) \notin Kontrakt
KvotenGirJobb == \A d \in DOMAIN dom : dom[d].utfall = "TILLAT" =>
    \/ HarOppdrag(d) \/ d \in avbrutt \/ KontraktenBrytes(d)
    \/ \E r \in Foresp : f[r].steg = "hale" /\ f[r].dom = d
    \/ /\ dom[d].hensikt.type = "evaluering"
       /\ reg[dom[d].hensikt.maal].st = "ute"

(* Whoever comes with a key that was decided under before is answered from *)
(* that decision or told that somebody is at work on it: nothing that has  *)
(* changed since can be the answer, but for a permit whose bundle is gone; *)
(* one that breached its contract does so again.                           *)
Lovlige ==
    LET e == {d \in Under(svar.nokkel) : dom[d].hensikt = svar.hensikt} IN
    {"opptatt"} \cup
    (IF e = {} THEN {"konflikt"}
     ELSE IF \A d \in e : dom[d].utfall = "NEI" THEN {"ok"}
     ELSE {"ok", "inndata_opptatt"} \cup
          (IF /\ svar.hensikt.type = "evaluering"
              /\ reg[svar.hensikt.maal].st # "klar" /\ \A d \in e : ~HarOppdrag(d)
           THEN {"ubrukelig"} ELSE {}) \cup
          (IF \E d \in e : KontraktenBrytes(d) THEN {"feil"} ELSE {}))
DommenSvares ==
    svar # Ingen /\ svar.kjent /\ svar.hensikt.type = "evaluering"
        => svar.kode \in Lovlige

-----------------------------------------------------------------------------
(* What comments of the code say, and the code does not do.                *)

(* An order never becomes one that its decision has not weighed            *)
(* (kjernenokkel_for): it carries what the decision was about.             *)
OppdragetErDetBesluttede == \A o \in oppdrag :
    o.hensikt = dom[o.dom].hensikt /\ o.versjon = dom[o.dom].versjon

(* No state that can change comes in the way of the tail's completing an   *)
(* order that is decided (utfor_bestilling).                               *)
DommenSvaresAlltid == svar # Ingen /\ svar.kjent => svar.kode \in Lovlige
=============================================================================
