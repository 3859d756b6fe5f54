---------------------------- MODULE Policyadmin ----------------------------
(***************************************************************************)
(* How one policy of a tenant comes into force: api/policyadmin.py, with   *)
(* aktiver_policy (048), slett_ubrukt_policy (032) and the set-up path     *)
(* policyregister.registrer.                                               *)
(*                                                                         *)
(* Opening a round, attesting and deleting are several statements under    *)
(* READ COMMITTED.  What they have written is seen by nobody before the    *)
(* commit; between the statements others commit, as far as the draft's row *)
(* lock and the policy's advisory lock let them.  aktiver_policy reads the *)
(* anchor row under its lock and ends with the commit: one step, as are    *)
(* the operations on a draft alone.                                        *)
(*                                                                         *)
(* Statuses klar (round) and godkjent (draft) exist only inside            *)
(* aktiver_policy.  A hash is the content it is of.  The policy here has   *)
(* not decided anything: Beslutning has the deletion of one that may have. *)
(***************************************************************************)
EXTENDS Naturals, FiniteSets

CONSTANTS
    Bruker,
    Utkast,         \* ids of drafts, ordered as text is
    Forfatter,      \* [Utkast -> Bruker]
    Innhold,        \* documents: [ver, tekst]
    Forslag,        \* BOUND: [Utkast -> documents it may come to hold]
    Oppsett,        \* BOUND: documents a set-up may register
    Utvider,        \* pairs <<base, document>> that widen what is allowed
    Foresp,         \* concurrent requests
    MaksAuthz,      \* BOUND: no membership changes once one has so often
    MaksRunde,      \* BOUND: rounds of a draft
    Ingen           \* NULL; as a base, deny-all

ASSUME PolicyadminAntakelse ==
    /\ Utkast \subseteq Nat /\ Forfatter \in [Utkast -> Bruker]
    /\ \A i \in Innhold : i.ver \in Nat
    /\ Forslag \in [Utkast -> SUBSET Innhold] /\ Oppsett \subseteq Innhold
    /\ MaksAuthz \in Nat /\ MaksRunde \in Nat
    /\ Ingen \notin Innhold /\ Ingen \notin Nat

VARIABLES
    utkast,     \* policyutkast
    runde,      \* aktiveringsrunde with its attestations, the newest per draft
    baser,      \* base_policy_hash of all rounds
    rader,      \* policyer, its contents
    aktiv,      \* the active one, in policyer.aktiv and policy_hode alike
    styrt,      \* there is a row in policyaktivering
    medlem,     \* brukermedlemskap
    f,          \* requests that open a round or attest
    sletting    \* a request that deletes

vars == <<utkast, runde, baser, rader, aktiv, styrt, medlem, f, sletting>>

Uapnet == [nr |-> 0, status |-> "ingen", forfalt |-> FALSE, base |-> Ingen,
           innhold |-> Ingen, krav |-> 1, att |-> [b \in Bruker |-> Ingen]]
Ledig == [steg |-> "ledig", u |-> Ingen, b |-> Ingen, authz |-> 0, p |-> Ingen]
IngenSletting == [steg |-> "ledig", liste |-> {}, holder |-> {}, sett |-> Ingen]

Init ==
    /\ utkast = [u \in Utkast |-> [status |-> "ingen", innhold |-> Ingen]]
    /\ runde = [u \in Utkast |-> Uapnet]
    /\ baser = {} /\ rader = {} /\ aktiv = Ingen /\ styrt = FALSE
    /\ medlem = [b \in Bruker |-> [kan |-> TRUE, authz |-> 1]]
    /\ f = [r \in Foresp |-> Ledig]
    /\ sletting = IngenSletting

-----------------------------------------------------------------------------
(* Locks.                                                                  *)

(* The draft's row is nobody's.                                            *)
Ulaast(u) == /\ \A r \in Foresp : f[r].u # u
             /\ u \notin sletting.holder

(* _hode_aktiv_versjon takes the shared policy lock and keeps it; who      *)
(* waits for the exclusive one is in front of who comes later.             *)
FeilDeler(r) == f[r].steg = "fullfor"
Deler(r) == f[r].steg # "ledig"
KanDele == sletting.steg # "vent"

-----------------------------------------------------------------------------
(* Measures.                                                               *)

(* _krev_ny_versjon, and the same in aktiver_policy: the document's own    *)
(* version is free, and newer than the active one.                         *)
NyVersjon(i, p) == /\ \A c \in rader : c.ver # i.ver
                   /\ p # Ingen => i.ver > p.ver

(* _vurder: two for what widens, one for the rest.                         *)
Krav(base, i) == IF base = Ingen \/ <<base, i>> \in Utvider THEN 2 ELSE 1

Signert(att) == {b \in Bruker : att[b] # Ingen}
Terskel(u, att) == /\ Cardinality(Signert(att)) >= runde[u].krav
                   /\ Signert(att) # {Forfatter[u]}

(* _reautoriser_godkjennere: unchanged since each signed.                  *)
FortsattMed(att) == \A b \in Signert(att) :
    medlem[b].kan /\ medlem[b].authz = att[b]

Aapen(u) == runde[u].status = "apen"
Lukket(u) == [runde[u] EXCEPT !.status = IF runde[u].forfalt THEN "utlopt"
                                         ELSE "kansellert"]

-----------------------------------------------------------------------------
(* A draft alone.                                                          *)

OpprettUtkast(u, i) ==
    /\ utkast[u].status = "ingen"
    /\ utkast' = [utkast EXCEPT ![u] = [status |-> "utkast", innhold |-> i]]
    /\ UNCHANGED <<runde, baser, rader, aktiv, styrt, medlem, f, sletting>>

Rediger(u, i) ==
    /\ Ulaast(u) /\ utkast[u].status = "utkast"
    /\ utkast' = [utkast EXCEPT ![u].innhold = i]
    /\ UNCHANGED <<runde, baser, rader, aktiv, styrt, medlem, f, sletting>>

(* The content is frozen.                                                  *)
Valider(u) ==
    /\ Ulaast(u) /\ utkast[u].status = "utkast"
    /\ NyVersjon(utkast[u].innhold, aktiv)
    /\ utkast' = [utkast EXCEPT ![u].status = "validert"]
    /\ UNCHANGED <<runde, baser, rader, aktiv, styrt, medlem, f, sletting>>

(* _kanseller_levende_runde.                                               *)
TrekkRunde(u) == runde' = IF Aapen(u) THEN [runde EXCEPT ![u] = Lukket(u)]
                          ELSE runde

Gjenapne(u) ==
    /\ Ulaast(u) /\ utkast[u].status = "validert"
    /\ TrekkRunde(u)
    /\ utkast' = [utkast EXCEPT ![u].status = "utkast"]
    /\ UNCHANGED <<baser, rader, aktiv, styrt, medlem, f, sletting>>

Forkast(u) ==
    /\ Ulaast(u) /\ utkast[u].status \in {"utkast", "validert"}
    /\ TrekkRunde(u)
    /\ utkast' = [utkast EXCEPT ![u].status = "forkastet"]
    /\ UNCHANGED <<baser, rader, aktiv, styrt, medlem, f, sletting>>

-----------------------------------------------------------------------------
(* opprett_aktiveringsrunde.                                               *)

(* The draft's row, its round if any is past its time, the shared lock,    *)
(* the anchor row.                                                         *)
RundeLes(r, u) ==
    /\ f[r].steg = "ledig" /\ Ulaast(u) /\ KanDele
    /\ utkast[u].status = "validert" /\ runde[u].nr < MaksRunde
    /\ Aapen(u) => runde[u].forfalt
    /\ f' = [f EXCEPT ![r] = [Ledig EXCEPT !.steg = "runde", !.u = u, !.p = aktiv]]
    /\ UNCHANGED <<utkast, runde, baser, rader, aktiv, styrt, medlem, sletting>>

(* _krev_peker_synk reads the other half of the pointer, _krev_ny_versjon  *)
(* the versions, _base the document.                                       *)
RundeSjekk(r) ==
    /\ f[r].steg = "runde"
    /\ \/ /\ aktiv = f[r].p /\ NyVersjon(utkast[f[r].u].innhold, f[r].p)
          /\ f' = [f EXCEPT ![r].steg = "apne"]
       \/ /\ aktiv # f[r].p \/ ~NyVersjon(utkast[f[r].u].innhold, f[r].p)
          /\ f' = [f EXCEPT ![r] = Ledig]
    /\ UNCHANGED <<utkast, runde, baser, rader, aktiv, styrt, medlem, sletting>>

(* Everything that the approvers go by is frozen in the round.             *)
RundeSkriv(r) ==
    LET u == f[r].u  i == utkast[u].innhold IN
    /\ f[r].steg = "apne"
    /\ f' = [f EXCEPT ![r] = Ledig]
    /\ runde' = [runde EXCEPT ![u] =
          [nr |-> runde[u].nr + 1, status |-> "apen", forfalt |-> FALSE,
           base |-> f[r].p, innhold |-> i, krav |-> Krav(f[r].p, i),
           att |-> Uapnet.att]]
    /\ baser' = baser \cup {f[r].p}
    /\ UNCHANGED <<utkast, rader, aktiv, styrt, medlem, sletting>>

Forfall(u) ==
    /\ Aapen(u) /\ ~runde[u].forfalt
    /\ runde' = [runde EXCEPT ![u].forfalt = TRUE]
    /\ UNCHANGED <<utkast, baser, rader, aktiv, styrt, medlem, f, sletting>>

-----------------------------------------------------------------------------
(* attester_aktivering.                                                    *)

(* The draft's row, the caller's membership, the shared lock, the anchor   *)
(* row, the round, in time by the request's own clock.                     *)
AttesterLes(r, u, b) ==
    /\ f[r].steg = "ledig" /\ Ulaast(u) /\ KanDele
    /\ utkast[u].status = "validert" /\ medlem[b].kan
    /\ Aapen(u) /\ ~runde[u].forfalt
    /\ f' = [f EXCEPT ![r] = [steg |-> "attest", u |-> u, b |-> b,
                              authz |-> medlem[b].authz, p |-> aktiv]]
    /\ UNCHANGED <<utkast, runde, baser, rader, aktiv, styrt, medlem, sletting>>

(* The round's attestations with the caller's: one each, which who has     *)
(* signed keeps.                                                           *)
MedMin(r) == LET att == runde[f[r].u].att IN
    IF att[f[r].b] = Ingen THEN [att EXCEPT ![f[r].b] = f[r].authz] ELSE att
Dublett(r) == LET u == f[r].u IN
    runde[u].att[f[r].b] # Ingen /\ ~Terskel(u, runde[u].att)

(* A document that cannot be stored closes the round, the other refusals   *)
(* roll back; a signature below the threshold is committed and waits.      *)
AttesterSkriv(r) ==
    LET u == f[r].u
        kan == NyVersjon(utkast[u].innhold, f[r].p) IN
    /\ f[r].steg = "attest"
    /\ \/ /\ aktiv # f[r].p \/ (kan /\ Dublett(r))
          /\ f' = [f EXCEPT ![r] = Ledig] /\ UNCHANGED runde
       \/ /\ aktiv = f[r].p /\ ~kan
          /\ f' = [f EXCEPT ![r] = Ledig]
          /\ runde' = [runde EXCEPT ![u].status = "kansellert"]
       \/ /\ aktiv = f[r].p /\ kan /\ ~Dublett(r) /\ ~Terskel(u, MedMin(r))
          /\ f' = [f EXCEPT ![r] = Ledig]
          /\ runde' = [runde EXCEPT ![u].att = MedMin(r)]
       \/ /\ aktiv = f[r].p /\ kan /\ ~Dublett(r) /\ Terskel(u, MedMin(r))
          /\ f' = [f EXCEPT ![r].steg = "fullfor"] /\ UNCHANGED runde
    /\ UNCHANGED <<utkast, baser, rader, aktiv, styrt, medlem, sletting>>

(* The recomputation against the base that was read: the same diff.        *)
FeilSammeDiff(r) == TRUE
SammeDiff(r) == LET u == f[r].u IN
    f[r].p = runde[u].base /\ utkast[u].innhold = runde[u].innhold

(* At the threshold: every approver again, the diff again, aktiver_policy. *)
(* Somebody no longer authorised, or a pointer that has moved under the    *)
(* request, rolls back, with the signature; another diff, or a version     *)
(* taken, closes the round.                                                *)
AttesterFullfor(r) ==
    LET u == f[r].u  i == utkast[u].innhold IN
    /\ f[r].steg = "fullfor"
    /\ f' = [f EXCEPT ![r] = Ledig]
    /\ \/ /\ ~FortsattMed(MedMin(r)) \/ (SammeDiff(r) /\ aktiv # f[r].p)
          /\ UNCHANGED <<utkast, runde, rader, aktiv, styrt>>
       \/ /\ FortsattMed(MedMin(r))
          /\ ~SammeDiff(r) \/ (aktiv = f[r].p /\ ~NyVersjon(i, aktiv))
          /\ runde' = [runde EXCEPT ![u].status = "kansellert",
                                    ![u].att = MedMin(r)]
          /\ UNCHANGED <<utkast, rader, aktiv, styrt>>
       \/ /\ FortsattMed(MedMin(r)) /\ SammeDiff(r)
          /\ aktiv = f[r].p /\ NyVersjon(i, aktiv)
          /\ rader' = rader \cup {i} /\ aktiv' = i /\ styrt' = TRUE
          /\ runde' = [runde EXCEPT ![u].status = "brukt", ![u].att = MedMin(r)]
          /\ utkast' = [utkast EXCEPT ![u].status = "aktivert"]
    /\ UNCHANGED <<baser, medlem, sletting>>

(* A lost connection or a crash: rolled back.                              *)
Feil(r) ==
    /\ f[r].steg # "ledig"
    /\ f' = [f EXCEPT ![r] = Ledig]
    /\ UNCHANGED <<utkast, runde, baser, rader, aktiv, styrt, medlem, sletting>>

-----------------------------------------------------------------------------
(* slett_policy.                                                           *)

(* Which drafts have a round, and what the operator saw in force.          *)
SlettStart(c) ==
    /\ sletting.steg = "ledig" /\ c \in rader
    /\ sletting' = [steg |-> "rydd", sett |-> c, holder |-> {},
                    liste |-> {u \in Utkast : Aapen(u)}]
    /\ UNCHANGED <<utkast, runde, baser, rader, aktiv, styrt, medlem, f>>

(* Their rows, in order.                                                   *)
SlettLaas(u) ==
    /\ sletting.steg = "rydd"
    /\ u \in sletting.liste /\ \A v \in sletting.liste : u <= v
    /\ Ulaast(u)
    /\ sletting' = [sletting EXCEPT !.liste = @ \ {u}, !.holder = @ \cup {u}]
    /\ UNCHANGED <<utkast, runde, baser, rader, aktiv, styrt, medlem, f>>

SlettVent ==
    /\ sletting.steg = "rydd" /\ sletting.liste = {}
    /\ sletting' = [sletting EXCEPT !.steg = "vent"]
    /\ UNCHANGED <<utkast, runde, baser, rader, aktiv, styrt, medlem, f>>

(* Under the exclusive lock: what was seen is in force, and no other round *)
(* is open.  Bases of rounds stay, out of force.                           *)
KanSlettes == /\ aktiv = sletting.sett
              /\ \A u \in Utkast \ sletting.holder : ~Aapen(u)
Slett ==
    /\ sletting.steg = "vent" /\ \A r \in Foresp : ~Deler(r)
    /\ sletting' = IngenSletting
    /\ \/ /\ KanSlettes
          /\ aktiv' = Ingen /\ rader' = rader \cap baser
          /\ runde' = [u \in Utkast |->
                IF u \in sletting.holder /\ Aapen(u) THEN Lukket(u) ELSE runde[u]]
       \/ ~KanSlettes /\ UNCHANGED <<aktiv, rader, runde>>
    /\ UNCHANGED <<utkast, baser, styrt, medlem, f>>

-----------------------------------------------------------------------------
(* registrer with aktiver=True: closed for good by the first activation    *)
(* through a round, and never changes a document that has been in force.   *)
Registrer(i) ==
    /\ KanDele /\ ~styrt /\ aktiv # i
    /\ \A c \in rader : c.ver = i.ver => c = i
    /\ rader' = rader \cup {i} /\ aktiv' = i
    /\ UNCHANGED <<utkast, runde, baser, styrt, medlem, f, sletting>>

(* Roles are given and taken; the trigger counts the changes.              *)
EndreMedlem(b) ==
    /\ \A c \in Bruker : medlem[c].authz <= MaksAuthz
    /\ medlem' = [medlem EXCEPT ![b] = [kan |-> ~@.kan, authz |-> @.authz + 1]]
    /\ UNCHANGED <<utkast, runde, baser, rader, aktiv, styrt, f, sletting>>

Next ==
    \/ \E u \in Utkast : \/ \E i \in Forslag[u] : OpprettUtkast(u, i) \/ Rediger(u, i)
                         \/ Valider(u) \/ Gjenapne(u) \/ Forkast(u) \/ Forfall(u)
                         \/ SlettLaas(u)
    \/ \E r \in Foresp : \/ \E u \in Utkast : \/ RundeLes(r, u)
                                              \/ \E b \in Bruker : AttesterLes(r, u, b)
                         \/ RundeSjekk(r) \/ RundeSkriv(r)
                         \/ AttesterSkriv(r) \/ AttesterFullfor(r) \/ Feil(r)
    \/ \E c \in Innhold : SlettStart(c)
    \/ SlettVent \/ Slett
    \/ \E i \in Oppsett : Registrer(i)
    \/ \E b \in Bruker : EndreMedlem(b)

Spec == Init /\ [][Next]_vars

-----------------------------------------------------------------------------
(* Properties.                                                             *)

Rundeposter ==
    [nr: Nat, status: {"ingen", "apen", "utlopt", "kansellert", "brukt"},
     forfalt: BOOLEAN, base: Innhold \cup {Ingen}, innhold: Innhold \cup {Ingen},
     krav: {1, 2}, att: [Bruker -> Nat \cup {Ingen}]]

(* What each variable may hold; a version number has one document, the     *)
(* active one is there, and no two transactions hold the same draft.       *)
TypeOK ==
    /\ utkast \in [Utkast -> [status: {"ingen", "utkast", "validert", "forkastet",
                                       "aktivert"},
                              innhold: Innhold \cup {Ingen}]]
    /\ runde \in [Utkast -> Rundeposter]
    /\ baser \subseteq Innhold \cup {Ingen}
    /\ rader \subseteq Innhold /\ aktiv \in rader \cup {Ingen}
    /\ \A c, d \in rader : c.ver = d.ver => c = d
    /\ styrt \in BOOLEAN
    /\ medlem \in [Bruker -> [kan: BOOLEAN, authz: Nat]]
    /\ f \in [Foresp -> [steg: {"ledig", "runde", "apne", "attest",
                                "fullfor"},
                         u: Utkast \cup {Ingen}, b: Bruker \cup {Ingen},
                         authz: Nat, p: Innhold \cup {Ingen}]]
    /\ \A r, q \in Foresp : f[r].u # Ingen /\ f[r].u = f[q].u => r = q
    /\ sletting \in [steg: {"ledig", "rydd", "vent"}, liste: SUBSET Utkast,
                     holder: SUBSET Utkast, sett: Innhold \cup {Ingen}]

(* What comes into force is exactly what enough people signed, one of them *)
(* not its author, all of them still with the authority they signed with,  *)
(* and as a change of exactly what it replaces; from the first such time   *)
(* on nothing comes into force in another way.                             *)
Attestert(u) ==
    LET s == Signert(runde'[u].att) IN
    /\ Aapen(u) /\ runde'[u].status = "brukt"
    /\ runde[u].innhold = aktiv' /\ runde[u].base = aktiv
    /\ Cardinality(s) >= Krav(aktiv, aktiv') /\ s \ {Forfatter[u]} # {}
    /\ \A b \in s : medlem[b].kan /\ medlem[b].authz = runde'[u].att[b]
AktivertErAttestert ==
    [][/\ aktiv' \notin {aktiv, Ingen} /\ styrt' => \E u \in Utkast : Attestert(u)
       /\ \A u \in Utkast :
            runde[u].status # "brukt" /\ runde'[u].status = "brukt" => Attestert(u)]_vars

(* An open round is about a draft that is still put forward, with the      *)
(* content the round froze, and the document any round measured a change   *)
(* against can still be read, whatever was reopened, discarded or deleted  *)
(* while the round was being opened or signed.                             *)
RundeStaar == \A u \in Utkast :
    /\ Aapen(u) => /\ utkast[u].status = "validert"
                   /\ utkast[u].innhold = runde[u].innhold
    /\ runde[u].base \in rader \cup {Ingen}

-----------------------------------------------------------------------------
(* What comments of the code say, and the code does not do.                *)

(* A request is told that pointer and flag disagree, and that the data     *)
(* must be repaired, only when they do (_krev_peker_synk).  Here they      *)
(* never do, so no request may be about to find two answers.               *)
UsynkErDrift == \A r \in Foresp :
    f[r].steg \in {"runde", "attest"} => f[r].p = aktiv

(* Nobody signs a change of something that is no longer in force: it would *)
(* be worthless as it is written (attester_aktivering, 5b).                *)
IngenVerdilos ==
    [][\A u \in Utkast, b \in Bruker :
         (/\ Aapen(u) /\ runde[u].nr = runde'[u].nr
          /\ runde[u].att[b] = Ingen /\ runde'[u].att[b] # Ingen
          /\ runde'[u].status = "apen")
         => runde[u].base = aktiv]_vars
=============================================================================
