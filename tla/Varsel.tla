------------------------------- MODULE Varsel -------------------------------
(***************************************************************************)
(* "Something waits for YOU": the notices about one draft's activation     *)
(* rounds (api/varsel.py, written by api/policyadmin.py) and the mails     *)
(* that copy them (drift/varselsender.py over varsel_rekoe,                *)
(* varsel_klaim_epost and varsel_sett_epoststatus).                        *)
(*                                                                         *)
(* A notice is written and retired in the transaction of what it is about, *)
(* under savepoints: it may fail while that succeeds.  A sender claims one *)
(* row, commits, talks SMTP, and writes the result back under the token of *)
(* its claim; it may be paused past its lease or die anywhere, and a mail  *)
(* whose reply is lost counts as failed.  varsel_rekoe is one statement,   *)
(* but only the rows it updates are read anew under their locks: what it   *)
(* read of varselvalg is from its start, hence two steps.                  *)
(*                                                                         *)
(* All recipients are members with the role and a verified address; the    *)
(* text, its language and the other sweeps before the queue are left out.  *)
(***************************************************************************)
EXTENDS Naturals, FiniteSets

CONSTANTS
    Bruker, Sender,
    MaksForsok,     \* DISPONIT_VARSEL_MAKS_FORSOK
    MaksRunde,      \* BOUND: rounds of the draft
    MaksId,         \* BOUND: rows one recipient gets for one round
    MaksBytter,     \* BOUND: changes of each recipient's choice
    Ingen

ASSUME VarselAntatt == /\ MaksForsok \in Nat \ {0} /\ MaksRunde \in Nat
                       /\ MaksId \in Nat /\ MaksBytter \in Nat

Runde == 1..MaksRunde
Nokkel == Bruker \X Runde        \* varsel_en_per_hendelse
Kanal == {"epost_og_portal", "kun_portal"}
IKo == {"koet", "feilet"}

VARIABLES
    runde,      \* aktiveringsrunde: its status, whether utloper has passed,
                \* and who has attested
    kanal,      \* varselvalg, with the number of changes
    rad,        \* varsel, by recipient and round
    f,          \* the sender processes
    levert,     \* claims whose mail the server has accepted
    tapt,       \* claims taken back after their lease, or answered by an error
    urydda      \* notices whose retirement failed and was not made up for

vars == <<runde, kanal, rad, f, levert, tapt, urydda>>

(* klaim numbers the claims of a row, as epost_forsok does; 0 is NULL.     *)
Rad == [st: {"ingen", "koet", "under_sending", "sendt", "feilet", "ikke_aktuelt"},
        id: 0..MaksId, lest: BOOLEAN, forsok: 0..MaksForsok,
        klaim: 0..MaksForsok, gammel: BOOLEAN]
Klaim == [nokkel: Nokkel, id: 0..MaksId, nr: 0..MaksForsok]
Steg == {"av", "rekoe", "lokke", "smtp", "ok", "nei"}

TypeOK ==
    /\ runde \in [Runde -> [st: {"ingen", "apen", "lukket"}, forfalt: BOOLEAN,
                            av: SUBSET Bruker]]
    /\ kanal \in [Bruker -> [valg: Kanal, nr: 0..MaksBytter]]
    /\ rad \in [Nokkel -> Rad]
    /\ f \in [Sender -> [steg: Steg, kun: SUBSET Bruker, rader: SUBSET Nokkel,
                         tatt: BOOLEAN, klaim: Klaim \cup {Ingen}]]
    /\ levert \subseteq Klaim /\ tapt \subseteq Klaim
    /\ urydda \subseteq Nokkel

Uten(id) == [st |-> "ingen", id |-> id, lest |-> FALSE, forsok |-> 0,
             klaim |-> 0, gammel |-> FALSE]
Av == [steg |-> "av", kun |-> {}, rader |-> {}, tatt |-> FALSE, klaim |-> Ingen]

Init ==
    /\ runde = [n \in Runde |-> [st |-> "ingen", forfalt |-> FALSE, av |-> {}]]
    /\ kanal = [b \in Bruker |-> [valg |-> "epost_og_portal", nr |-> 0]]
    /\ rad = [k \in Nokkel |-> Uten(0)]
    /\ f = [s \in Sender |-> Av]
    /\ levert = {} /\ tapt = {} /\ urydda = {}

KunPortal(b) == kanal[b].valg = "kun_portal"
Finnes(k) == rad[k].st # "ingen"
Levende(n) == runde[n].st = "apen" /\ ~runde[n].forfalt

-----------------------------------------------------------------------------
(* The rounds and their notices.                                           *)

(* opprett: nothing if the row is there; queued unless the recipient wants *)
(* the portal only.                                                        *)
Opprettet(k, r) ==
    IF r.st = "ingen" /\ r.id < MaksId
    THEN [Uten(r.id + 1) EXCEPT !.st = IF KunPortal(k[1]) THEN "ikke_aktuelt"
                                       ELSE "koet"]
    ELSE r

Avlyst(st) == IF st \in IKo THEN "ikke_aktuelt" ELSE st

(* pensjoner_runde: read, and out of the queue.                            *)
Pensjonert(r) ==
    IF r.st # "ingen" /\ (~r.lest \/ r.st \in IKo)
    THEN [r EXCEPT !.lest = TRUE, !.st = Avlyst(@)] ELSE r

Pensjoner(R, ks) == [k \in Nokkel |-> IF k \in ks THEN Pensjonert(R[k]) ELSE R[k]]
Om(n) == Bruker \X {n}

(* Retirements under their savepoints: of what they were to retire, these  *)
(* were not, those were.                                                   *)
Ryddet(R, ks, feilet) ==
    /\ rad' = Pensjoner(R, ks \ feilet)
    /\ urydda' = (urydda \ ks) \cup {k \in feilet : R[k].st # "ingen"}
Rydd(R, ks) == Ryddet(R, ks, {}) \/ Ryddet(R, ks, ks)

(* opprett_aktiveringsrunde; the one before is expired at most, and then   *)
(* closed first.  A savepoint for each recipient.                          *)
ApneRunde(n) ==
    LET forrige == {m \in Runde : runde[m].st = "apen"} IN
    /\ runde[n].st = "ingen" /\ \A m \in Runde : m < n => runde[m].st # "ingen"
    /\ \A m \in forrige : ~Levende(m)
    /\ runde' = [m \in Runde |-> IF m = n THEN [runde[m] EXCEPT !.st = "apen"]
                                 ELSE IF m \in forrige
                                 THEN [runde[m] EXCEPT !.st = "lukket"] ELSE runde[m]]
    /\ \E hvem \in SUBSET Bruker :
          Rydd([k \in Nokkel |-> IF k \in hvem \X {n} THEN Opprettet(k, rad[k]) ELSE rad[k]],
               UNION {Om(m) : m \in forrige})
    /\ UNCHANGED <<kanal, f, levert, tapt>>

Forfaller(n) ==
    /\ Levende(n)
    /\ runde' = [runde EXCEPT ![n].forfalt = TRUE]
    /\ UNCHANGED <<kanal, rad, f, levert, tapt, urydda>>

(* attester_aktivering: the actor's own notice is done with, the round     *)
(* waits on; or it is over, activated or cancelled (whose vote it was then *)
(* matters no more), and so are all its notices.                           *)
Attester(b, n) ==
    /\ Levende(n) /\ b \notin runde[n].av
    /\ \/ /\ runde' = [runde EXCEPT ![n].av = @ \cup {b}]
          /\ Rydd(rad, {<<b, n>>})
       \/ /\ runde' = [runde EXCEPT ![n].st = "lukket"]
          /\ Rydd(rad, Om(n)) \/ Ryddet(rad, Om(n), Om(n) \ {<<b, n>>})
    /\ UNCHANGED <<kanal, f, levert, tapt>>

(* The author takes the draft back (gjenapne_utkast, forkast_utkast).      *)
TrekkTilbake(n) ==
    /\ runde[n].st = "apen"
    /\ runde' = [runde EXCEPT ![n].st = "lukket"]
    /\ Rydd(rad, Om(n))
    /\ UNCHANGED <<kanal, f, levert, tapt>>

(* A retry of the opening makes up for notices that failed, if the round   *)
(* still waits, to those it waits for.                                     *)
ForsonVarsling(n) ==
    /\ Levende(n)
    /\ \E hvem \in SUBSET (Bruker \ runde[n].av) :
          rad' = [k \in Nokkel |-> IF k \in hvem \X {n} THEN Opprettet(k, rad[k]) ELSE rad[k]]
    /\ UNCHANGED <<runde, kanal, f, levert, tapt, urydda>>

(* A retry of what may have closed a round makes up for retirements, each  *)
(* round under its own savepoint.                                          *)
Foreldet(b) ==
    {k \in Nokkel : /\ runde[k[2]].st # "ingen"
                    /\ ~Levende(k[2]) \/ (k[1] = b /\ b \in runde[k[2]].av)}
ForsonPensjonering(b) ==
    /\ \E n \in Runde : runde[n].st = "lukket" \/ b \in runde[n].av
    /\ \E R \in SUBSET Runde :
          Ryddet(rad, {k \in Foreldet(b) : k[2] \in R}, {})
    /\ UNCHANGED <<runde, kanal, f, levert, tapt>>

-----------------------------------------------------------------------------
(* The recipient.                                                          *)

MerkLest(k) ==
    /\ Finnes(k) /\ ~rad[k].lest
    /\ rad' = [rad EXCEPT ![k].lest = TRUE, ![k].st = Avlyst(@)]
    /\ UNCHANGED <<runde, kanal, f, levert, tapt, urydda>>

Slett(k) ==
    /\ Finnes(k) /\ rad[k].st # "under_sending"
    /\ rad' = [rad EXCEPT ![k] = Uten(@.id)]
    /\ urydda' = urydda \ {k}
    /\ UNCHANGED <<runde, kanal, f, levert, tapt>>

(* sett_kanal, under the lock that opprett takes too: the choice, and what *)
(* is queued is called off.                                                *)
SettKanal(b) ==
    /\ kanal[b].nr < MaksBytter
    /\ \E v \in Kanal \ {kanal[b].valg} :
          /\ kanal' = [kanal EXCEPT ![b] = [valg |-> v, nr |-> @.nr + 1]]
          /\ rad' = [k \in Nokkel |-> IF k[1] = b /\ v = "kun_portal"
                                      THEN [rad[k] EXCEPT !.st = Avlyst(@)] ELSE rad[k]]
    /\ UNCHANGED <<runde, f, levert, tapt, urydda>>

-----------------------------------------------------------------------------
(* The sender.                                                             *)

(* The backoff of a failed row, or the lease of a claimed one, runs out.   *)
Tid(k) ==
    /\ rad[k].st \in {"feilet", "under_sending"} /\ ~rad[k].gammel
    /\ rad' = [rad EXCEPT ![k].gammel = TRUE]
    /\ UNCHANGED <<runde, kanal, f, levert, tapt, urydda>>

FeilRekoes(k) == rad[k].st \in {"feilet", "under_sending"} /\ rad[k].forsok < MaksForsok
Rekoes(k) == /\ rad[k].st \in {"feilet", "under_sending"} /\ rad[k].gammel
             /\ rad[k].forsok < MaksForsok

(* The timer starts a run; varsel_rekoe begins.                            *)
RekoeLes(s) ==
    /\ f[s].steg = "av"
    /\ f' = [f EXCEPT ![s] = [Av EXCEPT !.steg = "rekoe",
                                !.kun = {b \in Bruker : KunPortal(b)},
                                !.rader = {k \in Nokkel : Rekoes(k)}]]
    /\ UNCHANGED <<runde, kanal, rad, levert, tapt, urydda>>

FeilTilbake(s, k) == IF k[1] \in f[s].kun THEN "ikke_aktuelt" ELSE "koet"
Tilbake(s, k) == IF rad[k].lest \/ k[1] \in f[s].kun THEN "ikke_aktuelt" ELSE "koet"

Holder(k) == [nokkel |-> k, id |-> rad[k].id, nr |-> rad[k].klaim]

RekoeSkriv(s) ==
    LET ks == {k \in f[s].rader : Rekoes(k)} IN
    /\ f[s].steg = "rekoe"
    /\ rad' = [k \in Nokkel |-> IF k \in ks
                 THEN [rad[k] EXCEPT !.st = Tilbake(s, k), !.klaim = 0, !.gammel = FALSE]
                 ELSE rad[k]]
    /\ tapt' = tapt \cup {Holder(k) : k \in {j \in ks : /\ rad[j].st = "under_sending"
                                                        /\ rad[j].gammel}}
    /\ f' = [f EXCEPT ![s] = [Av EXCEPT !.steg = "lokke"]]
    /\ UNCHANGED <<runde, kanal, levert, urydda>>

(* varsel_klaim_epost, committed.  The oldest first, but SKIP LOCKED may   *)
(* pass over any.                                                          *)
FeilKlaimbar(k) == /\ rad[k].st = "koet" /\ ~rad[k].lest /\ ~KunPortal(k[1])
                   /\ rad[k].forsok + 1 < MaksForsok
Klaimbar(k) == /\ rad[k].st = "koet" /\ ~rad[k].lest /\ ~KunPortal(k[1])
               /\ rad[k].forsok < MaksForsok

KlaimEpost(s) ==
    /\ f[s].steg = "lokke"
    /\ \E k \in Nokkel :
          /\ Klaimbar(k)
          /\ rad' = [rad EXCEPT ![k].st = "under_sending", ![k].gammel = FALSE,
                                ![k].forsok = @ + 1, ![k].klaim = rad[k].forsok + 1]
          /\ f' = [f EXCEPT ![s].steg = "smtp", ![s].tatt = TRUE,
                     ![s].klaim = [nokkel |-> k, id |-> rad[k].id,
                                   nr |-> rad[k].forsok + 1]]
    /\ UNCHANGED <<runde, kanal, levert, tapt, urydda>>

(* The run ends when the queue is empty or, past its first row, when its   *)
(* time or its number of rows is used up.                                  *)
Stans(s) ==
    /\ f[s].steg = "lokke"
    /\ f[s].tatt \/ \A k \in Nokkel : ~Klaimbar(k)
    /\ f' = [f EXCEPT ![s] = Av]
    /\ UNCHANGED <<runde, kanal, rad, levert, tapt, urydda>>

(* SMTP: accepted, refused, or accepted with the reply lost.               *)
Smtp(s) ==
    /\ f[s].steg = "smtp"
    /\ \/ /\ levert' = levert \cup {f[s].klaim}
          /\ f' = [f EXCEPT ![s].steg = "ok"] /\ UNCHANGED tapt
       \/ /\ levert' \in {levert, levert \cup {f[s].klaim}}
          /\ f' = [f EXCEPT ![s].steg = "nei"]
          /\ tapt' = tapt \cup {f[s].klaim}
    /\ UNCHANGED <<runde, kanal, rad, urydda>>

(* varsel_sett_epoststatus demands the token of this very claim.           *)
FeilMitt(s) == LET c == f[s].klaim IN rad[c.nokkel].st = "under_sending"
Mitt(s) == LET c == f[s].klaim IN
           rad[c.nokkel].st = "under_sending" /\ Holder(c.nokkel) = c

SettStatus(s) ==
    /\ f[s].steg \in {"ok", "nei"}
    /\ LET k == f[s].klaim.nokkel IN
       rad' = IF Mitt(s)
              THEN [rad EXCEPT ![k].st = IF f[s].steg = "ok" THEN "sendt" ELSE "feilet",
                               ![k].klaim = 0, ![k].gammel = FALSE]
              ELSE rad                            \* mistet
    /\ f' = [f EXCEPT ![s].steg = "lokke", ![s].klaim = Ingen]
    /\ UNCHANGED <<runde, kanal, levert, tapt, urydda>>

Krasj(s) ==
    /\ f[s].steg # "av"
    /\ f' = [f EXCEPT ![s] = Av]
    /\ UNCHANGED <<runde, kanal, rad, levert, tapt, urydda>>

Next ==
    \/ \E n \in Runde : \/ ApneRunde(n) \/ Forfaller(n) \/ TrekkTilbake(n)
                        \/ ForsonVarsling(n)
                        \/ \E b \in Bruker : Attester(b, n)
    \/ \E b \in Bruker : ForsonPensjonering(b) \/ SettKanal(b)
    \/ \E k \in Nokkel : MerkLest(k) \/ Slett(k) \/ Tid(k)
    \/ \E s \in Sender : \/ RekoeLes(s) \/ RekoeSkriv(s) \/ KlaimEpost(s)
                         \/ Stans(s) \/ Smtp(s) \/ SettStatus(s) \/ Krasj(s)

Spec == Init /\ [][Next]_vars

(* The timer fires again and again, and a run that is not killed goes on;  *)
(* not every run is killed at the same place.  Backoff and lease pass.     *)
Rettferdig ==
    /\ \A k \in Nokkel : WF_vars(Tid(k))
    /\ \A s \in Sender : /\ WF_vars(RekoeLes(s)) /\ SF_vars(RekoeSkriv(s))
                         /\ SF_vars(KlaimEpost(s)) /\ WF_vars(Smtp(s))
                         /\ WF_vars(SettStatus(s)) /\ WF_vars(Stans(s))
RettferdigSpec == Spec /\ Rettferdig

-----------------------------------------------------------------------------
(* Properties.                                                             *)

(* A row says sendt only if its last claim's mail was accepted: a sender   *)
(* that wakes up after its lease does not report for its successor.        *)
SendtErSendt == \A k \in Nokkel :
    rad[k].st = "sendt" => [nokkel |-> k, id |-> rad[k].id, nr |-> rad[k].forsok] \in levert

(* One mail per row, however runs overlap: a second one goes out only      *)
(* after the first claim was lost to its lease or answered with an error.  *)
EnKopi == \A p, q \in levert :
    p.nokkel = q.nokkel /\ p.id = q.id /\ p.nr < q.nr => p \in tapt

(* A closed round asks nobody: its notices are read and in no queue, also  *)
(* those that were in the air or being made when it closed, unless the     *)
(* retirement itself failed and no retry has made up for it.               *)
LukketMaserIkke == \A k \in Nokkel :
    runde[k[2]].st = "lukket" /\ Finnes(k) /\ k \notin urydda
        => rad[k].lest /\ rad[k].st # "koet"

(* A queued mail to somebody who wants it is taken on, or called off.      *)
Ventet(k) == rad[k].st = "koet" /\ ~KunPortal(k[1])
KoenTommes == \A k \in Nokkel : Ventet(k) ~> ~Ventet(k)

(* The documents say that a row of a recipient who opted out is called     *)
(* off, also when it comes back from a lease.                              *)
AvmeldtErUteAvKo == \A k \in Nokkel : KunPortal(k[1]) => rad[k].st # "koet"

(* ... that a row is under_sending for the short time of a sending.        *)
SendingTarSlutt == \A k \in Nokkel :
    rad[k].st = "under_sending" ~> rad[k].st # "under_sending"

(* ... and that a retry of what a notice is about brings no second mail.   *)
EttPerHendelse == \A p, q \in levert :
    p.nokkel = q.nokkel /\ p # q => p \in tapt \/ q \in tapt
=============================================================================
