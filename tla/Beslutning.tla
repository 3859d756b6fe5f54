----------------------------- MODULE Beslutning -----------------------------
(***************************************************************************)
(* POST /v1/beslutning: behandle() of api/kjerne.py, one transaction with  *)
(* one commit, for the requests of one tenant about one policy and one     *)
(* action.  A request takes up to four kinds of transaction locks (its     *)
(* key's, the policy's shared one, one per jti, the frequency group's),    *)
(* and what it writes is seen by nobody before its commit.  Beside it the  *)
(* policy is activated, put out of force and deleted by other people.      *)
(*                                                                         *)
(* The engine's verdict is free here (Policymotor has it), except that the *)
(* frequency rule binds it.  A case born of a decision is part of its log  *)
(* entry.  A request with an arbeidskapabilitet is M37Sak's; a client's    *)
(* key in a reserved name space is refused before any of this.             *)
(***************************************************************************)
EXTENDS Naturals, Sequences, FiniteSets

CONSTANTS
    Forsp,          \* concurrent requests
    Nokkel,         \* idempotency keys
    Jti,            \* identities of attestations, ordered as text is
    Gruppe,         \* frequency groups
    Hendelser,      \* BOUND: events considered, records of Hendelse
    Versjon,        \* versions of the policy
    Korrupt,        \* those whose stored row fails the revalidation
    Irreversibel,   \* those under which the action is irreversible
    Maks,           \* [Versjon -> Nat \cup {Ingen}], the frequency limit
    Vindu,          \* the window it counts over
    MaksTid,        \* BOUND: clock
    MaksLogg,       \* BOUND: committed decisions
    Ingen

ASSUME BeslutningAntakelse ==
    /\ Jti \subseteq Nat /\ IsFiniteSet(Forsp) /\ "sletting" \notin Forsp
    /\ Maks \in [Versjon -> Nat \cup {Ingen}]
    /\ Vindu \in Nat /\ MaksTid \in Nat /\ MaksLogg \in Nat
    /\ Ingen \notin Nokkel \cup Jti \cup Gruppe \cup Versjon
    /\ Ingen \notin Nat

Hendelse == [jti: SUBSET Jti, gruppe: Gruppe, nr: Nat]
ASSUME HendelserAntakelse == Hendelser \subseteq Hendelse

Utfall == {"TILLAT", "STOPP", "UNNTAK"}
ASSUME SvarAntakelse == Ingen \notin [inn: Hendelser, svar: Utfall]
Steg == {"ledig", "sendt", "port", "policy", "jti", "motor", "frek", "tell",
         "avslutt"}
Laas == ({"idem"} \X Nokkel) \cup ({"jti"} \X Jti) \cup ({"frek"} \X Gruppe)

VARIABLES
    naa,        \* the clock
    f,          \* the requests
    laas,       \* advisory locks each holds, beside the shared policy lock
    idem,       \* table idempotens, committed rows
    logg,       \* revisjonslogg
    brukt,      \* attestasjon_jti
    frek,       \* frekvens_hendelser, in the order of commit
    versjoner,  \* rows of policyer
    aktiv,      \* the active one
    sletting    \* slett_ubrukt_policy: the version it was asked to delete

vars == <<naa, f, laas, idem, logg, brukt, frek, versjoner, aktiv, sletting>>

Tom == [steg |-> "ledig", nokkel |-> Ingen, hendelse |-> Ingen, naa |-> 0,
        pol |-> Ingen, dom |-> Ingen, reservert |-> FALSE]

Init ==
    /\ naa = 0
    /\ f = [r \in Forsp |-> Tom]
    /\ laas = [r \in Forsp |-> {}]
    /\ idem = [k \in Nokkel |-> Ingen]
    /\ logg = <<>> /\ brukt = {} /\ frek = <<>>
    /\ versjoner \in {{v} : v \in Versjon}
    /\ aktiv \in versjoner
    /\ sletting = Ingen

-----------------------------------------------------------------------------
(* Locks.                                                                  *)

FeilKanTa(r, l) == l[1] = "jti" \/ \A q \in Forsp \ {r} : l \notin laas[q]
KanTa(r, l) == \A q \in Forsp \ {r} : l \notin laas[q]

(* The shared lock: held from the reading of the policy to the commit.     *)
FeilDelerPolicy(r) == f[r].steg \in {"jti", "motor", "frek", "tell"}
DelerPolicy(r) == \/ f[r].steg \in {"jti", "motor", "frek", "tell"}
                  \/ f[r].steg = "avslutt" /\ f[r].pol # Ingen

(* Who waits for the exclusive one is in front of who comes later.         *)
KanDele == sletting = Ingen

(* jti_liste: sorted, so that all take these locks in one order.           *)
Igjen(r) == {j \in f[r].hendelse.jti : <<"jti", j>> \notin laas[r]}
FeilErNeste(r, j) == j \in Igjen(r)
ErNeste(r, j) == j \in Igjen(r) /\ \A k \in Igjen(r) : j <= k

Ta(r, l) == laas' = [laas EXCEPT ![r] = @ \cup {l}]
Videre(r, steg) == f' = [f EXCEPT ![r].steg = steg]

(* Commit and rollback both end the transaction: locks go, and the client  *)
(* is answered.                                                            *)
Slipp(r) == f' = [f EXCEPT ![r] = Tom] /\ laas' = [laas EXCEPT ![r] = {}]

-----------------------------------------------------------------------------
(* The request.                                                            *)

(* A client sends, or sends again; naa is taken on arrival.                *)
Send(r, k, h) ==
    /\ f[r].steg = "ledig"
    /\ Len(logg) + Cardinality({q \in Forsp : f[q].steg # "ledig"}) < MaksLogg
    /\ f' = [f EXCEPT ![r] = [Tom EXCEPT !.steg = "sendt", !.nokkel = k,
                                         !.hendelse = h, !.naa = naa]]
    /\ UNCHANGED <<naa, laas, idem, logg, brukt, frek, versjoner, aktiv, sletting>>

(* Step 2 and 3 by the row it finds: none, another input, an answer.  A    *)
(* request that is answered without a decision commits and goes.           *)
FeilErNy(k) == TRUE
ErNy(k) == idem[k] = Ingen
Krev(r) ==
    LET k == f[r].nokkel IN
    /\ f[r].steg = "sendt" /\ KanTa(r, <<"idem", k>>)
    /\ \/ ErNy(k) /\ Ta(r, <<"idem", k>>) /\ Videre(r, "port")
       \/ ~ErNy(k) /\ Slipp(r)        \* idempotenskonflikt, or the replay
    /\ UNCHANGED <<naa, idem, logg, brukt, frek, versjoner, aktiv, sletting>>

(* What stops before the engine, and is logged all the same.               *)
Portstopp(r, pol) ==
    f' = [f EXCEPT ![r].steg = "avslutt", ![r].pol = pol, ![r].dom = "STOPP"]

(* Signatures and bindings of the attestations hold, or not.               *)
Attestasjonsport(r) ==
    /\ f[r].steg = "port"
    /\ Videre(r, "policy") \/ Portstopp(r, Ingen)
    /\ UNCHANGED <<naa, laas, idem, logg, brukt, frek, versjoner, aktiv, sletting>>

(* hent_aktiv: the shared lock first, then the row.  A corrupt row is      *)
(* logged under no version.                                                *)
HentAktiv(r) ==
    /\ f[r].steg = "policy" /\ KanDele
    /\ \/ aktiv = Ingen /\ Slipp(r)                     \* policy_ukjent
       \/ aktiv \in Korrupt /\ Portstopp(r, Ingen) /\ UNCHANGED laas
       \/ /\ aktiv \in Versjon \ Korrupt
          /\ f' = [f EXCEPT ![r].pol = aktiv,
                     ![r].steg = IF aktiv \in Irreversibel THEN "jti" ELSE "motor"]
          /\ UNCHANGED laas
    /\ UNCHANGED <<naa, idem, logg, brukt, frek, versjoner, aktiv, sletting>>

JtiLaas(r, j) ==
    /\ f[r].steg = "jti" /\ ErNeste(r, j) /\ KanTa(r, <<"jti", j>>)
    /\ Ta(r, <<"jti", j>>)
    /\ UNCHANGED <<naa, f, idem, logg, brukt, frek, versjoner, aktiv, sletting>>

(* Every lock first, then every check.                                     *)
JtiSjekk(r) ==
    /\ f[r].steg = "jti" /\ Igjen(r) = {}
    /\ \/ f[r].hendelse.jti \cap brukt = {} /\ Videre(r, "motor")
       \/ f[r].hendelse.jti \cap brukt # {} /\ Portstopp(r, f[r].pol)
    /\ UNCHANGED <<naa, laas, idem, logg, brukt, frek, versjoner, aktiv, sletting>>

(* PgTellerLager.antall and the count of _forsok_reservasjon: from the     *)
(* start of the window on, with no end.                                    *)
FeilAntall(r) ==
    Cardinality({i \in DOMAIN frek : /\ frek[i].gruppe = f[r].hendelse.gruppe
                                     /\ frek[i].naa > f[r].naa - Vindu
                                     /\ frek[i].naa <= f[r].naa})
Antall(r) ==
    Cardinality({i \in DOMAIN frek : /\ frek[i].gruppe = f[r].hendelse.gruppe
                                     /\ frek[i].naa + Vindu >= f[r].naa})
Grense(r) == Maks[f[r].pol]
ErPlass(r) == Grense(r) # Ingen => Antall(r) < Grense(r)

(* The engine, whose counting is only advice.                              *)
Motor(r) ==
    /\ f[r].steg = "motor"
    /\ \/ ErPlass(r) /\ Grense(r) # Ingen /\ Videre(r, "frek")
       \/ \E u \in Utfall :
             /\ u = "TILLAT" => Grense(r) = Ingen
             /\ f' = [f EXCEPT ![r].steg = "avslutt", ![r].dom = u]
    /\ UNCHANGED <<naa, laas, idem, logg, brukt, frek, versjoner, aktiv, sletting>>

FrekLaas(r) ==
    LET l == <<"frek", f[r].hendelse.gruppe>> IN
    /\ f[r].steg = "frek" /\ KanTa(r, l)
    /\ Ta(r, l) /\ Videre(r, "tell")
    /\ UNCHANGED <<naa, idem, logg, brukt, frek, versjoner, aktiv, sletting>>

(* The reservation, or the outcome the policy has for a breach.            *)
Reserver(r) ==
    /\ f[r].steg = "tell"
    /\ \/ /\ ErPlass(r)
          /\ f' = [f EXCEPT ![r].steg = "avslutt", ![r].dom = "TILLAT",
                            ![r].reservert = TRUE]
       \/ /\ ~ErPlass(r)
          /\ \E u \in {"STOPP", "UNNTAK"} :
                f' = [f EXCEPT ![r].steg = "avslutt", ![r].dom = u]
    /\ UNCHANGED <<naa, laas, idem, logg, brukt, frek, versjoner, aktiv, sletting>>

(* The jti are consumed at TILLAT only; log entry, reservation, jti and    *)
(* answer are one commit.                                                  *)
Forbrukte(r) == IF f[r].dom = "TILLAT" /\ f[r].pol \in Irreversibel
                THEN f[r].hendelse.jti ELSE {}
Avslutt(r) ==
    LET x == f[r] IN
    /\ x.steg = "avslutt"
    /\ logg' = Append(logg, [nokkel |-> x.nokkel, hendelse |-> x.hendelse,
                             pol |-> x.pol, utfall |-> x.dom])
    /\ frek' = IF x.reservert
               THEN Append(frek, [gruppe |-> x.hendelse.gruppe, naa |-> x.naa,
                                  maks |-> Grense(r)])
               ELSE frek
    /\ brukt' = brukt \cup Forbrukte(r)
    /\ idem' = [idem EXCEPT ![x.nokkel] = [inn |-> x.hendelse, svar |-> x.dom]]
    /\ Slipp(r)
    /\ UNCHANGED <<naa, versjoner, aktiv, sletting>>

(* A database error, a crash, a lost connection: everything is rolled back *)
(* and the client knows nothing.                                           *)
Feil(r) ==
    /\ f[r].steg # "ledig"
    /\ Slipp(r)
    /\ UNCHANGED <<naa, idem, logg, brukt, frek, versjoner, aktiv, sletting>>

Trinn(r) ==
    \/ Krev(r) \/ Attestasjonsport(r) \/ HentAktiv(r)
    \/ \E j \in Jti : JtiLaas(r, j)
    \/ JtiSjekk(r) \/ Motor(r) \/ FrekLaas(r) \/ Reserver(r) \/ Avslutt(r)

-----------------------------------------------------------------------------
(* The policy, changed by others.                                          *)

(* aktiver_policy takes no advisory lock; a version number that a deletion *)
(* has freed may come again.                                               *)
PolicyAktiveres(v) ==
    /\ aktiv # v
    /\ versjoner' = versjoner \cup {v} /\ aktiv' = v
    /\ UNCHANGED <<naa, f, laas, idem, logg, brukt, frek, sletting>>

(* slett_ubrukt_policy of the version on the operator's screen: it waits   *)
(* for all who have read the policy to commit, ...                         *)
SlettVent(v) ==
    /\ sletting = Ingen /\ v \in versjoner
    /\ sletting' = v
    /\ UNCHANGED <<naa, f, laas, idem, logg, brukt, frek, versjoner, aktiv>>

(* ... and then all versions go, unless another one is active or any of    *)
(* them has decided anything.  (One that is the base of a round stays, out *)
(* of force: Policyadmin.)                                                 *)
Brukte == {v \in versjoner : \E i \in DOMAIN logg : logg[i].pol = v}
Slett ==
    /\ sletting # Ingen /\ \A r \in Forsp : ~DelerPolicy(r)
    /\ sletting' = Ingen
    /\ \/ /\ aktiv = sletting /\ Brukte = {}
          /\ versjoner' = {} /\ aktiv' = Ingen
       \/ /\ aktiv # sletting \/ Brukte # {}
          /\ UNCHANGED <<versjoner, aktiv>>
    /\ UNCHANGED <<naa, f, laas, idem, logg, brukt, frek>>

Tikk ==
    /\ naa < MaksTid /\ naa' = naa + 1
    /\ UNCHANGED <<f, laas, idem, logg, brukt, frek, versjoner, aktiv, sletting>>

Next ==
    \/ \E r \in Forsp : \/ \E k \in Nokkel, h \in Hendelser : Send(r, k, h)
                        \/ Trinn(r) \/ Feil(r)
    \/ \E v \in Versjon : PolicyAktiveres(v) \/ SlettVent(v)
    \/ Slett \/ Tikk

Spec == Init /\ [][Next]_vars

-----------------------------------------------------------------------------
(* Properties.                                                             *)

Foresp ==
    [steg: Steg, nokkel: Nokkel \cup {Ingen}, hendelse: Hendelser \cup {Ingen},
     naa: Nat, pol: Versjon \cup {Ingen}, dom: Utfall \cup {Ingen},
     reservert: BOOLEAN]
Post == [nokkel: Nokkel, hendelse: Hendelser, pol: Versjon \cup {Ingen},
         utfall: Utfall]

(* What each variable may hold; nobody at rest holds a lock, and nobody    *)
(* reserves a place under a version without a limit.                       *)
TypeOK ==
    /\ naa \in Nat
    /\ f \in [Forsp -> Foresp]
    /\ laas \in [Forsp -> SUBSET Laas]
    /\ \A r \in Forsp : f[r].steg = "ledig" => laas[r] = {}
    /\ idem \in [Nokkel -> [inn: Hendelser, svar: Utfall] \cup {Ingen}]
    /\ logg \in Seq(Post)
    /\ brukt \subseteq Jti
    /\ frek \in Seq([gruppe: Gruppe, naa: Nat, maks: Nat])
    /\ versjoner \subseteq Versjon /\ aktiv \in versjoner \cup {Ingen}
    /\ sletting \in Versjon \cup {Ingen}

(* An attestation lets at most one irreversible action through, whatever   *)
(* keys, racing requests, retries and policy changes it comes with.        *)
Utlost(i, j) == /\ logg[i].utfall = "TILLAT" /\ logg[i].pol \in Irreversibel
                /\ j \in logg[i].hendelse.jti
JtiEngang == \A j \in Jti : \A m, n \in DOMAIN logg :
    Utlost(m, j) /\ Utlost(n, j) => m = n

(* No window, wherever it is laid, holds more decisions of one group than  *)
(* the policies they were taken under allow, although each request is      *)
(* judged by the time it came and they commit in any order.                *)
IVindu(t, g) == {i \in DOMAIN frek : /\ frek[i].gruppe = g
                                     /\ frek[i].naa \in t..(t + Vindu)}
FrekvensHolder == \A t \in 0..MaksTid, g \in Gruppe :
    IVindu(t, g) # {} =>
        \E i \in IVindu(t, g) : Cardinality(IVindu(t, g)) <= frek[i].maks

(* A decision in the log was taken under a version that is still there: a  *)
(* policy that has decided anything is not deleted, also when the          *)
(* deletion is asked for between the reading of it and the commit.         *)
LoggenHarPolicy == \A i \in DOMAIN logg :
    logg[i].pol # Ingen => logg[i].pol \in versjoner

(* Who waits for whom: the lock each wants next is another's.              *)
Vil(r) ==
    CASE f[r].steg = "sendt" -> {<<"idem", f[r].nokkel>>}
      [] f[r].steg = "jti"   -> {<<"jti", j>> : j \in {i \in Jti : ErNeste(r, i)}}
      [] f[r].steg = "frek"  -> {<<"frek", f[r].hendelse.gruppe>>}
      [] OTHER -> {}
Aktor == Forsp \cup {"sletting"}
VenterPaa(x) ==
    IF x = "sletting"
    THEN IF sletting = Ingen THEN {} ELSE {r \in Forsp : DelerPolicy(r)}
    ELSE {q \in Forsp \ {x} : Vil(x) \cap laas[q] # {}}
         \cup (IF f[x].steg = "policy" /\ sletting # Ingen
               THEN {"sletting"} ELSE {})

(* No circle of requests and a deletion, each waiting for the next.        *)
IngenVranglaas == \A S \in SUBSET Aktor :
    S # {} => \E x \in S : VenterPaa(x) \cap S = {}

(* A key has one answer, to one input, and its decision is in the log      *)
(* exactly then, through retries, errors and takeovers.                    *)
Nokkelbok == INSTANCE Engangsnokkel WITH
    Inndata <- Hendelser, Svar <- Utfall, Ubrukt <- Ingen,
    bundet <- [k \in Nokkel |-> IF idem[k] = Ingen THEN Ingen ELSE idem[k].inn],
    svar <- [k \in Nokkel |-> IF idem[k] = Ingen THEN Ingen ELSE idem[k].svar],
    virket <- {logg[i].nokkel : i \in DOMAIN logg}
HolderNokkelloftet == Nokkelbok!Spec
=============================================================================
