-------------------------- MODULE BestillingProofs --------------------------
(* Theorems about customers' orders, for any number of requests, keys,     *)
(* intents and things to order on.                                         *)
EXTENDS Bestilling, SequenceTheorems, TLAPS

-----------------------------------------------------------------------------
(* Types.                                                                  *)

Dom == [nokkel: Nokkel \cup {Ingen}, hensikt: Hensikt,
        utfall: {"TILLAT", "NEI"}, versjon: Nat]

LEMMA LedigType == Ledig \in Forespoersel
  BY DEF Ledig, Forespoersel, Steg

LEMMA SendtType ==
    ASSUME NEW n \in Nokkel \cup {Ingen}, NEW i \in Hensikt
    PROVE  /\ Sendt(n, i) \in Forespoersel
           /\ Sendt(n, i).steg = "port" /\ Sendt(n, i).hensikt = i
           /\ Sendt(n, i).nokkel = n /\ Sendt(n, i).kjent = (Under(n) # {})
  BY DEF Sendt, Ledig, Forespoersel, Steg

(* A request stands for a request again after any step, its own or not.    *)
OK(x) == /\ x \in Forespoersel
         /\ x.steg # "ledig" => x.hensikt \in Hensikt
         /\ x.steg = "hale" => x.dom \in DOMAIN dom

LEMMA FType ==
    ASSUME TypeOK, NEW r \in Foresp, NEW x, OK(x), f' = [f EXCEPT ![r] = x]
    PROVE  /\ f' \in [Foresp -> Forespoersel]
           /\ \A q \in Foresp : f'[q] = IF q = r THEN x ELSE f[q]
           /\ \A q \in Foresp : OK(f'[q])
  BY DEF TypeOK, OK

(* What a request is after the port, after the endpoint has decided, and   *)
(* after it has taken an earlier decision over.                            *)
LEMMA EtterPort ==
    ASSUME TypeOK, NEW r \in Foresp, TilBeslutning(r)
    PROVE  /\ f' \in [Foresp -> Forespoersel]
           /\ \A q \in Foresp \ {r} : f'[q] = f[q]
           /\ f'[r].steg = "dom" /\ f'[r].nokkel = f[r].nokkel
           /\ f'[r].hensikt = f[r].hensikt /\ f'[r].kjent = f[r].kjent
           /\ f'[r].dom = f[r].dom
  <1> DEFINE v == reg[Maalet(r)].versjon
  <1>1. /\ f \in [Foresp -> Forespoersel] /\ f[r] \in Forespoersel
        /\ v \in Nat /\ f[r].dom \in Nat
        BY BestillingAntatt DEF TypeOK, Forespoersel, TilBeslutning, Slipper, Maalet
  <1>2. f'[r] = [steg |-> "dom", nokkel |-> f[r].nokkel, hensikt |-> f[r].hensikt,
                 kjent |-> f[r].kjent, versjon |-> v, dom |-> f[r].dom]
        BY <1>1 DEF Forespoersel, TilBeslutning
  <1> HIDE DEF v
  <1>3. f'[r] \in Forespoersel
        BY <1>1, <1>2 DEF Forespoersel, Steg
  <1>4. \A q \in Foresp : q # r => f'[q] = f[q]
        BY <1>1 DEF TilBeslutning
  <1>5. f' \in [Foresp -> Forespoersel]
    <2>1. DOMAIN f' = Foresp /\ f' = [q \in Foresp |-> f'[q]]
          BY <1>1 DEF TilBeslutning
    <2> QED BY <1>1, <1>3, <1>4, <2>1
  <1> QED BY <1>2, <1>4, <1>5

LEMMA EtterDom ==
    ASSUME TypeOK, NEW r \in Foresp, Behandle(r)
    PROVE  /\ f' \in [Foresp -> Forespoersel]
           /\ \A q \in Foresp \ {r} : f'[q] = f[q]
           /\ f'[r].steg = "hale" /\ f'[r].nokkel = f[r].nokkel
           /\ f'[r].hensikt = f[r].hensikt /\ f'[r].kjent = f[r].kjent
           /\ f'[r].dom = Len(dom) + 1 /\ f'[r].versjon = f[r].versjon
  <1> DEFINE v == f[r].versjon
  <1>1. /\ f \in [Foresp -> Forespoersel] /\ f[r] \in Forespoersel
        /\ v \in Nat /\ Len(dom) + 1 \in Nat
        BY DEF TypeOK, Forespoersel
  <1>2. f'[r] = [steg |-> "hale", nokkel |-> f[r].nokkel, hensikt |-> f[r].hensikt,
                 kjent |-> f[r].kjent, versjon |-> v, dom |-> Len(dom) + 1]
        BY <1>1 DEF Forespoersel, Behandle
  <1> HIDE DEF v
  <1>3. f'[r] \in Forespoersel
        BY <1>1, <1>2 DEF Forespoersel, Steg
  <1>4. \A q \in Foresp : q # r => f'[q] = f[q]
        BY <1>1 DEF Behandle
  <1>5. f' \in [Foresp -> Forespoersel]
    <2>1. DOMAIN f' = Foresp /\ f' = [q \in Foresp |-> f'[q]]
          BY <1>1 DEF Behandle
    <2> QED BY <1>1, <1>3, <1>4, <2>1
  <1> QED BY <1>2, <1>4, <1>5 DEF v

LEMMA EtterFunnD ==
    ASSUME TypeOK, NEW r \in Foresp, NEW d \in DOMAIN dom, Slipper(r),
           f' = [f EXCEPT ![r].steg = "hale", ![r].dom = d,
                          ![r].versjon = reg[Maalet(r)].versjon]
    PROVE  /\ f' \in [Foresp -> Forespoersel]
           /\ \A q \in Foresp \ {r} : f'[q] = f[q]
           /\ f'[r].steg = "hale" /\ f'[r].nokkel = f[r].nokkel
           /\ f'[r].hensikt = f[r].hensikt /\ f'[r].kjent = f[r].kjent
           /\ f'[r].dom = d
  <1> DEFINE v == reg[Maalet(r)].versjon
  <1>1. /\ f \in [Foresp -> Forespoersel] /\ f[r] \in Forespoersel
        /\ v \in Nat /\ d \in Nat
        BY BestillingAntatt DEF TypeOK, Forespoersel, Slipper, Maalet
  <1>2. f'[r] = [steg |-> "hale", nokkel |-> f[r].nokkel, hensikt |-> f[r].hensikt,
                 kjent |-> f[r].kjent, versjon |-> v, dom |-> d]
        BY <1>1 DEF Forespoersel, Slipper
  <1> HIDE DEF v
  <1>3. f'[r] \in Forespoersel
        BY <1>1, <1>2 DEF Forespoersel, Steg
  <1>4. \A q \in Foresp : q # r => f'[q] = f[q]
        BY <1>1 DEF Slipper
  <1>5. f' \in [Foresp -> Forespoersel]
    <2>1. DOMAIN f' = Foresp /\ f' = [q \in Foresp |-> f'[q]]
          BY <1>1 DEF Slipper
    <2> QED BY <1>1, <1>3, <1>4, <2>1
  <1> QED BY <1>2, <1>4, <1>5

LEMMA EtterFunn ==
    ASSUME TypeOK, NEW r \in Foresp, Gjenopprett(r)
    PROVE  \E d \in Eksakt(r) :
           /\ f' \in [Foresp -> Forespoersel]
           /\ \A q \in Foresp \ {r} : f'[q] = f[q]
           /\ f'[r].steg = "hale" /\ f'[r].nokkel = f[r].nokkel
           /\ f'[r].hensikt = f[r].hensikt /\ f'[r].kjent = f[r].kjent
           /\ f'[r].dom = d
  <1>1. PICK d \in Eksakt(r) :
           f' = [f EXCEPT ![r].steg = "hale", ![r].dom = d,
                          ![r].versjon = reg[Maalet(r)].versjon]
        BY DEF Gjenopprett
  <1>2. d \in DOMAIN dom /\ Slipper(r)
        BY DEF Eksakt, Tidligere, Under, Gjenopprett
  <1> QED BY <1>1, <1>2, EtterFunnD

LEMMA SlippType ==
    ASSUME TypeOK, NEW r \in Foresp, Slipp(r)
    PROVE  /\ laas' \in [Nokkel \cup Maal -> Foresp \cup {Ingen}]
           /\ \A x \in Nokkel \cup Maal : laas'[x] = IF laas[x] = r THEN Ingen ELSE laas[x]
  BY DEF TypeOK, Slipp

(* An answer ends the request and lets go of its locks.                    *)
LEMMA SvarType ==
    ASSUME TypeOK, NEW r \in Foresp, f[r].steg # "ledig", NEW k \in Kode,
           NEW d \in Nat, Svar(r, k, d)
    PROVE  /\ f' \in [Foresp -> Forespoersel]
           /\ \A q \in Foresp : f'[q] = IF q = r THEN Ledig ELSE f[q]
           /\ \A q \in Foresp : OK(f'[q])
           /\ laas' \in [Nokkel \cup Maal -> Foresp \cup {Ingen}]
           /\ \A x \in Nokkel \cup Maal : laas'[x] = IF laas[x] = r THEN Ingen ELSE laas[x]
           /\ svar' \in [nokkel: Nokkel \cup {Ingen}, hensikt: Hensikt, kjent: BOOLEAN,
                         kode: Kode, dom: Nat]
           /\ svar' = Gitt(f[r], k, d)
  <1>1. OK(Ledig)
        BY LedigType DEF OK, Ledig
  <1>2. f[r] \in Forespoersel /\ f[r].hensikt \in Hensikt
        BY DEF TypeOK
  <1>3. Gitt(f[r], k, d) \in [nokkel: Nokkel \cup {Ingen}, hensikt: Hensikt,
                              kjent: BOOLEAN, kode: Kode, dom: Nat]
        BY <1>2 DEF Gitt, Forespoersel
  <1> QED BY <1>1, <1>3, FType, SlippType DEF Svar

LEMMA InitType == Init => TypeOK
  <1> SUFFICES ASSUME Init PROVE TypeOK
      OBVIOUS
  <1>1. f \in [Foresp -> Forespoersel] /\ \A r \in Foresp : f[r].steg = "ledig"
        BY LedigType DEF Init, Ledig
  <1>2. dom \in Seq(Dom) /\ DOMAIN dom = {}
        BY DEF Init
  <1> QED BY <1>1, <1>2 DEF Init, TypeOK, Dom

(* What the ports, the endpoint and the world do to no more than f, laas,  *)
(* svar and reg.                                                           *)
LEMMA TypeSteg == TypeOK /\ [Next]_vars => TypeOK'
  <1> SUFFICES ASSUME TypeOK, [Next]_vars PROVE TypeOK'
      OBVIOUS
  <1> DEFINE FOK == /\ f' \in [Foresp -> Forespoersel]
                    /\ \A r \in Foresp :
                          /\ f'[r].steg # "ledig" => f'[r].hensikt \in Hensikt
                          /\ f'[r].steg = "hale" => f'[r].dom \in DOMAIN dom'
             LOK == laas' \in [Nokkel \cup Maal -> Foresp \cup {Ingen}]
             Gitte == [nokkel: Nokkel \cup {Ingen}, hensikt: Hensikt,
                       kjent: BOOLEAN, kode: Kode, dom: Nat]
             SOK == svar' \in Gitte \cup {Ingen}
  <1>0. /\ f \in [Foresp -> Forespoersel]
        /\ \A r \in Foresp : /\ f[r].steg # "ledig" => f[r].hensikt \in Hensikt
                             /\ f[r].steg = "hale" => f[r].dom \in DOMAIN dom
        /\ laas \in [Nokkel \cup Maal -> Foresp \cup {Ingen}]
        /\ dom \in Seq(Dom) /\ DOMAIN dom = 1..Len(dom) /\ Len(dom) \in Nat
        /\ reg \in [Maal -> [st: {"klar", "ute", "bundet"}, versjon: Nat]]
        /\ \A i \in Hensikt : i.maal \in Maal
        BY BestillingAntatt DEF TypeOK, Dom
  <1>a. ASSUME FOK, LOK, SOK, UNCHANGED <<reg, claimbar, dom, oppdrag, bok, avbrutt>>
        PROVE  TypeOK'
        BY <1>a DEF TypeOK
  <1>b. ASSUME NEW r \in Foresp, f[r].steg # "ledig", NEW k \in Kode, NEW d \in Nat,
               Svar(r, k, d), dom' = dom
        PROVE  FOK /\ LOK /\ SOK
        BY <1>b, SvarType DEF OK
  <1>1. ASSUME NEW r \in Foresp, NEW n \in Nokkel \cup {Ingen}, NEW i \in Hensikt,
               Opptatt(r, n, i) \/ Gjenspill(r, n, i) \/ Mottak(r, n, i)
        PROVE  TypeOK'
    <2>1. Sendt(n, i) \in Forespoersel /\ Sendt(n, i).steg = "port"
          /\ Sendt(n, i).hensikt = i
          BY SendtType
    <2>2. \A k \in Kode, d \in Nat : Gitt(Sendt(n, i), k, d) \in Gitte
          BY <2>1 DEF Gitt, Forespoersel
    <2>3. CASE Opptatt(r, n, i)
          BY <1>0, <1>a, <2>2, <2>3 DEF Opptatt, Kode
    <2>4. CASE Gjenspill(r, n, i)
      <3>1. n \in Nokkel /\ bok[n] \in [hensikt: Hensikt, dom: DOMAIN dom] \cup {Ingen}
            /\ bok[n] # Ingen
            BY <2>4 DEF Gjenspill, TypeOK
      <3>2. bok[n].dom \in Nat
            BY <3>1, <1>0
      <3> QED BY <1>0, <1>a, <2>2, <2>4, <3>2 DEF Gjenspill, Kode
    <2>5. CASE Mottak(r, n, i)
      <3>1. OK(Sendt(n, i))
            BY <2>1 DEF OK
      <3>2. FOK
            BY <2>5, <3>1, FType DEF Mottak, OK
      <3>3. LOK
            BY <1>0, <2>5 DEF Mottak
      <3> QED BY <1>a, <2>5, <3>2, <3>3 DEF Mottak
    <2> QED BY <1>1, <2>3, <2>4, <2>5
  <1>2. ASSUME NEW r \in Foresp,
               \/ PortAvviser(r) \/ Konflikt(r) \/ IngenDom(r) \/ Kontraktbrudd(r)
               \/ BuntUbrukelig(r)
        PROVE  TypeOK'
    <2>1. f[r].steg # "ledig"
          BY <1>2 DEF PortAvviser, Konflikt, IngenDom, Kontraktbrudd, BuntUbrukelig, Slipper
    <2>2. \E k \in Kode : Svar(r, k, 0)
          BY <1>2 DEF PortAvviser, Konflikt, IngenDom, Kontraktbrudd, BuntUbrukelig, Kode
    <2>3. UNCHANGED <<reg, claimbar, dom, oppdrag, bok, avbrutt>>
          BY <1>2 DEF PortAvviser, Konflikt, IngenDom, Kontraktbrudd, BuntUbrukelig
    <2> QED BY <1>a, <1>b, <2>1, <2>2, <2>3
  <1>3. ASSUME NEW r \in Foresp, Gjenopprett(r) \/ TilBeslutning(r) PROVE TypeOK'
    <2>1. f[r] \in Forespoersel /\ f[r].hensikt \in Hensikt /\ Maalet(r) \in Maal
          /\ reg[Maalet(r)].versjon \in Nat
          BY <1>0, <1>3 DEF Gjenopprett, TilBeslutning, Slipper, Maalet
    <2>2. LOK
          BY <1>0, <1>3, <2>1 DEF Gjenopprett, TilBeslutning, LaasBunt
    <2>3. Eksakt(r) \subseteq DOMAIN dom
          BY DEF Eksakt, Tidligere, Under
    <2>4. CASE Gjenopprett(r)
      <3>1. FOK
        <4>1. dom' = dom
              BY <2>4 DEF Gjenopprett
        <4> QED BY <1>0, <2>1, <2>3, <2>4, <4>1, EtterFunn
      <3> QED BY <1>a, <2>2, <2>4, <3>1 DEF Gjenopprett
    <2>5. CASE TilBeslutning(r)
      <3>1. FOK
            BY <1>0, <2>1, <2>5, EtterPort DEF TilBeslutning
      <3> QED BY <1>a, <2>2, <2>5, <3>1 DEF TilBeslutning
    <2> QED BY <1>3, <2>4, <2>5
  <1>4. ASSUME NEW r \in Foresp, Behandle(r) PROVE TypeOK'
    <2>1. f[r] \in Forespoersel /\ f[r].hensikt \in Hensikt
          BY <1>0, <1>4 DEF Behandle
    <2>2. PICK e \in Dom : dom' = Append(dom, e)
      <3>1. \A u \in {"TILLAT", "NEI"} :
               [nokkel |-> f[r].nokkel, hensikt |-> f[r].hensikt, utfall |-> u,
                versjon |-> f[r].versjon] \in Dom
            BY <2>1 DEF Dom, Forespoersel
      <3> QED BY <1>4, <3>1 DEF Behandle
    <2>3. dom' \in Seq(Dom) /\ DOMAIN dom' = 1..(Len(dom) + 1)
          BY <1>0, <2>2
    <2>4. DOMAIN dom \subseteq DOMAIN dom' /\ Len(dom) + 1 \in DOMAIN dom'
          BY <1>0, <2>3
    <2>5. FOK
          BY <1>0, <1>4, <2>1, <2>4, EtterDom
    <2>6. oppdrag' \subseteq [dom: DOMAIN dom', hensikt: Hensikt, versjon: Nat]
          BY <1>4, <2>4 DEF Behandle, TypeOK
    <2>7. bok' \in [Nokkel -> [hensikt: Hensikt, dom: DOMAIN dom'] \cup {Ingen}]
          BY <1>4, <2>4 DEF Behandle, TypeOK
    <2> QED BY <1>0, <1>4, <2>3, <2>4, <2>5, <2>6, <2>7 DEF Behandle, TypeOK, Dom
  <1>5. ASSUME NEW r \in Foresp, UtenOppdrag(r) \/ MedOppdrag(r) PROVE TypeOK'
    <2>1. f[r] \in Forespoersel /\ f[r].steg = "hale" /\ f[r].hensikt \in Hensikt
          /\ f[r].dom \in DOMAIN dom /\ f[r].dom \in Nat /\ Maalet(r) \in Maal
          BY <1>0, <1>5 DEF UtenOppdrag, MedOppdrag, Maalet, Forespoersel
    <2>2. Svar(r, "ok", f[r].dom) /\ dom' = dom /\ UNCHANGED <<claimbar, avbrutt>>
          BY <1>5 DEF UtenOppdrag, MedOppdrag, Bokfor
    <2>3. FOK /\ LOK /\ SOK
          BY <1>b, <2>1, <2>2 DEF Kode
    <2>4. bok' \in [Nokkel -> [hensikt: Hensikt, dom: DOMAIN dom] \cup {Ingen}]
      <3>1. bok \in [Nokkel -> [hensikt: Hensikt, dom: DOMAIN dom] \cup {Ingen}]
            BY DEF TypeOK
      <3>2. f[r].nokkel \in Nokkel \cup {Ingen}
            BY <2>1 DEF Forespoersel
      <3>3. [hensikt |-> f[r].hensikt, dom |-> f[r].dom] \in [hensikt: Hensikt, dom: DOMAIN dom]
            BY <2>1
      <3> QED BY <1>5, <3>1, <3>2, <3>3 DEF UtenOppdrag, MedOppdrag, Bokfor
    <2>5. oppdrag' \subseteq [dom: DOMAIN dom, hensikt: Hensikt, versjon: Nat]
          BY <1>5, <2>1 DEF UtenOppdrag, MedOppdrag, TypeOK, Forespoersel
    <2>6. reg' \in [Maal -> [st: {"klar", "ute", "bundet"}, versjon: Nat]]
          BY <1>0, <1>5, <2>1 DEF UtenOppdrag, MedOppdrag
    <2> QED BY <2>2, <2>3, <2>4, <2>5, <2>6 DEF TypeOK
  <1>6. ASSUME NEW r \in Foresp, Krasj(r) PROVE TypeOK'
    <2>1. OK(Ledig) /\ f' = [f EXCEPT ![r] = Ledig]
          BY <1>6, LedigType DEF OK, Ledig, Krasj
    <2>2. FOK
          BY <1>6, <2>1, FType DEF OK, Krasj
    <2>3. LOK
          BY <1>6, SlippType DEF Krasj
    <2>4. avbrutt' \subseteq DOMAIN dom
          BY <1>0, <1>6 DEF Krasj, TypeOK
    <2> QED BY <1>6, <2>2, <2>3, <2>4 DEF Krasj, TypeOK
  <1>7. ASSUME NEW m \in Maal, Utlop(m) \/ Fornyes(m) PROVE TypeOK'
    <2>1. reg' \in [Maal -> [st: {"klar", "ute", "bundet"}, versjon: Nat]]
      <3>1. reg[m].versjon \in Nat
            /\ [reg[m] EXCEPT !.st = "ute"] \in [st: {"klar", "ute", "bundet"}, versjon: Nat]
            /\ [st |-> "klar", versjon |-> reg[m].versjon + 1]
                  \in [st: {"klar", "ute", "bundet"}, versjon: Nat]
            BY <1>0
      <3>2. CASE Utlop(m)
            BY <1>0, <3>1, <3>2 DEF Utlop
      <3>3. CASE Fornyes(m)
            BY <1>0, <3>1, <3>3 DEF Fornyes
      <3> QED BY <1>7, <3>2, <3>3
    <2> QED BY <1>7, <2>1 DEF Utlop, Fornyes, TypeOK
  <1>8. CASE Modul
        BY <1>8 DEF Modul, TypeOK
  <1>9. CASE UNCHANGED vars
        BY <1>9 DEF vars, TypeOK
  <1> QED BY <1>1, <1>2, <1>3, <1>4, <1>5, <1>6, <1>7, <1>8, <1>9 DEF Next

(* Every reachable state is well typed: what a request in the tail holds   *)
(* is a decision that is there.                                            *)
THEOREM Typekorrekt == Spec => []TypeOK
  BY InitType, TypeSteg, PTL DEF Spec

-----------------------------------------------------------------------------
(* What a step is to requests, locks and decisions.                        *)

Andre(r) == \A q \in Foresp \ {r} : f'[q] = f[q]
Beholder(r) == /\ f'[r].nokkel = f[r].nokkel /\ f'[r].hensikt = f[r].hensikt
               /\ f'[r].kjent = f[r].kjent

(* Nothing.                                                                *)
Rolig == UNCHANGED <<laas, dom, oppdrag, bok, f, avbrutt>>

(* A request comes, under its key's lock.                                  *)
Mottatt(r) ==
    /\ f[r].steg = "ledig" /\ f'[r].steg = "port"
    /\ f'[r].nokkel \in Nokkel \cup {Ingen} /\ f'[r].hensikt \in Hensikt
    /\ f'[r].kjent = (Under(f'[r].nokkel) # {})
    /\ f'[r].nokkel # Ingen => laas[f'[r].nokkel] = Ingen
    /\ \A x \in Nokkel \cup Maal : 
          laas'[x] = IF x \in Nokkel /\ x = f'[r].nokkel THEN r ELSE laas[x]
    /\ UNCHANGED <<reg, dom, oppdrag, bok, avbrutt>>

(* One passes the ports, towards the endpoint or with a decision found.    *)
Sluppet(r) ==
    /\ f[r].steg = "port" /\ f'[r].steg \in {"dom", "hale"} /\ Beholder(r)
    /\ TarBunt(r) => laas[Maalet(r)] = Ingen
    /\ \A x \in Nokkel \cup Maal :
          laas'[x] = IF TarBunt(r) /\ x = Maalet(r) THEN r ELSE laas[x]
    /\ f'[r].steg = "dom" => /\ Tidligere(r) = {}
                             /\ Evaluering(r) => TarBunt(r) /\ reg[Maalet(r)].st = "klar"
    /\ f'[r].steg = "hale" =>
          /\ f'[r].dom \in Eksakt(r)
          /\ Evaluering(r) /\ dom[f'[r].dom].utfall = "TILLAT" => TarBunt(r)
    /\ UNCHANGED <<reg, dom, oppdrag, bok, avbrutt>>

(* One is decided on.                                                      *)
Avgjort(r) ==
    /\ f[r].steg = "dom" /\ f'[r].steg = "hale" /\ Beholder(r)
    /\ f'[r].dom \notin DOMAIN dom /\ DOMAIN dom' = DOMAIN dom \cup {f'[r].dom}
    /\ \A d \in DOMAIN dom : dom'[d] = dom[d]
    /\ dom'[f'[r].dom].nokkel = f[r].nokkel /\ dom'[f'[r].dom].hensikt = f[r].hensikt
    /\ dom'[f'[r].dom].versjon = f'[r].versjon
    /\ UNCHANGED <<reg, laas, oppdrag, bok, avbrutt>>

(* One is over, and its locks with it.                                     *)
Slutter(r) ==
    /\ f[r].steg # "ledig" /\ f'[r].steg = "ledig"
    /\ \A x \in Nokkel \cup Maal : laas'[x] = IF laas[x] = r THEN Ingen ELSE laas[x]
    /\ dom' = dom

LEMMA Mottas ==
    ASSUME TypeOK, NEW r \in Foresp, NEW n \in Nokkel \cup {Ingen}, NEW i \in Hensikt,
           Mottak(r, n, i)
    PROVE  Mottatt(r) /\ Andre(r)
  <1>1. /\ Sendt(n, i) \in Forespoersel
        /\ Sendt(n, i).steg = "port" /\ Sendt(n, i).hensikt = i
        /\ Sendt(n, i).nokkel = n /\ Sendt(n, i).kjent = (Under(n) # {})
        BY SendtType
  <1>2. f' = [f EXCEPT ![r] = Sendt(n, i)] /\ f \in [Foresp -> Forespoersel]
        BY DEF Mottak, TypeOK
  <1>3. f'[r] = Sendt(n, i) /\ Andre(r)
        BY <1>2 DEF Andre
  <1>4. \A x \in Nokkel \cup Maal :
          laas'[x] = IF x \in Nokkel /\ x = n THEN r ELSE laas[x]
    <2>1. laas \in [Nokkel \cup Maal -> Foresp \cup {Ingen}]
          BY DEF TypeOK
    <2>2. CASE n = Ingen
          BY <2>1, <2>2, BestillingAntatt DEF Mottak
    <2>3. CASE n # Ingen
          BY <2>1, <2>3 DEF Mottak
    <2> QED BY <2>2, <2>3
  <1> QED BY <1>1, <1>3, <1>4 DEF Mottak, Mottatt, NokkelOpptatt

LEMMA Slippes ==
    ASSUME TypeOK, NEW r \in Foresp, Gjenopprett(r) \/ TilBeslutning(r)
    PROVE  Sluppet(r) /\ Andre(r)
  <1>1. /\ f[r].steg = "port" /\ f[r].hensikt \in Hensikt /\ Maalet(r) \in Maal
        /\ Slipper(r) /\ LaasBunt(r)
        /\ UNCHANGED <<reg, dom, oppdrag, bok, avbrutt>>
        BY BestillingAntatt DEF TypeOK, Gjenopprett, TilBeslutning, Slipper, Maalet
  <1>2. TarBunt(r) => laas[Maalet(r)] = Ingen
        BY <1>1 DEF Slipper, BuntOpptatt
  <1>3. \A x \in Nokkel \cup Maal :
          laas'[x] = IF TarBunt(r) /\ x = Maalet(r) THEN r ELSE laas[x]
        BY <1>1 DEF LaasBunt, TypeOK
  <1>4. CASE TilBeslutning(r)
    <2>1. Tidligere(r) = {}
          BY <1>4 DEF TilBeslutning
    <2>2. Evaluering(r) => TarBunt(r) /\ reg[Maalet(r)].st = "klar"
          BY <1>1, <2>1 DEF Slipper, MaalKlart, Gjenopprettbar, TarBunt, Endelig
    <2> QED BY <1>1, <1>2, <1>3, <1>4, <2>1, <2>2, EtterPort DEF Sluppet, Andre, Beholder
  <1>5. CASE Gjenopprett(r)
    <2>1. \A d \in Eksakt(r) : dom[d].utfall = "TILLAT" /\ Evaluering(r) => TarBunt(r)
          BY DEF TarBunt, Endelig
    <2>2. PICK d \in Eksakt(r) : /\ Andre(r) /\ f'[r].steg = "hale" /\ Beholder(r)
                                 /\ f'[r].dom = d
          BY <1>5, EtterFunn DEF Andre, Beholder
    <2> QED BY <1>1, <1>2, <1>3, <2>1, <2>2 DEF Sluppet
  <1> QED BY <1>4, <1>5

LEMMA Avgjores ==
    ASSUME TypeOK, NEW r \in Foresp, Behandle(r)
    PROVE  Avgjort(r) /\ Andre(r)
  <1>1. PICK u \in {"TILLAT", "NEI"} :
           dom' = Append(dom, [nokkel |-> f[r].nokkel, hensikt |-> f[r].hensikt,
                               utfall |-> u, versjon |-> f[r].versjon])
        BY DEF Behandle
  <1>2. dom \in Seq(Dom) /\ Len(dom) \in Nat /\ DOMAIN dom = 1..Len(dom)
        BY DEF TypeOK, Dom
  <1>3. [nokkel |-> f[r].nokkel, hensikt |-> f[r].hensikt, utfall |-> u,
         versjon |-> f[r].versjon] \in Dom
        BY DEF TypeOK, Forespoersel, Behandle, Dom
  <1>4. /\ DOMAIN dom' = DOMAIN dom \cup {Len(dom) + 1} /\ Len(dom) + 1 \notin DOMAIN dom
        /\ \A d \in DOMAIN dom : dom'[d] = dom[d]
        BY <1>1, <1>2, <1>3
  <1>5. dom'[Len(dom) + 1] = [nokkel |-> f[r].nokkel, hensikt |-> f[r].hensikt,
                              utfall |-> u, versjon |-> f[r].versjon]
        BY <1>1, <1>2, <1>3
  <1>6. /\ Andre(r) /\ Beholder(r) /\ f'[r].steg = "hale" /\ f'[r].dom = Len(dom) + 1
        /\ f'[r].versjon = f[r].versjon
        BY EtterDom DEF Andre, Beholder
  <1>7. f[r].steg = "dom" /\ UNCHANGED <<reg, laas, oppdrag, bok, avbrutt>>
        BY DEF Behandle
  <1> QED BY <1>4, <1>5, <1>6, <1>7 DEF Avgjort

LEMMA Slutten ==
    ASSUME TypeOK, NEW r \in Foresp,
           \/ PortAvviser(r) \/ Konflikt(r) \/ IngenDom(r) \/ Kontraktbrudd(r)
           \/ BuntUbrukelig(r) \/ UtenOppdrag(r) \/ MedOppdrag(r) \/ Krasj(r)
    PROVE  Slutter(r) /\ Andre(r)
  <1>1. f[r].steg # "ledig" /\ dom' = dom /\ f' = [f EXCEPT ![r] = Ledig] /\ Slipp(r)
        BY DEF PortAvviser, Konflikt, IngenDom, Kontraktbrudd, BuntUbrukelig, UtenOppdrag,
               MedOppdrag, Krasj, Slipper, Bokfor, Svar
  <1>2. f'[r] = Ledig /\ Andre(r) /\ Ledig.steg = "ledig"
        BY <1>1 DEF TypeOK, Andre, Ledig
  <1> QED BY <1>1, <1>2, SlippType DEF Slutter

LEMMA Kart ==
    ASSUME TypeOK, [Next]_vars
    PROVE  \/ Rolig
           \/ \E r \in Foresp : /\ Andre(r)
                                /\ Mottatt(r) \/ Sluppet(r) \/ Avgjort(r) \/ Slutter(r)
  <1>1. ASSUME NEW r \in Foresp, NEW n \in Nokkel \cup {Ingen}, NEW i \in Hensikt,
               Opptatt(r, n, i) \/ Gjenspill(r, n, i)
        PROVE  Rolig
        BY <1>1 DEF Opptatt, Gjenspill, Rolig
  <1>2. ASSUME NEW m \in Maal, Utlop(m) \/ Fornyes(m) PROVE Rolig
        BY <1>2 DEF Utlop, Fornyes, Rolig
  <1>3. ASSUME Modul \/ UNCHANGED vars PROVE Rolig
        BY <1>3 DEF Modul, vars, Rolig
  <1> QED BY <1>1, <1>2, <1>3, Mottas, Slippes, Avgjores, Slutten DEF Next

-----------------------------------------------------------------------------
(* What holds of requests, their locks and the decisions.                  *)

(* A request holds its key's lock from the first to the last.              *)
Laaser == \A r \in Foresp :
    f[r].steg # "ledig" /\ f[r].nokkel # Ingen => laas[f[r].nokkel] = r

(* It holds its bundle's, from the ports on, while there is to be an order *)
Bunten == \A r \in Foresp :
    /\ \/ f[r].steg = "dom"
       \/ f[r].steg = "hale" /\ dom[f[r].dom].utfall = "TILLAT"
    /\ f[r].hensikt.type = "evaluering"
    => laas[f[r].hensikt.maal] = r

(* Nothing was decided under the key of a request that is on its way to    *)
(* the endpoint.                                                           *)
UtenDom == \A r \in Foresp, d \in DOMAIN dom :
    f[r].steg = "dom" /\ f[r].nokkel # Ingen => dom[d].nokkel # f[r].nokkel

(* The decision a request completes is that of its key and intent.         *)
SinDom == \A r \in Foresp : f[r].steg = "hale" =>
    /\ dom[f[r].dom].nokkel = f[r].nokkel
    /\ dom[f[r].dom].hensikt = f[r].hensikt

(* What was decided under a key when a request came still is.              *)
Kjent == \A r \in Foresp : f[r].steg # "ledig" /\ f[r].kjent =>
    /\ f[r].nokkel # Ingen
    /\ \E d \in DOMAIN dom : dom[d].nokkel = f[r].nokkel

(* One decision under a key.                                               *)
Unik == \A d, e \in DOMAIN dom :
    dom[d].nokkel = dom[e].nokkel /\ dom[d].nokkel # Ingen => d = e

Grunn == Laaser /\ Bunten /\ UtenDom /\ SinDom /\ Kjent /\ Unik

LEMMA Feltene ==
    ASSUME TypeOK
    PROVE  \A q \in Foresp :
           /\ f[q].nokkel \in Nokkel \cup {Ingen} /\ q # Ingen
           /\ f[q].steg # "ledig" => f[q].hensikt \in Hensikt /\ f[q].hensikt.maal \in Maal
           /\ f[q].steg = "hale" => f[q].dom \in DOMAIN dom
  BY BestillingAntatt DEF TypeOK, Forespoersel

LEMMA GrunnSteg == TypeOK /\ Grunn /\ [Next]_vars => Grunn'
  <1> SUFFICES ASSUME TypeOK, Grunn, [Next]_vars PROVE Grunn'
      OBVIOUS
  <1>0. /\ \A q \in Foresp :
           /\ f[q].nokkel \in Nokkel \cup {Ingen} /\ q # Ingen
           /\ f[q].steg # "ledig" => f[q].hensikt \in Hensikt /\ f[q].hensikt.maal \in Maal
           /\ f[q].steg = "hale" => f[q].dom \in DOMAIN dom
        /\ Nokkel \cap Maal = {}
        BY Feltene, BestillingAntatt
  <1>1. CASE Rolig
        BY <1>1 DEF Rolig, Grunn, Laaser, Bunten, UtenDom, SinDom, Kjent, Unik
  <1>2. ASSUME NEW r \in Foresp, Andre(r), Mottatt(r) PROVE Grunn'
    <2>1. Laaser'
          BY <1>0, <1>2 DEF Mottatt, Andre, Grunn, Laaser
    <2>2. Bunten'
          BY <1>0, <1>2 DEF Mottatt, Andre, Grunn, Bunten
    <2>3. Kjent'
      <3>1. dom' = dom /\ f'[r].kjent = (Under(f'[r].nokkel) # {})
            BY <1>2 DEF Mottatt
      <3>2. f'[r].kjent => /\ f'[r].nokkel # Ingen
                           /\ \E d \in DOMAIN dom : dom[d].nokkel = f'[r].nokkel
            BY <3>1, Zenon DEF Under
      <3> QED BY <1>2, <3>1, <3>2 DEF Andre, Grunn, Kjent
    <2>4. UtenDom' /\ SinDom' /\ Unik'
          BY <1>0, <1>2 DEF Mottatt, Andre, Grunn, UtenDom, SinDom, Unik
    <2> QED BY <2>1, <2>2, <2>3, <2>4 DEF Grunn
  <1>3. ASSUME NEW r \in Foresp, Andre(r), Sluppet(r) PROVE Grunn'
    <2>1. Laaser'
          BY <1>0, <1>3 DEF Sluppet, Beholder, Andre, Grunn, Laaser, Maalet
    <2>2. Bunten'
          BY <1>0, <1>3 DEF Sluppet, Beholder, Andre, Grunn, Bunten, Maalet, Evaluering
    <2>3. UtenDom'
          BY <1>0, <1>3 DEF Sluppet, Beholder, Andre, Grunn, UtenDom, Tidligere, Under
    <2>4. SinDom'
          BY <1>0, <1>3 DEF Sluppet, Beholder, Andre, Grunn, SinDom, Eksakt, Tidligere, Under
    <2>5. Kjent' /\ Unik'
          BY <1>0, <1>3 DEF Sluppet, Beholder, Andre, Grunn, Kjent, Unik
    <2> QED BY <2>1, <2>2, <2>3, <2>4, <2>5 DEF Grunn
  <1>4. ASSUME NEW r \in Foresp, Andre(r), Avgjort(r) PROVE Grunn'
    <2>1. Laaser'
          BY <1>0, <1>4 DEF Avgjort, Beholder, Andre, Grunn, Laaser
    <2>2. Bunten'
          BY <1>0, <1>4 DEF Avgjort, Beholder, Andre, Grunn, Bunten
    <2>3. UtenDom'
          BY <1>0, <1>4 DEF Avgjort, Beholder, Andre, Grunn, UtenDom, Laaser
    <2>4. SinDom'
          BY <1>0, <1>4 DEF Avgjort, Beholder, Andre, Grunn, SinDom
    <2>5. Kjent'
          BY <1>0, <1>4 DEF Avgjort, Beholder, Andre, Grunn, Kjent
    <2>6. Unik'
          BY <1>0, <1>4 DEF Avgjort, Grunn, Unik, UtenDom
    <2> QED BY <2>1, <2>2, <2>3, <2>4, <2>5, <2>6 DEF Grunn
  <1>5. ASSUME NEW r \in Foresp, Andre(r), Slutter(r) PROVE Grunn'
    <2>1. Laaser'
          BY <1>0, <1>5 DEF Slutter, Andre, Grunn, Laaser
    <2>2. Bunten'
          BY <1>0, <1>5 DEF Slutter, Andre, Grunn, Bunten
    <2>3. UtenDom' /\ SinDom' /\ Kjent' /\ Unik'
          BY <1>0, <1>5 DEF Slutter, Andre, Grunn, UtenDom, SinDom, Kjent, Unik
    <2> QED BY <2>1, <2>2, <2>3 DEF Grunn
  <1> QED BY <1>1, <1>2, <1>3, <1>4, <1>5, Kart

-----------------------------------------------------------------------------
(* What holds of orders, the book and the register.                        *)

Boken == \A n \in Nokkel : bok[n] # Ingen =>
    /\ dom[bok[n].dom].nokkel = n /\ dom[bok[n].dom].hensikt = bok[n].hensikt
    /\ dom[bok[n].dom].utfall = "TILLAT" => HarOppdrag(bok[n].dom)

(* No one else has bound the bundle of a request that is decided on, or on *)
(* its way to be, unless it took over the permit of one that died or       *)
(* breached its contract.                                                  *)
Ubundet == \A r \in Foresp : f[r].steg # "ledig" /\ Evaluering(r) =>
    /\ f[r].steg = "dom" => reg[Maalet(r)].st # "bundet"
    /\ /\ f[r].steg = "hale" /\ Skylder(r) /\ f[r].dom \notin avbrutt
       /\ ~KontraktenBrytes(f[r].dom)
       => reg[Maalet(r)].st # "bundet"

(* What is to be written has the payload the decision was about, unless    *)
(* the decision was taken over after a death: if that one meets the        *)
(* contract, so does this one.                                             *)
Veid == \A r \in Foresp :
    /\ f[r].steg = "hale" /\ Skylder(r) /\ f[r].dom \notin avbrutt
    /\ ~KontraktenBrytes(f[r].dom)
    => ~Bryter(r)

IInv == TypeOK /\ Grunn /\ Boken /\ KvotenGirJobb /\ Ubundet /\ Veid

(* The tail: what it writes.                                               *)
LEMMA Halen ==
    ASSUME TypeOK, Grunn, NEW r \in Foresp, UtenOppdrag(r) \/ MedOppdrag(r)
    PROVE  /\ f[r].steg = "hale" /\ f[r].dom \in DOMAIN dom
           /\ dom' = dom /\ avbrutt' = avbrutt /\ oppdrag \subseteq oppdrag'
           /\ dom[f[r].dom].nokkel = f[r].nokkel /\ dom[f[r].dom].hensikt = f[r].hensikt
           /\ dom[f[r].dom].utfall = "TILLAT" => \E o \in oppdrag' : o.dom = f[r].dom
           /\ \A n \in Nokkel : \/ bok'[n] = bok[n]
                                \/ /\ n = f[r].nokkel
                                   /\ bok'[n] = [hensikt |-> f[r].hensikt, dom |-> f[r].dom]
  <1>1. /\ f[r].steg = "hale" /\ f[r].dom \in DOMAIN dom
        /\ dom' = dom /\ avbrutt' = avbrutt
        BY Feltene DEF UtenOppdrag, MedOppdrag
  <1>2. dom[f[r].dom].nokkel = f[r].nokkel /\ dom[f[r].dom].hensikt = f[r].hensikt
        BY <1>1 DEF Grunn, SinDom
  <1>3. oppdrag \subseteq oppdrag'
        BY DEF UtenOppdrag, MedOppdrag
  <1>4. dom[f[r].dom].utfall = "TILLAT" => \E o \in oppdrag' : o.dom = f[r].dom
    <2>1. CASE UtenOppdrag(r)
          BY <1>3, <2>1 DEF UtenOppdrag, Skylder, HarOppdrag
    <2>2. CASE MedOppdrag(r)
      <3>1. [dom |-> f[r].dom, hensikt |-> f[r].hensikt, versjon |-> f[r].versjon] \in oppdrag'
            BY <2>2 DEF MedOppdrag
      <3> QED BY <3>1
    <2> QED BY <2>1, <2>2
  <1>5. \A n \in Nokkel : \/ bok'[n] = bok[n]
                          \/ /\ n = f[r].nokkel
                             /\ bok'[n] = [hensikt |-> f[r].hensikt, dom |-> f[r].dom]
        BY DEF UtenOppdrag, MedOppdrag, Bokfor, TypeOK
  <1> QED BY <1>1, <1>2, <1>3, <1>4, <1>5

(* Everything else leaves the book and the orders alone.                   *)
LEMMA Ellers ==
    ASSUME TypeOK, [Next]_vars
    PROVE  \/ \E r \in Foresp : UtenOppdrag(r) \/ MedOppdrag(r)
           \/ /\ UNCHANGED <<oppdrag, bok>>
              /\ \A d \in DOMAIN dom : d \in DOMAIN dom' /\ dom'[d] = dom[d]
  <1>1. ASSUME NEW r \in Foresp, Behandle(r)
        PROVE  /\ UNCHANGED <<oppdrag, bok>>
               /\ \A d \in DOMAIN dom : d \in DOMAIN dom' /\ dom'[d] = dom[d]
        BY <1>1, Avgjores DEF Avgjort
  <1>2. ASSUME NEW r \in Foresp, NEW n \in Nokkel \cup {Ingen}, NEW i \in Hensikt,
               Opptatt(r, n, i) \/ Gjenspill(r, n, i) \/ Mottak(r, n, i)
        PROVE  UNCHANGED <<oppdrag, bok, dom>>
        BY <1>2 DEF Opptatt, Gjenspill, Mottak
  <1>3. ASSUME NEW r \in Foresp,
               \/ PortAvviser(r) \/ Konflikt(r) \/ Gjenopprett(r) \/ TilBeslutning(r)
               \/ IngenDom(r) \/ Kontraktbrudd(r) \/ BuntUbrukelig(r) \/ Krasj(r)
        PROVE  UNCHANGED <<oppdrag, bok, dom>>
        BY <1>3 DEF PortAvviser, Konflikt, Gjenopprett, TilBeslutning, IngenDom,
                    Kontraktbrudd, BuntUbrukelig, Krasj
  <1>4. ASSUME NEW m \in Maal, Utlop(m) \/ Fornyes(m) PROVE UNCHANGED <<oppdrag, bok, dom>>
        BY <1>4 DEF Utlop, Fornyes
  <1>5. ASSUME Modul \/ UNCHANGED vars PROVE UNCHANGED <<oppdrag, bok, dom>>
        BY <1>5 DEF Modul, vars
  <1> QED BY <1>1, <1>2, <1>3, <1>4, <1>5 DEF Next

LEMMA BokenSteg == TypeOK /\ Grunn /\ Boken /\ [Next]_vars => Boken'
  <1> SUFFICES ASSUME TypeOK, Grunn, Boken, [Next]_vars PROVE Boken'
      OBVIOUS
  <1>0. \A n \in Nokkel : bok[n] # Ingen => bok[n].dom \in DOMAIN dom
        BY DEF TypeOK
  <1>1. CASE /\ UNCHANGED <<oppdrag, bok>>
             /\ \A d \in DOMAIN dom : d \in DOMAIN dom' /\ dom'[d] = dom[d]
        BY <1>0, <1>1 DEF Boken, HarOppdrag
  <1>2. ASSUME NEW r \in Foresp, UtenOppdrag(r) \/ MedOppdrag(r) PROVE Boken'
    <2>1. /\ dom' = dom /\ oppdrag \subseteq oppdrag'
          /\ dom[f[r].dom].nokkel = f[r].nokkel /\ dom[f[r].dom].hensikt = f[r].hensikt
          /\ dom[f[r].dom].utfall = "TILLAT" => \E o \in oppdrag' : o.dom = f[r].dom
          /\ \A n \in Nokkel : \/ bok'[n] = bok[n]
                               \/ /\ n = f[r].nokkel
                                  /\ bok'[n] = [hensikt |-> f[r].hensikt, dom |-> f[r].dom]
          BY <1>2, Halen
    <2> QED BY <2>1 DEF Boken, HarOppdrag
  <1> QED BY <1>1, <1>2, Ellers

(* A bundle that has expired stays so; one is bound by its order only.     *)
LEMMA RegSteg ==
    ASSUME TypeOK, [Next]_vars, NEW m \in Maal
    PROVE  /\ ErBunt(m) /\ reg[m].st = "ute" => reg'[m].st = "ute"
           /\ reg'[m].st = "bundet" =>
                 \/ reg[m].st = "bundet"
                 \/ \E r \in Foresp : MedOppdrag(r) /\ Evaluering(r) /\ m = Maalet(r)
  <1>0. reg \in [Maal -> [st: {"klar", "ute", "bundet"}, versjon: Nat]]
        BY DEF TypeOK
  <1>1. ASSUME NEW x \in Maal, Utlop(x)
        PROVE  /\ reg[m].st = "ute" => reg'[m].st = "ute"
               /\ reg'[m].st = "bundet" => reg[m].st = "bundet"
        BY <1>0, <1>1 DEF Utlop
  <1>2. ASSUME NEW x \in Maal, Fornyes(x)
        PROVE  /\ ErBunt(m) /\ reg[m].st = "ute" => reg'[m].st = "ute"
               /\ reg'[m].st = "bundet" => reg[m].st = "bundet"
    <2>1. CASE x = m
          BY <1>0, <1>2, <2>1 DEF Fornyes
    <2>2. CASE x # m
          BY <1>0, <1>2, <2>2 DEF Fornyes
    <2> QED BY <2>1, <2>2
  <1>3. ASSUME NEW r \in Foresp, MedOppdrag(r)
        PROVE  /\ reg[m].st = "ute" => reg'[m].st = "ute"
               /\ reg'[m].st = "bundet" =>
                     reg[m].st = "bundet" \/ (Evaluering(r) /\ m = Maalet(r))
    <2>1. CASE Evaluering(r)
      <3>1. CASE Maalet(r) = m
            BY <1>0, <1>3, <2>1, <3>1 DEF MedOppdrag
      <3>2. CASE Maalet(r) # m
            BY <1>0, <1>3, <2>1, <3>2 DEF MedOppdrag
      <3> QED BY <3>1, <3>2
    <2>2. CASE ~Evaluering(r)
          BY <1>3, <2>2 DEF MedOppdrag
    <2> QED BY <2>1, <2>2
  <1>4. ASSUME NEW r \in Foresp, NEW n \in Nokkel \cup {Ingen}, NEW i \in Hensikt,
               Opptatt(r, n, i) \/ Gjenspill(r, n, i) \/ Mottak(r, n, i)
        PROVE  reg' = reg
        BY <1>4 DEF Opptatt, Gjenspill, Mottak
  <1>5. ASSUME NEW r \in Foresp,
               \/ PortAvviser(r) \/ Konflikt(r) \/ Gjenopprett(r) \/ TilBeslutning(r)
               \/ Behandle(r) \/ IngenDom(r) \/ Kontraktbrudd(r) \/ UtenOppdrag(r)
               \/ BuntUbrukelig(r) \/ Krasj(r)
        PROVE  reg' = reg
        BY <1>5 DEF PortAvviser, Konflikt, Gjenopprett, TilBeslutning, Behandle, IngenDom,
                    Kontraktbrudd, UtenOppdrag, BuntUbrukelig, Krasj
  <1>6. ASSUME Modul \/ UNCHANGED vars PROVE reg' = reg
        BY <1>6 DEF Modul, vars
  <1> QED BY <1>1, <1>2, <1>3, <1>4, <1>5, <1>6 DEF Next

(* A permit with its order, its request, its dead request, its expired     *)
(* bundle or its contract breached.                                        *)
Dekket(d) ==
    \/ \E o \in oppdrag : o.dom = d
    \/ d \in avbrutt \/ KontraktenBrytes(d)
    \/ \E r \in Foresp : f[r].steg = "hale" /\ f[r].dom = d
    \/ dom[d].hensikt.type = "evaluering" /\ reg[dom[d].hensikt.maal].st = "ute"

LEMMA KvotenDef ==
    KvotenGirJobb <=> \A d \in DOMAIN dom : dom[d].utfall = "TILLAT" => Dekket(d)
  BY DEF KvotenGirJobb, Dekket, HarOppdrag

(* It stays so while no request in the tail ends.                          *)
LEMMA DekketVidere ==
    ASSUME TypeOK, [Next]_vars, NEW d \in DOMAIN dom, Dekket(d),
           d \in DOMAIN dom', dom'[d] = dom[d],
           oppdrag \subseteq oppdrag', avbrutt \subseteq avbrutt',
           \A q \in Foresp : f[q].steg = "hale" /\ f[q].dom = d => f'[q] = f[q]
    PROVE  Dekket(d)'
  <1>1. dom[d].hensikt \in Hensikt /\ dom[d].hensikt.maal \in Maal
    <2>1. dom \in Seq(Dom)
          BY DEF TypeOK, Dom
    <2>2. dom[d] \in Dom
          BY <2>1
    <2> QED BY <2>2, BestillingAntatt DEF Dom
  <1>2. dom[d].hensikt.type = "evaluering" => ErBunt(dom[d].hensikt.maal)
        BY <1>1 DEF ErBunt
  <1>3. dom[d].hensikt.type = "evaluering" /\ reg[dom[d].hensikt.maal].st = "ute"
          => reg'[dom[d].hensikt.maal].st = "ute"
        BY <1>1, <1>2, RegSteg
  <1> QED BY <1>3 DEF Dekket, KontraktenBrytes

LEMMA KvotenSteg == IInv /\ [Next]_vars => KvotenGirJobb'
  <1> SUFFICES ASSUME IInv, [Next]_vars,
                      NEW d \in DOMAIN dom', dom'[d].utfall = "TILLAT"
               PROVE  Dekket(d)'
      BY DEF KvotenGirJobb, Dekket, HarOppdrag
  <1>0. /\ TypeOK /\ Grunn /\ Ubundet /\ Veid
        /\ \A e \in DOMAIN dom : dom[e].utfall = "TILLAT" => Dekket(e)
        BY KvotenDef DEF IInv
  <1>1. CASE Rolig
        BY <1>0, <1>1, DekketVidere DEF Rolig
  <1>2. ASSUME NEW r \in Foresp, Andre(r), Mottatt(r) \/ Sluppet(r) PROVE Dekket(d)'
    <2>1. f[r].steg # "hale" /\ UNCHANGED <<dom, oppdrag, avbrutt>>
          BY <1>2 DEF Mottatt, Sluppet
    <2> QED BY <1>0, <1>2, <2>1, DekketVidere DEF Andre
  <1>3. ASSUME NEW r \in Foresp, Andre(r), Avgjort(r) PROVE Dekket(d)'
    <2>1. CASE d \in DOMAIN dom
      <3>1. f[r].steg # "hale" /\ UNCHANGED <<oppdrag, avbrutt>> /\ dom'[d] = dom[d]
            BY <1>3, <2>1 DEF Avgjort
      <3> QED BY <1>0, <1>3, <2>1, <3>1, DekketVidere DEF Andre
    <2>2. CASE d \notin DOMAIN dom
          BY <1>3, <2>2 DEF Avgjort, Dekket
    <2> QED BY <2>1, <2>2
  <1>4. ASSUME NEW r \in Foresp, PortAvviser(r) \/ Konflikt(r) \/ IngenDom(r)
        PROVE  Dekket(d)'
    <2>1. f[r].steg # "hale" /\ UNCHANGED <<dom, oppdrag, avbrutt>>
          BY <1>4 DEF PortAvviser, Konflikt, IngenDom, Slipper
    <2>2. Andre(r)
          BY <1>0, <1>4, Slutten
    <2> QED BY <1>0, <2>1, <2>2, DekketVidere DEF Andre
  <1>5. ASSUME NEW r \in Foresp, BuntUbrukelig(r) PROVE Dekket(d)'
    <2>1. /\ f[r].steg = "hale" /\ Skylder(r) /\ Evaluering(r)
          /\ reg[Maalet(r)].st # "klar" /\ UNCHANGED <<reg, dom, oppdrag, avbrutt>>
          BY <1>5 DEF BuntUbrukelig
    <2>2. Andre(r)
          BY <1>0, <1>5, Slutten
    <2>3. CASE d = f[r].dom
      <3>1. dom[d].hensikt = f[r].hensikt /\ Maalet(r) \in Maal
            BY <1>0, <2>1, <2>3, Feltene DEF Grunn, SinDom, Maalet
      <3>2. d \in avbrutt \/ KontraktenBrytes(d) \/ reg[Maalet(r)].st = "ute"
            BY <1>0, <2>1, <2>3, <3>1 DEF Ubundet, TypeOK
      <3> QED BY <2>1, <3>1, <3>2 DEF Dekket, Maalet, Evaluering, KontraktenBrytes
    <2>4. CASE d # f[r].dom
          BY <1>0, <2>1, <2>2, <2>4, DekketVidere DEF Andre
    <2> QED BY <2>3, <2>4
  <1>5b. ASSUME NEW r \in Foresp, Kontraktbrudd(r) PROVE Dekket(d)'
    <2>1. /\ f[r].steg = "hale" /\ Bryter(r) /\ UNCHANGED <<reg, dom, oppdrag, avbrutt>>
          BY <1>5b DEF Kontraktbrudd
    <2>2. Andre(r)
          BY <1>0, <1>5b, Slutten
    <2>3. CASE d = f[r].dom
      <3>1. HarOppdrag(d) \/ d \in avbrutt \/ KontraktenBrytes(d)
            BY <1>0, <2>1, <2>3 DEF Veid, Skylder, Bryter
      <3> QED BY <2>1, <3>1 DEF Dekket, HarOppdrag, KontraktenBrytes
    <2>4. CASE d # f[r].dom
          BY <1>0, <2>1, <2>2, <2>4, DekketVidere DEF Andre
    <2> QED BY <2>3, <2>4
  <1>6. ASSUME NEW r \in Foresp, UtenOppdrag(r) \/ MedOppdrag(r) PROVE Dekket(d)'
    <2>1. /\ dom' = dom /\ avbrutt' = avbrutt /\ oppdrag \subseteq oppdrag'
          /\ dom[f[r].dom].utfall = "TILLAT" => \E o \in oppdrag' : o.dom = f[r].dom
          BY <1>0, <1>6, Halen
    <2>2. Andre(r)
          BY <1>0, <1>6, Slutten
    <2>3. CASE d = f[r].dom
          BY <2>1, <2>3 DEF Dekket
    <2>4. CASE d # f[r].dom
          BY <1>0, <2>1, <2>2, <2>4, DekketVidere DEF Andre
    <2> QED BY <2>3, <2>4
  <1>7. ASSUME NEW r \in Foresp, Krasj(r) PROVE Dekket(d)'
    <2>1. /\ UNCHANGED <<dom, oppdrag>> /\ avbrutt \subseteq avbrutt'
          /\ f[r].steg = "hale" => f[r].dom \in avbrutt'
          BY <1>7 DEF Krasj
    <2>2. Andre(r)
          BY <1>0, <1>7, Slutten
    <2>3. CASE f[r].steg = "hale" /\ d = f[r].dom
          BY <2>1, <2>3 DEF Dekket
    <2>4. CASE ~(f[r].steg = "hale" /\ d = f[r].dom)
          BY <1>0, <2>1, <2>2, <2>4, DekketVidere DEF Andre
    <2> QED BY <2>3, <2>4
  <1> QED
    <2>1. ASSUME NEW m \in Maal, Utlop(m) \/ Fornyes(m) PROVE Rolig
          BY <2>1 DEF Utlop, Fornyes, Rolig
    <2>2. ASSUME Modul \/ UNCHANGED vars PROVE Rolig
          BY <2>2 DEF Modul, vars, Rolig
    <2>3. ASSUME NEW r \in Foresp, NEW n \in Nokkel \cup {Ingen}, NEW i \in Hensikt,
                 Opptatt(r, n, i) \/ Gjenspill(r, n, i)
          PROVE  Rolig
          BY <2>3 DEF Opptatt, Gjenspill, Rolig
    <2> QED BY <1>0, <1>1, <1>2, <1>3, <1>4, <1>5, <1>5b, <1>6, <1>7, <2>1, <2>2, <2>3,
               Mottas, Slippes, Avgjores DEF Next

(* Decisions, orders and deaths are never taken back.                      *)
LEMMA Vokser ==
    ASSUME TypeOK, Grunn, [Next]_vars
    PROVE  /\ oppdrag \subseteq oppdrag' /\ avbrutt \subseteq avbrutt'
           /\ \A d \in DOMAIN dom : d \in DOMAIN dom' /\ dom'[d] = dom[d]
  <1>1. /\ oppdrag \subseteq oppdrag'
        /\ \A d \in DOMAIN dom : d \in DOMAIN dom' /\ dom'[d] = dom[d]
        BY Ellers, Halen
  <1>2. ASSUME NEW r \in Foresp, Behandle(r) \/ Gjenopprett(r) \/ TilBeslutning(r)
        PROVE  avbrutt' = avbrutt
        BY <1>2 DEF Behandle, Gjenopprett, TilBeslutning
  <1>3. ASSUME NEW r \in Foresp, NEW n \in Nokkel \cup {Ingen}, NEW i \in Hensikt,
               Opptatt(r, n, i) \/ Gjenspill(r, n, i) \/ Mottak(r, n, i)
        PROVE  avbrutt' = avbrutt
        BY <1>3 DEF Opptatt, Gjenspill, Mottak
  <1>4. ASSUME NEW r \in Foresp,
               \/ PortAvviser(r) \/ Konflikt(r) \/ IngenDom(r) \/ Kontraktbrudd(r)
               \/ BuntUbrukelig(r) \/ UtenOppdrag(r) \/ MedOppdrag(r) \/ Krasj(r)
        PROVE  avbrutt \subseteq avbrutt'
        BY <1>4 DEF PortAvviser, Konflikt, IngenDom, Kontraktbrudd, BuntUbrukelig,
                    UtenOppdrag, MedOppdrag, Krasj
  <1>5. ASSUME NEW m \in Maal, Utlop(m) \/ Fornyes(m) PROVE avbrutt' = avbrutt
        BY <1>5 DEF Utlop, Fornyes
  <1>6. ASSUME Modul \/ UNCHANGED vars PROVE avbrutt' = avbrutt
        BY <1>6 DEF Modul, vars
  <1> QED BY <1>1, <1>2, <1>3, <1>4, <1>5, <1>6 DEF Next

(* Ubundet, of one request.                                                *)
UbundetAv(q) == f[q].steg # "ledig" /\ f[q].hensikt.type = "evaluering" =>
    /\ f[q].steg = "dom" => reg[f[q].hensikt.maal].st # "bundet"
    /\ /\ f[q].steg = "hale" /\ dom[f[q].dom].utfall = "TILLAT"
       /\ ~\E o \in oppdrag : o.dom = f[q].dom
       /\ f[q].dom \notin avbrutt /\ ~KontraktenBrytes(f[q].dom)
       => reg[f[q].hensikt.maal].st # "bundet"

LEMMA UbundetVidere ==
    ASSUME TypeOK, Grunn, [Next]_vars, NEW q \in Foresp, f'[q] = f[q], UbundetAv(q)
    PROVE  UbundetAv(q)'
  <1> SUFFICES ASSUME f[q].steg # "ledig", f[q].hensikt.type = "evaluering"
               PROVE  UbundetAv(q)'
      BY DEF UbundetAv
  <1>1. /\ f[q].hensikt.maal \in Maal
        /\ f[q].steg = "hale" => f[q].dom \in DOMAIN dom
        BY Feltene
  <1>2. /\ oppdrag \subseteq oppdrag' /\ avbrutt \subseteq avbrutt'
        /\ \A d \in DOMAIN dom : d \in DOMAIN dom' /\ dom'[d] = dom[d]
        BY Vokser
  <1>3. CASE reg'[f[q].hensikt.maal].st = "bundet" => reg[f[q].hensikt.maal].st = "bundet"
        BY <1>1, <1>2, <1>3 DEF UbundetAv, KontraktenBrytes
  <1>4. CASE \E r \in Foresp : /\ MedOppdrag(r) /\ Evaluering(r)
                               /\ f[q].hensikt.maal = Maalet(r)
    <2>1. PICK r \in Foresp : /\ MedOppdrag(r) /\ f[r].hensikt.type = "evaluering"
                              /\ f[q].hensikt.maal = f[r].hensikt.maal
          BY <1>4 DEF Evaluering, Maalet
    <2>2. f[r].steg = "hale" /\ dom[f[r].dom].utfall = "TILLAT"
          BY <2>1 DEF MedOppdrag, Skylder
    <2>3. laas[f[r].hensikt.maal] = r
          BY <2>1, <2>2 DEF Grunn, Bunten
    <2>4. q # r
          BY <2>1, <2>2, Slutten DEF Slutter
    <2>5. ~(\/ f[q].steg = "dom"
            \/ f[q].steg = "hale" /\ dom[f[q].dom].utfall = "TILLAT")
          BY <2>1, <2>3, <2>4 DEF Grunn, Bunten
    <2> QED BY <1>1, <1>2, <2>5 DEF UbundetAv, KontraktenBrytes
  <1> QED BY <1>1, <1>3, <1>4, RegSteg

LEMMA UbundetSteg == IInv /\ [Next]_vars => Ubundet'
  <1> SUFFICES ASSUME IInv, [Next]_vars, NEW q \in Foresp PROVE UbundetAv(q)'
      BY DEF Ubundet, UbundetAv, Evaluering, Maalet, Skylder, HarOppdrag
  <1>0. /\ TypeOK /\ Grunn /\ UbundetAv(q)
        /\ \A d \in DOMAIN dom : dom[d].utfall = "TILLAT" => Dekket(d)
        BY KvotenDef DEF IInv, Ubundet, UbundetAv, Evaluering, Maalet, Skylder, HarOppdrag
  <1>1. CASE f'[q] = f[q]
        BY <1>0, <1>1, UbundetVidere
  <1>2. CASE Mottatt(q) \/ Slutter(q)
        BY <1>2 DEF Mottatt, Slutter, UbundetAv
  <1>3. CASE Avgjort(q)
        BY <1>0, <1>3 DEF Avgjort, Beholder, UbundetAv
  <1>4. CASE Sluppet(q)
    <2>1. CASE f'[q].steg = "dom"
          BY <1>4, <2>1 DEF Sluppet, Beholder, UbundetAv, Evaluering, Maalet
    <2>2. CASE f'[q].steg = "hale"
      <3> DEFINE d == f'[q].dom
      <3>1. /\ d \in DOMAIN dom /\ dom[d].nokkel = f[q].nokkel /\ f[q].nokkel # Ingen
            /\ dom[d].hensikt = f[q].hensikt
            BY <1>4, <2>2 DEF Sluppet, Eksakt, Tidligere, Under
      <3>2. f[q].steg = "port" /\ UNCHANGED <<reg, dom, oppdrag, avbrutt>> /\ Beholder(q)
            BY <1>4 DEF Sluppet
      <3>3. ~\E s \in Foresp : f[s].steg = "hale" /\ f[s].dom = d
            BY <1>0, <3>1, <3>2 DEF Grunn, SinDom, Laaser
      <3>4. CASE dom[d].utfall = "TILLAT"
            BY <1>0, <2>2, <3>1, <3>2, <3>3, <3>4
            DEF Dekket, UbundetAv, Beholder, KontraktenBrytes
      <3>5. CASE dom[d].utfall # "TILLAT"
            BY <2>2, <3>2, <3>5 DEF UbundetAv
      <3> QED BY <3>4, <3>5
    <2> QED BY <1>4, <2>1, <2>2 DEF Sluppet
  <1> QED BY <1>0, <1>1, <1>2, <1>3, <1>4, Kart DEF Andre, Rolig

(* Veid, of one request.                                                   *)
VeidAv(q) ==
    /\ f[q].steg = "hale" /\ dom[f[q].dom].utfall = "TILLAT"
    /\ ~\E o \in oppdrag : o.dom = f[q].dom
    /\ f[q].dom \notin avbrutt /\ ~KontraktenBrytes(f[q].dom)
    => Nyttelast(f[q].hensikt, f[q].versjon) \in Kontrakt

LEMMA VeidSteg == IInv /\ [Next]_vars => Veid'
  <1> SUFFICES ASSUME IInv, [Next]_vars, NEW q \in Foresp PROVE VeidAv(q)'
      BY DEF Veid, VeidAv, Skylder, Bryter, HarOppdrag
  <1>0. /\ TypeOK /\ Grunn /\ VeidAv(q)
        /\ \A d \in DOMAIN dom : dom[d].utfall = "TILLAT" => Dekket(d)
        BY KvotenDef DEF IInv, Veid, VeidAv, Skylder, Bryter, HarOppdrag
  <1>1. CASE f'[q] = f[q]
    <2>1. f[q].steg = "hale" => f[q].dom \in DOMAIN dom
          BY <1>0, Feltene
    <2>2. /\ oppdrag \subseteq oppdrag' /\ avbrutt \subseteq avbrutt'
          /\ \A d \in DOMAIN dom : d \in DOMAIN dom' /\ dom'[d] = dom[d]
          BY <1>0, Vokser
    <2> QED BY <1>0, <1>1, <2>1, <2>2 DEF VeidAv, KontraktenBrytes
  <1>2. CASE Mottatt(q) \/ Slutter(q)
        BY <1>2 DEF Mottatt, Slutter, VeidAv
  <1>3. CASE Avgjort(q)
        BY <1>3 DEF Avgjort, Beholder, VeidAv, KontraktenBrytes
  <1>4. CASE Sluppet(q)
    <2>1. CASE f'[q].steg = "dom"
          BY <2>1 DEF VeidAv
    <2>2. CASE f'[q].steg = "hale"
      <3> DEFINE d == f'[q].dom
      <3>1. /\ d \in DOMAIN dom /\ dom[d].nokkel = f[q].nokkel /\ f[q].nokkel # Ingen
            /\ dom[d].hensikt = f[q].hensikt
            BY <1>4, <2>2 DEF Sluppet, Eksakt, Tidligere, Under
      <3>2. f[q].steg = "port" /\ UNCHANGED <<reg, dom, oppdrag, avbrutt>> /\ Beholder(q)
            BY <1>4 DEF Sluppet
      <3>3. ~\E s \in Foresp : f[s].steg = "hale" /\ f[s].dom = d
            BY <1>0, <3>1, <3>2 DEF Grunn, SinDom, Laaser
      <3>4. CASE f[q].hensikt.type = "evaluering"
        <4>1. \A v, w : Nyttelast(f[q].hensikt, v) = Nyttelast(f[q].hensikt, w)
              BY <3>4 DEF Nyttelast
        <4> QED BY <3>1, <3>2, <4>1 DEF VeidAv, Beholder, KontraktenBrytes
      <3>5. CASE f[q].hensikt.type # "evaluering"
            BY <1>0, <3>1, <3>2, <3>3, <3>5 DEF Dekket, VeidAv, Beholder, KontraktenBrytes
      <3> QED BY <3>4, <3>5
    <2> QED BY <1>4, <2>1, <2>2 DEF Sluppet
  <1> QED BY <1>0, <1>1, <1>2, <1>3, <1>4, Kart DEF Andre, Rolig

LEMMA InitIInv == Init => IInv
  <1> SUFFICES ASSUME Init PROVE IInv
      OBVIOUS
  <1>1. TypeOK /\ DOMAIN dom = {} /\ \A r \in Foresp : f[r].steg = "ledig"
        BY InitType DEF Init, Ledig
  <1>2. Grunn
        BY <1>1 DEF Grunn, Laaser, Bunten, UtenDom, SinDom, Kjent, Unik
  <1>3. Boken /\ KvotenGirJobb /\ Ubundet /\ Veid
        BY <1>1 DEF Init, Boken, KvotenGirJobb, Ubundet, Veid
  <1> QED BY <1>1, <1>2, <1>3 DEF IInv

LEMMA Induktiv == IInv /\ [Next]_vars => IInv'
  BY TypeSteg, GrunnSteg, BokenSteg, KvotenSteg, UbundetSteg, VeidSteg DEF IInv

LEMMA Invariant == Spec => []IInv
  BY InitIInv, Induktiv, PTL DEF Spec

-----------------------------------------------------------------------------
(* The answers.  They are of the step that gave them.                      *)

LEMMA SvarEn == IInv /\ EnDomPerNokkel /\ [Next]_vars => EnDomPerNokkel'
  <1> SUFFICES ASSUME IInv, EnDomPerNokkel, [Next]_vars PROVE EnDomPerNokkel'
      OBVIOUS
  <1>0. TypeOK /\ Grunn /\ Boken /\ Unik'
        BY GrunnSteg DEF IInv, Grunn
  <1> DEFINE Riktig == svar' # Ingen /\ svar'.kode = "ok" =>
                 /\ dom'[svar'.dom].nokkel = svar'.nokkel
                 /\ dom'[svar'.dom].hensikt = svar'.hensikt
                 /\ dom'[svar'.dom].utfall = "TILLAT" => \E o \in oppdrag' : o.dom = svar'.dom
  <1>1. SUFFICES Riktig
        BY <1>0, <1>1 DEF EnDomPerNokkel, Unik, Svarte, HarOppdrag
  <1>2. ASSUME NEW r \in Foresp, UtenOppdrag(r) \/ MedOppdrag(r) PROVE Riktig
    <2>1. svar' = Gitt(f[r], "ok", f[r].dom)
          BY <1>2 DEF UtenOppdrag, MedOppdrag, Bokfor, Svar
    <2>2. svar'.dom = f[r].dom /\ svar'.nokkel = f[r].nokkel /\ svar'.hensikt = f[r].hensikt
          BY <2>1 DEF Gitt
    <2> QED BY <1>0, <1>2, <2>2, Halen
  <1>3. ASSUME NEW r \in Foresp, NEW n \in Nokkel \cup {Ingen}, NEW i \in Hensikt,
               Gjenspill(r, n, i)
        PROVE  Riktig
    <2>1. /\ n \in Nokkel /\ bok[n] # Ingen /\ UNCHANGED <<dom, oppdrag>>
          /\ svar' = IF bok[n].hensikt = i THEN Gitt(Sendt(n, i), "ok", bok[n].dom)
                                          ELSE Gitt(Sendt(n, i), "konflikt", 0)
          BY <1>3 DEF Gjenspill
    <2>2. CASE bok[n].hensikt = i
      <3>1. svar'.dom = bok[n].dom /\ svar'.nokkel = n /\ svar'.hensikt = i
            BY <2>1, <2>2, SendtType DEF Gitt
      <3> QED BY <1>0, <2>1, <2>2, <3>1 DEF Boken, HarOppdrag
    <2>3. CASE bok[n].hensikt # i
          BY <2>1, <2>3 DEF Gitt
    <2> QED BY <2>2, <2>3
  <1>4. ASSUME NEW r \in Foresp, \E k \in Kode \ {"ok"} : Svar(r, k, 0) PROVE Riktig
        BY <1>4 DEF Svar, Gitt
  <1>5. ASSUME NEW r \in Foresp,
               \/ PortAvviser(r) \/ Konflikt(r) \/ IngenDom(r) \/ Kontraktbrudd(r)
               \/ BuntUbrukelig(r)
        PROVE  Riktig
        BY <1>4, <1>5 DEF PortAvviser, Konflikt, IngenDom, Kontraktbrudd, BuntUbrukelig,
                          Kode
  <1>6. ASSUME NEW r \in Foresp, NEW n \in Nokkel \cup {Ingen}, NEW i \in Hensikt,
               Opptatt(r, n, i)
        PROVE  Riktig
        BY <1>6 DEF Opptatt, Gitt
  <1>7. ASSUME svar' = Ingen PROVE Riktig
        BY <1>7
  <1>8. CASE UNCHANGED vars
        BY <1>8 DEF vars, EnDomPerNokkel, Svarte, HarOppdrag
  <1>9. ASSUME NEW r \in Foresp,
               \/ Gjenopprett(r) \/ TilBeslutning(r) \/ Behandle(r) \/ Krasj(r)
        PROVE  svar' = Ingen
        BY <1>9 DEF Gjenopprett, TilBeslutning, Behandle, Krasj
  <1>10. ASSUME NEW r \in Foresp, NEW n \in Nokkel \cup {Ingen}, NEW i \in Hensikt,
                Mottak(r, n, i)
         PROVE  svar' = Ingen
         BY <1>10 DEF Mottak
  <1>11. ASSUME NEW m \in Maal, Utlop(m) \/ Fornyes(m) PROVE svar' = Ingen
         BY <1>11 DEF Utlop, Fornyes, Modul
  <1>12. ASSUME Modul PROVE svar' = Ingen
         BY <1>12 DEF Modul
  <1> QED BY <1>2, <1>3, <1>5, <1>6, <1>7, <1>8, <1>9, <1>10, <1>11, <1>12 DEF Next

(* A decision of this key and intent.                                      *)
Gjelder(d, n, i) == /\ n # Ingen /\ d \in DOMAIN dom
                    /\ dom[d].nokkel = n /\ dom[d].hensikt = i

(* When an answer is lawful, seen from before the step that gave it.       *)
LEMMA LovligNaar ==
    ASSUME dom' = dom, NEW n, NEW i, n = svar'.nokkel, i = svar'.hensikt
    PROVE  /\ svar'.kode = "opptatt" => (svar.kode \in Lovlige)'
           /\ svar'.kode = "ok" /\ (\E d \in DOMAIN dom : Gjelder(d, n, i))
                => (svar.kode \in Lovlige)'
           /\ svar'.kode = "konflikt" /\ (\A d \in DOMAIN dom : ~Gjelder(d, n, i))
                => (svar.kode \in Lovlige)'
           /\ /\ svar'.kode = "inndata_opptatt"
              /\ \E d \in DOMAIN dom : Gjelder(d, n, i) /\ dom[d].utfall # "NEI"
              => (svar.kode \in Lovlige)'
           /\ /\ svar'.kode = "ubrukelig" /\ i.type = "evaluering"
              /\ reg'[i.maal].st # "klar"
              /\ \E d \in DOMAIN dom : Gjelder(d, n, i) /\ dom[d].utfall # "NEI"
              /\ \A d \in DOMAIN dom : Gjelder(d, n, i) => ~\E o \in oppdrag' : o.dom = d
              => (svar.kode \in Lovlige)'
           /\ /\ svar'.kode = "feil"
              /\ \E d \in DOMAIN dom : /\ Gjelder(d, n, i) /\ dom[d].utfall # "NEI"
                                      /\ KontraktenBrytes(d)
              => (svar.kode \in Lovlige)'
  <1> DEFINE e == {d \in Under(n) : dom[d].hensikt = i}
  <1>1. \A d : d \in e <=> d \in DOMAIN dom /\ Gjelder(d, n, i)
        BY DEF Under, Gjelder
  <1>2. e = {d \in Under(svar.nokkel) : dom[d].hensikt = svar.hensikt}'
        BY DEF Under
  <1> HIDE DEF e
  <1>3. (svar.kode \in Lovlige)' <=>
        svar'.kode \in {"opptatt"} \cup
          (IF e = {} THEN {"konflikt"}
           ELSE IF \A d \in e : dom[d].utfall = "NEI" THEN {"ok"}
           ELSE {"ok", "inndata_opptatt"} \cup
                (IF /\ i.type = "evaluering" /\ reg'[i.maal].st # "klar"
                    /\ \A d \in e : ~\E o \in oppdrag' : o.dom = d
                 THEN {"ubrukelig"} ELSE {}) \cup
                (IF \E d \in e : KontraktenBrytes(d) THEN {"feil"} ELSE {}))
        BY <1>2 DEF Lovlige, HarOppdrag, KontraktenBrytes
  <1>4. ASSUME NEW d \in DOMAIN dom, Gjelder(d, n, i) PROVE d \in e
        BY <1>1, <1>4
  <1> QED BY <1>1, <1>3

LEMMA SvarDom == IInv /\ DommenSvares /\ [Next]_vars => DommenSvares'
  <1> SUFFICES ASSUME IInv, DommenSvares, [Next]_vars,
                      svar' # Ingen, svar'.kjent, svar'.hensikt.type = "evaluering"
               PROVE  (svar.kode \in Lovlige)'
      BY DEF DommenSvares
  <1>0. TypeOK /\ Grunn /\ Boken
        BY DEF IInv
  <1> DEFINE n == svar'.nokkel
             i == svar'.hensikt
  <1>1. ASSUME NEW r \in Foresp, f[r].steg # "ledig", NEW k \in Kode, NEW d \in Nat,
               Svar(r, k, d)
        PROVE  /\ svar'.kode = k /\ n = f[r].nokkel /\ i = f[r].hensikt
               /\ f[r].kjent /\ Evaluering(r) /\ Maalet(r) = i.maal
               /\ n # Ingen /\ \E e \in DOMAIN dom : dom[e].nokkel = n
               /\ Tidligere(r) # {}
               /\ \A e : e \in Eksakt(r) <=> Gjelder(e, n, i)
    <2>1. svar' = Gitt(f[r], k, d)
          BY <1>1 DEF Svar
    <2>2. /\ svar'.kode = k /\ n = f[r].nokkel /\ i = f[r].hensikt /\ f[r].kjent
          BY <2>1 DEF Gitt
    <2>3. n # Ingen /\ \E e \in DOMAIN dom : dom[e].nokkel = n
          BY <1>0, <1>1, <2>2 DEF Grunn, Kjent
    <2> QED BY <2>2, <2>3 DEF Evaluering, Maalet, Tidligere, Under, Eksakt, Gjelder
  <1>2. ASSUME NEW r \in Foresp, PortAvviser(r) PROVE (svar.kode \in Lovlige)'
    <2>1. /\ f[r].steg # "ledig" /\ dom' = dom
          /\ \E k \in Kode : Svar(r, k, 0)
          BY <1>2 DEF PortAvviser, Kode
    <2>2. Evaluering(r) /\ Tidligere(r) # {}
          BY <1>1, <2>1
    <2>3. MaalKlart(r) /\ ModulKlar(r)
          BY <2>2 DEF MaalKlart, ModulKlar, Gjenopprettbar
    <2>4. BuntOpptatt(r) /\ Svar(r, "inndata_opptatt", 0)
          BY <1>2, <2>3 DEF PortAvviser
    <2>5. \E e \in Eksakt(r) : dom[e].utfall = "TILLAT"
          BY <2>2, <2>4 DEF BuntOpptatt, TarBunt, Endelig, Gjenopprettbar
    <2>6. /\ svar'.kode = "inndata_opptatt"
          /\ \A e : e \in Eksakt(r) <=> Gjelder(e, n, i)
          BY <1>1, <2>1, <2>4 DEF Kode
    <2>7. \E e \in DOMAIN dom : Gjelder(e, n, i) /\ dom[e].utfall # "NEI"
          BY <2>5, <2>6 DEF Gjelder
    <2> QED BY <2>1, <2>6, <2>7, LovligNaar
  <1>3. ASSUME NEW r \in Foresp, Konflikt(r) PROVE (svar.kode \in Lovlige)'
    <2>1. f[r].steg # "ledig" /\ dom' = dom /\ Svar(r, "konflikt", 0) /\ Eksakt(r) = {}
          BY <1>3 DEF Konflikt, Slipper
    <2>2. svar'.kode = "konflikt" /\ \A e : e \in Eksakt(r) <=> Gjelder(e, n, i)
          BY <1>1, <2>1 DEF Kode
    <2> QED BY <2>1, <2>2, LovligNaar
  <1>4. ASSUME NEW r \in Foresp, IngenDom(r) PROVE (svar.kode \in Lovlige)'
    <2>1. f[r].steg = "dom" /\ Svar(r, "feil", 0)
          BY <1>4 DEF IngenDom
    <2>2. f[r].nokkel # Ingen /\ \E e \in DOMAIN dom : dom[e].nokkel = f[r].nokkel
          BY <1>1, <2>1 DEF Kode
    <2> QED BY <1>0, <2>1, <2>2 DEF Grunn, UtenDom
  <1>5. ASSUME NEW r \in Foresp, UtenOppdrag(r) \/ MedOppdrag(r)
        PROVE  (svar.kode \in Lovlige)'
    <2>1. /\ f[r].steg = "hale" /\ Svar(r, "ok", f[r].dom) /\ dom' = dom
          /\ f[r].dom \in DOMAIN dom
          /\ dom[f[r].dom].nokkel = f[r].nokkel /\ dom[f[r].dom].hensikt = f[r].hensikt
          BY <1>0, <1>5, Halen DEF UtenOppdrag, MedOppdrag, Bokfor
    <2>2. f[r].dom \in Nat
          BY <1>0 DEF TypeOK, Forespoersel
    <2>3. svar'.kode = "ok" /\ n = f[r].nokkel /\ i = f[r].hensikt /\ n # Ingen
          BY <1>1, <2>1, <2>2 DEF Kode
    <2>4. Gjelder(f[r].dom, n, i)
          BY <2>1, <2>3 DEF Gjelder
    <2> QED BY <2>1, <2>3, <2>4, LovligNaar
  <1>6. ASSUME NEW r \in Foresp, BuntUbrukelig(r) PROVE (svar.kode \in Lovlige)'
    <2>1. /\ f[r].steg = "hale" /\ Svar(r, "ubrukelig", 0)
          /\ UNCHANGED <<dom, reg, oppdrag>>
          /\ Skylder(r) /\ reg[Maalet(r)].st # "klar"
          BY <1>6 DEF BuntUbrukelig
    <2>2. /\ f[r].dom \in DOMAIN dom
          /\ dom[f[r].dom].nokkel = f[r].nokkel /\ dom[f[r].dom].hensikt = f[r].hensikt
          BY <1>0, <2>1, Feltene DEF Grunn, SinDom
    <2>3. /\ svar'.kode = "ubrukelig" /\ n = f[r].nokkel /\ i = f[r].hensikt /\ n # Ingen
          /\ Maalet(r) = i.maal
          BY <1>1, <2>1 DEF Kode
    <2>4. Gjelder(f[r].dom, n, i) /\ dom[f[r].dom].utfall # "NEI"
          BY <2>1, <2>2, <2>3 DEF Gjelder, Skylder
    <2>5. \A d \in DOMAIN dom : Gjelder(d, n, i) => d = f[r].dom
          BY <1>0, <2>2, <2>3 DEF Grunn, Unik, Gjelder
    <2>6. \A d \in DOMAIN dom : Gjelder(d, n, i) => ~\E o \in oppdrag' : o.dom = d
          BY <2>1, <2>5 DEF Skylder, HarOppdrag
    <2>7. i.type = "evaluering" /\ reg'[i.maal].st # "klar" /\ dom' = dom
          BY <2>1, <2>3
    <2> QED BY <2>2, <2>3, <2>4, <2>6, <2>7, LovligNaar
  <1>6b. ASSUME NEW r \in Foresp, Kontraktbrudd(r) PROVE (svar.kode \in Lovlige)'
    <2>1. f[r].steg = "hale" /\ Svar(r, "feil", 0) /\ dom' = dom /\ Bryter(r)
          BY <1>6b DEF Kontraktbrudd
    <2>2. /\ f[r].dom \in DOMAIN dom
          /\ dom[f[r].dom].nokkel = f[r].nokkel /\ dom[f[r].dom].hensikt = f[r].hensikt
          BY <1>0, <2>1, Feltene DEF Grunn, SinDom
    <2>3. /\ svar'.kode = "feil" /\ n = f[r].nokkel /\ i = f[r].hensikt /\ n # Ingen
          /\ Evaluering(r)
          BY <1>1, <2>1 DEF Kode
    <2>4. Gjelder(f[r].dom, n, i) /\ dom[f[r].dom].utfall # "NEI"
          BY <2>1, <2>2, <2>3 DEF Gjelder, Bryter
    <2>5. KontraktenBrytes(f[r].dom)
          BY <2>1, <2>2, <2>3 DEF KontraktenBrytes, Bryter, Nyttelast, Evaluering
    <2> QED BY <2>1, <2>2, <2>3, <2>4, <2>5, LovligNaar
  <1>7. ASSUME NEW r \in Foresp, NEW m \in Nokkel \cup {Ingen}, NEW j \in Hensikt,
               Opptatt(r, m, j)
        PROVE  (svar.kode \in Lovlige)'
    <2>1. svar'.kode = "opptatt" /\ dom' = dom
          BY <1>7 DEF Opptatt, Gitt
    <2> QED BY <2>1, LovligNaar
  <1>8. ASSUME NEW r \in Foresp, NEW m \in Nokkel \cup {Ingen}, NEW j \in Hensikt,
               Gjenspill(r, m, j)
        PROVE  (svar.kode \in Lovlige)'
    <2>1. /\ m \in Nokkel /\ bok[m] # Ingen /\ dom' = dom
          /\ svar' = IF bok[m].hensikt = j THEN Gitt(Sendt(m, j), "ok", bok[m].dom)
                                          ELSE Gitt(Sendt(m, j), "konflikt", 0)
          BY <1>8 DEF Gjenspill
    <2>2. n = m /\ i = j /\ m # Ingen
          BY <2>1, SendtType, BestillingAntatt DEF Gitt
    <2>3. /\ bok[m].dom \in DOMAIN dom
          /\ dom[bok[m].dom].nokkel = m /\ dom[bok[m].dom].hensikt = bok[m].hensikt
          BY <1>0, <2>1 DEF Boken, TypeOK
    <2>4. CASE bok[m].hensikt = j
      <3>1. svar'.kode = "ok" /\ Gjelder(bok[m].dom, n, i)
            BY <2>1, <2>2, <2>3, <2>4 DEF Gitt, Gjelder
      <3> QED BY <2>1, <2>3, <3>1, LovligNaar
    <2>5. CASE bok[m].hensikt # j
      <3>1. svar'.kode = "konflikt" /\ \A d \in DOMAIN dom : ~Gjelder(d, n, i)
            BY <1>0, <2>1, <2>2, <2>3, <2>5 DEF Gitt, Gjelder, Grunn, Unik
      <3> QED BY <2>1, <3>1, LovligNaar
    <2> QED BY <2>4, <2>5
  <1>9. CASE UNCHANGED vars
        BY <1>9 DEF vars, DommenSvares, Lovlige, Under, HarOppdrag, KontraktenBrytes
  <1>10. ASSUME NEW r \in Foresp,
                \/ Gjenopprett(r) \/ TilBeslutning(r) \/ Behandle(r) \/ Krasj(r)
                \/ \E m \in Nokkel \cup {Ingen}, j \in Hensikt : Mottak(r, m, j)
         PROVE  FALSE
         BY <1>10 DEF Gjenopprett, TilBeslutning, Behandle, Krasj, Mottak
  <1>11. ASSUME NEW m \in Maal, Utlop(m) \/ Fornyes(m) PROVE FALSE
         BY <1>11 DEF Utlop, Fornyes
  <1>12. ASSUME Modul PROVE FALSE
         BY <1>12 DEF Modul
  <1> QED BY <1>2, <1>3, <1>4, <1>5, <1>6, <1>6b, <1>7, <1>8, <1>9, <1>10, <1>11, <1>12
          DEF Next

-----------------------------------------------------------------------------
(* One decision per client's key, however often and however altered the    *)
(* request comes again, and "ok" only with that decision and the order it  *)
(* owes (EnDomPerNokkel).                                                  *)
THEOREM EnDom == Spec => []EnDomPerNokkel
  <1>1. Init => svar = Ingen /\ DOMAIN dom = {}
        BY DEF Init
  <1>2. svar = Ingen /\ DOMAIN dom = {} => EnDomPerNokkel
        BY DEF EnDomPerNokkel, Svarte
  <1> QED BY <1>1, <1>2, Invariant, SvarEn, PTL DEF Spec

(* A permit comes to an order, unless its request died, its bundle expired *)
(* or its own payload breaches the contract of its type (KvotenGirJobb).   *)
THEOREM Kvoten == Spec => []KvotenGirJobb
  <1>1. IInv => KvotenGirJobb
        BY DEF IInv
  <1> QED BY <1>1, Invariant, PTL

(* A decision under an evaluation's key is what every later request with   *)
(* the key is answered from, and "feil" only where its own payload         *)
(* breaches the contract (DommenSvares).                                   *)
THEOREM Dommen == Spec => []DommenSvares
  <1>1. Init => svar = Ingen
        BY DEF Init
  <1>2. svar = Ingen => DommenSvares
        BY DEF DommenSvares
  <1> QED BY <1>1, <1>2, Invariant, SvarDom, PTL DEF Spec
=============================================================================
