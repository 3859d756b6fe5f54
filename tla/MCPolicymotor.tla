--------------------------- MODULE MCPolicymotor ---------------------------
(* A small world for Policymotor: policies that differ in what an override *)
(* can meet, policies that differ in the controls, and events around the   *)
(* limits of both.                                                         *)
EXTENDS Policymotor

CONSTANTS kasserer, leder, nok, eur, person, intern, x, v1, v2

Ren == [k \in Loftbar \cup {"annen_kode"} |-> Intet]
Basis == [kjent |-> TRUE, modus |-> "auto", ved_brudd |-> "unntakskoe",
          irreversibel |-> FALSE, tillatt_for |-> {kasserer}, belop_maks |-> Intet,
          valuta |-> {}, tidsvindu |-> "uten", frekvens |-> Intet,
          dataklasser |-> {}, vilkaar |-> <<>>, betrodd |-> {x} \X {v1, v2},
          godkjennbar |-> Ren, krever_rolle |-> leder, metadata |-> FALSE]

Lev(b, v) == [belop_maks |-> b, valuta |-> v]
Vk(n, m) == [navn |-> n, verifikator |-> x, min |-> m]

MedOverstyring ==
    {[Basis EXCEPT !.modus = c[1], !.belop_maks = c[2], !.valuta = c[3],
                   !.vilkaar = c[4], !.metadata = c[5],
                   !.frekvens = IF c[4] = <<>> THEN c[8] ELSE Intet,
                   !.godkjennbar["belop_over_grense"] = c[6],
                   !.godkjennbar["valuta_ikke_tillatt"] = c[7]] :
        c \in {"auto", "alltid_stopp"} \X {Intet, 1} \X {{}, {nok}, {nok, eur}}
              \X {<<>>, <<Vk(v1, Intet)>>} \X BOOLEAN
              \X {Intet, Lev(1, nok), Lev(2, nok), Lev(2, eur), Lev(2, Intet)}
              \X {Intet, Lev(Intet, eur), Lev(1, eur), Lev(Intet, nok)}
              \X {Intet, 1}}
    \cup {[Basis EXCEPT !.tillatt_for = {}, !.belop_maks = 1,
                        !.godkjennbar["belop_over_grense"] = Lev(2, nok)],
          [Basis EXCEPT !.belop_maks = 1,
                        !.godkjennbar["belop_over_grense"] = Lev(Ugyldig, nok)],
          [Basis EXCEPT !.belop_maks = 1,
                        !.godkjennbar["annen_kode"] = Lev(2, nok)],
          [Basis EXCEPT !.belop_maks = 1,
                        !.godkjennbar["belop_over_grense"] = Lev(3, nok)],
          [Basis EXCEPT !.belop_maks = 3]}

MedKontroller ==
    {[Basis EXCEPT !.ved_brudd = c[1], !.irreversibel = c[2], !.tidsvindu = c[3],
                   !.frekvens = c[4], !.dataklasser = c[5], !.vilkaar = c[6],
                   !.betrodd = c[7], !.belop_maks = c[8],
                   !.modus = IF c[6] = <<>> THEN "auto" ELSE "auto_med_vilkaar"] :
        c \in {"unntakskoe", "frys"} \X BOOLEAN
              \X {"uten", "vindu"} \X {Intet, 1} \X {{}, {person}}
              \X {<<>>, <<Vk(v1, Intet)>>, <<Vk(v1, 2), Vk(v2, Intet)>>}
              \X {{}, {x} \X {v1, v2}} \X {Intet, 1}}
    \cup {[Basis EXCEPT !.kjent = FALSE], [Basis EXCEPT !.belop_maks = Ugyldig],
          [Basis EXCEPT !.tidsvindu = "sone_ugyldig"],
          [Basis EXCEPT !.modus = "alltid_stopp", !.irreversibel = TRUE],
          [Basis EXCEPT !.modus = "alltid_stopp", !.irreversibel = TRUE,
                        !.belop_maks = 1]}

SmaaPolicyer == MedOverstyring \cup MedKontroller

God == [verifikator |-> x, signert |-> TRUE, bundet |-> TRUE, ressurs |-> TRUE,
        utlopt |-> FALSE, verdi |-> 2, resultat |-> TRUE]
Attester == {Intet, God, [God EXCEPT !.signert = FALSE], [God EXCEPT !.bundet = FALSE],
             [God EXCEPT !.ressurs = FALSE], [God EXCEPT !.utlopt = TRUE],
             [God EXCEPT !.verdi = 1], [God EXCEPT !.verdi = Ugyldig],
             [God EXCEPT !.resultat = FALSE]}
Vanlig == [autentisert |-> TRUE, rolle |-> kasserer, belop |-> 1, valuta |-> nok,
           tidspunkt |-> "inne", gruppe |-> TRUE, antall |-> 0,
           dataklasser |-> {person}, betroddKilde |-> TRUE,
           att |-> [v \in {v1, v2} |-> God]]

SmaaHendelser ==
    {[Vanlig EXCEPT !.belop = b, !.valuta = v, !.rolle = r] :
        b \in {1, 2, 3, Ugyldig}, v \in {nok, eur}, r \in {kasserer, leder}}
    \cup {[Vanlig EXCEPT !.att[v1] = a, !.att[v2] = b, !.belop = m] :
        a \in Attester, b \in {Intet, God}, m \in {1, 2}}
    \cup {[Vanlig EXCEPT !.tidspunkt = t, !.gruppe = g, !.antall = n, !.belop = m] :
        t \in Tid, g \in BOOLEAN, n \in {0, 1}, m \in {1, 2}}
    \cup {[Vanlig EXCEPT !.dataklasser = d, !.betroddKilde = k, !.autentisert = u] :
        d \in {{}, {person}, {intern}}, k \in BOOLEAN, u \in BOOLEAN}
=============================================================================
