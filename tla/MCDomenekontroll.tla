-------------------------- MODULE MCDomenekontroll --------------------------
(* Three tenants, of which the two without adjudicators are alike; the     *)
(* second has two adjudicators, of whom one's membership may change.       *)
EXTENDS Domenekontroll, TLC

CONSTANTS a, b, c, a1, a2

HosB == [x \in Adjudikator |-> b]
ToForB == [x \in Tenant |-> IF x = b THEN 2 ELSE 1]
EnEndring == [x \in Adjudikator |-> IF x = a1 THEN 1 ELSE 0]
BTilbakekalles == [x \in Tenant |-> IF x = b THEN 2 ELSE 0]
IngenTilbakekalles == [x \in Tenant |-> 0]
Ombytte == Permutations({a, c})
=============================================================================
