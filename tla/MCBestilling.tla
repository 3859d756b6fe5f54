---------------------------- MODULE MCBestilling ----------------------------
(* Two evaluations of one bundle that differ in their bodies, and an order *)
(* on a row of another register.                                           *)
EXTENDS Bestilling, TLC

CONSTANTS bunt, rad, k1, k2, r1, r2

Hensikter == {[type |-> "evaluering", maal |-> bunt, id |-> 1],
              [type |-> "evaluering", maal |-> bunt, id |-> 2],
              [type |-> "register", maal |-> rad, id |-> 1]}

(* The second body and the register's new row breach their contracts.      *)
Oppfylte == {[hensikt |-> [type |-> "evaluering", maal |-> bunt, id |-> 1], rad |-> 0],
             [hensikt |-> [type |-> "register", maal |-> rad, id |-> 1], rad |-> 1]}

(* Or none does.                                                           *)
AlleOppfylte == [hensikt: Hensikter, rad: 0..MaksVersjon]
Ombytte == Permutations({r1, r2})
=============================================================================
