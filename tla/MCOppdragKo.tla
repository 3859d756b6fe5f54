----------------------------- MODULE MCOppdragKo -----------------------------
(* Small instances of OppdragKo.                                           *)
EXTENDS OppdragKo, TLC

CONSTANTS i1, i2, i3, gjort, mislyktes

Symmetri == Permutations(Innsending)
=============================================================================
