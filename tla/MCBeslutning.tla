---------------------------- MODULE MCBeslutning ----------------------------
(* A small world for Beslutning.                                           *)
EXTENDS Beslutning, TLC

CONSTANTS g1, v1, v2, v3

H(js, n) == [jti |-> js, gruppe |-> g1, nr |-> n]
ToHendelser == {H({1, 2}, 1), H({3}, 2)}
EnGrense == v1 :> 1 @@ v2 :> Ingen @@ v3 :> 1
=============================================================================
