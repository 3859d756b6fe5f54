------------------------------ MODULE MCM37Sak ------------------------------
(* Small instances of M37Sak.                                              *)
EXTENDS M37Sak, TLC

CONSTANTS a1, a2, p1, p2, kreditering, tilbakekall, samtykke, forfall

TreKrav == p1 :> {samtykke} @@ p2 :> {samtykke, forfall}
EnKomp  == p1 :> kreditering @@ p2 :> kreditering
ToKomp  == p1 :> kreditering @@ p2 :> tilbakekall
=============================================================================
