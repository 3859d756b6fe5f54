------------------------------ MODULE MCVarsel ------------------------------
(* Small instances of Varsel.                                              *)
EXTENDS Varsel

CONSTANTS kari, s1, s2

(* No step and no notice depends on what the mail servers have accepted,   *)
(* so a property that does not mention it is checked on the rest.          *)
UtenHistorie == <<runde, kanal, rad, f, urydda>>
=============================================================================
