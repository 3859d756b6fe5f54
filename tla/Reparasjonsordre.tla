-------------------------- MODULE Reparasjonsordre --------------------------
(***************************************************************************)
(* The contract between the M-37 engine and the outbox: one case, and the  *)
(* one business order a repair of it may place.  The engine ends its       *)
(* treatment of the case at most once, by placing the order or without     *)
(* one; from then on the owner alone moves the two, unless a human takes   *)
(* the case over.  How often the order is claimed, what is answered twice  *)
(* or late, and how the engine came to place it, is left out.              *)
(***************************************************************************)
VARIABLES
    sak,        \* unntak.status, as far as the order is concerned
    oppdrag     \* oppdrag.status of the business order, or "ingen"

vars == <<sak, oppdrag>>

Aapen == {"opprettet", "plukket"}

Init    == sak = "behandles" /\ oppdrag = "ingen"
Bestilt == sak = "venter" /\ oppdrag = "opprettet"

-----------------------------------------------------------------------------
(* The engine: order and status are one commit.                            *)

Bestill == Init /\ Bestilt'

Overlat == /\ Init
           /\ sak' \in {"lost", "manuell"}
           /\ UNCHANGED oppdrag

Motor == Bestill \/ Overlat

(* The owner: the closing receipt moves the case that waits for it.        *)
Plukk == /\ oppdrag = "opprettet"
         /\ oppdrag' = "plukket"
         /\ UNCHANGED sak

Kvitter(til) ==
    /\ oppdrag = "plukket"
    /\ oppdrag' = til
    /\ sak' = IF sak # "venter" THEN sak
              ELSE IF til = "utfort" THEN "lost" ELSE "manuell"

Eier == Plukk \/ Kvitter("utfort") \/ Kvitter("feilet")

(* The human: a rejection dissolves the order in the same commit.          *)
TaOver == /\ sak = "venter" /\ oppdrag \in Aapen
          /\ sak' = "manuell"
          /\ UNCHANGED oppdrag

Avvis == /\ sak = "manuell" /\ oppdrag # "ingen"
         /\ sak' = "avvist"
         /\ oppdrag' = IF oppdrag \in Aapen THEN "kansellert" ELSE oppdrag

Menneske == TaOver \/ Avvis

(* What the engine's side of the outbox shows, and what the outbox does    *)
(* with an order the engine has placed.                                    *)
Motorsiden == Init /\ [][Motor \/ Eier]_vars
Utboksen   == Bestilt /\ [][Eier \/ Menneske]_vars
=============================================================================
