--------------------------- MODULE Engangsnokkel ---------------------------
(***************************************************************************)
(* What table idempotens promises the callers of a mutating endpoint: a    *)
(* key is bound to ONE input, has ONE answer, and the effect of the        *)
(* operation is there exactly when the answer is.  Everything about who    *)
(* takes the key over, who waits and who is rolled back is left out.       *)
(***************************************************************************)
CONSTANTS Nokkel, Inndata, Svar, Ubrukt

VARIABLES
    bundet,    \* idempotens.input_hash of a committed row
    svar,      \* idempotens.respons
    virket     \* keys whose operation has been committed

vars == <<bundet, svar, virket>>

Init == /\ bundet = [k \in Nokkel |-> Ubrukt]
        /\ svar = [k \in Nokkel |-> Ubrukt]
        /\ virket = {}

(* The operation, its answer and the binding are one commit.               *)
Fullfor(k) ==
    /\ bundet[k] = Ubrukt
    /\ bundet'[k] \in Inndata
    /\ svar'[k] \in Svar
    /\ bundet' = [bundet EXCEPT ![k] = bundet'[k]]
    /\ svar' = [svar EXCEPT ![k] = svar'[k]]
    /\ virket' = virket \cup {k}

Next == \E k \in Nokkel \ virket : Fullfor(k)

Spec == Init /\ [][Next]_vars
=============================================================================
