--------------------------- MODULE MCPolicyadmin ---------------------------
(* A small world for Policyadmin: two drafts of one author, an approver,   *)
(* and three documents of two versions.                                    *)
EXTENDS Policyadmin, TLC

CONSTANTS ola, kari, a, b

D(n, t) == [ver |-> n, tekst |-> t]
Dokumenter == {D(1, a), D(1, b), D(2, a)}
ToForslag == 1 :> {D(1, b), D(2, a)} @@ 2 :> {D(1, b)}
FraOppsett == {D(1, a)}
AvOla == [u \in Utkast |-> ola]
Ombytte == Permutations(Foresp)
Utvidelser == {<<D(1, b), D(2, a)>>}
=============================================================================
