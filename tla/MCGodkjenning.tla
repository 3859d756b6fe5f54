--------------------------- MODULE MCGodkjenning ---------------------------
(* Small instances of Godkjenning.                                         *)
EXTENDS Godkjenning, TLC

CONSTANTS anne, bo, f1, f2, k1, k2, k3, streng, slakk

(* streng: four eyes, the business role; slakk: one pair of eyes.          *)
ToPolicyer == streng :> "okonomi" @@ slakk :> "godkjenner"
EnPolicy == slakk :> "godkjenner"
Streng == streng :> "okonomi"
EttRollesett == {{"godkjenner", "okonomi"}}
ToRollesett == {{}, {"godkjenner", "okonomi"}}

Symmetri == Permutations(Bruker) \cup Permutations(Forsp) \cup Permutations(Nokkel)
=============================================================================
