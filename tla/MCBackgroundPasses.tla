------------------------- MODULE MCBackgroundPasses -------------------------
(* Small instances of BackgroundPasses, with two documents in two brackets, and the          *)
(* assumptions about the plans of sharded collections and about what an export may say.      *)
EXTENDS BackgroundPasses, MCShardPlan, MCBackgroundSpec

MCBracket == [d \in Doc |-> IF d = 1 THEN "number" ELSE "string"]
MCSymmetry == Permutations(Coord)
=============================================================================
