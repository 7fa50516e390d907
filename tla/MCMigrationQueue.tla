-------------------------- MODULE MCMigrationQueue --------------------------
\* Two pods, and two migrations: a background one, and one that requires it.
EXTENDS MigrationQueue, TLC

CONSTANTS p1, p2
MCPod == {p1, p2}
MCOnePod == {p1}
MCBg == {1}
MCNoBg == {}
MCRequires == [f \in 1..NumFiles |-> IF f = 2 THEN Bg ELSE {}]
MCSymmetry == Permutations(MCPod)
=============================================================================
