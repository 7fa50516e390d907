----------------------------- MODULE MCDriftWatch -----------------------------
(* A pod of the first release and one of the last, two watchers, one document. *)
EXTENDS DriftWatch, TLC

CONSTANTS old, new

MCRelease == [c \in Client |-> IF c = old THEN 1 ELSE Top]
MCKeeps == {old}
MCBegins == {<<"completed", "running">>}
MCSettings ==
  {[reopens |-> TRUE, upgrade |-> TRUE, transactional |-> FALSE, retries |-> 0],
   [reopens |-> FALSE, upgrade |-> TRUE, transactional |-> TRUE, retries |-> 1]}

MCSymmetry == Permutations(Watcher)
=============================================================================
