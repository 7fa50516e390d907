------------------------------ MODULE MCConverge ------------------------------
(* Two runs -- one that prunes and rebuilds unique indexes, as an operator would, and one of a *)
(* deploy, which does neither -- over two collections in the states that tell plans apart.     *)
EXTENDS Converge, MCSearchDefinition

Ix(name, key, unique, ttl) == [name |-> name, key |-> key, unique |-> unique, ttl |-> ttl]
Sx(version, body, served, status) ==
  [name |-> "s", type |-> "search", version |-> version, body |-> body,
   served |-> served, status |-> status]

Live(indexes, rules, below, search) ==
  [exists |-> TRUE, indexes |-> indexes, prepared |-> {}, rules |-> rules, below |-> below,
   dups |-> {}, search |-> search, listed |-> search]
Missing == [Live({}, 0, FALSE, {}) EXCEPT !.exists = FALSE]

Wanted(indexes, rules, search) ==
  [indexes |-> indexes, rules |-> rules, search |-> search, prune |-> Unset, partial |-> FALSE]

MCOrder == <<"c1", "c2">>
MCDef ==
  [c \in {"c1", "c2"} |->
     IF c = "c1" THEN Wanted(<<Ix("n1", "a", TRUE, 2), Ix("n2", "b", FALSE, 1)>>, Unset, {})
     ELSE Wanted(<<Ix("m1", "t", FALSE, 0)>>, 1,
                 {[name |-> "s", type |-> "search", body |-> "new"]})]

Old == {Sx(1, "old", "old", "ready")}

\* For each collection: nothing, changes in place, blockers under other names, traded keys.
Firsts ==
  {Missing,
   Live({Ix("n1", "a", FALSE, 1), Ix("n2", "b", FALSE, 0)}, 0, FALSE, {}),
   Live({Ix("x", "a", TRUE, 2), Ix("n2", "b", FALSE, 2)}, 0, FALSE, {}),
   Live({Ix("n1", "b", FALSE, 0), Ix("n2", "a", FALSE, 0)}, 0, FALSE, {}),
   Live({Ix("n1", "c", TRUE, 0), Ix("x", "a", FALSE, 0)}, 0, FALSE, {})}
Seconds ==
  {Missing,
   Live({Ix("m1", "t", FALSE, 0), Ix("y", "k", FALSE, 0)}, 0, FALSE, Old),
   Live({Ix("x", "u", FALSE, 0), Ix("y", "b", FALSE, 0)}, 1, TRUE, {})}

MCStarts == {[c \in {"c1", "c2"} |-> IF c = "c1" THEN f ELSE s] : f \in Firsts, s \in Seconds}

MCOptions ==
  [r \in Run |-> IF r = "ops" THEN [prune |-> TRUE, rebuildUnique |-> TRUE]
                 ELSE [prune |-> FALSE, rebuildUnique |-> FALSE]]
MCBacking == [c \in {"c1", "c2"} |-> IF c = "c2" THEN {"k"} ELSE {}]
MCDbaIndex ==
  [c \in {"c1", "c2"} |->
     IF c = "c1" THEN {Ix("x", "a", TRUE, 0)}
     ELSE {Ix("z", "b", FALSE, 0), Ix("m1", "c", FALSE, 0)}]
=============================================================================
