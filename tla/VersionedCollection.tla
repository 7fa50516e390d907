------------------------- MODULE VersionedCollection -------------------------
(***************************************************************************)
(* What a versioned collection promises to everyone who writes it: a       *)
(* document is changed by writes of the application and by rewrites from   *)
(* the old shape to the new one, each of which is one atomic step on the   *)
(* document as it is at that moment.  A rewrite therefore carries every    *)
(* acknowledged write of the application along, and happens once.          *)
(***************************************************************************)
EXTENDS Integers

CONSTANT Doc  \* the documents

VARIABLE doc  \* each document: its shape, what the application wrote, its revision

Document == [shape: {"old", "new", "gone"}, val: Nat, rev: Nat]

Init == doc = [d \in Doc |-> [shape |-> "old", val |-> 0, rev |-> 0]]

\* The application writes a document, perhaps in the new shape already.
Write(d, s) ==
  /\ doc[d].shape # "gone" /\ s \in {doc[d].shape, "new"}
  /\ doc' = [doc EXCEPT ![d] = [shape |-> s, val |-> @.val + 1, rev |-> @.rev + 1]]

Delete(d) ==
  /\ doc[d].shape # "gone"
  /\ doc' = [doc EXCEPT ![d].shape = "gone"]

\* What a document of the old shape becomes.
Rewritten(c) == [shape |-> "new", val |-> c.val, rev |-> c.rev + 1]

\* Documents of the old shape are rewritten from what they are now.
Rewrite(S) ==
  /\ S \subseteq {d \in Doc : doc[d].shape = "old"}
  /\ doc' = [d \in Doc |-> IF d \in S THEN Rewritten(doc[d]) ELSE doc[d]]

Next ==
  \/ \E d \in Doc : (\E s \in {"old", "new"} : Write(d, s)) \/ Delete(d)
  \/ \E S \in SUBSET Doc : Rewrite(S)

Spec == Init /\ [][Next]_doc
=============================================================================
