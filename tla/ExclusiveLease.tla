--------------------------- MODULE ExclusiveLease ---------------------------
(***************************************************************************)
(* What the migration lock promises whoever runs under it, without saying  *)
(* how: at any time at most one run holds the lease, but for runs whose    *)
(* lease an operator revoked behind their back (`migronaut unlock`) and who*)
(* have not noticed yet.  A run may also lose its lease at any time.       *)
(***************************************************************************)
CONSTANT Run

VARIABLES
  holding,  \* the runs that hold the lease, as far as they know
  revoked   \* those of them whose lease an operator revoked

leaseVars == <<holding, revoked>>

Init == holding = {} /\ revoked = {}

\* A run takes the lease: nobody holds it who was not revoked, unless the
\* run's own lease was revoked before it heard that it had it.
Take(p) ==
  /\ p \notin holding
  /\ holding' = holding \cup {p}
  /\ \/ holding \subseteq revoked /\ revoked' = revoked
     \/ revoked' = revoked \cup {p}

\* A run ends, is told that it lost the lease, or crashes.
Leave(p) ==
  /\ p \in holding
  /\ holding' = holding \ {p}
  /\ revoked' = revoked \ {p}

Revoke(p) ==
  /\ p \in holding \ revoked
  /\ revoked' = revoked \cup {p}
  /\ UNCHANGED holding

Next == \E p \in Run : Take(p) \/ Leave(p) \/ Revoke(p)

Spec == Init /\ [][Next]_leaseVars
=============================================================================
