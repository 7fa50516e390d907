-------------------------- MODULE MCMigrationLock --------------------------
(* Small instances of MigrationLock for TLC, with the algorithm of waiting for the lock. *)
EXTENDS MigrationLock, TLC, MCLockWait

CONSTANT SharedOwner  \* the one token a colliding generateId hands out

MCOwnerOf == [p \in Run |-> SharedOwner]

\* Runs are alike (they share the owner token), and so are nonces.
MCSymmetry == Permutations(Run) \cup Permutations(Nonce)
=============================================================================
