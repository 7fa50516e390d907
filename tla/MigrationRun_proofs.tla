------------------------ MODULE MigrationRun_proofs -------------------------
(***************************************************************************)
(* Proofs about MigrationRun, for any number of runs and files, any set of *)
(* commands and any bounds.                                                *)
(***************************************************************************)
EXTENDS MigrationRun, FiniteSetTheorems, WellFoundedInduction, SequenceTheorems, TLAPS

\* What the proofs need of the types.
RunTypes ==
  /\ phase \in [Run -> Phases]
  /\ aborted \in [Run -> BOOLEAN]
  /\ lost \in BOOLEAN

\* Whose lock was removed is in the middle of a command, without the lock, and has
\* not been told.
RevokedInv ==
  \A p \in revoked : p \in Run /\ phase[p] # "idle" /\ ~aborted[p] /\ lease # p

\* Until a lock is freed under a run, whoever runs a command holds it.
KeptInv == ~lost => \A p \in Run : phase[p] # "idle" => lease = p

\* A run goes on in the middle of its command, and the lock is left alone.
GoesOn ==
  /\ UNCHANGED <<lease, revoked, aborted, lost>>
  /\ \/ phase' = phase
     \/ \E p \in Run, ph \in Phases :
          /\ phase[p] # "idle" /\ ph # "idle"
          /\ phase' = [phase EXCEPT ![p] = ph]

\* A run begins, or is over, or is told that it lost the lock, or has it removed
\* by an operator, or its lock goes stale.
Begins(p) ==
  /\ phase[p] = "idle" /\ lease = Free
  /\ lease' = p
  /\ phase' = [phase EXCEPT ![p] = "plan"]
  /\ UNCHANGED <<revoked, aborted, lost>>

Over(p) ==
  /\ phase[p] # "idle"
  /\ lease' \in {lease, IF lease = p THEN Free ELSE lease}
  /\ phase' = [phase EXCEPT ![p] = "idle"]
  /\ aborted' = [aborted EXCEPT ![p] = FALSE]
  /\ revoked' = revoked \ {p}
  /\ lost' = lost

Hears(p) ==
  /\ phase[p] # "idle" /\ ~aborted[p]
  /\ aborted' = [aborted EXCEPT ![p] = TRUE]
  /\ revoked' = revoked \ {p}
  /\ UNCHANGED <<lease, phase, lost>>

Robbed(p) ==
  /\ lease = p /\ phase[p] # "idle"
  /\ lease' = Free
  /\ revoked' = IF aborted[p] THEN revoked ELSE revoked \cup {p}
  /\ lost' = TRUE
  /\ UNCHANGED <<phase, aborted>>

Frees(p) ==
  /\ lease = p /\ (phase[p] = "idle" \/ aborted[p])
  /\ lease' = Free
  /\ lost' = (lost \/ phase[p] # "idle")
  /\ UNCHANGED <<phase, aborted, revoked>>

-----------------------------------------------------------------------------

\* What a run does by itself moves it along, or ends it.
LEMMA WorkGoesOn ==
  ASSUME NEW p \in Run, Work(p)
  PROVE  GoesOn \/ Over(p)
<1> USE DEF lockVars, lossVars, pastVars, Goes, GoesOn, Phases
<1>1. CASE PlanUp(p)
  BY <1>1 DEF PlanUp
<1>2. CASE PlanDown(p)
  BY <1>2 DEF PlanDown
<1>3. CASE Stop(p) \/ Skip(p) \/ Load(p) \/ StartBody(p) \/ BodyCommit(p)
  BY <1>3 DEF Stop, Skip, Load, StartBody, BodyCommit
<1>4. CASE Record(p)
  BY <1>4 DEF Record, Advance, FailsAfter, Failed
<1>5. CASE TxCommit(p)
  BY <1>5 DEF TxCommit, Advance, FailsAfter, Failed
<1>6. CASE Trace(p)
  BY <1>6 DEF Trace
<1>7. CASE SequenceDone(p)
  BY <1>7 DEF SequenceDone
<1>8. CASE End(p)
  BY <1>8 DEF End, Reset, Over
<1>9. QED
  BY <1>1, <1>2, <1>3, <1>4, <1>5, <1>6, <1>7, <1>8 DEF Work

LEMMA MishapGoesOn ==
  ASSUME NEW p \in Run, Mishap(p)
  PROVE  GoesOn \/ Over(p) \/ Robbed(p) \/ Hears(p)
<1> USE DEF lockVars, lossVars, pastVars, Goes, GoesOn, Phases
<1>1. CASE LoadFails(p)
  BY <1>1 DEF LoadFails
<1>2. CASE BodyFails(p)
  BY <1>2 DEF BodyFails, Failed
<1>3. CASE Timeout(p)
  BY <1>3 DEF Timeout, Failed
<1>4. CASE RecordFails(p)
  BY <1>4 DEF RecordFails, Failed
<1>5. CASE Crash(p)
  BY <1>5 DEF Crash, Reset, Over
<1>6. CASE Unlock(p)
  BY <1>6 DEF Unlock, Freed, runVars, Robbed
<1>7. CASE Told(p)
  BY <1>7 DEF Told, Hears
<1>8. QED
  BY <1>1, <1>2, <1>3, <1>4, <1>5, <1>6, <1>7 DEF Mishap

\* What a step can do to the runs and the lock.
LEMMA StepShape ==
  ASSUME [Next]_vars
  PROVE  \/ GoesOn
         \/ \E p \in Run : Begins(p) \/ Over(p) \/ Hears(p) \/ Robbed(p) \/ Frees(p)
<1> USE DEF lockVars, lossVars, pastVars, runVars
<1>1. CASE \E f \in File : FileArrives(f)
  BY <1>1 DEF FileArrives, GoesOn
<1>2. CASE Peek
  BY <1>2 DEF Peek, GoesOn
<1>3. CASE \E p \in Run, c \in Jobs, label \in 0..MaxBatch : Start(p, c, label)
  BY <1>3 DEF Start, Begins
<1>4. CASE \E p \in Run : Work(p) \/ Mishap(p)
  BY <1>4, WorkGoesOn, MishapGoesOn
<1>5. CASE \E z \in zombies : ZombieCommits(z)
  BY <1>5 DEF ZombieCommits, GoesOn
<1>6. CASE \E p \in Run : Expire(p)
  BY <1>6 DEF Expire, Freed, Frees
<1>7. CASE UNCHANGED vars
  BY <1>7 DEF vars, GoesOn
<1>8. QED
  BY <1>1, <1>2, <1>3, <1>4, <1>5, <1>6, <1>7 DEF Next

LEMMA TypesStep ==
  ASSUME RunTypes, [Next]_vars
  PROVE  RunTypes'
<1>1. CASE GoesOn
  BY <1>1 DEF RunTypes, GoesOn
<1>2. ASSUME NEW p \in Run,
             Begins(p) \/ Over(p) \/ Hears(p) \/ Robbed(p) \/ Frees(p)
      PROVE  RunTypes'
  BY <1>2 DEF RunTypes, Begins, Over, Hears, Robbed, Frees, Phases
<1>3. QED
  BY <1>1, <1>2, StepShape

LockInv == LeaseInv /\ RevokedInv /\ KeptInv

LEMMA LeaseStep ==
  ASSUME RunTypes, LockInv, [Next]_vars
  PROVE  LockInv'
<1> USE DEF RunTypes, LockInv, LeaseInv, RevokedInv, KeptInv
<1>1. CASE GoesOn
  BY <1>1 DEF GoesOn
<1>2. ASSUME NEW p \in Run, Begins(p) PROVE LockInv'
  BY <1>2, FreeAssumption DEF Begins
<1>3. ASSUME NEW p \in Run, Over(p) PROVE LockInv'
  BY <1>3, FreeAssumption DEF Over
<1>4. ASSUME NEW p \in Run, Hears(p) PROVE LockInv'
  BY <1>4 DEF Hears
<1>5. ASSUME NEW p \in Run, Robbed(p) PROVE LockInv'
  BY <1>5, FreeAssumption DEF Robbed
<1>6. ASSUME NEW p \in Run, Frees(p) PROVE LockInv'
  BY <1>6, FreeAssumption DEF Frees
<1>7. QED
  BY <1>1, <1>2, <1>3, <1>4, <1>5, <1>6, StepShape

\* Whoever runs a command holds the lock, or has been told that it is lost, or had
\* it removed by an operator.
THEOREM LeaseInvariant == Spec => [](RunTypes /\ LockInv)
<1>1. Init => RunTypes /\ LockInv
  BY DEF Init, RunTypes, LockInv, LeaseInv, RevokedInv, KeptInv, Phases
<1>2. RunTypes /\ LockInv /\ [Next]_vars => (RunTypes /\ LockInv)'
  BY TypesStep, LeaseStep
<1>3. QED
  BY <1>1, <1>2, PTL DEF Spec

\* Of two runs in the middle of a migration, one has been told that it lost its
\* lock (#withLock), or had it removed by an operator and does not know it yet,
\* however the runs, their failures and crashes interleave.
THEOREM RunsExclusive == Spec => []BodiesExclusive
<1>1. LockInv => BodiesExclusive
  <2> SUFFICES ASSUME LockInv, NEW p \in Run, NEW q \in Run, p # q, Working(p), Working(q)
               PROVE  \E r \in {p, q} : aborted[r] \/ r \in revoked
    BY DEF BodiesExclusive
  <2>1. phase[p] # "idle" /\ phase[q] # "idle"
    BY DEF Working
  <2>2. (lease = p \/ aborted[p] \/ p \in revoked) /\ (lease = q \/ aborted[q] \/ q \in revoked)
    BY <2>1 DEF LockInv, LeaseInv
  <2> QED
    BY <2>2
<1>2. QED
  BY <1>1, LeaseInvariant, PTL

-----------------------------------------------------------------------------

\* The runs see the lock as an exclusive lease: no step puts a second run to
\* work while another one holds the lock, or ends a lease that is not its own; a
\* run whose lease an operator revoked goes on beside the next holder until it is
\* told.
THEOREM RunsUseLease == Spec => UsesLease
<1>1. Init => Lease!Init
  BY DEF Init, Lease!Init
<1>2. RunTypes /\ LockInv /\ [Next]_vars => [Lease!Next]_Lease!leaseVars
  <2> DEFINE Holding == {p \in Run : phase[p] # "idle" /\ ~aborted[p]}
  <2> SUFFICES ASSUME RunTypes, LockInv, [Next]_vars
               PROVE  \/ Holding' = Holding /\ revoked' = revoked
                      \/ \E p \in Run :
                           /\ p \notin Holding /\ Holding \subseteq revoked
                           /\ Holding' = Holding \cup {p} /\ revoked' = revoked
                      \/ \E p \in Run :
                           /\ p \in Holding
                           /\ Holding' = Holding \ {p} /\ revoked' = revoked \ {p}
                      \/ \E p \in Run :
                           /\ p \in Holding \ revoked
                           /\ revoked' = revoked \cup {p} /\ Holding' = Holding
    BY DEF Lease!Next, Lease!Take, Lease!Leave, Lease!Revoke, Lease!leaseVars
  <2>1. CASE GoesOn
    <3>1. Holding' = Holding /\ revoked' = revoked
      BY <2>1 DEF GoesOn, RunTypes
    <3>2. QED
      BY <3>1
  <2>2. ASSUME NEW p \in Run, Begins(p)
        PROVE  /\ revoked' = revoked
               /\ \/ Holding' = Holding
                  \/ /\ p \notin Holding /\ Holding \subseteq revoked
                     /\ Holding' = Holding \cup {p}
    <3>1. Holding \subseteq revoked
      BY <2>2, FreeAssumption DEF Begins, LockInv, LeaseInv
    <3>2. revoked' = revoked /\ p \notin Holding
      BY <2>2 DEF Begins
    <3>3. Holding' = Holding \cup {p} \/ Holding' = Holding
      BY <2>2 DEF Begins, RunTypes
    <3>4. QED
      BY <3>1, <3>2, <3>3
  <2>3. ASSUME NEW p \in Run, Over(p)
        PROVE  /\ Holding' = Holding \ {p}
               /\ revoked' = revoked \ {p}
    BY <2>3 DEF Over, RunTypes
  <2>4. ASSUME NEW p \in Run, Hears(p)
        PROVE  p \in Holding /\ Holding' = Holding \ {p} /\ revoked' = revoked \ {p}
    BY <2>4 DEF Hears, RunTypes
  <2>5. ASSUME NEW p \in Run, Robbed(p)
        PROVE  /\ Holding' = Holding
               /\ \/ revoked' = revoked
                  \/ p \in Holding \ revoked /\ revoked' = revoked \cup {p}
    BY <2>5 DEF Robbed, RunTypes, LockInv, RevokedInv
  <2>6. ASSUME NEW p \in Run, Frees(p)
        PROVE  Holding' = Holding /\ revoked' = revoked
    BY <2>6 DEF Frees
  <2>7. ASSUME NEW p \in Run, Over(p), p \notin Holding
        PROVE  Holding' = Holding /\ revoked' = revoked
    <3>1. p \notin revoked
      BY <2>7 DEF Over, LockInv, RevokedInv
    <3>2. QED
      BY <2>3, <2>7, <3>1
  <2>8. QED
    BY <2>1, <2>2, <2>3, <2>4, <2>5, <2>6, <2>7, StepShape
<1>3. QED
  BY <1>1, <1>2, LeaseInvariant, PTL DEF Spec, UsesLease, Lease!Spec

-----------------------------------------------------------------------------

\* The changelog has a record for every file.
LogShape ==
  log = [f \in File |-> [status |-> log[f].status, batch |-> log[f].batch]]

\* How a step writes the changelog, if it does.
Writes ==
  \E f, b :
    \/ log' = [log EXCEPT ![f] = [status |-> "applied", batch |-> b]]
    \/ log' = [log EXCEPT ![f].status = "reverted"]
    \/ f \notin Applied /\ log' = [log EXCEPT ![f] = [status |-> "failed", batch |-> b]]

LEMMA WorkWrites ==
  ASSUME NEW p \in Run, Work(p)
  PROVE  log' = log \/ Writes
<1>1. ASSUME MarkDone(p)
      PROVE  log' = log \/ Writes
  BY <1>1 DEF MarkDone, MarkApplied, MarkReverted, Writes
<1>2. CASE Record(p) \/ TxCommit(p)
  BY <1>1, <1>2 DEF Record, TxCommit
<1>3. CASE Trace(p)
  BY <1>3 DEF Trace, MarkFailed, Writes
<1>4. CASE PlanUp(p) \/ PlanDown(p)
  BY <1>4 DEF PlanUp, PlanDown, dataVars
<1>5. CASE Stop(p) \/ Skip(p) \/ Load(p) \/ StartBody(p) \/ BodyCommit(p)
  BY <1>5 DEF Stop, Skip, Load, StartBody, BodyCommit, dataVars
<1>6. CASE SequenceDone(p) \/ End(p)
  BY <1>6 DEF SequenceDone, End, dataVars
<1>7. QED
  BY <1>2, <1>3, <1>4, <1>5, <1>6 DEF Work

LEMMA StepWrites ==
  ASSUME [Next]_vars
  PROVE  log' = log \/ Writes
<1>1. CASE \E p \in Run : Work(p)
  BY <1>1, WorkWrites
<1>2. CASE \E p \in Run : Mishap(p)
  BY <1>2 DEF Mishap, LoadFails, BodyFails, Timeout, RecordFails, Crash,
            Unlock, Told, dataVars
<1>3. CASE \E f \in File : FileArrives(f)
  BY <1>3 DEF FileArrives
<1>4. CASE \E p \in Run, c \in Jobs, label \in 0..MaxBatch : Start(p, c, label)
  BY <1>4 DEF Start, dataVars
<1>5. CASE \E z \in zombies : ZombieCommits(z)
  BY <1>5 DEF ZombieCommits
<1>6. CASE Peek \/ (\E p \in Run : Expire(p)) \/ UNCHANGED vars
  BY <1>6 DEF Peek, Expire, vars, dataVars
<1>7. QED
  BY <1>1, <1>2, <1>3, <1>4, <1>5, <1>6 DEF Next

LEMMA ShapeStep ==
  ASSUME LogShape, [Next]_vars
  PROVE  LogShape' /\ \A f \in File : f \in Applied => log'[f].status # "failed"
<1>1. CASE log' = log
  BY <1>1 DEF LogShape, Applied
<1>2. CASE Writes
  <2>1. PICK f, b :
          \/ log' = [log EXCEPT ![f] = [status |-> "applied", batch |-> b]]
          \/ log' = [log EXCEPT ![f].status = "reverted"]
          \/ /\ f \notin Applied
             /\ log' = [log EXCEPT ![f] = [status |-> "failed", batch |-> b]]
    BY <1>2 DEF Writes
  <2>2. CASE log' = [log EXCEPT ![f] = [status |-> "applied", batch |-> b]]
    BY <2>2 DEF LogShape, Applied
  <2>3. CASE log' = [log EXCEPT ![f].status = "reverted"]
    <3>1. ASSUME NEW g \in File
          PROVE  log'[g] = IF g = f THEN [status |-> "reverted", batch |-> log[g].batch]
                           ELSE log[g]
      <4>1. log[g] = [status |-> log[g].status, batch |-> log[g].batch]
        BY DEF LogShape
      <4>2. log'[g] = IF g = f THEN [log[g] EXCEPT !.status = "reverted"] ELSE log[g]
        BY <2>3 DEF LogShape
      <4>3. [log[g] EXCEPT !.status = "reverted"]
              = [status |-> "reverted", batch |-> log[g].batch]
        BY <4>1
      <4>4. QED
        BY <4>2, <4>3
    <3>2. log' = [g \in File |-> log'[g]]
      BY <2>3 DEF LogShape
    <3>3. \A g \in File : log'[g] = [status |-> log'[g].status, batch |-> log'[g].batch]
      BY <3>1 DEF LogShape
    <3>4. LogShape'
      <4> DEFINE new == log'
      <4>1. /\ new = [g \in File |-> new[g]]
            /\ \A g \in File : new[g] = [status |-> new[g].status, batch |-> new[g].batch]
        BY <3>2, <3>3
      <4> HIDE DEF new
      <4>2. new = [g \in File |-> [status |-> new[g].status, batch |-> new[g].batch]]
        BY <4>1
      <4>3. QED
        BY <4>2 DEF new, LogShape
    <3>5. ASSUME NEW g \in File, g \in Applied
          PROVE  log'[g].status # "failed"
      <4>1. CASE g = f
        <5>1. log'[g] = [status |-> "reverted", batch |-> log[g].batch]
          BY <3>1, <4>1
        <5>2. QED
          BY <5>1
      <4>2. CASE g # f
        <5>1. log'[g] = log[g]
          BY <3>1, <4>2
        <5>2. QED
          BY <3>5, <5>1 DEF Applied
      <4>3. QED
        BY <4>1, <4>2
    <3>6. QED
      BY <3>4, <3>5
  <2>4. CASE /\ f \notin Applied
             /\ log' = [log EXCEPT ![f] = [status |-> "failed", batch |-> b]]
    BY <2>4 DEF LogShape, Applied
  <2>5. QED
    BY <2>1, <2>2, <2>3, <2>4
<1>3. QED
  BY <1>1, <1>2, StepWrites

\* No failure, of whatever kind and in whatever run, ever turns a record that
\* says applied into one that says failed (markFailed's filter).
THEOREM FailureIsHarmless == Spec => FailureNeverDemotes
<1>1. Init => LogShape
  BY DEF Init, LogShape
<1>2. LogShape /\ [Next]_vars =>
        LogShape' /\ [\A f \in File : f \in Applied => log'[f].status # "failed"]_vars
  BY ShapeStep
<1>3. QED
  BY <1>1, <1>2, PTL DEF Spec, FailureNeverDemotes

-----------------------------------------------------------------------------
(* The changelog's queries and the sequences made of them.  What holds of    *)
(* every finite set is shown of a least one for which it does not.           *)

\* A finite set of numbers that is not empty has a greatest element.
LEMMA FiniteHasGreatest ==
  ASSUME NEW S \in SUBSET Nat, IsFiniteSet(S), S # {}
  PROVE  \E n \in S : \A m \in S : m <= n
<1> DEFINE HasLast(X) == \E n \in X : \A m \in X : m <= n
           Bad == {X \in FiniteSubsetsOf(Nat) : X # {} /\ ~HasLast(X)}
<1>1. SUFFICES ASSUME Bad # {} PROVE FALSE
  <2>1. Bad = {} OBVIOUS
  <2> QED BY <2>1 DEF FiniteSubsetsOf
<1>2. PICK X \in Bad : \A Y \in Bad : ~(<<Y, X>> \in StrictSubsetOrdering(Nat))
  <2>1. Bad \subseteq FiniteSubsetsOf(Nat) OBVIOUS
  <2>2. IsWellFoundedOn(StrictSubsetOrdering(Nat), FiniteSubsetsOf(Nat))
    BY FS_StrictSubsetOrderingWellFounded
  <2> HIDE DEF Bad
  <2> QED BY <2>1, <2>2, <1>1, WFMin
<1>3. X \in SUBSET Nat /\ IsFiniteSet(X) /\ X # {} /\ ~HasLast(X) BY DEF FiniteSubsetsOf
<1>4. PICK x \in X : TRUE BY <1>3
<1> DEFINE Y == X \ {x}
<1>5. IsFiniteSet(Y) /\ Y # {} BY <1>3, <1>4, FS_Subset
<1>6. Y \in FiniteSubsetsOf(Nat) BY <1>3, <1>5 DEF FiniteSubsetsOf
<1>7. <<Y, X>> \in StrictSubsetOrdering(Nat) BY <1>3, <1>4 DEF StrictSubsetOrdering
<1>8. HasLast(Y) BY <1>2, <1>5, <1>6, <1>7
<1> QED BY <1>8, <1>3, <1>4

LEMMA HighestFacts ==
  ASSUME NEW S \in SUBSET Nat, IsFiniteSet(S)
  PROVE  /\ Highest(S) \in Nat
         /\ \A n \in S : n <= Highest(S)
         /\ S # {} => Highest(S) \in S
<1>1. CASE S = {}
  BY <1>1 DEF Highest
<1>2. CASE S # {}
  <2>1. \E n \in S : \A m \in S : m <= n
    BY <1>2, FiniteHasGreatest
  <2> QED
    BY <1>2, <2>1 DEF Highest
<1> QED
  BY <1>1, <1>2

\* s lists S in ascending order.
Lists(s, S) ==
  /\ s \in [1..Cardinality(S) -> S]
  /\ \A i, j \in 1..Cardinality(S) : i < j => s[i] < s[j]

\* Every finite set of numbers can be listed in ascending order.
LEMMA FiniteIsListed ==
  ASSUME NEW S \in SUBSET Nat, IsFiniteSet(S)
  PROVE  \E s : Lists(s, S)
<1> DEFINE IsListed(X) == \E s : Lists(s, X)
           Bad == {X \in FiniteSubsetsOf(Nat) : ~IsListed(X)}
<1>1. SUFFICES ASSUME Bad # {} PROVE FALSE
  <2>1. Bad = {} OBVIOUS
  <2> QED BY <2>1 DEF FiniteSubsetsOf
<1>2. PICK X \in Bad : \A Y \in Bad : ~(<<Y, X>> \in StrictSubsetOrdering(Nat))
  <2>1. Bad \subseteq FiniteSubsetsOf(Nat) OBVIOUS
  <2>2. IsWellFoundedOn(StrictSubsetOrdering(Nat), FiniteSubsetsOf(Nat))
    BY FS_StrictSubsetOrderingWellFounded
  <2> HIDE DEF Bad
  <2> QED BY <2>1, <2>2, <1>1, WFMin
<1>3. X \in SUBSET Nat /\ IsFiniteSet(X) /\ ~IsListed(X) BY DEF FiniteSubsetsOf
<1>4. X # {}
  <2>1. SUFFICES ASSUME X = {} PROVE FALSE OBVIOUS
  <2>2. Cardinality(X) = 0 BY <2>1, FS_EmptySet
  <2>3. Lists(<<>>, X) BY <2>1, <2>2 DEF Lists
  <2> QED BY <2>3, <1>3
<1>5. PICK x \in X : \A y \in X : y <= x BY <1>3, <1>4, FiniteHasGreatest
<1> DEFINE Y == X \ {x}
           n == Cardinality(Y)
<1>6. IsFiniteSet(Y) /\ n \in Nat /\ Cardinality(X) = n + 1
  <2>1. IsFiniteSet(Y) /\ n = Cardinality(X) - 1
    BY <1>3, <1>5, FS_RemoveElement
  <2>2. Cardinality(X) \in Nat /\ n \in Nat
    BY <1>3, <2>1, FS_CardinalityType
  <2> QED
    BY <2>1, <2>2
<1>7. Y \in FiniteSubsetsOf(Nat) BY <1>3, <1>6 DEF FiniteSubsetsOf
<1>8. <<Y, X>> \in StrictSubsetOrdering(Nat) BY <1>3, <1>5 DEF StrictSubsetOrdering
<1>9. PICK s : Lists(s, Y) BY <1>2, <1>7, <1>8
<1>10. s \in [1..n -> Y] /\ \A i, j \in 1..n : i < j => s[i] < s[j] BY <1>9 DEF Lists
<1> DEFINE t == [i \in 1..n + 1 |-> IF i = n + 1 THEN x ELSE s[i]]
<1> HIDE DEF n
<1>11. t \in [1..n + 1 -> X]
  <2>1. \A i \in 1..n + 1 : i # n + 1 => i \in 1..n BY <1>6
  <2> QED BY <1>5, <1>10, <2>1
<1>12. ASSUME NEW i \in 1..n + 1, NEW j \in 1..n + 1, i < j PROVE t[i] < t[j]
  <2>1. i \in 1..n /\ t[i] = s[i] /\ s[i] \in Y BY <1>6, <1>10, <1>12
  <2>2. CASE j = n + 1
    <3>1. s[i] \in Nat /\ x \in Nat /\ s[i] <= x /\ s[i] # x BY <1>3, <1>5, <2>1
    <3> QED BY <2>1, <2>2, <3>1
  <2>3. CASE j # n + 1
    <3>1. j \in 1..n BY <1>6, <2>3
    <3> QED BY <1>10, <1>12, <2>1, <2>3, <3>1
  <2> QED BY <2>2, <2>3
<1>13. Lists(t, X) BY <1>6, <1>11, <1>12 DEF Lists
<1> QED BY <1>3, <1>13

\* Ascending lists all of a set of files, in the order of their names.
LEMMA AscendingFacts ==
  ASSUME NEW S \in SUBSET File
  PROVE  /\ Ascending(S) \in Seq(File)
         /\ Len(Ascending(S)) = Cardinality(S) /\ Cardinality(S) \in Nat
         /\ \A i \in DOMAIN Ascending(S) : Ascending(S)[i] \in S
         /\ \A i, j \in DOMAIN Ascending(S) : i < j => Ascending(S)[i] < Ascending(S)[j]
         /\ \A f \in S : \E i \in DOMAIN Ascending(S) : Ascending(S)[i] = f
<1> DEFINE s == Ascending(S)
           n == Cardinality(S)
<1>1. File \in SUBSET Nat /\ IsFiniteSet(File)
  BY FilesAssumption, FS_Interval DEF File
<1>2. S \in SUBSET Nat /\ IsFiniteSet(S) /\ n \in Nat
  BY <1>1, FS_Subset, FS_CardinalityType
<1>3. Lists(s, S)
  BY <1>2, FiniteIsListed DEF Lists, Ascending
<1> HIDE DEF s, n
<1>4. /\ s \in [1..n -> S]
      /\ \A i, j \in 1..n : i < j => s[i] < s[j]
  BY <1>3 DEF Lists, n
<1>5. s \in Seq(File) /\ Len(s) = n /\ DOMAIN s = 1..n
  <2>1. s \in [1..n -> File] /\ DOMAIN s = 1..n
    BY <1>4
  <2>2. s \in Seq(File)
    BY <1>2, <2>1, SeqDef
  <2> QED
    BY <1>2, <2>1, <2>2, LenProperties
<1>6. s \in Injection(1..n, S)
  <2>1. ASSUME NEW i \in 1..n, NEW j \in 1..n, i # j PROVE s[i] # s[j]
    <3>1. i < j \/ j < i BY <1>2, <2>1
    <3>2. s[i] \in Nat /\ s[j] \in Nat BY <1>2, <1>4
    <3> QED BY <1>4, <3>1, <3>2
  <2> QED BY <1>4, <2>1 DEF Injection, IsInjective
<1>7. Cardinality(1..n) = n
  BY <1>2, FS_Interval
<1>8. s \in Surjection(1..n, S)
  BY <1>2, <1>6, <1>7, FS_Injection DEF n
<1>9. \A f \in S : \E i \in 1..n : s[i] = f
  BY <1>8 DEF Surjection
<1> QED
  BY <1>2, <1>4, <1>5, <1>9 DEF s, n

LEMMA ReversedFacts ==
  ASSUME NEW S, NEW s \in Seq(S)
  PROVE  /\ Reversed(s) \in Seq(S)
         /\ Len(Reversed(s)) = Len(s) /\ Len(s) \in Nat
         /\ DOMAIN Reversed(s) = 1..Len(s)
         /\ \A i \in 1..Len(s) : Len(s) + 1 - i \in 1..Len(s) /\ Reversed(s)[i] = s[Len(s) + 1 - i]
<1>1. Len(s) \in Nat /\ DOMAIN s = 1..Len(s) /\ \A i \in 1..Len(s) : s[i] \in S
  OBVIOUS
<1>2. \A i \in 1..Len(s) : Len(s) + 1 - i \in 1..Len(s)
  BY <1>1
<1>3. Reversed(s) \in [1..Len(s) -> S]
  BY <1>1, <1>2 DEF Reversed
<1> QED
  BY <1>1, <1>2, <1>3 DEF Reversed

\* Without takes out one place, and keeps the order of the others.
LEMMA WithoutFacts ==
  ASSUME NEW s \in Seq(File), NEW f,
         \A i, j \in DOMAIN s : s[i] = s[j] => i = j
  PROVE  /\ Without(s, f) \in Seq(File)
         /\ \A i, j \in DOMAIN Without(s, f) : Without(s, f)[i] = Without(s, f)[j] => i = j
         /\ \A i \in DOMAIN Without(s, f) : Without(s, f)[i] # f
         /\ \A i \in DOMAIN s : s[i] # f => \E j \in DOMAIN Without(s, f) : Without(s, f)[j] = s[i]
         /\ \A i, j \in DOMAIN Without(s, f) : i < j =>
              \E k, l \in DOMAIN s : k < l /\ s[k] = Without(s, f)[i] /\ s[l] = Without(s, f)[j]
         /\ \A i \in DOMAIN Without(s, f) : \E k \in DOMAIN s : s[k] = Without(s, f)[i]
<1> DEFINE w == Without(s, f)
<1>1. Len(s) \in Nat /\ DOMAIN s = 1..Len(s) /\ \A i \in 1..Len(s) : s[i] \in File
  OBVIOUS
<1>2. CASE \A i \in DOMAIN s : s[i] # f
  <2>1. w = s
    BY <1>2 DEF Without
  <2> QED
    BY <1>1, <1>2, <2>1
<1>3. CASE \E i \in DOMAIN s : s[i] = f
  <2> DEFINE k == CHOOSE i \in DOMAIN s : s[i] = f
             n == Len(s) - 1
             Old(i) == IF i < k THEN i ELSE i + 1
  <2>1. k \in 1..Len(s) /\ s[k] = f
    BY <1>1, <1>3
  <2>2. w = [i \in 1..n |-> IF i < k THEN s[i] ELSE s[i + 1]]
    BY <1>3 DEF Without
  <2> HIDE DEF k, w
  <2>3. n \in Nat /\ \A i \in 1..n : Old(i) \in 1..Len(s) /\ w[i] = s[Old(i)] /\ Old(i) # k
    BY <1>1, <2>1, <2>2
  <2>4. w \in [1..n -> File]
    BY <1>1, <2>2, <2>3
  <2>5. w \in Seq(File) /\ Len(w) = n /\ DOMAIN w = 1..n
    BY <2>3, <2>4
  <2>6. \A i, j \in 1..n : i < j => Old(i) < Old(j)
    BY <2>1, <2>3, <1>1
  <2>7. \A i \in 1..n : w[i] # f
    BY <1>1, <2>1, <2>3
  <2>8. \A i, j \in 1..n : w[i] = w[j] => i = j
    <3> SUFFICES ASSUME NEW i \in 1..n, NEW j \in 1..n, w[i] = w[j] PROVE i = j
      OBVIOUS
    <3>1. Old(i) = Old(j)
      BY <1>1, <2>3
    <3> QED
      BY <2>6, <3>1, <2>3
  <2>9. ASSUME NEW i \in 1..Len(s), s[i] # f PROVE \E j \in 1..n : w[j] = s[i]
    <3>1. i # k
      BY <2>1, <2>9
    <3>2. CASE i < k
      <4>1. i \in 1..n /\ Old(i) = i
        BY <1>1, <2>1, <3>2
      <4> QED
        BY <2>3, <4>1
    <3>3. CASE i > k
      <4>1. i - 1 \in 1..n /\ Old(i - 1) = i
        BY <1>1, <2>1, <3>3
      <4> QED
        BY <2>3, <4>1
    <3> QED
      BY <1>1, <2>1, <3>1, <3>2, <3>3
  <2> HIDE DEF n, Old
  <2> QED
    BY <1>1, <2>3, <2>5, <2>6, <2>7, <2>8, <2>9 DEF w
<1> QED
  BY <1>2, <1>3

-----------------------------------------------------------------------------
(* What a run has planned stays right while it deals with it, as long as no  *)
(* lock is lost.                                                             *)

Dealing(p) == phase[p] \in {"next", "load", "body", "record"}
Tracing(p) == Dealing(p) \/ phase[p] = "trace"

DataTypes ==
  /\ files \in SUBSET File
  /\ log \in [File -> [status: {"none", "applied", "reverted", "failed"}, batch: Nat]]
  /\ order \in Seq(File)
  /\ effect \in [File -> 0..2]
  /\ job \in [Run -> Job]
  /\ way \in [Run -> {"up", "down"}]
  /\ todo \in [Run -> Seq(File)]
  /\ seen \in [Run -> SUBSET File]
  /\ batch \in [Run -> Nat]
  /\ zombies \in SUBSET ((File \ Transactional) \X {"up", "down"})
  /\ used \in SUBSET Nat

\* A file is in the order of the applied ones, once, exactly when it is applied;
\* and only files on disk have records.
RecordsInv ==
  /\ \A i, j \in DOMAIN order : order[i] = order[j] => i = j
  /\ \A f \in File : f \in Applied <=> \E i \in DOMAIN order : order[i] = f
  /\ \A f \in File : log[f].status # "none" => f \in files
  /\ FirstFiles \subseteq files

\* A run's command, direction and phase fit together.
JobOK(p) ==
  /\ ValidJob(job[p])
  /\ job[p].op \in {"up", "down"} => way[p] = job[p].op
  /\ job[p].op = "redo" /\ (way[p] = "up" \/ Dealing(p)) => job[p].file \in files
  /\ phase[p] = "trace" => way[p] = "up"
  /\ ~labelled /\ (phase[p] = "plan" \/ way[p] = "down") => batch[p] = 0

\* What it deals with: files on disk in ascending order, or files to revert.
TodoOK(p) ==
  /\ Tracing(p) /\ phase[p] # "next" => todo[p] # <<>>
  /\ Dealing(p) /\ phase[p] # "next" => ~Skips(p)
  /\ phase[p] = "record" => Head1(p) \notin Transactional
  /\ Tracing(p) /\ way[p] = "up" =>
       /\ \A i \in DOMAIN todo[p] : todo[p][i] \in files
       /\ \A i, j \in DOMAIN todo[p] : i < j => todo[p][i] < todo[p][j]
       /\ job[p].ordered => Len(todo[p]) <= 1

RunsInv == \A p \in Run : phase[p] # "idle" => JobOK(p) /\ TodoOK(p)

\* An `up`, against what is applied by now.
UpToDate(p) ==
  \A i \in DOMAIN todo[p] : todo[p][i] \in Applied => todo[p][i] \in seen[p]

UpOrdered(p) ==
  job[p].ordered => \A i \in DOMAIN todo[p] : todo[p][i] \notin Applied =>
    \A g \in 1..todo[p][i] - 1 : g \in Applied \/ (g \notin FirstFiles /\ log[g].status = "none")

UpIntact(p) ==
  job[p].policy = "error" /\ job[p].op = "up" /\ (job[p].ordered \/ job[p].by # "one") =>
    \A i \in DOMAIN todo[p] : todo[p][i] \notin Applied => \A g \in Applied : g < todo[p][i]

UpNumbered(p) ==
  ~labelled => \A g \in Applied : log[g].batch = batch[p] =>
                 \A i \in DOMAIN todo[p] : g < todo[p][i]

\* A `down`: what it reverts is applied, and what is newer comes earlier.
DownToDate(p) ==
  /\ \A i \in DOMAIN todo[p] : todo[p][i] \in Applied
  /\ \A i, j \in DOMAIN todo[p] : todo[p][i] = todo[p][j] => i = j

DownNewestFirst(p) ==
  NewestFirst(job[p]) /\ (labelled => job[p].by # "batch") =>
    \A i \in DOMAIN todo[p] : \A g \in NewerThan(todo[p][i]) :
      \E j \in DOMAIN todo[p] : j < i /\ todo[p][j] = g

PlanOK(p) ==
  /\ Dealing(p) /\ way[p] = "up" => UpToDate(p) /\ UpOrdered(p) /\ UpIntact(p) /\ UpNumbered(p)
  /\ Dealing(p) /\ way[p] = "down" => DownToDate(p) /\ DownNewestFirst(p)
  /\ Tracing(p) /\ way[p] = "up" /\ ~labelled => \A b \in used : b <= batch[p]

\* Batch numbers that were used are still on record, and the order in which
\* files were applied is that of batches and, within a batch, of names.
NumbersInv ==
  /\ \A f \in File : log[f].batch \in used \cup {0}
  /\ \A b \in used : \E f \in File : b <= log[f].batch
  /\ \A i, j \in DOMAIN order : i < j =>
       \/ log[order[i]].batch < log[order[j]].batch
       \/ log[order[i]].batch = log[order[j]].batch /\ order[i] < order[j]

PlansInv ==
  ~lost => /\ \A p \in Run : PlanOK(p)
           /\ ~labelled => NumbersInv

RunInv == RunTypes /\ LockInv /\ DataTypes /\ RecordsInv /\ RunsInv /\ PlansInv

-----------------------------------------------------------------------------
(* What the writes to the changelog do. *)

LEMMA FileFacts == File \in SUBSET Nat /\ IsFiniteSet(File) /\ \A f \in File : f # NoFile
  BY FilesAssumption, FS_Interval DEF File, NoFile

LEMMA AppliedMarked ==
  ASSUME DataTypes, RecordsInv, NEW f \in File, f \in files, NEW b \in Nat, MarkApplied(f, b),
         files' = files
  PROVE  /\ log' \in [File -> [status: {"none", "applied", "reverted", "failed"}, batch: Nat]]
         /\ order' \in Seq(File)
         /\ log'[f] = [status |-> "applied", batch |-> b]
         /\ \A g \in File \ {f} : log'[g] = log[g]
         /\ Applied' = Applied \cup {f}
         /\ RecordsInv'
         /\ \A i, j \in DOMAIN order' : i < j =>
              /\ order'[i] \in Applied \ {f}
              /\ \/ order'[j] = f
                 \/ /\ order'[j] # f
                    /\ \E k, l \in DOMAIN order : k < l /\ order[k] = order'[i]
                                               /\ order[l] = order'[j]
<1> DEFINE w == Without(order, f)
<1>1. /\ log' = [log EXCEPT ![f] = [status |-> "applied", batch |-> b]]
      /\ order' = Append(w, f)
  BY DEF MarkApplied
<1>2. /\ w \in Seq(File)
      /\ \A i, j \in DOMAIN w : w[i] = w[j] => i = j
      /\ \A i \in DOMAIN w : w[i] # f
      /\ \A i \in DOMAIN order : order[i] # f => \E j \in DOMAIN w : w[j] = order[i]
      /\ \A i \in DOMAIN w : \E k \in DOMAIN order : order[k] = w[i]
      /\ \A i, j \in DOMAIN w : i < j =>
           \E k, l \in DOMAIN order : k < l /\ order[k] = w[i] /\ order[l] = w[j]
  BY WithoutFacts DEF DataTypes, RecordsInv
<1> HIDE DEF w
<1>3. /\ log' \in [File -> [status: {"none", "applied", "reverted", "failed"}, batch: Nat]]
      /\ log'[f] = [status |-> "applied", batch |-> b]
      /\ \A g \in File \ {f} : log'[g] = log[g]
  BY <1>1 DEF DataTypes
<1>4. Applied' = Applied \cup {f}
  BY <1>3 DEF Applied
<1>5. /\ order' \in Seq(File) /\ Len(w) \in Nat /\ Len(order') = Len(w) + 1
      /\ DOMAIN w = 1..Len(w) /\ DOMAIN order' = 1..Len(w) + 1
      /\ \A i \in 1..Len(w) : order'[i] = w[i]
      /\ order'[Len(w) + 1] = f
  BY <1>1, <1>2
<1>6. \A i, j \in DOMAIN order' : order'[i] = order'[j] => i = j
  BY <1>2, <1>5
<1>7. ASSUME NEW g \in File PROVE g \in Applied' <=> \E i \in DOMAIN order' : order'[i] = g
  <2>1. CASE g = f
    BY <1>4, <1>5, <2>1
  <2>2. CASE g # f
    <3>1. g \in Applied <=> \E i \in DOMAIN order : order[i] = g
      BY DEF RecordsInv
    <3>2. (\E i \in DOMAIN order : order[i] = g) <=> \E i \in DOMAIN w : w[i] = g
      BY <1>2, <2>2
    <3>3. (\E i \in DOMAIN w : w[i] = g) <=> \E i \in DOMAIN order' : order'[i] = g
      BY <1>5, <2>2
    <3> QED
      BY <1>4, <2>2, <3>1, <3>2, <3>3
  <2> QED
    BY <2>1, <2>2
<1>8. \A g \in File : log'[g].status # "none" => g \in files
  BY <1>3 DEF RecordsInv
<1>9. ASSUME NEW i \in DOMAIN order', NEW j \in DOMAIN order', i < j
      PROVE  /\ order'[i] \in Applied \ {f}
             /\ \/ order'[j] = f
                \/ /\ order'[j] # f
                   /\ \E k, l \in DOMAIN order : k < l /\ order[k] = order'[i]
                                              /\ order[l] = order'[j]
  <2>1. i \in DOMAIN w /\ order'[i] = w[i] /\ w[i] # f
    BY <1>2, <1>5, <1>9
  <2>2. w[i] \in Applied
    <3>1. w[i] \in File /\ \E k \in DOMAIN order : order[k] = w[i]
      BY <1>2, <2>1
    <3> QED
      BY <3>1 DEF RecordsInv
  <2>3. CASE j = Len(w) + 1
    BY <1>5, <2>1, <2>2, <2>3
  <2>4. CASE j \in DOMAIN w
    BY <1>2, <1>5, <1>9, <2>1, <2>2, <2>4
  <2> QED
    BY <1>5, <2>3, <2>4
<1> QED
  BY <1>3, <1>4, <1>5, <1>6, <1>7, <1>8, <1>9 DEF RecordsInv

LEMMA RevertedMarked ==
  ASSUME DataTypes, RecordsInv, NEW f \in File, f \in Applied, MarkReverted(f), files' = files
  PROVE  /\ log' \in [File -> [status: {"none", "applied", "reverted", "failed"}, batch: Nat]]
         /\ order' \in Seq(File)
         /\ log'[f].status = "reverted" /\ log'[f].batch = log[f].batch
         /\ \A g \in File \ {f} : log'[g] = log[g]
         /\ Applied' = Applied \ {f}
         /\ RecordsInv'
         /\ \A g \in File \ {f} : NewerThan(g)' \subseteq NewerThan(g) \ {f}
         /\ \A i, j \in DOMAIN order' : i < j =>
              \E k, l \in DOMAIN order : k < l /\ order[k] = order'[i] /\ order[l] = order'[j]
<1> DEFINE w == Without(order, f)
<1>1. log' = [log EXCEPT ![f].status = "reverted"] /\ order' = w
  BY DEF MarkReverted
<1>2. /\ order' \in Seq(File)
      /\ \A i, j \in DOMAIN order' : order'[i] = order'[j] => i = j
      /\ \A i \in DOMAIN order' : order'[i] # f
      /\ \A i \in DOMAIN order : order[i] # f => \E j \in DOMAIN order' : order'[j] = order[i]
      /\ \A i, j \in DOMAIN order' : i < j =>
           \E k, l \in DOMAIN order : k < l /\ order[k] = order'[i] /\ order[l] = order'[j]
      /\ \A i \in DOMAIN order' : \E k \in DOMAIN order : order[k] = order'[i]
  <2>1. /\ w \in Seq(File)
        /\ \A i, j \in DOMAIN w : w[i] = w[j] => i = j
        /\ \A i \in DOMAIN w : w[i] # f
        /\ \A i \in DOMAIN order : order[i] # f => \E j \in DOMAIN w : w[j] = order[i]
        /\ \A i, j \in DOMAIN w : i < j =>
             \E k, l \in DOMAIN order : k < l /\ order[k] = w[i] /\ order[l] = w[j]
        /\ \A i \in DOMAIN w : \E k \in DOMAIN order : order[k] = w[i]
    BY WithoutFacts DEF DataTypes, RecordsInv
  <2> HIDE DEF w
  <2> QED
    BY <1>1, <2>1
<1>3. /\ log' \in [File -> [status: {"none", "applied", "reverted", "failed"}, batch: Nat]]
      /\ log'[f].status = "reverted" /\ log'[f].batch = log[f].batch
      /\ \A g \in File \ {f} : log'[g] = log[g]
  BY <1>1 DEF DataTypes
<1>4. Applied' = Applied \ {f}
  BY <1>3 DEF Applied
<1>5. ASSUME NEW g \in File PROVE g \in Applied' <=> \E i \in DOMAIN order' : order'[i] = g
  BY <1>2, <1>4 DEF RecordsInv
<1>6. \A g \in File : log'[g].status # "none" => g \in files
  BY <1>3 DEF RecordsInv, Applied
<1>7. ASSUME NEW g \in File \ {f}, NEW h \in NewerThan(g)'
      PROVE  h \in NewerThan(g) \ {f}
  <2>1. h \in Applied' /\ \E i, j \in DOMAIN order' : i < j /\ order'[i] = g /\ order'[j] = h
    BY DEF NewerThan
  <2>2. h \in Applied /\ h # f
    BY <1>4, <2>1
  <2>3. \E k, l \in DOMAIN order : k < l /\ order[k] = g /\ order[l] = h
    BY <1>2, <2>1
  <2> QED
    BY <2>2, <2>3 DEF NewerThan
<1> QED
  BY <1>2, <1>3, <1>4, <1>5, <1>6, <1>7 DEF RecordsInv

\* The trace of a failure tells of no applied file.
LEMMA FailedMarked ==
  ASSUME DataTypes, RecordsInv, NEW f \in File, f \in files, NEW b \in Nat, MarkFailed(f, b),
         UNCHANGED <<files, order>>
  PROVE  /\ log' \in [File -> [status: {"none", "applied", "reverted", "failed"}, batch: Nat]]
         /\ \A g \in File \ {f} : log'[g] = log[g]
         /\ \/ f \in Applied /\ log' = log /\ used' = used
            \/ f \notin Applied /\ log'[f].batch = b /\ used' = used \cup {b}
         /\ Applied' = Applied
         /\ RecordsInv'
<1>1. CASE f \in Applied
  <2>1. log' = log /\ used' = used
    BY <1>1 DEF MarkFailed
  <2> QED
    BY <1>1, <2>1 DEF DataTypes, RecordsInv, Applied
<1>2. CASE f \notin Applied
  <2>1. /\ log' = [log EXCEPT ![f] = [status |-> "failed", batch |-> b]]
        /\ used' = used \cup {b}
    BY <1>2 DEF MarkFailed
  <2>2. /\ log' \in [File -> [status: {"none", "applied", "reverted", "failed"}, batch: Nat]]
        /\ log'[f] = [status |-> "failed", batch |-> b]
        /\ \A g \in File \ {f} : log'[g] = log[g]
    BY <2>1 DEF DataTypes
  <2>3. Applied' = Applied
    BY <1>2, <2>2 DEF Applied
  <2>4. RecordsInv'
    BY <2>2, <2>3 DEF RecordsInv
  <2> QED
    BY <1>2, <2>1, <2>2, <2>3, <2>4
<1> QED
  BY <1>1, <1>2

LEMMA NextBatchFacts ==
  ASSUME DataTypes
  PROVE  /\ NextBatch \in Nat /\ NextBatch > 0
         /\ \A f \in File : log[f].batch < NextBatch
<1> DEFINE S == {log[f].batch : f \in File}
<1>1. S \in SUBSET Nat
  BY DEF DataTypes
<1>2. IsFiniteSet(S)
  <2> DEFINE at == [f \in File |-> log[f].batch]
  <2>1. at \in Surjection(File, S)
    BY DEF Surjection
  <2> QED
    BY <2>1, FileFacts, FS_Surjection
<1>3. Highest(S) \in Nat /\ \A n \in S : n <= Highest(S)
  BY <1>1, <1>2, HighestFacts
<1>4. NextBatch = 1 + Highest(S)
  BY DEF NextBatch
<1>5. \A f \in File : log[f].batch \in S
  OBVIOUS
<1> HIDE DEF S
<1>6. \A f \in File : log[f].batch \in Nat
  BY <1>1, <1>5
<1> QED
  BY <1>3, <1>4, <1>5, <1>6

LEMMA LastBatchFacts ==
  ASSUME DataTypes
  PROVE  /\ LastBatch \in Nat
         /\ \A f \in Applied : log[f].batch <= LastBatch
<1> DEFINE S == {log[f].batch : f \in Applied}
<1>0. Applied \subseteq File
  BY DEF Applied
<1>1. S \in SUBSET Nat
  BY <1>0 DEF DataTypes
<1>2. IsFiniteSet(S)
  <2> DEFINE at == [f \in Applied |-> log[f].batch]
  <2>1. at \in Surjection(Applied, S)
    BY DEF Surjection
  <2>2. IsFiniteSet(Applied)
    BY <1>0, FileFacts, FS_Subset
  <2> QED
    BY <2>1, <2>2, FS_Surjection
<1>3. Highest(S) \in Nat /\ \A n \in S : n <= Highest(S)
  BY <1>1, <1>2, HighestFacts
<1> QED
  BY <1>3 DEF LastBatch

-----------------------------------------------------------------------------
(* A step of one run, while no lock is lost: all the others are idle. *)

\* Only p's own variables change, and no lock is lost by it.
Frame(p) ==
  /\ files' = files /\ lost' = lost
  /\ \A q \in Run \ {p} :
       /\ phase'[q] = phase[q] /\ job'[q] = job[q] /\ way'[q] = way[q] /\ todo'[q] = todo[q]
       /\ seen'[q] = seen[q] /\ batch'[q] = batch[q] /\ aborted'[q] = aborted[q]

LEMMA Alone ==
  ASSUME RunInv, ~lost, NEW p \in Run, phase[p] # "idle"
  PROVE  \A q \in Run \ {p} : phase[q] = "idle"
  BY DEF RunInv, LockInv, KeptInv

\* What is to be shown of a step of p.
LEMMA Assemble ==
  ASSUME RunInv, NEW p \in Run, Frame(p),
         ~lost => \A q \in Run \ {p} : phase[q] = "idle",
         phase'[p] # "idle" => JobOK(p)' /\ TodoOK(p)',
         labelled => labelled',
         ~lost => PlanOK(p)',
         ~lost /\ ~labelled' => NumbersInv'
  PROVE  RunsInv' /\ PlansInv'
<1> USE DEF Frame
<1>1. ASSUME NEW q \in Run, phase'[q] # "idle" PROVE JobOK(q)' /\ TodoOK(q)'
  <2>1. CASE q = p
    BY <1>1, <2>1
  <2>2. CASE q # p
    <3>1. JobOK(q) /\ TodoOK(q)
      BY <1>1, <2>2 DEF RunInv, RunsInv
    <3>2. JobOK(q)'
      BY <2>2, <3>1 DEF JobOK, ValidJob, Dealing
    <3>3. TodoOK(q)'
      BY <2>2, <3>1 DEF TodoOK, Dealing, Tracing, Skips, Head1
    <3> QED
      BY <3>2, <3>3
  <2> QED
    BY <2>1, <2>2
<1>2. ASSUME ~lost, NEW q \in Run PROVE PlanOK(q)'
  <2>1. CASE q = p
    BY <1>2, <2>1
  <2>2. CASE q # p
    <3>1. phase'[q] = "idle"
      BY <1>2, <2>2 DEF RunInv, PlansInv
    <3> QED
      BY <3>1 DEF PlanOK, Dealing, Tracing
  <2> QED
    BY <2>1, <2>2
<1> QED
  BY <1>1, <1>2 DEF RunsInv, PlansInv

\* What is left of a run's plan when nothing that it is about has changed.
LEMMA PlanKept ==
  ASSUME NEW p \in Run, PlanOK(p), UNCHANGED <<log, order, used, labelled>>,
         job'[p] = job[p], way'[p] = way[p], batch'[p] = batch[p], seen'[p] = seen[p],
         todo'[p] = todo[p], Dealing(p)' => Dealing(p), Tracing(p)' => Tracing(p)
  PROVE  PlanOK(p)'
<1>1. Applied' = Applied
  BY DEF Applied
<1>2. ASSUME Dealing(p)', way[p] = "up"
      PROVE  UpToDate(p)' /\ UpOrdered(p)' /\ UpIntact(p)' /\ UpNumbered(p)'
  <2>1. UpToDate(p) /\ UpOrdered(p) /\ UpIntact(p) /\ UpNumbered(p)
    BY <1>2 DEF PlanOK
  <2> QED
    BY <1>1, <2>1 DEF UpToDate, UpOrdered, UpIntact, UpNumbered
<1>3. ASSUME Dealing(p)', way[p] = "down" PROVE DownToDate(p)' /\ DownNewestFirst(p)'
  <2>1. DownToDate(p) /\ DownNewestFirst(p)
    BY <1>3 DEF PlanOK
  <2>2. \A f : NewerThan(f)' = NewerThan(f)
    BY <1>1 DEF NewerThan
  <2> QED
    BY <1>1, <2>1, <2>2 DEF DownToDate, DownNewestFirst, NewestFirst
<1> QED
  BY <1>2, <1>3 DEF PlanOK

LEMMA RecordsKept ==
  ASSUME RecordsInv, UNCHANGED <<log, order, files>>
  PROVE  RecordsInv'
  BY DEF RecordsInv, Applied

LEMMA NumbersKept ==
  ASSUME NumbersInv, UNCHANGED <<log, order, used>>
  PROVE  NumbersInv'
  BY DEF NumbersInv

\* A step that moves p along and changes neither data nor changelog nor plan.
LEMMA QuietStep ==
  ASSUME RunInv, NEW p \in Run, phase[p] # "idle", Frame(p),
         UNCHANGED <<log, order, used, labelled>>,
         job'[p] = job[p], way'[p] = way[p], batch'[p] = batch[p], seen'[p] = seen[p],
         todo'[p] = todo[p],
         Dealing(p)' => Dealing(p), Tracing(p)' => Tracing(p),
         phase[p] # "record", phase'[p] \notin {"record", "plan"},
         phase'[p] = "trace" => way[p] = "up",
         Tracing(p)' /\ phase'[p] # "next" => todo[p] # <<>>,
         Dealing(p)' /\ phase'[p] # "next" => ~Skips(p)
  PROVE  RecordsInv' /\ RunsInv' /\ PlansInv'
<1>0. JobOK(p) /\ TodoOK(p)
  BY DEF RunInv, RunsInv
<1>1. RecordsInv'
  BY RecordsKept DEF RunInv, Frame
<1>2. JobOK(p)'
  BY <1>0 DEF JobOK, ValidJob, Frame
<1>3. TodoOK(p)'
  BY <1>0 DEF TodoOK, Skips, Head1, Frame
<1>4. ASSUME ~lost PROVE PlanOK(p)'
  BY <1>4, PlanKept DEF RunInv, PlansInv
<1>5. ~lost /\ ~labelled' => NumbersInv'
  BY NumbersKept DEF RunInv, PlansInv
<1>6. ~lost => \A q \in Run \ {p} : phase[q] = "idle"
  BY Alone
<1> QED
  BY <1>1, <1>2, <1>3, <1>4, <1>5, <1>6, Assemble

LEMMA QuietActions ==
  ASSUME RunInv, NEW p \in Run,
         \/ Stop(p) \/ Load(p) \/ LoadFails(p) \/ StartBody(p) \/ Timeout(p)
  PROVE  RecordsInv' /\ RunsInv' /\ PlansInv'
<1> USE DEF RunInv, RunTypes, DataTypes, Phases, Goes, dataVars, lossVars, pastVars
<1>0. phase[p] # "idle" => JobOK(p) /\ TodoOK(p)
  BY DEF RunsInv
<1>1. CASE Stop(p)
  BY <1>1, QuietStep DEF Stop, Frame, Dealing, Tracing
<1>2. CASE Load(p)
  BY <1>2, QuietStep DEF Load, Frame, Dealing, Tracing
<1>3. CASE LoadFails(p)
  BY <1>3, QuietStep DEF LoadFails, Frame, Dealing, Tracing
<1>4. CASE StartBody(p)
  BY <1>0, <1>4, QuietStep DEF StartBody, Frame, Dealing, Tracing, TodoOK
<1>5. CASE Timeout(p)
  BY <1>0, <1>5, QuietStep DEF Timeout, Failed, Frame, Dealing, Tracing, TodoOK
<1> QED
  BY <1>1, <1>2, <1>3, <1>4, <1>5

LEMMA TailFacts ==
  ASSUME NEW s \in Seq(File), s # <<>>
  PROVE  /\ Tail(s) \in Seq(File)
         /\ Len(s) \in Nat /\ Len(s) >= 1 /\ Len(Tail(s)) = Len(s) - 1
         /\ DOMAIN s = 1..Len(s) /\ DOMAIN Tail(s) = 1..(Len(s) - 1)
         /\ \A i \in DOMAIN Tail(s) : i + 1 \in DOMAIN s /\ Tail(s)[i] = s[i + 1]
         /\ s[1] \in File
  OBVIOUS

LEMMA SkipStep ==
  ASSUME RunInv, NEW p \in Run, Skip(p)
  PROVE  RecordsInv' /\ RunsInv' /\ PlansInv'
<1> USE DEF RunInv, RunTypes, DataTypes, dataVars, lossVars, pastVars
<1>0. JobOK(p) /\ TodoOK(p)
  BY DEF RunsInv, Skip
<1>1. /\ phase[p] = "next" /\ todo[p] # <<>> /\ way[p] = "up"
      /\ todo' = [todo EXCEPT ![p] = Tail(@)]
      /\ UNCHANGED <<files, log, order, effect, phase, job, way, seen, batch, aborted, lost,
                     labelled, forced, excused, used>>
  BY DEF Skip, Skips
<1> DEFINE s == todo[p]
           t == todo'[p]
<1>2. /\ Len(s) \in Nat /\ Len(s) >= 1 /\ Len(t) = Len(s) - 1
      /\ DOMAIN s = 1..Len(s) /\ DOMAIN t = 1..(Len(s) - 1)
      /\ \A i \in DOMAIN t : i + 1 \in DOMAIN s /\ t[i] = s[i + 1]
  <2>1. s \in Seq(File) /\ t = Tail(s)
    BY <1>1
  <2> HIDE DEF s, t
  <2> QED
    BY <1>1, <2>1, TailFacts DEF s
<1>3. Frame(p) /\ phase[p] # "idle"
  BY <1>1 DEF Frame
<1>4. RecordsInv'
  BY <1>1, RecordsKept
<1>5. JobOK(p)'
  BY <1>0, <1>1 DEF JobOK, ValidJob, Dealing
<1>6. TodoOK(p)'
  <2>1. /\ \A i \in DOMAIN s : s[i] \in files
        /\ \A i, j \in DOMAIN s : i < j => s[i] < s[j]
        /\ job[p].ordered => Len(s) <= 1
    BY <1>0, <1>1 DEF TodoOK, Tracing, Dealing
  <2> HIDE DEF s, t
  <2>2. /\ \A i \in DOMAIN t : t[i] \in files
        /\ job[p].ordered => Len(t) <= 1
    BY <1>2, <2>1
  <2>3. ASSUME NEW i \in DOMAIN t, NEW j \in DOMAIN t, i < j PROVE t[i] < t[j]
    <3>1. i + 1 \in DOMAIN s /\ j + 1 \in DOMAIN s /\ i + 1 < j + 1
      BY <1>2, <2>3
    <3> QED
      BY <1>2, <2>1, <3>1
  <2>4. phase'[p] = "next"
    BY <1>1
  <2> QED
    BY <1>1, <2>2, <2>3, <2>4 DEF TodoOK, t
<1>7. ASSUME ~lost PROVE PlanOK(p)'
  <2>1. PlanOK(p)
    BY <1>1, <1>7 DEF PlansInv
  <2>2. Applied' = Applied
    BY <1>1 DEF Applied
  <2>3. UpToDate(p) /\ UpOrdered(p) /\ UpIntact(p) /\ UpNumbered(p)
    BY <1>1, <2>1 DEF PlanOK, Dealing
  <2>4. UpToDate(p)'
    BY <1>1, <1>2, <2>2, <2>3 DEF UpToDate
  <2>5. UpOrdered(p)'
    BY <1>1, <1>2, <2>2, <2>3 DEF UpOrdered
  <2>6. UpIntact(p)'
    BY <1>1, <1>2, <2>2, <2>3 DEF UpIntact
  <2>7. UpNumbered(p)'
    BY <1>1, <1>2, <2>2, <2>3 DEF UpNumbered
  <2> QED
    BY <1>1, <2>1, <2>4, <2>5, <2>6, <2>7 DEF PlanOK, Tracing, Dealing
<1>8. ~lost /\ ~labelled' => NumbersInv'
  BY <1>1, NumbersKept DEF PlansInv
<1>9. ~lost => \A q \in Run \ {p} : phase[q] = "idle"
  BY <1>3, Alone
<1> QED
  BY <1>1, <1>3, <1>4, <1>5, <1>6, <1>7, <1>8, <1>9, Assemble

\* The end of a run, or of its process.
LEMMA EndStep ==
  ASSUME RunInv, NEW p \in Run, End(p) \/ Crash(p)
  PROVE  RecordsInv' /\ RunsInv' /\ PlansInv'
<1> USE DEF RunInv, RunTypes, DataTypes, dataVars, lossVars, pastVars
<1>0. phase[p] # "idle" => JobOK(p) /\ TodoOK(p)
  BY DEF RunsInv
<1>1. /\ Reset(p) /\ phase[p] # "idle"
      /\ UNCHANGED <<files, log, order, lost, labelled, used>>
  BY DEF End, Crash
<1>2. Frame(p) /\ phase'[p] = "idle"
  BY <1>1 DEF Frame, Reset
<1>3. ASSUME ~lost PROVE PlanOK(p)'
  BY <1>2 DEF PlanOK, Tracing, Dealing
<1>4. RecordsInv' /\ (~lost /\ ~labelled' => NumbersInv')
  BY <1>1, RecordsKept, NumbersKept DEF PlansInv
<1>5. ~lost => \A q \in Run \ {p} : phase[q] = "idle"
  BY <1>1, Alone
<1> QED
  BY <1>1, <1>2, <1>3, <1>4, <1>5, Assemble

\* A redo's second half, or the end.
LEMMA DoneStep ==
  ASSUME RunInv, NEW p \in Run, SequenceDone(p)
  PROVE  RecordsInv' /\ RunsInv' /\ PlansInv'
<1> USE DEF RunInv, RunTypes, DataTypes, dataVars, lossVars, pastVars
<1>0. JobOK(p) /\ TodoOK(p)
  BY DEF RunsInv, SequenceDone
<1>1. /\ phase[p] = "next" /\ todo[p] = <<>>
      /\ UNCHANGED <<files, log, order, effect, job, todo, seen, batch, aborted, lost,
                     labelled, forced, excused, used>>
  BY DEF SequenceDone
<1>2. \/ phase' = [phase EXCEPT ![p] = "end"] /\ way' = way
      \/ /\ job[p].op = "redo" /\ way[p] = "down"
         /\ phase' = [phase EXCEPT ![p] = "plan"] /\ way' = [way EXCEPT ![p] = "up"]
  BY DEF SequenceDone, Goes
<1>3. Frame(p) /\ phase'[p] \in {"end", "plan"}
  BY <1>1, <1>2 DEF Frame
<1>4. JobOK(p)' /\ TodoOK(p)'
  BY <1>0, <1>1, <1>2, <1>3 DEF JobOK, ValidJob, TodoOK, Dealing, Tracing
<1>5. ASSUME ~lost PROVE PlanOK(p)'
  BY <1>1, <1>3, <1>5 DEF PlanOK, Tracing, Dealing, PlansInv
<1>6. RecordsInv' /\ (~lost /\ ~labelled' => NumbersInv')
  BY <1>1, RecordsKept, NumbersKept DEF PlansInv
<1>7. ~lost => \A q \in Run \ {p} : phase[q] = "idle"
  BY <1>1, Alone
<1> QED
  BY <1>1, <1>3, <1>4, <1>5, <1>6, <1>7, Assemble

\* A revert of what is not applied is not recorded.
LEMMA RevertedNothing ==
  ASSUME DataTypes, RecordsInv, NEW f \in File, f \notin Applied, MarkReverted(f)
  PROVE  log' = log /\ order' = order
<1>1. \A i \in DOMAIN order : order[i] # f
  BY DEF RecordsInv
<1> QED
  BY <1>1 DEF MarkReverted, Without

-----------------------------------------------------------------------------
(* The bodies and their records. *)

LEMMA TakesFacts ==
  ASSUME DataTypes, NEW f \in File, NEW d \in {"up", "down"}, Takes(f, d)
  PROVE  /\ effect' \in [File -> 0..2]
         /\ \A g \in File \ {f} : effect'[g] = effect[g]
         /\ d = "up" /\ effect[f] = 0 => effect'[f] = 1
         /\ d = "down" /\ effect[f] = 1 => effect'[f] = 0
  BY DEF DataTypes, Takes, Changed

LEMMA BodyCommitStep ==
  ASSUME RunInv, NEW p \in Run, BodyCommit(p)
  PROVE  RecordsInv' /\ RunsInv' /\ PlansInv'
<1> USE DEF RunInv, RunTypes, DataTypes, dataVars, lossVars, pastVars
<1> DEFINE f == Head1(p)
<1>0. JobOK(p) /\ TodoOK(p)
  BY DEF RunsInv, BodyCommit
<1>1. /\ phase[p] = "body" /\ f \notin Transactional /\ Takes(f, way[p])
      /\ phase' = [phase EXCEPT ![p] = "record"] /\ forced' = ForcedNow(p)
      /\ UNCHANGED <<files, log, order, job, way, todo, seen, batch, aborted, lost, labelled,
                     excused, used>>
  BY DEF BodyCommit, Goes
<1>2. Frame(p) /\ phase'[p] = "record" /\ Head1(p)' = f
  BY <1>1 DEF Frame, Head1
<1>3. JobOK(p)'
  BY <1>0, <1>1, <1>2 DEF JobOK, ValidJob, Dealing
<1>4. TodoOK(p)'
  BY <1>0, <1>1, <1>2 DEF TodoOK, Tracing, Dealing, Skips, Head1
<1>5. ASSUME ~lost PROVE PlanOK(p)'
  BY <1>1, <1>2, <1>5, PlanKept DEF Dealing, Tracing, PlansInv
<1>6. RecordsInv' /\ (~lost /\ ~labelled' => NumbersInv')
  BY <1>1, RecordsKept, NumbersKept DEF PlansInv
<1>7. ~lost => \A q \in Run \ {p} : phase[q] = "idle"
  BY <1>1, Alone
<1> QED
  BY <1>1, <1>2, <1>3, <1>4, <1>5, <1>6, <1>7, Assemble

LEMMA BodyFailsStep ==
  ASSUME RunInv, NEW p \in Run, BodyFails(p)
  PROVE  RecordsInv' /\ RunsInv' /\ PlansInv'
<1> USE DEF RunInv, RunTypes, DataTypes, dataVars, lossVars, pastVars
<1>0. JobOK(p) /\ TodoOK(p)
  BY DEF RunsInv, BodyFails
<1>1. /\ phase[p] = "body" /\ phase' = [phase EXCEPT ![p] = Failed(p)]
      /\ UNCHANGED <<files, log, order, job, way, todo, seen, batch, aborted, lost, labelled,
                     used>>
  BY DEF BodyFails, Goes
<1>2. Frame(p) /\ phase'[p] = Failed(p)
  BY <1>1 DEF Frame, Failed
<1> QED
  BY <1>0, <1>1, <1>2, QuietStep DEF Failed, Dealing, Tracing, TodoOK

LEMMA RecordFailsStep ==
  ASSUME RunInv, NEW p \in Run, RecordFails(p)
  PROVE  RecordsInv' /\ RunsInv' /\ PlansInv'
<1> USE DEF RunInv, RunTypes, DataTypes, dataVars, lossVars, pastVars
<1>0. JobOK(p) /\ TodoOK(p)
  BY DEF RunsInv, RecordFails
<1>1. /\ phase[p] = "record" /\ phase' = [phase EXCEPT ![p] = Failed(p)]
      /\ excused' = excused \cup {Head1(p)}
      /\ UNCHANGED <<files, log, order, effect, job, way, todo, seen, batch, aborted, lost,
                     labelled, forced, used>>
  BY DEF RecordFails, Goes
<1>2. Frame(p) /\ phase'[p] = Failed(p)
  BY <1>1 DEF Frame, Failed
<1>3. JobOK(p)' /\ TodoOK(p)'
  BY <1>0, <1>1, <1>2 DEF JobOK, ValidJob, TodoOK, Tracing, Dealing, Failed
<1>4. ASSUME ~lost PROVE PlanOK(p)'
  BY <1>1, <1>2, <1>4, PlanKept DEF Dealing, Tracing, Failed, PlansInv
<1>5. RecordsInv' /\ (~lost /\ ~labelled' => NumbersInv')
  BY <1>1, RecordsKept, NumbersKept DEF PlansInv
<1>6. ~lost => \A q \in Run \ {p} : phase[q] = "idle"
  BY <1>1, Alone
<1> QED
  BY <1>1, <1>2, <1>3, <1>4, <1>5, <1>6, Assemble

\* The trace that a failed `up` leaves.
LEMMA TraceStep ==
  ASSUME RunInv, NEW p \in Run, Trace(p)
  PROVE  RecordsInv' /\ RunsInv' /\ PlansInv'
<1> USE DEF RunInv, RunTypes, DataTypes, dataVars, lossVars, pastVars
<1> DEFINE f == Head1(p)
           b == batch[p]
<1>0. JobOK(p) /\ TodoOK(p) /\ way[p] = "up"
  BY DEF RunsInv, Trace, JobOK
<1>1. /\ phase[p] = "trace" /\ phase' = [phase EXCEPT ![p] = "end"]
      /\ UNCHANGED <<files, order, effect, job, way, todo, seen, batch, aborted, lost,
                     labelled, forced, excused>>
  BY DEF Trace, Goes
<1>2. Frame(p) /\ phase'[p] = "end"
  BY <1>1 DEF Frame
<1>3. f \in File /\ f \in files /\ b \in Nat
  <2>1. todo[p] \in Seq(File) /\ todo[p] # <<>>
    BY <1>0, <1>1 DEF TodoOK, Tracing
  <2>2. 1 \in DOMAIN todo[p] /\ f = todo[p][1] /\ f \in File
    BY <2>1, TailFacts DEF Head1
  <2> QED
    BY <1>0, <1>1, <2>2 DEF TodoOK, Tracing
<1>4. \/ UNCHANGED <<log, used>>
      \/ /\ \A g \in File \ {f} : log'[g] = log[g]
         /\ f \notin Applied /\ log'[f].batch = b /\ used' = used \cup {b}
         /\ Applied' = Applied /\ RecordsInv'
  <2>1. CASE MarkFailed(f, b)
    BY <1>1, <1>3, <2>1, FailedMarked
  <2> QED
    BY <2>1 DEF Trace
<1>5. Applied' = Applied /\ RecordsInv'
  BY <1>1, <1>4, RecordsKept DEF Applied
<1>6. JobOK(p)' /\ TodoOK(p)'
  BY <1>0, <1>1, <1>2 DEF JobOK, ValidJob, TodoOK, Tracing, Dealing
<1>7. ASSUME ~lost PROVE PlanOK(p)'
  BY <1>1, <1>2 DEF PlanOK, Dealing, Tracing
<1>8. ASSUME ~lost, ~labelled' PROVE NumbersInv'
  <2>1. NumbersInv /\ \A c \in used : c <= b
    BY <1>0, <1>1, <1>8 DEF PlansInv, PlanOK, Tracing
  <2>2. CASE UNCHANGED <<log, used>>
    BY <1>1, <2>1, <2>2, NumbersKept
  <2>3. CASE /\ \A g \in File \ {f} : log'[g] = log[g]
             /\ f \notin Applied /\ log'[f].batch = b /\ used' = used \cup {b}
    <3>1. \A g \in File : log'[g].batch \in used' \cup {0}
      BY <2>1, <2>3 DEF NumbersInv
    <3>2. ASSUME NEW c \in used' PROVE \E g \in File : c <= log'[g].batch
      <4>1. CASE c <= b
        BY <1>3, <2>3, <4>1
      <4>2. CASE c \in used
        BY <2>1, <4>1, <4>2
      <4>3. c \in Nat /\ (c = b \/ c \in used)
        BY <1>3, <2>3
      <4> QED
        BY <1>3, <4>1, <4>2, <4>3
    <3>3. \A i \in DOMAIN order : order[i] \in File \ {f}
      BY <2>3 DEF RecordsInv
    <3>4. \A i \in DOMAIN order : log'[order[i]] = log[order[i]]
      BY <2>3, <3>3
    <3> QED
      BY <1>1, <2>1, <3>1, <3>2, <3>4 DEF NumbersInv
  <2> QED
    BY <1>4, <2>2, <2>3
<1>9. ~lost => \A q \in Run \ {p} : phase[q] = "idle"
  BY <1>1, Alone
<1> QED
  BY <1>1, <1>2, <1>5, <1>6, <1>7, <1>8, <1>9, Assemble

\* What the first of the files a run deals with is.
LEMMA HeadFacts ==
  ASSUME RunInv, NEW p \in Run, Tracing(p), phase[p] # "next"
  PROVE  /\ todo[p] \in Seq(File) /\ todo[p] # <<>>
         /\ Head1(p) = todo[p][1] /\ 1 \in DOMAIN todo[p] /\ Head1(p) \in File
         /\ way[p] = "up" => Head1(p) \in files
<1>1. TodoOK(p) /\ todo[p] \in Seq(File)
  BY DEF RunInv, RunsInv, DataTypes, Tracing, Dealing
<1>2. todo[p] # <<>>
  BY <1>1 DEF TodoOK
<1>3. 1 \in DOMAIN todo[p] /\ todo[p][1] \in File
  BY <1>1, <1>2, TailFacts
<1> QED
  BY <1>1, <1>2, <1>3 DEF Head1, TodoOK

\* An `up` that has recorded its file, and goes on or fails after it.
LEMMA AppliedOne ==
  ASSUME RunInv, NEW p \in Run, phase[p] \in {"body", "record"}, way[p] = "up",
         MarkApplied(Head1(p), batch[p]), Advance(p) \/ FailsAfter(p),
         UNCHANGED <<files, job, way, seen, aborted, lost, labelled>>
  PROVE  /\ Applied' = Applied \cup {Head1(p)} /\ RecordsInv'
         /\ JobOK(p)' /\ TodoOK(p)' /\ (~lost => PlanOK(p)')
         /\ ~lost /\ ~labelled => NumbersInv'
<1> USE DEF RunInv, RunTypes, DataTypes
<1> DEFINE f == Head1(p)
           b == batch[p]
           s == todo[p]
           t == todo'[p]
<1>0. JobOK(p) /\ TodoOK(p) /\ Dealing(p) /\ Tracing(p)
  BY DEF RunsInv, Dealing, Tracing
<1>1. s \in Seq(File) /\ s # <<>> /\ f = s[1] /\ 1 \in DOMAIN s /\ f \in File /\ f \in files
  BY <1>0, HeadFacts
<1>2. b \in Nat /\ used' = used \cup {b}
  BY DEF MarkApplied
<1>3. /\ log'[f] = [status |-> "applied", batch |-> b]
      /\ \A g \in File \ {f} : log'[g] = log[g]
      /\ Applied' = Applied \cup {f}
      /\ RecordsInv'
      /\ \A i, j \in DOMAIN order' : i < j =>
           /\ order'[i] \in Applied \ {f}
           /\ \/ order'[j] = f
              \/ /\ order'[j] # f
                 /\ \E k, l \in DOMAIN order : k < l /\ order[k] = order'[i] /\ order[l] = order'[j]
  BY <1>1, <1>2, AppliedMarked
<1>4. /\ \A i \in DOMAIN s : s[i] \in files
      /\ \A i, j \in DOMAIN s : i < j => s[i] < s[j]
      /\ job[p].ordered => Len(s) <= 1
  BY <1>0 DEF TodoOK
<1>5. /\ Len(s) \in Nat /\ Len(s) >= 1 /\ Len(Tail(s)) = Len(s) - 1
      /\ DOMAIN s = 1..Len(s) /\ DOMAIN Tail(s) = 1..(Len(s) - 1)
      /\ \A i \in DOMAIN Tail(s) : i + 1 \in DOMAIN s /\ Tail(s)[i] = s[i + 1]
  BY <1>1, TailFacts
<1>6. ASSUME ~lost PROVE /\ PlanOK(p) /\ UpToDate(p) /\ UpIntact(p) /\ UpNumbered(p)
                         /\ ~labelled => NumbersInv /\ \A c \in used : c <= b
  BY <1>0, <1>6 DEF PlansInv, PlanOK
<1>7. ASSUME ~lost, ~labelled PROVE NumbersInv'
  <2>1. NumbersInv /\ \A c \in used : c <= b
    BY <1>6, <1>7
  <2>2. ASSUME NEW g \in File PROVE log'[g].batch \in used' \cup {0}
    <3>1. CASE g = f
      <4>1. log'[g].batch = b
        BY <1>3, <3>1
      <4> QED
        BY <1>2, <4>1
    <3>2. CASE g # f
      <4>1. log'[g] = log[g]
        BY <1>3, <3>2
      <4>2. log[g].batch \in used \cup {0}
        BY <2>1 DEF NumbersInv
      <4> QED
        BY <1>2, <4>1, <4>2
    <3> QED
      BY <3>1, <3>2
  <2>3. ASSUME NEW c \in used' PROVE \E g \in File : c <= log'[g].batch
    <3>1. c <= b
      BY <1>2, <2>1
    <3> QED
      BY <1>1, <1>3, <3>1
  <2>4. ASSUME NEW i \in DOMAIN order', NEW j \in DOMAIN order', i < j
        PROVE  \/ log'[order'[i]].batch < log'[order'[j]].batch
               \/ log'[order'[i]].batch = log'[order'[j]].batch /\ order'[i] < order'[j]
    <3> DEFINE g == order'[i]
    <3>1. g \in Applied \ {f} /\ g \in File /\ log'[g] = log[g] /\ log[g].batch \in Nat
      <4>1. g \in Applied \ {f}
        BY <1>3, <2>4
      <4> QED
        BY <1>3, <4>1 DEF Applied
    <3>2. CASE order'[j] = f
      <4>1. log[g].batch <= b
        BY <1>2, <2>1, <3>1 DEF NumbersInv
      <4>2. log[g].batch = b => g < f
        BY <1>1, <1>6, <1>7, <3>1 DEF UpNumbered
      <4>3. log'[order'[j]].batch = b
        BY <1>3, <3>2
      <4> QED
        BY <1>2, <3>1, <3>2, <4>1, <4>2, <4>3
    <3>3. CASE order'[j] # f
      <4>1. PICK k \in DOMAIN order, l \in DOMAIN order :
              k < l /\ order[k] = order'[i] /\ order[l] = order'[j]
        BY <1>3, <2>4, <3>3
      <4>2. order'[j] \in File
        BY <4>1
      <4>3. log'[order'[j]] = log[order'[j]]
        BY <1>3, <3>3, <4>2
      <4> QED
        BY <2>1, <3>1, <4>1, <4>3 DEF NumbersInv
    <3> QED
      BY <3>2, <3>3
  <2> QED
    BY <2>2, <2>3, <2>4 DEF NumbersInv
<1>8. CASE Advance(p)
  <2>1. /\ phase'[p] = "next" /\ t = Tail(s)
        /\ batch'[p] = IF job[p].step THEN b + 1 ELSE b
    BY <1>8 DEF Advance, Goes
  <2> HIDE DEF f, b, s, t
  <2>2. /\ DOMAIN t = 1..(Len(s) - 1) /\ Len(t) = Len(s) - 1
        /\ \A i \in DOMAIN t : i + 1 \in DOMAIN s /\ t[i] = s[i + 1] /\ f < t[i] /\ t[i] # f
    <3>1. /\ DOMAIN t = 1..(Len(s) - 1) /\ Len(t) = Len(s) - 1
          /\ \A i \in DOMAIN t : i + 1 \in DOMAIN s /\ t[i] = s[i + 1]
      BY <1>5, <2>1
    <3>2. ASSUME NEW i \in DOMAIN t PROVE f < t[i] /\ t[i] # f
      <4>1. i + 1 \in DOMAIN s /\ 1 \in DOMAIN s /\ 1 < i + 1
        BY <1>5, <3>1
      <4>2. s[1] < s[i + 1]
        BY <1>4, <4>1
      <4>3. f = s[1] /\ f \in File /\ t[i] = s[i + 1]
        BY <1>1, <3>1
      <4>4. f \in Nat
        BY <4>3, FileFacts
      <4> QED
        BY <4>2, <4>3, <4>4
    <3> QED
      BY <3>1, <3>2
  <2>3. JobOK(p)'
    BY <1>0, <2>1 DEF JobOK, ValidJob, Dealing
  <2>4. TodoOK(p)'
    <3>1. /\ \A i \in DOMAIN t : t[i] \in files
          /\ job[p].ordered => Len(t) <= 1
      BY <1>4, <1>5, <2>2
    <3>2. ASSUME NEW i \in DOMAIN t, NEW j \in DOMAIN t, i < j PROVE t[i] < t[j]
      <4>1. i + 1 \in DOMAIN s /\ j + 1 \in DOMAIN s /\ i + 1 < j + 1
        BY <1>5, <2>2, <3>2
      <4> QED
        BY <1>4, <2>2, <4>1
    <3> QED
      BY <2>1, <3>1, <3>2 DEF TodoOK, t
  <2>5. ASSUME ~lost PROVE PlanOK(p)'
    <3>1. UpToDate(p)'
      <4>1. ASSUME NEW i \in DOMAIN t, t[i] \in Applied' PROVE t[i] \in seen[p]
        <5>1. t[i] \in Applied
          BY <1>3, <2>2, <4>1 DEF f
        <5> QED
          BY <1>6, <2>2, <2>5, <5>1 DEF UpToDate, s
      <4> QED
        BY <4>1 DEF UpToDate, t
    <3>2. UpOrdered(p)'
      <4>1. job[p].ordered => DOMAIN t = {}
        BY <1>4, <1>5, <2>2
      <4> QED
        BY <4>1 DEF UpOrdered, t
    <3>3. UpIntact(p)'
      <4>1. SUFFICES ASSUME job[p].policy = "error", job[p].op = "up",
                            job[p].ordered \/ job[p].by # "one",
                            NEW i \in DOMAIN t, t[i] \notin Applied', NEW g \in Applied'
                     PROVE  g < t[i]
        BY DEF UpIntact, t
      <4>2. CASE g = f
        BY <2>2, <4>2
      <4>3. CASE g \in Applied
        <5>1. t[i] \notin Applied
          BY <1>3, <4>1
        <5> QED
          BY <1>6, <2>2, <2>5, <4>1, <4>3, <5>1 DEF UpIntact, s
      <4> QED
        BY <1>3, <4>2, <4>3 DEF f
    <3>4. UpNumbered(p)'
      <4>1. SUFFICES ASSUME ~labelled, NEW g \in Applied', log'[g].batch = batch'[p],
                            NEW i \in DOMAIN t
                     PROVE  g < t[i]
        BY DEF UpNumbered, t
      <4>2. CASE g = f
        BY <2>2, <4>2
      <4>3. CASE g # f
        <5>1. g \in Applied /\ g \in File /\ log'[g] = log[g] /\ log[g].batch \in Nat
          <6>1. g \in Applied
            BY <1>3, <4>3 DEF f
          <6> QED
            BY <1>3, <4>3, <6>1 DEF Applied, f
        <5>2. log[g].batch <= b
          BY <1>2, <1>6, <2>5, <4>1, <5>1 DEF NumbersInv, b
        <5>3. log[g].batch = b
          BY <1>2, <2>1, <4>1, <5>1, <5>2 DEF b
        <5> QED
          BY <1>6, <2>2, <2>5, <4>1, <5>1, <5>3 DEF UpNumbered, s, b
      <4> QED
        BY <4>2, <4>3
    <3>5. ASSUME ~labelled, NEW c \in used' PROVE c <= batch'[p]
      <4>1. c <= b /\ c \in Nat
        BY <1>2, <1>6, <2>5, <3>5 DEF b
      <4> QED
        BY <1>2, <2>1, <4>1 DEF b
    <3> QED
      BY <2>1, <3>1, <3>2, <3>3, <3>4, <3>5 DEF PlanOK, Dealing, Tracing
  <2> QED
    BY <1>3, <1>7, <2>3, <2>4, <2>5 DEF f
<1>9. CASE FailsAfter(p)
  <2>1. phase'[p] = "trace" /\ UNCHANGED <<todo, batch>>
    BY <1>9 DEF FailsAfter, Failed, Goes
  <2>2. JobOK(p)' /\ TodoOK(p)'
    BY <1>0, <2>1 DEF JobOK, ValidJob, TodoOK, Dealing, Tracing
  <2>3. ASSUME ~lost PROVE PlanOK(p)'
    <3>1. ASSUME ~labelled, NEW c \in used' PROVE c <= batch'[p]
      BY <1>2, <1>6, <2>1, <2>3, <3>1
    <3> QED
      BY <2>1, <3>1 DEF PlanOK, Dealing, Tracing
  <2> QED
    BY <1>3, <1>7, <2>2, <2>3
<1> QED
  BY <1>8, <1>9

\* A `down` that has recorded its file, and goes on or fails after it.
LEMMA RevertedOne ==
  ASSUME RunInv, NEW p \in Run, phase[p] \in {"body", "record"}, way[p] = "down",
         MarkReverted(Head1(p)), Advance(p) \/ FailsAfter(p),
         UNCHANGED <<files, job, way, seen, aborted, lost, labelled>>
  PROVE  /\ Applied' = Applied \ {Head1(p)} /\ RecordsInv'
         /\ JobOK(p)' /\ TodoOK(p)' /\ (~lost => PlanOK(p)')
         /\ ~lost /\ ~labelled => NumbersInv'
<1> USE DEF RunInv, RunTypes, DataTypes
<1> DEFINE f == Head1(p)
           s == todo[p]
           t == todo'[p]
<1>0. JobOK(p) /\ TodoOK(p) /\ Dealing(p) /\ Tracing(p)
  BY DEF RunsInv, Dealing, Tracing
<1>1. s \in Seq(File) /\ s # <<>> /\ f = s[1] /\ 1 \in DOMAIN s /\ f \in File
  BY <1>0, HeadFacts
<1>2. used' = used /\ Applied \subseteq File
  BY DEF MarkReverted, Applied
<1>3. /\ Applied' = Applied \ {f} /\ RecordsInv'
      /\ \A g \in File : log'[g].batch = log[g].batch
      /\ \A g \in File \ {f} : NewerThan(g)' \subseteq NewerThan(g) \ {f}
      /\ \A i, j \in DOMAIN order' : i < j =>
           \E k, l \in DOMAIN order : k < l /\ order[k] = order'[i] /\ order[l] = order'[j]
      /\ order' \in Seq(File)
  <2>1. CASE f \in Applied
    BY <1>1, <2>1, RevertedMarked
  <2>2. CASE f \notin Applied
    <3>1. log' = log /\ order' = order
      BY <1>1, <2>2, RevertedNothing
    <3>2. RecordsInv' /\ Applied' = Applied
      BY <3>1, RecordsKept DEF Applied
    <3>3. \A g : NewerThan(g)' = NewerThan(g) /\ f \notin NewerThan(g)
      BY <2>2, <3>1, <3>2 DEF NewerThan
    <3> QED
      BY <2>2, <3>1, <3>2, <3>3
  <2> QED
    BY <2>1, <2>2
<1>4. /\ Len(s) \in Nat /\ Len(s) >= 1 /\ Len(Tail(s)) = Len(s) - 1
      /\ DOMAIN s = 1..Len(s) /\ DOMAIN Tail(s) = 1..(Len(s) - 1)
      /\ \A i \in DOMAIN Tail(s) : i + 1 \in DOMAIN s /\ Tail(s)[i] = s[i + 1]
  BY <1>1, TailFacts
<1>5. ASSUME ~lost PROVE DownToDate(p) /\ DownNewestFirst(p)
  BY <1>0, <1>5 DEF PlansInv, PlanOK
<1>6. ASSUME ~lost, ~labelled PROVE NumbersInv'
  <2>1. NumbersInv
    BY <1>6 DEF PlansInv
  <2>2. \A g \in File : log'[g].batch \in used' \cup {0}
    BY <1>2, <1>3, <2>1 DEF NumbersInv
  <2>3. \A c \in used' : \E g \in File : c <= log'[g].batch
    BY <1>2, <1>3, <2>1 DEF NumbersInv
  <2>4. ASSUME NEW i \in DOMAIN order', NEW j \in DOMAIN order', i < j
        PROVE  \/ log'[order'[i]].batch < log'[order'[j]].batch
               \/ log'[order'[i]].batch = log'[order'[j]].batch /\ order'[i] < order'[j]
    <3>1. order'[i] \in File /\ order'[j] \in File
      BY <1>3
    <3>2. PICK k \in DOMAIN order, l \in DOMAIN order :
            k < l /\ order[k] = order'[i] /\ order[l] = order'[j]
      BY <1>3, <2>4
    <3>3. \/ log[order[k]].batch < log[order[l]].batch
          \/ log[order[k]].batch = log[order[l]].batch /\ order[k] < order[l]
      BY <2>1, <3>2 DEF NumbersInv
    <3> QED
      BY <1>3, <3>1, <3>2, <3>3
  <2> QED
    BY <2>2, <2>3, <2>4 DEF NumbersInv
<1>7. CASE Advance(p)
  <2>1. phase'[p] = "next" /\ t = Tail(s) /\ batch'[p] = batch[p]
    BY <1>7 DEF Advance, Goes
  <2> HIDE DEF f, s, t
  <2>2. /\ DOMAIN t = 1..(Len(s) - 1)
        /\ \A i \in DOMAIN t : i + 1 \in DOMAIN s /\ t[i] = s[i + 1] /\ i + 1 # 1
    BY <1>4, <2>1
  <2>3. JobOK(p)' /\ TodoOK(p)'
    BY <1>0, <2>1 DEF JobOK, ValidJob, TodoOK, Dealing, Tracing
  <2>4. ASSUME ~lost PROVE PlanOK(p)'
    <3>1. \A i \in DOMAIN t : t[i] \in Applied /\ t[i] # f /\ t[i] \in File
      <4>1. ASSUME NEW i \in DOMAIN t PROVE t[i] \in Applied /\ t[i] # f
        BY <1>1, <1>5, <2>2, <2>4 DEF DownToDate, s
      <4> QED
        BY <1>2, <4>1
    <3>2. DownToDate(p)'
      <4>1. ASSUME NEW i \in DOMAIN t, NEW j \in DOMAIN t, t[i] = t[j] PROVE i = j
        <5>1. i + 1 = j + 1
          BY <1>5, <2>2, <2>4, <4>1 DEF DownToDate, s
        <5>2. i \in Int /\ j \in Int
          BY <1>4, <2>2
        <5> QED
          BY <5>1, <5>2
      <4>2. \A i \in DOMAIN t : t[i] \in Applied'
        BY <1>3, <3>1 DEF f
      <4> QED
        BY <4>1, <4>2 DEF DownToDate, t
    <3> DEFINE NewerNow(h) ==
                 {g \in Applied' : \E i, j \in DOMAIN order' :
                                   i < j /\ order'[i] = h /\ order'[j] = g}
    <3>3. DownNewestFirst(p)'
      <4>1. SUFFICES ASSUME NewestFirst(job[p]), labelled => job[p].by # "batch",
                            NEW i \in DOMAIN t, NEW g \in NewerNow(t[i])
                     PROVE  \E j \in DOMAIN t : j < i /\ t[j] = g
        BY DEF DownNewestFirst, NewestFirst, NewerThan, t
      <4>2. g \in NewerThan(s[i + 1]) /\ g # f
        <5>1. t[i] \in File \ {f} /\ t[i] = s[i + 1]
          BY <2>2, <3>1
        <5>2. ASSUME NEW h \in File \ {f} PROVE NewerNow(h) \subseteq NewerThan(h) \ {f}
          BY <1>3 DEF f, NewerThan
        <5> QED
          BY <4>1, <5>1, <5>2
      <4>3. PICK j \in DOMAIN s : j < i + 1 /\ s[j] = g
        BY <1>5, <2>2, <2>4, <4>1, <4>2 DEF DownNewestFirst, s
      <4>4. j # 1
        BY <1>1, <4>2, <4>3
      <4>5. j - 1 \in DOMAIN t /\ j - 1 < i /\ j - 1 + 1 = j
        BY <1>4, <2>2, <4>3, <4>4
      <4>6. t[j - 1] = g
        BY <2>2, <4>3, <4>5
      <4> QED
        BY <4>5, <4>6
    <3> QED
      BY <2>1, <3>2, <3>3 DEF PlanOK, Dealing, Tracing
  <2> QED
    BY <1>3, <1>6, <2>3, <2>4 DEF f
<1>8. CASE FailsAfter(p)
  <2>1. phase'[p] = "end" /\ UNCHANGED <<todo, batch>>
    BY <1>8 DEF FailsAfter, Failed, Goes
  <2>2. JobOK(p)' /\ TodoOK(p)'
    BY <1>0, <2>1 DEF JobOK, ValidJob, TodoOK, Dealing, Tracing
  <2>3. PlanOK(p)'
    BY <2>1 DEF PlanOK, Dealing, Tracing
  <2> QED
    BY <1>3, <1>6, <2>2, <2>3
<1> QED
  BY <1>7, <1>8

\* Either of them.
LEMMA MarkedOne ==
  ASSUME RunInv, NEW p \in Run, phase[p] \in {"body", "record"},
         MarkDone(p), Advance(p) \/ FailsAfter(p),
         UNCHANGED <<files, job, way, seen, aborted, lost, labelled>>
  PROVE  /\ way[p] = "up" => Applied' = Applied \cup {Head1(p)}
         /\ way[p] = "down" => Applied' = Applied \ {Head1(p)}
         /\ RecordsInv' /\ JobOK(p)' /\ TodoOK(p)' /\ (~lost => PlanOK(p)')
         /\ ~lost /\ ~labelled => NumbersInv'
         /\ Frame(p) /\ phase'[p] \notin {"idle", "record"}
<1> USE DEF RunInv, RunTypes, DataTypes
<1>1. way[p] \in {"up", "down"}
  OBVIOUS
<1>2. Frame(p) /\ phase'[p] \notin {"idle", "record"}
  BY DEF Advance, FailsAfter, Failed, Goes, Frame
<1>3. CASE way[p] = "up"
  <2>1. MarkApplied(Head1(p), batch[p])
    BY <1>3 DEF MarkDone
  <2> QED
    BY <1>2, <1>3, <2>1, AppliedOne
<1>4. CASE way[p] = "down"
  <2>1. MarkReverted(Head1(p))
    BY <1>4 DEF MarkDone
  <2> QED
    BY <1>2, <1>4, <2>1, RevertedOne
<1> QED
  BY <1>1, <1>3, <1>4

LEMMA RecordStep ==
  ASSUME RunInv, NEW p \in Run, Record(p)
  PROVE  RecordsInv' /\ RunsInv' /\ PlansInv'
<1>1. /\ phase[p] = "record" /\ MarkDone(p) /\ (Advance(p) \/ FailsAfter(p))
      /\ UNCHANGED <<files, job, way, seen, aborted, lost, labelled>>
  BY DEF Record, lossVars
<1>2. /\ RecordsInv' /\ JobOK(p)' /\ TodoOK(p)' /\ (~lost => PlanOK(p)')
      /\ ~lost /\ ~labelled => NumbersInv'
      /\ Frame(p) /\ phase'[p] \notin {"idle", "record"}
  BY <1>1, MarkedOne
<1>3. ~lost => \A q \in Run \ {p} : phase[q] = "idle"
  BY <1>1, Alone
<1> QED
  BY <1>1, <1>2, <1>3, Assemble

LEMMA TxCommitStep ==
  ASSUME RunInv, NEW p \in Run, TxCommit(p)
  PROVE  RecordsInv' /\ RunsInv' /\ PlansInv'
<1>1. /\ phase[p] = "body" /\ MarkDone(p) /\ (Advance(p) \/ FailsAfter(p))
      /\ UNCHANGED <<files, job, way, seen, aborted, lost, labelled>>
  BY DEF TxCommit, lossVars
<1>2. /\ RecordsInv' /\ JobOK(p)' /\ TodoOK(p)' /\ (~lost => PlanOK(p)')
      /\ ~lost /\ ~labelled => NumbersInv'
      /\ Frame(p) /\ phase'[p] \notin {"idle", "record"}
  BY <1>1, MarkedOne
<1>3. ~lost => \A q \in Run \ {p} : phase[q] = "idle"
  BY <1>1, Alone
<1> QED
  BY <1>1, <1>2, <1>3, Assemble

-----------------------------------------------------------------------------
(* What is planned: the files of an `up` and of a `down`. *)

LEMMA DescendingFacts ==
  ASSUME NEW S \in SUBSET File
  PROVE  /\ Descending(S) \in Seq(File)
         /\ \A i \in DOMAIN Descending(S) : Descending(S)[i] \in S
         /\ \A i, j \in DOMAIN Descending(S) : i < j => Descending(S)[j] < Descending(S)[i]
         /\ \A f \in S : \E i \in DOMAIN Descending(S) : Descending(S)[i] = f
<1> DEFINE s == Ascending(S)
           t == Reversed(s)
<1>1. /\ s \in Seq(File)
      /\ \A i \in DOMAIN s : s[i] \in S
      /\ \A i, j \in DOMAIN s : i < j => s[i] < s[j]
      /\ \A f \in S : \E i \in DOMAIN s : s[i] = f
  BY AscendingFacts
<1> HIDE DEF s
<1>2. Len(s) \in Nat /\ DOMAIN s = 1..Len(s)
  BY <1>1
<1>3. /\ t \in Seq(File) /\ DOMAIN t = 1..Len(s)
      /\ \A i \in 1..Len(s) : Len(s) + 1 - i \in 1..Len(s) /\ t[i] = s[Len(s) + 1 - i]
  BY <1>1, ReversedFacts
<1> HIDE DEF t
<1>4. \A i \in DOMAIN t : t[i] \in S
  BY <1>1, <1>2, <1>3
<1>5. ASSUME NEW i \in DOMAIN t, NEW j \in DOMAIN t, i < j PROVE t[j] < t[i]
  <2>1. Len(s) + 1 - j < Len(s) + 1 - i
    BY <1>2, <1>3, <1>5
  <2>2. s[Len(s) + 1 - j] < s[Len(s) + 1 - i]
    BY <1>1, <1>2, <1>3, <2>1
  <2> QED
    BY <1>3, <2>2
<1>6. ASSUME NEW f \in S PROVE \E i \in DOMAIN t : t[i] = f
  <2>1. PICK k \in DOMAIN s : s[k] = f
    BY <1>1
  <2>2. Len(s) + 1 - k \in 1..Len(s) /\ Len(s) + 1 - (Len(s) + 1 - k) = k
    BY <1>2
  <2> QED
    BY <1>3, <2>1, <2>2
<1> QED
  BY <1>3, <1>4, <1>5, <1>6 DEF Descending, s, t

LEMMA LastAppliedFacts ==
  ASSUME DataTypes, RecordsInv, NEW n \in Nat
  PROVE  /\ LastApplied(n) \in Seq(File)
         /\ \A i \in DOMAIN LastApplied(n) : LastApplied(n)[i] \in Applied
         /\ \A i, j \in DOMAIN LastApplied(n) : LastApplied(n)[i] = LastApplied(n)[j] => i = j
         /\ \A i \in DOMAIN LastApplied(n) : \A g \in NewerThan(LastApplied(n)[i]) :
              \E j \in DOMAIN LastApplied(n) : j < i /\ LastApplied(n)[j] = g
<1> DEFINE newest == Reversed(order)
           m == IF n < Len(newest) THEN n ELSE Len(newest)
           t == SubSeq(newest, 1, m)
           k == Len(order)
<1>1. order \in Seq(File) /\ k \in Nat /\ DOMAIN order = 1..k
  BY DEF DataTypes
<1>2. /\ newest \in Seq(File) /\ Len(newest) = k /\ DOMAIN newest = 1..k
      /\ \A i \in 1..k : k + 1 - i \in 1..k /\ newest[i] = order[k + 1 - i]
  BY <1>1, ReversedFacts
<1> HIDE DEF newest
<1>3. m \in Nat /\ m <= k
  BY <1>1, <1>2
<1> HIDE DEF m, k
<1>4. t \in Seq(File) /\ DOMAIN t = 1..m /\ \A i \in 1..m : t[i] = newest[i]
  <2>1. \A i \in 1..m : i \in DOMAIN newest
    BY <1>1, <1>2, <1>3
  <2>2. t = [i \in 1..m |-> newest[i]]
    BY <1>3
  <2>3. \A i \in 1..m : newest[i] \in File
    BY <1>2, <2>1
  <2>4. [i \in 1..m |-> newest[i]] \in Seq(File)
    BY <1>3, <2>3, SeqDef
  <2> QED
    BY <2>2, <2>4
<1> HIDE DEF t
<1>5. \A i \in 1..m : i \in 1..k /\ k + 1 - i \in 1..k /\ t[i] = order[k + 1 - i]
  BY <1>1, <1>2, <1>3, <1>4
<1>6. \A i \in 1..m : t[i] \in Applied
  BY <1>1, <1>4, <1>5 DEF RecordsInv
<1>7. ASSUME NEW i \in 1..m, NEW j \in 1..m, t[i] = t[j] PROVE i = j
  <2>1. k + 1 - i = k + 1 - j
    BY <1>1, <1>5, <1>7 DEF RecordsInv
  <2> QED
    BY <1>1, <1>3, <2>1
<1>8. ASSUME NEW i \in 1..m, NEW g \in NewerThan(t[i]) PROVE \E j \in 1..m : j < i /\ t[j] = g
  <2>1. PICK a \in DOMAIN order, b \in DOMAIN order : a < b /\ order[a] = t[i] /\ order[b] = g
    BY DEF NewerThan
  <2>2. a = k + 1 - i
    BY <1>1, <1>5, <2>1 DEF RecordsInv
  <2>3. k + 1 - b \in 1..m /\ k + 1 - b < i /\ k + 1 - (k + 1 - b) = b
    BY <1>1, <1>3, <2>1, <2>2
  <2>4. t[k + 1 - b] = g
    BY <1>5, <2>1, <2>3
  <2> QED
    BY <2>3, <2>4
<1>9. t = LastApplied(n)
  BY DEF t, m, newest, LastApplied
<1> QED
  BY <1>4, <1>6, <1>7, <1>8, <1>9

\* A `down` selects applied files, each once, and undoes the newest first where
\* it promises to.
LEMMA DownTargetsFacts ==
  ASSUME DataTypes, RecordsInv, NEW c \in Job, ValidJob(c), c.op \in {"down", "redo"},
         ~DownRefused(c)
  PROVE  /\ DownTargets(c) \in Seq(File)
         /\ \A i \in DOMAIN DownTargets(c) : DownTargets(c)[i] \in Applied
         /\ \A i, j \in DOMAIN DownTargets(c) : DownTargets(c)[i] = DownTargets(c)[j] => i = j
         /\ NewestFirst(c) /\ (c.by = "batch" => NumbersInv) =>
              \A i \in DOMAIN DownTargets(c) : \A g \in NewerThan(DownTargets(c)[i]) :
                \E j \in DOMAIN DownTargets(c) : j < i /\ DownTargets(c)[j] = g
<1> DEFINE t == DownTargets(c)
<1>0. Applied \subseteq File /\ c.by \in {"one", "to", "batch", "steps"} /\ c.steps \in Nat
  <2>1. c.by \in {"all", "to", "one", "batch", "steps"} /\ c.steps \in Nat
    BY DEF Job
  <2> QED
    BY <2>1 DEF Applied, ValidJob
<1>1. CASE c.by = "one"
  <2>1. t = <<c.file>> /\ c.file \in Applied
    BY <1>1 DEF DownTargets, DownRefused
  <2>2. t \in Seq(File) /\ DOMAIN t = {1} /\ t[1] = c.file
    BY <1>0, <2>1
  <2>3. NewestFirst(c) => NewerThan(c.file) = {}
    BY <1>1 DEF NewestFirst, DownRefused
  <2> HIDE DEF t
  <2> QED
    BY <2>1, <2>2, <2>3 DEF t
<1>2. CASE c.by = "steps"
  <2>1. t = LastApplied(c.steps)
    BY <1>2 DEF DownTargets
  <2> QED
    BY <1>0, <2>1, LastAppliedFacts
<1>3. CASE c.by \in {"to", "batch"}
  <2> DEFINE S == IF c.by = "to" THEN {f \in Applied : f > c.file}
                  ELSE {f \in Applied : log[f].batch = LastBatch}
  <2>1. t = Descending(S) /\ S \in SUBSET File /\ S \subseteq Applied
    BY <1>0, <1>3 DEF DownTargets
  <2>2. \A f \in S : c.by = "batch" => log[f].batch = LastBatch
    OBVIOUS
  <2>3. \A f \in Applied : c.by = "batch" /\ log[f].batch = LastBatch => f \in S
    OBVIOUS
  <2> HIDE DEF t, S
  <2>4. /\ t \in Seq(File)
        /\ \A i \in DOMAIN t : t[i] \in S
        /\ \A i, j \in DOMAIN t : i < j => t[j] < t[i]
        /\ \A f \in S : \E i \in DOMAIN t : t[i] = f
    BY <2>1, DescendingFacts
  <2>5. DOMAIN t \subseteq Nat /\ \A i \in DOMAIN t : t[i] \in Nat
    <3>1. DOMAIN t \subseteq Nat
      BY <2>4
    <3>2. \A i \in DOMAIN t : t[i] \in Nat
      BY <2>1, <2>4, FileFacts
    <3> QED
      BY <3>1, <3>2
  <2>6. ASSUME NEW i \in DOMAIN t, NEW j \in DOMAIN t, t[i] = t[j] PROVE i = j
    <3>1. i < j \/ j < i \/ i = j
      BY <2>5
    <3> QED
      BY <2>4, <2>5, <2>6, <3>1
  <2>7. ASSUME NewestFirst(c), c.by = "batch" => NumbersInv,
               NEW i \in DOMAIN t, NEW g \in NewerThan(t[i])
        PROVE  \E j \in DOMAIN t : j < i /\ t[j] = g
    <3>1. c.by = "batch" /\ NumbersInv
      BY <1>3, <2>7 DEF NewestFirst, ValidJob
    <3>2. PICK k \in DOMAIN order, l \in DOMAIN order : k < l /\ order[k] = t[i] /\ order[l] = g
      BY DEF NewerThan
    <3>3. \/ log[t[i]].batch < log[g].batch
          \/ log[t[i]].batch = log[g].batch /\ t[i] < g
      BY <3>1, <3>2 DEF NumbersInv
    <3>4. g \in Applied /\ g \in File /\ t[i] \in File
      BY <1>0, <2>4 DEF NewerThan
    <3>5. log[g].batch <= LastBatch /\ log[t[i]].batch = LastBatch
      BY <2>2, <2>4, <3>1, <3>4, LastBatchFacts
    <3>6. log[g].batch \in Nat /\ LastBatch \in Nat
      BY <3>4, LastBatchFacts DEF DataTypes
    <3>7. log[g].batch = LastBatch /\ t[i] < g
      BY <3>3, <3>5, <3>6
    <3>8. PICK j \in DOMAIN t : t[j] = g
      BY <2>3, <2>4, <3>1, <3>4, <3>7
    <3>9. ~(i < j) /\ i # j
      BY <2>4, <2>5, <3>7, <3>8
    <3> QED
      BY <2>5, <3>8, <3>9
  <2> QED
    BY <2>1, <2>4, <2>6, <2>7 DEF t
<1> QED
  BY <1>0, <1>1, <1>2, <1>3

LEMMA PlanDownStep ==
  ASSUME RunInv, NEW p \in Run, PlanDown(p)
  PROVE  RecordsInv' /\ RunsInv' /\ PlansInv'
<1> USE DEF RunInv, RunTypes, DataTypes, dataVars, lossVars, pastVars
<1>0. PICK c : c = job[p]
  OBVIOUS
<1>1. PICK t : t = DownTargets(c)
  OBVIOUS
<1>2. /\ phase[p] = "plan" /\ way[p] = "down"
      /\ UNCHANGED <<files, log, order, effect, way, seen, batch, aborted, lost, labelled,
                     forced, excused, used>>
  BY DEF PlanDown
<1>3. c \in Job /\ ValidJob(c) /\ c.op \in {"down", "redo"} /\ JobOK(p)
  <2>1. JobOK(p) /\ c \in Job /\ c.op \in {"up", "down", "redo"}
    BY <1>0, <1>2 DEF RunsInv, Job
  <2> QED
    BY <1>0, <1>2, <2>1 DEF JobOK
<1>4. CASE phase' = [phase EXCEPT ![p] = "end"] /\ UNCHANGED <<todo, job>>
  <2>1. Frame(p) /\ phase'[p] = "end"
    BY <1>2, <1>4 DEF Frame
  <2> QED
    BY <1>2, <1>4, <2>1, QuietStep DEF Dealing, Tracing
<1>5. CASE /\ ~DownRefused(c) /\ t # <<>>
           /\ phase' = [phase EXCEPT ![p] = "next"]
           /\ todo' = [todo EXCEPT ![p] = t]
           /\ job' = [job EXCEPT ![p].file = IF c.op = "redo" THEN t[1] ELSE @]
  <2>1. /\ t \in Seq(File)
        /\ \A i \in DOMAIN t : t[i] \in Applied
        /\ \A i, j \in DOMAIN t : t[i] = t[j] => i = j
        /\ NewestFirst(c) /\ (c.by = "batch" => NumbersInv) =>
             \A i \in DOMAIN t : \A g \in NewerThan(t[i]) : \E j \in DOMAIN t : j < i /\ t[j] = g
    BY <1>1, <1>3, <1>5, DownTargetsFacts
  <2>2. phase'[p] = "next" /\ todo'[p] = t
    BY <1>5
  <2>3. t[1] \in Applied /\ t[1] \in files /\ t[1] # NoFile
    <3>1. t[1] \in Applied
      BY <1>5, <2>1, TailFacts
    <3> QED
      BY <3>1, FileFacts DEF RecordsInv, Applied
  <2>4. job'[p] = [c EXCEPT !.file = IF c.op = "redo" THEN t[1] ELSE @]
    BY <1>0, <1>5
  <2>5. /\ job'[p].op = c.op /\ job'[p].by = c.by /\ job'[p].ordered = c.ordered
        /\ job'[p].force = c.force /\ job'[p].step = c.step /\ job'[p].steps = c.steps
        /\ job'[p].file = IF c.op = "redo" THEN t[1] ELSE c.file
    BY <1>3, <2>4 DEF Job
  <2>6. Frame(p)
    BY <1>2, <1>5 DEF Frame
  <2>7. JobOK(p)'
    <3>1. ValidJob(job'[p])
      BY <1>3, <2>3, <2>5 DEF ValidJob
    <3>2. job'[p].op \in {"up", "down"} => way'[p] = job'[p].op
      BY <1>0, <1>2, <1>3, <2>5 DEF JobOK
    <3>3. job'[p].op = "redo" => job'[p].file \in files'
      BY <1>2, <2>3, <2>5
    <3>4. ~labelled' => batch'[p] = 0
      BY <1>2, <1>3 DEF JobOK
    <3> QED
      BY <2>2, <3>1, <3>2, <3>3, <3>4 DEF JobOK
  <2>8. TodoOK(p)'
    BY <1>2, <2>2 DEF TodoOK, Dealing, Tracing
  <2>9. ASSUME ~lost PROVE PlanOK(p)'
    <3>2. Applied' = Applied /\ \A f : NewerThan(f)' = NewerThan(f)
      BY <1>2 DEF Applied, NewerThan
    <3>3. DownToDate(p)'
      BY <2>1, <2>2, <3>2 DEF DownToDate
    <3>4. ~labelled => NumbersInv
      BY <2>9 DEF PlansInv
    <3>5. DownNewestFirst(p)'
      <4>1. SUFFICES ASSUME NewestFirst(c), labelled => c.by # "batch"
                     PROVE  \A i \in DOMAIN t : \A g \in NewerThan(t[i]) :
                              \E j \in DOMAIN t : j < i /\ t[j] = g
        BY <1>2, <2>2, <2>5, <3>2 DEF DownNewestFirst, NewestFirst
      <4> QED
        BY <2>1, <3>4, <4>1
    <3> QED
      BY <1>2, <2>2, <3>3, <3>5 DEF PlanOK, Dealing, Tracing
  <2>10. RecordsInv' /\ (~lost /\ ~labelled' => NumbersInv')
    BY <1>2, RecordsKept, NumbersKept DEF PlansInv
  <2>11. ~lost => \A q \in Run \ {p} : phase[q] = "idle"
    BY <1>2, Alone
  <2> QED
    BY <1>2, <2>6, <2>7, <2>8, <2>9, <2>10, <2>11, Assemble
<1> QED
  BY <1>0, <1>1, <1>4, <1>5 DEF PlanDown, Goes

\* An `up` selects files on disk, in the order of their names; those that it
\* knows to be applied are only one that is named, and its policy holds.
LEMMA UpTargetsFacts ==
  ASSUME DataTypes, RecordsInv, NEW c \in Job, ValidJob(c), c.op \in {"up", "redo"},
         c.op = "redo" => c.file \in files,
         NEW app, app = Snapshot(c), ~UpRefused(c, app)
  PROVE  /\ app \in SUBSET File /\ app \subseteq Applied
         /\ UpTargets(c, app) \in Seq(File)
         /\ \A i \in DOMAIN UpTargets(c, app) : UpTargets(c, app)[i] \in files
         /\ \A i, j \in DOMAIN UpTargets(c, app) : i < j =>
              UpTargets(c, app)[i] < UpTargets(c, app)[j]
         /\ c.ordered => Len(UpTargets(c, app)) <= 1
         /\ \A i \in DOMAIN UpTargets(c, app) :
              UpTargets(c, app)[i] \in Applied => UpTargets(c, app)[i] \in app
         /\ c.ordered => \A i \in DOMAIN UpTargets(c, app) :
              UpTargets(c, app)[i] \notin Applied =>
                \A g \in 1..UpTargets(c, app)[i] - 1 :
                  g \in Applied \/ (g \notin FirstFiles /\ log[g].status = "none")
         /\ c.policy = "error" /\ c.op = "up" /\ (c.ordered \/ c.by # "one") =>
              \A i \in DOMAIN UpTargets(c, app) : UpTargets(c, app)[i] \notin Applied =>
                \A g \in Applied : g < UpTargets(c, app)[i]
<1> DEFINE t == UpTargets(c, app)
<1>1. Applied \subseteq File /\ files \subseteq File /\ app \in SUBSET File /\ app \subseteq Applied
  BY DEF Applied, Snapshot, DataTypes
<1>2. c.policy = "error" /\ c.op = "up" /\ (c.ordered \/ c.by # "one") =>
        \A i \in DOMAIN t : t[i] \notin Applied => ~\E g \in Applied : t[i] < g
  <2>1. SUFFICES ASSUME c.policy = "error", c.op = "up", c.ordered \/ c.by # "one",
                        NEW i \in DOMAIN t, t[i] \notin Applied
                 PROVE  ~\E g \in Applied : t[i] < g
    OBVIOUS
  <2>2. app = Applied
    BY <2>1 DEF Snapshot
  <2>3. LateArrivals(t, app) = {}
    BY <2>1 DEF UpRefused, OrderIntact
  <2> HIDE DEF t
  <2> QED
    BY <2>1, <2>2, <2>3 DEF LateArrivals
<1>3. ASSUME c.policy = "error", c.op = "up", c.ordered \/ c.by # "one",
             NEW i \in DOMAIN t, t[i] \in File, t[i] \notin Applied, NEW g \in Applied
      PROVE  g < t[i]
  <2>1. ~(t[i] < g) /\ t[i] # g
    BY <1>2, <1>3
  <2>2. t[i] \in Nat /\ g \in Nat
    BY <1>1, <1>3, FileFacts
  <2> QED
    BY <2>1, <2>2
<1>4. CASE c.op = "redo" \/ c.by = "one"
  <2>1. t = <<c.file>>
    BY <1>4 DEF UpTargets, ValidJob
  <2>2. c.file \in files /\ c.file \in File
    BY <1>1, <1>4 DEF UpRefused
  <2>3. t \in Seq(File) /\ Len(t) = 1 /\ DOMAIN t = {1} /\ t[1] = c.file
    BY <2>1, <2>2
  <2> HIDE DEF t
  <2>4. c.file \in Applied => c.file \in app
    BY <1>4 DEF Snapshot
  <2>5. ASSUME c.ordered, c.file \notin Applied, NEW g \in 1..c.file - 1
        PROVE  g \in Applied \/ (g \notin FirstFiles /\ log[g].status = "none")
    <3>1. app = Applied
      BY <1>4, <2>5 DEF Snapshot, ValidJob
    <3>2. g \in File /\ g < c.file
      BY <2>2, FilesAssumption DEF File
    <3>3. ~UpBlocked(c, app)
      BY DEF UpRefused
    <3>4. g \notin files \ Applied
      BY <2>5, <3>1, <3>2, <3>3 DEF UpBlocked, PendingIn
    <3>5. CASE g \in files
      BY <3>4, <3>5
    <3>6. CASE g \notin files
      BY <3>2, <3>6 DEF RecordsInv
    <3> QED
      BY <3>5, <3>6
  <2> QED
    BY <1>1, <1>3, <2>2, <2>3, <2>4, <2>5 DEF t
<1>5. CASE c.op = "up" /\ c.by # "one"
  <2> DEFINE S == IF c.by = "to" THEN {f \in PendingIn(app) : f <= c.file} ELSE PendingIn(app)
  <2>1. t = Ascending(S) /\ S \subseteq files /\ S \in SUBSET File /\ S \cap app = {}
    BY <1>1, <1>5 DEF UpTargets, PendingIn
  <2>2. app = Applied /\ ~c.ordered
    BY <1>5 DEF Snapshot, ValidJob
  <2> HIDE DEF t, S
  <2>3. /\ t \in Seq(File)
        /\ \A i \in DOMAIN t : t[i] \in S
        /\ \A i, j \in DOMAIN t : i < j => t[i] < t[j]
    BY <2>1, AscendingFacts
  <2>4. \A i \in DOMAIN t : t[i] \in files /\ t[i] \in File /\ t[i] \notin app
    BY <2>1, <2>3
  <2> QED
    BY <1>1, <1>3, <2>2, <2>3, <2>4 DEF t
<1> QED
  BY <1>4, <1>5

LEMMA PlanUpStep ==
  ASSUME RunInv, NEW p \in Run, PlanUp(p)
  PROVE  RecordsInv' /\ RunsInv' /\ PlansInv'
<1> USE DEF RunInv, RunTypes, DataTypes, dataVars, lossVars, pastVars
<1>0. PICK c : c = job[p]
  OBVIOUS
<1>1. PICK app : app = Snapshot(c)
  OBVIOUS
<1>2. PICK t : t = UpTargets(c, app)
  OBVIOUS
<1>3. PICK b : b = BaseBatch(p)
  OBVIOUS
<1>4. /\ phase[p] = "plan" /\ way[p] = "up"
      /\ UNCHANGED <<files, log, order, effect, job, way, aborted, lost, labelled, forced,
                     excused, used>>
  BY DEF PlanUp
<1>5. /\ c \in Job /\ ValidJob(c) /\ c.op \in {"up", "redo"} /\ JobOK(p)
      /\ c.op = "redo" => c.file \in files
  <2>1. JobOK(p) /\ c \in Job /\ c.op \in {"up", "down", "redo"}
    BY <1>0, <1>4 DEF RunsInv, Job
  <2> QED
    BY <1>0, <1>4, <2>1 DEF JobOK
<1>6. CASE phase' = [phase EXCEPT ![p] = "end"] /\ UNCHANGED <<todo, seen, batch>>
  <2>1. Frame(p) /\ phase'[p] = "end"
    BY <1>4, <1>6 DEF Frame
  <2> QED
    BY <1>4, <1>6, <2>1, QuietStep DEF Dealing, Tracing
<1>7. CASE /\ ~UpRefused(c, app)
           /\ phase' = [phase EXCEPT ![p] = "next"]
           /\ todo' = [todo EXCEPT ![p] = t]
           /\ seen' = [seen EXCEPT ![p] = app]
           /\ batch' = [batch EXCEPT ![p] = b]
  <2>1. /\ app \in SUBSET File /\ app \subseteq Applied
        /\ t \in Seq(File)
        /\ \A i \in DOMAIN t : t[i] \in files
        /\ \A i, j \in DOMAIN t : i < j => t[i] < t[j]
        /\ c.ordered => Len(t) <= 1
        /\ \A i \in DOMAIN t : t[i] \in Applied => t[i] \in app
        /\ c.ordered => \A i \in DOMAIN t : t[i] \notin Applied =>
             \A g \in 1..t[i] - 1 : g \in Applied \/ (g \notin FirstFiles /\ log[g].status = "none")
        /\ c.policy = "error" /\ c.op = "up" /\ (c.ordered \/ c.by # "one") =>
             \A i \in DOMAIN t : t[i] \notin Applied => \A g \in Applied : g < t[i]
    BY <1>1, <1>2, <1>5, <1>7, UpTargetsFacts
  <2>2. phase'[p] = "next" /\ todo'[p] = t /\ seen'[p] = app /\ batch'[p] = b
    BY <1>7
  <2>3. Frame(p)
    BY <1>4, <1>7 DEF Frame
  <2>4. JobOK(p)'
    BY <1>4, <1>5, <2>2 DEF JobOK, ValidJob
  <2>5. TodoOK(p)'
    BY <1>0, <1>4, <2>1, <2>2 DEF TodoOK, Dealing, Tracing
  <2>6. ASSUME ~lost PROVE PlanOK(p)'
    <3>1. ~labelled => NumbersInv
      BY <1>4, <2>6 DEF PlansInv
    <3>2. Applied' = Applied
      BY <1>4 DEF Applied
    <3>3. UpToDate(p)' /\ UpOrdered(p)' /\ UpIntact(p)'
      BY <1>0, <1>4, <2>1, <2>2, <3>2 DEF UpToDate, UpOrdered, UpIntact
    <3>4. ~labelled => b = NextBatch
      BY <1>3, <1>4, <1>5 DEF JobOK, BaseBatch
    <3>5. UpNumbered(p)'
      <4>1. ASSUME ~labelled, NEW g \in Applied PROVE log[g].batch # b
        <5>1. log[g].batch < b /\ log[g].batch \in Nat /\ b \in Nat
          BY <3>4, <4>1, NextBatchFacts DEF Applied
        <5> QED
          BY <5>1
      <4> QED
        BY <1>4, <2>2, <3>2, <4>1 DEF UpNumbered
    <3>6. ASSUME ~labelled, NEW d \in used PROVE d <= b
      <4>1. PICK f \in File : d <= log[f].batch
        BY <3>1, <3>6 DEF NumbersInv
      <4>2. log[f].batch < b /\ log[f].batch \in Nat /\ b \in Nat /\ d \in Nat
        BY <3>4, <3>6, NextBatchFacts
      <4> QED
        BY <4>1, <4>2
    <3> QED
      BY <1>4, <2>2, <3>3, <3>5, <3>6 DEF PlanOK, Dealing, Tracing
  <2>7. RecordsInv' /\ (~lost /\ ~labelled' => NumbersInv')
    BY <1>4, RecordsKept, NumbersKept DEF PlansInv
  <2>8. ~lost => \A q \in Run \ {p} : phase[q] = "idle"
    BY <1>4, Alone
  <2> QED
    BY <1>4, <2>3, <2>4, <2>5, <2>6, <2>7, <2>8, Assemble
<1> QED
  BY <1>0, <1>1, <1>2, <1>3, <1>6, <1>7 DEF PlanUp, Goes

LEMMA StartStep ==
  ASSUME RunInv, NEW p \in Run, NEW c \in Jobs, NEW label \in 0..MaxBatch, Start(p, c, label)
  PROVE  RecordsInv' /\ RunsInv' /\ PlansInv'
<1> USE DEF RunInv, RunTypes, DataTypes, dataVars, lossVars, pastVars
<1>1. /\ phase[p] = "idle" /\ lease = Free
      /\ job'[p] = c /\ way'[p] = (IF c.op = "up" THEN "up" ELSE "down")
      /\ batch'[p] = label /\ phase'[p] = "plan"
      /\ labelled' = (labelled \/ label # 0)
      /\ UNCHANGED <<files, log, order, effect, todo, seen, aborted, lost, forced, excused, used>>
  BY DEF Start
<1>2. c \in Job /\ ValidJob(c) /\ c.op \in {"up", "down", "redo"}
  BY JobsAssumption DEF Job
<1>3. Frame(p)
  BY DEF Start, Frame
<1>4. ASSUME ~lost PROVE \A q \in Run : phase[q] = "idle"
  BY <1>1, <1>4, FreeAssumption DEF LockInv, KeptInv
<1>5. JobOK(p)'
  BY <1>1, <1>2 DEF JobOK, ValidJob, Dealing
<1>6. TodoOK(p)'
  BY <1>1 DEF TodoOK, Dealing, Tracing
<1>7. ASSUME ~lost PROVE PlanOK(p)'
  BY <1>1 DEF PlanOK, Dealing, Tracing
<1>8. RecordsInv' /\ (~lost /\ ~labelled' => NumbersInv')
  BY <1>1, RecordsKept, NumbersKept DEF PlansInv
<1> QED
  BY <1>1, <1>3, <1>4, <1>5, <1>6, <1>7, <1>8, Assemble

\* What happens around the runs: a file arrives, a lock is removed or goes stale, a
\* run is told of it, a body that timed out gets its work done.
LEMMA FreedLoses == ASSUME NEW p \in Run, Freed(p) PROVE lost => lost'
  BY Zenon DEF Freed

LEMMA AroundStep ==
  ASSUME RunInv, files \subseteq files', lost => lost',
         UNCHANGED <<log, order, phase, job, way, todo, seen, batch, labelled, used>>
  PROVE  RecordsInv' /\ RunsInv' /\ PlansInv'
<1>1. Applied' = Applied
  BY DEF Applied
<1>2. RecordsInv'
  BY <1>1 DEF RunInv, RecordsInv
<1>3. RunsInv'
  <2>1. ASSUME NEW p \in Run, phase[p] # "idle" PROVE JobOK(p)' /\ TodoOK(p)'
    <3>1. JobOK(p) /\ TodoOK(p)
      BY <2>1 DEF RunInv, RunsInv
    <3>2. JobOK(p)'
      BY <3>1 DEF JobOK, ValidJob, Dealing
    <3>3. TodoOK(p)'
      BY <3>1 DEF TodoOK, Dealing, Tracing, Skips, Head1
    <3> QED
      BY <3>2, <3>3
  <2> QED
    BY <2>1 DEF RunsInv
<1>4. ASSUME ~lost, NEW p \in Run PROVE PlanOK(p)'
  <2>1. PlanOK(p)
    BY <1>4 DEF RunInv, PlansInv
  <2>2. QED
    BY <1>1, <2>1, PlanKept DEF Dealing, Tracing
<1>5. ~lost /\ ~labelled => NumbersInv'
  BY NumbersKept DEF RunInv, PlansInv
<1> QED
  BY <1>2, <1>3, <1>4, <1>5 DEF PlansInv

-----------------------------------------------------------------------------
(* The invariant, of every step. *)

\* The numbers that are given are numbers.
LEMMA MarkTypes ==
  ASSUME RunInv, NEW p \in Run, phase[p] \in {"body", "record"},
         MarkDone(p), Advance(p) \/ FailsAfter(p),
         UNCHANGED <<files, job, way, seen, aborted, lost, labelled>>
  PROVE  /\ log' \in [File -> [status: {"none", "applied", "reverted", "failed"}, batch: Nat]]
         /\ order' \in Seq(File)
         /\ todo' \in [Run -> Seq(File)]
         /\ batch' \in [Run -> Nat]
         /\ used' \in SUBSET Nat
<1> USE DEF RunInv, RunTypes, DataTypes
<1>0. PICK f : f = Head1(p)
  OBVIOUS
<1>1. f \in File /\ (way[p] = "up" => f \in files) /\ todo[p] \in Seq(File) /\ todo[p] # <<>>
  BY <1>0, HeadFacts DEF Tracing, Dealing
<1>2. PICK t \in Seq(File) : t = Tail(todo[p])
  BY <1>1, TailFacts
<1>3. todo' \in [Run -> Seq(File)] /\ batch' \in [Run -> Nat]
  <2>1. todo' = [todo EXCEPT ![p] = t] \/ todo' = todo
    BY <1>2 DEF Advance, FailsAfter
  <2>2. \/ \E n \in Nat : batch' = [batch EXCEPT ![p] = n]
        \/ batch' = batch
    <3>1. batch[p] \in Nat /\ batch[p] + 1 \in Nat
      OBVIOUS
    <3>2. \/ batch' = [batch EXCEPT ![p] = batch[p] + 1]
          \/ batch' = [batch EXCEPT ![p] = batch[p]]
          \/ batch' = batch
      BY DEF Advance, FailsAfter
    <3> QED
      BY <3>1, <3>2
  <2>3. todo' \in [Run -> Seq(File)]
    BY <2>1
  <2>4. batch' \in [Run -> Nat]
    BY <2>2
  <2> QED
    BY <2>3, <2>4
<1>4. CASE way[p] = "up"
  <2>1. MarkApplied(f, batch[p])
    BY <1>0, <1>4 DEF MarkDone
  <2>2. used' \in SUBSET Nat
    BY <2>1 DEF MarkApplied
  <2> QED
    BY <1>1, <1>3, <1>4, <2>1, <2>2, AppliedMarked
<1>5. CASE way[p] = "down"
  <2>1. MarkReverted(f) /\ used' \in SUBSET Nat
    BY <1>0, <1>5 DEF MarkDone, MarkReverted
  <2>2. CASE f \in Applied
    BY <1>1, <1>3, <2>1, <2>2, RevertedMarked
  <2>3. CASE f \notin Applied
    <3>1. log' = log /\ order' = order
      BY <1>1, <2>1, <2>3, RevertedNothing
    <3> QED
      BY <1>3, <2>1, <3>1
  <2> QED
    BY <2>2, <2>3
<1> QED
  BY <1>4, <1>5

LEMMA WorkTypes ==
  ASSUME RunInv, NEW p \in Run, Work(p)
  PROVE  DataTypes'
<1> USE DEF RunInv, RunTypes, DataTypes, dataVars, lossVars, pastVars
<1>1. CASE PlanUp(p)
  <2>1. CASE UNCHANGED <<todo, seen, batch>>
    BY <1>1, <2>1 DEF PlanUp
  <2>2. PICK c, app, t, b : c = job[p] /\ app = Snapshot(c) /\ t = UpTargets(c, app)
                            /\ b = BaseBatch(p)
    OBVIOUS
  <2>3. CASE /\ ~UpRefused(c, app)
             /\ todo' = [todo EXCEPT ![p] = t]
             /\ seen' = [seen EXCEPT ![p] = app]
             /\ batch' = [batch EXCEPT ![p] = b]
    <3>1. b \in Nat
      BY <2>2, NextBatchFacts DEF BaseBatch
    <3>2. c \in Job /\ JobOK(p) /\ way[p] = "up" /\ c.op \in {"up", "down", "redo"}
      BY <1>1, <2>2 DEF PlanUp, RunsInv, Job
    <3>3. ValidJob(c) /\ c.op \in {"up", "redo"} /\ (c.op = "redo" => c.file \in files)
      BY <2>2, <3>2 DEF JobOK
    <3>4. app \in SUBSET File /\ t \in Seq(File)
      BY <2>2, <2>3, <3>2, <3>3, UpTargetsFacts
    <3> QED
      BY <1>1, <2>3, <3>1, <3>4 DEF PlanUp
  <2> QED
    BY <1>1, <2>1, <2>2, <2>3 DEF PlanUp
<1>2. CASE PlanDown(p)
  <2>1. CASE UNCHANGED <<todo, job>>
    BY <1>2, <2>1 DEF PlanDown
  <2>2. PICK c, t : c = job[p] /\ t = DownTargets(c)
    OBVIOUS
  <2>3. CASE /\ ~DownRefused(c) /\ t # <<>>
             /\ todo' = [todo EXCEPT ![p] = t]
             /\ job' = [job EXCEPT ![p].file = IF c.op = "redo" THEN t[1] ELSE @]
    <3>1. c \in Job /\ JobOK(p) /\ way[p] = "down" /\ c.op \in {"up", "down", "redo"}
      BY <1>2, <2>2 DEF PlanDown, RunsInv, Job
    <3>2. ValidJob(c) /\ c.op \in {"down", "redo"}
      BY <2>2, <3>1 DEF JobOK
    <3>3. t \in Seq(File)
      BY <2>2, <2>3, <3>1, <3>2, DownTargetsFacts
    <3>4. t[1] \in File
      BY <2>3, <3>3, TailFacts
    <3>5. PICK d \in Job : d = [c EXCEPT !.file = IF c.op = "redo" THEN t[1] ELSE @]
      BY <3>1, <3>4 DEF Job
    <3>6. job' = [job EXCEPT ![p] = d]
      BY <2>2, <2>3, <3>5
    <3>7. job' \in [Run -> Job]
      BY <3>6
    <3>8. todo' \in [Run -> Seq(File)]
      BY <2>3, <3>3
    <3> QED
      BY <1>2, <3>7, <3>8 DEF PlanDown
  <2> QED
    BY <1>2, <2>1, <2>2, <2>3 DEF PlanDown
<1>3. CASE Stop(p) \/ Load(p) \/ StartBody(p)
  BY <1>3 DEF Stop, Load, StartBody
<1>4. CASE Skip(p)
  <2>1. Tail(todo[p]) \in Seq(File)
    BY <1>4, TailFacts DEF Skip
  <2> QED
    BY <1>4, <2>1 DEF Skip
<1>5. CASE BodyCommit(p)
  <2>1. Head1(p) \in File /\ way[p] \in {"up", "down"}
    BY <1>5, HeadFacts DEF BodyCommit, Tracing, Dealing
  <2>2. effect' \in [File -> 0..2]
    BY <1>5, <2>1, TakesFacts DEF BodyCommit
  <2> QED
    BY <1>5, <2>2 DEF BodyCommit
<1>6. CASE Record(p)
  <2>1. /\ phase[p] = "record" /\ MarkDone(p) /\ (Advance(p) \/ FailsAfter(p))
        /\ UNCHANGED <<files, effect, job, way, seen, aborted, zombies, lost, labelled>>
    BY <1>6 DEF Record
  <2> QED
    BY <2>1, MarkTypes
<1>7. CASE TxCommit(p)
  <2>1. /\ phase[p] = "body" /\ MarkDone(p) /\ (Advance(p) \/ FailsAfter(p))
        /\ Takes(Head1(p), way[p])
        /\ UNCHANGED <<files, job, way, seen, aborted, zombies, lost, labelled>>
    BY <1>7 DEF TxCommit
  <2>2. Head1(p) \in File /\ way[p] \in {"up", "down"}
    BY <2>1, HeadFacts DEF Tracing, Dealing
  <2>3. effect' \in [File -> 0..2]
    BY <2>1, <2>2, TakesFacts
  <2> QED
    BY <2>1, <2>3, MarkTypes
<1>8. CASE Trace(p)
  <2>1. PICK f, b : f = Head1(p) /\ b = batch[p]
    OBVIOUS
  <2>2. way[p] = "up" /\ f \in File /\ f \in files /\ b \in Nat
    BY <1>8, <2>1, HeadFacts DEF Trace, Tracing, RunsInv, JobOK
  <2>3. CASE UNCHANGED <<log, used>>
    BY <1>8, <2>3 DEF Trace
  <2>4. CASE MarkFailed(f, b)
    <3>1. /\ log' \in [File -> [status: {"none", "applied", "reverted", "failed"}, batch: Nat]]
          /\ used' = used \/ used' = used \cup {b}
      <4>1. UNCHANGED <<files, order>>
        BY <1>8 DEF Trace
      <4> QED
        BY <2>2, <2>4, <4>1, FailedMarked
    <3>2. used' \in SUBSET Nat
      BY <2>2, <3>1
    <3> QED
      BY <1>8, <3>1, <3>2 DEF Trace
  <2> QED
    BY <1>8, <2>1, <2>3, <2>4 DEF Trace
<1>9. CASE SequenceDone(p)
  BY <1>9 DEF SequenceDone
<1>10. CASE End(p)
  BY <1>10, FileFacts DEF End, Reset, NoJob, Job
<1> QED
  BY <1>1, <1>2, <1>3, <1>4, <1>5, <1>6, <1>7, <1>8, <1>9, <1>10 DEF Work

LEMMA MishapTypes ==
  ASSUME RunInv, NEW p \in Run, Mishap(p)
  PROVE  DataTypes'
<1> USE DEF RunInv, RunTypes, DataTypes, dataVars, lossVars, pastVars
<1>1. CASE LoadFails(p) \/ RecordFails(p) \/ Unlock(p) \/ Told(p)
  BY <1>1 DEF LoadFails, RecordFails, Unlock, Told, runVars
<1>2. phase[p] = "body" => Head1(p) \in File /\ way[p] \in {"up", "down"}
  BY HeadFacts DEF Tracing, Dealing
<1>3. CASE BodyFails(p)
  <2>1. effect' \in [File -> 0..2]
    BY <1>2, <1>3, TakesFacts DEF BodyFails
  <2> QED
    BY <1>3, <2>1 DEF BodyFails
<1>4. CASE Timeout(p)
  BY <1>2, <1>4 DEF Timeout
<1>5. CASE Crash(p)
  BY <1>5 DEF Crash, Reset, NoJob, Job
<1> QED
  BY <1>1, <1>3, <1>4, <1>5 DEF Mishap

LEMMA TypedStep ==
  ASSUME RunInv, [Next]_vars
  PROVE  DataTypes'
<1> USE DEF RunInv, RunTypes, DataTypes, dataVars, runVars, pastVars
<1>1. CASE \E p \in Run : Work(p) \/ Mishap(p)
  BY <1>1, WorkTypes, MishapTypes
<1>2. ASSUME NEW p \in Run, NEW c \in Jobs, NEW label \in 0..MaxBatch, Start(p, c, label)
      PROVE  DataTypes'
  BY <1>2, JobsAssumption, BoundsAssumption DEF Start
<1>3. CASE \/ (\E f \in File : FileArrives(f)) \/ Peek \/ (\E p \in Run : Expire(p))
           \/ UNCHANGED vars
  BY <1>3 DEF FileArrives, Peek, Expire, vars
<1>4. ASSUME NEW z \in zombies, ZombieCommits(z) PROVE DataTypes'
  <2>1. z[1] \in File /\ z[2] \in {"up", "down"}
    OBVIOUS
  <2>2. effect' \in [File -> 0..2]
    BY <1>4, <2>1, TakesFacts DEF ZombieCommits
  <2> QED
    BY <1>4, <2>2 DEF ZombieCommits
<1> QED
  BY <1>1, <1>2, <1>3, <1>4 DEF Next

LEMMA PlansStep ==
  ASSUME RunInv, [Next]_vars
  PROVE  RecordsInv' /\ RunsInv' /\ PlansInv'
<1>1. ASSUME NEW p \in Run, Work(p)
      PROVE  RecordsInv' /\ RunsInv' /\ PlansInv'
  BY <1>1, PlanUpStep, PlanDownStep, QuietActions, SkipStep, BodyCommitStep, RecordStep,
     TxCommitStep, TraceStep, DoneStep, EndStep DEF Work
<1>2. ASSUME NEW p \in Run, Mishap(p)
      PROVE  RecordsInv' /\ RunsInv' /\ PlansInv'
  <2>1. CASE Unlock(p) \/ Told(p)
    <3>1. lost => lost'
      BY <2>1, FreedLoses DEF Unlock, Told, lossVars, pastVars
    <3>2. UNCHANGED <<files, log, order, phase, job, way, todo, seen, batch, labelled, used>>
      BY <2>1 DEF Unlock, Told, dataVars, runVars, pastVars
    <3> QED
      BY <3>1, <3>2, AroundStep
  <2>2. QED
    BY <1>2, <2>1, QuietActions, BodyFailsStep, RecordFailsStep, EndStep DEF Mishap
<1>3. ASSUME NEW p \in Run, NEW c \in Jobs, NEW label \in 0..MaxBatch, Start(p, c, label)
      PROVE  RecordsInv' /\ RunsInv' /\ PlansInv'
  BY <1>3, StartStep
<1>4. CASE \/ (\E f \in File : FileArrives(f)) \/ Peek \/ UNCHANGED vars
           \/ (\E z \in zombies : ZombieCommits(z)) \/ (\E p \in Run : Expire(p))
  <2>1. lost => lost'
    BY <1>4, FreedLoses DEF FileArrives, Peek, Expire, ZombieCommits, vars, lossVars, pastVars
  <2>2. files \subseteq files'
    BY <1>4 DEF FileArrives, Peek, Expire, ZombieCommits, vars, dataVars
  <2>3. UNCHANGED <<log, order, phase, job, way, todo, seen, batch, labelled, used>>
    BY <1>4 DEF FileArrives, Peek, Expire, ZombieCommits, vars, dataVars, runVars, pastVars
  <2> QED
    BY <2>1, <2>2, <2>3, AroundStep
<1> QED
  BY <1>1, <1>2, <1>3, <1>4 DEF Next

LEMMA RunInvInit == Init => RunInv
<1> SUFFICES ASSUME Init PROVE RunInv
  OBVIOUS
<1> USE DEF Init
<1>1. RunTypes /\ LockInv
  BY DEF RunTypes, LockInv, LeaseInv, RevokedInv, KeptInv, Phases
<1>2. NoJob \in Job
  BY DEF NoJob, Job
<1>3. DataTypes
  BY <1>2, FilesAssumption DEF DataTypes
<1>4. Applied = {}
  BY DEF Applied
<1>5. RecordsInv
  BY <1>4 DEF RecordsInv
<1>6. RunsInv
  BY DEF RunsInv
<1>7. PlansInv
  BY DEF PlansInv, PlanOK, Dealing, Tracing, NumbersInv
<1> QED
  BY <1>1, <1>3, <1>5, <1>6, <1>7 DEF RunInv

\* The records and the plans of the runs fit together at all times, for as long as
\* no lock is freed under a run.
THEOREM RunInvariant == Spec => []RunInv
<1>1. RunInv /\ [Next]_vars => RunInv'
  BY TypesStep, LeaseStep, TypedStep, PlansStep DEF RunInv
<1>2. QED
  BY <1>1, RunInvInit, PTL DEF Spec

-----------------------------------------------------------------------------
(* What is in the data.  A run that has the lock knows how things stand with *)
(* every file but those that others worked on after their lock was freed.    *)

\* The data and the changelog agree on f, or have come apart where they may.
ExactFor(f) ==
  \/ f \notin Transactional /\ (f \in excused \/ Unrecorded(f))
  \/ effect[f] = IF f \in Applied THEN 1 ELSE 0

FitUp(p) ==
  way[p] = "up" => \A i \in DOMAIN todo[p] :
                     todo[p][i] \in Applied /\ todo[p][i] \notin strayed => todo[p][i] \in seen[p]

FitDown(p) ==
  way[p] = "down" => \A i \in DOMAIN todo[p] : todo[p][i] \in Applied \/ todo[p][i] \in strayed

Once(p) ==
  way[p] = "down" => \A i, j \in DOMAIN todo[p] : todo[p][i] = todo[p][j] => i = j

\* Between the body and its record, the data is ahead of the changelog.
Ahead(p) ==
  phase[p] = "record" /\ Head1(p) \notin forced \cup excused \cup strayed =>
    IF way[p] = "up" THEN Head1(p) \notin Applied /\ effect[Head1(p)] = 1
                     ELSE Head1(p) \in Applied /\ effect[Head1(p)] = 0

\* What a run has in hand without the lock has strayed; with the lock, what it has
\* planned is still true.
OwnOK(p) ==
  /\ phase[p] \in {"load", "body", "record"} /\ lease # p => Head1(p) \in strayed
  /\ Dealing(p) => Once(p)
  /\ lease = p /\ Dealing(p) => FitUp(p) /\ FitDown(p) /\ Ahead(p)

DataInv == (\A p \in Run : OwnOK(p)) /\ Exact

\* A step of p and nobody else, which touches no file but f.
Alongside(p) ==
  \A q \in Run \ {p} :
    /\ phase'[q] = phase[q] /\ way'[q] = way[q] /\ todo'[q] = todo[q] /\ seen'[q] = seen[q]
    /\ lease' = q <=> lease = q

TouchesOnly(f) ==
  \A g \in File \ {f} : effect'[g] = effect[g] /\ (g \in Applied' <=> g \in Applied)

Grows == strayed \subseteq strayed' /\ forced \subseteq forced' /\ excused \subseteq excused'

\* What others have planned is not disturbed, for want of the lock.
LEMMA OthersKept ==
  ASSUME RunInv, DataInv, NEW p \in Run, NEW f, Alongside(p), TouchesOnly(f), Grows,
         \/ effect' = effect /\ Applied' = Applied
         \/ lease = p \/ f \in strayed,
         NEW q \in Run \ {p}
  PROVE  OwnOK(q)'
<1> USE DEF Alongside
<1>1. OwnOK(q) /\ todo[q] \in Seq(File) /\ Head1(q)' = Head1(q)
  BY DEF DataInv, RunInv, DataTypes, Head1
<1>2. Dealing(q)' = Dealing(q) /\ Once(q)' = Once(q)
  BY DEF Dealing, Once
<1>3. ASSUME lease' = q, Dealing(q) PROVE FitUp(q)' /\ FitDown(q)' /\ Ahead(q)'
  <2>1. lease = q /\ FitUp(q) /\ FitDown(q) /\ Ahead(q)
    BY <1>1, <1>3 DEF OwnOK
  <2>2. \A g \in File \ strayed : effect'[g] = effect[g] /\ (g \in Applied' <=> g \in Applied)
    BY <2>1 DEF TouchesOnly
  <2>3. strayed \subseteq strayed' /\ forced \subseteq forced' /\ excused \subseteq excused'
    BY DEF Grows
  <2>4. \A i \in DOMAIN todo[q] : todo[q][i] \in File
    BY <1>1
  <2>5. FitUp(q)' /\ FitDown(q)'
    BY <2>1, <2>2, <2>3, <2>4 DEF FitUp, FitDown
  <2>6. phase[q] = "record" => Head1(q) \in File
    BY HeadFacts DEF Tracing, Dealing
  <2>7. Ahead(q)'
    BY <1>1, <2>1, <2>2, <2>3, <2>6 DEF Ahead
  <2> QED
    BY <2>5, <2>7
<1>4. lease' # q => lease # q
  OBVIOUS
<1> QED
  BY <1>1, <1>2, <1>3, <1>4 DEF OwnOK, Grows

\* A step that leaves data and records alone.
LEMMA DataStill ==
  ASSUME RunInv, DataInv, NEW p \in Run, Alongside(p), Grows,
         effect' = effect, Applied' = Applied, OwnOK(p)',
         phase[p] = "record" =>
           \/ Head1(p) \in excused'
           \/ phase'[p] = "record" /\ Head1(p)' = Head1(p)
  PROVE  DataInv'
<1>1. TouchesOnly(NoFile)
  BY DEF TouchesOnly
<1>2. \A q \in Run : OwnOK(q)'
  BY <1>1, OthersKept
<1>3. ASSUME NEW f \in File, f \notin forced' \cup strayed' PROVE ExactFor(f)'
  <2>1. ExactFor(f)
    BY <1>3 DEF DataInv, Exact, ExactFor, Grows
  <2>2. CASE f \notin Transactional /\ f \in excused
    BY <2>2 DEF ExactFor, Grows
  <2>3. ASSUME f \notin Transactional, Unrecorded(f) PROVE ExactFor(f)'
    <3>1. PICK q \in Run : phase[q] = "record" /\ Head1(q) = f
      BY <2>3 DEF Unrecorded
    <3>2. f \in excused' \/ (phase'[q] = "record" /\ Head1(q)' = f)
      BY <3>1 DEF Alongside, Head1
    <3> QED
      BY <2>3, <3>2 DEF ExactFor, Unrecorded
  <2>4. CASE effect[f] = IF f \in Applied THEN 1 ELSE 0
    BY <2>4 DEF ExactFor
  <2> QED
    BY <2>1, <2>2, <2>3, <2>4 DEF ExactFor
<1> QED
  BY <1>2, <1>3 DEF DataInv, Exact, ExactFor

\* A step that touches the file p has in hand.
LEMMA DataTouched ==
  ASSUME RunInv, DataInv, NEW p \in Run, NEW f \in File, Alongside(p), Grows,
         phase[p] \in {"body", "record"}, f = Head1(p), TouchesOnly(f), OwnOK(p)',
         f \notin forced' \cup strayed' => ExactFor(f)'
  PROVE  DataInv'
<1>1. lease = p \/ f \in strayed
  BY DEF DataInv, OwnOK
<1>2. \A q \in Run : OwnOK(q)'
  BY <1>1, OthersKept
<1>3. ASSUME NEW g \in File \ {f}, g \notin forced' \cup strayed' PROVE ExactFor(g)'
  <2>1. ExactFor(g)
    BY <1>3 DEF DataInv, Exact, ExactFor, Grows
  <2>2. effect'[g] = effect[g] /\ (g \in Applied' <=> g \in Applied)
    BY <1>3 DEF TouchesOnly
  <2>3. CASE g \notin Transactional /\ g \in excused
    BY <2>3 DEF ExactFor, Grows
  <2>4. ASSUME g \notin Transactional, Unrecorded(g) PROVE ExactFor(g)'
    <3>1. PICK q \in Run : phase[q] = "record" /\ Head1(q) = g
      BY <2>4 DEF Unrecorded
    <3>2. q # p
      BY <1>3, <3>1
    <3>3. phase'[q] = "record" /\ Head1(q)' = g
      BY <3>1, <3>2 DEF Alongside, Head1
    <3> QED
      BY <2>4, <3>3 DEF ExactFor, Unrecorded
  <2>5. CASE effect[g] = IF g \in Applied THEN 1 ELSE 0
    BY <2>2, <2>5 DEF ExactFor
  <2> QED
    BY <2>1, <2>3, <2>4, <2>5 DEF ExactFor
<1> QED
  BY <1>2, <1>3 DEF DataInv, Exact, ExactFor

\* A body that is about to run is not in effect yet, or is run again on demand;
\* one that is about to be reverted is in effect: unless its file has strayed.
LEMMA BodyFacts ==
  ASSUME RunInv, DataInv, NEW p \in Run, phase[p] = "body"
  PROVE  /\ Head1(p) \in File /\ way[p] \in {"up", "down"}
         /\ Head1(p) \notin strayed =>
              /\ way[p] = "up" => Head1(p) \notin Applied \/ Again(p)
              /\ way[p] = "down" => Head1(p) \in Applied
              /\ Head1(p) \notin forced =>
                   \/ Head1(p) \notin Transactional /\ Head1(p) \in excused
                   \/ effect[Head1(p)] = IF Head1(p) \in Applied THEN 1 ELSE 0
<1>1. /\ Head1(p) = todo[p][1] /\ 1 \in DOMAIN todo[p] /\ Head1(p) \in File
      /\ way[p] \in {"up", "down"} /\ Dealing(p)
  BY HeadFacts DEF Tracing, Dealing, RunInv, DataTypes
<1>2. ~Skips(p)
  BY <1>1 DEF RunInv, RunsInv, TodoOK
<1>3. ASSUME Head1(p) \notin strayed
      PROVE  /\ lease = p /\ FitUp(p) /\ FitDown(p)
             /\ ~Unrecorded(Head1(p))
             /\ Head1(p) \notin forced => ExactFor(Head1(p))
  <2>1. lease = p
    BY <1>3 DEF DataInv, OwnOK
  <2>2. FitUp(p) /\ FitDown(p)
    BY <1>1, <2>1 DEF DataInv, OwnOK
  <2>3. ASSUME NEW q \in Run, phase[q] = "record", Head1(q) = Head1(p) PROVE FALSE
    <3>1. lease = q
      BY <1>3, <2>3 DEF DataInv, OwnOK
    <3> QED
      BY <2>1, <2>3, <3>1
  <2>4. Head1(p) \notin forced => ExactFor(Head1(p))
    BY <1>1, <1>3 DEF DataInv, Exact, ExactFor
  <2> QED
    BY <2>1, <2>2, <2>3, <2>4 DEF Unrecorded
<1>4. ASSUME Head1(p) \notin strayed, way[p] = "up" PROVE Head1(p) \notin Applied \/ Again(p)
  BY <1>1, <1>2, <1>3, <1>4 DEF FitUp, Skips, Again
<1>5. ASSUME Head1(p) \notin strayed, way[p] = "down" PROVE Head1(p) \in Applied
  BY <1>1, <1>3, <1>5 DEF FitDown
<1> QED
  BY <1>1, <1>3, <1>4, <1>5 DEF ExactFor

LEMMA BodyCommitData ==
  ASSUME RunInv, DataInv, NEW p \in Run, BodyCommit(p)
  PROVE  DataInv'
<1> USE DEF RunInv, RunTypes, DataTypes
<1>0. PICK f : f = Head1(p)
  OBVIOUS
<1>1. /\ phase[p] = "body" /\ f \notin Transactional /\ Takes(f, way[p])
      /\ phase' = [phase EXCEPT ![p] = "record"] /\ forced' = ForcedNow(p)
      /\ UNCHANGED <<log, lease, way, todo, seen, excused, strayed>>
  BY <1>0 DEF BodyCommit, Goes, lockVars, lossVars
<1>2. /\ f \in File /\ way[p] \in {"up", "down"}
      /\ f \notin strayed =>
           /\ way[p] = "up" => f \notin Applied \/ Again(p)
           /\ way[p] = "down" => f \in Applied
           /\ f \notin forced =>
                \/ f \notin Transactional /\ f \in excused
                \/ effect[f] = IF f \in Applied THEN 1 ELSE 0
  BY <1>0, <1>1, BodyFacts
<1>3. /\ \A g \in File \ {f} : effect'[g] = effect[g]
      /\ way[p] = "up" /\ effect[f] = 0 => effect'[f] = 1
      /\ way[p] = "down" /\ effect[f] = 1 => effect'[f] = 0
  BY <1>1, <1>2, TakesFacts
<1>4. Applied' = Applied /\ Head1(p)' = f /\ phase'[p] = "record"
  BY <1>0, <1>1 DEF Applied, Head1
<1>5. /\ forced \subseteq forced' /\ forced' \subseteq forced \cup {f}
      /\ Again(p) => f \in forced'
  BY <1>0, <1>1 DEF ForcedNow
<1>6. Alongside(p) /\ Grows /\ TouchesOnly(f)
  BY <1>1, <1>3, <1>4, <1>5 DEF Alongside, Grows, TouchesOnly
<1>7. OwnOK(p)'
  <2>1. OwnOK(p) /\ Dealing(p)
    BY <1>1 DEF DataInv, Dealing
  <2>2. Ahead(p)'
    BY <1>1, <1>2, <1>3, <1>4, <1>5 DEF Ahead
  <2>3. Once(p)' /\ (lease = p => FitUp(p)' /\ FitDown(p)')
    BY <1>1, <1>4, <2>1 DEF OwnOK, Once, FitUp, FitDown
  <2>4. lease # p => f \in strayed
    BY <1>0, <1>1, <2>1 DEF OwnOK
  <2> QED
    BY <1>1, <1>4, <2>2, <2>3, <2>4 DEF OwnOK
<1>8. ExactFor(f)'
  BY <1>1, <1>4 DEF ExactFor, Unrecorded
<1> QED
  BY <1>0, <1>1, <1>2, <1>6, <1>7, <1>8, DataTouched

LEMMA BodyFailsData ==
  ASSUME RunInv, DataInv, NEW p \in Run, BodyFails(p)
  PROVE  DataInv'
<1> USE DEF RunInv, RunTypes, DataTypes
<1>0. PICK f : f = Head1(p)
  OBVIOUS
<1>1. /\ phase[p] = "body" /\ phase' = [phase EXCEPT ![p] = Failed(p)]
      /\ UNCHANGED <<log, lease, way, todo, seen, strayed>>
  BY DEF BodyFails, Goes, lockVars, lossVars
<1>2. Applied' = Applied /\ phase'[p] \in {"trace", "end"}
  BY <1>1 DEF Applied, Failed
<1>3. OwnOK(p)' /\ Alongside(p)
  BY <1>1, <1>2 DEF OwnOK, Dealing, Alongside
<1>4. CASE UNCHANGED <<effect, excused, forced>>
  BY <1>1, <1>2, <1>3, <1>4, DataStill DEF Grows
<1>5. CASE /\ f \notin Transactional /\ Takes(f, way[p])
           /\ excused' = excused \cup {f} /\ forced' = ForcedNow(p)
  <2>1. f \in File /\ way[p] \in {"up", "down"}
    BY <1>0, <1>1, BodyFacts
  <2>2. \A g \in File \ {f} : effect'[g] = effect[g]
    BY <1>5, <2>1, TakesFacts
  <2>3. Grows /\ TouchesOnly(f) /\ ExactFor(f)'
    BY <1>1, <1>2, <1>5, <2>2 DEF Grows, TouchesOnly, ForcedNow, ExactFor
  <2> QED
    BY <1>0, <1>1, <1>3, <2>1, <2>3, DataTouched
<1> QED
  BY <1>0, <1>4, <1>5 DEF BodyFails

LEMMA RecordFailsData ==
  ASSUME RunInv, DataInv, NEW p \in Run, RecordFails(p)
  PROVE  DataInv'
<1> USE DEF RunInv, RunTypes, DataTypes
<1>1. /\ phase[p] = "record" /\ phase' = [phase EXCEPT ![p] = Failed(p)]
      /\ excused' = excused \cup {Head1(p)}
      /\ UNCHANGED <<log, effect, lease, way, todo, seen, forced, strayed>>
  BY DEF RecordFails, Goes, dataVars, lockVars, lossVars
<1>2. Applied' = Applied /\ phase'[p] \in {"trace", "end"}
  BY <1>1 DEF Applied, Failed
<1>3. OwnOK(p)' /\ Alongside(p) /\ Grows
  BY <1>1, <1>2 DEF OwnOK, Dealing, Alongside, Grows
<1> QED
  BY <1>1, <1>2, <1>3, DataStill

\* What p has still to deal with, when the file in hand is recorded.
LEMMA AdvancedOwn ==
  ASSUME RunInv, DataInv, NEW p \in Run, phase[p] \in {"body", "record"},
         Advance(p) \/ FailsAfter(p), UNCHANGED <<lease, way, seen, strayed>>,
         way[p] = "up" => Applied' = Applied \cup {Head1(p)},
         way[p] = "down" => Applied' = Applied \ {Head1(p)}
  PROVE  OwnOK(p)'
<1> USE DEF RunInv, RunTypes, DataTypes
<1>1. CASE FailsAfter(p)
  <2>1. phase'[p] \in {"trace", "end"}
    BY <1>1 DEF FailsAfter, Goes, Failed
  <2> QED
    BY <2>1 DEF OwnOK, Dealing
<1>2. CASE Advance(p)
  <2> DEFINE s == todo[p]
             t == todo'[p]
             f == Head1(p)
  <2>1. phase'[p] = "next" /\ t = Tail(s) /\ Dealing(p) /\ Tracing(p)
    BY <1>2 DEF Advance, Goes, Dealing, Tracing
  <2>2. s \in Seq(File) /\ s # <<>> /\ f = s[1] /\ 1 \in DOMAIN s /\ TodoOK(p) /\ OwnOK(p)
    BY <2>1, HeadFacts DEF RunsInv, DataInv, Dealing
  <2>3. /\ Len(s) \in Nat /\ Len(s) >= 1
        /\ DOMAIN s = 1..Len(s) /\ DOMAIN t = 1..(Len(s) - 1)
        /\ \A i \in DOMAIN t : i + 1 \in DOMAIN s /\ t[i] = s[i + 1]
    <3> HIDE DEF s, t
    <3> QED
      BY <2>1, <2>2, TailFacts
  <2>4. way[p] \in {"up", "down"} /\ way'[p] = way[p] /\ seen'[p] = seen[p]
    OBVIOUS
  <2>5. way[p] = "up" => \A i, j \in DOMAIN s : i < j => s[i] < s[j]
    BY <2>1, <2>2 DEF TodoOK
  <2>6. way[p] = "down" => \A i, j \in DOMAIN s : s[i] = s[j] => i = j
    BY <2>1, <2>2 DEF OwnOK, Once
  <2>7. lease = p => FitUp(p) /\ FitDown(p)
    BY <2>1, <2>2 DEF OwnOK
  <2> HIDE DEF s, t, f
  <2>8. \A i \in DOMAIN s : s[i] \in File /\ s[i] \in Nat
    <3>1. \A i \in 1..Len(s) : s[i] \in File
      BY <2>2
    <3> QED
      BY <2>3, <3>1, FileFacts
  <2>9. ASSUME NEW i \in DOMAIN t PROVE t[i] # f /\ t[i] = s[i + 1] /\ i + 1 \in DOMAIN s
    <3>1. i + 1 \in DOMAIN s /\ t[i] = s[i + 1] /\ 1 < i + 1
      BY <2>3, <2>9
    <3>2. CASE way[p] = "up"
      <4>1. s[1] < s[i + 1] /\ s[1] \in Nat /\ s[i + 1] \in Nat
        BY <2>2, <2>5, <2>8, <3>1, <3>2
      <4> QED
        BY <2>2, <3>1, <4>1
    <3>3. CASE way[p] = "down"
      BY <2>2, <2>6, <3>1, <3>3
    <3> QED
      BY <2>4, <3>1, <3>2, <3>3
  <2>10. Once(p)'
    <3>1. ASSUME way[p] = "down", NEW i \in DOMAIN t, NEW j \in DOMAIN t, t[i] = t[j]
          PROVE  i = j
      <4>1. s[i + 1] = s[j + 1] /\ i + 1 \in DOMAIN s /\ j + 1 \in DOMAIN s
        BY <2>9, <3>1
      <4>2. i + 1 = j + 1
        BY <2>6, <3>1, <4>1
      <4>3. i \in Int /\ j \in Int
        BY <2>3
      <4> QED
        BY <4>2, <4>3
    <3> QED
      BY <2>4, <3>1 DEF Once, t
  <2>11. ASSUME lease = p PROVE FitUp(p)' /\ FitDown(p)'
    <3>1. ASSUME way[p] = "up", NEW i \in DOMAIN t, t[i] \in Applied', t[i] \notin strayed
          PROVE  t[i] \in seen[p]
      <4>1. t[i] \in Applied
        BY <2>9, <3>1 DEF f
      <4> QED
        BY <2>7, <2>9, <2>11, <3>1, <4>1 DEF FitUp, s
    <3>2. ASSUME way[p] = "down", NEW i \in DOMAIN t
          PROVE  t[i] \in Applied' \/ t[i] \in strayed
      <4>1. t[i] \in Applied \/ t[i] \in strayed
        BY <2>7, <2>9, <2>11, <3>2 DEF FitDown, s
      <4> QED
        BY <2>9, <3>2, <4>1 DEF f
    <3>3. FitUp(p)'
      BY <2>4, <3>1 DEF FitUp, t
    <3>4. FitDown(p)'
      BY <2>4, <3>2 DEF FitDown, t
    <3> QED
      BY <3>3, <3>4
  <2>12. Ahead(p)'
    BY <2>1 DEF Ahead
  <2> QED
    BY <2>1, <2>10, <2>11, <2>12 DEF OwnOK
<1> QED
  BY <1>1, <1>2

LEMMA RecordData ==
  ASSUME RunInv, DataInv, NEW p \in Run, Record(p)
  PROVE  DataInv'
<1>0. PICK f : f = Head1(p)
  OBVIOUS
<1>1. /\ phase[p] = "record" /\ MarkDone(p) /\ (Advance(p) \/ FailsAfter(p))
      /\ UNCHANGED <<files, effect, lease, job, way, seen, aborted, lost, labelled, forced,
                     excused, strayed>>
  BY DEF Record, lockVars, lossVars
<1>2. /\ way[p] = "up" => Applied' = Applied \cup {f}
      /\ way[p] = "down" => Applied' = Applied \ {f}
      /\ Frame(p)
  BY <1>0, <1>1, MarkedOne
<1>3. f \in File /\ way[p] \in {"up", "down"} /\ f \notin Transactional
  BY <1>0, <1>1, HeadFacts DEF RunInv, DataTypes, RunsInv, TodoOK, Tracing, Dealing
<1>4. OwnOK(p)'
  BY <1>0, <1>1, <1>2, AdvancedOwn
<1>5. Alongside(p) /\ Grows /\ TouchesOnly(f)
  BY <1>1, <1>2, <1>3 DEF Alongside, Frame, Grows, TouchesOnly
<1>6. ASSUME f \notin forced' \cup strayed' PROVE ExactFor(f)'
  <2>1. lease = p /\ Ahead(p)
    BY <1>0, <1>1, <1>6 DEF DataInv, OwnOK, Dealing
  <2> QED
    BY <1>0, <1>1, <1>2, <1>3, <1>6, <2>1 DEF Ahead, ExactFor
<1> QED
  BY <1>0, <1>1, <1>3, <1>4, <1>5, <1>6, DataTouched

LEMMA TxCommitData ==
  ASSUME RunInv, DataInv, NEW p \in Run, TxCommit(p)
  PROVE  DataInv'
<1>0. PICK f : f = Head1(p)
  OBVIOUS
<1>1. /\ phase[p] = "body" /\ MarkDone(p) /\ (Advance(p) \/ FailsAfter(p))
      /\ f \in Transactional /\ Takes(f, way[p]) /\ forced' = ForcedNow(p)
      /\ UNCHANGED <<files, lease, job, way, seen, aborted, lost, labelled, excused, strayed>>
  BY <1>0 DEF TxCommit, lockVars, lossVars
<1>2. /\ way[p] = "up" => Applied' = Applied \cup {f}
      /\ way[p] = "down" => Applied' = Applied \ {f}
      /\ Frame(p)
  BY <1>0, <1>1, MarkedOne
<1>3. /\ f \in File /\ way[p] \in {"up", "down"}
      /\ f \notin strayed =>
           /\ way[p] = "up" => f \notin Applied \/ Again(p)
           /\ way[p] = "down" => f \in Applied
           /\ f \notin forced => effect[f] = IF f \in Applied THEN 1 ELSE 0
  BY <1>0, <1>1, BodyFacts
<1>4. /\ \A g \in File \ {f} : effect'[g] = effect[g]
      /\ way[p] = "up" /\ effect[f] = 0 => effect'[f] = 1
      /\ way[p] = "down" /\ effect[f] = 1 => effect'[f] = 0
  BY <1>1, <1>3, TakesFacts DEF RunInv
<1>5. forced \subseteq forced' /\ (Again(p) => f \in forced')
  BY <1>0, <1>1 DEF ForcedNow
<1>6. OwnOK(p)'
  BY <1>0, <1>1, <1>2, AdvancedOwn
<1>7. Alongside(p) /\ Grows /\ TouchesOnly(f)
  BY <1>1, <1>2, <1>3, <1>4, <1>5 DEF Alongside, Frame, Grows, TouchesOnly
<1>8. ASSUME f \notin forced' \cup strayed' PROVE ExactFor(f)'
  BY <1>1, <1>2, <1>3, <1>4, <1>5, <1>8 DEF ExactFor
<1> QED
  BY <1>0, <1>1, <1>3, <1>6, <1>7, <1>8, DataTouched

\* The steps that write neither data nor an applied record.
LEMMA PlanData ==
  ASSUME RunInv, DataInv, NEW p \in Run, PlanUp(p) \/ PlanDown(p)
  PROVE  DataInv'
<1> USE DEF RunInv, RunTypes, DataTypes
<1>0. PICK c : c = job[p]
  OBVIOUS
<1>1. /\ phase[p] = "plan"
      /\ UNCHANGED <<files, log, effect, lease, way, forced, excused, strayed>>
      /\ way[p] \in {"up", "down"}
  BY DEF PlanUp, PlanDown, dataVars, lockVars, lossVars, pastVars
<1>2. Applied' = Applied /\ Alongside(p) /\ Grows
  BY <1>1 DEF Applied, Alongside, Grows, PlanUp, PlanDown, Goes
<1>3. CASE phase' = [phase EXCEPT ![p] = "end"]
  <2>1. OwnOK(p)'
    BY <1>3 DEF OwnOK, Dealing
  <2> QED
    BY <1>1, <1>2, <2>1, DataStill
<1>4. ASSUME phase' = [phase EXCEPT ![p] = "next"],
             Once(p)' /\ FitUp(p)' /\ FitDown(p)'
      PROVE  DataInv'
  <2>1. OwnOK(p)'
    BY <1>4 DEF OwnOK, Dealing, Ahead
  <2> QED
    BY <1>1, <1>2, <2>1, DataStill
<1>5. CASE /\ way[p] = "up" /\ ~UpRefused(c, Snapshot(c))
           /\ phase' = [phase EXCEPT ![p] = "next"]
           /\ todo' = [todo EXCEPT ![p] = UpTargets(c, Snapshot(c))]
           /\ seen' = [seen EXCEPT ![p] = Snapshot(c)]
  <2>1. PICK app : app = Snapshot(c)
    OBVIOUS
  <2>2. PICK t : t = UpTargets(c, app)
    OBVIOUS
  <2>3. /\ c \in Job /\ ValidJob(c) /\ c.op \in {"up", "redo"}
        /\ c.op = "redo" => c.file \in files
    <3>1. JobOK(p) /\ c \in Job /\ c.op \in {"up", "down", "redo"}
      BY <1>0, <1>1 DEF RunsInv, Job
    <3> QED
      BY <1>0, <1>5, <3>1 DEF JobOK
  <2>4. \A i \in DOMAIN t : t[i] \in Applied => t[i] \in app
    BY <1>5, <2>1, <2>2, <2>3, UpTargetsFacts
  <2>5. todo'[p] = t /\ seen'[p] = app /\ way'[p] = "up"
    BY <1>1, <1>5, <2>1, <2>2
  <2>6. Once(p)' /\ FitUp(p)' /\ FitDown(p)'
    BY <1>2, <2>4, <2>5 DEF Once, FitUp, FitDown
  <2> QED
    BY <1>4, <1>5, <2>6
<1>6. CASE /\ way[p] = "down" /\ ~DownRefused(c)
           /\ phase' = [phase EXCEPT ![p] = "next"]
           /\ todo' = [todo EXCEPT ![p] = DownTargets(c)]
  <2>1. PICK t : t = DownTargets(c)
    OBVIOUS
  <2>2. c \in Job /\ ValidJob(c) /\ c.op \in {"down", "redo"}
    <3>1. JobOK(p) /\ c \in Job /\ c.op \in {"up", "down", "redo"}
      BY <1>0, <1>1 DEF RunsInv, Job
    <3> QED
      BY <1>0, <1>6, <3>1 DEF JobOK
  <2>3. /\ \A i \in DOMAIN t : t[i] \in Applied
        /\ \A i, j \in DOMAIN t : t[i] = t[j] => i = j
    BY <1>6, <2>1, <2>2, DownTargetsFacts
  <2>4. todo'[p] = t /\ way'[p] = "down"
    BY <1>1, <1>6, <2>1
  <2>5. Once(p)' /\ FitUp(p)' /\ FitDown(p)'
    BY <1>2, <2>3, <2>4 DEF Once, FitUp, FitDown
  <2> QED
    BY <1>4, <1>6, <2>5
<1>7. CASE PlanUp(p)
  BY <1>0, <1>3, <1>5, <1>7 DEF PlanUp, Goes
<1>8. CASE PlanDown(p)
  BY <1>0, <1>3, <1>6, <1>8 DEF PlanDown, Goes
<1> QED
  BY <1>7, <1>8

\* A step of p along its migration that leaves plan, data and lock alone.
LEMMA MovesOn ==
  ASSUME RunInv, DataInv, NEW p \in Run, Alongside(p), Grows,
         UNCHANGED <<effect, lease>>, Applied' = Applied,
         way'[p] = way[p], seen'[p] = seen[p], todo'[p] = todo[p],
         phase[p] # "record", phase'[p] # "record", Dealing(p)' => Dealing(p),
         phase'[p] \in {"load", "body"} /\ lease # p => Head1(p) \in strayed'
  PROVE  DataInv'
<1>1. OwnOK(p)
  BY DEF DataInv
<1>2. Once(p) <=> Once(p)'
  BY DEF Once
<1>3. FitUp(p) /\ FitDown(p) => FitUp(p)' /\ FitDown(p)'
  BY DEF FitUp, FitDown, Grows
<1>4. Head1(p)' = Head1(p) /\ Ahead(p)'
  BY DEF Head1, Ahead
<1>5. OwnOK(p)'
  BY <1>1, <1>2, <1>3, <1>4 DEF OwnOK
<1> QED
  BY <1>5, DataStill

LEMMA QuietData ==
  ASSUME RunInv, DataInv, NEW p \in Run,
         Stop(p) \/ Load(p) \/ LoadFails(p) \/ StartBody(p) \/ Timeout(p)
  PROVE  DataInv'
<1> USE DEF RunInv, RunTypes, DataTypes, dataVars, lockVars, lossVars, pastVars, Goes
<1>1. /\ UNCHANGED <<log, effect, lease, way, todo, seen, forced, excused>>
      /\ Alongside(p) /\ Grows
  BY DEF Stop, Load, LoadFails, StartBody, Timeout, Alongside, Grows
<1>2. Applied' = Applied /\ way'[p] = way[p] /\ seen'[p] = seen[p] /\ todo'[p] = todo[p]
  BY <1>1 DEF Applied
<1>3. CASE Stop(p) \/ LoadFails(p) \/ Timeout(p)
  <2>1. phase[p] # "record" /\ phase'[p] \in {"trace", "end"}
    BY <1>3 DEF Stop, LoadFails, Timeout, Failed
  <2> QED
    BY <1>1, <1>2, <2>1, MovesOn DEF Dealing
<1>4. CASE StartBody(p)
  <2>1. phase[p] = "load" /\ phase'[p] = "body" /\ strayed' = strayed
    BY <1>4 DEF StartBody
  <2>2. lease # p => Head1(p) \in strayed
    BY <2>1 DEF DataInv, OwnOK
  <2> QED
    BY <1>1, <1>2, <2>1, <2>2, MovesOn DEF Dealing
<1>5. CASE Load(p)
  <2>1. phase[p] = "next" /\ phase'[p] = "load" /\ ~aborted[p]
    BY <1>5 DEF Load
  <2>2. lease = p \/ p \in revoked
    BY <2>1 DEF LockInv, LeaseInv
  <2>3. lease # p => Head1(p) \in strayed'
    BY <1>5, <2>2 DEF Load
  <2> QED
    BY <1>1, <1>2, <2>1, <2>3, MovesOn DEF Dealing
<1> QED
  BY <1>3, <1>4, <1>5

LEMMA SkipData ==
  ASSUME RunInv, DataInv, NEW p \in Run, Skip(p)
  PROVE  DataInv'
<1> USE DEF RunInv, RunTypes, DataTypes
<1>1. /\ phase[p] = "next" /\ way[p] = "up" /\ todo[p] # <<>> /\ todo[p] \in Seq(File)
      /\ todo' = [todo EXCEPT ![p] = Tail(@)]
      /\ UNCHANGED <<log, effect, phase, lease, way, seen, forced, excused, strayed>>
  BY DEF Skip, Skips, dataVars, lockVars, lossVars, pastVars
<1>2. Applied' = Applied /\ Alongside(p) /\ Grows /\ todo'[p] = Tail(todo[p])
  BY <1>1 DEF Applied, Alongside, Grows
<1>3. \A i \in DOMAIN todo'[p] : i + 1 \in DOMAIN todo[p] /\ todo'[p][i] = todo[p][i + 1]
  BY <1>1, <1>2, TailFacts
<1>4. FitUp(p) => FitUp(p)'
  BY <1>1, <1>2, <1>3 DEF FitUp
<1>5. OwnOK(p)'
  BY <1>1, <1>4 DEF DataInv, OwnOK, Once, FitDown, Ahead, Dealing
<1> QED
  BY <1>1, <1>2, <1>5, DataStill

\* The trace, the end of a file list and of a run.
LEMMA LastData ==
  ASSUME RunInv, DataInv, NEW p \in Run, Trace(p) \/ SequenceDone(p) \/ End(p) \/ Crash(p)
  PROVE  DataInv'
<1> USE DEF RunInv, RunTypes, DataTypes, dataVars, lockVars, lossVars, pastVars, Goes
<1>1. /\ UNCHANGED <<effect, forced, strayed>> /\ phase'[p] \in {"end", "plan", "idle"}
      /\ phase[p] # "record" => excused' = excused
      /\ phase[p] = "record" => excused' = excused \cup {Head1(p)}
  BY DEF Trace, SequenceDone, End, Crash, Reset
<1>2. Applied' = Applied
  <2>1. CASE SequenceDone(p) \/ End(p) \/ Crash(p)
    BY <2>1 DEF SequenceDone, End, Crash, Applied
  <2>2. CASE Trace(p)
    <3>1. PICK f, b : f = Head1(p) /\ b = batch[p]
      OBVIOUS
    <3>2. CASE log' = log
      BY <3>2 DEF Applied
    <3>3. CASE /\ f \notin Applied
               /\ log' = [log EXCEPT ![f] = [status |-> "failed", batch |-> b]]
      BY <3>3 DEF Applied
    <3> QED
      BY <2>2, <3>1, <3>2, <3>3 DEF Trace, MarkFailed
  <2> QED
    BY <2>1, <2>2
<1>3. Alongside(p)
  BY FreeAssumption DEF Alongside, Trace, SequenceDone, End, Crash, Reset
<1>4. OwnOK(p)' /\ Grows
  BY <1>1 DEF OwnOK, Dealing, Grows
<1> QED
  BY <1>1, <1>2, <1>3, <1>4, DataStill

LEMMA StartData ==
  ASSUME RunInv, DataInv, NEW p \in Run, NEW c \in Jobs, NEW label \in 0..MaxBatch,
         Start(p, c, label)
  PROVE  DataInv'
<1> USE DEF RunInv, RunTypes, DataTypes
<1>1. /\ phase[p] = "idle" /\ lease = Free /\ lease' = p /\ phase'[p] = "plan"
      /\ UNCHANGED <<log, effect, todo, seen, forced, excused, strayed>>
  BY DEF Start, dataVars, lossVars
<1>2. Applied' = Applied /\ Alongside(p) /\ Grows
  BY <1>1, FreeAssumption DEF Applied, Alongside, Grows, Start
<1>3. OwnOK(p)'
  BY <1>1 DEF OwnOK, Dealing
<1> QED
  BY <1>1, <1>2, <1>3, DataStill

\* A lock is freed under a run, or a run is told that it is lost.
LEMMA LossData ==
  ASSUME RunInv, DataInv, NEW p \in Run, Unlock(p) \/ Told(p) \/ Expire(p)
  PROVE  DataInv'
<1> USE DEF RunInv, RunTypes, DataTypes, dataVars, runVars, lossVars, pastVars
<1>1. UNCHANGED <<log, effect, phase, way, todo, seen, forced, excused>>
  BY DEF Unlock, Told, Expire, Freed
<1>2. Applied' = Applied /\ Head1(p)' = Head1(p)
  BY <1>1 DEF Applied, Head1
<1>3. \/ lease' = lease /\ strayed' = strayed
      \/ lease = p /\ lease' = Free /\ strayed' = strayed \cup InHand(p)
  BY DEF Unlock, Told, Expire, Freed
<1>4. Alongside(p) /\ Grows
  BY <1>1, <1>3, FreeAssumption DEF Alongside, Grows
<1>5. OwnOK(p)'
  <2>1. OwnOK(p)
    BY DEF DataInv
  <2>2. Dealing(p)' = Dealing(p) /\ Once(p)' = Once(p)
    BY <1>1 DEF Dealing, Once
  <2>3. CASE lease' = lease /\ strayed' = strayed
    <3>1. FitUp(p)' = FitUp(p) /\ FitDown(p)' = FitDown(p) /\ Ahead(p)' = Ahead(p)
      BY <1>1, <1>2, <2>3 DEF FitUp, FitDown, Ahead
    <3> QED
      BY <1>1, <1>2, <2>1, <2>2, <2>3, <3>1 DEF OwnOK
  <2>4. CASE lease' = Free /\ strayed' = strayed \cup InHand(p)
    <3>1. phase[p] \in {"load", "body", "record"} => Head1(p) \in strayed'
      BY <2>4 DEF InHand
    <3> QED
      BY <1>1, <1>2, <2>1, <2>2, <2>4, <3>1, FreeAssumption DEF OwnOK
  <2> QED
    BY <1>3, <2>3, <2>4
<1> QED
  BY <1>1, <1>2, <1>4, <1>5, DataStill

\* A body that timed out gets its work done: outside a transaction.
LEMMA ZombieData ==
  ASSUME RunInv, DataInv, NEW z \in zombies, ZombieCommits(z)
  PROVE  DataInv'
<1> USE DEF RunInv, RunTypes, DataTypes
<1>1. z[1] \in File \ Transactional /\ z[2] \in {"up", "down"}
  OBVIOUS
<1>2. PICK f \in File \ Transactional : f = z[1]
  BY <1>1
<1>3. /\ \A g \in File \ {f} : effect'[g] = effect[g]
      /\ excused' = excused \cup {f}
  BY <1>1, <1>2, TakesFacts DEF ZombieCommits
<1>4. UNCHANGED <<log, lease, phase, way, todo, seen, forced, strayed>>
  BY DEF ZombieCommits, lockVars, runVars, lossVars
<1>5. Applied' = Applied
  BY <1>4 DEF Applied
<1>6. ASSUME NEW p \in Run PROVE OwnOK(p)'
  <2>1. OwnOK(p) /\ Dealing(p)' = Dealing(p) /\ Once(p)' = Once(p) /\ Head1(p)' = Head1(p)
    BY <1>4 DEF DataInv, Dealing, Once, Head1
  <2>2. FitUp(p)' = FitUp(p) /\ FitDown(p)' = FitDown(p)
    BY <1>4, <1>5 DEF FitUp, FitDown
  <2>3. phase[p] = "record" => Head1(p) \in File
    BY HeadFacts DEF Tracing, Dealing
  <2>4. Ahead(p) => Ahead(p)'
    BY <1>3, <1>4, <1>5, <2>1, <2>3 DEF Ahead
  <2> QED
    BY <1>4, <2>1, <2>2, <2>4 DEF OwnOK
<1>7. ASSUME NEW g \in File, g \notin forced \cup strayed PROVE ExactFor(g)'
  <2>1. ExactFor(g)
    BY <1>7 DEF DataInv, Exact, ExactFor
  <2>2. Unrecorded(g)' = Unrecorded(g)
    BY <1>4 DEF Unrecorded, Head1
  <2> QED
    BY <1>3, <1>5, <2>1, <2>2 DEF ExactFor
<1> QED
  BY <1>4, <1>6, <1>7 DEF DataInv, Exact, ExactFor

LEMMA DataSame ==
  ASSUME DataInv, UNCHANGED <<log, effect, lease, runVars, lossVars, forced, excused>>
  PROVE  DataInv'
<1>1. Applied' = Applied
  BY DEF Applied
<1> QED
  BY <1>1 DEF DataInv, OwnOK, Dealing, Once, FitUp, FitDown, Ahead, Head1, Exact, Unrecorded,
              runVars, lossVars

LEMMA DataStep ==
  ASSUME RunInv, DataInv, [Next]_vars
  PROVE  DataInv'
<1>1. ASSUME NEW p \in Run, Work(p) PROVE DataInv'
  BY <1>1, PlanData, QuietData, SkipData, BodyCommitData, RecordData, TxCommitData, LastData
     DEF Work
<1>2. ASSUME NEW p \in Run, Mishap(p) PROVE DataInv'
  BY <1>2, QuietData, BodyFailsData, RecordFailsData, LastData, LossData DEF Mishap
<1>3. ASSUME NEW p \in Run, NEW c \in Jobs, NEW label \in 0..MaxBatch, Start(p, c, label)
      PROVE  DataInv'
  BY <1>3, StartData
<1>4. CASE (\E f \in File : FileArrives(f)) \/ Peek \/ UNCHANGED vars
  BY <1>4, DataSame DEF FileArrives, Peek, vars, dataVars, lockVars, pastVars
<1>5. CASE (\E z \in zombies : ZombieCommits(z)) \/ (\E p \in Run : Expire(p))
  BY <1>5, ZombieData, LossData
<1> QED
  BY <1>1, <1>2, <1>3, <1>4, <1>5 DEF Next

\* A migration's changes are in the data exactly when the changelog says so.  The
\* exceptions are those that the code cannot rule out (no transaction, and the body
\* and its record came apart; or a forced file), and what a run that lost its lock
\* had in hand then, or began before it was told: whatever is run beside it, it
\* does no harm to any other file.
THEOREM DataMatchesChangelog == Spec => []Exact
<1>1. Init => DataInv
  BY DEF Init, DataInv, OwnOK, Dealing, Exact, Applied
<1>2. RunInv /\ DataInv /\ [Next]_vars => DataInv'
  BY DataStep
<1>3. DataInv => Exact
  BY DEF DataInv
<1>4. QED
  BY <1>1, <1>2, <1>3, RunInvariant, PTL DEF Spec

-----------------------------------------------------------------------------
(* What a step of a run may do, from the invariant. *)

LEMMA OwnWork ==
  ASSUME RunTypes, NEW q \in Run, Work(q) \/ Mishap(q)
  PROVE  \A p \in Run \ {q} : phase'[p] = phase[p]
<1> USE DEF RunTypes, Goes
<1>1. CASE Record(q) \/ TxCommit(q) \/ Trace(q)
  BY <1>1 DEF Record, TxCommit, Trace, Advance, FailsAfter
<1>2. CASE PlanUp(q) \/ PlanDown(q) \/ Stop(q) \/ Skip(q) \/ Load(q) \/ StartBody(q)
              \/ BodyCommit(q)
  BY <1>2 DEF PlanUp, PlanDown, Stop, Skip, Load, StartBody, BodyCommit
<1>3. CASE SequenceDone(q) \/ End(q) \/ Crash(q)
  BY <1>3 DEF SequenceDone, End, Crash, Reset
<1>4. CASE LoadFails(q) \/ BodyFails(q) \/ Timeout(q) \/ RecordFails(q)
  BY <1>4 DEF LoadFails, BodyFails, Timeout, RecordFails
<1>5. CASE Unlock(q) \/ Told(q)
  BY <1>5 DEF Unlock, Told, runVars
<1> QED
  BY <1>1, <1>2, <1>3, <1>4, <1>5 DEF Work, Mishap

LEMMA ActsItself ==
  ASSUME RunTypes, [Next]_vars, NEW p \in Run, Acts(p)
  PROVE  Work(p) \/ Mishap(p) \/ \E c \in Jobs, label \in 0..MaxBatch : Start(p, c, label)
<1>1. ASSUME NEW q \in Run, Work(q) \/ Mishap(q) PROVE q = p
  BY <1>1, OwnWork DEF Acts
<1>2. ASSUME NEW q \in Run, NEW c \in Jobs, NEW label \in 0..MaxBatch, Start(q, c, label)
      PROVE  q = p
  BY <1>2 DEF Start, Acts, RunTypes
<1>3. phase' # phase
  BY DEF Acts
<1>4. ~((\E f \in File : FileArrives(f)) \/ Peek \/ (\E q \in Run : Expire(q))
        \/ UNCHANGED vars \/ \E z \in zombies : ZombieCommits(z))
  BY <1>3 DEF FileArrives, Peek, Expire, ZombieCommits, vars, runVars
<1> QED
  BY <1>1, <1>2, <1>4 DEF Next

LEMMA WritesItself ==
  ASSUME RunTypes, [Next]_vars, NEW p \in Run, Acts(p), log' # log
  PROVE  Record(p) \/ TxCommit(p) \/ Trace(p)
<1>1. CASE Work(p)
  BY <1>1 DEF Work, PlanUp, PlanDown, Stop, Skip, Load, StartBody, BodyCommit, SequenceDone,
              End, dataVars
<1>2. CASE Mishap(p)
  BY <1>2 DEF Mishap, LoadFails, BodyFails, Timeout, RecordFails, Crash, Unlock, Told,
              dataVars
<1>3. CASE \E c \in Jobs, label \in 0..MaxBatch : Start(p, c, label)
  BY <1>3 DEF Start, dataVars
<1> QED
  BY <1>1, <1>2, <1>3, ActsItself

\* Only the file at hand comes to be applied, by an `up`; only the file at hand
\* is reverted, by a `down`.
LEMMA AppliesItself ==
  ASSUME RunInv, [Next]_vars, NEW p \in Run, NEW f \in File, Acts(p), Applies(f) \/ Reverts(f)
  PROVE  /\ Dealing(p) /\ 1 \in DOMAIN todo[p] /\ f = todo[p][1]
         /\ Applies(f) => way[p] = "up" /\ f \notin Applied
         /\ Reverts(f) => way[p] = "down"
<1> USE DEF RunInv, DataTypes
<1>1. log' # log /\ (Applies(f) => f \notin Applied) /\ (Reverts(f) => f \in Applied)
  BY DEF Applies, Reverts, Applied
<1>2. Record(p) \/ TxCommit(p) \/ Trace(p)
  BY <1>1, WritesItself
<1>3. PICK g, b : g = Head1(p) /\ b = batch[p]
  OBVIOUS
<1>4. /\ g \in File /\ g = todo[p][1] /\ 1 \in DOMAIN todo[p] /\ b \in Nat
      /\ way[p] = "up" => g \in files
      /\ way[p] \in {"up", "down"}
  <2>1. Tracing(p) /\ phase[p] # "next"
    BY <1>2 DEF Record, TxCommit, Trace, Tracing, Dealing
  <2> QED
    BY <1>3, <2>1, HeadFacts
<1>5. CASE Trace(p)
  <2>1. MarkFailed(g, b)
    BY <1>1, <1>3, <1>5 DEF Trace
  <2>2. log' = log \/ log' = [log EXCEPT ![g] = [status |-> "failed", batch |-> b]]
    BY <2>1 DEF MarkFailed
  <2>3. g \notin Applied \/ log' = log
    BY <2>1 DEF MarkFailed
  <2> QED
    BY <1>1, <1>4, <2>2, <2>3 DEF Applies, Reverts, Applied
<1>6. CASE Record(p) \/ TxCommit(p)
  <2>1. MarkDone(p) /\ files' = files /\ Dealing(p)
    BY <1>6 DEF Record, TxCommit, Dealing
  <2>2. CASE way[p] = "up"
    <3>1. log' = [log EXCEPT ![g] = [status |-> "applied", batch |-> b]]
      BY <1>3, <2>1, <2>2 DEF MarkDone, MarkApplied
    <3>2. log'[g].status = "applied" /\ \A h \in File \ {g} : log'[h] = log[h]
      BY <1>4, <3>1
    <3>3. f = g /\ ~Reverts(f)
      BY <3>2 DEF Applies, Reverts
    <3> QED
      BY <1>1, <1>4, <2>1, <2>2, <3>3
  <2>3. CASE way[p] = "down"
    <3>1. log' = [log EXCEPT ![g].status = "reverted"]
      BY <1>1, <1>3, <2>1, <2>3 DEF MarkDone, MarkReverted
    <3>2. log'[g].status = "reverted" /\ \A h \in File \ {g} : log'[h] = log[h]
      BY <1>4, <3>1
    <3>3. f = g /\ ~Applies(f)
      BY <3>2 DEF Applies, Reverts
    <3> QED
      BY <1>1, <1>4, <2>1, <2>3, <3>3
  <2> QED
    BY <1>4, <2>2, <2>3
<1> QED
  BY <1>2, <1>5, <1>6

\* `ordered`: a single-file run never records a migration while an earlier one is
\* pending that it could have seen (#assertUpNotBlocked), however long after its
\* check it records it.
THEOREM OrderedRuns == Spec => OrderedStep
<1>1. ASSUME RunInv, [Next]_vars, NEW p \in Run, NEW f \in File,
             Acts(p) /\ job[p].ordered /\ Applies(f) /\ ~lost
      PROVE  \A g \in 1..f - 1 : g \in Applied \/ (g \notin FirstFiles /\ log[g].status = "none")
  <2>1. /\ Dealing(p) /\ 1 \in DOMAIN todo[p] /\ f = todo[p][1]
        /\ way[p] = "up" /\ f \notin Applied
    BY <1>1, AppliesItself
  <2>2. UpOrdered(p)
    BY <1>1, <2>1 DEF RunInv, PlansInv, PlanOK
  <2> QED
    BY <1>1, <2>1, <2>2 DEF UpOrdered
<1>2. RunInv /\ [Next]_vars =>
        [\A p \in Run, f \in File :
           Acts(p) /\ job[p].ordered /\ Applies(f) /\ ~lost =>
             \A g \in 1..f - 1 :
               g \in Applied \/ (g \notin FirstFiles /\ log[g].status = "none")]_vars
  BY <1>1
<1>3. QED
  BY <1>2, RunInvariant, PTL DEF Spec, OrderedStep

\* onOutOfOrder "error": nothing is recorded that sorts before an applied
\* migration (#assertOrderIntact), though the check is made once, before the
\* first of the migrations.
THEOREM OrderIsKept == Spec => OrderKept
<1>1. ASSUME RunInv, [Next]_vars, NEW p \in Run, NEW f \in File,
             Acts(p), job[p].policy = "error", job[p].op = "up",
             job[p].ordered \/ job[p].by # "one", Applies(f), ~lost
      PROVE  \A g \in Applied : g < f
  <2>1. /\ Dealing(p) /\ 1 \in DOMAIN todo[p] /\ f = todo[p][1]
        /\ way[p] = "up" /\ f \notin Applied
    BY <1>1, AppliesItself
  <2>2. UpIntact(p)
    BY <1>1, <2>1 DEF RunInv, PlansInv, PlanOK
  <2> QED
    BY <1>1, <2>1, <2>2 DEF UpIntact
<1>2. RunInv /\ [Next]_vars =>
        [\A p \in Run, f \in File :
           Acts(p) /\ job[p].policy = "error" /\ job[p].op = "up"
             /\ (job[p].ordered \/ job[p].by # "one") /\ Applies(f) /\ ~lost =>
             \A g \in Applied : g < f]_vars
  BY <1>1
<1>3. QED
  BY <1>2, RunInvariant, PTL DEF Spec, OrderKept

\* What a rollback undoes has nothing newer left on top of it: an ordered
\* rollback, one of the last steps, a plain redo; and one of the last batch, as
\* long as the numbers of batches are the program's own.
THEOREM NewestRevertedFirst == Spec => RevertsNewestFirst
<1>1. ASSUME RunInv, [Next]_vars, NEW p \in Run, NEW f \in File,
             Acts(p), NewestFirst(job[p]), Reverts(f), ~lost,
             labelled => job[p].by # "batch"
      PROVE  NewerThan(f) = {}
  <2>1. Dealing(p) /\ 1 \in DOMAIN todo[p] /\ f = todo[p][1] /\ way[p] = "down"
    BY <1>1, AppliesItself
  <2>2. DownNewestFirst(p)
    BY <1>1, <2>1 DEF RunInv, PlansInv, PlanOK
  <2>3. DOMAIN todo[p] \subseteq Nat \ {0}
    BY <1>1 DEF RunInv, DataTypes
  <2>4. \A g \in NewerThan(f) : \E j \in DOMAIN todo[p] : j < 1
    BY <1>1, <2>1, <2>2 DEF DownNewestFirst
  <2>5. \A j \in DOMAIN todo[p] : ~(j < 1)
    BY <2>3
  <2> QED
    BY <2>4, <2>5
<1>2. RunInv /\ [Next]_vars =>
        [\A p \in Run, f \in File :
           /\ Acts(p) /\ NewestFirst(job[p]) /\ Reverts(f) /\ ~lost
           /\ labelled => job[p].by # "batch"
           => NewerThan(f) = {}]_vars
  BY <1>1
<1>3. QED
  BY <1>2, RunInvariant, PTL DEF Spec, RevertsNewestFirst

\* A new run's batch number is one that no record has ever had, even when every
\* record that had it has been given another since (getMaxBatch).
THEOREM BatchesAreNew == Spec => BatchNeverReused
<1>1. ASSUME RunInv, [Next]_vars, NEW p \in Run, Numbered(p), ~lost, ~labelled
      PROVE  batch'[p] \notin used
  <2>1. Acts(p) /\ phase[p] = "plan" /\ phase'[p] = "next" /\ way[p] = "up" /\ batch[p] = 0
    BY <1>1 DEF Numbered, Acts
  <2>2. Work(p) \/ Mishap(p) \/ \E c \in Jobs, label \in 0..MaxBatch : Start(p, c, label)
    BY <1>1, <2>1, ActsItself DEF RunInv
  <2>3. PlanUp(p)
    BY <1>1, <2>1, <2>2 DEF Work, Mishap, PlanDown, Stop, Skip, Load, StartBody, BodyCommit,
       Record, Advance, FailsAfter, Failed, Goes, TxCommit, Trace, SequenceDone, End, LoadFails,
       BodyFails, Timeout, RecordFails, Crash, Unlock, Told, runVars, Start, Reset, RunInv, RunTypes
  <2>4. batch'[p] = NextBatch
    BY <1>1, <2>1, <2>3 DEF PlanUp, Goes, BaseBatch, RunInv, RunTypes, DataTypes
  <2>5. ASSUME NextBatch \in used PROVE FALSE
    <3>1. PICK f \in File : NextBatch <= log[f].batch
      BY <1>1, <2>5 DEF RunInv, PlansInv, NumbersInv
    <3>2. log[f].batch < NextBatch /\ log[f].batch \in Nat /\ NextBatch \in Nat
      BY <1>1, NextBatchFacts DEF RunInv, DataTypes
    <3> QED
      BY <3>1, <3>2
  <2> QED
    BY <2>4, <2>5
<1>2. RunInv /\ [Next]_vars =>
        [\A p \in Run : Numbered(p) /\ ~lost /\ ~labelled => batch'[p] \notin used]_vars
  BY <1>1
<1>3. QED
  BY <1>2, RunInvariant, PTL DEF Spec, BatchNeverReused
=============================================================================
