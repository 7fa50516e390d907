----------------------- MODULE BackgroundLanes_proofs -----------------------
(***************************************************************************)
(* Proofs about BackgroundLanes.                                           *)
(***************************************************************************)
EXTENDS BackgroundLanes, FiniteSetTheorems, TLAPS

-----------------------------------------------------------------------------
(* Types *)

\* A lane that has claimed has a partition and a token.
GoodLane(r) ==
  /\ r \in LaneState
  /\ IF r.pc \in {"idle", "claim"} THEN r.part = 0 /\ r.token = NoToken
                                  ELSE r.part \in Part /\ r.token \in Token

LanesGood == lane \in [Lane -> LaneState] /\ \A l \in Lane : GoodLane(lane[l])

\* An open partition may fail once more.
FailureInv == \A p \in Part : status[p] \in OpenPartition => failures[p] < MaxSliceFailures

TypeInv == TypeOK /\ LanesGood /\ FailureInv

\* A finite set of numbers that is not empty has a greatest element: the smallest
\* counterexample, less one of its elements, would be a smaller one.
LEMMA FiniteHasLast ==
  ASSUME NEW S \in SUBSET Nat, IsFiniteSet(S), S # {}
  PROVE  Last(S) \in S /\ \A e \in S : e <= Last(S)
<1> DEFINE HasLast(X) == \E m \in X : \A e \in X : e <= m
           T == {X \in FiniteSubsetsOf(Nat) : X # {} /\ ~HasLast(X)}
<1>1. SUFFICES ASSUME T # {} PROVE FALSE
  <2>1. SUFFICES HasLast(S) BY DEF Last
  <2>2. T = {} OBVIOUS
  <2> QED BY <2>2 DEF FiniteSubsetsOf
<1>2. PICK X \in T : \A Y \in T : ~(<<Y, X>> \in StrictSubsetOrdering(Nat))
  <2>1. T \subseteq FiniteSubsetsOf(Nat) OBVIOUS
  <2>2. IsWellFoundedOn(StrictSubsetOrdering(Nat), FiniteSubsetsOf(Nat))
    BY FS_StrictSubsetOrderingWellFounded
  <2> HIDE DEF T
  <2> QED BY <2>1, <2>2, <1>1, WFMin
<1>3. X \in SUBSET Nat /\ IsFiniteSet(X) /\ X # {} /\ ~HasLast(X) BY DEF FiniteSubsetsOf
<1>4. PICK x \in X : TRUE BY <1>3
<1> DEFINE Y == X \ {x}
<1>5. IsFiniteSet(Y) BY <1>3, FS_Subset
<1>6. Y # {} BY <1>3, <1>4
<1>7. Y \in FiniteSubsetsOf(Nat) BY <1>3, <1>5 DEF FiniteSubsetsOf
<1>8. <<Y, X>> \in StrictSubsetOrdering(Nat) BY <1>3, <1>4 DEF StrictSubsetOrdering
<1>9. HasLast(Y) BY <1>2, <1>6, <1>7, <1>8
<1> QED BY <1>9, <1>3, <1>4

LEMMA BatchLast ==
  ASSUME TypeOK, NEW l \in Lane, ~Ended(l)
  PROVE  Last(lane[l].batch) \in lane[l].batch /\ \A d \in lane[l].batch : d <= Last(lane[l].batch)
<1>1. lane[l].batch \subseteq Doc /\ lane[l].limit \in 1..BatchSize BY DEF TypeOK, LaneState
<1>2. lane[l].batch \subseteq Nat /\ IsFiniteSet(lane[l].batch) BY <1>1, DocAssumption, FS_Subset
<1>3. Cardinality(lane[l].batch) # 0
  BY <1>1, <1>2, FS_CardinalityType, SettingsAssumption DEF Ended
<1>4. lane[l].batch # {} BY <1>3, FS_EmptySet
<1> QED BY <1>2, <1>4, FiniteHasLast

\* Where a checkpoint moves the cursor to: never back.
LEMMA NextFromType ==
  ASSUME TypeOK, NEW l \in Lane
  PROVE  /\ NextFrom(l) \in Nat
         /\ (\A d \in lane[l].batch : d > lane[l].from) => NextFrom(l) >= lane[l].from
<1>1. lane[l].from \in Nat /\ lane[l].batch \subseteq Nat BY DocAssumption DEF TypeOK, LaneState
<1>2. CASE Ended(l) BY <1>1, <1>2 DEF NextFrom
<1>3. CASE ~Ended(l)
  <2>1. Last(lane[l].batch) \in lane[l].batch BY <1>3, BatchLast
  <2> QED BY <1>1, <1>3, <2>1 DEF NextFrom
<1> QED BY <1>2, <1>3

LEMMA IdleGood == GoodLane(Idle)
BY TokenAssumption, SettingsAssumption DEF GoodLane, Idle, LaneState, Unread, Steps, Slot

LEMMA InitTypeInv == Init => TypeInv
<1> SUFFICES ASSUME Init PROVE TypeInv OBVIOUS
<1>1. LanesGood BY IdleGood DEF Init, LanesGood, GoodLane
<1> QED
  BY <1>1, SettingsAssumption, BoundsAssumption
  DEF Init, TypeInv, TypeOK, FailureInv, LanesGood, OpenPartition

\* What a lane goes on with is all that a step of its has to answer for.
LEMMA GoesGood ==
  ASSUME LanesGood, NEW l \in Lane, NEW r, GoodLane(r), Goes(l, r)
  PROVE  LanesGood'
BY DEF LanesGood, GoodLane, Goes

\* A lane that has claimed: only then has it a partition.
LEMMA BusyGood ==
  ASSUME LanesGood, NEW l \in Lane, lane[l].pc \notin {"idle", "claim"}
  PROVE  GoodLane(lane[l]) /\ lane[l].part \in Part /\ lane[l].token \in Token
BY DEF LanesGood, GoodLane

LEMMA SnapshotType ==
  ASSUME TypeOK, NEW S
  PROVE  Snapshot(S) \in [Doc -> Seen \cup {Unread}]
BY DEF TypeOK, Snapshot, Seen

LEMMA HalvedType ==
  ASSUME NEW n \in 1..BatchSize
  PROVE  Halved(n) \in 1..BatchSize /\ Halved(n) <= n
BY SettingsAssumption DEF Halved

\* What a lane goes on with after a transaction that is tried again, or given up.
LEMMA TriedAgain ==
  ASSUME LanesGood, NEW l \in Lane, lane[l].pc = "write",
         NEW r, r \in {Retried(l), TooBig(l), [TooBig(l) EXCEPT !.unheard = TRUE]}
  PROVE  /\ GoodLane(r) /\ r.pc \in {"read", "release"}
         /\ r.part = lane[l].part /\ r.token = lane[l].token /\ r.from = lane[l].from
         /\ r.snap = lane[l].snap /\ r.good = lane[l].good
         /\ r \in {Retried(l), TooBig(l)} => r.unheard = lane[l].unheard
<1> DEFINE Again(s) == /\ GoodLane(s) /\ s.pc \in {"read", "release"}
                       /\ s.part = lane[l].part /\ s.token = lane[l].token
                       /\ s.from = lane[l].from /\ s.snap = lane[l].snap
                       /\ s.good = lane[l].good /\ s.unheard = lane[l].unheard
           n == lane[l].round + 1
           half == IF 2 * n > MaxRetries THEN Halved(lane[l].limit) ELSE lane[l].limit
<1>0. /\ lane[l] \in LaneState /\ lane[l].part \in Part /\ lane[l].token \in Token
      /\ lane[l].limit \in 1..BatchSize /\ lane[l].round \in 0..MaxRetries
      /\ lane[l].batch \subseteq Doc
  BY DEF LanesGood, GoodLane, LaneState
<1>1. Again(Retried(l))
  <2>1. Again([lane[l] EXCEPT !.pc = "release", !.why = "error"])
    BY <1>0 DEF GoodLane, LaneState, Steps
  <2>2. lane[l].round # MaxRetries => n \in 0..MaxRetries BY <1>0, SettingsAssumption
  <2>3. half \in 1..BatchSize BY <1>0, HalvedType
  <2>4. Retried(l) = IF lane[l].round = MaxRetries
                     THEN [lane[l] EXCEPT !.pc = "release", !.why = "error"]
                     ELSE [lane[l] EXCEPT !.pc = "read", !.round = n, !.limit = half]
    BY <1>0 DEF Retried, LaneState
  <2> HIDE DEF half, n
  <2>5. lane[l].round # MaxRetries =>
          Again([lane[l] EXCEPT !.pc = "read", !.round = n, !.limit = half])
    BY <1>0, <2>2, <2>3 DEF GoodLane, LaneState, Steps
  <2> HIDE DEF Again
  <2> QED BY <2>1, <2>4, <2>5
<1>2. Again(TooBig(l))
  <2>1. Again([lane[l] EXCEPT !.pc = "read", !.limit = Halved(@)])
    BY <1>0, HalvedType DEF GoodLane, LaneState, Steps
  <2>2. Again([lane[l] EXCEPT !.pc = "read", !.failed = @ \cup lane[l].batch])
    BY <1>0 DEF GoodLane, LaneState, Steps
  <2> HIDE DEF Again
  <2> QED BY <1>1, <2>1, <2>2 DEF TooBig
<1>3. ASSUME NEW s, Again(s)
      PROVE  LET u == [s EXCEPT !.unheard = TRUE] IN
             /\ GoodLane(u) /\ u.pc \in {"read", "release"}
             /\ u.part = lane[l].part /\ u.token = lane[l].token /\ u.from = lane[l].from
             /\ u.snap = lane[l].snap /\ u.good = lane[l].good
  BY <1>3 DEF GoodLane, LaneState
<1>4. CASE r \in {Retried(l), TooBig(l)}
  <2>1. Again(r)
    <3> HIDE DEF Again
    <3> QED BY <1>1, <1>2, <1>4
  <2> QED BY <2>1
<1>5. CASE r \notin {Retried(l), TooBig(l)}
  <2>1. r = [TooBig(l) EXCEPT !.unheard = TRUE] BY <1>5
  <2> HIDE DEF Again
  <2> QED BY <1>2, <1>3, <1>5, <2>1
<1> QED BY <1>4, <1>5

LEMMA TxnAgain ==
  ASSUME LanesGood, NEW l \in Lane, TxnRetry(l) \/ TxnTooBig(l)
  PROVE  /\ lane[l].pc = "write" /\ txn
         /\ \E r \in {Retried(l), TooBig(l), [TooBig(l) EXCEPT !.unheard = TRUE]} : Goes(l, r)
<1>1. InTxn(l) BY DEF TxnRetry, TxnTooBig
<1>2. Goes(l, Retried(l)) \/ Goes(l, TooBig(l)) \/ Goes(l, [TooBig(l) EXCEPT !.unheard = TRUE])
  BY Zenon DEF TxnRetry, TxnTooBig
<1> QED BY <1>1, <1>2 DEF InTxn

LEMMA AfterBatchGood ==
  ASSUME LanesGood, TypeOK, NEW l \in Lane, lane[l].pc \notin {"idle", "claim"}
  PROVE  GoodLane(AfterBatch(l))
<1>1. GoodLane(lane[l]) BY DEF LanesGood
<1>2. NextFrom(l) \in Nat BY NextFromType
<1>3. \A pc \in {"budget", "control"} :
        GoodLane([lane[l] EXCEPT !.pc = pc, !.from = NextFrom(l), !.worked = TRUE,
                                 !.unheard = FALSE])
  BY <1>1, <1>2 DEF GoodLane, LaneState, Steps
<1> QED BY <1>3, IdleGood DEF AfterBatch

LEMMA LaneStepGood ==
  ASSUME TypeInv, NEW l \in Lane, Step(l) \/ Fails(l)
  PROVE  LanesGood'
<1>0. LanesGood /\ GoodLane(lane[l]) /\ TypeOK BY DEF TypeInv, LanesGood
<1>1. CASE StartSlice(l)
  BY <1>0, <1>1, GoesGood DEF GoodLane, LaneState, Steps, StartSlice
<1>2. CASE NoClaim(l)
  BY <1>0, <1>2, GoesGood, IdleGood DEF NoClaim
<1>3. ASSUME NEW s \in Slot, ClaimCollides(l, s) PROVE LanesGood'
  BY <1>0, <1>3, GoesGood DEF GoodLane, LaneState, Steps, ClaimCollides
<1>4. ASSUME NEW p \in Part, NEW s \in Slot, NEW t \in Token, ClaimOne(l, p, s, t) PROVE LanesGood'
  <2> DEFINE r == [Idle EXCEPT !.pc = "control", !.part = p, !.token = t, !.from = cursor[p]]
  <2>1. cursor[p] \in Nat BY <1>0 DEF TypeOK
  <2>2. Idle \in LaneState /\ Idle.part = 0 BY IdleGood DEF GoodLane, Idle
  <2>3. r \in LaneState BY <2>1, <2>2 DEF LaneState, Steps
  <2>4. r.pc = "control" /\ r.part = p /\ r.token = t BY <2>2 DEF LaneState
  <2>5. GoodLane(r) BY <2>3, <2>4 DEF GoodLane
  <2>6. Goes(l, r) BY <1>4 DEF ClaimOne
  <2> QED BY <1>0, <2>5, <2>6, GoesGood
<1>5. CASE GoOn(l)
  <2>1. PICK n \in lane[l].limit .. BatchSize :
          Goes(l, [lane[l] EXCEPT !.pc = "read", !.good = {}, !.failed = {}, !.left = {},
                                  !.round = 0, !.limit = n])
    BY <1>5 DEF GoOn
  <2>2. lane[l].limit \in 1..BatchSize BY <1>0 DEF GoodLane, LaneState
  <2>3. n \in 1..BatchSize BY <2>2, SettingsAssumption
  <2>4. lane[l].pc = "control" BY <1>5 DEF GoOn
  <2>5. GoodLane([lane[l] EXCEPT !.pc = "read", !.good = {}, !.failed = {}, !.left = {},
                                 !.round = 0, !.limit = n])
    <3>1. 0 \in 0..MaxRetries BY SettingsAssumption
    <3> QED BY <1>0, <2>3, <2>4, <3>1 DEF GoodLane, LaneState, Steps
  <2> QED BY <1>0, <2>1, <2>5, GoesGood
<1>6. CASE Yield(l)
  BY <1>0, <1>6, GoesGood DEF GoodLane, LaneState, Steps, Yield
<1>7. ASSUME NEW n \in 1..BatchSize, Read(l, n) PROVE LanesGood'
  <2> DEFINE read == FirstOf(Matching(l), n)
             r == [lane[l] EXCEPT !.pc = "write", !.limit = n, !.batch = read,
                                  !.snap = Snapshot(read \ lane[l].failed)]
  <2>1. lane[l].pc = "read" /\ Goes(l, r) BY <1>7 DEF Read
  <2>2. lane[l].part \in Part BY <1>0, <2>1 DEF GoodLane
  <2>3. read \subseteq Doc BY <2>2, ScopeAssumption DEF FirstOf, Matching, At
  <2>4. Snapshot(read \ lane[l].failed) \in [Doc -> Seen \cup {Unread}] BY <1>0, SnapshotType
  <2>5. GoodLane(r) BY <1>0, <2>1, <2>3, <2>4 DEF GoodLane, LaneState, Steps
  <2> QED BY <1>0, <2>1, <2>5, GoesGood
<1>8. CASE Write(l)
  <2> DEFINE all == Matched(l) = Pending(l)
             r == [lane[l] EXCEPT !.pc = IF all THEN "checkpoint" ELSE "reread",
                                  !.good = IF all THEN @ \cup Matched(l) ELSE @,
                                  !.failed = @ \cup (Todo(l) \cap Poison)]
  <2>1. lane[l].pc = "write" /\ Goes(l, r) BY <1>8 DEF Write
  <2>2. Matched(l) \subseteq Doc /\ Todo(l) \subseteq Doc BY DEF Matched, Pending, Todo
  <2> HIDE DEF all
  <2>3. GoodLane(r) BY <1>0, <2>1, <2>2 DEF GoodLane, LaneState, Steps
  <2> QED BY <1>0, <2>1, <2>3, GoesGood
<1>9. CASE Reread(l)
  <2> DEFINE again == Stale(l) # {} /\ lane[l].round < MaxRetries
             r == [lane[l] EXCEPT !.pc = IF again THEN "write" ELSE "checkpoint",
                                  !.good = @ \cup Counted(l),
                                  !.snap = IF again THEN Snapshot(Stale(l)) ELSE Idle.snap,
                                  !.round = IF again THEN @ + 1 ELSE @,
                                  !.left = IF again THEN @ ELSE Stale(l)]
  <2>1. lane[l].pc = "reread" /\ Goes(l, r) BY <1>9 DEF Reread
  <2>2. Counted(l) \subseteq Doc /\ Stale(l) \subseteq Doc BY DEF Counted, Stale, Pending, Todo
  <2>3. Snapshot(Stale(l)) \in [Doc -> Seen \cup {Unread}] BY <1>0, SnapshotType
  <2>4. Idle.snap \in [Doc -> Seen \cup {Unread}] BY IdleGood DEF GoodLane, LaneState
  <2>5. again => lane[l].round + 1 \in 0..MaxRetries
    BY <1>0, SettingsAssumption DEF GoodLane, LaneState
  <2> HIDE DEF again
  <2>6. GoodLane(r) BY <1>0, <2>1, <2>2, <2>3, <2>4, <2>5 DEF GoodLane, LaneState, Steps
  <2> QED BY <1>0, <2>1, <2>6, GoesGood
<1>10. CASE Checkpoint(l)
  BY <1>0, <1>10, AfterBatchGood, GoesGood DEF Checkpoint
<1>11. CASE CheckpointFenced(l)
  BY <1>0, <1>11, GoesGood DEF GoodLane, LaneState, Steps, CheckpointFenced
<1>12. CASE TxnCommit(l)
  BY <1>0, <1>12, AfterBatchGood, GoesGood DEF TxnCommit, Commits, InTxn
<1>13. ASSUME NEW d \in Doc, TxnDocError(l, d) PROVE LanesGood'
  <2>1. lane[l].pc = "write" /\ Goes(l, [lane[l] EXCEPT !.pc = "read", !.failed = @ \cup {d}])
    BY <1>13 DEF TxnDocError, InTxn
  <2>2. GoodLane([lane[l] EXCEPT !.pc = "read", !.failed = @ \cup {d}])
    BY <1>0, <2>1 DEF GoodLane, LaneState, Steps
  <2> QED BY <1>0, <2>1, <2>2, GoesGood
<1>14. CASE TxnRetry(l) \/ TxnTooBig(l)
  <2>1. PICK r \in {Retried(l), TooBig(l), [TooBig(l) EXCEPT !.unheard = TRUE]} : Goes(l, r)
    BY <1>0, <1>14, TxnAgain
  <2>2. GoodLane(r) BY <1>0, <1>14, TxnAgain, TriedAgain
  <2> QED BY <1>0, <2>1, <2>2, GoesGood
<1>15. CASE TxnInTheWay(l)
  BY <1>0, <1>15, GoesGood DEF GoodLane, LaneState, Steps, TxnInTheWay, InTxn
<1>16. CASE Budget(l)
  <2>1. lane[l].pc = "budget" BY <1>16 DEF Budget
  <2>2. GoodLane([lane[l] EXCEPT !.pc = "release", !.why = "document"])
    BY <1>0, <2>1 DEF GoodLane, LaneState, Steps
  <2>3. GoodLane([lane[l] EXCEPT !.pc = "control"])
    BY <1>0, <2>1 DEF GoodLane, LaneState, Steps
  <2> QED BY <1>0, <1>16, <2>2, <2>3, IdleGood, GoesGood DEF Budget
<1>17. CASE Release(l)
  BY <1>0, <1>17, IdleGood, GoesGood DEF GoodLane, LaneState, Steps, Release
<1>18. CASE FailSlice(l)
  BY <1>0, <1>18, IdleGood, GoesGood DEF FailSlice
<1>19. CASE FailPartition(l)
  BY <1>0, <1>19, GoesGood DEF GoodLane, LaneState, Steps, FailPartition
<1>20. CASE FailState(l)
  BY <1>0, <1>20, IdleGood, GoesGood DEF FailState
<1>21. ASSUME NEW S \in SUBSET Doc, WriteFails(l, S) PROVE LanesGood'
  BY <1>0, <1>21, GoesGood DEF GoodLane, LaneState, Steps, WriteFails
<1>22. CASE CheckpointFails(l)
  BY <1>0, <1>22, GoesGood DEF GoodLane, LaneState, Steps, CheckpointFails
<1>23. CASE TxnUnknown(l)
  BY <1>0, <1>23, GoesGood DEF GoodLane, LaneState, Steps, TxnUnknown, InTxn
<1>25. CASE ReleaseFails(l)
  <2>1. lane[l].pc = "release" BY <1>25 DEF ReleaseFails
  <2>2. GoodLane([lane[l] EXCEPT !.pc = "failSlice"]) BY <1>0, <2>1 DEF GoodLane, LaneState, Steps
  <2> QED BY <1>0, <1>25, <2>2, IdleGood, GoesGood DEF ReleaseFails
<1>26. CASE Crash(l)
  BY <1>0, <1>26, IdleGood, GoesGood DEF Crash
<1> QED
  BY <1>1, <1>2, <1>3, <1>4, <1>5, <1>6, <1>7, <1>8, <1>9, <1>10, <1>11, <1>12, <1>13, <1>14,
     <1>15, <1>16, <1>17, <1>18, <1>19, <1>20, <1>21, <1>22, <1>23, <1>25, <1>26
  DEF Step, Fails

PartOK ==
  /\ status \in [Part -> OpenPartition \cup {"done", "failed", "superseded"}]
  /\ cursor \in [Part -> Nat]
  /\ lease \in [Part -> Lease \cup {NoLease}]
  /\ failures \in [Part -> 0..MaxSliceFailures]
  /\ migrated \in [Part -> Nat]
  /\ bad \in [Part -> SUBSET Doc]
  /\ FailureInv

RestOK ==
  /\ doc \in [Doc -> [shape: {"old", "new", "gone"}, val: Nat, rev: Nat]]
  /\ ctl \in {"running", "paused", "failed", "stale"}
  /\ txn \in BOOLEAN
  /\ faults \in 0..MaxFaults
  /\ rewritten \subseteq Doc /\ upgraded \subseteq Doc /\ passed \subseteq Doc

LEMMA TypeInvParts == TypeInv <=> (LanesGood /\ PartOK /\ RestOK)
BY DEF TypeInv, TypeOK, LanesGood, PartOK, RestOK

LEMMA FaultType == ASSUME faults \in 0..MaxFaults, Fault PROVE faults' \in 0..MaxFaults
BY BoundsAssumption DEF Fault

LEMMA UnleasedTypes ==
  ASSUME PartOK, NEW l \in Lane
  PROVE  /\ Unleased(l) \in [Part -> Lease \cup {NoLease}]
         /\ Reaped \in [Part -> Lease \cup {NoLease}]
BY DEF PartOK, Unleased, Reaped

\* A lane that holds its lease has one: its token is not NoToken.
LEMMA HeldLease ==
  ASSUME PartOK, NEW l \in Lane, lane[l].part \in Part, lane[l].token \in Token,
         lease[At(l)].token = lane[l].token
  PROVE  lease[At(l)] \in Lease
BY TokenAssumption DEF PartOK, NoLease, At

LEMMA SaveBatchTypes ==
  ASSUME TypeInv, NEW l \in Lane, lane[l].pc \notin {"idle", "claim"},
         NEW done \in SUBSET Doc, SaveBatch(l, done)
  PROVE  PartOK' /\ passed' \subseteq Doc
<1> DEFINE p == At(l)
<1>0. LanesGood /\ PartOK /\ RestOK /\ TypeOK BY TypeInvParts DEF TypeInv
<1>1. /\ lane[l].part \in Part /\ lane[l].token \in Token
      /\ lane[l].failed \subseteq Doc /\ lane[l].left \subseteq Doc
  BY <1>0, BusyGood DEF LanesGood, LaneState
<1>2. p \in Part BY <1>1 DEF At
<1>3. NextFrom(l) \in Nat BY <1>0, NextFromType
<1>4. Cardinality(done) \in Nat BY DocAssumption, FS_Subset, FS_CardinalityType
<1>5. lease[p] \in Lease BY <1>0, <1>1, HeldLease DEF SaveBatch, Holds
<1>6. [lease[p] EXCEPT !.live = TRUE] \in Lease BY <1>5 DEF Lease
<1>7. /\ cursor' \in [Part -> Nat]
      /\ migrated' \in [Part -> Nat]
      /\ bad' \in [Part -> SUBSET Doc]
      /\ failures' \in [Part -> 0..MaxSliceFailures]
      /\ status' \in [Part -> OpenPartition \cup {"done", "failed", "superseded"}]
  BY <1>0, <1>1, <1>2, <1>3, <1>4, SettingsAssumption DEF SaveBatch, PartOK
<1>8. lease' \in [Part -> Lease \cup {NoLease}] BY <1>0, <1>2, <1>6 DEF SaveBatch, PartOK
<1>9. FailureInv'
  BY <1>0, <1>2, SettingsAssumption DEF SaveBatch, PartOK, FailureInv, OpenPartition
<1>10. passed' \subseteq Doc BY <1>0, <1>1 DEF SaveBatch, RestOK
<1> QED BY <1>7, <1>8, <1>9, <1>10 DEF PartOK

\* A write of a lane leaves documents.
LEMMA AppliedType ==
  ASSUME TypeOK, NEW l \in Lane, NEW S \in SUBSET Todo(l)
  PROVE  Applied(l, S) \in [Doc -> [shape: {"old", "new", "gone"}, val: Nat, rev: Nat]]
<1>1. \A d \in S : lane[l].snap[d] \in Seen BY DEF TypeOK, LaneState, Todo
<1> QED BY <1>1 DEF TypeOK, Applied, Seen

LEMMA LaneStepTypes ==
  ASSUME TypeInv, NEW l \in Lane, Step(l) \/ Fails(l)
  PROVE  PartOK' /\ RestOK'
<1> USE DEF partVars, pastVars
<1>0. LanesGood /\ PartOK /\ RestOK /\ TypeOK BY TypeInvParts DEF TypeInv
<1>1. CASE UNCHANGED partVars /\ UNCHANGED <<doc, ctl, txn, pastVars>>
           /\ (UNCHANGED faults \/ Fault)
  BY <1>0, <1>1, FaultType DEF PartOK, RestOK, FailureInv
<1>2. CASE StartSlice(l)
  BY <1>0, <1>2, UnleasedTypes DEF StartSlice, PartOK, RestOK, FailureInv
<1>3. ASSUME NEW p \in Part, NEW s \in Slot, NEW t \in Token, ClaimOne(l, p, s, t)
      PROVE  PartOK' /\ RestOK'
  <2>1. FailureInv' 
    BY <1>0, <1>3 DEF ClaimOne, FirstClaimable, Claimable, PartOK, FailureInv, OpenPartition
  <2> QED BY <1>0, <1>3, <2>1 DEF ClaimOne, PartOK, RestOK, Lease, OpenPartition
<1>4. CASE Write(l)
  <2>1. Matched(l) \subseteq Todo(l) /\ Todo(l) \subseteq Doc BY DEF Matched, Pending, Todo
  <2> QED BY <1>0, <1>4, <2>1, AppliedType DEF Write, PartOK, RestOK, FailureInv
<1>5. ASSUME NEW S \in SUBSET Doc, WriteFails(l, S) PROVE PartOK' /\ RestOK'
  <2>1. Matched(l) \subseteq Todo(l) /\ Todo(l) \subseteq Doc BY DEF Matched, Pending, Todo
  <2> QED
    BY <1>0, <1>5, <2>1, AppliedType, FaultType DEF WriteFails, PartOK, RestOK, FailureInv
<1>6. CASE lane[l].pc = "checkpoint" /\ SaveBatch(l, lane[l].good)
           /\ UNCHANGED <<doc, ctl, txn, rewritten, upgraded>> /\ (UNCHANGED faults \/ Fault)
  <2>1. lane[l].good \subseteq Doc BY <1>0 DEF TypeOK, LaneState
  <2>2. PartOK' /\ passed' \subseteq Doc BY <1>6, <2>1, SaveBatchTypes
  <2> QED BY <1>0, <1>6, <2>2, FaultType DEF RestOK
<1>7. CASE Commits(l) /\ UNCHANGED <<ctl, txn, upgraded>> /\ (UNCHANGED faults \/ Fault)
  <2>1. Matched(l) \subseteq Todo(l) /\ Todo(l) \subseteq Doc BY DEF Matched, Pending, Todo
  <2>2. lane[l].pc = "write" /\ SaveBatch(l, Matched(l)) BY <1>7 DEF Commits, InTxn
  <2>3. PartOK' /\ passed' \subseteq Doc BY <2>1, <2>2, SaveBatchTypes
  <2> QED BY <1>0, <1>7, <2>1, <2>3, AppliedType, FaultType DEF Commits, RestOK
<1>8. CASE Release(l)
  BY <1>0, <1>8, UnleasedTypes DEF Release, PartOK, RestOK, FailureInv
<1>9. CASE FailSlice(l)
  <2>1. At(l) \in Part BY <1>0, <1>9, BusyGood DEF FailSlice, At
  <2>2. CASE MayFail(l)
    <3>1. failures[At(l)] \in 0..MaxSliceFailures /\ failures[At(l)] < MaxSliceFailures
      BY <1>0, <2>1, <2>2 DEF PartOK, FailureInv, MayFail
    <3>2. failures[At(l)] + 1 \in 0..MaxSliceFailures BY <3>1, SettingsAssumption
    <3>3. /\ failures' = [failures EXCEPT ![At(l)] = @ + 1]
          /\ failures'[At(l)] = failures[At(l)] + 1
          /\ status' = [status EXCEPT ![At(l)] = IF failures[At(l)] + 1 >= MaxSliceFailures
                                                   THEN "failed" ELSE @]
          /\ lease' = [lease EXCEPT ![At(l)] = NoLease]
      BY <1>0, <1>9, <2>1, <2>2 DEF FailSlice, PartOK
    <3>4. FailureInv'
      BY <1>0, <2>1, <3>1, <3>3, SettingsAssumption DEF PartOK, FailureInv, OpenPartition
    <3> QED BY <1>0, <1>9, <2>1, <3>2, <3>3, <3>4 DEF FailSlice, PartOK, RestOK
  <2>3. CASE ~MayFail(l)
    BY <1>0, <1>9, <2>3 DEF FailSlice, PartOK, RestOK, FailureInv
  <2> QED BY <2>2, <2>3
<1>10. CASE FailPartition(l)
  <2>1. At(l) \in Part BY <1>0, <1>10, BusyGood DEF FailPartition, At
  <2> QED BY <1>0, <1>10, <2>1 DEF FailPartition, PartOK, RestOK, FailureInv, OpenPartition
<1>11. CASE FailState(l)
  BY <1>0, <1>11 DEF FailState, PartOK, RestOK, FailureInv
<1>12. CASE CheckpointFails(l)
  <2>1. UNCHANGED <<partVars, passed>> \/ SaveBatch(l, lane[l].good) BY <1>12 DEF CheckpointFails
  <2> QED BY <1>1, <1>6, <1>12, <2>1 DEF CheckpointFails
<1>13. CASE TxnUnknown(l) \/ TxnTooBig(l) BY <1>1, <1>7, <1>13 DEF TxnUnknown, TxnTooBig
<1>14. CASE Checkpoint(l) BY <1>6, <1>14 DEF Checkpoint
<1>15. CASE TxnCommit(l) BY <1>7, <1>15 DEF TxnCommit
<1>16. CASE NoClaim(l) \/ GoOn(l) \/ Yield(l) \/ Reread(l) \/ CheckpointFenced(l) \/ TxnRetry(l)
            \/ TxnInTheWay(l) \/ Budget(l) \/ ReleaseFails(l) \/ Crash(l)
  BY <1>1, <1>16
  DEF NoClaim, GoOn, Yield, Reread, CheckpointFenced, TxnRetry, TxnInTheWay, Budget,
      ReleaseFails, Crash
<1>17. CASE \/ \E s \in Slot : ClaimCollides(l, s)
            \/ \E n \in 1..BatchSize : Read(l, n)
            \/ \E d \in Doc : TxnDocError(l, d)
  BY <1>1, <1>17 DEF ClaimCollides, Read, TxnDocError
<1> QED
  BY <1>2, <1>3, <1>4, <1>5, <1>8, <1>9, <1>10, <1>11, <1>12, <1>13, <1>14, <1>15, <1>16, <1>17
  DEF Step, Fails

LEMMA NextTypeInv == TypeInv /\ [Next]_vars => TypeInv'
<1> SUFFICES ASSUME TypeInv, [Next]_vars PROVE TypeInv' OBVIOUS
<1> USE DEF partVars, pastVars
<1>0. LanesGood /\ PartOK /\ RestOK /\ TypeOK BY TypeInvParts DEF TypeInv
<1>1. SUFFICES LanesGood' /\ PartOK' /\ RestOK' BY TypeInvParts, PTL
<1>2. CASE UNCHANGED vars
  BY <1>0, <1>2 DEF vars, LanesGood, GoodLane, PartOK, RestOK, FailureInv
<1>3. ASSUME NEW l \in Lane, Step(l) \/ Fails(l) PROVE LanesGood' /\ PartOK' /\ RestOK'
  BY <1>3, LaneStepGood, LaneStepTypes
<1>4. CASE \E d \in Doc : (\E s \in {"old", "new"} : AppWrite(d, s)) \/ AppDelete(d)
  <2>1. PICK d \in Doc : (\E s \in {"old", "new"} : AppWrite(d, s)) \/ AppDelete(d) BY <1>4
  <2>2. doc[d] \in [shape: {"old", "new", "gone"}, val: Nat, rev: Nat] BY <1>0 DEF RestOK
  <2>3. /\ doc' \in [Doc -> [shape: {"old", "new", "gone"}, val: Nat, rev: Nat]]
        /\ upgraded' \subseteq Doc
    BY <1>0, <2>1, <2>2 DEF AppWrite, AppDelete, RestOK
  <2> QED
    BY <1>0, <2>1, <2>3 DEF AppWrite, AppDelete, LanesGood, GoodLane, PartOK, RestOK, FailureInv
<1>5. CASE Pause \/ Resume
  BY <1>0, <1>5, FaultType DEF Pause, Resume, LanesGood, GoodLane, PartOK, RestOK, FailureInv
<1>6. CASE Retry
  <2>1. FailureInv'
    BY <1>0, <1>6, SettingsAssumption DEF Retry, PartOK, FailureInv, OpenPartition
  <2> QED
    BY <1>0, <1>6, <2>1, FaultType, SettingsAssumption
    DEF Retry, LanesGood, GoodLane, PartOK, RestOK, OpenPartition
<1>7. CASE Supersede
  BY <1>0, <1>7, FaultType
  DEF Supersede, LanesGood, GoodLane, PartOK, RestOK, FailureInv, OpenPartition
<1>8. CASE UnlockAll
  BY <1>0, <1>8, FaultType DEF UnlockAll, LanesGood, GoodLane, PartOK, RestOK, FailureInv
<1>9. CASE \E p \in Part : ExpireLease(p)
  <2>1. PICK p \in Part : ExpireLease(p) BY <1>9
  <2>2. lease[p] \in Lease BY <1>0, <2>1 DEF ExpireLease, Leased, PartOK
  <2>3. lease' \in [Part -> Lease \cup {NoLease}]
    BY <1>0, <2>1, <2>2 DEF ExpireLease, PartOK, Lease
  <2> QED
    BY <1>0, <2>1, <2>3, FaultType DEF ExpireLease, LanesGood, GoodLane, PartOK, RestOK, FailureInv
<1> QED BY <1>2, <1>3, <1>4, <1>5, <1>6, <1>7, <1>8, <1>9 DEF Next

\* The state of the lanes, of their partitions and of the documents has its type,
\* whatever lanes, partitions and documents there are.
THEOREM LanesTypeCorrect == Spec => []TypeOK
<1>1. TypeInv => TypeOK BY DEF TypeInv
<1> QED BY <1>1, InitTypeInv, NextTypeInv, PTL DEF Spec

-----------------------------------------------------------------------------
(* What a step of a lane does to the partitions and to the documents *)

Closed == {"done", "failed", "superseded"}

\* Leases may go; cursors and counters stay, and a closed partition stays closed.
LeavesParts ==
  /\ \A p \in Part : lease'[p] \in {lease[p], NoLease}
  /\ \A p \in Part : status[p] \in Closed => status'[p] = status[p]
  /\ \A p \in Part : status'[p] = "done" => status[p] = "done"
  /\ UNCHANGED <<cursor, migrated, bad, passed>>

Saves(l) ==
  \/ /\ lane[l].pc = "checkpoint" /\ SaveBatch(l, lane[l].good)
     /\ UNCHANGED <<doc, rewritten, upgraded>>
  \/ Commits(l) /\ UNCHANGED upgraded

LEMMA StepOnParts ==
  ASSUME TypeInv, NEW l \in Lane, Step(l) \/ Fails(l)
  PROVE  \/ \E p \in Part, s \in Slot, t \in Token : ClaimOne(l, p, s, t)
         \/ Saves(l)
         \/ LeavesParts
<1> USE DEF partVars, pastVars
<1>0. LanesGood /\ PartOK /\ RestOK BY TypeInvParts
<1>1. CASE UNCHANGED partVars /\ UNCHANGED passed BY <1>1 DEF LeavesParts
<1>2. CASE StartSlice(l) BY <1>0, <1>2 DEF StartSlice, Reaped, LeavesParts, PartOK
<1>3. CASE Release(l) BY <1>0, <1>3 DEF Release, Unleased, LeavesParts, PartOK
<1>4. CASE FailSlice(l) \/ FailPartition(l)
  <2>1. At(l) \in Part BY <1>0, <1>4, BusyGood DEF FailSlice, FailPartition, At
  <2>2. CASE ~MayFail(l) BY <1>1, <1>4, <2>2 DEF FailSlice, FailPartition
  <2>3. CASE MayFail(l)
    <3>1. status[At(l)] \notin Closed BY <2>3 DEF MayFail, OpenPartition, Closed
    <3>2. PICK f \in BOOLEAN :
            status' = [status EXCEPT ![At(l)] = IF f THEN "failed" ELSE @]
      BY <1>4, <2>3 DEF FailSlice, FailPartition
    <3> QED BY <1>0, <1>4, <2>1, <2>3, <3>1, <3>2 DEF FailSlice, FailPartition, LeavesParts, PartOK
  <2> QED BY <2>2, <2>3
<1>5. CASE CheckpointFails(l) BY <1>1, <1>5 DEF CheckpointFails, Saves
<1>6. CASE TxnUnknown(l) \/ TxnTooBig(l) BY <1>1, <1>6 DEF TxnUnknown, TxnTooBig, Saves
<1>7. CASE Checkpoint(l) \/ TxnCommit(l) BY <1>7 DEF Checkpoint, TxnCommit, Saves
<1>8. CASE \/ NoClaim(l) \/ GoOn(l) \/ Yield(l) \/ Write(l) \/ Reread(l) \/ CheckpointFenced(l)
           \/ TxnRetry(l) \/ TxnInTheWay(l) \/ Budget(l) \/ FailState(l)
           \/ ReleaseFails(l) \/ Crash(l)
  BY <1>1, <1>8
  DEF NoClaim, GoOn, Yield, Write, Reread, CheckpointFenced, TxnRetry, TxnInTheWay, Budget,
      FailState, ReleaseFails, Crash
<1>9. CASE \/ \E s \in Slot : ClaimCollides(l, s)
           \/ \E n \in 1..BatchSize : Read(l, n)
           \/ \E d \in Doc : TxnDocError(l, d)
           \/ \E S \in SUBSET Doc : WriteFails(l, S)
  BY <1>1, <1>9 DEF ClaimCollides, Read, TxnDocError, WriteFails
<1> QED BY <1>2, <1>3, <1>4, <1>5, <1>6, <1>7, <1>8, <1>9 DEF Step, Fails

\* Documents are only written as they were read, when they still are.
LEMMA StepOnDocs ==
  ASSUME TypeInv, NEW l \in Lane, Step(l) \/ Fails(l)
  PROVE  \E S \in SUBSET Matched(l) : /\ doc' = Applied(l, S) /\ rewritten' = rewritten \cup S
                                      /\ UNCHANGED <<upgraded, txn>>
                                      /\ S # {} => ~txn \/ Commits(l)
<1> USE DEF partVars, pastVars
<1> DEFINE Goal == \E S \in SUBSET Matched(l) : /\ doc' = Applied(l, S) /\ rewritten' = rewritten \cup S
                                                /\ UNCHANGED <<upgraded, txn>>
                                                /\ S # {} => ~txn \/ Commits(l)
<1> SUFFICES Goal OBVIOUS
<1>1. CASE UNCHANGED <<doc, rewritten, upgraded, txn>>
  <2>1. Applied(l, {}) = doc BY DEF Applied, TypeInv, TypeOK
  <2> QED BY <1>1, <2>1
<1>2. CASE Write(l) BY <1>2 DEF Write
<1>3. CASE TxnCommit(l) \/ (Commits(l) /\ UNCHANGED <<upgraded, txn>>)
  <2>1. /\ doc' = Applied(l, Matched(l)) /\ rewritten' = rewritten \cup Matched(l)
        /\ UNCHANGED <<upgraded, txn>> /\ Commits(l)
    BY <1>3 DEF TxnCommit, Commits
  <2> QED BY <2>1
<1>4. CASE TxnUnknown(l) \/ TxnTooBig(l) BY <1>1, <1>3, <1>4 DEF TxnUnknown, TxnTooBig
<1>5. ASSUME NEW S \in SUBSET Doc, WriteFails(l, S) PROVE Goal
  <2>1. /\ S \in SUBSET Matched(l) /\ doc' = Applied(l, S) /\ rewritten' = rewritten \cup S
        /\ UNCHANGED <<upgraded, txn>> /\ ~txn
    BY <1>5 DEF WriteFails
  <2> QED BY <2>1
<1>6. CASE Checkpoint(l) \/ CheckpointFails(l) BY <1>1, <1>6 DEF Checkpoint, CheckpointFails
<1>7. CASE \/ StartSlice(l) \/ NoClaim(l) \/ GoOn(l) \/ Yield(l) \/ Reread(l) \/ CheckpointFenced(l)
           \/ TxnRetry(l) \/ TxnInTheWay(l) \/ Budget(l) \/ Release(l) \/ FailSlice(l)
           \/ FailPartition(l) \/ FailState(l) \/ ReleaseFails(l) \/ Crash(l)
  BY <1>1, <1>7
  DEF StartSlice, NoClaim, GoOn, Yield, Reread, CheckpointFenced, TxnRetry, TxnInTheWay, Budget,
      Release, FailSlice, FailPartition, FailState, ReleaseFails, Crash
<1>8. CASE \/ \E s \in Slot : ClaimCollides(l, s) \/ \E p \in Part, t \in Token : ClaimOne(l, p, s, t)
           \/ \E n \in 1..BatchSize : Read(l, n)
           \/ \E d \in Doc : TxnDocError(l, d)
  BY <1>1, <1>8 DEF ClaimCollides, ClaimOne, Read, TxnDocError
<1> HIDE DEF Goal
<1> QED BY <1>2, <1>3, <1>4, <1>5, <1>6, <1>7, <1>8 DEF Step, Fails

\* A lane goes on with the token that it had, or with none.  Only in transactions
\* does it miss a commit.
Keeps(l) ==
  /\ \A m \in Lane \ {l} : lane'[m] = lane[m]
  /\ lane'[l].token \in {lane[l].token, NoToken}
  /\ lane'[l].unheard \in BOOLEAN /\ (lane'[l].unheard => lane[l].unheard \/ txn)

LEMMA StepOnLanes ==
  ASSUME TypeInv, NEW l \in Lane, Step(l) \/ Fails(l)
  PROVE  \/ \E p \in Part, s \in Slot, t \in Token : ClaimOne(l, p, s, t)
         \/ Keeps(l)
<1>0. /\ LanesGood /\ lane \in [Lane -> LaneState] /\ lane[l] \in LaneState
      /\ lane[l].unheard \in BOOLEAN /\ Idle.token = NoToken /\ Idle.unheard = FALSE
  BY TypeInvParts DEF LanesGood, Idle, LaneState
<1>1. ASSUME NEW r, Goes(l, r), r.token \in {lane[l].token, NoToken},
             r.unheard \in {lane[l].unheard, FALSE}
      PROVE  Keeps(l)
  BY <1>0, <1>1 DEF Goes, Keeps
<1>2. AfterBatch(l).token \in {lane[l].token, NoToken} /\ AfterBatch(l).unheard = FALSE
  BY <1>0 DEF AfterBatch, LaneState
<1>3. CASE \/ NoClaim(l) \/ FailSlice(l) \/ FailState(l) \/ Crash(l)
  BY <1>0, <1>1, <1>3 DEF NoClaim, FailSlice, FailState, Crash
<1>4. CASE Checkpoint(l) \/ TxnCommit(l)
  BY <1>1, <1>2, <1>4 DEF Checkpoint, TxnCommit
<1>5. CASE StartSlice(l) BY <1>0, <1>1, <1>5 DEF StartSlice, LaneState
<1>6. CASE Yield(l) BY <1>0, <1>1, <1>6 DEF Yield, LaneState
<1>7. CASE CheckpointFenced(l) BY <1>0, <1>1, <1>7 DEF CheckpointFenced, LaneState
<1>8. CASE TxnRetry(l) \/ TxnTooBig(l)
  <2>1. PICK r : Goes(l, r) /\ GoodLane(r) /\ r.token = lane[l].token /\ txn
    BY <1>0, <1>8, TxnAgain, TriedAgain
  <2>2. r.unheard \in BOOLEAN BY <2>1 DEF GoodLane, LaneState
  <2> QED BY <1>0, <2>1, <2>2 DEF Goes, Keeps
<1>9. CASE TxnInTheWay(l) BY <1>0, <1>1, <1>9 DEF TxnInTheWay, LaneState
<1>10. CASE FailPartition(l) BY <1>0, <1>1, <1>10 DEF FailPartition, LaneState
<1>11. CASE CheckpointFails(l) BY <1>0, <1>1, <1>11 DEF CheckpointFails, LaneState
<1>12. CASE TxnUnknown(l) BY <1>0, <1>1, <1>12 DEF TxnUnknown, LaneState
<1>13. CASE Write(l) BY <1>0, <1>1, <1>13 DEF Write, LaneState
<1>14. CASE Reread(l) BY <1>0, <1>1, <1>14 DEF Reread, LaneState
<1>15. CASE GoOn(l) BY <1>0, <1>1, <1>15 DEF GoOn, LaneState
<1>17. CASE Budget(l)
  <2>1. \A r \in {[lane[l] EXCEPT !.pc = "release", !.why = "document"],
                  [lane[l] EXCEPT !.pc = "control"]} :
          r.token = lane[l].token /\ r.unheard = lane[l].unheard
    BY <1>0 DEF LaneState
  <2> QED BY <1>0, <1>1, <1>17, <2>1 DEF Budget
<1>18. CASE Release(l) \/ ReleaseFails(l)
  <2>1. \A pc : LET r == [lane[l] EXCEPT !.pc = pc] IN
                 r.token = lane[l].token /\ r.unheard = lane[l].unheard
    BY <1>0 DEF LaneState
  <2> QED BY <1>0, <1>1, <1>18, <2>1 DEF Release, ReleaseFails
<1>19. ASSUME NEW s \in Slot, ClaimCollides(l, s) PROVE Keeps(l)
  BY <1>0, <1>1, <1>19 DEF ClaimCollides, LaneState
<1>20. ASSUME NEW n \in 1..BatchSize, Read(l, n) PROVE Keeps(l)
  BY <1>0, <1>1, <1>20 DEF Read, LaneState
<1>21. ASSUME NEW d \in Doc, TxnDocError(l, d) PROVE Keeps(l)
  BY <1>0, <1>1, <1>21 DEF TxnDocError, LaneState
<1>22. ASSUME NEW S \in SUBSET Doc, WriteFails(l, S) PROVE Keeps(l)
  BY <1>0, <1>1, <1>22 DEF WriteFails, LaneState
<1> QED
  BY <1>3, <1>4, <1>5, <1>6, <1>7, <1>8, <1>9, <1>10, <1>11, <1>12, <1>13, <1>14, <1>15, <1>17,
     <1>18, <1>19, <1>20, <1>21, <1>22
  DEF Step, Fails

LEMMA ClaimOnLanes ==
  ASSUME TypeInv, NEW l \in Lane, NEW p \in Part, NEW s \in Slot, NEW t \in Token,
         ClaimOne(l, p, s, t)
  PROVE  /\ \A m \in Lane \ {l} : lane'[m] = lane[m]
         /\ lane[l].token = NoToken
         /\ lane'[l].pc = "control" /\ lane'[l].part = p /\ lane'[l].token = t
         /\ lane'[l].from = cursor[p] /\ lane'[l].snap = Idle.snap /\ ~lane'[l].unheard
<1>1. LanesGood BY TypeInvParts
<1>2. Goes(l, [Idle EXCEPT !.pc = "control", !.part = p, !.token = t, !.from = cursor[p]])
  BY DEF ClaimOne
<1>3. lane[l].token = NoToken BY <1>1 DEF ClaimOne, LanesGood, GoodLane
<1>4. /\ \A m \in Lane \ {l} : lane'[m] = lane[m]
      /\ lane'[l] = [Idle EXCEPT !.pc = "control", !.part = p, !.token = t, !.from = cursor[p]]
  BY <1>1, <1>2 DEF Goes, LanesGood
<1> QED BY <1>3, <1>4 DEF Idle

-----------------------------------------------------------------------------
(* Lanes apart *)

\* No two leases have a slot, and no two lanes a token, in common.
ApartInv ==
  /\ \A p, q \in Part : p # q /\ Leased(p) /\ Leased(q) => lease[p].slot # lease[q].slot
  /\ \A l, m \in Lane : l # m /\ lane[l].token # NoToken => lane[l].token # lane[m].token

LEMMA SaveBatchLease ==
  ASSUME TypeInv, NEW l \in Lane, lane[l].pc \notin {"idle", "claim"},
         NEW done, SaveBatch(l, done)
  PROVE  \A p \in Part : \/ lease'[p] = NoLease
                         \/ /\ Leased(p)
                            /\ lease'[p].slot = lease[p].slot /\ lease'[p].token = lease[p].token
<1>0. LanesGood /\ PartOK BY TypeInvParts
<1>1. At(l) \in Part /\ lane[l].token \in Token BY <1>0, BusyGood DEF At
<1>2. lease[At(l)] \in Lease BY <1>0, <1>1, HeldLease DEF SaveBatch, Holds, At
<1>3. lease[At(l)] # NoLease BY <1>2, TokenAssumption DEF Lease, NoLease
<1> QED BY <1>0, <1>1, <1>2, <1>3 DEF SaveBatch, PartOK, Leased, Lease

LEMMA SavesBusy ==
  ASSUME NEW l \in Lane, Saves(l)
  PROVE  /\ lane[l].pc \in {"checkpoint", "write"}
         /\ \E done : SaveBatch(l, done)
BY DEF Saves, Commits, InTxn

LEMMA ApartKept ==
  ASSUME ApartInv, TypeInv, TypeInv',
         \A p \in Part : lease'[p] = NoLease \/ (Leased(p) /\ lease'[p].slot = lease[p].slot),
         \A l \in Lane : lane'[l].token \in {lane[l].token, NoToken}
  PROVE  ApartInv'
BY DEF ApartInv, Leased

LEMMA ApartStep == TypeInv /\ ApartInv /\ [Next]_vars => ApartInv'
<1> SUFFICES ASSUME TypeInv, ApartInv, [Next]_vars PROVE ApartInv' OBVIOUS
<1>0. TypeInv' /\ PartOK /\ LanesGood BY NextTypeInv, TypeInvParts
<1>1. CASE (\A p \in Part : lease'[p] = NoLease \/ (Leased(p) /\ lease'[p].slot = lease[p].slot))
           /\ UNCHANGED lane
  BY <1>0, <1>1, ApartKept
<1>2. CASE UNCHANGED <<lane, lease>> BY <1>2 DEF ApartInv, Leased
<1>3. ASSUME NEW l \in Lane, Step(l) \/ Fails(l) PROVE ApartInv'
  <2>2. CASE \E p \in Part, s \in Slot, t \in Token : ClaimOne(l, p, s, t)
    <3>1. PICK p \in Part, s \in Slot, t \in Token : ClaimOne(l, p, s, t) BY <2>2
    <3>3. \A q \in Part \ {p} : lease'[q] = lease[q] /\ lease[q].slot # s
      BY <1>0, <3>1 DEF ClaimOne, SlotTaken, PartOK
    <3>4. lease'[p].slot = s BY <1>0, <3>1 DEF ClaimOne, PartOK
    <3>5. lane'[l].token = t BY <3>1, ClaimOnLanes
    <3>6. \A m \in Lane : lane[m].token # t BY <3>1 DEF ClaimOne, Unheld
    <3>7. \A m \in Lane \ {l} : lane'[m] = lane[m] BY <3>1, ClaimOnLanes
    <3> QED BY <3>3, <3>4, <3>5, <3>6, <3>7 DEF ApartInv, Leased
  <2>3. CASE Keeps(l) /\ ~\E p \in Part, s \in Slot, t \in Token : ClaimOne(l, p, s, t)
    <3>0. \A m \in Lane : lane'[m].token \in {lane[m].token, NoToken} BY <2>3 DEF Keeps
    <3>1. CASE LeavesParts
      <4>1. \A p \in Part : lease'[p] = NoLease \/ (Leased(p) /\ lease'[p].slot = lease[p].slot)
        BY <3>1 DEF LeavesParts, Leased
      <4> QED BY <1>0, <3>0, <4>1, ApartKept
    <3>2. CASE Saves(l)
      <4>1. \A p \in Part : lease'[p] = NoLease \/ (Leased(p) /\ lease'[p].slot = lease[p].slot)
        BY <3>2, SavesBusy, SaveBatchLease
      <4> QED BY <1>0, <3>0, <4>1, ApartKept
    <3> QED BY <1>3, <2>3, <3>1, <3>2, StepOnParts
  <2> QED BY <1>3, <2>2, <2>3, StepOnLanes
<1>4. CASE \/ \E d \in Doc : (\E s \in {"old", "new"} : AppWrite(d, s)) \/ AppDelete(d)
           \/ Pause \/ Resume \/ Retry \/ Supersede \/ UNCHANGED vars
  BY <1>2, <1>4 DEF AppWrite, AppDelete, Pause, Resume, Retry, Supersede, vars, partVars
<1>5. CASE UnlockAll BY <1>1, <1>5 DEF UnlockAll
<1>6. CASE \E p \in Part : ExpireLease(p)
  <2>1. PICK p \in Part : ExpireLease(p) BY <1>6
  <2>2. lease[p] \in Lease BY <1>0, <2>1 DEF ExpireLease, Leased, PartOK
  <2>3. \A q \in Part : lease'[q] = NoLease \/ (Leased(q) /\ lease'[q].slot = lease[q].slot)
    BY <1>0, <2>1, <2>2 DEF ExpireLease, PartOK, Leased, Lease
  <2> QED BY <1>1, <2>1, <2>3 DEF ExpireLease
<1> QED BY <1>3, <1>4, <1>5, <1>6 DEF Next

LEMMA ApartImplies == TypeInv /\ ApartInv => LanesApart
<1> SUFFICES ASSUME TypeInv, ApartInv, NEW l \in Lane, NEW m \in Lane, l # m, Working(l), Working(m)
             PROVE  At(l) # At(m) /\ lease[At(l)].slot # lease[At(m)].slot
  BY DEF LanesApart
<1>1. \A k \in Lane : Working(k) => At(k) \in Part /\ lane[k].token \in Token
  BY TypeInvParts DEF LanesGood, GoodLane, LaneState, Working, At
<1>2. lane[l].token # lane[m].token BY <1>1, TokenAssumption DEF ApartInv
<1>3. lease[At(l)].token = lane[l].token /\ lease[At(m)].token = lane[m].token
  BY DEF Working, Holds
<1>4. At(l) # At(m) BY <1>2, <1>3
<1>5. Leased(At(l)) /\ Leased(At(m)) BY <1>1, <1>3, TokenAssumption DEF Leased, NoLease
<1> QED BY <1>1, <1>4, <1>5 DEF ApartInv

\* Lanes whose checkpoints land are in partitions and on slots of their own.
THEOREM LanesNeverMeet == Spec => []LanesApart
<1>1. Init => ApartInv BY DEF Init, ApartInv, Leased, Idle
<1> QED BY <1>1, InitTypeInv, NextTypeInv, ApartStep, ApartImplies, PTL DEF Spec

-----------------------------------------------------------------------------
(* Cursors *)

InSlice == {"control", "read", "write", "reread", "checkpoint", "budget"}
InBatch == {"write", "reread", "checkpoint"}

\* A lane that holds its lease works from its partition's cursor on, or from
\* before it when a commit of its batch landed unheard.
AtCursor(l) ==
  /\ lane[l].pc \in InSlice /\ HoldsToken(l) =>
       /\ lane[l].from <= cursor[At(l)]
       /\ lane[l].unheard \/ lane[l].from = cursor[At(l)]
  /\ lane[l].pc \in InBatch => \A d \in lane[l].batch : d > lane[l].from
  /\ lane[l].unheard => txn

CursorInv == \A l \in Lane : AtCursor(l)

\* Nobody is given a lease but by a claim.
LEMMA NoNewLease ==
  ASSUME TypeInv, NEW l \in Lane, LeavesParts \/ Saves(l), NEW p \in Part, NEW t \in Token,
         lease'[p].token = t
  PROVE  lease[p].token = t
<1>1. CASE LeavesParts BY <1>1, TokenAssumption DEF LeavesParts, NoLease
<1>2. CASE Saves(l)
  <2>1. lease'[p] = NoLease \/ lease'[p].token = lease[p].token BY <1>2, SavesBusy, SaveBatchLease
  <2> QED BY <2>1, TokenAssumption DEF NoLease
<1> QED BY <1>1, <1>2

\* spec.transaction is what it is.
LEMMA TxnFixed == ASSUME TypeInv, [Next]_vars PROVE txn' = txn
<1>1. ASSUME NEW l \in Lane, Step(l) \/ Fails(l) PROVE txn' = txn BY <1>1, StepOnDocs
<1> QED
  BY <1>1
  DEF Next, vars, AppWrite, AppDelete, Pause, Resume, Retry, Supersede, UnlockAll, ExpireLease

LEMMA SavesCursor ==
  ASSUME TypeInv, NEW l \in Lane, Saves(l)
  PROVE  /\ At(l) \in Part /\ Holds(l)
         /\ cursor' = [cursor EXCEPT ![At(l)] = NextFrom(l)]
         /\ cursor'[At(l)] = NextFrom(l)
<1>1. At(l) \in Part BY SavesBusy, BusyGood, TypeInvParts DEF At
<1> QED BY <1>1, SavesBusy, TypeInvParts DEF SaveBatch, PartOK

\* A step of one lane leaves every other lane where it was.
LEMMA OtherAtCursor ==
  ASSUME TypeInv, ApartInv, CursorInv, NEW l \in Lane, Step(l) \/ Fails(l),
         NEW m \in Lane, m # l
  PROVE  AtCursor(m)'
<1>0. TypeInv' /\ PartOK /\ LanesGood /\ AtCursor(m) /\ txn' = txn
  BY NextTypeInv, TypeInvParts, TxnFixed DEF CursorInv, Next
<1>1. lane'[m] = lane[m] BY StepOnLanes, ClaimOnLanes DEF Keeps
<1>2. SUFFICES ASSUME lane[m].pc \in InSlice, lease'[At(m)].token = lane[m].token
               PROVE  cursor'[At(m)] = cursor[At(m)] /\ lease[At(m)].token = lane[m].token
  BY <1>0, <1>1 DEF AtCursor, HoldsToken, At
<1>3. At(m) \in Part /\ lane[m].token \in Token BY <1>0, <1>2, BusyGood DEF InSlice, At
<1>4. CASE \E p \in Part, s \in Slot, t \in Token : ClaimOne(l, p, s, t)
  <2>1. PICK p \in Part, s \in Slot, t \in Token : ClaimOne(l, p, s, t) BY <1>4
  <2>2. lane[m].token # t BY <2>1 DEF ClaimOne, Unheld
  <2>3. lease' = [lease EXCEPT ![p] = [slot |-> s, token |-> t, live |-> TRUE]] /\ cursor' = cursor
    BY <2>1 DEF ClaimOne
  <2>4. lease'[At(m)] = lease[At(m)] BY <1>0, <1>2, <1>3, <2>2, <2>3 DEF PartOK
  <2> QED BY <1>2, <2>3, <2>4
<1>5. CASE LeavesParts BY <1>2, <1>3, <1>5, NoNewLease DEF LeavesParts
<1>6. CASE Saves(l)
  <2>1. lease[At(m)].token = lane[m].token BY <1>2, <1>3, <1>6, NoNewLease
  <2>2. lane[l].token # lane[m].token BY <1>3, TokenAssumption DEF ApartInv
  <2>3. At(l) # At(m) BY <1>6, <2>1, <2>2, SavesCursor DEF Holds
  <2> QED BY <1>0, <1>3, <1>6, <2>1, <2>3, SavesCursor DEF PartOK
<1> QED BY <1>4, <1>5, <1>6, StepOnParts

\* A lane that goes on with its partition, and with its batch if it is in one.
Continues(l) ==
  /\ lane'[l].part = lane[l].part /\ lane'[l].token = lane[l].token
  /\ lane'[l].from = lane[l].from /\ lane'[l].unheard = lane[l].unheard
  /\ lane'[l].pc \in InBatch => lane[l].pc \in InBatch /\ lane'[l].batch = lane[l].batch
  /\ lane[l].pc \in InSlice

\* A batch is tried again although its commit landed.
Misses(l) ==
  /\ Saves(l)
  /\ lane'[l].pc \in {"read", "release"}
  /\ lane'[l].part = lane[l].part /\ lane'[l].token = lane[l].token
  /\ lane'[l].from = lane[l].from /\ lane'[l].unheard

\* What a lane does on the way to a batch, and from one attempt at it to the next.
Batching(l) ==
  \/ GoOn(l) \/ Write(l) \/ Reread(l) \/ TxnRetry(l) \/ TxnTooBig(l) \/ TxnInTheWay(l)
  \/ \E d \in Doc : TxnDocError(l, d)

LEMMA StepOnCursor ==
  ASSUME TypeInv, NEW l \in Lane, Step(l) \/ Fails(l)
  PROVE  \/ lane'[l].pc \notin InSlice
         \/ \E p \in Part, s \in Slot, t \in Token : ClaimOne(l, p, s, t)
         \/ Continues(l) /\ LeavesParts /\ (lane'[l].pc = "control" \/ Batching(l))
         \/ Misses(l) /\ TxnTooBig(l)
         \/ \E n \in 1..BatchSize : Read(l, n)
         \/ Saves(l) /\ lane'[l] = AfterBatch(l)
<1> USE DEF partVars, pastVars
<1>0. LanesGood /\ lane \in [Lane -> LaneState] /\ lane[l] \in LaneState
  BY TypeInvParts DEF LanesGood
<1>1. ASSUME NEW r, Goes(l, r) PROVE lane'[l] = r BY <1>0, <1>1 DEF Goes
<1>2. CASE (Batching(l) /\ ~TxnTooBig(l)) \/ Budget(l)
  <2>0. LeavesParts
    BY <1>2
    DEF Batching, GoOn, Write, Reread, TxnRetry, TxnInTheWay, Budget, TxnDocError, LeavesParts
  <2> USE DEF InSlice, InBatch, Continues, Batching
  <2>1. CASE GoOn(l) BY <1>0, <1>1, <2>0, <2>1 DEF GoOn, LaneState
  <2>2. CASE Write(l) BY <1>0, <1>1, <2>0, <2>2 DEF Write, LaneState
  <2>3. CASE Reread(l)
    <3> DEFINE again == Stale(l) # {} /\ lane[l].round < MaxRetries
               pc == IF again THEN "write" ELSE "checkpoint"
               good == lane[l].good \cup Counted(l)
               snap == IF again THEN Snapshot(Stale(l)) ELSE Idle.snap
               round == IF again THEN lane[l].round + 1 ELSE lane[l].round
               left == IF again THEN lane[l].left ELSE Stale(l)
    <3>1. /\ lane[l].pc = "reread" /\ pc \in {"write", "checkpoint"}
          /\ Goes(l, [lane[l] EXCEPT !.pc = pc, !.good = good, !.snap = snap, !.round = round,
                                     !.left = left])
      BY <1>0, <2>3 DEF Reread, LaneState
    <3> HIDE DEF again, pc, good, snap, round, left
    <3>2. /\ lane'[l].pc \in {"write", "checkpoint"}
          /\ lane'[l].part = lane[l].part /\ lane'[l].token = lane[l].token
          /\ lane'[l].from = lane[l].from /\ lane'[l].unheard = lane[l].unheard
          /\ lane'[l].batch = lane[l].batch
      BY <1>0, <1>1, <3>1 DEF LaneState
    <3> QED BY <2>0, <2>3, <3>1, <3>2
  <2>4. CASE TxnRetry(l)
    <3>1. lane[l].pc = "write" /\ lane'[l] = Retried(l)
      BY <1>0, <1>1, <2>4, TxnAgain DEF TxnRetry
    <3> QED BY <1>0, <2>0, <2>4, <3>1, TriedAgain
  <2>6. CASE TxnInTheWay(l) BY <1>0, <1>1, <2>0, <2>6 DEF TxnInTheWay, InTxn, LaneState
  <2>7. CASE Budget(l)
    <3> DEFINE over == [lane[l] EXCEPT !.pc = "release", !.why = "document"]
               next == [lane[l] EXCEPT !.pc = "control"]
    <3>1. lane[l].pc = "budget" /\ (Goes(l, over) \/ Goes(l, Idle) \/ Goes(l, next))
      BY <2>7 DEF Budget
    <3>2. over.pc = "release" /\ Idle.pc = "idle" BY <1>0 DEF LaneState, Idle
    <3>3. next.pc = "control" /\ next.part = lane[l].part /\ next.token = lane[l].token
          /\ next.from = lane[l].from /\ next.unheard = lane[l].unheard
      BY <1>0 DEF LaneState
    <3> HIDE DEF over, next
    <3> QED BY <1>1, <2>0, <3>1, <3>2, <3>3
  <2>8. ASSUME NEW d \in Doc, TxnDocError(l, d) PROVE Continues(l) /\ LeavesParts /\ Batching(l)
    BY <1>0, <1>1, <2>0, <2>8 DEF TxnDocError, InTxn, LaneState
  <2> QED BY <1>2, <2>1, <2>2, <2>3, <2>4, <2>6, <2>7, <2>8
<1>14. CASE TxnTooBig(l)
  <2>1. /\ lane[l].pc = "write"
        /\ \/ Commits(l) /\ lane'[l] = [TooBig(l) EXCEPT !.unheard = TRUE] /\ UNCHANGED upgraded
           \/ lane'[l] = TooBig(l) /\ UNCHANGED <<partVars, passed>>
    BY <1>0, <1>1, <1>14, TxnAgain, Zenon DEF TxnTooBig
  <2>2. CASE Commits(l) /\ lane'[l] = [TooBig(l) EXCEPT !.unheard = TRUE] /\ UNCHANGED upgraded
    <3>1. TooBig(l) \in LaneState BY <1>0, <2>1, TriedAgain DEF GoodLane
    <3>2. lane'[l].unheard BY <2>2, <3>1 DEF LaneState
    <3> QED BY <1>0, <1>14, <2>1, <2>2, <3>2, TriedAgain DEF Misses, Saves
  <2>3. CASE lane'[l] = TooBig(l) /\ UNCHANGED <<partVars, passed>>
    <3>1. LeavesParts BY <2>3 DEF LeavesParts
    <3> QED BY <1>0, <1>14, <2>1, <2>3, <3>1, TriedAgain DEF Continues, Batching, InSlice, InBatch
  <2> QED BY <2>1, <2>2, <2>3
<1>3. CASE StartSlice(l) BY <1>0, <1>1, <1>3 DEF StartSlice, LaneState, InSlice
<1>4. CASE NoClaim(l) \/ FailSlice(l) \/ FailState(l) \/ Crash(l)
  BY <1>1, <1>4 DEF NoClaim, FailSlice, FailState, Crash, Idle, InSlice
<1>5. CASE Yield(l) BY <1>0, <1>1, <1>5 DEF Yield, LaneState, InSlice
<1>6. CASE CheckpointFenced(l) BY <1>0, <1>1, <1>6 DEF CheckpointFenced, LaneState, InSlice
<1>7. CASE CheckpointFails(l) BY <1>0, <1>1, <1>7 DEF CheckpointFails, LaneState, InSlice
<1>8. CASE TxnUnknown(l) BY <1>0, <1>1, <1>8 DEF TxnUnknown, LaneState, InSlice
<1>9. CASE FailPartition(l) BY <1>0, <1>1, <1>9 DEF FailPartition, LaneState, InSlice
<1>10. CASE Release(l) \/ ReleaseFails(l)
  <2>1. \E pc \in {"failSlice", "failPartition"} :
          lane'[l] = Idle \/ lane'[l] = [lane[l] EXCEPT !.pc = pc]
    BY <1>1, <1>10 DEF Release, ReleaseFails
  <2> QED BY <1>0, <2>1 DEF LaneState, Idle, InSlice
<1>11. ASSUME NEW s \in Slot, ClaimCollides(l, s) PROVE lane'[l].pc \notin InSlice
  BY <1>0, <1>1, <1>11 DEF ClaimCollides, LaneState, InSlice
<1>12. ASSUME NEW S \in SUBSET Doc, WriteFails(l, S) PROVE lane'[l].pc \notin InSlice
  BY <1>0, <1>1, <1>12 DEF WriteFails, LaneState, InSlice
<1>13. CASE Checkpoint(l) \/ TxnCommit(l) BY <1>1, <1>13 DEF Checkpoint, TxnCommit, Saves
<1> QED
  BY <1>2, <1>3, <1>4, <1>5, <1>6, <1>7, <1>8, <1>9, <1>10, <1>11, <1>12, <1>13, <1>14
  DEF Step, Fails, Batching

\* A lane's own step leaves it at its partition's cursor.
LEMMA OwnAtCursor ==
  ASSUME TypeInv, CursorInv, NEW l \in Lane, Step(l) \/ Fails(l)
  PROVE  AtCursor(l)'
<1>0. TypeInv' /\ PartOK /\ LanesGood /\ AtCursor(l) /\ txn' = txn
  BY NextTypeInv, TypeInvParts, TxnFixed DEF CursorInv, Next
<1>1. lane'[l].unheard => txn'
  <2>1. CASE Keeps(l) BY <1>0, <2>1 DEF Keeps, AtCursor
  <2>2. CASE \E p \in Part, s \in Slot, t \in Token : ClaimOne(l, p, s, t)
    BY <2>2, ClaimOnLanes
  <2> QED BY <2>1, <2>2, StepOnLanes
<1> DEFINE Goal == /\ lane'[l].pc \in InSlice /\ HoldsToken(l)' =>
                        /\ lane'[l].from <= cursor'[At(l)']
                        /\ lane'[l].unheard \/ lane'[l].from = cursor'[At(l)']
                   /\ lane'[l].pc \in InBatch => \A d \in lane'[l].batch : d > lane'[l].from
<1>2. SUFFICES Goal BY <1>1 DEF AtCursor, At
<1>3. CASE lane'[l].pc \notin InSlice BY <1>3 DEF InSlice, InBatch
<1>4. CASE \E p \in Part, s \in Slot, t \in Token : ClaimOne(l, p, s, t)
  <2>1. PICK p \in Part, s \in Slot, t \in Token : ClaimOne(l, p, s, t) BY <1>4
  <2>2. cursor' = cursor /\ cursor[p] \in Nat BY <1>0, <2>1 DEF ClaimOne, PartOK
  <2> QED BY <2>1, <2>2, ClaimOnLanes DEF At, InBatch
<1>5. CASE Continues(l) /\ LeavesParts
  <2>1. At(l) \in Part /\ lane[l].token \in Token
    BY <1>0, <1>5, BusyGood DEF Continues, InSlice, At
  <2>2. HoldsToken(l)' => HoldsToken(l)
    BY <1>5, <2>1, NoNewLease DEF HoldsToken, Continues, At
  <2>3. cursor' = cursor BY <1>5 DEF LeavesParts
  <2> QED BY <1>0, <1>5, <2>2, <2>3 DEF AtCursor, Continues, At
<1>6. ASSUME NEW n \in 1..BatchSize, Read(l, n) PROVE Goal
  <2> DEFINE read == FirstOf(Matching(l), n)
  <2>1. lane[l].pc = "read" /\ UNCHANGED <<lease, cursor>>
    BY <1>6 DEF Read, partVars
  <2>2. lane' = [lane EXCEPT ![l] = [lane[l] EXCEPT !.pc = "write", !.limit = n, !.batch = read,
                                                    !.snap = Snapshot(read \ lane[l].failed)]]
    BY <1>6 DEF Read, Goes
  <2>3. lane[l] \in LaneState /\ lane \in [Lane -> LaneState] BY <1>0 DEF LanesGood
  <2>4. \A d \in read : d > lane[l].from BY DEF FirstOf, Matching
  <2> HIDE DEF read
  <2>5. /\ lane'[l].part = lane[l].part /\ lane'[l].token = lane[l].token
        /\ lane'[l].from = lane[l].from /\ lane'[l].batch = read
        /\ lane'[l].unheard = lane[l].unheard
    BY <2>2, <2>3 DEF LaneState
  <2> QED BY <1>0, <2>1, <2>4, <2>5 DEF AtCursor, HoldsToken, At, InSlice
<1>7. CASE Saves(l) /\ lane'[l] = AfterBatch(l)
  <2>1. cursor'[At(l)] = NextFrom(l) BY <1>7, SavesCursor
  <2>2. lane[l] \in LaneState /\ NextFrom(l) \in Nat
    BY <1>0, NextFromType DEF LanesGood, TypeInv
  <2>3. \/ lane'[l].pc = "idle"
        \/ lane'[l].pc \in {"budget", "control"} /\ lane'[l].part = lane[l].part
             /\ lane'[l].from = NextFrom(l)
    BY <1>7, <2>2 DEF AfterBatch, Idle, LaneState
  <2> QED BY <2>1, <2>2, <2>3 DEF At, InSlice, InBatch
<1>8. CASE Misses(l)
  <2>1. cursor'[At(l)] = NextFrom(l) BY <1>8, SavesCursor DEF Misses
  <2>2. lane[l].pc \in InBatch BY <1>8, SavesBusy DEF Misses, InBatch
  <2>3. NextFrom(l) >= lane[l].from BY <1>0, <2>2, NextFromType DEF AtCursor, TypeInv
  <2>4. NextFrom(l) \in Nat /\ lane[l].from \in Nat
    BY <1>0, NextFromType DEF TypeInv, LanesGood, LaneState
  <2> QED BY <1>8, <2>1, <2>3, <2>4 DEF Misses, At, InBatch
<1> HIDE DEF Goal
<1> QED BY <1>3, <1>4, <1>5, <1>6, <1>7, <1>8, StepOnCursor

LEMMA CursorStep == TypeInv /\ ApartInv /\ CursorInv /\ [Next]_vars => CursorInv'
<1> SUFFICES ASSUME TypeInv, ApartInv, CursorInv, [Next]_vars PROVE CursorInv' OBVIOUS
<1>0. TypeInv' /\ PartOK /\ LanesGood BY NextTypeInv, TypeInvParts
<1>1. ASSUME NEW l \in Lane, Step(l) \/ Fails(l) PROVE CursorInv'
  BY <1>1, OwnAtCursor, OtherAtCursor DEF CursorInv
<1>2. CASE UNCHANGED <<lane, lease, cursor>>
  BY <1>2, TxnFixed DEF CursorInv, AtCursor, HoldsToken, At
<1>3. CASE \/ \E d \in Doc : (\E s \in {"old", "new"} : AppWrite(d, s)) \/ AppDelete(d)
           \/ Pause \/ Resume \/ Retry \/ Supersede \/ UNCHANGED vars
  BY <1>2, <1>3 DEF AppWrite, AppDelete, Pause, Resume, Retry, Supersede, vars, partVars
<1>4. CASE UnlockAll \/ \E p \in Part : ExpireLease(p)
  <2>1. \A p \in Part : lease'[p] = NoLease \/ lease'[p].token = lease[p].token
    <3>1. CASE UnlockAll BY <3>1 DEF UnlockAll
    <3>2. ASSUME NEW p \in Part, ExpireLease(p)
          PROVE  \A q \in Part : lease'[q].token = lease[q].token
      <4>1. lease[p] \in Lease BY <1>0, <3>2 DEF ExpireLease, Leased, PartOK
      <4> QED BY <1>0, <3>2, <4>1 DEF ExpireLease, PartOK, Lease
    <3> QED BY <1>4, <3>1, <3>2
  <2>2. UNCHANGED <<lane, cursor>> BY <1>4 DEF UnlockAll, ExpireLease
  <2>3. \A l \in Lane : lane[l].pc \in InSlice => At(l) \in Part /\ lane[l].token \in Token
    BY <1>0, BusyGood DEF InSlice, At
  <2>4. \A l \in Lane : lane[l].pc \in InSlice /\ HoldsToken(l)' => HoldsToken(l)
    BY <2>1, <2>2, <2>3, TokenAssumption DEF HoldsToken, At, NoLease
  <2> QED BY <2>2, <2>4, TxnFixed DEF CursorInv, AtCursor, At
<1> QED BY <1>1, <1>3, <1>4 DEF Next

\* Where a cursor may go back.
SetsBack(p) == \E l \in Lane : lane[l].unheard /\ At(l) = p /\ Holds(l)

LEMMA MoveForward ==
  TypeInv /\ CursorInv /\ [Next]_vars =>
    \A p \in Part :
      /\ cursor'[p] >= cursor[p] \/ SetsBack(p)
      /\ migrated'[p] >= migrated[p]
      /\ status[p] \in Closed =>
           /\ cursor'[p] = cursor[p] /\ migrated'[p] = migrated[p]
           /\ status'[p] = status[p] \/ (status[p] = "failed" /\ status'[p] = "pending")
<1> SUFFICES ASSUME TypeInv, CursorInv, [Next]_vars, NEW p \in Part
             PROVE  /\ cursor'[p] >= cursor[p] \/ SetsBack(p)
                    /\ migrated'[p] >= migrated[p]
                    /\ status[p] \in Closed =>
                         /\ cursor'[p] = cursor[p] /\ migrated'[p] = migrated[p]
                         /\ status'[p] = status[p] \/ (status[p] = "failed" /\ status'[p] = "pending")
  OBVIOUS
<1>0. PartOK /\ LanesGood /\ cursor[p] \in Nat /\ migrated[p] \in Nat BY TypeInvParts DEF PartOK
<1> USE DEF partVars
<1>1. CASE UNCHANGED <<cursor, migrated, status>> BY <1>0, <1>1
<1>2. ASSUME NEW l \in Lane, Step(l) \/ Fails(l)
      PROVE  /\ cursor'[p] >= cursor[p] \/ SetsBack(p)
             /\ migrated'[p] >= migrated[p]
             /\ status[p] \in Closed =>
                  cursor'[p] = cursor[p] /\ migrated'[p] = migrated[p] /\ status'[p] = status[p]
  <2>1. CASE \E q \in Part, s \in Slot, t \in Token : ClaimOne(l, q, s, t)
    <3>1. PICK q \in Part, s \in Slot, t \in Token : ClaimOne(l, q, s, t) BY <2>1
    <3>2. status[q] \in OpenPartition BY <3>1 DEF ClaimOne, FirstClaimable, Claimable
    <3>3. status[p] \in Closed => status'[p] = status[p]
      BY <1>0, <3>1, <3>2 DEF ClaimOne, PartOK, OpenPartition, Closed
    <3> QED BY <1>0, <3>1, <3>3 DEF ClaimOne
  <2>2. CASE LeavesParts BY <1>0, <2>2 DEF LeavesParts
  <2>3. CASE Saves(l)
    <3>1. PICK done : SaveBatch(l, done) /\ IsFiniteSet(done)
      <4>1. lane[l].good \subseteq Doc BY <1>0 DEF LanesGood, LaneState
      <4>2. Matched(l) \subseteq Doc BY DEF Matched, Pending, Todo
      <4> QED BY <2>3, <4>1, <4>2, DocAssumption, FS_Subset DEF Saves, Commits
    <3>2. Cardinality(done) \in Nat BY <3>1, FS_CardinalityType
    <3>3. lane[l].pc \in {"checkpoint", "write"} BY <2>3, SavesBusy
    <3>4. /\ lane[l].unheard \/ lane[l].from = cursor[At(l)]
          /\ \A d \in lane[l].batch : d > lane[l].from
      BY <3>1, <3>3 DEF SaveBatch, Holds, CursorInv, AtCursor, HoldsToken, InSlice, InBatch
    <3>5. NextFrom(l) >= cursor[At(l)] \/ SetsBack(At(l))
      BY <3>1, <3>4, NextFromType DEF TypeInv, SaveBatch, SetsBack
    <3>6. cursor' = [cursor EXCEPT ![At(l)] = NextFrom(l)] /\ status[At(l)] = "running"
          /\ migrated' = [migrated EXCEPT ![At(l)] = @ + Cardinality(done)]
          /\ status' = [status EXCEPT ![At(l)] = IF Ended(l) THEN "done" ELSE @]
      BY <3>1 DEF SaveBatch, Holds
    <3> QED BY <1>0, <3>2, <3>5, <3>6 DEF PartOK, Closed
  <2> QED BY <1>2, <2>1, <2>2, <2>3, StepOnParts
<1>3. CASE Retry BY <1>0, <1>3 DEF Retry, PartOK, Closed
<1>4. CASE Supersede BY <1>0, <1>4 DEF Supersede, PartOK, Closed, OpenPartition
<1>5. CASE \/ \E d \in Doc : (\E s \in {"old", "new"} : AppWrite(d, s)) \/ AppDelete(d)
           \/ Pause \/ Resume \/ UnlockAll \/ (\E q \in Part : ExpireLease(q)) \/ UNCHANGED vars
  BY <1>1, <1>5 DEF AppWrite, AppDelete, Pause, Resume, UnlockAll, ExpireLease, vars
<1> QED BY <1>2, <1>3, <1>4, <1>5 DEF Next

\* Counters never decrease, cursors only go back where a commit landed unheard, and
\* closed partitions stay as they are.
THEOREM PartitionsMoveForward == Spec => MovedForward
<1>1. Init => CursorInv BY DEF Init, CursorInv, AtCursor, Idle, InSlice, InBatch
<1>2. Spec => [](TypeInv /\ ApartInv /\ CursorInv)
  <2>1. Init => ApartInv BY DEF Init, ApartInv, Leased, Idle
  <2> QED BY <1>1, <2>1, InitTypeInv, NextTypeInv, ApartStep, CursorStep, PTL DEF Spec
<1>3. TypeInv /\ CursorInv /\ [Next]_vars =>
        \A p \in Part :
          /\ \/ cursor'[p] >= cursor[p]
             \/ \E l \in Lane : lane[l].unheard /\ At(l) = p /\ Holds(l)
          /\ migrated'[p] >= migrated[p]
          /\ status[p] \in {"done", "failed", "superseded"} =>
               /\ cursor'[p] = cursor[p] /\ migrated'[p] = migrated[p]
               /\ status'[p] = status[p] \/ (status[p] = "failed" /\ status'[p] = "pending")
  BY MoveForward DEF Closed, SetsBack
<1> QED BY <1>2, <1>3, PTL DEF Spec, MovedForward

-----------------------------------------------------------------------------
(* Writes *)

\* What a lane remembers of a document is how it was: as long as its revision is
\* the same and it has the old shape, nothing of it has changed.
Knows(l) ==
  \A d \in Doc : lane[l].snap[d] # Unread =>
    /\ lane[l].snap[d].rev <= doc[d].rev
    /\ lane[l].snap[d].rev = doc[d].rev /\ doc[d].shape = "old" => lane[l].snap[d].val = doc[d].val

SnapInv == \A l \in Lane : Knows(l)

\* Every change of a document that leaves it in the old shape has a new revision.
DocsAdvance ==
  \A d \in Doc : \/ doc'[d] = doc[d]
                 \/ doc'[d].rev > doc[d].rev
                 \/ doc'[d].rev = doc[d].rev /\ doc'[d].shape = "gone"

\* Knowledge of unchanged revisions outlives every change.
LEMMA KnowsKept ==
  ASSUME TypeInv, TypeInv', NEW l \in Lane, Knows(l), DocsAdvance,
         lane'[l].snap \in {lane[l].snap, Idle.snap}
  PROVE  Knows(l)'
<1>1. CASE lane'[l].snap = Idle.snap BY <1>1 DEF Knows, Idle
<1>2. CASE lane'[l].snap = lane[l].snap
  <2> SUFFICES ASSUME NEW d \in Doc, lane[l].snap[d] # Unread
               PROVE  /\ lane[l].snap[d].rev <= doc'[d].rev
                      /\ lane[l].snap[d].rev = doc'[d].rev /\ doc'[d].shape = "old" =>
                           lane[l].snap[d].val = doc'[d].val
    BY <1>2 DEF Knows
  <2>1. lane[l].snap[d] \in Seen BY DEF TypeInv, TypeOK, LaneState
  <2>2. doc[d] \in [shape: {"old", "new", "gone"}, val: Nat, rev: Nat]
        /\ doc'[d] \in [shape: {"old", "new", "gone"}, val: Nat, rev: Nat]
    BY DEF TypeInv, TypeOK
  <2>3. lane[l].snap[d].rev \in Nat /\ doc[d].rev \in Nat /\ doc'[d].rev \in Nat
    BY <2>1, <2>2 DEF Seen
  <2>4. /\ lane[l].snap[d].rev <= doc[d].rev
        /\ lane[l].snap[d].rev = doc[d].rev /\ doc[d].shape = "old" =>
             lane[l].snap[d].val = doc[d].val
    BY DEF Knows
  <2> QED BY <2>3, <2>4 DEF DocsAdvance
<1> QED BY <1>1, <1>2

LEMMA SnapshotKnows ==
  ASSUME TypeInv, NEW l \in Lane, NEW S, lane'[l].snap = Snapshot(S), UNCHANGED doc
  PROVE  Knows(l)'
<1> SUFFICES ASSUME NEW d \in Doc, Snapshot(S)[d] # Unread
             PROVE  Snapshot(S)[d].rev <= doc[d].rev /\ Snapshot(S)[d].val = doc[d].val
  BY DEF Knows
<1>1. Snapshot(S)[d] = [val |-> doc[d].val, rev |-> doc[d].rev] BY DEF Snapshot
<1>2. doc[d].rev \in Nat BY DEF TypeInv, TypeOK
<1> QED BY <1>1, <1>2

\* What a lane remembers after a step of its own.
LEMMA StepOnSnap ==
  ASSUME TypeInv, NEW l \in Lane, Step(l) \/ Fails(l)
  PROVE  \/ lane'[l].snap \in {lane[l].snap, Idle.snap}
         \/ UNCHANGED doc /\ \E S : lane'[l].snap = Snapshot(S)
<1>0. LanesGood /\ lane \in [Lane -> LaneState] /\ lane[l] \in LaneState
  BY TypeInvParts DEF LanesGood
<1>1. ASSUME NEW r, Goes(l, r) PROVE lane'[l] = r BY <1>0, <1>1 DEF Goes
<1>2. ASSUME NEW r, Goes(l, r), r.snap \in {lane[l].snap, Idle.snap}
      PROVE  lane'[l].snap \in {lane[l].snap, Idle.snap}
  BY <1>1, <1>2
<1>3. CASE \/ NoClaim(l) \/ FailSlice(l) \/ FailState(l) \/ Crash(l)
  BY <1>2, <1>3 DEF NoClaim, FailSlice, FailState, Crash
<1>4. CASE Checkpoint(l) \/ TxnCommit(l)
  <2>1. AfterBatch(l).snap \in {lane[l].snap, Idle.snap} BY <1>0 DEF AfterBatch, LaneState
  <2> QED BY <1>2, <1>4, <2>1 DEF Checkpoint, TxnCommit
<1>5. CASE StartSlice(l) BY <1>0, <1>2, <1>5 DEF StartSlice, LaneState
<1>6. CASE Yield(l) BY <1>0, <1>2, <1>6 DEF Yield, LaneState
<1>7. CASE CheckpointFenced(l) BY <1>0, <1>2, <1>7 DEF CheckpointFenced, LaneState
<1>8. CASE TxnRetry(l) \/ TxnTooBig(l)
  <2>1. lane[l].pc = "write" BY <1>0, <1>8, TxnAgain
  <2>2. PICK r \in {Retried(l), TooBig(l), [TooBig(l) EXCEPT !.unheard = TRUE]} : Goes(l, r)
    BY <1>0, <1>8, TxnAgain
  <2>3. r.snap = lane[l].snap BY <1>0, <2>1, TriedAgain
  <2> QED BY <1>2, <2>2, <2>3
<1>9. CASE TxnInTheWay(l) BY <1>0, <1>2, <1>9 DEF TxnInTheWay, LaneState
<1>10. CASE FailPartition(l) BY <1>0, <1>2, <1>10 DEF FailPartition, LaneState
<1>11. CASE CheckpointFails(l) BY <1>0, <1>2, <1>11 DEF CheckpointFails, LaneState
<1>12. CASE TxnUnknown(l) BY <1>0, <1>2, <1>12 DEF TxnUnknown, LaneState
<1>13. CASE Write(l) BY <1>0, <1>2, <1>13 DEF Write, LaneState
<1>14. CASE Reread(l)
  <2> DEFINE again == Stale(l) # {} /\ lane[l].round < MaxRetries
             snap == IF again THEN Snapshot(Stale(l)) ELSE Idle.snap
  <2>1. Goes(l, [lane[l] EXCEPT !.pc = IF again THEN "write" ELSE "checkpoint",
                                !.good = @ \cup Counted(l),
                                !.snap = snap,
                                !.round = IF again THEN @ + 1 ELSE @,
                                !.left = IF again THEN @ ELSE Stale(l)])
    BY <1>14 DEF Reread
  <2>2. lane'[l].snap = snap
    <3> HIDE DEF snap, again
    <3> QED BY <1>0, <1>1, <2>1 DEF LaneState
  <2> QED BY <1>14, <2>2 DEF Reread
<1>15. CASE GoOn(l) BY <1>0, <1>2, <1>15 DEF GoOn, LaneState
<1>17. CASE Budget(l)
  <2> DEFINE over == [lane[l] EXCEPT !.pc = "release", !.why = "document"]
             next == [lane[l] EXCEPT !.pc = "control"]
  <2>1. Goes(l, over) \/ Goes(l, Idle) \/ Goes(l, next) BY <1>17 DEF Budget
  <2>2. over.snap = lane[l].snap /\ next.snap = lane[l].snap BY <1>0 DEF LaneState
  <2> QED BY <1>2, <2>1, <2>2
<1>18. CASE Release(l) \/ ReleaseFails(l)
  <2>1. \A pc : [lane[l] EXCEPT !.pc = pc].snap = lane[l].snap BY <1>0 DEF LaneState
  <2> QED BY <1>2, <1>18, <2>1 DEF Release, ReleaseFails
<1>19. ASSUME NEW s \in Slot, ClaimCollides(l, s) PROVE lane'[l].snap = lane[l].snap
  BY <1>0, <1>1, <1>19 DEF ClaimCollides, LaneState
<1>20. ASSUME NEW n \in 1..BatchSize, Read(l, n)
       PROVE  UNCHANGED doc /\ \E S : lane'[l].snap = Snapshot(S)
  <2> DEFINE read == FirstOf(Matching(l), n)
  <2>1. lane'[l] = [lane[l] EXCEPT !.pc = "write", !.limit = n, !.batch = read,
                                   !.snap = Snapshot(read \ lane[l].failed)]
    BY <1>1, <1>20 DEF Read
  <2>2. lane'[l].snap = Snapshot(read \ lane[l].failed)
    <3> HIDE DEF read
    <3> QED BY <1>0, <2>1 DEF LaneState
  <2> QED BY <1>20, <2>2 DEF Read
<1>21. ASSUME NEW d \in Doc, TxnDocError(l, d) PROVE lane'[l].snap = lane[l].snap
  BY <1>0, <1>1, <1>21 DEF TxnDocError, LaneState
<1>22. ASSUME NEW S \in SUBSET Doc, WriteFails(l, S) PROVE lane'[l].snap = lane[l].snap
  BY <1>0, <1>1, <1>22 DEF WriteFails, LaneState
<1>23. ASSUME NEW s \in Slot, NEW p \in Part, NEW t \in Token, ClaimOne(l, p, s, t)
       PROVE  lane'[l].snap = Idle.snap
  BY <1>23, ClaimOnLanes
<1> QED
  BY <1>3, <1>4, <1>5, <1>6, <1>7, <1>8, <1>9, <1>10, <1>11, <1>12, <1>13, <1>14, <1>15, <1>17,
     <1>18, <1>19, <1>20, <1>21, <1>22, <1>23
  DEF Step, Fails

\* What a lane writes is what the transformation makes of the document as it is.
LEMMA AppliedIsRewrite ==
  ASSUME TypeInv, SnapInv, NEW l \in Lane, NEW S \in SUBSET Matched(l), doc' = Applied(l, S)
  PROVE  Collection!Rewrite(S) /\ DocsAdvance
<1>1. S \subseteq Doc BY DEF Matched, Pending, Todo
<1>2. ASSUME NEW d \in S
      PROVE  /\ doc[d].shape = "old" /\ doc[d].rev \in Nat
             /\ lane[l].snap[d].val = doc[d].val
  <2>1. lane[l].snap[d] # Unread /\ doc[d].shape = "old" /\ doc[d].rev = lane[l].snap[d].rev
    BY DEF Matched, Unchanged, Pending, Todo
  <2>2. lane[l].snap[d].val = doc[d].val BY <1>1, <2>1 DEF SnapInv, Knows
  <2> QED BY <1>1, <2>1, <2>2 DEF TypeInv, TypeOK
<1>3. Applied(l, S) = [d \in Doc |-> IF d \in S THEN Collection!Rewritten(doc[d]) ELSE doc[d]]
  BY <1>2 DEF Applied, Collection!Rewritten
<1>4. DocsAdvance BY <1>2 DEF DocsAdvance, Applied
<1> QED BY <1>1, <1>2, <1>3, <1>4 DEF Collection!Rewrite

LEMMA AppAdvances ==
  ASSUME TypeInv, NEW d \in Doc, (\E s \in {"old", "new"} : AppWrite(d, s)) \/ AppDelete(d)
  PROVE  DocsAdvance
<1>1. doc \in [Doc -> [shape: {"old", "new", "gone"}, val: Nat, rev: Nat]] BY DEF TypeInv, TypeOK
<1>2. CASE AppDelete(d)
  <2>1. doc' = [doc EXCEPT ![d].shape = "gone"] BY <1>2 DEF AppDelete
  <2>2. doc'[d].rev = doc[d].rev /\ doc'[d].shape = "gone" BY <1>1, <2>1
  <2>3. \A e \in Doc \ {d} : doc'[e] = doc[e] BY <1>1, <2>1
  <2> QED BY <2>2, <2>3 DEF DocsAdvance
<1>3. ASSUME NEW s \in {"old", "new"}, AppWrite(d, s) PROVE DocsAdvance
  <2>1. doc' = [doc EXCEPT ![d] = [shape |-> s, val |-> @.val + 1, rev |-> @.rev + 1]]
    BY <1>3 DEF AppWrite
  <2>2. doc'[d].rev > doc[d].rev BY <1>1, <2>1
  <2>3. \A e \in Doc \ {d} : doc'[e] = doc[e] BY <1>1, <2>1
  <2> QED BY <2>2, <2>3 DEF DocsAdvance
<1> QED BY <1>2, <1>3

\* Every step is a step of the collection, or leaves it alone.
LEMMA CollectionStep ==
  TypeInv /\ SnapInv /\ [Next]_vars => DocsAdvance /\ [Collection!Next]_doc
<1> SUFFICES ASSUME TypeInv, SnapInv, [Next]_vars PROVE DocsAdvance /\ [Collection!Next]_doc
  OBVIOUS
<1>1. CASE UNCHANGED doc BY <1>1 DEF DocsAdvance
<1>2. ASSUME NEW l \in Lane, Step(l) \/ Fails(l) PROVE DocsAdvance /\ [Collection!Next]_doc
  <2>1. PICK S \in SUBSET Matched(l) : doc' = Applied(l, S) BY <1>2, StepOnDocs
  <2>2. S \in SUBSET Doc BY DEF Matched, Pending, Todo
  <2> QED BY <2>1, <2>2, AppliedIsRewrite DEF Collection!Next
<1>3. ASSUME NEW d \in Doc, (\E s \in {"old", "new"} : AppWrite(d, s)) \/ AppDelete(d)
      PROVE  DocsAdvance /\ [Collection!Next]_doc
  <2>1. (\E s \in {"old", "new"} : Collection!Write(d, s)) \/ Collection!Delete(d)
    BY <1>3 DEF AppWrite, AppDelete, Collection!Write, Collection!Delete
  <2> QED BY <1>3, <2>1, AppAdvances DEF Collection!Next
<1>4. CASE \/ Pause \/ Resume \/ Retry \/ Supersede \/ UnlockAll \/ (\E p \in Part : ExpireLease(p))
           \/ UNCHANGED vars
  BY <1>1, <1>4 DEF Pause, Resume, Retry, Supersede, UnlockAll, ExpireLease, vars
<1> QED BY <1>2, <1>3, <1>4 DEF Next

LEMMA SnapStep == TypeInv /\ SnapInv /\ [Next]_vars => SnapInv'
<1> SUFFICES ASSUME TypeInv, SnapInv, [Next]_vars, NEW m \in Lane PROVE Knows(m)'
  BY DEF SnapInv
<1>0. TypeInv' /\ Knows(m) /\ DocsAdvance BY NextTypeInv, CollectionStep DEF SnapInv
<1>1. CASE lane'[m].snap \in {lane[m].snap, Idle.snap} BY <1>0, <1>1, KnowsKept
<1>2. ASSUME NEW l \in Lane, Step(l) \/ Fails(l), m # l PROVE Knows(m)'
  <2>1. lane'[m] = lane[m] BY <1>2, StepOnLanes, ClaimOnLanes DEF Keeps
  <2> QED BY <1>1, <2>1
<1>3. CASE Step(m) \/ Fails(m) BY <1>1, <1>3, StepOnSnap, SnapshotKnows
<1>4. CASE UNCHANGED lane BY <1>1, <1>4
<1>5. CASE \/ \E d \in Doc : (\E s \in {"old", "new"} : AppWrite(d, s)) \/ AppDelete(d)
           \/ Pause \/ Resume \/ Retry \/ Supersede \/ UnlockAll \/ (\E p \in Part : ExpireLease(p))
           \/ UNCHANGED vars
  BY <1>4, <1>5
  DEF AppWrite, AppDelete, Pause, Resume, Retry, Supersede, UnlockAll, ExpireLease, vars
<1> QED BY <1>2, <1>3, <1>5 DEF Next

\* The documents are a versioned collection: lanes and the application write them
\* in atomic steps that carry one another's changes along.
THEOREM LanesRewriteAtomically == Spec => RewritesAtomic
<1>1. Init => SnapInv /\ Collection!Init
  BY DEF Init, SnapInv, Knows, Idle, Collection!Init
<1>2. Spec => [](TypeInv /\ SnapInv)
  BY <1>1, InitTypeInv, NextTypeInv, SnapStep, PTL DEF Spec
<1> QED BY <1>1, <1>2, CollectionStep, PTL DEF Spec, RewritesAtomic, Collection!Spec


=============================================================================
