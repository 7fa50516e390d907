----------------------- MODULE BackgroundBatches_proofs -----------------------
(***************************************************************************)
(* Proofs about the batches of BackgroundLanes: no document is skipped and *)
(* none is counted twice.                                                  *)
(***************************************************************************)
EXTENDS BackgroundLanes_proofs

-----------------------------------------------------------------------------
(* The batch query *)

\* A finite set of numbers that is not empty has a least element.
LEMMA FiniteHasFirst ==
  ASSUME NEW S \in SUBSET Nat, IsFiniteSet(S), S # {}
  PROVE  \E m \in S : \A e \in S : m <= e
<1> DEFINE HasFirst(X) == \E m \in X : \A e \in X : m <= e
           T == {X \in FiniteSubsetsOf(Nat) : X # {} /\ ~HasFirst(X)}
<1>1. SUFFICES ASSUME T # {} PROVE FALSE
  <2>1. T = {} OBVIOUS
  <2> QED BY <2>1 DEF FiniteSubsetsOf
<1>2. PICK X \in T : \A Y \in T : ~(<<Y, X>> \in StrictSubsetOrdering(Nat))
  <2>1. T \subseteq FiniteSubsetsOf(Nat) OBVIOUS
  <2>2. IsWellFoundedOn(StrictSubsetOrdering(Nat), FiniteSubsetsOf(Nat))
    BY FS_StrictSubsetOrderingWellFounded
  <2> HIDE DEF T
  <2> QED BY <2>1, <2>2, <1>1, WFMin
<1>3. X \in SUBSET Nat /\ IsFiniteSet(X) /\ X # {} /\ ~HasFirst(X) BY DEF FiniteSubsetsOf
<1>4. PICK x \in X : TRUE BY <1>3
<1> DEFINE Y == X \ {x}
<1>5. IsFiniteSet(Y) BY <1>3, FS_Subset
<1>6. Y # {} BY <1>3, <1>4
<1>7. Y \in FiniteSubsetsOf(Nat) BY <1>3, <1>5 DEF FiniteSubsetsOf
<1>8. <<Y, X>> \in StrictSubsetOrdering(Nat) BY <1>3, <1>4 DEF StrictSubsetOrdering
<1>9. HasFirst(Y) BY <1>2, <1>6, <1>7, <1>8
<1> QED BY <1>9, <1>3, <1>4

\* What a batch leaves out lies behind all of it, and then the batch is full.
LEMMA FirstOfFacts ==
  ASSUME NEW S \in SUBSET Nat, IsFiniteSet(S), NEW n \in Nat, NEW d \in S \ FirstOf(S, n)
  PROVE  /\ \A e \in FirstOf(S, n) : e < d
         /\ Cardinality(FirstOf(S, n)) >= n
<1> DEFINE Below(x) == {e \in S : e < x}
           First == FirstOf(S, n)
           Rest == S \ First
<1>1. ASSUME NEW x PROVE IsFiniteSet(Below(x)) /\ Cardinality(Below(x)) \in Nat
  <2>1. Below(x) \in SUBSET S OBVIOUS
  <2> QED BY <2>1, FS_Subset, FS_CardinalityType
<1>2. \A x : x \in First <=> x \in S /\ Cardinality(Below(x)) < n BY DEF FirstOf
<1>3. \A x, e : e \in Below(x) <=> e \in S /\ e < x OBVIOUS
<1> HIDE DEF Below, First
<1>4. ASSUME NEW e \in First PROVE e < d
  <2>1. e \in S /\ d \in S /\ e # d BY <1>2 DEF First
  <2>2. SUFFICES ASSUME d < e PROVE FALSE BY <2>1
  <2>3. ASSUME NEW x \in Below(d) PROVE x \in Below(e)
    <3>1. x \in S /\ x < d BY <1>3
    <3>2. x \in Nat /\ d \in Nat /\ e \in Nat BY <2>1, <3>1
    <3>3. x < e BY <2>2, <3>1, <3>2
    <3> QED BY <1>3, <2>1, <3>1, <3>3
  <2>4. Cardinality(Below(d)) <= Cardinality(Below(e)) BY <1>1, <2>3, FS_Subset
  <2> QED BY <1>1, <1>2, <2>1, <2>4 DEF First
<1>5. Cardinality(First) >= n
  <2>1. Rest \in SUBSET S /\ First \in SUBSET S /\ d \in Rest BY <1>2 DEF First
  <2>2. IsFiniteSet(Rest) /\ IsFiniteSet(First) /\ Cardinality(First) \in Nat
    BY <2>1, FS_Subset, FS_CardinalityType
  <2>3. PICK m \in Rest : \A e \in Rest : m <= e BY <2>1, <2>2, FiniteHasFirst
  <2>4. ASSUME NEW x \in Below(m) PROVE x \in First
    <3>1. x \in S /\ x < m /\ m \in S BY <1>3, <2>1
    <3>2. x \notin Rest BY <2>3, <3>1
    <3> QED BY <3>1, <3>2
  <2>5. Cardinality(Below(m)) >= n BY <1>1, <1>2, <2>1, <2>3
  <2>6. Cardinality(Below(m)) <= Cardinality(First) BY <2>2, <2>4, FS_Subset
  <2> QED BY <1>1, <2>2, <2>5, <2>6
<1> QED BY <1>4, <1>5 DEF First

-----------------------------------------------------------------------------
(* What a lane has of its batch *)

Old(d) == doc[d].shape = "old"
Touched == rewritten \cup upgraded

\* Nothing of the old shape in front of a batch's end is missing from the batch.
Covers(l) ==
  \A d \in Scope[At(l)] : d > lane[l].from /\ Old(d) =>
    d \in lane[l].batch \/ (~Ended(l) /\ \A e \in lane[l].batch : e < d)

\* The documents of a batch that may still have the old shape.
Unfinished(l) ==
  CASE lane[l].pc = "write"  -> Todo(l) \cup lane[l].failed
    [] lane[l].pc = "reread" -> Pending(l) \cup lane[l].failed
    [] OTHER                 -> lane[l].failed \cup lane[l].left

BatchOK(l) ==
  /\ lane[l].pc = "read" => lane[l].good = {}
  /\ lane[l].pc \in InBatch =>
       /\ lane[l].batch \subseteq Scope[At(l)]
       /\ Todo(l) \subseteq lane[l].batch
       /\ lane[l].good \subseteq lane[l].batch \cap Touched
       /\ Covers(l)
       /\ \A d \in lane[l].batch : Old(d) => d \in Unfinished(l)
       /\ txn => lane[l].pc # "reread" /\ lane[l].good = {}

\* What was rewritten or upgraded is what does not have the old shape, but for
\* deleted documents.
TouchInv ==
  \A d \in Doc : /\ d \in Touched => ~Old(d)
                 /\ doc[d].shape = "new" => d \in Touched

BatchInv == TouchInv /\ \A l \in Lane : BatchOK(l)

-----------------------------------------------------------------------------
(* Documents only leave the old shape *)

\* What everybody may rely on between its own steps.
Leaving ==
  /\ \A d \in Doc : Old(d)' => Old(d)
  /\ Touched \subseteq Touched'
  /\ UNCHANGED txn

LEMMA AppTouches ==
  ASSUME TypeInv, TouchInv, NEW d \in Doc,
         (\E s \in {"old", "new"} : AppWrite(d, s)) \/ AppDelete(d)
  PROVE  Leaving /\ TouchInv'
<1>1. doc \in [Doc -> [shape: {"old", "new", "gone"}, val: Nat, rev: Nat]] BY DEF TypeInv, TypeOK
<1>2. CASE AppDelete(d)
  <2>1. doc' = [doc EXCEPT ![d].shape = "gone"] /\ UNCHANGED <<rewritten, upgraded, txn>>
    BY <1>2 DEF AppDelete, pastVars
  <2>2. doc'[d].shape = "gone" /\ \A e \in Doc \ {d} : doc'[e] = doc[e] BY <1>1, <2>1
  <2> QED BY <2>1, <2>2 DEF Leaving, TouchInv, Old, Touched
<1>3. ASSUME NEW s \in {"old", "new"}, AppWrite(d, s) PROVE Leaving /\ TouchInv'
  <2>1. /\ doc' = [doc EXCEPT ![d] = [shape |-> s, val |-> @.val + 1, rev |-> @.rev + 1]]
        /\ s \in {doc[d].shape, "new"}
        /\ upgraded' = IF s # doc[d].shape THEN upgraded \cup {d} ELSE upgraded
        /\ UNCHANGED <<rewritten, txn>>
    BY <1>3 DEF AppWrite
  <2>2. doc'[d].shape = s /\ \A e \in Doc \ {d} : doc'[e] = doc[e] BY <1>1, <2>1
  <2> QED BY <2>1, <2>2 DEF Leaving, TouchInv, Old, Touched
<1> QED BY <1>2, <1>3

LEMMA LaneTouches ==
  ASSUME TypeInv, TouchInv, NEW l \in Lane, Step(l) \/ Fails(l)
  PROVE  Leaving /\ TouchInv'
<1>1. PICK S \in SUBSET Matched(l) : /\ doc' = Applied(l, S) /\ rewritten' = rewritten \cup S
                                     /\ UNCHANGED <<upgraded, txn>>
  BY StepOnDocs
<1>2. S \subseteq Doc BY DEF Matched, Pending, Todo
<1>3. \A d \in S : doc'[d].shape = "new" BY <1>1, <1>2 DEF Applied
<1>4. \A d \in Doc \ S : doc'[d] = doc[d] BY <1>1 DEF Applied
<1> QED BY <1>1, <1>3, <1>4 DEF Leaving, TouchInv, Old, Touched

LEMMA NextTouches == TypeInv /\ TouchInv /\ [Next]_vars => Leaving /\ TouchInv'
<1> SUFFICES ASSUME TypeInv, TouchInv, [Next]_vars PROVE Leaving /\ TouchInv' OBVIOUS
<1>1. CASE UNCHANGED <<doc, rewritten, upgraded, txn>>
  BY <1>1 DEF Leaving, TouchInv, Old, Touched
<1>2. CASE \/ Pause \/ Resume \/ Retry \/ Supersede \/ UnlockAll \/ (\E p \in Part : ExpireLease(p))
           \/ UNCHANGED vars
  BY <1>1, <1>2
  DEF Pause, Resume, Retry, Supersede, UnlockAll, ExpireLease, vars, pastVars
<1> QED BY <1>2, AppTouches, LaneTouches DEF Next

\* A batch is as it was after a step of anybody else.
LEMMA BatchKept ==
  ASSUME TypeInv, NEW l \in Lane, BatchOK(l), Leaving, lane'[l] = lane[l]
  PROVE  BatchOK(l)'
<1>1. CASE lane[l].pc = "read" BY <1>1 DEF BatchOK, InBatch
<1>2. CASE lane[l].pc \notin InBatch /\ lane[l].pc # "read" BY <1>2 DEF BatchOK
<1>3. CASE lane[l].pc \in InBatch
  <2>1. At(l)' = At(l) /\ Ended(l)' = Ended(l) /\ Todo(l)' = Todo(l) /\ Pending(l)' = Pending(l)
        /\ Unfinished(l)' = Unfinished(l)
    BY DEF At, Ended, Todo, Pending, Unfinished
  <2>2. Scope[At(l)] \subseteq Doc
    BY <1>3, BusyGood, TypeInvParts, ScopeAssumption DEF InBatch, At
  <2>3. Covers(l)' BY <1>3, <2>1, <2>2 DEF BatchOK, Covers, Leaving
  <2>4. \A d \in lane[l].batch : Old(d)' => d \in Unfinished(l)'
    BY <1>3, <2>1, <2>2 DEF BatchOK, Leaving
  <2> QED BY <1>3, <2>1, <2>3, <2>4 DEF BatchOK, Leaving, InBatch
<1> QED BY <1>1, <1>2, <1>3

-----------------------------------------------------------------------------
(* A lane's own batch *)

LEMMA ReadBatch ==
  ASSUME TypeInv, NEW l \in Lane, BatchOK(l), NEW n \in 1..BatchSize, Read(l, n)
  PROVE  BatchOK(l)'
<1> DEFINE M == Matching(l)
           B == FirstOf(M, n)
<1>0. LanesGood /\ lane \in [Lane -> LaneState] /\ lane[l] \in LaneState /\ n \in Nat
  BY TypeInvParts, SettingsAssumption DEF LanesGood
<1>1. lane[l].pc = "read" /\ UNCHANGED <<doc, rewritten, upgraded, txn>>
  BY DEF Read, pastVars
<1>2. lane' = [lane EXCEPT ![l] = [lane[l] EXCEPT !.pc = "write", !.limit = n, !.batch = B,
                                                  !.snap = Snapshot(B \ lane[l].failed)]]
  BY DEF Read, Goes
<1>3. At(l) \in Part /\ Scope[At(l)] \subseteq Doc
  BY <1>0, <1>1, BusyGood, ScopeAssumption DEF At
<1>4. M \subseteq Scope[At(l)] /\ M \in SUBSET Nat /\ IsFiniteSet(M) /\ B \subseteq M
  BY <1>3, DocAssumption, FS_Subset DEF Matching, FirstOf
<1>5. \A d \in M \ B : (\A e \in B : e < d) /\ Cardinality(B) >= n
  BY <1>0, <1>4, FirstOfFacts
<1>6. Cardinality(B) \in Nat BY <1>4, FS_Subset, FS_CardinalityType
<1>7. \A d \in Scope[At(l)] : d > lane[l].from /\ Old(d) => d \in M BY DEF Matching, Old
<1> DEFINE N == Snapshot(B \ lane[l].failed)
<1>8. \A d \in Doc : N[d] # Unread <=> d \in B \ lane[l].failed
  <2>1. Unread.val = -1 BY DEF Unread
  <2>2. \A d \in Doc : doc[d].val \in Nat BY DEF TypeInv, TypeOK
  <2> QED BY <2>1, <2>2 DEF Snapshot
<1> HIDE DEF B, M, N
<1>9. /\ lane'[l].pc = "write" /\ lane'[l].limit = n /\ lane'[l].batch = B /\ lane'[l].snap = N
      /\ lane'[l].part = lane[l].part /\ lane'[l].from = lane[l].from
      /\ lane'[l].failed = lane[l].failed /\ lane'[l].good = lane[l].good
  BY <1>0, <1>2 DEF LaneState, N
<1>10. At(l)' = At(l) BY <1>9 DEF At
<1>11. Todo(l)' = B \ lane[l].failed BY <1>3, <1>4, <1>8, <1>9 DEF Todo
<1>12. Covers(l)'
  <2>1. Ended(l)' = (Cardinality(B) < n) BY <1>9 DEF Ended
  <2>2. ASSUME NEW d \in Scope[At(l)], d > lane[l].from, Old(d), d \notin B
        PROVE  ~(Cardinality(B) < n) /\ \A e \in B : e < d
    <3>1. d \in M \ B BY <1>7, <2>2
    <3> QED BY <1>0, <1>5, <1>6, <3>1
  <2> QED BY <1>1, <1>9, <1>10, <2>1, <2>2 DEF Covers, Old
<1>13. lane[l].good = {} BY <1>1 DEF BatchOK
<1> QED BY <1>1, <1>4, <1>9, <1>10, <1>11, <1>12, <1>13 DEF BatchOK, InBatch, Unfinished, Touched

\* A lane that goes on with its batch: only what may be unfinished changes.
LEMMA BatchContinues ==
  ASSUME TypeInv, NEW l \in Lane, BatchOK(l), Leaving, lane[l].pc \in InBatch,
         lane'[l].part = lane[l].part, lane'[l].from = lane[l].from,
         lane'[l].batch = lane[l].batch, lane'[l].limit = lane[l].limit,
         lane'[l].pc \in InBatch, Todo(l)' \subseteq Todo(l),
         lane'[l].good \subseteq lane[l].batch \cap Touched',
         txn => lane'[l].pc # "reread" /\ lane'[l].good = {},
         \A d \in lane[l].batch : Old(d)' => d \in Unfinished(l)'
  PROVE  BatchOK(l)'
<1>1. At(l)' = At(l) /\ Ended(l)' = Ended(l) BY DEF At, Ended
<1>2. Scope[At(l)] \subseteq Doc
  BY BusyGood, TypeInvParts, ScopeAssumption DEF InBatch, At
<1>3. Covers(l)' BY <1>1, <1>2 DEF BatchOK, Covers, Leaving
<1>4. Todo(l)' \subseteq lane[l].batch BY DEF BatchOK
<1> QED BY <1>1, <1>3, <1>4 DEF BatchOK, Leaving, InBatch

LEMMA WriteBatch ==
  ASSUME TypeInv, TouchInv, NEW l \in Lane, BatchOK(l), Write(l)
  PROVE  BatchOK(l)'
<1> DEFINE all == Matched(l) = Pending(l)
           M == Matched(l)
<1>0. lane \in [Lane -> LaneState] /\ lane[l] \in LaneState BY TypeInvParts DEF LanesGood
<1>1. /\ lane[l].pc = "write" /\ ~txn /\ doc' = Applied(l, M) /\ rewritten' = rewritten \cup M
      /\ UNCHANGED <<upgraded, txn>>
      /\ lane' = [lane EXCEPT ![l] = [lane[l] EXCEPT !.pc = IF all THEN "checkpoint" ELSE "reread",
                                                     !.good = IF all THEN @ \cup M ELSE @,
                                                     !.failed = @ \cup (Todo(l) \cap Poison)]]
  BY DEF Write, Goes
<1>2. Leaving BY LaneTouches DEF Step
<1>3. M \subseteq Pending(l) /\ Pending(l) = Todo(l) \ Poison /\ Todo(l) \subseteq Doc
  BY DEF Matched, Pending, Todo
<1>4. \A d \in M : ~Old(d)' BY <1>1, <1>3 DEF Applied, Old
<1> HIDE DEF all, M
<1>5. /\ lane'[l].pc = (IF all THEN "checkpoint" ELSE "reread")
      /\ lane'[l].good = (IF all THEN lane[l].good \cup M ELSE lane[l].good)
      /\ lane'[l].failed = lane[l].failed \cup (Todo(l) \cap Poison)
      /\ lane'[l].part = lane[l].part /\ lane'[l].from = lane[l].from
      /\ lane'[l].batch = lane[l].batch /\ lane'[l].limit = lane[l].limit
      /\ lane'[l].snap = lane[l].snap /\ lane'[l].left = lane[l].left
  BY <1>0, <1>1 DEF LaneState
<1>6. Todo(l)' = Todo(l) /\ Pending(l)' = Pending(l) BY <1>5 DEF Todo, Pending
<1>7. lane[l].good \subseteq lane[l].batch \cap Touched /\ Todo(l) \subseteq lane[l].batch
  BY <1>1 DEF BatchOK, InBatch
<1>8. lane'[l].good \subseteq lane[l].batch \cap Touched' BY <1>1, <1>3, <1>5, <1>7 DEF Touched
<1>9. ASSUME NEW d \in lane[l].batch, Old(d)' PROVE d \in Unfinished(l)'
  <2>1. Old(d) /\ d \notin M
    <3>1. d \in Doc BY <1>0 DEF LaneState
    <3> QED BY <1>2, <1>4, <1>9, <3>1 DEF Leaving
  <2>2. d \in Todo(l) \cup lane[l].failed BY <1>1, <2>1 DEF BatchOK, InBatch, Unfinished
  <2>3. CASE all
    <3>1. d \notin Pending(l) BY <2>1, <2>3 DEF all, M
    <3> QED BY <1>3, <1>5, <2>2, <2>3, <3>1 DEF Unfinished
  <2>4. CASE ~all BY <1>3, <1>5, <1>6, <2>2, <2>4 DEF Unfinished
  <2> QED BY <2>3, <2>4
<1>10. lane'[l].pc \in InBatch /\ lane[l].pc \in InBatch BY <1>1, <1>5 DEF InBatch
<1> QED BY <1>1, <1>2, <1>5, <1>6, <1>8, <1>9, <1>10, BatchContinues

LEMMA RereadBatch ==
  ASSUME TypeInv, TouchInv, NEW l \in Lane, BatchOK(l), Reread(l)
  PROVE  BatchOK(l)'
<1> DEFINE again == Stale(l) # {} /\ lane[l].round < MaxRetries
           N == IF again THEN Snapshot(Stale(l)) ELSE Idle.snap
           n == IF again THEN lane[l].round + 1 ELSE lane[l].round
<1>0. lane \in [Lane -> LaneState] /\ lane[l] \in LaneState BY TypeInvParts DEF LanesGood
<1>1. /\ lane[l].pc = "reread" /\ UNCHANGED <<doc, rewritten, upgraded, txn>>
      /\ lane' = [lane EXCEPT ![l] = [lane[l] EXCEPT !.pc = IF again THEN "write" ELSE "checkpoint",
                                                     !.good = @ \cup Counted(l), !.snap = N,
                                                     !.round = n,
                                                     !.left = IF again THEN @ ELSE Stale(l)]]
  BY DEF Reread, Goes, pastVars
<1>2. Leaving BY <1>1 DEF Leaving, Old, Touched
<1>3. Stale(l) \subseteq Pending(l) /\ Pending(l) \subseteq Todo(l) /\ Todo(l) \subseteq Doc
      /\ Counted(l) \subseteq Pending(l)
  BY DEF Stale, Counted, Pending, Todo
<1>4. \A d \in Doc : N[d] # Unread <=> again /\ d \in Stale(l)
  <2>1. Unread.val = -1 BY DEF Unread
  <2>2. \A d \in Doc : doc[d].val \in Nat BY DEF TypeInv, TypeOK
  <2>3. \A d \in Doc : Snapshot(Stale(l))[d] # Unread <=> d \in Stale(l)
    BY <2>1, <2>2 DEF Snapshot
  <2>4. \A d \in Doc : Idle.snap[d] = Unread BY DEF Idle
  <2> QED BY <2>3, <2>4
<1> HIDE DEF again, N, n
<1>5. /\ lane'[l].pc = (IF again THEN "write" ELSE "checkpoint")
      /\ lane'[l].good = lane[l].good \cup Counted(l)
      /\ lane'[l].snap = N /\ lane'[l].left = (IF again THEN lane[l].left ELSE Stale(l))
      /\ lane'[l].part = lane[l].part /\ lane'[l].from = lane[l].from
      /\ lane'[l].batch = lane[l].batch /\ lane'[l].limit = lane[l].limit
      /\ lane'[l].failed = lane[l].failed
  BY <1>0, <1>1 DEF LaneState
<1>6. Todo(l)' = IF again THEN Stale(l) ELSE {} BY <1>3, <1>4, <1>5 DEF Todo
<1>7. lane[l].good \subseteq lane[l].batch \cap Touched /\ Todo(l) \subseteq lane[l].batch /\ ~txn
  BY <1>1 DEF BatchOK, InBatch
<1>8. Counted(l) \subseteq Touched BY <1>3 DEF Counted, TouchInv
<1>9. lane'[l].good \subseteq lane[l].batch \cap Touched'
  BY <1>1, <1>3, <1>5, <1>7, <1>8 DEF Touched
<1>10. ASSUME NEW d \in lane[l].batch, Old(d)' PROVE d \in Unfinished(l)'
  <2>1. Old(d) BY <1>1, <1>10 DEF Old
  <2>2. d \in Pending(l) \cup lane[l].failed BY <1>1, <2>1 DEF BatchOK, InBatch, Unfinished
  <2>3. d \in Stale(l) \cup lane[l].failed BY <2>1, <2>2 DEF Stale, Old
  <2> QED BY <1>5, <1>6, <2>3 DEF Unfinished
<1>11. lane'[l].pc \in InBatch /\ lane[l].pc \in InBatch BY <1>1, <1>5 DEF InBatch
<1>12. Todo(l)' \subseteq Todo(l) BY <1>3, <1>6
<1> QED BY <1>1, <1>2, <1>5, <1>7, <1>9, <1>10, <1>11, <1>12, BatchContinues

LEMMA InTheWayBatch ==
  ASSUME TypeInv, TouchInv, NEW l \in Lane, BatchOK(l), TxnInTheWay(l)
  PROVE  BatchOK(l)'
<1>0. lane \in [Lane -> LaneState] /\ lane[l] \in LaneState BY TypeInvParts DEF LanesGood
<1>1. /\ lane[l].pc = "write" /\ txn /\ UNCHANGED <<doc, rewritten, upgraded, txn>>
      /\ lane' = [lane EXCEPT ![l] = [lane[l] EXCEPT !.pc = "checkpoint", !.left = lane[l].batch,
                                                     !.failed = {}]]
  BY DEF TxnInTheWay, InTxn, Goes, pastVars
<1>2. /\ lane'[l].pc = "checkpoint" /\ lane'[l].left = lane[l].batch
      /\ lane'[l].part = lane[l].part /\ lane'[l].from = lane[l].from
      /\ lane'[l].batch = lane[l].batch /\ lane'[l].limit = lane[l].limit
      /\ lane'[l].snap = lane[l].snap /\ lane'[l].good = lane[l].good
  BY <1>0, <1>1 DEF LaneState
<1>3. Leaving BY <1>1 DEF Leaving, Old, Touched
<1>4. lane[l].good = {} BY <1>1 DEF BatchOK, InBatch
<1>5. Todo(l)' = Todo(l) BY <1>2 DEF Todo
<1>6. \A d \in lane[l].batch : d \in Unfinished(l)' BY <1>2 DEF Unfinished
<1>7. lane'[l].pc \in InBatch /\ lane[l].pc \in InBatch BY <1>1, <1>2 DEF InBatch
<1>8. /\ lane'[l].good \subseteq lane[l].batch \cap Touched'
      /\ txn => lane'[l].pc # "reread" /\ lane'[l].good = {}
  BY <1>2, <1>4
<1>9. \A d \in lane[l].batch : Old(d)' => d \in Unfinished(l)' BY <1>6
<1> QED BY <1>2, <1>3, <1>5, <1>7, <1>8, <1>9, BatchContinues

\* A transaction that is tried again has counted nothing.
LEMMA AgainBatch ==
  ASSUME TypeInv, NEW l \in Lane, BatchOK(l),
         TxnRetry(l) \/ TxnTooBig(l) \/ \E d \in Doc : TxnDocError(l, d)
  PROVE  BatchOK(l)'
<1>0. lane \in [Lane -> LaneState] /\ lane[l] \in LaneState BY TypeInvParts DEF LanesGood
<1>1. ASSUME NEW r, Goes(l, r) PROVE lane'[l] = r BY <1>0, <1>1 DEF Goes
<1>2. lane[l].pc = "write" /\ txn BY DEF TxnRetry, TxnTooBig, TxnDocError, InTxn
<1>3. lane[l].good = {} BY <1>2 DEF BatchOK, InBatch
<1>4. SUFFICES lane'[l].pc \in {"read", "release"} /\ lane'[l].good = lane[l].good
  BY <1>3 DEF BatchOK, InBatch
<1>5. CASE TxnRetry(l) \/ TxnTooBig(l)
  <2>1. LanesGood BY TypeInvParts
  <2>2. PICK r \in {Retried(l), TooBig(l), [TooBig(l) EXCEPT !.unheard = TRUE]} : Goes(l, r)
    BY <1>5, <2>1, TxnAgain
  <2>3. r.pc \in {"read", "release"} /\ r.good = lane[l].good BY <1>2, <2>1, TriedAgain
  <2> QED BY <1>1, <2>2, <2>3
<1>7. ASSUME NEW d \in Doc, TxnDocError(l, d)
      PROVE  lane'[l].pc = "read" /\ lane'[l].good = lane[l].good
  BY <1>0, <1>1, <1>7 DEF TxnDocError, LaneState
<1> QED BY <1>5, <1>7

LEMMA OwnBatch ==
  ASSUME TypeInv, TouchInv, NEW l \in Lane, BatchOK(l), Step(l) \/ Fails(l)
  PROVE  BatchOK(l)'
<1>0. lane \in [Lane -> LaneState] /\ lane[l] \in LaneState BY TypeInvParts DEF LanesGood
<1>1. CASE lane'[l].pc \notin InBatch \cup {"read"} BY <1>1 DEF BatchOK
<1>2. CASE lane'[l].pc \notin InSlice BY <1>1, <1>2 DEF InSlice, InBatch
<1>3. CASE \E p \in Part, s \in Slot, t \in Token : ClaimOne(l, p, s, t)
  BY <1>1, <1>3, ClaimOnLanes DEF InBatch
<1>4. CASE lane'[l].pc = "control" BY <1>1, <1>4 DEF InBatch
<1>5. CASE Saves(l) /\ lane'[l] = AfterBatch(l)
  <2>1. AfterBatch(l).pc \in {"idle", "control", "budget"} BY <1>0 DEF AfterBatch, Idle, LaneState
  <2> QED BY <1>1, <1>5, <2>1 DEF InBatch
<1>6. CASE GoOn(l)
  <2>1. PICK n \in lane[l].limit .. BatchSize :
          lane' = [lane EXCEPT ![l] = [lane[l] EXCEPT !.pc = "read", !.good = {}, !.failed = {},
                                                      !.left = {}, !.round = 0, !.limit = n]]
    BY <1>6 DEF GoOn, Goes
  <2>2. lane'[l].pc = "read" /\ lane'[l].good = {} BY <1>0, <2>1 DEF LaneState
  <2> QED BY <2>2 DEF BatchOK, InBatch
<1>7. CASE Batching(l)
  BY <1>6, <1>7, WriteBatch, RereadBatch, AgainBatch, InTheWayBatch DEF Batching
<1>8. CASE Misses(l) /\ TxnTooBig(l) BY <1>8, AgainBatch
<1> QED BY <1>2, <1>3, <1>4, <1>5, <1>7, <1>8, StepOnCursor, ReadBatch

LEMMA BatchStep == TypeInv /\ BatchInv /\ [Next]_vars => BatchInv'
<1> SUFFICES ASSUME TypeInv, BatchInv, [Next]_vars PROVE BatchInv' OBVIOUS
<1>0. TouchInv /\ TouchInv' /\ Leaving BY NextTouches DEF BatchInv
<1>1. SUFFICES ASSUME NEW m \in Lane PROVE BatchOK(m)' BY <1>0 DEF BatchInv
<1>2. BatchOK(m) BY DEF BatchInv
<1>3. CASE lane'[m] = lane[m] BY <1>0, <1>2, <1>3, BatchKept
<1>4. CASE Step(m) \/ Fails(m) BY <1>0, <1>2, <1>4, OwnBatch
<1>5. ASSUME NEW l \in Lane, Step(l) \/ Fails(l), m # l PROVE BatchOK(m)'
  <2>1. lane'[m] = lane[m] BY <1>5, StepOnLanes, ClaimOnLanes DEF Keeps
  <2> QED BY <1>3, <2>1
<1>6. CASE \/ \E d \in Doc : (\E s \in {"old", "new"} : AppWrite(d, s)) \/ AppDelete(d)
           \/ Pause \/ Resume \/ Retry \/ Supersede \/ UnlockAll \/ (\E p \in Part : ExpireLease(p))
           \/ UNCHANGED vars
  BY <1>3, <1>6
  DEF AppWrite, AppDelete, Pause, Resume, Retry, Supersede, UnlockAll, ExpireLease, vars
<1> QED BY <1>4, <1>5, <1>6 DEF Next

LEMMA BatchInit == Init => BatchInv
BY DEF Init, BatchInv, TouchInv, BatchOK, Old, Touched, Idle, InBatch

-----------------------------------------------------------------------------
(* Nothing is skipped *)

\* What a step that saves a batch is sure of: it began at the cursor, or before it
\* in a transaction, and what it leaves in the old shape it has failed or left on
\* purpose.
LEMMA SavesFacts ==
  ASSUME TypeInv, CursorInv, BatchInv, NEW l \in Lane, Saves(l), Leaving
  PROVE  /\ lane[l].pc \in InBatch /\ BatchOK(l)
         /\ lane[l].from <= cursor[At(l)] /\ (~txn => lane[l].from = cursor[At(l)])
         /\ \A d \in lane[l].batch : d > lane[l].from
         /\ \A d \in lane[l].batch : Old(d)' => d \in lane[l].failed \cup lane[l].left
<1>1. lane[l].pc \in InBatch /\ BatchOK(l) BY SavesBusy DEF InBatch, BatchInv
<1>2. /\ lane[l].from <= cursor[At(l)] /\ (~txn => lane[l].from = cursor[At(l)])
      /\ \A d \in lane[l].batch : d > lane[l].from
  BY <1>1, SavesCursor DEF CursorInv, AtCursor, Holds, HoldsToken, InSlice, InBatch
<1>3. lane[l].batch \subseteq Doc BY TypeInvParts DEF LanesGood, LaneState
<1>4. \A d \in lane[l].batch : Old(d)' => Old(d) /\ d \in Unfinished(l)
  BY <1>1, <1>3 DEF BatchOK, Leaving
<1>5. CASE lane[l].pc = "checkpoint" BY <1>1, <1>2, <1>4, <1>5 DEF Unfinished
<1>6. CASE Commits(l)
  <2>1. lane[l].pc = "write" /\ Todo(l) = Matched(l) /\ doc' = Applied(l, Matched(l))
    BY <1>6 DEF Commits, InTxn
  <2>2. \A d \in Todo(l) : ~Old(d)' BY <2>1 DEF Applied, Old, Todo
  <2> QED BY <1>1, <1>2, <1>4, <2>1, <2>2 DEF Unfinished
<1> QED BY <1>5, <1>6 DEF Saves

LEMMA SkipStep ==
  TypeInv /\ CursorInv /\ BatchInv /\ NothingSkipped /\ [Next]_vars => NothingSkipped'
<1> SUFFICES ASSUME TypeInv, CursorInv, BatchInv, NothingSkipped, [Next]_vars,
                    NEW p \in Part, NEW d \in Scope[p],
                    d <= cursor'[p] \/ status'[p] = "done", Old(d)'
             PROVE  d \in bad'[p] \cup passed'
  BY DEF NothingSkipped, Old
<1>0. PartOK /\ LanesGood /\ Leaving /\ d \in Doc /\ Old(d)
  <2>1. Leaving BY NextTouches DEF BatchInv
  <2>2. d \in Doc BY ScopeAssumption
  <2> QED BY <2>1, <2>2, TypeInvParts DEF Leaving
<1>1. CASE UNCHANGED <<cursor, bad, passed>> /\ (status'[p] = "done" => status[p] = "done")
  BY <1>0, <1>1 DEF NothingSkipped, Old
<1>2. ASSUME NEW l \in Lane, Step(l) \/ Fails(l) PROVE d \in bad'[p] \cup passed'
  <2>1. CASE LeavesParts BY <1>1, <2>1 DEF LeavesParts
  <2>2. CASE \E q \in Part, s \in Slot, t \in Token : ClaimOne(l, q, s, t)
    <3>1. PICK q \in Part, s \in Slot, t \in Token : ClaimOne(l, q, s, t) BY <2>2
    <3>2. status'[p] = "done" => status[p] = "done" BY <1>0, <3>1 DEF ClaimOne, PartOK
    <3> QED BY <1>1, <3>1, <3>2 DEF ClaimOne, pastVars
  <2>3. CASE Saves(l)
    <3>1. PICK done : SaveBatch(l, done) BY <2>3, SavesBusy
    <3>2. /\ cursor' = [cursor EXCEPT ![At(l)] = NextFrom(l)]
          /\ bad' = [bad EXCEPT ![At(l)] = @ \cup lane[l].failed]
          /\ status' = [status EXCEPT ![At(l)] = IF Ended(l) THEN "done" ELSE @]
          /\ passed' = passed \cup lane[l].left /\ status[At(l)] = "running"
      BY <3>1 DEF SaveBatch, Holds
    <3>3. bad[p] \cup passed \subseteq bad'[p] \cup passed' BY <1>0, <3>2 DEF PartOK
    <3>4. CASE d <= cursor[p] \/ status[p] = "done" BY <1>0, <3>3, <3>4 DEF NothingSkipped, Old
    <3>5. CASE ~(d <= cursor[p]) /\ status[p] # "done"
      <4>1. p = At(l) BY <1>0, <3>2, <3>5 DEF PartOK
      <4>2. cursor[p] \in Nat /\ d \in Nat BY <1>0, DocAssumption DEF PartOK
      <4>3. d > lane[l].from
        <5>1. lane[l].from \in Nat BY <1>0 DEF LanesGood, LaneState
        <5>2. lane[l].from <= cursor[p] BY <1>0, <2>3, <4>1, SavesFacts
        <5> QED BY <3>5, <4>2, <5>1, <5>2
      <4>4. Ended(l) \/ d <= NextFrom(l) BY <1>0, <3>2, <3>5, <4>1 DEF PartOK
      <4>5. d \in lane[l].batch
        <5>1. Covers(l) BY <1>0, <2>3, SavesFacts DEF BatchOK
        <5>2. SUFFICES ASSUME ~Ended(l), \A e \in lane[l].batch : e < d PROVE FALSE
          BY <1>0, <4>1, <4>3, <5>1 DEF Covers
        <5>3. NextFrom(l) \in lane[l].batch BY <5>2, BatchLast DEF NextFrom, TypeInv
        <5>4. NextFrom(l) \in Nat BY NextFromType DEF TypeInv
        <5> QED BY <4>2, <4>4, <5>2, <5>3, <5>4
      <4>6. d \in lane[l].failed \cup lane[l].left BY <1>0, <2>3, <4>5, SavesFacts
      <4>7. lane[l].failed \subseteq bad'[p] BY <1>0, <3>2, <4>1 DEF PartOK
      <4> QED BY <3>2, <4>6, <4>7
    <3> QED BY <3>4, <3>5
  <2> QED BY <1>2, <2>1, <2>2, <2>3, StepOnParts
<1>3. CASE Retry
  <2>1. status'[p] = "done" => status[p] = "done" BY <1>0, <1>3 DEF Retry, PartOK
  <2> QED BY <1>1, <1>3, <2>1 DEF Retry, pastVars
<1>4. CASE Supersede
  <2>1. status'[p] = "done" => status[p] = "done" BY <1>0, <1>4 DEF Supersede, PartOK
  <2> QED BY <1>1, <1>4, <2>1 DEF Supersede, pastVars
<1>5. CASE \/ \E e \in Doc : (\E s \in {"old", "new"} : AppWrite(e, s)) \/ AppDelete(e)
           \/ Pause \/ Resume \/ UnlockAll \/ (\E q \in Part : ExpireLease(q)) \/ UNCHANGED vars
  BY <1>1, <1>5
  DEF AppWrite, AppDelete, Pause, Resume, UnlockAll, ExpireLease, vars, partVars, pastVars
<1> QED BY <1>2, <1>3, <1>4, <1>5 DEF Next

\* What the proofs of the batches stand on.
LanesInv == TypeInv /\ ApartInv /\ CursorInv /\ BatchInv

LEMMA LanesInvariant == Spec => []LanesInv
<1>1. Init => LanesInv
  <2>1. Init => ApartInv BY DEF Init, ApartInv, Leased, Idle
  <2>2. Init => CursorInv BY DEF Init, CursorInv, AtCursor, Idle, InSlice, InBatch
  <2> QED BY <2>1, <2>2, InitTypeInv, BatchInit DEF LanesInv
<1>2. LanesInv /\ [Next]_vars => LanesInv'
  BY NextTypeInv, ApartStep, CursorStep, BatchStep DEF LanesInv
<1> QED BY <1>1, <1>2, PTL DEF Spec

\* No lane steps over a document, whoever crashes, loses its lease or takes over.
THEOREM LanesSkipNothing == Spec => []NothingSkipped
<1>1. Init => NothingSkipped
  <2> SUFFICES ASSUME Init, NEW p \in Part, NEW d \in Scope[p],
                      d <= cursor[p] \/ status[p] = "done"
               PROVE  FALSE
    BY DEF NothingSkipped
  <2>1. d \in Nat \ {0} BY ScopeAssumption, DocAssumption
  <2> QED BY <2>1 DEF Init
<1>2. LanesInv /\ NothingSkipped /\ [Next]_vars => NothingSkipped' BY SkipStep DEF LanesInv
<1> QED BY <1>1, <1>2, LanesInvariant, PTL DEF Spec

-----------------------------------------------------------------------------
(* Nothing is counted twice *)

\* The documents that a partition's counter may have counted.
Countable(p) == {d \in Scope[p] \cap Touched : d <= cursor[p] \/ status[p] = "done"}

\* Without a transaction a counter is bounded, in one it is exact.
CountAt(p) ==
  /\ ~txn => migrated[p] <= Cardinality(Countable(p))
  /\ txn => migrated[p] = Cardinality(Scope[p] \cap rewritten)

CountInv == \A p \in Part : CountAt(p)

LEMMA PartsFinite ==
  ASSUME NEW p \in Part, NEW S \in SUBSET Scope[p]
  PROVE  IsFiniteSet(S) /\ Cardinality(S) \in Nat
<1>1. S \in SUBSET Doc BY ScopeAssumption
<1> QED BY <1>1, DocAssumption, FS_Subset, FS_CardinalityType

LEMMA DisjointCardinality ==
  ASSUME NEW S, NEW T, IsFiniteSet(S), IsFiniteSet(T), S \cap T = {}
  PROVE  Cardinality(S \cup T) = Cardinality(S) + Cardinality(T)
<1>1. Cardinality(S) \in Nat /\ Cardinality(T) \in Nat BY FS_CardinalityType
<1>2. Cardinality(S \cap T) = 0 BY FS_EmptySet
<1>3. Cardinality(S \cup T) = Cardinality(S) + Cardinality(T) - Cardinality(S \cap T) BY FS_Union
<1> QED BY <1>1, <1>2, <1>3

LEMMA CountKept ==
  ASSUME TypeInv, TypeInv', NEW p \in Part, CountAt(p), Leaving,
         cursor'[p] = cursor[p], migrated'[p] = migrated[p],
         status[p] = "done" => status'[p] = "done",
         txn => Scope[p] \cap rewritten' = Scope[p] \cap rewritten
  PROVE  CountAt(p)'
<1>1. Countable(p) \in SUBSET (Countable(p)') BY DEF Countable, Leaving
<1>2. Countable(p)' \in SUBSET Scope[p] /\ Countable(p) \in SUBSET Scope[p] BY DEF Countable
<1>3. Cardinality(Countable(p)) <= Cardinality(Countable(p)') BY <1>1, <1>2, PartsFinite, FS_Subset
<1>4. migrated[p] \in Nat BY DEF TypeInv, TypeOK
<1>5. ~txn => migrated'[p] <= Cardinality(Countable(p)')
  BY <1>2, <1>3, <1>4, PartsFinite DEF CountAt
<1> QED BY <1>5 DEF CountAt, Leaving

\* What a batch counts is new to the counter.
LEMMA CountSaved ==
  ASSUME TypeInv, CursorInv, BatchInv, CountInv, NEW l \in Lane, Saves(l), Leaving,
         NEW p \in Part, p = At(l)
  PROVE  CountAt(p)'
<1>0. PartOK /\ p \in Part /\ CountAt(p) /\ cursor[p] \in Nat /\ migrated[p] \in Nat
  BY SavesCursor, TypeInvParts DEF CountInv, PartOK
<1>1. /\ BatchOK(l) /\ lane[l].pc \in InBatch
      /\ ~txn => lane[l].from = cursor[p] /\ \A d \in lane[l].batch : d > cursor[p]
  BY SavesFacts
<1>2. /\ lane[l].batch \subseteq Scope[p] /\ Todo(l) \subseteq lane[l].batch
      /\ lane[l].good \subseteq lane[l].batch \cap Touched
      /\ txn => lane[l].good = {}
      /\ Scope[p] \subseteq Nat
  BY <1>0, <1>1, ScopeAssumption, DocAssumption DEF BatchOK
<1>3. PICK done : /\ SaveBatch(l, done) /\ done \subseteq lane[l].batch \cap Touched'
                  /\ txn => /\ Scope[p] \cap rewritten' = (Scope[p] \cap rewritten) \cup done
                            /\ (Scope[p] \cap rewritten) \cap done = {}
  <2>1. CASE lane[l].pc = "checkpoint" /\ SaveBatch(l, lane[l].good) /\ UNCHANGED <<rewritten, upgraded>>
    <3>1. Touched' = Touched BY <2>1 DEF Touched
    <3> QED BY <1>2, <2>1, <3>1
  <2>2. CASE Commits(l)
    <3>1. SaveBatch(l, Matched(l)) /\ rewritten' = rewritten \cup Matched(l)
      BY <2>2 DEF Commits
    <3>2. Matched(l) \subseteq Todo(l) /\ \A d \in Matched(l) : d \in Doc /\ Old(d)
      BY DEF Matched, Pending, Todo, Unchanged, Old
    <3>3. rewritten \cap Matched(l) = {} BY <3>2 DEF BatchInv, TouchInv, Touched
    <3> QED BY <1>2, <3>1, <3>2, <3>3 DEF Touched
  <2> QED BY <2>1, <2>2 DEF Saves
<1>4. /\ cursor'[p] = NextFrom(l) /\ migrated'[p] = migrated[p] + Cardinality(done)
      /\ status[p] = "running" /\ (Ended(l) => status'[p] = "done")
  BY <1>0, <1>3 DEF SaveBatch, Holds, PartOK
<1>5. done \in SUBSET Scope[p] BY <1>2, <1>3
<1>6. Scope[p] \cap rewritten \in SUBSET Scope[p] OBVIOUS
<1>7. /\ IsFiniteSet(done) /\ Cardinality(done) \in Nat
       /\ IsFiniteSet(Scope[p] \cap rewritten) /\ Cardinality(Scope[p] \cap rewritten) \in Nat
  BY <1>0, <1>5, <1>6, PartsFinite
<1>8. ASSUME ~txn PROVE migrated'[p] <= Cardinality(Countable(p)')
  <2> DEFINE C == Countable(p)
  <2>1. NextFrom(l) \in Nat /\ NextFrom(l) >= cursor[p]
    BY <1>1, <1>8, NextFromType DEF TypeInv
  <2>2. \A d \in done : d <= cursor'[p] \/ status'[p] = "done"
    <3>1. CASE Ended(l) BY <1>4, <3>1
    <3>2. CASE ~Ended(l) BY <1>3, <1>4, <3>2, BatchLast DEF NextFrom, TypeInv
    <3> QED BY <3>1, <3>2
  <2>3. done \subseteq Countable(p)' BY <1>3, <1>5, <2>2 DEF Countable
  <2>4. C \subseteq Countable(p)'
    <3> SUFFICES ASSUME NEW d \in C PROVE d \in Countable(p)' OBVIOUS
    <3>1. d \in Scope[p] \cap Touched /\ d <= cursor[p] /\ d \in Nat
      BY <1>2, <1>4 DEF Countable
    <3>2. d <= cursor'[p] BY <1>0, <1>4, <2>1, <3>1
    <3> QED BY <3>1, <3>2 DEF Countable, Leaving
  <2>5. C \cap done = {}
    <3> SUFFICES ASSUME NEW d \in C, d \in done PROVE FALSE OBVIOUS
    <3>1. d <= cursor[p] /\ d > cursor[p] /\ d \in Nat
      BY <1>1, <1>2, <1>3, <1>4, <1>8 DEF Countable
    <3> QED BY <1>0, <3>1
  <2>6. C \in SUBSET Scope[p] /\ Countable(p)' \in SUBSET Scope[p] BY DEF Countable
  <2>7. /\ IsFiniteSet(C) /\ Cardinality(C) \in Nat
        /\ IsFiniteSet(Countable(p)') /\ Cardinality(Countable(p)') \in Nat
    BY <1>0, <2>6, PartsFinite
  <2>8. migrated[p] <= Cardinality(C) BY <1>0, <1>8 DEF CountAt
  <2> HIDE DEF C
  <2>9. Cardinality(C \cup done) = Cardinality(C) + Cardinality(done)
    BY <1>7, <2>5, <2>7, DisjointCardinality
  <2>10. C \cup done \in SUBSET (Countable(p)') BY <2>3, <2>4
  <2>11. Cardinality(C \cup done) <= Cardinality(Countable(p)') BY <2>7, <2>10, FS_Subset
  <2> QED BY <1>0, <1>4, <1>7, <2>7, <2>8, <2>9, <2>11
<1>9. ASSUME txn PROVE migrated'[p] = Cardinality(Scope[p] \cap rewritten')
  <2> DEFINE R == Scope[p] \cap rewritten
  <2>1. migrated[p] = Cardinality(R) BY <1>0, <1>9 DEF CountAt
  <2>2. Scope[p] \cap rewritten' = R \cup done /\ R \cap done = {} BY <1>3, <1>9
  <2>3. IsFiniteSet(R) /\ Cardinality(R) \in Nat BY <1>7
  <2> HIDE DEF R
  <2>4. Cardinality(R \cup done) = Cardinality(R) + Cardinality(done)
    BY <1>7, <2>2, <2>3, DisjointCardinality
  <2> QED BY <1>4, <2>1, <2>2, <2>4
<1> QED BY <1>8, <1>9 DEF CountAt, Leaving

LEMMA CountStep ==
  TypeInv /\ CursorInv /\ BatchInv /\ CountInv /\ [Next]_vars => CountInv'
<1> SUFFICES ASSUME TypeInv, CursorInv, BatchInv, CountInv, [Next]_vars, NEW p \in Part
             PROVE  CountAt(p)'
  BY DEF CountInv
<1>0. TypeInv' /\ PartOK /\ Leaving /\ CountAt(p)
  <2>1. TypeInv' /\ Leaving BY NextTypeInv, NextTouches DEF BatchInv
  <2> QED BY <2>1, TypeInvParts DEF CountInv
<1>1. CASE UNCHANGED <<cursor, migrated, rewritten>> /\ (status[p] = "done" => status'[p] = "done")
  BY <1>0, <1>1, CountKept
<1>2. ASSUME NEW l \in Lane, Step(l) \/ Fails(l) PROVE CountAt(p)'
  <2>1. PICK S \in SUBSET Matched(l) : /\ rewritten' = rewritten \cup S /\ UNCHANGED <<upgraded, txn>>
                                       /\ S # {} => ~txn \/ Commits(l)
    BY <1>2, StepOnDocs
  <2>2. CASE Saves(l) /\ p = At(l) BY <1>0, <2>2, CountSaved
  <2>3. CASE Saves(l) /\ p # At(l)
    <3>1. PICK done : SaveBatch(l, done) BY <2>3, SavesBusy
    <3>2. cursor'[p] = cursor[p] /\ migrated'[p] = migrated[p] /\ status'[p] = status[p]
      BY <1>0, <2>3, <3>1 DEF SaveBatch, PartOK
    <3>3. Scope[p] \cap rewritten' = Scope[p] \cap rewritten
      <4>1. CASE UNCHANGED rewritten BY <4>1
      <4>2. CASE Commits(l)
        <5>1. lane[l].pc \in InBatch /\ BatchOK(l) /\ At(l) \in Part
          BY <1>0, <2>3, SavesFacts, SavesCursor
        <5>2. Matched(l) \subseteq Scope[At(l)]
          BY <5>1 DEF BatchOK, Matched, Pending
        <5>3. Scope[p] \cap Scope[At(l)] = {} BY <2>3, <5>1, ScopeAssumption
        <5> QED BY <2>1, <5>2, <5>3
      <4> QED BY <2>3, <4>1, <4>2 DEF Saves
    <3> QED BY <1>0, <3>2, <3>3, CountKept
  <2>4. CASE ~Saves(l)
    <3>1. ~Commits(l) BY <2>1, <2>4 DEF Saves
    <3>2. txn => rewritten' = rewritten BY <2>1, <3>1
    <3>3. CASE LeavesParts
      <4>1. status[p] = "done" => status'[p] = "done" BY <3>3 DEF LeavesParts, Closed
      <4>2. cursor' = cursor /\ migrated' = migrated BY <3>3 DEF LeavesParts
      <4> QED BY <1>0, <3>2, <4>1, <4>2, CountKept
    <3>4. CASE \E q \in Part, s \in Slot, t \in Token : ClaimOne(l, q, s, t)
      <4>1. PICK q \in Part, s \in Slot, t \in Token : ClaimOne(l, q, s, t) BY <3>4
      <4>2. status[q] \in OpenPartition BY <4>1 DEF ClaimOne, FirstClaimable, Claimable
      <4>3. status[p] = "done" => status'[p] = "done"
        BY <1>0, <4>1, <4>2 DEF ClaimOne, PartOK, OpenPartition
      <4> QED BY <1>1, <4>1, <4>3 DEF ClaimOne, pastVars
    <3> QED BY <1>2, <2>4, <3>3, <3>4, StepOnParts
  <2> QED BY <2>2, <2>3, <2>4
<1>3. CASE Retry
  <2>1. status[p] = "done" => status'[p] = "done" BY <1>0, <1>3 DEF Retry, PartOK
  <2> QED BY <1>1, <1>3, <2>1 DEF Retry, pastVars
<1>4. CASE Supersede
  <2>1. status[p] = "done" => status'[p] = "done"
    BY <1>0, <1>4 DEF Supersede, PartOK, OpenPartition
  <2> QED BY <1>1, <1>4, <2>1 DEF Supersede, pastVars
<1>5. CASE \/ \E e \in Doc : (\E s \in {"old", "new"} : AppWrite(e, s)) \/ AppDelete(e)
           \/ Pause \/ Resume \/ UnlockAll \/ (\E q \in Part : ExpireLease(q)) \/ UNCHANGED vars
  BY <1>1, <1>5
  DEF AppWrite, AppDelete, Pause, Resume, UnlockAll, ExpireLease, vars, partVars, pastVars
<1> QED BY <1>2, <1>3, <1>4, <1>5 DEF Next

LEMMA CountImplies == TypeInv /\ CountInv => CountedOnce
<1> SUFFICES ASSUME TypeInv, CountInv, NEW p \in Part
             PROVE  /\ migrated[p] <= Cardinality(Scope[p] \cap (rewritten \cup upgraded))
                    /\ txn => migrated[p] = Cardinality(Scope[p] \cap rewritten)
  BY DEF CountedOnce
<1> DEFINE T == Scope[p] \cap (rewritten \cup upgraded)
           R == Scope[p] \cap rewritten
<1>1. /\ Countable(p) \in SUBSET T /\ R \in SUBSET T
      /\ T \in SUBSET Scope[p]
  BY DEF Countable, Touched
<1>2. Countable(p) \in SUBSET Scope[p] /\ R \in SUBSET Scope[p] BY <1>1
<1>3. Cardinality(Countable(p)) <= Cardinality(T) /\ Cardinality(R) <= Cardinality(T)
  BY <1>1, PartsFinite, FS_Subset
<1>4. /\ migrated[p] \in Nat /\ Cardinality(Countable(p)) \in Nat
      /\ Cardinality(R) \in Nat /\ Cardinality(T) \in Nat
  BY <1>1, <1>2, PartsFinite DEF TypeInv, TypeOK
<1>5. CountAt(p) BY DEF CountInv
<1>6. (~txn => migrated[p] <= Cardinality(Countable(p))) /\ (txn => migrated[p] = Cardinality(R))
  BY <1>5 DEF CountAt
<1> HIDE DEF T, R
<1>7. migrated[p] <= Cardinality(T) BY <1>3, <1>4, <1>6
<1> QED BY <1>6, <1>7 DEF T, R

\* No document is counted twice; the counters of a transaction are exact.
THEOREM LanesCountOnce == Spec => []CountedOnce
<1>1. Init => CountInv
  <2> SUFFICES ASSUME Init, NEW p \in Part PROVE CountAt(p) BY DEF CountInv
  <2>1. Countable(p) \in SUBSET Scope[p] BY DEF Countable
  <2>2. Cardinality(Countable(p)) \in Nat BY <2>1, PartsFinite
  <2>3. migrated[p] = 0 /\ Scope[p] \cap rewritten = {} BY DEF Init
  <2> QED BY <2>2, <2>3, FS_EmptySet DEF CountAt
<1>2. LanesInv /\ CountInv /\ [Next]_vars => CountInv' BY CountStep DEF LanesInv
<1>3. LanesInv /\ CountInv => CountedOnce BY CountImplies DEF LanesInv
<1> QED BY <1>1, <1>2, <1>3, LanesInvariant, PTL DEF Spec

=============================================================================
