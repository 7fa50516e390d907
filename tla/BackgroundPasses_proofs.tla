------------------------ MODULE BackgroundPasses_proofs ------------------------
(***************************************************************************)
(* Proofs about BackgroundPasses: the types; the totals keep what the      *)
(* checkpoints counted; what is completed is clean; and what is withdrawn  *)
(* was not rewritten, but in batches that no checkpoint counts.            *)
(***************************************************************************)
EXTENDS BackgroundPasses, FiniteSetTheorems, WellFoundedInduction, TLAPS

-----------------------------------------------------------------------------
(* Least and greatest documents *)

\* A finite set of numbers that is not empty has a least and a greatest element.
LEMMA FiniteHasEnds ==
  ASSUME NEW S \in SUBSET Nat, IsFiniteSet(S), S # {}
  PROVE  /\ \E m \in S : \A e \in S : m <= e
         /\ Min(S) \in S /\ Max(S) \in S
<1> DEFINE HasEnds(X) == /\ \E m \in X : \A e \in X : m <= e
                         /\ \E m \in X : \A e \in X : m >= e
           T == {X \in FiniteSubsetsOf(Nat) : X # {} /\ ~HasEnds(X)}
<1>1. SUFFICES ASSUME T # {} PROVE FALSE
  <2>1. T = {} OBVIOUS
  <2>2. HasEnds(S) BY <2>1 DEF FiniteSubsetsOf
  <2>3. PICK m \in S : \A e \in S : m <= e BY <2>2
  <2>4. PICK n \in S : \A e \in S : n >= e BY <2>2
  <2>5. Min(S) \in S BY <2>3 DEF Min
  <2>6. Max(S) \in S BY <2>4 DEF Max
  <2> QED BY <2>3, <2>5, <2>6
<1>2. PICK X \in T : \A Y \in T : ~(<<Y, X>> \in StrictSubsetOrdering(Nat))
  <2>1. T \subseteq FiniteSubsetsOf(Nat) OBVIOUS
  <2>2. IsWellFoundedOn(StrictSubsetOrdering(Nat), FiniteSubsetsOf(Nat))
    BY FS_StrictSubsetOrderingWellFounded
  <2> HIDE DEF T
  <2> QED BY <2>1, <2>2, <1>1, WFMin
<1>3. X \in SUBSET Nat /\ IsFiniteSet(X) /\ X # {} /\ ~HasEnds(X) BY DEF FiniteSubsetsOf
<1>4. PICK x \in X : TRUE BY <1>3
<1> DEFINE Y == X \ {x}
<1>5. IsFiniteSet(Y) BY <1>3, FS_Subset
<1>6. Y # {} BY <1>3, <1>4
<1>7. Y \in FiniteSubsetsOf(Nat) BY <1>3, <1>5 DEF FiniteSubsetsOf
<1>8. <<Y, X>> \in StrictSubsetOrdering(Nat) BY <1>3, <1>4 DEF StrictSubsetOrdering
<1>9. HasEnds(Y) BY <1>2, <1>6, <1>7, <1>8
<1>10. \E m \in X : \A e \in X : m <= e
  <2>1. PICK m \in Y : \A e \in Y : m <= e BY <1>9
  <2>2. CASE m <= x BY <2>1, <2>2
  <2>3. CASE x <= m
    <3>1. \A e \in X : x <= e BY <2>1, <2>3, <1>3, <1>4
    <3> QED BY <3>1, <1>4
  <2> QED BY <2>1, <2>2, <2>3, <1>3, <1>4
<1>11. \E m \in X : \A e \in X : m >= e
  <2>1. PICK m \in Y : \A e \in Y : m >= e BY <1>9
  <2>2. CASE m >= x BY <2>1, <2>2
  <2>3. CASE x >= m
    <3>1. \A e \in X : x >= e BY <2>1, <2>3, <1>3, <1>4
    <3> QED BY <3>1, <1>4
  <2> QED BY <2>1, <2>2, <2>3, <1>3, <1>4
<1> QED BY <1>3, <1>10, <1>11

\* Sets of documents.
LEMMA DocSets ==
  ASSUME NEW S \in SUBSET Doc
  PROVE  /\ IsFiniteSet(S) /\ Cardinality(S) \in Nat /\ S \subseteq Nat
         /\ S # {} => /\ Min(S) \in S /\ Min(S) \in Nat
                      /\ Max(S) \in S /\ Max(S) \in Nat
<1>1. S \in SUBSET Nat /\ IsFiniteSet(S) BY DocAssumption, FS_Subset
<1> QED BY <1>1, FiniteHasEnds, FS_CardinalityType

-----------------------------------------------------------------------------
(* Counts *)

LEMMA DisjointCardinality ==
  ASSUME NEW S, NEW T, IsFiniteSet(S), IsFiniteSet(T), S \cap T = {}
  PROVE  /\ IsFiniteSet(S \cup T)
         /\ Cardinality(S \cup T) = Cardinality(S) + Cardinality(T)
<1>1. Cardinality(S) \in Nat /\ Cardinality(T) \in Nat BY FS_CardinalityType
<1>2. Cardinality(S \cap T) = 0 BY FS_EmptySet
<1>3. /\ IsFiniteSet(S \cup T)
      /\ Cardinality(S \cup T) = Cardinality(S) + Cardinality(T) - Cardinality(S \cap T) BY FS_Union
<1> QED BY <1>1, <1>2, <1>3

\* As many counts as numbers.
LEMMA CountsNumber ==
  ASSUME NEW p, NEW from \in Nat, NEW n \in Nat
  PROVE  /\ IsFiniteSet(Counts(p, from + 1, from + n))
         /\ Cardinality(Counts(p, from + 1, from + n)) = n
<1> DEFINE I == (from + 1)..(from + n)
           T == Counts(p, from + 1, from + n)
           f == [k \in I |-> <<parts[p].gen, p, k>>]
<1>1. f \in Bijection(I, T)
  <2>1. f \in [I -> T] BY DEF Counts
  <2>2. \A k, m \in I : f[k] = f[m] => k = m OBVIOUS
  <2>3. \A t \in T : \E k \in I : f[k] = t BY DEF Counts
  <2>4. f \in Injection(I, T) BY <2>1, <2>2 DEF Injection, IsInjective
  <2>5. f \in Surjection(I, T) BY <2>1, <2>3 DEF Surjection
  <2> QED BY <2>4, <2>5 DEF Bijection
<1>2. IsFiniteSet(I) /\ Cardinality(I) = n BY FS_Interval
<1>3. ExistsBijection(I, T) BY <1>1 DEF ExistsBijection
<1> HIDE DEF T
<1>4. IsFiniteSet(T) /\ Cardinality(T) = n BY <1>2, <1>3, FS_Bijection
<1> QED BY <1>4 DEF T

\* Finitely many partitions have counted finitely many documents.
LEMMA CountedFinite ==
  ASSUME NEW S, IsFiniteSet(S), \A p \in S : parts[p].migrated \in Nat
  PROVE  IsFiniteSet(Counted(S)) /\ Counters(S) \in Nat
<1> DEFINE T == {Counts(p, 1, parts[p].migrated) : p \in S}
           f == [p \in S |-> Counts(p, 1, parts[p].migrated)]
<1>1. \A t \in T : IsFiniteSet(t)
  <2>1. ASSUME NEW p \in S PROVE IsFiniteSet(Counts(p, 1, parts[p].migrated))
    <3>1. parts[p].migrated \in Nat OBVIOUS
    <3>2. IsFiniteSet(Counts(p, 0 + 1, 0 + parts[p].migrated)) BY <3>1, CountsNumber
    <3>3. 0 + 1 = 1 /\ 0 + parts[p].migrated = parts[p].migrated BY <3>1
    <3> QED BY <3>2, <3>3
  <2> QED BY <2>1
<1>2. f \in Surjection(S, T) BY DEF Surjection
<1> HIDE DEF f
<1>3. IsFiniteSet(T) BY <1>2, FS_Surjection
<1>4. IsFiniteSet(UNION T) BY <1>1, <1>3, FS_UNION
<1> QED BY <1>4, FS_CardinalityType DEF Counted, Counters

-----------------------------------------------------------------------------
(* Types *)

\* Everything a coordinator, a lane, the operator and the deploy hold.
SumRec == [migrated: Nat, bad: SUBSET Doc, failed: BOOLEAN]

CoordRec ==
  [pc: CoordSteps, st: StateDoc, skip: SUBSET Doc, dir: Direction, new: BOOLEAN,
   token: Token \cup {0}, empty: BOOLEAN, sum: SumRec]

Slot == (Token \cup {0}) \X Nat

LaneRec ==
  [pc: {"idle", "claim", "control", "write", "save", "budget", "fail"}, gen: Nat,
   token: Token \cup {0}, dir: Direction, skip: SUBSET Doc, part: Slot,
   scope: SUBSET Doc, from: Nat, good: SUBSET Doc, failed: SUBSET Doc, last: Nat,
   done: BOOLEAN, worked: BOOLEAN]

OpRec ==
  [pc: {"idle", "move", "parts", "pin"}, act: Acts \cup {"none", "repin", "replan"}, st: StateDoc]

DeployRec ==
  [pc: {"idle", "swap", "judge", "pause", "wait", "check", "resume", "remove"},
   st: StateDoc, paused: BOOLEAN]

PartOK(r) == r \in Partition /\ r.gen >= 1 /\ (r.live => r.lease # None)

PartsOK ==
  /\ DOMAIN parts \subseteq Token \X Nat /\ IsFiniteSet(DOMAIN parts)
  /\ \A p \in DOMAIN parts : PartOK(parts[p])

Types ==
  /\ doc \in [Doc -> {"old", "new"}]
  /\ state \in StateDoc
  /\ PartsOK
  /\ lock \in Coord \cup {None}
  /\ co \in [Coord -> CoordRec]
  /\ lane \in [Lane -> LaneRec]
  /\ op \in OpRec
  /\ deploy \in DeployRec
  /\ prereq \in BOOLEAN
  /\ used \in [plans: 0..MaxPlans, faults: 0..MaxFaults, writes: 0..MaxWrites, controls: 0..MaxControls]
  /\ past \in History

\* What a step may do to the partitions without touching their plans and counters ...
SameCounts ==
  /\ DOMAIN parts' = DOMAIN parts
  /\ \A p \in DOMAIN parts : /\ parts'[p].gen = parts[p].gen
                             /\ parts'[p].migrated = parts[p].migrated
                             /\ parts'[p].bad = parts[p].bad

\* ... and what deleting some of them does.
FewerParts ==
  /\ DOMAIN parts' \subseteq DOMAIN parts
  /\ \A p \in DOMAIN parts' : parts'[p] = parts[p]

\* What most steps leave of the history.
SameOusted == past'.ousted = past.ousted /\ past'.misled = past.misled
SameCrossings == past'.resumed = past.resumed /\ past'.stalled = past.stalled
SameHistory ==
  past'.work = past.work /\ past'.leaks = past.leaks /\ past'.late = past.late

LEMMA Bounds == MaxPlans \in Nat /\ MaxFaults \in Nat /\ MaxWrites \in Nat /\ MaxControls \in Nat
BY BoundsAssumption

LEMMA UseType ==
  ASSUME Types, NEW k \in {"plans", "faults", "writes", "controls"}, NEW max,
         max = CASE k = "plans" -> MaxPlans [] k = "faults" -> MaxFaults
                 [] k = "writes" -> MaxWrites [] OTHER -> MaxControls,
         Use(k, max)
  PROVE  /\ used' \in [plans: 0..MaxPlans, faults: 0..MaxFaults, writes: 0..MaxWrites, controls: 0..MaxControls]
         /\ used'.plans = IF k = "plans" THEN used.plans + 1 ELSE used.plans
         /\ k = "plans" => used.plans < MaxPlans
<1>1. CASE k = "plans" BY <1>1, Bounds DEF Types, Use
<1>2. CASE k = "faults" BY <1>2, Bounds DEF Types, Use
<1>3. CASE k = "writes" BY <1>3, Bounds DEF Types, Use
<1>4. CASE k = "controls" BY <1>4, Bounds DEF Types, Use
<1> QED BY <1>1, <1>2, <1>3, <1>4

LEMMA DeleteParts ==
  ASSUME PartsOK, NEW S, Delete(S)
  PROVE  PartsOK' /\ FewerParts /\ DOMAIN parts' = DOMAIN parts \ S
<1>1. /\ DOMAIN parts' = DOMAIN parts \ S
      /\ \A p \in DOMAIN parts' : parts'[p] = parts[p]
  BY DEF Delete, Restrict
<1>2. IsFiniteSet(DOMAIN parts') BY <1>1, FS_Subset DEF PartsOK
<1> QED BY <1>1, <1>2 DEF PartsOK, FewerParts, PartOK

LEMMA AlterParts ==
  ASSUME PartsOK, NEW p \in DOMAIN parts, NEW r, PartOK(r), r.gen = parts[p].gen, Alter(p, r)
  PROVE  /\ PartsOK' /\ DOMAIN parts' = DOMAIN parts /\ parts'[p] = r
         /\ \A q \in DOMAIN parts : q # p => parts'[q] = parts[q]
<1>1. /\ DOMAIN parts' = DOMAIN parts /\ parts'[p] = r
      /\ \A q \in DOMAIN parts : q # p => parts'[q] = parts[q]
  BY DEF Alter
<1> QED BY <1>1 DEF PartsOK, PartOK

LEMMA StatusedParts ==
  ASSUME PartsOK, NEW S, NEW s \in {"pending", "superseded", "cancelled"}, parts' = Statused(S, s)
  PROVE  /\ PartsOK' /\ SameCounts
         /\ \A p \in DOMAIN parts : /\ parts'[p].lease = parts[p].lease
                                    /\ parts'[p].live = parts[p].live
                                    /\ p \notin S => parts'[p] = parts[p]
                                    /\ p \in S => parts'[p].status = s
<1>1. DOMAIN parts' = DOMAIN parts BY DEF Statused
<1>2. ASSUME NEW p \in DOMAIN parts
      PROVE  /\ PartOK(parts'[p]) /\ parts'[p].gen = parts[p].gen
             /\ parts'[p].migrated = parts[p].migrated /\ parts'[p].bad = parts[p].bad
             /\ parts'[p].lease = parts[p].lease
             /\ parts'[p].live = parts[p].live
             /\ p \notin S => parts'[p] = parts[p]
             /\ p \in S => parts'[p].status = s
  <2>1. parts'[p] = IF p \in S THEN [parts[p] EXCEPT !.status = s] ELSE parts[p] BY DEF Statused
  <2>2. PartOK(parts[p]) BY DEF PartsOK
  <2> QED BY <2>1, <2>2 DEF PartOK, Partition, OpenPartition
<1>3. DOMAIN parts' \subseteq Token \X Nat /\ IsFiniteSet(DOMAIN parts') BY <1>1 DEF PartsOK
<1> QED BY <1>1, <1>2, <1>3 DEF PartsOK, SameCounts

\* Reaping frees expired leases and nothing else.
LEMMA ReapedFacts ==
  ASSUME PartsOK
  PROVE  /\ DOMAIN Reaped = DOMAIN parts
         /\ \A p \in DOMAIN parts :
              /\ PartOK(Reaped[p]) /\ Reaped[p].gen = parts[p].gen
              /\ Reaped[p].migrated = parts[p].migrated /\ Reaped[p].bad = parts[p].bad
              /\ Reaped[p].status = parts[p].status /\ Reaped[p].live = parts[p].live
              /\ Reaped[p].scope = parts[p].scope
              /\ Reaped[p].lease = IF Expired(p) THEN None ELSE parts[p].lease
<1>1. DOMAIN Reaped = DOMAIN parts BY DEF Reaped
<1>2. ASSUME NEW p \in DOMAIN parts
      PROVE  /\ PartOK(Reaped[p]) /\ Reaped[p].gen = parts[p].gen
             /\ Reaped[p].migrated = parts[p].migrated /\ Reaped[p].bad = parts[p].bad
             /\ Reaped[p].status = parts[p].status /\ Reaped[p].live = parts[p].live
             /\ Reaped[p].scope = parts[p].scope
             /\ Reaped[p].lease = IF Expired(p) THEN None ELSE parts[p].lease
  <2>1. Reaped[p] = IF Expired(p) THEN [parts[p] EXCEPT !.lease = None] ELSE parts[p] BY DEF Reaped
  <2>2. PartOK(parts[p]) BY DEF PartsOK
  <2> QED BY <2>1, <2>2 DEF PartOK, Partition, Expired
<1> QED BY <1>1, <1>2

LEMMA ReapedParts ==
  ASSUME PartsOK, parts' = Reaped
  PROVE  PartsOK' /\ SameCounts
BY ReapedFacts DEF PartsOK, SameCounts

LEMMA Constants ==
  /\ \A s \in Status, d \in Direction : Registered(s, d) \in StateDoc
  /\ NoCoord \in CoordRec /\ NoLane \in LaneRec /\ NoOp \in OpRec /\ NoDeploy \in DeployRec
<1>1. \A s \in Status, d \in Direction : Registered(s, d) \in StateDoc
  BY DEF Registered, StateDoc
<1>2. Registered("none", "forward") \in StateDoc BY <1>1 DEF Status, Direction
<1> QED BY <1>1, <1>2 DEF NoCoord, CoordRec, SumRec, NoLane, LaneRec, Slot, NoOp, OpRec, NoDeploy, DeployRec,
             CoordSteps, Direction

\* One coordinator goes somewhere, or one lane.
LEMMA CoGoes ==
  ASSUME Types, NEW c \in Coord, NEW r, Goes(c, r)
  PROVE  /\ co'[c] = r /\ \A k \in Coord : k # c => co'[k] = co[k]
         /\ r \in CoordRec => co' \in [Coord -> CoordRec]
BY DEF Types, Goes

LEMMA LaneGoesTo ==
  ASSUME Types, NEW l \in Lane, NEW r, LaneGoes(l, r)
  PROVE  /\ lane'[l] = r /\ \A k \in Lane : k # l => lane'[k] = lane[k]
         /\ r \in LaneRec => lane' \in [Lane -> LaneRec]
BY DEF Types, LaneGoes

LEMMA Releases ==
  ASSUME Types, NEW c \in Coord, Release(c)
  PROVE  /\ co' \in [Coord -> CoordRec] /\ lock' \in Coord \cup {None}
         /\ co'[c] = NoCoord /\ \A k \in Coord : k # c => co'[k] = co[k]
BY CoGoes, Constants DEF Types, Release

LEMMA TopType == \A st : Top(st) \in {"replan", "plan", "activate", "look"}
BY DEF Top

\* A coordinator that goes on with a state, or ends because it is gone.
LEMMA GoesOnTo ==
  ASSUME Types, NEW c \in Coord, NEW st \in StateDoc, NEW pc \in {"replan", "plan", "activate", "look", "judge"},
         GoesOn(c, st, pc)
  PROVE  /\ co' \in [Coord -> CoordRec] /\ lock' \in Coord \cup {None}
         /\ \A k \in Coord : k # c => co'[k] = co[k]
         /\ \/ co'[c] = NoCoord
            \/ /\ co'[c].pc = pc /\ co'[c].st = st /\ co'[c].token = co[c].token
               /\ co'[c].empty = co[c].empty /\ co'[c].dir = co[c].dir /\ co'[c].sum = NoCoord.sum
<1>1. CASE st.status = "none"
  <2>1. Release(c) BY <1>1 DEF GoesOn
  <2> QED BY <2>1, Releases
<1>2. CASE st.status # "none"
  <2> DEFINE r == [co[c] EXCEPT !.st = st, !.pc = pc, !.sum = NoCoord.sum, !.new = pc # "replan"]
  <2>1. Goes(c, r) /\ UNCHANGED lock BY <1>2 DEF GoesOn
  <2>2. co[c] \in CoordRec BY DEF Types
  <2>3. NoCoord.sum \in SumRec BY DEF NoCoord, SumRec
  <2>4. /\ r \in CoordRec
        /\ r.pc = pc /\ r.st = st /\ r.token = co[c].token
        /\ r.empty = co[c].empty /\ r.dir = co[c].dir /\ r.sum = NoCoord.sum
    BY <2>2, <2>3 DEF CoordRec, CoordSteps
  <2> HIDE DEF r
  <2>5. /\ co'[c] = r /\ \A k \in Coord : k # c => co'[k] = co[k]
        /\ co' \in [Coord -> CoordRec] BY <2>1, <2>4, CoGoes
  <2> QED BY <2>1, <2>4, <2>5 DEF Types
<1> QED BY <1>1, <1>2

-----------------------------------------------------------------------------
(* The steps of a coordinator *)

\* The others stay where they are.
Only(c) == \A k \in Coord : k # c => co'[k] = co[k]

LEMMA StartStep ==
  ASSUME Types, NEW c \in Coord, Start(c)
  PROVE  /\ Types' /\ Only(c)
         /\ co'[c].pc = Top(state) /\ co'[c].st = state /\ co'[c].token = 0 /\ ~co'[c].empty
         /\ co'[c].dir = state.dir /\ co'[c].sum = NoCoord.sum
         /\ past'.ousted = past.ousted \ {c} /\ past'.misled = past.misled /\ past'.late = past.late
         /\ past'.work = past.work /\ past'.leaks = past.leaks
         /\ past'.crossed = past.crossed /\ SameCrossings
<1> DEFINE r == [NoCoord EXCEPT !.pc = Top(state), !.st = state, !.skip = state.bad,
                                !.dir = state.dir, !.new = state.phase # "replan"]
<1>1. /\ Goes(c, r) /\ lock' = c /\ UNCHANGED <<doc, state, parts, lane, op, deploy, prereq, spec, used>>
      /\ past' = [past EXCEPT !.ousted = @ \ {c}]
  BY DEF Start
<1>2. /\ r \in CoordRec
      /\ r.pc = Top(state) /\ r.st = state /\ r.token = 0 /\ ~r.empty /\ r.dir = state.dir
      /\ r.sum = NoCoord.sum
  <2>1. state \in StateDoc /\ state.bad \in SUBSET Doc /\ state.dir \in Direction BY DEF Types, StateDoc
  <2>2. Top(state) \in CoordSteps BY TopType DEF CoordSteps
  <2>3. NoCoord.sum \in SumRec BY DEF NoCoord, SumRec
  <2> QED BY <2>1, <2>2, <2>3 DEF NoCoord, CoordRec
<1> HIDE DEF r
<1>3. co' \in [Coord -> CoordRec] /\ co'[c] = r /\ Only(c) BY <1>1, <1>2, CoGoes DEF Only
<1>4. lock' \in Coord \cup {None} BY <1>1
<1>5. PICK S \in SUBSET Coord : S = past.ousted \ {c} BY DEF Types, History
<1>6. past' = [past EXCEPT !.ousted = S] BY <1>1, <1>5
<1>7. /\ past' \in History /\ past'.ousted = S /\ past'.misled = past.misled /\ past'.late = past.late
      /\ past'.work = past.work /\ past'.leaks = past.leaks
      /\ past'.crossed = past.crossed /\ SameCrossings
  BY <1>6 DEF Types, History, SameCrossings
<1> QED BY <1>1, <1>2, <1>3, <1>4, <1>5, <1>7 DEF Types, PartsOK

LEMMA UnblockStep ==
  ASSUME Types, Unblock
  PROVE  Types' /\ state' = [state EXCEPT !.status = "pending"]
<1>1. state' \in StateDoc BY DEF Types, Unblock, StateDoc, Status
<1> QED BY <1>1 DEF Types, Unblock, PartsOK

\* What a coordinator step leaves alone of the state.
SamePlan ==
  /\ state'.gen = state.gen /\ state'.token = state.token /\ state'.rolled = state.rolled
  /\ state'.total = state.total /\ state'.dir = state.dir /\ state'.bad = state.bad

LEMMA ReshardStep ==
  ASSUME Types, NEW c \in Coord, Reshard(c)
  PROVE  /\ Types' /\ Only(c) /\ SamePlan
         /\ state'.status = state.status
         /\ \/ co'[c] = NoCoord
            \/ /\ co'[c].pc = Top(state') /\ co'[c].st = state' /\ co'[c].token = co[c].token
               /\ co'[c].empty = co[c].empty /\ co'[c].dir = co[c].dir /\ co'[c].sum = NoCoord.sum
         /\ co[c].pc \in {"activate", "look"} /\ used'.plans = used.plans
<1>1. state' \in {state, [state EXCEPT !.phase = "replan"]} BY DEF Reshard
<1>2. state' \in StateDoc /\ SamePlan /\ state'.status = state.status BY <1>1 DEF Types, StateDoc, SamePlan
<1>3. GoesOn(c, state', Top(state')) BY DEF Reshard
<1>4. PICK s \in StateDoc : s = state' BY <1>2
<1>5. Top(s) \in {"replan", "plan", "activate", "look", "judge"} BY TopType
<1>6. GoesOn(c, s, Top(s)) BY <1>3, <1>4
<1>7. /\ co' \in [Coord -> CoordRec] /\ lock' \in Coord \cup {None} /\ Only(c)
      /\ \/ co'[c] = NoCoord
         \/ /\ co'[c].pc = Top(s) /\ co'[c].st = s /\ co'[c].token = co[c].token
            /\ co'[c].empty = co[c].empty /\ co'[c].dir = co[c].dir /\ co'[c].sum = NoCoord.sum
  BY <1>5, <1>6, GoesOnTo DEF Only
<1>8. Use("faults", MaxFaults) BY DEF Reshard, Fault
<1>9. /\ used' \in [plans: 0..MaxPlans, faults: 0..MaxFaults, writes: 0..MaxWrites, controls: 0..MaxControls]
      /\ used'.plans = used.plans
  BY <1>8, UseType
<1>10. UNCHANGED <<doc, parts, lane, op, deploy, prereq, spec, past>> /\ co[c].pc \in {"activate", "look"}
  BY DEF Reshard
<1> QED BY <1>2, <1>4, <1>7, <1>9, <1>10 DEF Types, PartsOK

LEMMA SupersedeStep ==
  ASSUME Types, NEW c \in Coord, Supersede(c)
  PROVE  /\ Types' /\ Only(c) /\ SameCounts
         /\ co[c].pc = "replan" /\ co'[c] = [co[c] EXCEPT !.pc = "drain"]
         /\ \A p \in DOMAIN parts : /\ parts'[p].lease = parts[p].lease /\ parts'[p].live = parts[p].live
                                    /\ parts'[p].status \in {parts[p].status, "superseded"}
<1> DEFINE S == {p \in Is(co[c].st.token) : Open(p)}
<1>1. parts' = Statused(S, "superseded") /\ Goes(c, [co[c] EXCEPT !.pc = "drain"]) /\ co[c].pc = "replan"
      /\ UNCHANGED <<doc, state, lock, lane, op, deploy, prereq, spec, used, past>>
  BY DEF Supersede
<1>2. [co[c] EXCEPT !.pc = "drain"] \in CoordRec BY DEF Types, CoordRec, CoordSteps
<1>3. /\ co' \in [Coord -> CoordRec] /\ co'[c] = [co[c] EXCEPT !.pc = "drain"] /\ Only(c)
  BY <1>1, <1>2, CoGoes DEF Only
<1>4. PartsOK BY DEF Types
<1> HIDE DEF S
<1>5. /\ PartsOK' /\ SameCounts
      /\ \A p \in DOMAIN parts : /\ parts'[p].lease = parts[p].lease /\ parts'[p].live = parts[p].live
                                 /\ p \notin S => parts'[p] = parts[p]
                                 /\ p \in S => parts'[p].status = "superseded"
  BY <1>1, <1>4, StatusedParts
<1>6. \A p \in DOMAIN parts : parts'[p].status \in {parts[p].status, "superseded"} BY <1>5
<1> QED BY <1>1, <1>3, <1>5, <1>6 DEF Types

LEMMA DrainStep ==
  ASSUME Types, NEW c \in Coord, Drain(c)
  PROVE  /\ Types' /\ Only(c) /\ SamePlan /\ state'.status = state.status
         /\ co[c].pc = "drain"
         /\ \/ co'[c] = NoCoord
            \/ /\ co'[c].pc = "plan" /\ co'[c].st \in {co[c].st, state'}
               /\ co'[c].token = co[c].token /\ co'[c].empty = co[c].empty /\ co'[c].dir = co[c].dir
               /\ co'[c].sum = co[c].sum
<1>1. state' \in {state, [state EXCEPT !.phase = "partition"]} BY DEF Drain
<1>2. state' \in StateDoc /\ SamePlan /\ state'.status = state.status BY <1>1 DEF Types, StateDoc, SamePlan
<1>3. UNCHANGED <<doc, parts, lane, op, deploy, prereq, spec, used, past>> /\ co[c].pc = "drain"
  BY DEF Drain
<1>4. CASE Live # {}
  <2>1. Release(c) BY <1>4 DEF Drain
  <2> QED BY <2>1, <1>2, <1>3, Releases DEF Types, PartsOK, Only
<1>5. CASE ~(Live # {})
  <2>1. PICK s \in StateDoc : s \in {co[c].st, state'} /\ Goes(c, [co[c] EXCEPT !.pc = "plan", !.st = s])
                              /\ UNCHANGED lock
    <3>1. CASE state.status # "none" /\ state.phase = "replan"
      BY <1>2, <1>5, <3>1 DEF Drain
    <3>2. CASE ~(state.status # "none" /\ state.phase = "replan")
      <4>1. Goes(c, [co[c] EXCEPT !.pc = "plan", !.st = co[c].st]) /\ UNCHANGED lock
        BY <1>5, <3>2 DEF Drain
      <4> QED BY <4>1 DEF Types, CoordRec
    <3> QED BY <3>1, <3>2
  <2> DEFINE r == [co[c] EXCEPT !.pc = "plan", !.st = s]
  <2>2. /\ r \in CoordRec
        /\ r.pc = "plan" /\ r.st = s /\ r.token = co[c].token /\ r.empty = co[c].empty
        /\ r.dir = co[c].dir /\ r.sum = co[c].sum
    BY DEF Types, CoordRec, CoordSteps
  <2> HIDE DEF r
  <2>3. co' \in [Coord -> CoordRec] /\ co'[c] = r /\ Only(c) BY <2>1, <2>2, CoGoes DEF Only, r
  <2> QED BY <1>2, <1>3, <2>1, <2>2, <2>3 DEF Types, PartsOK
<1> QED BY <1>4, <1>5

\* The ranges of a plan: there are finitely many, and none is empty.
LEMMA PlansRanges ==
  ASSUME NEW S \in SUBSET Doc, NEW P \in Plans(S)
  PROVE  IsFiniteSet(P) /\ \A r \in P : r \in SUBSET Doc /\ r # {}
<1> DEFINE Inner == {d \in S : \E e \in S : Bracket[e] = Bracket[d] /\ e < d}
           present == {Bracket[d] : d \in S}
<1>1. PICK K \in SUBSET Inner :
        P = {RangeOf(b, K, 0) : b \in present} \cup {RangeOf(Bracket[k], K, k) : k \in K}
  BY DEF Plans
<1>2. \A b, k : RangeOf(b, K, k) \in SUBSET Doc BY DEF RangeOf
<1>3. IsFiniteSet(P)
  <2>1. P \in SUBSET (SUBSET Doc) BY <1>1, <1>2
  <2>2. IsFiniteSet(SUBSET Doc) BY DocAssumption, FS_SUBSET
  <2> QED BY <2>1, <2>2, FS_Subset
<1>4. ASSUME NEW b \in present PROVE RangeOf(b, K, 0) # {}
  <2> DEFINE B == {d \in S : Bracket[d] = b}
  <2>1. B \in SUBSET Nat /\ IsFiniteSet(B) /\ B # {} BY DocAssumption, FS_Subset
  <2>2. PICK m \in B : \A e \in B : m <= e BY <2>1, FiniteHasEnds
  <2>3. \A k \in K : k \in S /\ \E e \in S : Bracket[e] = Bracket[k] /\ e < k OBVIOUS
  <2>4. ASSUME NEW k \in K, Bracket[k] = b, k <= m PROVE FALSE
    <3>1. PICK e \in S : Bracket[e] = b /\ e < k BY <2>3, <2>4
    <3>2. m <= e BY <2>2, <3>1
    <3>3. e \in Nat /\ m \in Nat /\ k \in Nat BY <2>3, <2>1, DocAssumption
    <3> QED BY <2>4, <3>1, <3>2, <3>3
  <2>5. m \in Doc /\ Bracket[m] = b /\ 0 <= m BY DocAssumption
  <2>6. m \in RangeOf(b, K, 0) BY <2>4, <2>5 DEF RangeOf
  <2> QED BY <2>6
<1>5. ASSUME NEW k \in K PROVE RangeOf(Bracket[k], K, k) # {}
  <2>1. k \in Doc OBVIOUS
  <2>2. K \subseteq Nat /\ k \in Nat BY DocAssumption
  <2>3. ~\E m \in K : Bracket[m] = Bracket[k] /\ k < m /\ m <= k BY <2>2
  <2>4. k <= k BY <2>2
  <2>5. k \in RangeOf(Bracket[k], K, k) BY <2>1, <2>3, <2>4 DEF RangeOf
  <2> QED BY <2>5
<1> QED BY <1>1, <1>2, <1>3, <1>4, <1>5

\* A partition as the plan inserts it.
NewPart(r, g) ==
  /\ r.gen = g /\ r.status = "pending" /\ r.lease = None /\ ~r.live /\ r.migrated = 0 /\ r.bad = {}

LEMMA InsertStep ==
  ASSUME Types, NEW c \in Coord, Insert(c)
  PROVE  /\ Types' /\ Only(c)
         /\ used'.plans = used.plans + 1 /\ used.plans + 1 \in Token
         /\ co[c].pc = "plan" /\ co'[c].pc = "commit" /\ co'[c].token = used.plans + 1
         /\ co'[c].st = co[c].st /\ co'[c].dir = co[c].dir /\ co'[c].sum = co[c].sum
         /\ \E N : /\ DOMAIN parts' = DOMAIN parts \cup N /\ N \cap DOMAIN parts = {}
                   /\ \A p \in N : p[1] = used.plans + 1 /\ NewPart(parts'[p], co[c].st.gen + 1)
                   /\ \A p \in DOMAIN parts : parts'[p] = parts[p]
                   /\ co'[c].empty => N = {}
<1> DEFINE t == used.plans + 1
           g == co[c].st.gen + 1
           Cells(P) == {<<t, Min(r)>> : r \in P}
           Fresh(P, p) == [gen |-> g, scope |-> CHOOSE r \in P : Min(r) = p[2], status |-> "pending",
                           lease |-> None, live |-> FALSE, cursor |-> 0, migrated |-> 0, bad |-> {}]
<1>1. /\ Use("plans", MaxPlans) /\ co[c].pc = "plan"
      /\ UNCHANGED <<doc, state, lock, lane, op, deploy, prereq, spec, past>>
  BY DEF Insert
<1>2. /\ used' \in [plans: 0..MaxPlans, faults: 0..MaxFaults, writes: 0..MaxWrites, controls: 0..MaxControls]
      /\ used'.plans = t /\ used.plans < MaxPlans
  BY <1>1, UseType
<1>3. t \in Token /\ t \in Nat
  BY <1>2, Bounds DEF Types, Token
<1>4. PICK P \in Plans(OldShape(co[c].dir, co[c].skip)) :
        /\ parts' = [p \in DOMAIN parts \cup Cells(P) |->
                       IF p \in DOMAIN parts THEN parts[p] ELSE Fresh(P, p)]
        /\ Goes(c, [co[c] EXCEPT !.pc = "commit", !.token = t, !.empty = P = {}])
  BY DEF Insert
<1>5. OldShape(co[c].dir, co[c].skip) \in SUBSET Doc BY DEF OldShape
<1>6. IsFiniteSet(P) /\ \A r \in P : r \in SUBSET Doc /\ r # {} BY <1>5, PlansRanges
<1>7. \A r \in P : Min(r) \in Nat BY <1>6, DocSets
<1> DEFINE N == Cells(P) \ DOMAIN parts
<1>8. IsFiniteSet(Cells(P))
  <2> DEFINE f == [r \in P |-> <<t, Min(r)>>]
  <2>1. f \in Surjection(P, Cells(P)) BY DEF Surjection
  <2> HIDE DEF f, Cells
  <2> QED BY <2>1, <1>6, FS_Surjection
<1>9. Cells(P) \subseteq Token \X Nat BY <1>3, <1>7
<1>10. ASSUME NEW p \in Cells(P)
       PROVE  p[1] = t /\ (CHOOSE r \in P : Min(r) = p[2]) \in SUBSET Doc
  <2>1. PICK r \in P : p = <<t, Min(r)>> OBVIOUS
  <2>2. p[1] = t /\ p[2] = Min(r) BY <2>1
  <2>3. (CHOOSE s \in P : Min(s) = p[2]) \in P BY <2>2
  <2> QED BY <2>2, <2>3, <1>6
<1>11. P = {} => Cells(P) = {} OBVIOUS
<1>12. co[c].st.gen \in Nat /\ co[c] \in CoordRec BY DEF Types, CoordRec, StateDoc
<1>13. ASSUME NEW p \in Cells(P) PROVE PartOK(Fresh(P, p)) /\ NewPart(Fresh(P, p), g)
  <2>1. PICK s \in SUBSET Doc : s = CHOOSE r \in P : Min(r) = p[2] BY <1>10
  <2>2. Fresh(P, p) = [gen |-> g, scope |-> s, status |-> "pending",
                       lease |-> None, live |-> FALSE, cursor |-> 0, migrated |-> 0, bad |-> {}]
    BY <2>1
  <2>3. g \in Nat /\ g >= 1 BY <1>12
  <2> HIDE DEF Fresh, g
  <2> QED BY <2>2, <2>3 DEF PartOK, Partition, OpenPartition, NewPart
<1> HIDE DEF Cells, Fresh
<1>14. /\ DOMAIN parts' = DOMAIN parts \cup N /\ N \cap DOMAIN parts = {}
       /\ \A p \in DOMAIN parts : parts'[p] = parts[p]
       /\ \A p \in N : p \in Cells(P) /\ parts'[p] = Fresh(P, p)
  BY <1>4
<1>15. DOMAIN parts' = DOMAIN parts \cup Cells(P) BY <1>4
<1> HIDE DEF N
<1>16. PartsOK'
  <2>3. IsFiniteSet(DOMAIN parts) /\ DOMAIN parts \subseteq Token \X Nat BY DEF Types, PartsOK
  <2>4. IsFiniteSet(DOMAIN parts \cup Cells(P)) BY <2>3, <1>8, FS_Union
  <2>1. IsFiniteSet(DOMAIN parts') /\ DOMAIN parts' \subseteq Token \X Nat
    BY <1>9, <1>15, <2>3, <2>4
  <2>2. \A p \in DOMAIN parts' : PartOK(parts'[p]) BY <1>13, <1>14 DEF Types, PartsOK
  <2> QED BY <2>1, <2>2 DEF PartsOK
<1>0. PICK none \in BOOLEAN : none = (P = {}) OBVIOUS
<1> DEFINE r == [co[c] EXCEPT !.pc = "commit", !.token = t, !.empty = none]
<1>22. Goes(c, r) BY <1>0, <1>4
<1>17. /\ r \in CoordRec
       /\ r.pc = "commit" /\ r.token = t /\ r.st = co[c].st /\ r.dir = co[c].dir /\ r.sum = co[c].sum
       /\ r.empty = none
  BY <1>3, <1>12 DEF CoordRec, CoordSteps
<1> HIDE DEF r
<1>18. co' \in [Coord -> CoordRec] /\ co'[c] = r /\ Only(c) BY <1>22, <1>17, CoGoes DEF Only
<1>19. P = {} => N = {} BY <1>11 DEF N
<1>20. Types' BY <1>1, <1>2, <1>16, <1>18 DEF Types
<1>21. \A p \in N : p[1] = used.plans + 1 /\ NewPart(parts'[p], co[c].st.gen + 1)
  BY <1>10, <1>13, <1>14
<1> QED BY <1>0, <1>1, <1>2, <1>3, <1>14, <1>17, <1>18, <1>19, <1>20, <1>21

LEMMA CommitStep ==
  ASSUME Types, NEW c \in Coord, Commit(c)
  PROVE  /\ Types' /\ Only(c) /\ co[c].pc = "commit"
         /\ \/ /\ Commits(co[c].st) /\ UNCHANGED parts
               /\ state'.gen = co[c].st.gen + 1 /\ state'.token = co[c].token
               /\ state'.rolled = state.rolled /\ state'.total = state.total
               /\ state'.dir = state.dir /\ state'.bad = state.bad /\ state'.status = state.status
               /\ co'[c].pc = "tidy" /\ co'[c].st = state' /\ co'[c].token = co[c].token
               /\ co'[c].empty = co[c].empty /\ co'[c].dir = co[c].dir /\ co'[c].sum = co[c].sum
            \/ UNCHANGED state /\ Delete(Is(co[c].token)) /\ co'[c] = NoCoord
<1>1. UNCHANGED <<doc, lane, op, deploy, prereq, spec, used, past>> /\ co[c].pc = "commit" BY DEF Commit
<1>2. CASE ~Commits(co[c].st)
  <2>1. Delete(Is(co[c].token)) /\ Release(c) /\ UNCHANGED state BY <1>2 DEF Commit
  <2>2. PartsOK' BY <2>1, DeleteParts DEF Types
  <2> QED BY <1>1, <2>1, <2>2, Releases DEF Types, Only
<1>3. CASE Commits(co[c].st)
  <2>1. PICK n \in Nat : n = co[c].st.pass + (IF co[c].new THEN 1 ELSE 0)
    BY DEF Types, CoordRec, StateDoc
  <2>2. PICK g \in Nat : g = co[c].st.gen + 1 BY DEF Types, CoordRec, StateDoc
  <2>3. PICK t \in Token \cup {0} : t = co[c].token BY DEF Types, CoordRec
  <2>4. state' = [state EXCEPT !.gen = g, !.token = t, !.phase = "process", !.stale = FALSE, !.pass = n]
    BY <1>3, <2>1, <2>2, <2>3 DEF Commit
  <2>5. /\ state' \in StateDoc /\ state'.gen = g /\ state'.token = t
        /\ state'.rolled = state.rolled /\ state'.total = state.total
        /\ state'.dir = state.dir /\ state'.bad = state.bad /\ state'.status = state.status
    BY <2>4 DEF Types, StateDoc
  <2>6. PICK s \in StateDoc : s = state' BY <2>5
  <2> DEFINE r == [co[c] EXCEPT !.st = s, !.pc = "tidy"]
  <2>7. Goes(c, r) /\ UNCHANGED <<parts, lock>> BY <1>3, <2>6 DEF Commit
  <2>8. /\ r \in CoordRec /\ r.pc = "tidy" /\ r.st = s /\ r.token = co[c].token
        /\ r.empty = co[c].empty /\ r.dir = co[c].dir /\ r.sum = co[c].sum
    BY DEF Types, CoordRec, CoordSteps
  <2> HIDE DEF r
  <2>9. co' \in [Coord -> CoordRec] /\ co'[c] = r /\ Only(c) BY <2>7, <2>8, CoGoes DEF Only
  <2>10. Types' BY <1>1, <2>5, <2>7, <2>9 DEF Types, PartsOK
  <2> QED BY <1>1, <1>3, <2>2, <2>3, <2>5, <2>6, <2>7, <2>8, <2>9, <2>10
<1> QED BY <1>2, <1>3

\* Counts that are dropped.
LEMMA LeaksType ==
  ASSUME Types, NEW S
  PROVE  /\ Counted(S \cap Unrolled) \in SUBSET Count /\ Leaks(S) \in SUBSET Count
         /\ [past EXCEPT !.leaks = Leaks(S)] \in History
<1>1. Counted(S \cap Unrolled) \in SUBSET Count
  BY DEF Counted, Counts, Unrolled, Count, Types, PartsOK, PartOK, Partition
<1>2. Leaks(S) \in SUBSET Count BY <1>1 DEF Leaks, Types, History
<1>3. PICK L \in SUBSET Count : L = Leaks(S) BY <1>2
<1>4. [past EXCEPT !.leaks = L] \in History BY DEF Types, History
<1> QED BY <1>1, <1>2, <1>3, <1>4

\* What a deletion does to the history.
OnlyLeaks(L) ==
  /\ past'.leaks = L /\ past'.work = past.work /\ past'.late = past.late
  /\ past'.crossed = past.crossed /\ past'.resumed = past.resumed /\ past'.stalled = past.stalled
  /\ SameOusted

LEMMA DropsLeaks ==
  ASSUME Types, NEW S, past' = [past EXCEPT !.leaks = Leaks(S)]
  PROVE  past' \in History /\ OnlyLeaks(Leaks(S))
<1>1. PICK L \in SUBSET Count : L = Leaks(S) BY LeaksType
<1>2. past' = [past EXCEPT !.leaks = L] BY <1>1
<1>3. past' \in History /\ OnlyLeaks(L) BY <1>2 DEF Types, History, OnlyLeaks, SameOusted
<1> QED BY <1>1, <1>3

LEMMA TidyStep ==
  ASSUME Types, NEW c \in Coord, Tidy(c)
  PROVE  /\ Types' /\ Only(c) /\ co[c].pc = "tidy"
         /\ Delete(Foreign(co[c].st.token)) /\ OnlyLeaks(Leaks(Foreign(co[c].st.token)))
         /\ co'[c].pc = (IF co[c].empty THEN "close" ELSE Top(co[c].st))
         /\ co'[c].st = co[c].st /\ co'[c].token = 0 /\ ~co'[c].empty
         /\ co'[c].dir = co[c].dir /\ co'[c].sum = co[c].sum
<1>1. /\ UNCHANGED <<doc, state, lock, lane, op, deploy, prereq, spec, used>> /\ co[c].pc = "tidy"
      /\ Delete(Foreign(co[c].st.token)) /\ past' = [past EXCEPT !.leaks = Leaks(Foreign(co[c].st.token))]
  BY DEF Tidy
<1>2. PICK pc \in CoordSteps : pc = IF co[c].empty THEN "close" ELSE Top(co[c].st)
  BY TopType DEF CoordSteps
<1> DEFINE r == [co[c] EXCEPT !.pc = pc, !.token = 0, !.empty = FALSE]
<1>3. Goes(c, r) BY <1>2 DEF Tidy
<1>4. /\ r \in CoordRec /\ r.pc = pc /\ r.st = co[c].st /\ r.token = 0
      /\ ~r.empty /\ r.dir = co[c].dir /\ r.sum = co[c].sum
  BY DEF Types, CoordRec
<1> HIDE DEF r
<1>5. co' \in [Coord -> CoordRec] /\ co'[c] = r /\ Only(c) BY <1>3, <1>4, CoGoes DEF Only
<1>6. PartsOK' BY <1>1, DeleteParts DEF Types
<1>7. past' \in History /\ OnlyLeaks(Leaks(Foreign(co[c].st.token))) BY <1>1, DropsLeaks
<1> QED BY <1>1, <1>2, <1>4, <1>5, <1>6, <1>7 DEF Types

LEMMA ActivateStep ==
  ASSUME Types, NEW c \in Coord, Activate(c)
  PROVE  /\ Types' /\ Only(c) /\ co[c].pc = "activate" /\ SamePlan
         /\ state'.status \in {state.status, "running"} /\ (state'.status # state.status => state.status = "pending")
         /\ co'[c].pc = "look" /\ co'[c].st \in {co[c].st, state'}
         /\ co'[c].token = co[c].token /\ co'[c].empty = co[c].empty /\ co'[c].dir = co[c].dir
         /\ co'[c].sum = co[c].sum
<1>1. state' \in {state, [state EXCEPT !.status = "running"]} /\ (state' # state => state.status = "pending")
  BY DEF Activate
<1>2. /\ state' \in StateDoc /\ SamePlan
      /\ state'.status \in {state.status, "running"} /\ (state'.status # state.status => state.status = "pending")
  BY <1>1 DEF Types, StateDoc, SamePlan, Status
<1>3. UNCHANGED <<doc, parts, lock, lane, op, deploy, prereq, spec, used, past>> /\ co[c].pc = "activate"
  BY DEF Activate
<1>4. PICK s \in StateDoc : s \in {co[c].st, state'} /\ Goes(c, [co[c] EXCEPT !.pc = "look", !.st = s])
  <2>1. CASE state.status = "pending" BY <1>2, <2>1 DEF Activate
  <2>2. CASE state.status # "pending"
    <3>1. Goes(c, [co[c] EXCEPT !.pc = "look", !.st = co[c].st]) BY <2>2 DEF Activate
    <3> QED BY <3>1 DEF Types, CoordRec
  <2> QED BY <2>1, <2>2
<1> DEFINE r == [co[c] EXCEPT !.pc = "look", !.st = s]
<1>5. /\ r \in CoordRec /\ r.pc = "look" /\ r.st = s /\ r.token = co[c].token
      /\ r.empty = co[c].empty /\ r.dir = co[c].dir /\ r.sum = co[c].sum
  BY DEF Types, CoordRec, CoordSteps
<1> HIDE DEF r
<1>6. co' \in [Coord -> CoordRec] /\ co'[c] = r /\ Only(c) BY <1>4, <1>5, CoGoes DEF Only, r
<1> QED BY <1>2, <1>3, <1>4, <1>5, <1>6 DEF Types, PartsOK

LEMMA LookStep ==
  ASSUME Types, NEW c \in Coord, Look(c)
  PROVE  /\ Types' /\ Only(c) /\ co[c].pc = "look" /\ SameCounts /\ parts' = Reaped
         /\ \/ co'[c] = NoCoord
            \/ ~StillOpen(Is(co[c].st.token)) /\ co'[c] = [co[c] EXCEPT !.pc = "close"]
<1>1. /\ UNCHANGED <<doc, state, lane, op, deploy, prereq, spec, used, past>> /\ co[c].pc = "look"
      /\ parts' = Reaped
  BY DEF Look
<1>2. PartsOK' /\ SameCounts BY <1>1, ReapedParts DEF Types
<1>3. CASE StillOpen(Is(co[c].st.token))
  <2>1. Release(c) BY <1>3 DEF Look
  <2> QED BY <1>1, <1>2, <2>1, Releases DEF Types, Only
<1>4. CASE ~StillOpen(Is(co[c].st.token))
  <2>1. Goes(c, [co[c] EXCEPT !.pc = "close"]) /\ UNCHANGED lock BY <1>4 DEF Look
  <2>2. [co[c] EXCEPT !.pc = "close"] \in CoordRec BY DEF Types, CoordRec, CoordSteps
  <2>3. co' \in [Coord -> CoordRec] /\ co'[c] = [co[c] EXCEPT !.pc = "close"] /\ Only(c)
    BY <2>1, <2>2, CoGoes DEF Only
  <2> QED BY <1>1, <1>2, <1>4, <2>1, <2>3 DEF Types
<1> QED BY <1>3, <1>4

\* The partitions of a generation have finite counters, and documents for failures.
LEMMA GenerationType ==
  ASSUME Types, NEW c \in Coord
  PROVE  Counters(Generation(c)) \in Nat /\ BadOf(Generation(c)) \in SUBSET Doc
<1>1. Generation(c) \subseteq DOMAIN parts BY DEF Generation
<1>2. IsFiniteSet(DOMAIN parts) /\ \A p \in Generation(c) : parts[p].migrated \in Nat
  BY <1>1 DEF Types, PartsOK, PartOK, Partition
<1>3. IsFiniteSet(Generation(c)) BY <1>1, <1>2, FS_Subset
<1>4. Counters(Generation(c)) \in Nat BY <1>2, <1>3, CountedFinite
<1>5. BadOf(Generation(c)) \in SUBSET Doc BY <1>1 DEF BadOf, Types, PartsOK, PartOK, Partition
<1> QED BY <1>4, <1>5

LEMMA TotalStep ==
  ASSUME Types, NEW c \in Coord, Total(c)
  PROVE  /\ Types' /\ Only(c) /\ co[c].pc = "close"
         /\ co'[c].st = co[c].st /\ co'[c].token = co[c].token /\ co'[c].empty = co[c].empty
         /\ co'[c].dir = co[c].dir
         /\ \/ /\ co'[c].pc = "roll" /\ co'[c].sum.migrated = Counters(Generation(c))
               /\ co'[c].sum.bad = co[c].st.bad \cup BadOf(Generation(c))
            \/ co'[c].pc = "judge" /\ co'[c].sum = co[c].sum
<1>1. UNCHANGED <<doc, state, parts, lock, lane, op, deploy, prereq, spec, used, past>> /\ co[c].pc = "close"
  BY DEF Total
<1>2. PICK n \in Nat : n = Counters(Generation(c)) BY GenerationType
<1>3. PICK B \in SUBSET Doc : B = co[c].st.bad \cup BadOf(Generation(c))
  BY GenerationType DEF Types, CoordRec, StateDoc
<1>4. PICK failed \in BOOLEAN : failed = \E p \in Generation(c) : parts[p].status = "failed" OBVIOUS
<1>5. CASE co[c].st.rolled < co[c].st.gen
  <2>2. PICK sum \in SumRec :
          sum = [migrated |-> n, bad |-> B, failed |-> failed] /\ sum.migrated = n /\ sum.bad = B
    <3>1. [migrated |-> n, bad |-> B, failed |-> failed] \in SumRec BY DEF SumRec
    <3> QED BY <3>1
  <2> DEFINE r == [co[c] EXCEPT !.pc = "roll", !.sum = sum]
  <2>1. Goes(c, r) BY <1>2, <1>3, <1>4, <1>5, <2>2 DEF Total
  <2>3. /\ r \in CoordRec /\ r.pc = "roll" /\ r.st = co[c].st /\ r.token = co[c].token
        /\ r.empty = co[c].empty /\ r.dir = co[c].dir /\ r.sum = sum
    BY <2>2 DEF Types, CoordRec, CoordSteps
  <2> HIDE DEF r
  <2>4. co' \in [Coord -> CoordRec] /\ co'[c] = r /\ Only(c) BY <2>1, <2>3, CoGoes DEF Only
  <2> QED BY <1>1, <1>2, <1>3, <2>2, <2>3, <2>4 DEF Types, PartsOK
<1>6. CASE ~(co[c].st.rolled < co[c].st.gen)
  <2> DEFINE r == [co[c] EXCEPT !.pc = "judge"]
  <2>1. Goes(c, r) BY <1>6 DEF Total
  <2>2. /\ r \in CoordRec /\ r.pc = "judge" /\ r.st = co[c].st /\ r.token = co[c].token
        /\ r.empty = co[c].empty /\ r.dir = co[c].dir /\ r.sum = co[c].sum
    BY DEF Types, CoordRec, CoordSteps
  <2> HIDE DEF r
  <2>3. co' \in [Coord -> CoordRec] /\ co'[c] = r /\ Only(c) BY <2>1, <2>2, CoGoes DEF Only
  <2> QED BY <1>1, <2>2, <2>3 DEF Types, PartsOK
<1> QED BY <1>5, <1>6

LEMMA RollStep ==
  ASSUME Types, NEW c \in Coord, Roll(c)
  PROVE  /\ Types' /\ Only(c) /\ co[c].pc = "roll"
         /\ state'.gen = state.gen /\ state'.token = state.token /\ state'.dir = state.dir
         /\ state'.status = state.status
         /\ \/ /\ Rolls(co[c].st.gen) /\ state'.rolled = co[c].st.gen
               /\ state'.total = state.total + co[c].sum.migrated /\ state'.bad = co[c].sum.bad
               /\ OnlyLeaks(Leaks(UpTo(co[c].st.gen - 1)))
            \/ ~Rolls(co[c].st.gen) /\ UNCHANGED <<state, past>>
         /\ \/ co'[c] = NoCoord
            \/ /\ co'[c].pc = "judge" /\ co'[c].st = state' /\ co'[c].token = co[c].token
               /\ co'[c].empty = co[c].empty /\ co'[c].dir = co[c].dir /\ co'[c].sum = NoCoord.sum
<1>1. /\ UNCHANGED <<doc, parts, lane, op, deploy, prereq, spec, used>> /\ co[c].pc = "roll"
      /\ GoesOn(c, state', "judge")
  BY DEF Roll
<1>2. /\ state' \in StateDoc /\ past' \in History
      /\ state'.gen = state.gen /\ state'.token = state.token /\ state'.dir = state.dir
      /\ state'.status = state.status
      /\ \/ /\ Rolls(co[c].st.gen) /\ state'.rolled = co[c].st.gen
            /\ state'.total = state.total + co[c].sum.migrated /\ state'.bad = co[c].sum.bad
            /\ OnlyLeaks(Leaks(UpTo(co[c].st.gen - 1)))
         \/ ~Rolls(co[c].st.gen) /\ UNCHANGED <<state, past>>
  <2>1. CASE Rolls(co[c].st.gen)
    <3>1. PICK g \in Nat : g = co[c].st.gen BY DEF Types, CoordRec, StateDoc
    <3>2. PICK sum \in SumRec : sum = co[c].sum
      BY DEF Types, CoordRec
    <3>3. PICK n \in Nat : n = state.total + sum.migrated BY DEF Types, StateDoc, SumRec
    <3>4. PICK failed \in BOOLEAN : failed = (state.failed \/ sum.failed) BY DEF Types, StateDoc
    <3>5. state' = [state EXCEPT !.rolled = g, !.total = n, !.bad = sum.bad, !.failed = failed]
      BY <2>1, <3>1, <3>2, <3>3, <3>4 DEF Roll
    <3>6. past' = [past EXCEPT !.leaks = Leaks(UpTo(co[c].st.gen - 1))] BY <2>1 DEF Roll
    <3>7. /\ state' \in StateDoc
          /\ state'.gen = state.gen /\ state'.token = state.token /\ state'.dir = state.dir
          /\ state'.status = state.status
          /\ state'.rolled = g /\ state'.total = n /\ state'.bad = sum.bad
      BY <3>5 DEF Types, StateDoc, SumRec
    <3> QED BY <2>1, <3>1, <3>2, <3>3, <3>6, <3>7, DropsLeaks
  <2>2. CASE ~Rolls(co[c].st.gen)
    <3>1. UNCHANGED <<state, past>> BY <2>2 DEF Roll
    <3> QED BY <2>2, <3>1 DEF Types
  <2> QED BY <2>1, <2>2
<1>3. PICK s \in StateDoc : s = state' BY <1>2
<1>4. GoesOn(c, s, "judge") BY <1>1, <1>3
<1>5. /\ co' \in [Coord -> CoordRec] /\ lock' \in Coord \cup {None} /\ Only(c)
      /\ \/ co'[c] = NoCoord
         \/ /\ co'[c].pc = "judge" /\ co'[c].st = s /\ co'[c].token = co[c].token
            /\ co'[c].empty = co[c].empty /\ co'[c].dir = co[c].dir /\ co'[c].sum = NoCoord.sum
  BY <1>4, GoesOnTo DEF Only
<1>6. Types' BY <1>1, <1>2, <1>5 DEF Types, PartsOK
<1> QED BY <1>1, <1>2, <1>3, <1>5, <1>6

LEMMA JudgeStep ==
  ASSUME Types, NEW c \in Coord, Judge(c)
  PROVE  /\ Types' /\ Only(c) /\ co[c].pc = "judge"
         /\ co'[c].pc \in {"fail", "complete", "next"}
         /\ co'[c].pc = "complete" => Remaining(c) = {}
         /\ co'[c].st = co[c].st /\ co'[c].token = co[c].token /\ co'[c].empty = co[c].empty
         /\ co'[c].dir = co[c].dir /\ co'[c].sum = co[c].sum
         /\ past'.crossed = past.crossed /\ past'.resumed = past.resumed /\ past'.stalled = past.stalled
         /\ past'.work = past.work /\ past'.leaks = past.leaks /\ SameOusted
         /\ \/ /\ UNCHANGED past
               /\ co'[c].pc = "complete" /\ c \notin past.ousted
                    => \E k \in Coord \ past.ousted : co[k].pc = "complete"
            \/ past'.late = {} /\ Remaining(c) = {} /\ c \notin past.ousted
<1> DEFINE Stays == \/ co[c].st.failed \/ Remaining(c) # {} \/ c \in past.ousted
                    \/ \E k \in Coord \ past.ousted : co[k].pc = "complete"
<1>1. UNCHANGED <<doc, state, parts, lock, lane, op, deploy, prereq, spec, used>> /\ co[c].pc = "judge"
  BY DEF Judge
<1>2. PICK pc \in {"fail", "complete", "next"} :
        /\ Goes(c, [co[c] EXCEPT !.pc = pc])
        /\ pc = "complete" <=> ~co[c].st.failed /\ Remaining(c) = {}
  BY DEF Judge
<1> DEFINE r == [co[c] EXCEPT !.pc = pc]
<1>3. /\ r \in CoordRec /\ r.pc = pc /\ r.st = co[c].st /\ r.token = co[c].token
      /\ r.empty = co[c].empty /\ r.dir = co[c].dir /\ r.sum = co[c].sum
  BY DEF Types, CoordRec, CoordSteps
<1> HIDE DEF r
<1>4. co' \in [Coord -> CoordRec] /\ co'[c] = r /\ Only(c) BY <1>2, <1>3, CoGoes DEF Only, r
<1>5. /\ past' \in History
      /\ past'.crossed = past.crossed /\ past'.resumed = past.resumed /\ past'.stalled = past.stalled
      /\ past'.work = past.work /\ past'.leaks = past.leaks /\ SameOusted
      /\ \/ /\ UNCHANGED past
            /\ pc = "complete" /\ c \notin past.ousted
                 => \E k \in Coord \ past.ousted : co[k].pc = "complete"
         \/ past'.late = {} /\ Remaining(c) = {} /\ c \notin past.ousted
  <2>1. CASE Stays
    <3>1. UNCHANGED past BY <2>1 DEF Judge
    <3> QED BY <1>2, <2>1, <3>1 DEF Types, SameOusted
  <2>2. CASE ~Stays
    <3>1. past' = [past EXCEPT !.late = {}] BY <2>2 DEF Judge
    <3> QED BY <2>2, <3>1 DEF Types, History, SameOusted
  <2> QED BY <2>1, <2>2
<1> QED BY <1>1, <1>2, <1>3, <1>4, <1>5 DEF Types, PartsOK

\* What a completion does to the history.
Completes(c, L) ==
  /\ past'.leaks = L /\ past'.work = past.work /\ past'.late = past.late
  /\ past'.ousted = past.ousted /\ past'.crossed = past.crossed /\ SameCrossings

LEMMA CompleteStep ==
  ASSUME Types, NEW c \in Coord, Complete(c)
  PROVE  /\ Types' /\ Only(c) /\ co[c].pc = "complete" /\ co'[c] = NoCoord /\ SamePlan
         /\ \/ state'.status = state.status /\ past'.misled = past.misled
            \/ /\ state.status \in {"pending", "running"} /\ state'.status = "completed"
               /\ ~past'.misled => c \notin past.ousted
         /\ Delete(UpTo(co[c].st.gen - 1)) /\ Completes(c, Leaks(UpTo(co[c].st.gen - 1)))
<1> DEFINE hit == state.status \in {"pending", "running"}
<1>1. /\ UNCHANGED <<doc, lane, op, deploy, prereq, spec, used>> /\ co[c].pc = "complete"
      /\ Delete(UpTo(co[c].st.gen - 1)) /\ Release(c)
      /\ past' = [past EXCEPT !.leaks = Leaks(UpTo(co[c].st.gen - 1)),
                              !.misled = IF hit THEN c \in past.ousted ELSE @]
      /\ state' = IF hit THEN [state EXCEPT !.status = "completed", !.phase = "process"] ELSE state
  BY DEF Complete
<1>2. /\ state' \in StateDoc /\ SamePlan
      /\ IF hit THEN state'.status = "completed" ELSE state'.status = state.status
  BY <1>1 DEF Types, StateDoc, SamePlan, Status
<1>3. PICK L \in SUBSET Count : L = Leaks(UpTo(co[c].st.gen - 1)) BY LeaksType
<1>4. PICK m \in BOOLEAN : m = IF hit THEN c \in past.ousted ELSE past.misled
  <2>1. past.misled \in BOOLEAN BY DEF Types, History
  <2>2. (c \in past.ousted) \in BOOLEAN OBVIOUS
  <2> QED BY <2>1, <2>2, Zenon
<1>5. past' = [past EXCEPT !.leaks = L, !.misled = m] BY <1>1, <1>3, <1>4
<1>6. past' \in History /\ Completes(c, L) /\ past'.misled = m
  BY <1>5 DEF Types, History, Completes, SameCrossings
<1>7. PartsOK' BY <1>1, DeleteParts DEF Types
<1>8. /\ co' \in [Coord -> CoordRec] /\ lock' \in Coord \cup {None}
      /\ co'[c] = NoCoord /\ Only(c)
  BY <1>1, Releases DEF Only
<1>9. CASE hit
  <2>1. ~past'.misled => c \notin past.ousted BY <1>4, <1>6, <1>9
  <2> QED BY <1>1, <1>2, <1>3, <1>6, <1>7, <1>8, <1>9, <2>1 DEF Types
<1>10. CASE ~hit
  <2>1. past'.misled = past.misled BY <1>4, <1>6, <1>10
  <2> QED BY <1>1, <1>2, <1>3, <1>6, <1>7, <1>8, <1>10, <2>1 DEF Types
<1> QED BY <1>9, <1>10

LEMMA NextPassStep ==
  ASSUME Types, NEW c \in Coord, NextPass(c)
  PROVE  /\ Types' /\ Only(c) /\ co[c].pc = "next" /\ SamePlan /\ state'.status = state.status
         /\ Delete(UpTo(co[c].st.gen - 1)) /\ OnlyLeaks(Leaks(UpTo(co[c].st.gen - 1)))
         /\ \/ co'[c] = NoCoord
            \/ /\ co'[c].pc = Top(state') /\ co'[c].st = state' /\ co'[c].token = co[c].token
               /\ co'[c].empty = co[c].empty /\ co'[c].dir = co[c].dir /\ co'[c].sum = NoCoord.sum
<1>1. /\ UNCHANGED <<doc, lane, op, deploy, prereq, spec, used>> /\ co[c].pc = "next"
      /\ Delete(UpTo(co[c].st.gen - 1))
      /\ past' = [past EXCEPT !.leaks = Leaks(UpTo(co[c].st.gen - 1))]
  BY DEF NextPass
<1>2. state' \in StateDoc /\ SamePlan /\ state'.status = state.status
  BY DEF NextPass, Types, StateDoc, SamePlan
<1>3. past' \in History /\ OnlyLeaks(Leaks(UpTo(co[c].st.gen - 1))) BY <1>1, DropsLeaks
<1>4. PartsOK' BY <1>1, DeleteParts DEF Types
<1>5. PICK s \in StateDoc : s = state' BY <1>2
<1>6. /\ co' \in [Coord -> CoordRec] /\ lock' \in Coord \cup {None} /\ Only(c)
      /\ \/ co'[c] = NoCoord
         \/ /\ co'[c].pc = Top(s) /\ co'[c].st = s /\ co'[c].token = co[c].token
            /\ co'[c].empty = co[c].empty /\ co'[c].dir = co[c].dir /\ co'[c].sum = NoCoord.sum
  <2>1. CASE lock = c
    <3>1. GoesOn(c, s, Top(s)) BY <1>5, <2>1 DEF NextPass
    <3>2. Top(s) \in {"replan", "plan", "activate", "look", "judge"} BY TopType
    <3> QED BY <3>1, <3>2, GoesOnTo DEF Only
  <2>2. CASE lock # c
    <3>1. Release(c) BY <2>2 DEF NextPass
    <3> QED BY <3>1, Releases DEF Only
  <2> QED BY <2>1, <2>2
<1> QED BY <1>1, <1>2, <1>3, <1>4, <1>5, <1>6 DEF Types

\* What failing a state does.
LEMMA FailedFacts ==
  ASSUME Types, state' = Failed
  PROVE  /\ state' \in StateDoc /\ SamePlan
         /\ \/ state'.status = state.status
            \/ state.status \in {"blocked", "pending", "running"} /\ state'.status = "failed"
BY DEF Failed, Types, StateDoc, SamePlan, Status

LEMMA FailStep ==
  ASSUME Types, NEW c \in Coord, Fail(c)
  PROVE  /\ Types' /\ Only(c) /\ co[c].pc = "fail" /\ co'[c] = NoCoord /\ SamePlan
         /\ \/ state'.status = state.status
            \/ state.status \in {"blocked", "pending", "running"} /\ state'.status = "failed"
<1>1. /\ UNCHANGED <<doc, parts, lane, op, deploy, prereq, spec, used, past>> /\ co[c].pc = "fail"
      /\ state' = Failed /\ Release(c)
  BY DEF Fail
<1>2. /\ co' \in [Coord -> CoordRec] /\ lock' \in Coord \cup {None}
      /\ co'[c] = NoCoord /\ Only(c)
  BY <1>1, Releases DEF Only
<1> QED BY <1>1, <1>2, FailedFacts DEF Types, PartsOK

LEMMA CoordCrashStep ==
  ASSUME Types, NEW c \in Coord, CoordCrash(c)
  PROVE  Types' /\ Only(c) /\ co'[c] = NoCoord /\ used'.plans = used.plans
<1>1. /\ UNCHANGED <<doc, state, parts, lane, op, deploy, prereq, spec, past>>
      /\ Release(c) /\ Use("faults", MaxFaults)
  BY DEF CoordCrash, Fault
<1>2. /\ co' \in [Coord -> CoordRec] /\ lock' \in Coord \cup {None}
      /\ co'[c] = NoCoord /\ Only(c)
  BY <1>1, Releases DEF Only
<1>3. /\ used' \in [plans: 0..MaxPlans, faults: 0..MaxFaults, writes: 0..MaxWrites, controls: 0..MaxControls]
      /\ used'.plans = used.plans
  BY <1>1, UseType
<1> QED BY <1>1, <1>2, <1>3 DEF Types, PartsOK

LEMMA LoseLockStep ==
  ASSUME Types, NEW c \in Coord, LoseLock(c)
  PROVE  Types' /\ used'.plans = used.plans
<1>1. /\ UNCHANGED <<doc, state, parts, co, lane, op, deploy, prereq, spec, past>>
      /\ lock' = None /\ Use("faults", MaxFaults)
  BY DEF LoseLock, Fault
<1>2. /\ used' \in [plans: 0..MaxPlans, faults: 0..MaxFaults, writes: 0..MaxWrites, controls: 0..MaxControls]
      /\ used'.plans = used.plans
  BY <1>1, UseType
<1> QED BY <1>1, <1>2 DEF Types, PartsOK

-----------------------------------------------------------------------------
(* The steps of a lane *)

\* The other lanes stay where they are.
OnlyLane(l) == \A k \in Lane : k # l => lane'[k] = lane[k]

LEMMA SliceStep ==
  ASSUME Types, NEW l \in Lane, Slice(l)
  PROVE  /\ Types' /\ OnlyLane(l) /\ lane[l].pc = "idle" /\ state.status = "running"
         /\ lane'[l].pc = "claim" /\ lane'[l].gen = state.gen /\ lane'[l].token = state.token
         /\ lane'[l].failed = {}
<1> DEFINE r == [NoLane EXCEPT !.pc = "claim", !.gen = state.gen, !.token = state.token,
                               !.dir = state.dir, !.skip = state.bad]
<1>1. /\ LaneGoes(l, r) /\ lane[l].pc = "idle" /\ state.status = "running"
      /\ UNCHANGED <<doc, state, parts, lock, co, op, deploy, prereq, spec, used, past>>
  BY DEF Slice
<1>2. r \in LaneRec /\ r.pc = "claim" /\ r.gen = state.gen /\ r.token = state.token /\ r.failed = {}
  <2>1. /\ state.gen \in Nat /\ state.token \in Token \cup {0} /\ state.dir \in Direction
        /\ state.bad \in SUBSET Doc
    BY DEF Types, StateDoc
  <2> QED BY <2>1 DEF NoLane, LaneRec, Slot
<1> HIDE DEF r
<1>3. lane' \in [Lane -> LaneRec] /\ lane'[l] = r /\ OnlyLane(l) BY <1>1, <1>2, LaneGoesTo DEF OnlyLane
<1> QED BY <1>1, <1>2, <1>3 DEF Types, PartsOK

LEMMA ClaimStep ==
  ASSUME Types, NEW l \in Lane, Claim(l)
  PROVE  /\ Types' /\ OnlyLane(l) /\ lane[l].pc = "claim" /\ SameCounts
         /\ \/ parts' = Reaped /\ lane'[l] = NoLane
            \/ \E p \in DOMAIN parts :
                 /\ p[1] = lane[l].token /\ Open(p)
                 /\ parts'[p].status = "running" /\ parts'[p].lease = l /\ parts'[p].live
                 /\ \A q \in DOMAIN parts : q # p => parts'[q] = Reaped[q]
                 /\ lane'[l].pc = "control" /\ lane'[l].part = p /\ lane'[l].gen = lane[l].gen
                 /\ lane'[l].token = lane[l].token /\ lane'[l].failed = lane[l].failed
<1>1. /\ lane[l].pc = "claim"
      /\ UNCHANGED <<doc, state, lock, co, op, deploy, prereq, spec, used, past>>
  BY DEF Claim
<1> DEFINE free == {p \in Is(lane[l].token) : Open(p) /\ Reaped[p].lease = None}
<1>2. CASE free = {}
  <2>1. parts' = Reaped /\ LaneGoes(l, NoLane) BY <1>2 DEF Claim
  <2>2. PartsOK' /\ SameCounts BY <2>1, ReapedParts DEF Types
  <2>3. lane' \in [Lane -> LaneRec] /\ lane'[l] = NoLane /\ OnlyLane(l)
    BY <2>1, Constants, LaneGoesTo DEF OnlyLane
  <2> QED BY <1>1, <2>1, <2>2, <2>3 DEF Types
<1>3. CASE free # {}
  <2>1. PICK p \in free :
          /\ parts' = [Reaped EXCEPT ![p] = [@ EXCEPT !.status = "running", !.lease = l, !.live = TRUE]]
          /\ LaneGoes(l, [lane[l] EXCEPT !.pc = "control", !.part = p,
                                         !.scope = parts[p].scope, !.from = parts[p].cursor])
    BY <1>3 DEF Claim
  <2>2. p \in DOMAIN parts /\ p[1] = lane[l].token /\ Open(p) BY DEF Is
  <2>3. PICK s \in SUBSET Doc : s = parts[p].scope BY <2>2 DEF Types, PartsOK, PartOK, Partition
  <2>4. PICK n \in Nat : n = parts[p].cursor BY <2>2 DEF Types, PartsOK, PartOK, Partition
  <2>5. PICK q \in Slot : q = p BY <2>2 DEF Types, PartsOK, Slot
  <2> DEFINE r == [lane[l] EXCEPT !.pc = "control", !.part = q, !.scope = s, !.from = n]
  <2>6. LaneGoes(l, r) BY <2>1, <2>3, <2>4, <2>5
  <2>7. /\ r \in LaneRec /\ r.pc = "control" /\ r.part = q /\ r.gen = lane[l].gen
        /\ r.token = lane[l].token /\ r.failed = lane[l].failed
    <3>1. lane[l] \in LaneRec BY DEF Types
    <3> HIDE DEF free
    <3> QED BY <3>1 DEF LaneRec
  <2> HIDE DEF r
  <2>8. lane' \in [Lane -> LaneRec] /\ lane'[l] = r /\ OnlyLane(l) BY <2>6, <2>7, LaneGoesTo DEF OnlyLane
  <2> DEFINE v == [Reaped[p] EXCEPT !.status = "running", !.lease = l, !.live = TRUE]
  <2>9. /\ DOMAIN Reaped = DOMAIN parts
        /\ \A w \in DOMAIN parts : /\ PartOK(Reaped[w]) /\ Reaped[w].gen = parts[w].gen
                                   /\ Reaped[w].migrated = parts[w].migrated
                                   /\ Reaped[w].bad = parts[w].bad
    BY ReapedFacts DEF Types
  <2>10. parts' = [Reaped EXCEPT ![p] = v] BY <2>1, <2>2, <2>9
  <2>11. l # None BY NoneAssumption
  <2>12. /\ PartOK(v) /\ v.gen = parts[p].gen /\ v.migrated = parts[p].migrated /\ v.bad = parts[p].bad
         /\ v.status = "running" /\ v.lease = l /\ v.live
    BY <2>2, <2>9, <2>11 DEF PartOK, Partition, OpenPartition
  <2> HIDE DEF v
  <2>13. /\ DOMAIN parts' = DOMAIN parts /\ parts'[p] = v
         /\ \A w \in DOMAIN parts : w # p => parts'[w] = Reaped[w]
    BY <2>2, <2>9, <2>10
  <2>14. \A w \in DOMAIN parts :
           /\ PartOK(parts'[w]) /\ parts'[w].gen = parts[w].gen
           /\ parts'[w].migrated = parts[w].migrated /\ parts'[w].bad = parts[w].bad
    BY <2>9, <2>12, <2>13
  <2>15. SameCounts BY <2>13, <2>14 DEF SameCounts
  <2>16. PartsOK' BY <2>13, <2>14 DEF Types, PartsOK
  <2>17. Types' BY <1>1, <2>8, <2>16 DEF Types
  <2>18. /\ parts'[p].status = "running" /\ parts'[p].lease = l /\ parts'[p].live
         /\ lane'[l].pc = "control" /\ lane'[l].part = p /\ lane'[l].gen = lane[l].gen
         /\ lane'[l].token = lane[l].token /\ lane'[l].failed = lane[l].failed
    BY <2>5, <2>7, <2>8, <2>12, <2>13
  <2> QED BY <1>1, <2>2, <2>8, <2>13, <2>15, <2>17, <2>18
<1> QED BY <1>2, <1>3

\* One partition gets another status, or loses its lease.
Frees(p) ==
  /\ p \in DOMAIN parts /\ DOMAIN parts' = DOMAIN parts
  /\ parts'[p].gen = parts[p].gen /\ parts'[p].migrated = parts[p].migrated
  /\ parts'[p].bad = parts[p].bad /\ parts'[p].lease = None /\ (Open(p)' => Open(p))
  /\ \A q \in DOMAIN parts : q # p => parts'[q] = parts[q]

LEMMA FreesParts ==
  ASSUME PartsOK, NEW p \in DOMAIN parts, NEW s \in {"running", "failed", parts[p].status},
         s \in OpenPartition => Open(p),
         Alter(p, [parts[p] EXCEPT !.status = s, !.lease = None, !.live = FALSE])
  PROVE  PartsOK' /\ Frees(p)
<1>1. PartOK(parts[p]) BY DEF PartsOK
<1>2. PICK r : r = [parts[p] EXCEPT !.status = s, !.lease = None, !.live = FALSE] OBVIOUS
<1>3. /\ PartOK(r) /\ r.gen = parts[p].gen /\ r.migrated = parts[p].migrated
      /\ r.bad = parts[p].bad /\ r.lease = None /\ r.status = s
  BY <1>1, <1>2 DEF PartOK, Partition, OpenPartition
<1>4. Alter(p, r) BY <1>2
<1>5. /\ PartsOK' /\ DOMAIN parts' = DOMAIN parts /\ parts'[p] = r
      /\ \A q \in DOMAIN parts : q # p => parts'[q] = parts[q]
  BY <1>3, <1>4, AlterParts
<1> QED BY <1>3, <1>5 DEF Frees, Open

LEMMA UnleaseParts ==
  ASSUME Types, NEW l \in Lane, Unlease(l)
  PROVE  PartsOK' /\ (UNCHANGED parts \/ Frees(At(l)))
<1>1. CASE Holds(l)
  <2>1. At(l) \in DOMAIN parts BY <1>1 DEF Holds
  <2>2. PICK p \in DOMAIN parts : p = At(l) BY <2>1
  <2>3. Alter(p, [parts[p] EXCEPT !.lease = None, !.live = FALSE]) BY <1>1, <2>2 DEF Unlease
  <2>4. PartOK(parts[p]) BY DEF Types, PartsOK
  <2>5. [parts[p] EXCEPT !.lease = None, !.live = FALSE]
          = [parts[p] EXCEPT !.status = parts[p].status, !.lease = None, !.live = FALSE]
    BY <2>4 DEF PartOK, Partition
  <2>6. Alter(p, [parts[p] EXCEPT !.status = parts[p].status, !.lease = None, !.live = FALSE])
    BY <2>3, <2>5
  <2>7. parts[p].status \in OpenPartition => Open(p) BY DEF Open
  <2>8. PartsOK BY DEF Types
  <2>9. PartsOK' /\ Frees(p) BY <2>6, <2>7, <2>8, FreesParts
  <2> QED BY <2>2, <2>9
<1>2. CASE ~Holds(l)
  <2>1. UNCHANGED parts BY <1>2 DEF Unlease
  <2> QED BY <2>1 DEF Types, PartsOK
<1> QED BY <1>1, <1>2

LEMMA LaneEnds ==
  ASSUME Types, NEW l \in Lane, LaneGoes(l, NoLane)
  PROVE  lane' \in [Lane -> LaneRec] /\ lane'[l] = NoLane /\ OnlyLane(l)
BY Constants, LaneGoesTo DEF OnlyLane

\* A lane goes on with its partition.
SamePart(l) ==
  /\ lane'[l].gen = lane[l].gen /\ lane'[l].token = lane[l].token
  /\ lane'[l].part = lane[l].part /\ lane'[l].dir = lane[l].dir

LEMMA ControlStep ==
  ASSUME Types, NEW l \in Lane, Control(l)
  PROVE  /\ Types' /\ OnlyLane(l) /\ lane[l].pc = "control"
         /\ \/ /\ state.status = "running" /\ UNCHANGED parts
               /\ lane'[l].pc = "write" /\ SamePart(l) /\ lane'[l].failed = lane[l].failed
            \/ lane'[l] = NoLane /\ (UNCHANGED parts \/ Frees(At(l)))
<1>1. lane[l].pc = "control" /\ UNCHANGED <<doc, state, lock, co, op, deploy, prereq, spec, used, past>>
  BY DEF Control
<1>2. CASE state.status = "running" /\ state.gen = lane[l].gen /\ state.token = lane[l].token
  <2> DEFINE r == [lane[l] EXCEPT !.pc = "write"]
  <2>1. LaneGoes(l, r) /\ UNCHANGED parts BY <1>2 DEF Control
  <2>2. lane[l] \in LaneRec BY DEF Types
  <2>3. /\ r \in LaneRec /\ r.pc = "write" /\ r.gen = lane[l].gen /\ r.token = lane[l].token
        /\ r.part = lane[l].part /\ r.dir = lane[l].dir /\ r.failed = lane[l].failed
    BY <2>2 DEF LaneRec
  <2> HIDE DEF r
  <2>4. lane' \in [Lane -> LaneRec] /\ lane'[l] = r /\ OnlyLane(l) BY <2>1, <2>3, LaneGoesTo DEF OnlyLane
  <2> QED BY <1>1, <1>2, <2>1, <2>3, <2>4 DEF Types, PartsOK, SamePart
<1>3. CASE ~(state.status = "running" /\ state.gen = lane[l].gen /\ state.token = lane[l].token)
  <2>1. LaneGoes(l, NoLane) /\ Unlease(l) BY <1>3 DEF Control
  <2> QED BY <1>1, <2>1, LaneEnds, UnleaseParts DEF Types
<1> QED BY <1>2, <1>3

LEMMA YieldStep ==
  ASSUME Types, NEW l \in Lane, Yield(l)
  PROVE  /\ Types' /\ OnlyLane(l) /\ used'.plans = used.plans
         /\ lane'[l] = NoLane /\ (UNCHANGED parts \/ Frees(At(l)))
<1>1. /\ UNCHANGED <<doc, state, lock, co, op, deploy, prereq, spec, past>>
      /\ LaneGoes(l, NoLane) /\ Unlease(l)
      /\ UNCHANGED used \/ Use("faults", MaxFaults)
  BY DEF Yield, Fault
<1>2. /\ used' \in [plans: 0..MaxPlans, faults: 0..MaxFaults, writes: 0..MaxWrites, controls: 0..MaxControls]
      /\ used'.plans = used.plans
  BY <1>1, UseType DEF Types
<1> QED BY <1>1, <1>2, LaneEnds, UnleaseParts DEF Types

LEMMA BatchStep ==
  ASSUME Types, NEW l \in Lane, NEW all \in BOOLEAN, Batch(l, all)
  PROVE  /\ Types' /\ OnlyLane(l) /\ lane[l].pc = "write"
         /\ lane'[l].pc = "save" /\ SamePart(l) /\ lane'[l].failed \subseteq Poison
         /\ past'.crossed = past.crossed /\ past'.resumed = past.resumed /\ past'.stalled = past.stalled
         /\ past'.work = past.work /\ past'.leaks = past.leaks /\ SameOusted
         /\ \E good \in SUBSET Doc :
              /\ doc' = [d \in Doc |-> IF d \in good THEN Target(lane[l].dir) ELSE doc[d]]
              /\ past'.late = IF lane[l].dir = state.dir THEN past.late ELSE past.late \cup good
<1>1. /\ lane[l].pc = "write"
      /\ UNCHANGED <<state, parts, lock, co, op, deploy, prereq, spec, used>>
  BY DEF Batch
<1> DEFINE rest == Matching(l)
           batch == IF all \/ rest = {} THEN rest ELSE {Min(rest)}
<1>2. rest \in SUBSET Doc BY DEF Matching, OldShape
<1>3. batch \in SUBSET Doc BY <1>2, DocSets
<1>4. PICK last \in Nat : last = IF batch = {} THEN 0 ELSE Max(batch) BY <1>3, DocSets
<1>5. PICK good \in SUBSET Doc : good = batch \ Poison BY <1>3
<1>6. PICK bad \in SUBSET Doc : bad = batch \cap Poison BY <1>3
<1>7. PICK done \in BOOLEAN : done = (all \/ rest = {}) OBVIOUS
<1>8. /\ doc' = [d \in Doc |-> IF d \in good THEN Target(lane[l].dir) ELSE doc[d]]
      /\ LaneGoes(l, [lane[l] EXCEPT !.pc = "save", !.good = good, !.failed = bad,
                                     !.done = done, !.last = last])
      /\ past' = [past EXCEPT !.late = IF lane[l].dir = state.dir THEN @ ELSE @ \cup good,
                              !.rewrote = @ \cup good]
  BY <1>4, <1>5, <1>6, <1>7 DEF Batch
<1>9. bad \subseteq Poison BY <1>6
<1> HIDE DEF rest, batch
<1> DEFINE r == [lane[l] EXCEPT !.pc = "save", !.good = good, !.failed = bad, !.done = done, !.last = last]
<1>10. lane[l] \in LaneRec BY DEF Types
<1>11. /\ r \in LaneRec /\ r.pc = "save" /\ r.gen = lane[l].gen /\ r.token = lane[l].token
       /\ r.part = lane[l].part /\ r.dir = lane[l].dir /\ r.failed = bad
  BY <1>10 DEF LaneRec
<1>12. LaneGoes(l, r) BY <1>8
<1> HIDE DEF r
<1>13. lane' \in [Lane -> LaneRec] /\ lane'[l] = r /\ OnlyLane(l) BY <1>11, <1>12, LaneGoesTo DEF OnlyLane
<1>14. doc' \in [Doc -> {"old", "new"}] BY <1>8 DEF Types, Target
<1>15. PICK L \in SUBSET Doc : L = IF lane[l].dir = state.dir THEN past.late ELSE past.late \cup good
  BY DEF Types, History
<1>16. /\ past' \in History /\ past'.late = L
       /\ past'.crossed = past.crossed /\ past'.resumed = past.resumed /\ past'.stalled = past.stalled
       /\ past'.work = past.work /\ past'.leaks = past.leaks /\ SameOusted
  <2>1. past \in History BY DEF Types
  <2>2. PICK R \in SUBSET Doc : R = past.rewrote \cup good BY <2>1 DEF History
  <2>3. past' = [past EXCEPT !.late = L, !.rewrote = R] BY <1>8, <1>15, <2>2
  <2> QED BY <2>1, <2>3 DEF History, SameOusted
<1>17. Types' BY <1>1, <1>13, <1>14, <1>16 DEF Types, PartsOK
<1>18. SamePart(l) BY <1>11, <1>13 DEF SamePart
<1> QED BY <1>1, <1>8, <1>9, <1>11, <1>13, <1>15, <1>16, <1>17, <1>18

\* A batch that is not counted.
LEMMA UnsavedHistory ==
  ASSUME Types, NEW l \in Lane, past' = Unsaved(l)
  PROVE  /\ past' \in History /\ SameHistory /\ SameOusted /\ SameCrossings /\ past'.crossed = past.crossed
<1>1. PICK U \in SUBSET Doc : U = past.unsaved \cup lane[l].good BY DEF Types, History, LaneRec
<1>2. past' = [past EXCEPT !.unsaved = U] BY <1>1 DEF Unsaved
<1> QED BY <1>2 DEF Types, History, SameHistory, SameOusted, SameCrossings

\* The checkpoint's effect on its partition: it counts n documents.
LEMMA SaveStep ==
  ASSUME Types, NEW l \in Lane, Save(l)
  PROVE  /\ Types' /\ OnlyLane(l) /\ lane[l].pc = "save"
         /\ past'.crossed = past.crossed /\ past'.resumed = past.resumed /\ past'.stalled = past.stalled
         /\ past'.late = past.late /\ SameOusted
         /\ \/ SameHistory /\ lane'[l] = NoLane /\ (UNCHANGED parts \/ Frees(At(l)))
            \/ /\ Holds(l) /\ parts[At(l)].status = "running"
               /\ \/ lane'[l] = NoLane
                  \/ lane'[l].pc \in {"budget", "control"} /\ SamePart(l) /\ lane'[l].failed = {}
               /\ DOMAIN parts' = DOMAIN parts
               /\ \A q \in DOMAIN parts : q # At(l) => parts'[q] = parts[q]
               /\ parts'[At(l)].gen = parts[At(l)].gen
               /\ parts'[At(l)].bad = parts[At(l)].bad \cup lane[l].failed
               /\ \/ parts'[At(l)].lease = None
                  \/ parts'[At(l)].lease = parts[At(l)].lease /\ parts'[At(l)].live
               /\ \E n \in Nat :
                    LET counts == Counts(At(l), parts[At(l)].migrated + 1, parts[At(l)].migrated + n)
                        late == parts[At(l)].gen <= state.rolled /\ At(l)[1] # state.token IN
                    /\ parts'[At(l)].migrated = parts[At(l)].migrated + n
                    /\ past'.work = past.work \cup counts
                    /\ past'.leaks = IF late THEN past.leaks \cup counts ELSE past.leaks
<1>1. lane[l].pc = "save" /\ UNCHANGED <<doc, state, lock, co, op, deploy, prereq, spec, used>>
  BY DEF Save
<1>2. CASE ~(Holds(l) /\ parts[At(l)].status = "running")
  <2>1. LaneGoes(l, NoLane) /\ Unlease(l) /\ past' = Unsaved(l) BY <1>2 DEF Save
  <2>2. /\ past' \in History /\ SameHistory /\ past'.late = past.late /\ SameOusted
        /\ past'.crossed = past.crossed /\ past'.resumed = past.resumed /\ past'.stalled = past.stalled
    BY <2>1, UnsavedHistory DEF SameHistory, SameCrossings
  <2> QED BY <1>1, <2>1, <2>2, LaneEnds, UnleaseParts DEF Types
<1>3. CASE Holds(l) /\ parts[At(l)].status = "running"
  <2>1. PICK p \in DOMAIN parts : p = At(l) BY <1>3 DEF Holds
  <2>2. lane[l] \in LaneRec /\ PartOK(parts[p]) BY DEF Types, PartsOK
  <2>3. PICK n \in Nat : n = Cardinality(lane[l].good) BY <2>2, DocSets DEF LaneRec
  <2>4. PICK m \in Nat : m = parts[p].migrated + n BY <2>2 DEF PartOK, Partition
  <2>5. PICK B \in SUBSET Doc : B = parts[p].bad \cup lane[l].failed
    BY <2>2 DEF PartOK, Partition, LaneRec
  <2>6. PICK done \in BOOLEAN : done = lane[l].done BY <2>2 DEF LaneRec
  <2>7. PICK k \in Nat : k = IF done THEN parts[p].cursor ELSE lane[l].last
    BY <2>2 DEF PartOK, Partition, LaneRec
  <2>8. PICK s : s = IF done THEN "done" ELSE parts[p].status OBVIOUS
  <2>9. PICK h : h = IF done THEN None ELSE parts[p].lease OBVIOUS
  <2> DEFINE v == [parts[p] EXCEPT !.status = s, !.lease = h, !.live = ~done, !.cursor = k,
                                   !.migrated = m, !.bad = B]
  <2>10. Alter(p, v)
    <3>1. PICK a \in BOOLEAN : a = lane[l].done BY <2>2 DEF LaneRec
    <3>2. Alter(p, [parts[p] EXCEPT !.status = IF lane[l].done THEN "done" ELSE @,
                                    !.lease = IF lane[l].done THEN None ELSE @,
                                    !.live = ~lane[l].done,
                                    !.cursor = IF lane[l].done THEN @ ELSE lane[l].last,
                                    !.migrated = @ + Cardinality(lane[l].good),
                                    !.bad = @ \cup lane[l].failed])
      BY <1>3, <2>1 DEF Save
    <3> QED BY <2>2, <2>3, <2>4, <2>5, <2>6, <2>7, <2>8, <2>9, <3>2 DEF PartOK, Partition
  <2>11. /\ PartOK(v) /\ v.gen = parts[p].gen /\ v.migrated = m /\ v.bad = B
         /\ v.lease = None \/ (v.lease = parts[p].lease /\ v.live)
    <3>1. h # None \/ done BY <1>3, <2>1, <2>9, NoneAssumption DEF Holds
    <3> QED BY <1>3, <2>1, <2>2, <2>8, <2>9, <3>1 DEF PartOK, Partition, OpenPartition
  <2> HIDE DEF v
  <2>12. PartsOK BY DEF Types
  <2>13. /\ PartsOK' /\ DOMAIN parts' = DOMAIN parts /\ parts'[p] = v
         /\ \A q \in DOMAIN parts : q # p => parts'[q] = parts[q]
    BY <2>10, <2>11, <2>12, AlterParts
  <2> DEFINE then == [lane[l] EXCEPT !.from = lane[l].last, !.good = {}, !.last = 0,
                                     !.failed = {}, !.worked = TRUE]
             next == IF lane[l].failed # {} THEN [then EXCEPT !.pc = "budget"]
                     ELSE IF lane[l].done THEN NoLane ELSE [then EXCEPT !.pc = "control"]
             Next1(r) == /\ r \in LaneRec
                         /\ \/ r = NoLane
                            \/ /\ r.pc \in {"budget", "control"} /\ r.failed = {}
                               /\ r.gen = lane[l].gen /\ r.token = lane[l].token
                               /\ r.part = lane[l].part /\ r.dir = lane[l].dir
  <2>14. LaneGoes(l, next) BY <1>3 DEF Save
  <2>15. Next1(next)
    <3>1. then \in LaneRec /\ then.failed = {} /\ then.gen = lane[l].gen /\ then.token = lane[l].token
          /\ then.part = lane[l].part /\ then.dir = lane[l].dir
      BY <2>2 DEF LaneRec
    <3> HIDE DEF then
    <3>2. Next1([then EXCEPT !.pc = "budget"]) BY <3>1 DEF LaneRec
    <3>3. Next1([then EXCEPT !.pc = "control"]) BY <3>1 DEF LaneRec
    <3>4. Next1(NoLane) BY Constants
    <3> HIDE DEF Next1
    <3> QED BY <3>2, <3>3, <3>4
  <2>16. PICK r : r = next OBVIOUS
  <2>17. LaneGoes(l, r) /\ Next1(r) BY <2>14, <2>15, <2>16
  <2> HIDE DEF next, then
  <2>18. lane' \in [Lane -> LaneRec] /\ lane'[l] = r /\ OnlyLane(l) BY <2>17, LaneGoesTo DEF OnlyLane
  <2>19. PICK counts : counts = Counts(p, parts[p].migrated + 1, m) OBVIOUS
  <2>20. counts \in SUBSET Count
    BY <2>2, <2>19 DEF Counts, Count, Types, PartsOK, PartOK, Partition
  <2>21. PICK L \in SUBSET Count :
           L = IF parts[p].gen <= state.rolled /\ p[1] # state.token THEN past.leaks \cup counts ELSE past.leaks
    BY <2>20 DEF Types, History
  <2>22. PICK W \in SUBSET Count : W = past.work \cup counts BY <2>20 DEF Types, History
  <2>23. past' = [past EXCEPT !.work = W, !.leaks = L]
    <3>1. past' = [past EXCEPT !.work = @ \cup counts,
                               !.leaks = IF parts[p].gen <= state.rolled /\ p[1] # state.token
                                           THEN @ \cup counts ELSE @]
      BY <1>3, <2>1, <2>3, <2>4, <2>19 DEF Save
    <3> QED BY <3>1, <2>21, <2>22
  <2>24. /\ past' \in History /\ past'.work = W /\ past'.leaks = L /\ past'.late = past.late
         /\ past'.crossed = past.crossed /\ past'.resumed = past.resumed /\ past'.stalled = past.stalled
         /\ SameOusted
    BY <2>23 DEF Types, History, SameOusted
  <2>25. Types' BY <1>1, <2>13, <2>18, <2>24 DEF Types
  <2>26. \/ lane'[l] = NoLane
         \/ lane'[l].pc \in {"budget", "control"} /\ SamePart(l) /\ lane'[l].failed = {}
    BY <2>17, <2>18 DEF SamePart
  <2>27. /\ parts'[p].migrated = parts[p].migrated + n
         /\ past'.work = past.work \cup Counts(p, parts[p].migrated + 1, parts[p].migrated + n)
         /\ past'.leaks = IF parts[p].gen <= state.rolled /\ p[1] # state.token
                          THEN past.leaks \cup Counts(p, parts[p].migrated + 1, parts[p].migrated + n)
                          ELSE past.leaks
    <3>1. parts'[p].migrated = m BY <2>11, <2>13
    <3> QED BY <3>1, <2>4, <2>19, <2>21, <2>22, <2>24
  <2>28. /\ parts'[p].gen = parts[p].gen /\ parts'[p].bad = parts[p].bad \cup lane[l].failed
         /\ parts'[p].lease = None \/ (parts'[p].lease = parts[p].lease /\ parts'[p].live)
    BY <2>5, <2>11, <2>13
  <2> HIDE DEF Next1
  <2> QED BY <1>1, <1>3, <2>1, <2>13, <2>18, <2>24, <2>25, <2>26, <2>27, <2>28
<1> QED BY <1>2, <1>3

LEMMA BudgetStep ==
  ASSUME Types, NEW l \in Lane, Budget(l)
  PROVE  /\ Types' /\ OnlyLane(l) /\ lane[l].pc = "budget"
         /\ UNCHANGED parts \/ Frees(At(l))
         /\ \/ lane'[l] = NoLane
            \/ lane'[l].pc \in {"fail", "control"} /\ SamePart(l) /\ lane'[l].failed = lane[l].failed
<1>1. lane[l].pc = "budget" /\ UNCHANGED <<doc, state, lock, co, op, deploy, prereq, spec, used, past>>
  BY DEF Budget
<1>2. /\ \/ UNCHANGED parts
         \/ /\ Holds(l) /\ Open(At(l))
            /\ Alter(At(l), [parts[At(l)] EXCEPT !.status = "failed", !.lease = None, !.live = FALSE])
      /\ \/ LaneGoes(l, NoLane)
         \/ \E pc \in {"fail", "control"} : LaneGoes(l, [lane[l] EXCEPT !.pc = pc])
  BY DEF Budget
<1>3. PartsOK' /\ (UNCHANGED parts \/ Frees(At(l)))
  <2>1. PartsOK BY DEF Types
  <2>2. CASE UNCHANGED parts BY <2>1, <2>2 DEF PartsOK
  <2>3. CASE ~UNCHANGED parts
    <3>1. PICK p \in DOMAIN parts : p = At(l) BY <1>2, <2>3 DEF Holds
    <3>2. Open(p) /\ Alter(p, [parts[p] EXCEPT !.status = "failed", !.lease = None, !.live = FALSE])
      BY <1>2, <2>3, <3>1
    <3>3. PartsOK' /\ Frees(p) BY <2>1, <3>2, FreesParts
    <3> QED BY <3>1, <3>3
  <2> QED BY <2>2, <2>3
<1>4. CASE LaneGoes(l, NoLane) BY <1>1, <1>3, <1>4, LaneEnds DEF Types
<1>5. CASE \E pc \in {"fail", "control"} : LaneGoes(l, [lane[l] EXCEPT !.pc = pc])
  <2>1. PICK pc \in {"fail", "control"} : LaneGoes(l, [lane[l] EXCEPT !.pc = pc]) BY <1>5
  <2> DEFINE r == [lane[l] EXCEPT !.pc = pc]
  <2>2. lane[l] \in LaneRec BY DEF Types
  <2>3. /\ r \in LaneRec /\ r.pc = pc /\ r.gen = lane[l].gen /\ r.token = lane[l].token
        /\ r.part = lane[l].part /\ r.dir = lane[l].dir /\ r.failed = lane[l].failed
    BY <2>2 DEF LaneRec
  <2>4. LaneGoes(l, r) BY <2>1
  <2> HIDE DEF r
  <2>5. lane' \in [Lane -> LaneRec] /\ lane'[l] = r /\ OnlyLane(l) BY <2>3, <2>4, LaneGoesTo DEF OnlyLane
  <2> QED BY <1>1, <1>3, <2>3, <2>5 DEF Types, SamePart
<1> QED BY <1>2, <1>4, <1>5

LEMMA LaneFailsStep ==
  ASSUME Types, NEW l \in Lane, LaneFails(l)
  PROVE  /\ Types' /\ OnlyLane(l) /\ lane'[l] = NoLane /\ SamePlan
         /\ \/ state'.status = state.status
            \/ state.status \in {"blocked", "pending", "running"} /\ state'.status = "failed"
<1>1. /\ UNCHANGED <<doc, parts, lock, co, op, deploy, prereq, spec, used, past>>
      /\ state' = Failed /\ LaneGoes(l, NoLane)
  BY DEF LaneFails
<1> QED BY <1>1, LaneEnds, FailedFacts DEF Types, PartsOK

LEMMA SliceFailsStep ==
  ASSUME Types, NEW l \in Lane, NEW s \in {"running", "failed"}, SliceFails(l, s)
  PROVE  /\ Types' /\ OnlyLane(l) /\ lane'[l] = NoLane /\ Frees(At(l)) /\ used'.plans = used.plans
         /\ SameHistory /\ SameOusted /\ SameCrossings /\ past'.crossed = past.crossed
<1>1. /\ UNCHANGED <<doc, state, lock, co, op, deploy, prereq, spec>> /\ past' = Unsaved(l)
      /\ Use("faults", MaxFaults) /\ LaneGoes(l, NoLane) /\ Holds(l) /\ Open(At(l))
      /\ Alter(At(l), [parts[At(l)] EXCEPT !.status = s, !.lease = None, !.live = FALSE])
  BY DEF SliceFails, Fault
<1>2. PICK p \in DOMAIN parts : p = At(l) BY <1>1 DEF Holds
<1>3. PartsOK /\ Open(p) /\ Alter(p, [parts[p] EXCEPT !.status = s, !.lease = None, !.live = FALSE])
  BY <1>1, <1>2 DEF Types
<1>4. PartsOK' /\ Frees(p) BY <1>3, FreesParts
<1>5. /\ used' \in [plans: 0..MaxPlans, faults: 0..MaxFaults, writes: 0..MaxWrites, controls: 0..MaxControls]
      /\ used'.plans = used.plans
  BY <1>1, UseType
<1>6. past' \in History /\ SameHistory /\ SameOusted /\ SameCrossings /\ past'.crossed = past.crossed
  BY <1>1, UnsavedHistory
<1> QED BY <1>1, <1>2, <1>4, <1>5, <1>6, LaneEnds DEF Types

LEMMA LaneCrashStep ==
  ASSUME Types, NEW l \in Lane, LaneCrash(l)
  PROVE  /\ Types' /\ OnlyLane(l) /\ lane'[l] = NoLane /\ used'.plans = used.plans
         /\ SameHistory /\ SameOusted /\ SameCrossings /\ past'.crossed = past.crossed
<1>1. /\ UNCHANGED <<doc, state, parts, lock, co, op, deploy, prereq, spec>> /\ past' = Unsaved(l)
      /\ Use("faults", MaxFaults) /\ LaneGoes(l, NoLane)
  BY DEF LaneCrash, Fault
<1>2. /\ used' \in [plans: 0..MaxPlans, faults: 0..MaxFaults, writes: 0..MaxWrites, controls: 0..MaxControls]
      /\ used'.plans = used.plans
  BY <1>1, UseType
<1>3. past' \in History /\ SameHistory /\ SameOusted /\ SameCrossings /\ past'.crossed = past.crossed
  BY <1>1, UnsavedHistory
<1> QED BY <1>1, <1>2, <1>3, LaneEnds DEF Types, PartsOK

LEMMA ExpireStep ==
  ASSUME Types, NEW p \in DOMAIN parts, Expire(p)
  PROVE  /\ Types' /\ SameCounts /\ used'.plans = used.plans
         /\ parts[p].lease # None /\ parts'[p].status = parts[p].status
         /\ parts'[p].lease = parts[p].lease
         /\ \A q \in DOMAIN parts : q # p => parts'[q] = parts[q]
         /\ past'.crossed = past.crossed /\ past'.resumed = past.resumed /\ past'.late = past.late
         /\ past'.work = past.work /\ past'.leaks = past.leaks /\ SameOusted
         /\ \/ past'.stalled
            \/ past'.stalled = past.stalled /\ Abandoned(p)
<1>1. UNCHANGED <<doc, state, lock, co, lane, op, deploy, prereq, spec>> /\ p \in Live BY DEF Expire
<1>2. PICK v : v = [parts[p] EXCEPT !.live = FALSE] OBVIOUS
<1>3. Alter(p, v) BY <1>2 DEF Expire
<1>4. PartsOK /\ PartOK(parts[p]) BY DEF Types, PartsOK
<1>5. /\ PartOK(v) /\ v.gen = parts[p].gen /\ v.migrated = parts[p].migrated
      /\ v.bad = parts[p].bad /\ v.lease = parts[p].lease /\ v.status = parts[p].status
  BY <1>2, <1>4 DEF PartOK, Partition
<1>6. /\ PartsOK' /\ DOMAIN parts' = DOMAIN parts /\ parts'[p] = v
      /\ \A q \in DOMAIN parts : q # p => parts'[q] = parts[q]
  BY <1>3, <1>4, <1>5, AlterParts
<1>7. SameCounts BY <1>5, <1>6 DEF SameCounts
<1>8. /\ past' \in History
      /\ past'.crossed = past.crossed /\ past'.resumed = past.resumed /\ past'.late = past.late
      /\ past'.work = past.work /\ past'.leaks = past.leaks /\ SameOusted
      /\ past'.stalled \/ (past'.stalled = past.stalled /\ Abandoned(p))
      /\ used' \in [plans: 0..MaxPlans, faults: 0..MaxFaults, writes: 0..MaxWrites, controls: 0..MaxControls]
      /\ used'.plans = used.plans
  <2>1. CASE Abandoned(p)
    <3>1. UNCHANGED <<used, past>> BY <2>1 DEF Expire
    <3> QED BY <2>1, <3>1 DEF Types, SameOusted
  <2>2. CASE ~Abandoned(p)
    <3>1. Use("faults", MaxFaults) /\ past' = [past EXCEPT !.stalled = TRUE] BY <2>2 DEF Expire, Fault
    <3>2. /\ used' \in [plans: 0..MaxPlans, faults: 0..MaxFaults, writes: 0..MaxWrites, controls: 0..MaxControls]
          /\ used'.plans = used.plans
      BY <3>1, UseType
    <3> QED BY <3>1, <3>2 DEF Types, History, SameOusted
  <2> QED BY <2>1, <2>2
<1> QED BY <1>1, <1>5, <1>6, <1>7, <1>8 DEF Types, Live

-----------------------------------------------------------------------------
(* The steps of the application, the operator and the deploy *)

UsedType ==
  [plans: 0..MaxPlans, faults: 0..MaxFaults, writes: 0..MaxWrites, controls: 0..MaxControls]

LEMMA UsesControl ==
  ASSUME Types, Use("controls", MaxControls)
  PROVE  used' \in UsedType /\ used'.plans = used.plans
BY UseType DEF UsedType

LEMMA AppWriteStep ==
  ASSUME Types, NEW d \in Doc, NEW s \in {"old", "new"}, AppWrite(d, s)
  PROVE  /\ Types' /\ used'.plans = used.plans
         /\ doc' = [doc EXCEPT ![d] = s] /\ past'.late = past.late \cup {d}
         /\ past'.crossed = past.crossed /\ SameCrossings
         /\ past'.work = past.work /\ past'.leaks = past.leaks /\ SameOusted
<1>1. /\ UNCHANGED <<state, parts, lock, co, lane, op, deploy, prereq, spec>>
      /\ Use("writes", MaxWrites) /\ doc' = [doc EXCEPT ![d] = s]
      /\ past' = [past EXCEPT !.late = @ \cup {d}]
  BY DEF AppWrite
<1>2. used' \in UsedType /\ used'.plans = used.plans BY <1>1, UseType DEF UsedType
<1>3. doc' \in [Doc -> {"old", "new"}] BY <1>1 DEF Types
<1>4. PICK L \in SUBSET Doc : L = past.late \cup {d} BY DEF Types, History
<1>5. past' = [past EXCEPT !.late = L] BY <1>1, <1>4
<1>6. /\ past' \in History /\ past'.late = L
      /\ past'.crossed = past.crossed /\ SameCrossings
      /\ past'.work = past.work /\ past'.leaks = past.leaks /\ SameOusted
  BY <1>5 DEF Types, History, SameCrossings, SameOusted
<1> QED BY <1>1, <1>2, <1>3, <1>4, <1>6 DEF Types, PartsOK, UsedType

LEMMA RequireStep ==
  ASSUME Types, NEW b \in BOOLEAN, Require(b)
  PROVE  Types' /\ used'.plans = used.plans
<1>1. /\ UNCHANGED <<doc, state, parts, lock, co, lane, op, deploy, spec, past>> /\ prereq' = b
      /\ UNCHANGED used \/ Use("controls", MaxControls)
  BY DEF Require
<1>2. used' \in UsedType /\ used'.plans = used.plans BY <1>1, UsesControl DEF Types, UsedType
<1> QED BY <1>1, <1>2 DEF Types, PartsOK, UsedType

LEMMA AskStep ==
  ASSUME Types, (\E act \in Acts : Ask(act)) \/ Drift
  PROVE  /\ Types' /\ used'.plans = used.plans /\ op'.st = state
         /\ UNCHANGED <<doc, state, parts, lock, co, lane, deploy, past>>
<1>1. /\ UNCHANGED <<doc, state, parts, lock, co, lane, deploy, prereq, spec, past>>
      /\ UNCHANGED used \/ Use("controls", MaxControls)
      /\ \E act \in Acts : op' = [pc |-> "move", act |-> act, st |-> state]
  BY DEF Ask, Drift, Acts
<1>2. used' \in UsedType /\ used'.plans = used.plans BY <1>1, UsesControl DEF Types, UsedType
<1>3. op' \in OpRec /\ op'.st = state BY <1>1 DEF OpRec, Types
<1> QED BY <1>1, <1>2, <1>3 DEF Types, PartsOK, UsedType

LEMMA MovesType == \A st, act : MovesTo(st, act) \in Status \ {"completed", "failed", "none"}
BY DEF MovesTo, Resumed, Status

LEMMA MoveStep ==
  ASSUME Types, Move
  PROVE  /\ Types' /\ SameHistory /\ SameOusted /\ past'.stalled = past.stalled
         /\ past.crossed => past'.crossed
         /\ past.resumed => past'.resumed
         /\ state'.gen = state.gen /\ state'.token = state.token /\ state'.rolled = state.rolled
         /\ state'.total = state.total /\ state'.dir = state.dir /\ state'.bad \subseteq state.bad
         /\ \/ UNCHANGED <<state, past>> /\ (op'.st = state \/ op'.st.token = 0)
            \/ /\ op'.st = op.st /\ state'.status \notin {"completed", "none"}
               /\ past'.resumed \/ state'.status \in {"paused", "cancelled"}
<1>1. UNCHANGED <<doc, parts, lock, co, lane, deploy, prereq, spec, used>> BY DEF Move
<1>2. op \in OpRec /\ state \in StateDoc /\ past \in History BY DEF Types
<1>3. CASE state.status # op.st.status
  <2>1. /\ UNCHANGED <<state, past>>
        /\ op' \in {[op EXCEPT !.st = state], NoOp}
    BY <1>3 DEF Move
  <2>2. op' \in OpRec /\ (op'.st = state \/ op'.st.token = 0)
    <3>1. [op EXCEPT !.st = state] \in OpRec /\ [op EXCEPT !.st = state].st = state
      BY <1>2 DEF OpRec
    <3>2. NoOp \in OpRec /\ NoOp.st.token = 0 BY Constants DEF NoOp, Registered
    <3> QED BY <2>1, <3>1, <3>2
  <2> QED BY <1>1, <2>1, <2>2 DEF Types, PartsOK, SameHistory, SameOusted
<1>4. CASE state.status = op.st.status
  <2>1. /\ state' = Moved(op.st, op.act) /\ op' = [op EXCEPT !.pc = "parts"]
        /\ past' = [past EXCEPT !.crossed = @ \/ (op.act = "fromStart" /\ CoordinatorAtWork),
                                !.resumed = @ \/ op.act \notin {"pause", "cancel"}]
    BY <1>4 DEF Move
  <2>2. op' \in OpRec /\ op'.st = op.st BY <1>2, <2>1 DEF OpRec
  <2>3. PICK x \in BOOLEAN : x = (past.crossed \/ (op.act = "fromStart" /\ CoordinatorAtWork)) OBVIOUS
  <2>4. PICK y \in BOOLEAN : y = (past.resumed \/ op.act \notin {"pause", "cancel"}) OBVIOUS
  <2>5. past' = [past EXCEPT !.crossed = x, !.resumed = y] BY <2>1, <2>3, <2>4
  <2>6. /\ past' \in History /\ SameHistory /\ SameOusted /\ past'.stalled = past.stalled
        /\ past'.crossed = x /\ past'.resumed = y
    BY <1>2, <2>5 DEF History, SameHistory, SameOusted
  <2>7. PICK s \in Status \ {"completed", "failed", "none"} : s = MovesTo(op.st, op.act) BY MovesType
  <2>8. PICK ph \in {"partition", state.phase} :
          ph = IF ((op.act \in {"retry", "fromStart"} /\ op.st.status = "completed")
                    \/ op.act = "fromStart" \/ (op.act = "retry" /\ Closed(op.st)))
                 THEN "partition" ELSE state.phase
    OBVIOUS
  <2>9. PICK n \in Nat : n = IF op.act = "fromStart" THEN 0 ELSE state.pass
    BY <1>2 DEF StateDoc
  <2>10. PICK B \in SUBSET state.bad : B = IF op.act = "fromStart" THEN {} ELSE state.bad OBVIOUS
  <2>11. PICK f \in BOOLEAN : f = IF op.act \in {"retry", "fromStart"} THEN FALSE ELSE state.failed
    BY <1>2 DEF StateDoc
  <2>12. state' = [state EXCEPT !.status = s, !.phase = ph, !.pass = n, !.bad = B, !.failed = f]
    BY <2>1, <2>7, <2>8, <2>9, <2>10, <2>11 DEF Moved
  <2>13. /\ state' \in StateDoc
         /\ state'.gen = state.gen /\ state'.token = state.token /\ state'.rolled = state.rolled
         /\ state'.total = state.total /\ state'.dir = state.dir /\ state'.bad = B /\ state'.status = s
    BY <1>2, <2>12 DEF StateDoc
  <2>14. y \/ s \in {"paused", "cancelled"}
    <3>1. CASE op.act = "pause" BY <2>7, <3>1 DEF MovesTo
    <3>2. CASE op.act = "cancel" BY <2>7, <3>2 DEF MovesTo
    <3> QED BY <2>4, <3>1, <3>2
  <2> QED BY <1>1, <2>2, <2>3, <2>4, <2>6, <2>7, <2>10, <2>13, <2>14 DEF Types, PartsOK
<1> QED BY <1>3, <1>4

\* The history of a step that may cross a coordinator, and of one that also deletes.
LEMMA CrossesHistory ==
  ASSUME Types, NEW x \in BOOLEAN
  PROVE  /\ past' = [past EXCEPT !.crossed = @ \/ x] =>
              /\ past' \in History /\ SameHistory /\ SameOusted /\ SameCrossings
              /\ past'.crossed = (past.crossed \/ x)
         /\ \A S : past' = [past EXCEPT !.leaks = Leaks(S), !.crossed = @ \/ x] =>
              /\ past' \in History /\ SameCrossings /\ past'.work = past.work
              /\ past'.late = past.late /\ past'.leaks = Leaks(S) /\ SameOusted
              /\ past'.crossed = (past.crossed \/ x)
<1>1. past \in History BY DEF Types
<1>2. PICK y \in BOOLEAN : y = (past.crossed \/ x) OBVIOUS
<1>3. ASSUME past' = [past EXCEPT !.crossed = @ \/ x]
      PROVE  /\ past' \in History /\ SameHistory /\ SameOusted /\ SameCrossings /\ past'.crossed = y
  <2>1. past' = [past EXCEPT !.crossed = y] BY <1>2, <1>3
  <2> QED BY <1>1, <2>1 DEF History, SameHistory, SameOusted, SameCrossings
<1>4. ASSUME NEW S, past' = [past EXCEPT !.leaks = Leaks(S), !.crossed = @ \/ x]
      PROVE  /\ past' \in History /\ SameCrossings /\ past'.work = past.work
             /\ past'.late = past.late /\ past'.leaks = Leaks(S) /\ past'.crossed = y
             /\ SameOusted
  <2>1. PICK L \in SUBSET Count : L = Leaks(S) BY LeaksType
  <2>2. past' = [past EXCEPT !.leaks = L, !.crossed = y] BY <1>2, <1>4, <2>1
  <2> QED BY <1>1, <2>1, <2>2 DEF History, SameCrossings, SameOusted
<1> QED BY <1>2, <1>3, <1>4

LEMMA MovePartsStep ==
  ASSUME Types, MoveParts
  PROVE  /\ Types' /\ op'.st.token = 0 /\ SameCrossings
         /\ past'.late = past.late /\ past'.work = past.work /\ SameOusted
         /\ past.crossed => past'.crossed
         /\ \/ /\ UNCHANGED past /\ SameCounts
               /\ \A p \in DOMAIN parts : /\ parts'[p].lease = parts[p].lease
                                          /\ parts'[p].live = parts[p].live
                                          /\ parts'[p].status \in {parts[p].status, "cancelled"}
            \/ Delete(UpTo(op.st.gen)) /\ past'.leaks = Leaks(UpTo(op.st.gen))
            \/ /\ SameCounts /\ past'.leaks = past.leaks
               /\ \A p \in DOMAIN parts : /\ parts'[p].lease = parts[p].lease
                                          /\ parts'[p].live = parts[p].live
                                          /\ p \notin Is(op.st.token) => parts'[p] = parts[p]
               /\ ~Closed(op.st)
               /\ ~past'.crossed => ~CoordinatorAtWork /\ state.rolled = op.st.rolled
<1>1. op' = NoOp /\ UNCHANGED <<doc, state, lock, co, lane, deploy, prereq, spec, used>> BY DEF MoveParts
<1>2. op' \in OpRec /\ op'.st.token = 0 BY <1>1, Constants DEF NoOp, Registered
<1>3. PartsOK /\ past \in History BY DEF Types
<1>4. CASE op.st.token # 0 /\ op.act = "cancel"
  <2> DEFINE S == {p \in Is(op.st.token) : Open(p)}
  <2>1. parts' = Statused(S, "cancelled") /\ UNCHANGED past BY <1>4 DEF MoveParts
  <2> HIDE DEF S
  <2>2. /\ PartsOK' /\ SameCounts
        /\ \A p \in DOMAIN parts : /\ parts'[p].lease = parts[p].lease
                                   /\ parts'[p].live = parts[p].live
                                   /\ p \notin S => parts'[p] = parts[p]
                                   /\ p \in S => parts'[p].status = "cancelled"
    BY <1>3, <2>1, StatusedParts
  <2>3. \A p \in DOMAIN parts : /\ parts'[p].lease = parts[p].lease
                                /\ parts'[p].live = parts[p].live
                                /\ parts'[p].status \in {parts[p].status, "cancelled"}
    BY <2>2
  <2> QED BY <1>1, <1>2, <2>1, <2>2, <2>3 DEF Types, SameCrossings, SameOusted
<1>5. CASE op.st.token # 0 /\ op.act = "fromStart"
  <2>1. /\ Delete(UpTo(op.st.gen))
        /\ past' = [past EXCEPT !.leaks = Leaks(UpTo(op.st.gen)), !.crossed = @ \/ CoordinatorAtWork]
    BY <1>5 DEF MoveParts
  <2>2. PICK x \in BOOLEAN : x = CoordinatorAtWork BY DEF CoordinatorAtWork
  <2>3. past' = [past EXCEPT !.leaks = Leaks(UpTo(op.st.gen)), !.crossed = @ \/ x] BY <2>1, <2>2
  <2>4. /\ past' \in History /\ SameCrossings /\ past'.work = past.work
        /\ past'.late = past.late /\ past'.leaks = Leaks(UpTo(op.st.gen)) /\ SameOusted
        /\ past'.crossed = (past.crossed \/ x)
    BY <2>3, CrossesHistory
  <2>5. PartsOK' BY <1>3, <2>1, DeleteParts
  <2> QED BY <1>1, <1>2, <2>1, <2>4, <2>5 DEF Types
<1>6. CASE op.st.token # 0 /\ op.act = "retry" /\ op.st.status # "completed" /\ ~Closed(op.st)
  <2> DEFINE again == {p \in Is(op.st.token) : parts[p].status \in {"failed", "cancelled"}}
  <2>1. /\ parts' = Statused(again, "pending")
        /\ past' = [past EXCEPT !.crossed = @ \/ CoordinatorAtWork \/ state.rolled # op.st.rolled]
    BY <1>6 DEF MoveParts
  <2>2. PICK x \in BOOLEAN : x = (CoordinatorAtWork \/ state.rolled # op.st.rolled)
    OBVIOUS
  <2>3. past' = [past EXCEPT !.crossed = @ \/ x] BY <2>1, <2>2
  <2>4. /\ past' \in History /\ SameHistory /\ SameOusted /\ SameCrossings
        /\ past'.crossed = (past.crossed \/ x)
    BY <2>3, CrossesHistory
  <2>5. again \subseteq Is(op.st.token) OBVIOUS
  <2> HIDE DEF again
  <2>6. /\ PartsOK' /\ SameCounts
        /\ \A p \in DOMAIN parts : /\ parts'[p].lease = parts[p].lease
                                   /\ parts'[p].live = parts[p].live
                                   /\ p \notin again => parts'[p] = parts[p]
    BY <1>3, <2>1, StatusedParts
  <2>7. ~past'.crossed => ~CoordinatorAtWork /\ state.rolled = op.st.rolled BY <2>2, <2>4
  <2>8. \A p \in DOMAIN parts : p \notin Is(op.st.token) => parts'[p] = parts[p] BY <2>5, <2>6
  <2>9. past'.leaks = past.leaks /\ past'.work = past.work /\ past'.late = past.late /\ SameOusted
    BY <2>4 DEF SameHistory
  <2> QED BY <1>1, <1>2, <1>6, <2>4, <2>6, <2>7, <2>8, <2>9 DEF Types
<1>7. CASE ~(\/ op.st.token # 0 /\ op.act = "cancel"
             \/ op.st.token # 0 /\ op.act = "fromStart"
             \/ op.st.token # 0 /\ op.act = "retry" /\ op.st.status # "completed" /\ ~Closed(op.st))
  <2>1. UNCHANGED <<parts, past>> BY <1>7 DEF MoveParts
  <2> QED BY <1>1, <1>2, <1>3, <2>1 DEF Types, PartsOK, SameCrossings, SameCounts, SameOusted
<1> QED BY <1>4, <1>5, <1>6, <1>7

LEMMA RepinStep ==
  ASSUME Types, NEW b \in BOOLEAN, Repin(b)
  PROVE  /\ Types' /\ used'.plans = used.plans /\ op'.st = state
         /\ UNCHANGED <<doc, state, parts, lock, co, lane, deploy, past>>
<1>1. /\ UNCHANGED <<doc, state, parts, lock, co, lane, deploy, prereq, spec, past>>
      /\ Use("controls", MaxControls)
      /\ \E act \in {"repin", "replan"} : op' = [pc |-> "pin", act |-> act, st |-> state]
  BY DEF Repin
<1>2. used' \in UsedType /\ used'.plans = used.plans BY <1>1, UsesControl
<1>3. op' \in OpRec /\ op'.st = state BY <1>1 DEF OpRec, Types
<1> QED BY <1>1, <1>2, <1>3 DEF Types, PartsOK, UsedType

LEMMA PinStep ==
  ASSUME Types, Pin
  PROVE  /\ Types' /\ SamePlan /\ state'.status = state.status /\ op'.st.token = 0
<1> DEFINE replan == op.act = "replan"
<1>1. /\ UNCHANGED <<doc, parts, lock, co, lane, deploy, prereq, spec, used, past>> /\ op' = NoOp
  BY DEF Pin
<1>2. op' \in OpRec /\ op'.st.token = 0 BY <1>1, Constants DEF NoOp, Registered
<1>3. state \in StateDoc BY DEF Types
<1>4. PICK n \in Nat : n = state.pin + 1 BY <1>3 DEF StateDoc
<1>5. PICK s \in BOOLEAN : s = (state.stale \/ (replan /\ state.token # 0)) BY <1>3 DEF StateDoc
<1>6. PICK ph \in {"replan", state.phase} :
        ph = IF replan /\ op.st.status \notin Terminal /\ op.st.token # 0 THEN "replan" ELSE state.phase
  OBVIOUS
<1>7. state' \in {state, [state EXCEPT !.pin = n, !.stale = s, !.phase = ph]}
  BY <1>4, <1>5, <1>6 DEF Pin
<1>8. state' \in StateDoc /\ SamePlan /\ state'.status = state.status
  BY <1>3, <1>7 DEF StateDoc, SamePlan
<1> QED BY <1>1, <1>2, <1>8 DEF Types, PartsOK

LEMMA RegisterStep ==
  ASSUME Types, Register
  PROVE  /\ Types' /\ used'.plans = used.plans
         /\ Delete(DOMAIN parts) /\ DOMAIN parts' = {} /\ deploy'.pc = "swap"
         /\ past'.leaks = Leaks(DOMAIN parts) /\ past'.work = past.work /\ past'.late = past.late
         /\ SameCrossings /\ SameOusted
         /\ past.crossed => past'.crossed
<1>1. /\ UNCHANGED <<doc, state, lock, co, lane, op, prereq, spec>>
      /\ Use("controls", MaxControls) /\ Delete(DOMAIN parts)
      /\ deploy' = [deploy EXCEPT !.pc = "swap"]
      /\ past' = [past EXCEPT !.leaks = Leaks(DOMAIN parts), !.crossed = @ \/ CoordinatorAtWork]
  BY DEF Register, DeployGoes
<1>2. used' \in UsedType /\ used'.plans = used.plans BY <1>1, UsesControl
<1>3. PICK x \in BOOLEAN : x = CoordinatorAtWork BY DEF CoordinatorAtWork
<1>4. past' = [past EXCEPT !.leaks = Leaks(DOMAIN parts), !.crossed = @ \/ x] BY <1>1, <1>3
<1>5. /\ past' \in History /\ SameCrossings /\ past'.work = past.work
      /\ past'.late = past.late /\ past'.leaks = Leaks(DOMAIN parts) /\ SameOusted
      /\ past'.crossed = (past.crossed \/ x)
  BY <1>4, CrossesHistory
<1>6. deploy' \in DeployRec /\ deploy'.pc = "swap" BY <1>1 DEF Types, DeployRec
<1>7. PartsOK' /\ DOMAIN parts' = {}
  <2>1. PICK S : S = DOMAIN parts OBVIOUS
  <2>2. PartsOK /\ Delete(S) BY <1>1, <2>1 DEF Types
  <2>3. PartsOK' /\ DOMAIN parts' = DOMAIN parts \ S BY <2>2, DeleteParts
  <2> QED BY <2>1, <2>3
<1> QED BY <1>1, <1>2, <1>5, <1>6, <1>7 DEF Types, UsedType

\* A new state is registered.
Anew ==
  /\ state'.gen = 0 /\ state'.token = 0 /\ state'.rolled = 0 /\ state'.total = 0 /\ state'.bad = {}
  /\ state'.status # "completed" /\ deploy'.pc = "idle"
  /\ past'.late = {} /\ past'.work = {} /\ past'.leaks = {} /\ SameCrossings
  /\ past'.ousted = {c \in Coord : ~Idle(c)}
  /\ past.crossed => past'.crossed
  /\ ~past'.crossed => ~CoordinatorAtWork

LEMMA AnewHistory ==
  ASSUME Types, NEW x \in BOOLEAN,
         past' = [Renewed EXCEPT !.crossed = @ \/ x]
  PROVE  /\ past' \in History /\ SameCrossings
         /\ past'.late = {} /\ past'.work = {} /\ past'.leaks = {}
         /\ past'.ousted = {c \in Coord : ~Idle(c)}
         /\ past'.crossed = (past.crossed \/ CoordinatorAtWork \/ x)
<1>1. past \in History BY DEF Types
<1>2. PICK y \in BOOLEAN : y = (past.crossed \/ CoordinatorAtWork) OBVIOUS
<1>3. PICK z \in BOOLEAN : z = (y \/ x) OBVIOUS
<1>4. PICK S \in SUBSET Coord : S = {c \in Coord : ~Idle(c)} OBVIOUS
<1>5. {} \in SUBSET Doc /\ {} \in SUBSET Count OBVIOUS
<1>6. PICK r : r = Renewed OBVIOUS
<1>7. r = [past EXCEPT !.late = {}, !.rewrote = {}, !.unsaved = {}, !.work = {}, !.leaks = {},
                       !.ousted = S, !.crossed = y]
  BY <1>2, <1>4, <1>6 DEF Renewed
<1>8. /\ r \in History /\ r.late = {} /\ r.work = {} /\ r.leaks = {} /\ r.ousted = S /\ r.crossed = y
      /\ r.resumed = past.resumed /\ r.stalled = past.stalled
  BY <1>1, <1>5, <1>7 DEF History
<1>9. past' = [r EXCEPT !.crossed = z] BY <1>3, <1>6, <1>8
<1>10. /\ past' \in History /\ past'.late = {} /\ past'.work = {} /\ past'.leaks = {}
       /\ past'.ousted = S /\ past'.crossed = z
       /\ past'.resumed = past.resumed /\ past'.stalled = past.stalled
  BY <1>8, <1>9 DEF History
<1> QED BY <1>2, <1>3, <1>4, <1>10 DEF SameCrossings

LEMMA RegisteredFacts ==
  \A s, d : /\ Registered(s, d).gen = 0 /\ Registered(s, d).token = 0 /\ Registered(s, d).rolled = 0
            /\ Registered(s, d).total = 0 /\ Registered(s, d).bad = {} /\ Registered(s, d).status = s
BY DEF Registered

LEMMA SwapStep ==
  ASSUME Types, Swap
  PROVE  /\ Types' /\ Anew /\ state'.status # "none"
         /\ ~past'.crossed => op.pc = "idle" /\ DOMAIN parts = {}
<1>1. /\ UNCHANGED <<doc, parts, lock, co, lane, op, prereq, spec, used>> /\ deploy' = NoDeploy
      /\ past' = [Renewed EXCEPT !.crossed = @ \/ op.pc # "idle" \/ DOMAIN parts # {}]
  BY DEF Swap, DeployGoes
<1>2. PICK s \in {"pending", "blocked"}, d \in Direction : state' = Registered(s, d)
  BY DEF Swap, Direction
<1>3. PICK x \in BOOLEAN : x = (op.pc # "idle" \/ DOMAIN parts # {}) OBVIOUS
<1>4. past' = [Renewed EXCEPT !.crossed = @ \/ x] BY <1>1, <1>3
<1>5. /\ past' \in History /\ SameCrossings
      /\ past'.late = {} /\ past'.work = {} /\ past'.leaks = {}
      /\ past'.ousted = {c \in Coord : ~Idle(c)}
      /\ past'.crossed = (past.crossed \/ CoordinatorAtWork \/ x)
  BY <1>4, AnewHistory
<1>6. state' \in StateDoc BY <1>2, Constants DEF Status
<1>7. deploy' \in DeployRec /\ deploy'.pc = "idle" BY <1>1, Constants DEF NoDeploy
<1>8. Types' BY <1>1, <1>5, <1>6, <1>7 DEF Types, PartsOK
<1>9. state'.status \in {"pending", "blocked"} BY <1>2, RegisteredFacts
<1>10. Anew
  <2>1. /\ state'.gen = 0 /\ state'.token = 0 /\ state'.rolled = 0 /\ state'.total = 0 /\ state'.bad = {}
        /\ state'.status # "completed"
    BY <1>2, <1>9, RegisteredFacts
  <2>2. (past.crossed => past'.crossed) /\ (~past'.crossed => ~CoordinatorAtWork) BY <1>5, Zenon
  <2> QED BY <1>5, <1>7, <2>1, <2>2, Zenon DEF Anew
<1> QED BY <1>3, <1>5, <1>8, <1>9, <1>10

LEMMA RemoveStep ==
  ASSUME Types, Remove, UNCHANGED <<doc, lock, co, lane, op, prereq, spec, used>>
  PROVE  Types' /\ Anew /\ Delete(DOMAIN parts) /\ DOMAIN parts' = {}
<1>1. /\ Delete(DOMAIN parts) /\ deploy' = NoDeploy /\ state' = Registered("none", "forward")
      /\ past' = Renewed
  BY DEF Remove, DeployGoes
<1>2. PICK x \in BOOLEAN : x = FALSE OBVIOUS
<1>3. past' = [Renewed EXCEPT !.crossed = @ \/ x]
  <2>1. past \in History BY DEF Types
  <2>2. PICK y \in BOOLEAN : y = (past.crossed \/ CoordinatorAtWork) OBVIOUS
  <2>3. PICK S \in SUBSET Coord : S = {c \in Coord : ~Idle(c)} OBVIOUS
  <2>4. PICK r : r = Renewed OBVIOUS
  <2>5. r = [past EXCEPT !.late = {}, !.rewrote = {}, !.unsaved = {}, !.work = {}, !.leaks = {},
                         !.ousted = S, !.crossed = y]
    BY <2>2, <2>3, <2>4 DEF Renewed
  <2>6. r \in History /\ r.crossed = y BY <2>1, <2>5 DEF History
  <2>7. [r EXCEPT !.crossed = @ \/ x] = r BY <1>2, <2>6 DEF History
  <2> QED BY <1>1, <2>4, <2>7
<1>4. /\ past' \in History /\ SameCrossings
      /\ past'.late = {} /\ past'.work = {} /\ past'.leaks = {}
      /\ past'.ousted = {c \in Coord : ~Idle(c)}
      /\ past'.crossed = (past.crossed \/ CoordinatorAtWork)
  BY <1>2, <1>3, AnewHistory
<1>5. state' \in StateDoc BY <1>1, Constants DEF Status, Direction
<1>6. deploy' \in DeployRec /\ deploy'.pc = "idle" BY <1>1, Constants DEF NoDeploy
<1>7. PartsOK' /\ DOMAIN parts' = {}
  <2>1. PICK S : S = DOMAIN parts OBVIOUS
  <2>2. PartsOK /\ Delete(S) BY <1>1, <2>1 DEF Types
  <2>3. PartsOK' /\ DOMAIN parts' = DOMAIN parts \ S BY <2>2, DeleteParts
  <2> QED BY <2>1, <2>3
<1>8. Types' BY <1>4, <1>5, <1>6, <1>7 DEF Types
<1>9. Anew
  <2>1. /\ state'.gen = 0 /\ state'.token = 0 /\ state'.rolled = 0 /\ state'.total = 0 /\ state'.bad = {}
        /\ state'.status # "completed"
    BY <1>1, RegisteredFacts
  <2>2. (past.crossed => past'.crossed) /\ (~past'.crossed => ~CoordinatorAtWork) BY <1>4, Zenon
  <2> QED BY <1>4, <1>6, <2>1, <2>2, Zenon DEF Anew
<1> QED BY <1>1, <1>7, <1>8, <1>9

LEMMA WithdrawStep ==
  ASSUME Types, Withdraw
  PROVE  /\ Types' /\ used'.plans = used.plans /\ deploy'.pc \in {"idle", "judge"}
         /\ SameHistory /\ SameOusted /\ past'.crossed = past.crossed /\ past'.stalled = past.stalled
<1>1. /\ UNCHANGED <<doc, state, parts, lock, co, lane, op, prereq, spec>>
      /\ Use("controls", MaxControls) /\ past' = [past EXCEPT !.resumed = FALSE]
      /\ deploy' \in {NoDeploy, [deploy EXCEPT !.pc = "judge", !.st = state]}
  BY DEF Withdraw, DeployGoes
<1>2. used' \in UsedType /\ used'.plans = used.plans BY <1>1, UsesControl
<1>3. deploy' \in DeployRec /\ deploy'.pc \in {"idle", "judge"}
  <2>1. deploy \in DeployRec /\ state \in StateDoc BY DEF Types
  <2>2. LET r == [deploy EXCEPT !.pc = "judge", !.st = state] IN r \in DeployRec /\ r.pc = "judge"
    BY <2>1 DEF DeployRec
  <2>3. NoDeploy \in DeployRec /\ NoDeploy.pc = "idle" BY Constants DEF NoDeploy
  <2> QED BY <1>1, <2>2, <2>3
<1>4. past' \in History /\ SameHistory /\ SameOusted /\ past'.crossed = past.crossed /\ past'.stalled = past.stalled
  BY <1>1 DEF Types, History, SameHistory, SameOusted
<1> QED BY <1>1, <1>2, <1>3, <1>4 DEF Types, PartsOK, UsedType

LEMMA WithdrawPausesStep ==
  ASSUME Types, WithdrawPauses
  PROVE  /\ Types' /\ SamePlan
         /\ state'.status \in {state.status, "paused"}
         /\ state'.status \notin {"blocked", "pending", "running"}
<1>1. /\ UNCHANGED <<doc, parts, lock, co, lane, op, prereq, spec, used, past>>
      /\ \E b \in BOOLEAN : deploy' = [deploy EXCEPT !.pc = "wait", !.paused = b]
      /\ state' = IF state.status \in Movable("pause") THEN [state EXCEPT !.status = "paused"] ELSE state
  <2>0. (state.status \in Movable("pause")) \in BOOLEAN OBVIOUS
  <2>1. PICK b \in BOOLEAN : b = (state.status \in Movable("pause")) BY <2>0, Zenon
  <2>2. deploy' = [deploy EXCEPT !.pc = "wait", !.paused = b] BY <2>1 DEF WithdrawPauses, DeployGoes
  <2> QED BY <2>2 DEF WithdrawPauses
<1>2. deploy' \in DeployRec BY <1>1 DEF Types, DeployRec
<1>3. Movable("pause") = {"blocked", "pending", "running"} BY DEF Movable
<1>4. /\ state' \in StateDoc /\ SamePlan /\ state'.status \in {state.status, "paused"}
      /\ state'.status \notin {"blocked", "pending", "running"}
  BY <1>1, <1>3 DEF Types, StateDoc, SamePlan, Status
<1> QED BY <1>1, <1>2, <1>4 DEF Types, PartsOK

LEMMA WithdrawGoesStep ==
  ASSUME Types, WithdrawWaits \/ WaitTimesOut \/ WithdrawChecks
  PROVE  Types' /\ UNCHANGED <<doc, state, parts, lock, co, lane, op, prereq, spec, used, past>>
<1>1. /\ UNCHANGED <<doc, state, parts, lock, co, lane, op, prereq, spec, used, past>>
      /\ \E pc \in {"check", "resume", "remove"} : deploy' = [deploy EXCEPT !.pc = pc]
  BY DEF WithdrawWaits, WaitTimesOut, WithdrawChecks, DeployGoes
<1>2. deploy' \in DeployRec BY <1>1 DEF Types, DeployRec
<1> QED BY <1>1, <1>2 DEF Types, PartsOK

LEMMA WithdrawRefusedStep ==
  ASSUME Types, WithdrawRefused
  PROVE  /\ Types' /\ SamePlan /\ deploy'.pc = "idle"
         /\ state'.status \in {state.status, "blocked", "pending", "running"}
<1>1. /\ UNCHANGED <<doc, parts, lock, co, lane, op, prereq, spec, used, past>> /\ deploy' = NoDeploy
      /\ state' \in {state, [state EXCEPT !.status = Resumed(state)]}
  BY DEF WithdrawRefused, DeployGoes
<1>2. PICK s \in {"blocked", "pending", "running"} : s = Resumed(state) BY DEF Resumed
<1>3. /\ state' \in StateDoc /\ SamePlan
      /\ state'.status \in {state.status, "blocked", "pending", "running"}
  <2>1. state \in StateDoc BY DEF Types
  <2>2. state' \in {state, [state EXCEPT !.status = s]} BY <1>1, <1>2
  <2> QED BY <2>1, <2>2 DEF StateDoc, SamePlan, Status
<1>4. deploy' \in DeployRec /\ deploy'.pc = "idle" BY <1>1, Constants DEF NoDeploy
<1> QED BY <1>1, <1>3, <1>4 DEF Types, PartsOK

-----------------------------------------------------------------------------
(* The inductive invariant *)

\* A plan that somebody goes by: it was inserted, its partitions are of the
\* generation that is believed, and nobody is still to commit it.
Held(v) ==
  /\ v.token <= used.plans
  /\ \A p \in DOMAIN parts : p[1] = v.token => parts[p].gen = v.gen
  /\ \A c \in Coord : co[c].pc = "commit" => co[c].token # v.token

\* Tokens name plans.
Named ==
  /\ \A p \in DOMAIN parts : p[1] <= used.plans
  /\ Held(state) /\ Held(op.st)
  /\ \A c \in Coord : Held(co[c].st)
  /\ \A l \in Lane : Held(lane[l])

\* A plan that is inserted and not committed is its coordinator's alone, and was
\* never worked.
Uncommitted ==
  \A c \in Coord : co[c].pc = "commit" =>
    /\ co[c].token # 0 /\ co[c].token <= used.plans
    /\ \A k \in Coord : k # c /\ co[k].pc = "commit" => co[c].token # co[k].token
    /\ \A p \in DOMAIN parts : p[1] = co[c].token =>
         parts[p].gen = co[c].st.gen + 1 /\ parts[p].migrated = 0 /\ ~co[c].empty

\* A lane at work is in its plan, and an empty plan has no partitions.
InPlan ==
  /\ \A l \in Lane : lane[l].pc \notin {"idle", "claim"} => lane[l].part[1] = lane[l].token
  /\ \A c \in Coord : co[c].pc = "tidy" /\ co[c].empty =>
       \A p \in DOMAIN parts : p[1] # co[c].st.token

Names == Named /\ Uncommitted /\ InPlan

\* Only what cannot be migrated is ever recorded as failed.
OnlyPoison ==
  /\ state.bad \subseteq Poison
  /\ \A c \in Coord : co[c].st.bad \subseteq Poison /\ co[c].sum.bad \subseteq Poison
  /\ \A p \in DOMAIN parts : parts[p].bad \subseteq Poison
  /\ \A l \in Lane : lane[l].failed \subseteq Poison

Active == {"blocked", "pending", "running"}
Stopping == {"wait", "check", "remove"}
AtWork(l) == lane[l].pc \notin {"idle", "claim"}
Writing(l) == lane[l].pc \in {"write", "save"}

\* A deploy that waited for the lanes meets none that could still count.
Quiet ==
  /\ ~past.stalled => \A l \in Lane : AtWork(l) /\ Holds(l) => parts[At(l)].live
  /\ ~past.resumed /\ deploy.pc \in Stopping => state.status \notin Active
  /\ ~past.resumed /\ ~past.stalled /\ deploy.pc \in {"check", "remove"} =>
       \A l \in Lane : ~(Writing(l) /\ Holds(l))
  /\ ~past.resumed /\ ~past.stalled /\ ~past.crossed /\ deploy.pc = "remove" =>
       past.work = past.leaks

\* A copy of the state is not ahead of it, and of its generation only as its plan.
Seen(v) == v.gen <= state.gen /\ (v.gen = state.gen => v.token = state.token)

Views ==
  /\ state.rolled <= state.gen
  /\ \A c \in Coord : ~Idle(c) => Seen(co[c].st) /\ co[c].dir = state.dir
  /\ \A l \in Lane : lane[l].pc # "idle" /\ (\E p \in DOMAIN parts : p[1] = lane[l].token) =>
       /\ Seen(lane[l])
       /\ \A c \in Coord : ~Idle(c) /\ co[c].st.gen = lane[l].gen => co[c].st.token = lane[l].token

\* No partition of the state's plan is open once its generation is rolled up, nor
\* any of the plan whose counters are being read and rolled up.
Rolled ==
  /\ \A p \in DOMAIN parts : p[1] = state.token /\ Open(p) => state.rolled < parts[p].gen
  /\ \A c \in Coord : co[c].pc \in {"close", "roll"} =>
       \A p \in DOMAIN parts : p[1] = co[c].st.token => ~Open(p)

\* Every count is of a generation there was, what a partition holds was counted
\* and is the whole of it, and what is dropped is not there to be rolled up.
Accounted ==
  /\ past.leaks \subseteq past.work /\ IsFiniteSet(past.work)
  /\ Counted(DOMAIN parts) \subseteq past.work
  /\ \A u \in past.work : /\ u[1] \in 1..state.gen /\ u[2][1] <= used.plans
                          /\ u[2] \in DOMAIN parts => u \in Counted({u[2]})
  /\ \A u \in past.leaks : u[1] <= state.rolled \/ u[2] \notin DOMAIN parts

Older(g) == {u \in past.work : u[1] <= g}
Of(g) == {u \in past.work : u[1] = g}

\* What was rolled up was counted in the generations that are rolled up, once each.
Balance ==
  /\ state.total <= Cardinality(Older(state.rolled))
  /\ Cardinality(past.work) <= Progress + Cardinality(past.leaks)
  /\ \A c \in Coord : co[c].pc = "roll" =>
       /\ co[c].sum.migrated <= Cardinality(Of(co[c].st.gen))
       /\ state.rolled < co[c].st.gen => Counters(Generation(c)) <= co[c].sum.migrated

IInv ==
  /\ Types /\ Names /\ OnlyPoison /\ Quiet
  /\ ~past.crossed => Views /\ Rolled /\ Accounted /\ Balance

-----------------------------------------------------------------------------
(* What keeps its parts *)

\* Partitions may be deleted, and are not moved to another generation.
PlansKept ==
  /\ DOMAIN parts' \subseteq DOMAIN parts
  /\ \A p \in DOMAIN parts' : parts'[p].gen = parts[p].gen

NoneReopened == \A p \in DOMAIN parts' : Open(p)' => Open(p)

\* The state is moved, and its plan, its totals and its direction stay.
StateKept ==
  /\ state'.gen = state.gen /\ state'.token = state.token /\ state'.rolled = state.rolled
  /\ state'.total = state.total /\ state'.dir = state.dir /\ state'.bad \subseteq state.bad

\* A coordinator stays, stops, or goes on with the copy it had or with the state.
CoMoves(k) ==
  \/ co'[k] = co[k]
  \/ co'[k] = NoCoord
  \/ /\ co'[k].pc \notin {"idle", "commit", "tidy"}
     /\ \/ ~Idle(k) /\ co'[k].st = co[k].st /\ co'[k].dir = co[k].dir
        \/ co'[k].st = state' /\ co'[k].dir = IF Idle(k) THEN state.dir ELSE co[k].dir
     /\ co'[k].pc \in {"close", "roll"} =>
          \/ co[k].pc \in {"close", "roll"} /\ co'[k].st = co[k].st
          \/ \A p \in DOMAIN parts : p[1] = co'[k].st.token => ~Open(p)
     /\ co'[k].pc = "roll" => co[k].pc = "close"

\* A lane stays, stops, reads the state, or goes on in its plan.
LaneMoves(l) ==
  \/ lane'[l] = lane[l]
  \/ lane'[l] = NoLane
  \/ lane'[l].pc = "claim" /\ lane'[l].gen = state.gen /\ lane'[l].token = state.token
  \/ /\ lane[l].pc # "idle" /\ lane'[l].pc # "idle"
     /\ lane'[l].gen = lane[l].gen /\ lane'[l].token = lane[l].token
     /\ \/ lane'[l].part[1] = lane'[l].token
        \/ AtWork(l) /\ lane'[l].part = lane[l].part

OpMoves == op'.st = op.st \/ op'.st = state \/ op'.st.token = 0

LEMMA Emptiness ==
  /\ NoCoord.pc = "idle" /\ NoCoord.st.token = 0 /\ NoCoord.st.bad = {} /\ NoCoord.sum.bad = {}
  /\ NoLane.pc = "idle" /\ NoLane.token = 0 /\ NoLane.failed = {}
BY DEF NoCoord, NoLane, Registered

LEMMA NamesKept ==
  ASSUME Types, Types', Names, used'.plans = used.plans, PlansKept,
         \A p \in DOMAIN parts' : parts'[p].migrated # parts[p].migrated => \E l \in Lane : p[1] = lane[l].token,
         (state'.gen = state.gen /\ state'.token = state.token) \/ state'.token = 0,
         \A k \in Coord : CoMoves(k), \A l \in Lane : LaneMoves(l), OpMoves
  PROVE  Names'
<1>1. \A k \in Coord : co'[k].pc = "commit" => co'[k] = co[k] BY Emptiness DEF CoMoves
<1>2. \A p \in DOMAIN parts' : p \in DOMAIN parts /\ parts'[p].gen = parts[p].gen /\ p[1] # 0
  BY DEF PlansKept, Types, PartsOK, Token
<1>3. \A v : v.token = 0 => /\ \A p \in DOMAIN parts' : p[1] # v.token
                            /\ \A k \in Coord : co'[k].pc = "commit" => co'[k].token # v.token
  BY <1>1, <1>2 DEF Names, Uncommitted
<1>4. used.plans \in Nat BY Bounds DEF Types
<1>5. Named'
  <2>1. \A p \in DOMAIN parts' : p[1] <= used'.plans BY <1>2 DEF Names, Named
  <2>2. Held(state)'
    <3>1. CASE state'.token = 0 BY <1>3, <1>4, <3>1 DEF Held
    <3>2. CASE state'.token # 0 BY <1>1, <1>2, <3>2 DEF Held, Names, Named
    <3> QED BY <3>1, <3>2
  <2>3. Held(op.st)'
    <3>1. CASE op'.st.token = 0 BY <1>3, <1>4, <3>1 DEF Held
    <3>2. CASE op'.st = op.st BY <1>1, <1>2, <3>2 DEF Held, Names, Named
    <3>3. CASE op'.st = state BY <1>1, <1>2, <3>3 DEF Held, Names, Named
    <3> QED BY <3>1, <3>2, <3>3 DEF OpMoves
  <2>4. ASSUME NEW k \in Coord PROVE Held(co[k].st)'
    <3>1. CASE co'[k].st.token = 0 BY <1>3, <1>4, <3>1 DEF Held
    <3>2. CASE co'[k].st = co[k].st BY <1>1, <1>2, <3>2 DEF Held, Names, Named
    <3>3. CASE co'[k].st = state' BY <2>2, <3>3 DEF Held
    <3> QED BY <3>1, <3>2, <3>3, Emptiness DEF CoMoves
  <2>5. ASSUME NEW l \in Lane PROVE Held(lane[l])'
    <3>1. CASE lane'[l].token = 0 BY <1>3, <1>4, <3>1 DEF Held
    <3>2. CASE lane'[l].gen = lane[l].gen /\ lane'[l].token = lane[l].token
      BY <1>1, <1>2, <3>2 DEF Held, Names, Named
    <3>3. CASE lane'[l].gen = state.gen /\ lane'[l].token = state.token
      BY <1>1, <1>2, <3>3 DEF Held, Names, Named
    <3> QED BY <3>1, <3>2, <3>3, Emptiness DEF LaneMoves
  <2> QED BY <2>1, <2>2, <2>3, <2>4, <2>5 DEF Named
<1>6. Uncommitted'
  <2> SUFFICES ASSUME NEW c \in Coord, co'[c].pc = "commit"
               PROVE  /\ co'[c].token # 0 /\ co'[c].token <= used'.plans
                      /\ \A k \in Coord : k # c /\ co'[k].pc = "commit" => co'[c].token # co'[k].token
                      /\ \A p \in DOMAIN parts' : p[1] = co'[c].token =>
                           parts'[p].gen = co'[c].st.gen + 1 /\ parts'[p].migrated = 0 /\ ~co'[c].empty
    BY DEF Uncommitted
  <2>1. co'[c] = co[c] BY <1>1
  <2>2. ASSUME NEW p \in DOMAIN parts', p[1] = co[c].token PROVE parts'[p].migrated = parts[p].migrated
    <3>1. \A l \in Lane : p[1] # lane[l].token BY <2>1, <2>2 DEF Names, Named, Held
    <3> QED BY <3>1
  <2> QED BY <1>1, <1>2, <2>1, <2>2 DEF Names, Uncommitted
<1>7. InPlan'
  <2>1. ASSUME NEW l \in Lane, lane'[l].pc \notin {"idle", "claim"} PROVE lane'[l].part[1] = lane'[l].token
    BY <2>1, Emptiness DEF LaneMoves, Names, InPlan, AtWork
  <2>2. ASSUME NEW c \in Coord, co'[c].pc = "tidy" /\ co'[c].empty
        PROVE  \A p \in DOMAIN parts' : p[1] # co'[c].st.token
    <3>1. co'[c] = co[c] BY <2>2, Emptiness DEF CoMoves
    <3> QED BY <1>2, <2>2, <3>1 DEF Names, InPlan
  <2> QED BY <2>1, <2>2 DEF InPlan
<1> QED BY <1>5, <1>6, <1>7 DEF Names

\* The documents recorded as failed.
LEMMA PoisonKept ==
  ASSUME Types, Types', OnlyPoison, state'.bad \subseteq Poison,
         \A p \in DOMAIN parts' : parts'[p].bad \subseteq Poison,
         \A k \in Coord : /\ co'[k].st.bad \subseteq co[k].st.bad \/ co'[k].st = state'
                          /\ co'[k].sum.bad \subseteq Poison,
         \A l \in Lane : lane'[l].failed \subseteq Poison
  PROVE  OnlyPoison'
BY DEF OnlyPoison

\* Leases are given back, and not taken.
LeasesKept ==
  \A p \in DOMAIN parts' :
    \/ parts'[p].lease = None
    \/ p \in DOMAIN parts /\ parts'[p].lease = parts[p].lease /\ (parts[p].live => parts'[p].live)

LaneStops(l) ==
  \/ ~AtWork(l)'
  \/ /\ AtWork(l) /\ lane'[l].part = lane[l].part
     /\ Writing(l)' => Writing(l) \/ state.status = "running"

DeployStays ==
  /\ deploy'.pc = deploy.pc
  /\ past.resumed => past'.resumed
  /\ state'.status \in Active => state.status \in Active \/ past'.resumed
  /\ deploy.pc = "remove" /\ ~past'.resumed /\ ~past'.stalled /\ ~past'.crossed =>
       past'.work = past.work /\ past.leaks \subseteq past'.leaks /\ past'.leaks \subseteq past'.work

LEMMA QuietKept ==
  ASSUME Types, Types', Quiet, LeasesKept, \A l \in Lane : LaneStops(l),
         past.stalled => past'.stalled, past.crossed => past'.crossed,
         deploy'.pc \notin Stopping \/ DeployStays
  PROVE  Quiet'
<1>1. ASSUME NEW l \in Lane, AtWork(l)', Holds(l)'
      PROVE  /\ AtWork(l) /\ Holds(l) /\ lane'[l].part = lane[l].part
             /\ parts[At(l)].live => parts'[At(l)].live
  <2>1. AtWork(l) /\ lane'[l].part = lane[l].part BY <1>1 DEF LaneStops
  <2>2. lane'[l].part \in DOMAIN parts' /\ parts'[lane'[l].part].lease = l BY <1>1 DEF Holds, At
  <2>3. l # None BY NoneAssumption
  <2> QED BY <2>1, <2>2, <2>3 DEF LeasesKept, Holds, At
<1>2. ~past'.stalled => \A l \in Lane : AtWork(l)' /\ Holds(l)' => parts'[At(l)'].live
  BY <1>1 DEF Quiet, At
<1>3. CASE deploy'.pc \notin Stopping BY <1>2, <1>3 DEF Quiet, Stopping
<1>4. CASE DeployStays
  <2>1. ~past'.resumed /\ deploy'.pc \in Stopping => state'.status \notin Active
    BY <1>4 DEF DeployStays, Quiet
  <2>2. ~past'.resumed /\ ~past'.stalled /\ deploy'.pc \in {"check", "remove"} =>
          \A l \in Lane : ~(Writing(l)' /\ Holds(l)')
    <3>1. SUFFICES ASSUME ~past'.resumed, ~past'.stalled, deploy'.pc \in {"check", "remove"},
                          NEW l \in Lane, Writing(l)', Holds(l)'
                   PROVE  FALSE
      OBVIOUS
    <3>2. AtWork(l)' BY <3>1 DEF AtWork, Writing
    <3>3. Holds(l) BY <1>1, <3>1, <3>2
    <3>4. Writing(l) \/ state.status = "running" BY <3>1, <3>2 DEF LaneStops
    <3>5. state.status # "running" BY <1>4, <3>1 DEF DeployStays, Quiet, Stopping, Active
    <3> QED BY <1>4, <3>1, <3>3, <3>4, <3>5 DEF DeployStays, Quiet
  <2>3. ~past'.resumed /\ ~past'.stalled /\ ~past'.crossed /\ deploy'.pc = "remove" =>
          past'.work = past'.leaks
    BY <1>4 DEF DeployStays, Quiet
  <2> QED BY <1>2, <2>1, <2>2, <2>3 DEF Quiet
<1> QED BY <1>3, <1>4

LEMMA ViewsKept ==
  ASSUME Types, Types', Names, Views, Rolled, PlansKept, NoneReopened,
         state'.gen = state.gen, state'.token = state.token, state'.dir = state.dir,
         \/ state'.rolled = state.rolled
         \/ /\ state'.rolled <= state.gen
            /\ \A p \in DOMAIN parts' : p[1] = state.token /\ Open(p) => state'.rolled < parts[p].gen,
         \A k \in Coord : CoMoves(k), \A l \in Lane : LaneMoves(l)
  PROVE  Views' /\ Rolled'
<1>1. state \in StateDoc /\ state.gen \in Nat BY DEF Types, StateDoc
<1>2. \A k \in Coord : co[k].st.gen \in Nat BY DEF Types, CoordRec, StateDoc
<1>3. ASSUME NEW k \in Coord, ~Idle(k)'
      PROVE  /\ Seen(co[k].st)' /\ co'[k].dir = state'.dir
             /\ \/ ~Idle(k) /\ co'[k].st.gen = co[k].st.gen /\ co'[k].st.token = co[k].st.token
                \/ co'[k].st.gen = state.gen /\ co'[k].st.token = state.token
  <2>1. CASE co'[k] = co[k] BY <1>3, <2>1 DEF Views, Idle, Seen
  <2>2. CASE co'[k] = NoCoord BY <1>3, <2>2, Emptiness DEF Idle
  <2>3. CASE co'[k] # co[k] /\ co'[k] # NoCoord
    <3>1. CASE ~Idle(k) /\ co'[k].st = co[k].st /\ co'[k].dir = co[k].dir
      BY <1>3, <3>1 DEF Views, Seen
    <3>2. CASE co'[k].st = state' /\ co'[k].dir = IF Idle(k) THEN state.dir ELSE co[k].dir
      BY <1>1, <1>3, <3>2 DEF Views, Seen
    <3> QED BY <2>3, <3>1, <3>2 DEF CoMoves
  <2> QED BY <2>1, <2>2, <2>3
<1>4. ASSUME NEW l \in Lane, lane'[l].pc # "idle", NEW p \in DOMAIN parts', p[1] = lane'[l].token
      PROVE  /\ Seen(lane[l])'
             /\ \A k \in Coord : ~Idle(k)' /\ co'[k].st.gen = lane'[l].gen => co'[k].st.token = lane'[l].token
  <2>1. p \in DOMAIN parts BY DEF PlansKept
  <2>2. CASE lane[l].pc # "idle" /\ lane'[l].gen = lane[l].gen /\ lane'[l].token = lane[l].token
    <3>1. /\ Seen(lane[l])
          /\ \A k \in Coord : ~Idle(k) /\ co[k].st.gen = lane[l].gen => co[k].st.token = lane[l].token
      BY <1>4, <2>1, <2>2 DEF Views
    <3> QED BY <1>3, <2>2, <3>1 DEF Seen
  <2>3. CASE lane'[l].gen = state.gen /\ lane'[l].token = state.token
    BY <1>1, <1>3, <2>3 DEF Seen
  <2> QED BY <1>4, <2>2, <2>3, Emptiness DEF LaneMoves
<1>5. Views' BY <1>3, <1>4 DEF Views
<1>6. \A p \in DOMAIN parts' : p[1] = state'.token /\ Open(p)' => state'.rolled < parts'[p].gen
  BY DEF Rolled, PlansKept, NoneReopened
<1>7. ASSUME NEW c \in Coord, co'[c].pc \in {"close", "roll"}, NEW p \in DOMAIN parts', p[1] = co'[c].st.token
      PROVE  ~Open(p)'
  <2>1. p \in DOMAIN parts BY DEF PlansKept
  <2>2. ~Open(p) BY <1>7, <2>1, Emptiness DEF CoMoves, Rolled
  <2> QED BY <2>2 DEF NoneReopened
<1>8. Rolled' BY <1>6, <1>7 DEF Rolled
<1> QED BY <1>5, <1>8

-----------------------------------------------------------------------------
(* Sets of counts *)

\* A union has at most as many elements as its parts together.
LEMMA UnionCardinality ==
  ASSUME NEW S, NEW T, IsFiniteSet(S), IsFiniteSet(T)
  PROVE  /\ IsFiniteSet(S \cup T) /\ Cardinality(S) \in Nat /\ Cardinality(T) \in Nat
         /\ Cardinality(S \cup T) \in Nat
         /\ Cardinality(S \cup T) <= Cardinality(S) + Cardinality(T)
<1>1. IsFiniteSet(T \ S) /\ Cardinality(T \ S) <= Cardinality(T) BY FS_Subset
<1>2. S \cup (T \ S) = S \cup T /\ S \cap (T \ S) = {} OBVIOUS
<1>3. /\ IsFiniteSet(S \cup T)
      /\ Cardinality(S \cup T) = Cardinality(S) + Cardinality(T \ S)
  BY <1>1, <1>2, DisjointCardinality
<1>4. /\ Cardinality(S) \in Nat /\ Cardinality(T) \in Nat /\ Cardinality(T \ S) \in Nat
      /\ Cardinality(S \cup T) \in Nat
  BY <1>1, <1>3, FS_CardinalityType
<1> QED BY <1>1, <1>3, <1>4

\* The counts of partitions are those of each.
LEMMA CountedSets ==
  ASSUME NEW S, NEW T
  PROVE  /\ S \subseteq T => Counted(S) \subseteq Counted(T)
         /\ Counted(S \cup T) = Counted(S) \cup Counted(T)
         /\ \A u \in Counted(S) : u[2] \in S /\ u[1] = parts[u[2]].gen
         /\ S \cap T = {} => Counted(S) \cap Counted(T) = {}
         /\ Counted({}) = {}
<1>1. \A u \in Counted(S) : u[2] \in S /\ u[1] = parts[u[2]].gen BY DEF Counted, Counts
<1>2. \A u \in Counted(T) : u[2] \in T BY DEF Counted, Counts
<1>3. S \cap T = {} => Counted(S) \cap Counted(T) = {} BY <1>1, <1>2
<1>4. Counted(S \cup T) = Counted(S) \cup Counted(T) BY DEF Counted
<1>5. S \subseteq T => Counted(S) \subseteq Counted(T) BY DEF Counted
<1>6. Counted({}) = {} BY DEF Counted
<1> QED BY <1>1, <1>3, <1>4, <1>5, <1>6

\* Partitions that keep their generations and their counters keep their counts.
LEMMA CountsStay ==
  ASSUME NEW S, \A p \in S : parts'[p].gen = parts[p].gen /\ parts'[p].migrated = parts[p].migrated
  PROVE  Counted(S)' = Counted(S)
<1>1. \A p \in S : {<<parts'[p].gen, p, n>> : n \in 1..parts'[p].migrated}
                     = {<<parts[p].gen, p, n>> : n \in 1..parts[p].migrated}
  OBVIOUS
<1> QED BY <1>1 DEF Counted, Counts

\* The counts of partitions there are can be numbered.
LEMMA CountedParts ==
  ASSUME Types, NEW S, S \subseteq DOMAIN parts
  PROVE  /\ IsFiniteSet(S) /\ IsFiniteSet(Counted(S)) /\ Counters(S) \in Nat
         /\ Counters(S) = Cardinality(Counted(S))
<1>1. IsFiniteSet(S) BY FS_Subset DEF Types, PartsOK
<1>2. \A p \in S : parts[p].migrated \in Nat BY DEF Types, PartsOK, PartOK, Partition
<1> QED BY <1>1, <1>2, CountedFinite DEF Counters

\* ... and so can those that were counted.
LEMMA WorkFinite ==
  ASSUME Accounted
  PROVE  /\ IsFiniteSet(past.work) /\ Cardinality(past.work) \in Nat
         /\ IsFiniteSet(past.leaks) /\ Cardinality(past.leaks) \in Nat
         /\ \A g : /\ IsFiniteSet(Older(g)) /\ Cardinality(Older(g)) \in Nat
                   /\ IsFiniteSet(Of(g)) /\ Cardinality(Of(g)) \in Nat
<1>1. IsFiniteSet(past.work) BY DEF Accounted
<1>2. IsFiniteSet(past.leaks) BY <1>1, FS_Subset DEF Accounted
<1>3. ASSUME NEW g
      PROVE  /\ IsFiniteSet(Older(g)) /\ Cardinality(Older(g)) \in Nat
             /\ IsFiniteSet(Of(g)) /\ Cardinality(Of(g)) \in Nat
  <2>1. Older(g) \subseteq past.work /\ Of(g) \subseteq past.work BY DEF Older, Of
  <2> QED BY <1>1, <2>1, FS_Subset, FS_CardinalityType
<1> QED BY <1>1, <1>2, <1>3, FS_CardinalityType

\* Leaks take nothing that was dropped before.
LEMMA LeaksCardinality ==
  ASSUME Types, Accounted, NEW S
  PROVE  /\ IsFiniteSet(Counted(S \cap Unrolled)) /\ Counters(S \cap Unrolled) \in Nat
         /\ Cardinality(Leaks(S)) = Cardinality(past.leaks) + Counters(S \cap Unrolled)
         /\ Leaks(S) \subseteq past.work
<1>1. S \cap Unrolled \subseteq DOMAIN parts BY DEF Unrolled
<1>2. /\ IsFiniteSet(Counted(S \cap Unrolled)) /\ Counters(S \cap Unrolled) \in Nat
      /\ Counters(S \cap Unrolled) = Cardinality(Counted(S \cap Unrolled))
  BY <1>1, CountedParts
<1>3. \A u \in Counted(S \cap Unrolled) : u[2] \in S \cap Unrolled /\ u[1] = parts[u[2]].gen
  BY CountedSets
<1>4. \A p \in Unrolled : p \in DOMAIN parts /\ parts[p].gen > state.rolled BY DEF Unrolled
<1>5. state.rolled \in Nat /\ \A p \in DOMAIN parts : parts[p].gen \in Nat
  BY DEF Types, StateDoc, PartsOK, PartOK, Partition
<1>6. past.leaks \cap Counted(S \cap Unrolled) = {}
  <2>1. SUFFICES ASSUME NEW u \in past.leaks, u \in Counted(S \cap Unrolled) PROVE FALSE OBVIOUS
  <2>2. u[1] <= state.rolled \/ u[2] \notin DOMAIN parts BY DEF Accounted
  <2>3. u[2] \in Unrolled /\ u[1] = parts[u[2]].gen BY <1>3, <2>1
  <2>4. u[2] \in DOMAIN parts /\ u[1] > state.rolled BY <1>4, <2>3
  <2> QED BY <1>4, <1>5, <2>2, <2>3, <2>4
<1>7. IsFiniteSet(past.leaks) BY WorkFinite
<1>8. Counted(S \cap Unrolled) \subseteq Counted(DOMAIN parts) BY <1>1, CountedSets
<1> QED BY <1>2, <1>6, <1>7, <1>8, DisjointCardinality DEF Leaks, Accounted

\* Progress is in the counts: what was rolled up in its generations, the rest in
\* the partitions.
LEMMA ProgressCounted ==
  ASSUME Types, Accounted, Balance
  PROVE  /\ Progress \in Nat /\ Counters(Unrolled) \in Nat
         /\ Progress <= Cardinality(past.work)
<1>1. Unrolled \subseteq DOMAIN parts BY DEF Unrolled
<1>2. IsFiniteSet(Counted(Unrolled)) /\ Counters(Unrolled) \in Nat
      /\ Counters(Unrolled) = Cardinality(Counted(Unrolled))
  BY <1>1, CountedParts
<1>3. state.total \in Nat /\ state.rolled \in Nat BY DEF Types, StateDoc
<1>4. \A u \in Counted(Unrolled) : u[2] \in Unrolled /\ u[1] = parts[u[2]].gen BY CountedSets
<1>5. \A p \in Unrolled : parts[p].gen > state.rolled /\ parts[p].gen \in Nat
  BY DEF Unrolled, Types, PartsOK, PartOK, Partition
<1>6. Older(state.rolled) \cap Counted(Unrolled) = {} BY <1>3, <1>4, <1>5 DEF Older
<1>7. Counted(Unrolled) \subseteq Counted(DOMAIN parts) BY <1>1, CountedSets
<1>8. Older(state.rolled) \cup Counted(Unrolled) \subseteq past.work
  BY <1>7 DEF Older, Accounted
<1>9. /\ IsFiniteSet(past.work) /\ IsFiniteSet(Older(state.rolled))
      /\ Cardinality(Older(state.rolled)) \in Nat /\ Cardinality(past.work) \in Nat
  BY WorkFinite
<1>10. Cardinality(Older(state.rolled) \cup Counted(Unrolled))
         = Cardinality(Older(state.rolled)) + Counters(Unrolled)
  BY <1>2, <1>6, <1>9, DisjointCardinality
<1>11. Cardinality(Older(state.rolled) \cup Counted(Unrolled)) <= Cardinality(past.work)
  BY <1>8, <1>9, FS_Subset
<1> QED BY <1>2, <1>3, <1>9, <1>10, <1>11 DEF Progress, Balance

\* The counters a coordinator reads are of counts in its generation.
LEMMA GenerationCounted ==
  ASSUME Types, Accounted, NEW k \in Coord
  PROVE  /\ Counters(Generation(k)) \in Nat
         /\ Counters(Generation(k)) <= Cardinality(Of(co[k].st.gen))
<1>1. Generation(k) \subseteq DOMAIN parts /\ \A p \in Generation(k) : parts[p].gen = co[k].st.gen
  BY DEF Generation
<1>2. /\ Counters(Generation(k)) \in Nat /\ IsFiniteSet(Counted(Generation(k)))
      /\ Counters(Generation(k)) = Cardinality(Counted(Generation(k)))
  BY <1>1, CountedParts
<1>3. Counted(Generation(k)) \subseteq Counted(DOMAIN parts) BY <1>1, CountedSets
<1>4. \A u \in Counted(Generation(k)) : u[2] \in Generation(k) /\ u[1] = parts[u[2]].gen
  BY CountedSets
<1>5. Counted(Generation(k)) \subseteq Of(co[k].st.gen) BY <1>1, <1>3, <1>4 DEF Of, Accounted
<1>6. IsFiniteSet(Of(co[k].st.gen)) BY WorkFinite
<1> QED BY <1>2, <1>5, <1>6, FS_Subset

\* A coordinator that is to roll up has the counters of its generation.
SumsKept(k) ==
  co'[k].pc = "roll" =>
    /\ co'[k].st.gen = co[k].st.gen
    /\ \/ co[k].pc = "roll" /\ co'[k].sum = co[k].sum
       \/ co'[k].sum.migrated = Counters(Generation(k))

\* Partitions are deleted, those of S, and their counts that are not rolled up
\* with them; or nothing is, and S is empty.
LEMMA CountsKept ==
  ASSUME Types, Types', Accounted, Balance, NEW S,
         DOMAIN parts' = DOMAIN parts \ S,
         \A p \in DOMAIN parts' : parts'[p].gen = parts[p].gen /\ parts'[p].migrated = parts[p].migrated,
         past'.work = past.work, past'.leaks = Leaks(S),
         state.gen <= state'.gen, state'.rolled = state.rolled, state'.total = state.total,
         used'.plans = used.plans, \A k \in Coord : SumsKept(k)
  PROVE  Accounted' /\ Balance'
<1>1. PICK D : D = DOMAIN parts' OBVIOUS
<1>2. D \subseteq DOMAIN parts /\ D = DOMAIN parts \ S BY <1>1
<1>3. ASSUME NEW X, X \subseteq D PROVE Counted(X)' = Counted(X)
  <2>1. \A p \in X : parts'[p].gen = parts[p].gen /\ parts'[p].migrated = parts[p].migrated
    BY <1>1, <1>3
  <2> QED BY <2>1, CountsStay
<1>4. (DOMAIN parts)' = D BY <1>1
<1>5. Accounted'
  <2>1. past'.leaks \subseteq past'.work BY LeaksCardinality
  <2>2. IsFiniteSet(past'.work) BY WorkFinite
  <2>3. Counted(DOMAIN parts)' \subseteq past'.work
    <3>1. Counted(D)' = Counted(D) BY <1>3
    <3>2. Counted(D) \subseteq Counted(DOMAIN parts) BY <1>2, CountedSets
    <3>3. Counted(DOMAIN parts)' = Counted(D)' BY <1>4 DEF Counted
    <3> QED BY <3>1, <3>2, <3>3 DEF Accounted
  <2>4. ASSUME NEW u \in past'.work
        PROVE  /\ u[1] \in 1..state'.gen /\ u[2][1] <= used'.plans
               /\ u[2] \in DOMAIN parts' => u \in Counted({u[2]})'
    <3>0. state.gen \in Nat /\ state'.gen \in Nat BY DEF Types, StateDoc
    <3>3. u[1] \in 1..state.gen /\ u[2][1] <= used.plans BY DEF Accounted
    <3>1. u[1] \in 1..state'.gen /\ u[2][1] <= used'.plans BY <3>0, <3>3
    <3>2. ASSUME u[2] \in D PROVE u \in Counted({u[2]})'
      <4>1. {u[2]} \subseteq D BY <3>2
      <4>2. Counted({u[2]})' = Counted({u[2]}) BY <4>1, <1>3
      <4>3. u \in Counted({u[2]}) BY <1>2, <3>2 DEF Accounted
      <4> QED BY <4>2, <4>3
    <3> QED BY <1>1, <3>1, <3>2
  <2>5. ASSUME NEW u \in past'.leaks PROVE u[1] <= state'.rolled \/ u[2] \notin DOMAIN parts'
    <3>1. CASE u \in past.leaks BY <1>1, <1>2, <3>1 DEF Accounted
    <3>2. CASE u \in Counted(S \cap Unrolled)
      <4>1. u[2] \in S BY <3>2, CountedSets
      <4> QED BY <1>1, <1>2, <4>1
    <3> QED BY <3>1, <3>2 DEF Leaks
  <2> QED BY <2>1, <2>2, <2>3, <2>4, <2>5 DEF Accounted
<1>6. Older(state.rolled)' = Older(state.rolled) /\ \A g : Of(g)' = Of(g)
  BY DEF Older, Of
<1>7. Cardinality(past'.work) <= Progress' + Cardinality(past'.leaks)
  <2>1. PICK U : U = Unrolled' OBVIOUS
  <2>2. U = Unrolled \ S /\ U \subseteq D
    BY <1>1, <1>2, <2>1 DEF Unrolled
  <2>3. Counters(Unrolled)' = Counters(U)
    <3>1. Counted(U)' = Counted(U) BY <1>3, <2>2
    <3>2. Counted(Unrolled)' = Counted(U)' BY <2>1 DEF Counted
    <3> QED BY <3>1, <3>2 DEF Counters
  <2>4. Counters(U) \in Nat /\ Counters(U) = Cardinality(Counted(U)) /\ IsFiniteSet(Counted(U))
    BY <1>2, <2>2, CountedParts
  <2>5. /\ IsFiniteSet(Counted(S \cap Unrolled)) /\ Counters(S \cap Unrolled) \in Nat
        /\ Counters(S \cap Unrolled) = Cardinality(Counted(S \cap Unrolled))
        /\ Cardinality(past'.leaks) = Cardinality(past.leaks) + Counters(S \cap Unrolled)
    BY LeaksCardinality DEF Counters
  <2>6. U \cup (S \cap Unrolled) = Unrolled BY <2>2
  <2>7. Counted(Unrolled) = Counted(U) \cup Counted(S \cap Unrolled)
    BY <2>6, CountedSets
  <2>8. Counters(Unrolled) <= Counters(U) + Counters(S \cap Unrolled)
    BY <2>4, <2>5, <2>7, UnionCardinality DEF Counters
  <2>9. state.total \in Nat /\ Counters(Unrolled) \in Nat /\ Cardinality(past.work) \in Nat
        /\ Cardinality(past.leaks) \in Nat
    BY WorkFinite, ProgressCounted DEF Types, StateDoc
  <2>10. Cardinality(past.work) <= state.total + Counters(Unrolled) + Cardinality(past.leaks)
    BY DEF Balance, Progress
  <2>11. Progress' = state.total + Counters(U) BY <2>3 DEF Progress
  <2> QED BY <2>4, <2>5, <2>8, <2>9, <2>10, <2>11
<1>8. ASSUME NEW k \in Coord, co'[k].pc = "roll"
      PROVE  /\ co'[k].sum.migrated <= Cardinality(Of(co[k].st.gen)')
             /\ state'.rolled < co'[k].st.gen => Counters(Generation(k))' <= co'[k].sum.migrated
  <2>1. PICK G : G = Generation(k)' OBVIOUS
  <2>2. co'[k].st.gen = co[k].st.gen BY <1>8 DEF SumsKept
  <2>3. G \subseteq D /\ G \subseteq Generation(k) BY <1>1, <1>2, <2>1, <2>2 DEF Generation
  <2>4. Counters(Generation(k))' = Counters(G)
    <3>1. Counted(G)' = Counted(G) BY <1>3, <2>3
    <3>2. Counted(Generation(k))' = Counted(G)' BY <2>1 DEF Counted
    <3> QED BY <3>1, <3>2 DEF Counters
  <2>5. Counters(G) <= Counters(Generation(k)) /\ Counters(G) \in Nat
    <3>1. Generation(k) \subseteq DOMAIN parts BY DEF Generation
    <3>2. /\ IsFiniteSet(Counted(Generation(k)))
          /\ Counters(Generation(k)) = Cardinality(Counted(Generation(k)))
      BY <3>1, CountedParts
    <3>3. Counted(G) \subseteq Counted(Generation(k)) BY <2>3, CountedSets
    <3>4. Counters(G) \in Nat /\ Counters(G) = Cardinality(Counted(G)) BY <1>2, <2>3, CountedParts
    <3> QED BY <3>2, <3>3, <3>4, FS_Subset
  <2>6. /\ Counters(Generation(k)) \in Nat
        /\ Counters(Generation(k)) <= Cardinality(Of(co[k].st.gen))
    BY GenerationCounted
  <2>7. Of(co[k].st.gen)' = Of(co[k].st.gen) BY <2>2 DEF Of
  <2>8. CASE co[k].pc = "roll" /\ co'[k].sum = co[k].sum
    <3>1. /\ co[k].sum.migrated <= Cardinality(Of(co[k].st.gen))
          /\ state.rolled < co[k].st.gen => Counters(Generation(k)) <= co[k].sum.migrated
      BY <2>8 DEF Balance
    <3>2. co[k].sum.migrated \in Nat BY DEF Types, CoordRec, SumRec
    <3> QED BY <2>2, <2>4, <2>5, <2>6, <2>7, <2>8, <3>1, <3>2
  <2>9. CASE co'[k].sum.migrated = Counters(Generation(k))
    BY <2>4, <2>5, <2>6, <2>7, <2>9
  <2> QED BY <1>8, <2>8, <2>9 DEF SumsKept
<1>9. state'.total <= Cardinality(Older(state.rolled)') BY <1>6 DEF Balance
<1>10. Balance' BY <1>7, <1>8, <1>9 DEF Balance
<1> QED BY <1>5, <1>10

\* What leaves the partitions alone, or only moves their statuses and leases.
LEMMA NothingDropped ==
  Leaks({}) = past.leaks /\ DOMAIN parts = DOMAIN parts \ {}
BY DEF Leaks, Counted

-----------------------------------------------------------------------------
(* Steps that only move things along *)

PartsSteady(S) ==
  /\ DOMAIN parts' = DOMAIN parts \ S
  /\ \A p \in DOMAIN parts' : /\ parts'[p].gen = parts[p].gen
                              /\ parts'[p].migrated = parts[p].migrated
                              /\ parts'[p].bad = parts[p].bad

PastSteady(S) ==
  /\ past'.work = past.work /\ past'.leaks = Leaks(S)
  /\ past.crossed => past'.crossed
  /\ past.stalled => past'.stalled

CoSteady(k) == CoMoves(k) /\ SumsKept(k) /\ co'[k].sum.bad \subseteq Poison

LaneSteady(l) == LaneMoves(l) /\ lane'[l].failed \subseteq Poison

\* Everything but the deploy's waiting and the documents' shapes.
LEMMA SteadyKeeps ==
  ASSUME IInv, Types', NEW S, PartsSteady(S), PastSteady(S), StateKept, used'.plans = used.plans,
         \A k \in Coord : CoSteady(k), \A l \in Lane : LaneSteady(l), OpMoves
  PROVE  /\ Names' /\ OnlyPoison'
         /\ ~past'.crossed => /\ Accounted' /\ Balance'
                              /\ NoneReopened => Views' /\ Rolled'
<1>1. Types /\ Names /\ OnlyPoison /\ (~past.crossed => Views /\ Rolled /\ Accounted /\ Balance)
  BY DEF IInv
<1>2. PlansKept BY DEF PartsSteady, PlansKept
<1>3. (\A k \in Coord : CoMoves(k)) /\ (\A l \in Lane : LaneMoves(l)) BY DEF CoSteady, LaneSteady
<1>4. Names'
  <2>1. \A p \in DOMAIN parts' : parts'[p].migrated = parts[p].migrated BY DEF PartsSteady
  <2>2. state'.gen = state.gen /\ state'.token = state.token BY DEF StateKept
  <2> QED BY <1>1, <1>2, <1>3, <2>1, <2>2, NamesKept
<1>5. OnlyPoison'
  <2>1. state'.bad \subseteq Poison BY <1>1 DEF StateKept, OnlyPoison
  <2>2. \A p \in DOMAIN parts' : parts'[p].bad \subseteq Poison
    BY <1>1 DEF PartsSteady, OnlyPoison
  <2>3. \A k \in Coord : /\ co'[k].st.bad \subseteq co[k].st.bad \/ co'[k].st = state'
                         /\ co'[k].sum.bad \subseteq Poison
    BY <1>3, Emptiness DEF CoSteady, CoMoves
  <2>4. \A l \in Lane : lane'[l].failed \subseteq Poison BY DEF LaneSteady
  <2> QED BY <1>1, <2>1, <2>2, <2>3, <2>4, PoisonKept
<1>6. ASSUME ~past'.crossed PROVE Accounted' /\ Balance'
  <2>1. Accounted /\ Balance BY <1>1, <1>6 DEF PastSteady
  <2>2. state.gen <= state'.gen BY <1>1 DEF Types, StateDoc, StateKept
  <2> QED BY <1>1, <2>1, <2>2, CountsKept DEF PartsSteady, PastSteady, CoSteady, StateKept
<1>7. ASSUME ~past'.crossed, NoneReopened PROVE Views' /\ Rolled'
  <2>1. Views /\ Rolled BY <1>1, <1>7 DEF PastSteady
  <2> QED BY <1>1, <1>2, <1>3, <1>7, <2>1, ViewsKept DEF StateKept
<1> QED BY <1>4, <1>5, <1>6, <1>7

\* What a deploy that is stopping the lanes must not see happen.
StopsKept ==
  deploy'.pc \notin Stopping
  \/ /\ deploy'.pc = deploy.pc
     /\ past.resumed => past'.resumed
     /\ state'.status \in Active => state.status \in Active \/ past'.resumed

LEMMA SteadyQuiet ==
  ASSUME IInv, Types', NEW S, PastSteady(S), LeasesKept, \A l \in Lane : LaneStops(l), StopsKept
  PROVE  Quiet'
<1>1. Types /\ Quiet /\ (~past.crossed => Accounted) BY DEF IInv
<1>2. deploy'.pc \notin Stopping \/ DeployStays
  <2>1. ASSUME ~past'.crossed
        PROVE  past'.work = past.work /\ past.leaks \subseteq past'.leaks /\ past'.leaks \subseteq past'.work
    <3>1. Accounted BY <1>1, <2>1 DEF PastSteady
    <3>2. Leaks(S) \subseteq past.work BY <1>1, <3>1, LeaksCardinality
    <3>3. past.leaks \subseteq Leaks(S) BY DEF Leaks
    <3> QED BY <3>2, <3>3 DEF PastSteady
  <2> QED BY <2>1 DEF StopsKept, DeployStays
<1> QED BY <1>1, <1>2, QuietKept DEF PastSteady

\* Most steps.
LEMMA CalmKeeps ==
  ASSUME IInv, Types', NEW S, PartsSteady(S), PastSteady(S), StateKept, used'.plans = used.plans,
         \A k \in Coord : CoSteady(k), \A l \in Lane : LaneSteady(l) /\ LaneStops(l), OpMoves,
         NoneReopened, LeasesKept, StopsKept
  PROVE  IInv'
<1>1. /\ Names' /\ OnlyPoison'
      /\ ~past'.crossed => Accounted' /\ Balance' /\ Views' /\ Rolled'
  BY SteadyKeeps
<1>2. Quiet' BY SteadyQuiet
<1> QED BY <1>1, <1>2 DEF IInv

\* Nobody else moves.
LEMMA StillSteady ==
  ASSUME IInv
  PROVE  /\ \A k \in Coord : co'[k] = co[k] => CoSteady(k)
         /\ \A l \in Lane : lane'[l] = lane[l] => LaneSteady(l) /\ LaneStops(l)
         /\ \A l \in Lane : lane'[l] = NoLane => LaneSteady(l) /\ LaneStops(l)
         /\ \A k \in Coord : co'[k] = NoCoord => CoSteady(k)
         /\ op' = op => OpMoves
<1>1. OnlyPoison BY DEF IInv
<1> QED BY <1>1, Emptiness
        DEF OnlyPoison, CoSteady, CoMoves, SumsKept, LaneSteady, LaneMoves, LaneStops, AtWork, Writing, OpMoves

\* Partitions that nobody touches.
LEMMA PartsStay ==
  ASSUME UNCHANGED parts
  PROVE  PartsSteady({}) /\ NoneReopened /\ LeasesKept
BY DEF PartsSteady, NoneReopened, LeasesKept, Open

LEMMA PastStays ==
  ASSUME past'.work = past.work, past'.leaks = past.leaks, past.crossed => past'.crossed,
         past.stalled => past'.stalled
  PROVE  PastSteady({})
BY NothingDropped DEF PastSteady

\* Partitions that are deleted.
LEMMA PartsGo ==
  ASSUME Types, NEW S, Delete(S)
  PROVE  PartsSteady(S) /\ NoneReopened /\ LeasesKept
BY DeleteParts DEF Types, FewerParts, PartsSteady, NoneReopened, LeasesKept, Open

\* A partition that is freed, or all that are expired.
LEMMA PartFreed ==
  ASSUME NEW p, Frees(p)
  PROVE  PartsSteady({}) /\ NoneReopened /\ LeasesKept
<1>1. /\ DOMAIN parts' = DOMAIN parts
      /\ \A q \in DOMAIN parts : /\ parts'[q].gen = parts[q].gen
                                 /\ parts'[q].migrated = parts[q].migrated
                                 /\ parts'[q].bad = parts[q].bad
                                 /\ Open(q)' => Open(q)
                                 /\ parts'[q].lease = None \/ parts'[q] = parts[q]
  BY DEF Frees, Open
<1> QED BY <1>1 DEF PartsSteady, NoneReopened, LeasesKept

LEMMA PartsReaped ==
  ASSUME Types, parts' = Reaped
  PROVE  PartsSteady({}) /\ NoneReopened /\ LeasesKept
<1>1. /\ DOMAIN parts' = DOMAIN parts
      /\ \A q \in DOMAIN parts : /\ parts'[q].gen = parts[q].gen
                                 /\ parts'[q].migrated = parts[q].migrated
                                 /\ parts'[q].bad = parts[q].bad
                                 /\ parts'[q].status = parts[q].status
                                 /\ parts'[q].live = parts[q].live
                                 /\ parts'[q].lease = None \/ parts'[q].lease = parts[q].lease
  BY ReapedFacts DEF Types
<1> QED BY <1>1 DEF PartsSteady, NoneReopened, LeasesKept, Open

-----------------------------------------------------------------------------
(* The coordinators keep the invariant *)

\* The status becomes no active one by itself, and what was resumed stays so.
StatusKept == state'.status \in Active => state.status \in Active
PastKept == past.resumed => past'.resumed

LEMMA CoordinatorKeeps ==
  ASSUME IInv, Types', NEW c \in Coord, Only(c), UNCHANGED <<lane, op, deploy>>,
         used'.plans = used.plans, StateKept, StatusKept,
         NEW S, PartsSteady(S), NoneReopened, LeasesKept, PastSteady(S), PastKept,
         CoSteady(c)
  PROVE  IInv'
<1>1. \A k \in Coord : CoSteady(k) BY StillSteady DEF Only
<1>2. (\A l \in Lane : LaneSteady(l) /\ LaneStops(l)) /\ OpMoves BY StillSteady
<1>3. StopsKept BY DEF StopsKept, StatusKept, PastKept
<1> QED BY <1>1, <1>2, <1>3, CalmKeeps

\* ... and nothing but coordinators and the state moves.
LEMMA CoordinatorAlone ==
  ASSUME IInv, Types', NEW c \in Coord, Only(c), UNCHANGED <<doc, parts, lane, op, deploy, past>>,
         used'.plans = used.plans, StateKept, StatusKept,
         CoSteady(c)
  PROVE  IInv'
<1>1. PartsSteady({}) /\ NoneReopened /\ LeasesKept BY PartsStay
<1>2. PastSteady({}) /\ PastKept BY PastStays DEF PastKept
<1> QED BY <1>1, <1>2, CoordinatorKeeps

LEMMA StateStays ==
  /\ UNCHANGED state => StateKept /\ StatusKept
  /\ SamePlan => StateKept
BY DEF StateKept, StatusKept, SamePlan

\* The coordinator of the step has documented failures only of what is poison.
LEMMA SumStays ==
  ASSUME IInv, NEW c \in Coord, co'[c].sum = co[c].sum \/ co'[c].sum = NoCoord.sum
  PROVE  co'[c].sum.bad \subseteq Poison
BY Emptiness DEF IInv, OnlyPoison

LEMMA StartKeeps ==
  ASSUME IInv, NEW c \in Coord, Start(c)
  PROVE  IInv'
<1>1. Types BY DEF IInv
<1>2. UNCHANGED <<doc, state, parts, lane, op, deploy, used>> /\ Idle(c) BY DEF Start
<1>3. /\ Types' /\ Only(c)
      /\ co'[c].pc = Top(state) /\ co'[c].st = state /\ co'[c].token = 0 /\ ~co'[c].empty
      /\ co'[c].dir = state.dir /\ co'[c].sum = NoCoord.sum
      /\ past'.work = past.work /\ past'.leaks = past.leaks
      /\ past'.crossed = past.crossed /\ SameCrossings
  BY <1>1, StartStep
<1>4. Top(state) \in {"replan", "plan", "activate", "look"} BY TopType
<1>5. CoMoves(c) BY <1>2, <1>3, <1>4 DEF CoMoves, Idle
<1>6. CoSteady(c) BY <1>3, <1>4, <1>5, SumStays DEF CoSteady, SumsKept
<1>7. PartsSteady({}) /\ NoneReopened /\ LeasesKept BY <1>2, PartsStay
<1>8. PastSteady({}) /\ PastKept BY <1>3, PastStays DEF PastKept, SameCrossings
<1> QED BY <1>2, <1>3, <1>6, <1>7, <1>8, StateStays, CoordinatorKeeps

\* A coordinator that went on with the state or stopped.
LEMMA WentOn ==
  ASSUME IInv, NEW c \in Coord, ~Idle(c),
         \/ co'[c] = NoCoord
         \/ /\ co'[c].pc \in {"replan", "plan", "activate", "look", "judge"}
            /\ co'[c].st = state' \/ co'[c].st = co[c].st
            /\ co'[c].dir = co[c].dir /\ (co'[c].sum = NoCoord.sum \/ co'[c].sum = co[c].sum)
  PROVE  CoSteady(c)
<1>1. CASE co'[c] = NoCoord BY <1>1, StillSteady, Emptiness
<1>2. CASE co'[c] # NoCoord BY <1>2, SumStays DEF CoSteady, CoMoves, SumsKept
<1> QED BY <1>1, <1>2

LEMMA ReshardKeeps ==
  ASSUME IInv, NEW c \in Coord, Reshard(c)
  PROVE  IInv'
<1>1. Types BY DEF IInv
<1>2. UNCHANGED <<doc, parts, lane, op, deploy, past>> BY DEF Reshard
<1>3. /\ Types' /\ Only(c) /\ SamePlan
      /\ state'.status = state.status
      /\ \/ co'[c] = NoCoord
         \/ /\ co'[c].pc = Top(state') /\ co'[c].st = state' /\ co'[c].token = co[c].token
            /\ co'[c].empty = co[c].empty /\ co'[c].dir = co[c].dir /\ co'[c].sum = NoCoord.sum
      /\ co[c].pc \in {"activate", "look"} /\ used'.plans = used.plans
  BY <1>1, ReshardStep
<1>4. Top(state') \in {"replan", "plan", "activate", "look"} BY TopType
<1>5. CoSteady(c) BY <1>3, <1>4, WentOn DEF Idle
<1>6. StateKept /\ StatusKept BY <1>3, StateStays DEF StatusKept
<1> QED BY <1>2, <1>3, <1>5, <1>6, CoordinatorAlone

LEMMA SupersedeKeeps ==
  ASSUME IInv, NEW c \in Coord, Supersede(c)
  PROVE  IInv'
<1>1. Types BY DEF IInv
<1>2. UNCHANGED <<doc, state, lane, op, deploy, used, past>> BY DEF Supersede
<1>3. /\ Types' /\ Only(c) /\ SameCounts
      /\ co[c].pc = "replan" /\ co'[c] = [co[c] EXCEPT !.pc = "drain"]
      /\ \A p \in DOMAIN parts : /\ parts'[p].lease = parts[p].lease /\ parts'[p].live = parts[p].live
                                 /\ parts'[p].status \in {parts[p].status, "superseded"}
  BY <1>1, SupersedeStep
<1>4. co[c] \in CoordRec BY <1>1 DEF Types
<1>5. /\ co'[c].pc = "drain" /\ co'[c].st = co[c].st /\ co'[c].dir = co[c].dir
      /\ co'[c].sum = co[c].sum
  BY <1>3, <1>4 DEF CoordRec
<1>6. CoSteady(c)
  BY <1>3, <1>5, SumStays DEF CoSteady, CoMoves, SumsKept, Idle
<1>7. PartsSteady({}) /\ NoneReopened /\ LeasesKept
  BY <1>3 DEF SameCounts, PartsSteady, NoneReopened, LeasesKept, Open, OpenPartition
<1>8. PastSteady({}) /\ PastKept BY <1>2, PastStays DEF PastKept
<1> QED BY <1>2, <1>3, <1>6, <1>7, <1>8, StateStays, CoordinatorKeeps

LEMMA DrainKeeps ==
  ASSUME IInv, NEW c \in Coord, Drain(c)
  PROVE  IInv'
<1>1. Types BY DEF IInv
<1>2. UNCHANGED <<doc, parts, lane, op, deploy, used, past>> BY DEF Drain
<1>3. /\ Types' /\ Only(c) /\ SamePlan /\ state'.status = state.status
      /\ co[c].pc = "drain"
      /\ \/ co'[c] = NoCoord
         \/ /\ co'[c].pc = "plan" /\ co'[c].st \in {co[c].st, state'}
            /\ co'[c].token = co[c].token /\ co'[c].empty = co[c].empty /\ co'[c].dir = co[c].dir
            /\ co'[c].sum = co[c].sum
  BY <1>1, DrainStep
<1>4. CoSteady(c) BY <1>3, WentOn DEF Idle
<1>5. StateKept /\ StatusKept BY <1>3, StateStays DEF StatusKept
<1> QED BY <1>2, <1>3, <1>4, <1>5, CoordinatorAlone

LEMMA TidyKeeps ==
  ASSUME IInv, NEW c \in Coord, Tidy(c)
  PROVE  IInv'
<1>1. Types BY DEF IInv
<1>2. UNCHANGED <<doc, state, lane, op, deploy, used>> BY DEF Tidy
<1>3. /\ Types' /\ Only(c) /\ co[c].pc = "tidy"
      /\ Delete(Foreign(co[c].st.token)) /\ OnlyLeaks(Leaks(Foreign(co[c].st.token)))
      /\ co'[c].pc = (IF co[c].empty THEN "close" ELSE Top(co[c].st))
      /\ co'[c].st = co[c].st /\ co'[c].token = 0 /\ ~co'[c].empty
      /\ co'[c].dir = co[c].dir /\ co'[c].sum = co[c].sum
  BY <1>1, TidyStep
<1>4. Top(co[c].st) \in {"replan", "plan", "activate", "look"} BY TopType
<1>5. CoSteady(c)
  <2>1. CASE ~co[c].empty BY <1>3, <1>4, <2>1, WentOn DEF Idle
  <2>2. CASE co[c].empty
    <3>1. \A p \in DOMAIN parts : p[1] # co'[c].st.token BY <1>3, <2>2 DEF IInv, Names, InPlan
    <3> QED BY <1>3, <2>2, <3>1, SumStays DEF CoSteady, CoMoves, SumsKept, Idle
  <2> QED BY <2>1, <2>2
<1>6. PICK S : S = Foreign(co[c].st.token) OBVIOUS
<1>7. PartsSteady(S) /\ NoneReopened /\ LeasesKept BY <1>1, <1>3, <1>6, PartsGo
<1>8. PastSteady(S) /\ PastKept BY <1>3, <1>6 DEF OnlyLeaks, PastSteady, PastKept
<1> QED BY <1>2, <1>3, <1>5, <1>7, <1>8, StateStays, CoordinatorKeeps

LEMMA ActivateKeeps ==
  ASSUME IInv, NEW c \in Coord, Activate(c)
  PROVE  IInv'
<1>1. Types BY DEF IInv
<1>2. UNCHANGED <<doc, parts, lane, op, deploy, used, past>> BY DEF Activate
<1>3. /\ Types' /\ Only(c) /\ co[c].pc = "activate" /\ SamePlan
      /\ state'.status \in {state.status, "running"} /\ (state'.status # state.status => state.status = "pending")
      /\ co'[c].pc = "look" /\ co'[c].st \in {co[c].st, state'}
      /\ co'[c].token = co[c].token /\ co'[c].empty = co[c].empty /\ co'[c].dir = co[c].dir
      /\ co'[c].sum = co[c].sum
  BY <1>1, ActivateStep
<1>4. CoSteady(c) BY <1>3, WentOn DEF Idle
<1>5. StateKept /\ StatusKept BY <1>3, StateStays DEF StatusKept, Active
<1> QED BY <1>2, <1>3, <1>4, <1>5, CoordinatorAlone

LEMMA LookKeeps ==
  ASSUME IInv, NEW c \in Coord, Look(c)
  PROVE  IInv'
<1>1. Types BY DEF IInv
<1>2. UNCHANGED <<doc, state, lane, op, deploy, used, past>> BY DEF Look
<1>3. /\ Types' /\ Only(c) /\ co[c].pc = "look" /\ SameCounts /\ parts' = Reaped
      /\ \/ co'[c] = NoCoord
         \/ ~StillOpen(Is(co[c].st.token)) /\ co'[c] = [co[c] EXCEPT !.pc = "close"]
  BY <1>1, LookStep
<1>4. CoSteady(c)
  <2>1. CASE co'[c] = NoCoord BY <1>3, <2>1, WentOn DEF Idle
  <2>2. CASE co'[c] # NoCoord
    <3>1. co[c] \in CoordRec BY <1>1 DEF Types
    <3>2. /\ co'[c].pc = "close" /\ co'[c].st = co[c].st /\ co'[c].dir = co[c].dir
          /\ co'[c].sum = co[c].sum
      BY <1>3, <2>2, <3>1 DEF CoordRec
    <3>3. \A p \in DOMAIN parts : p[1] = co'[c].st.token => ~Open(p)
      BY <1>3, <2>2, <3>2 DEF StillOpen, Is
    <3> QED BY <1>3, <3>2, <3>3, SumStays DEF CoSteady, CoMoves, SumsKept, Idle
  <2> QED BY <2>1, <2>2
<1>5. PartsSteady({}) /\ NoneReopened /\ LeasesKept BY <1>1, <1>3, PartsReaped
<1>6. PastSteady({}) /\ PastKept BY <1>2, PastStays DEF PastKept
<1> QED BY <1>2, <1>3, <1>4, <1>5, <1>6, StateStays, CoordinatorKeeps

LEMMA TotalKeeps ==
  ASSUME IInv, NEW c \in Coord, Total(c)
  PROVE  IInv'
<1>1. Types /\ OnlyPoison BY DEF IInv
<1>2. UNCHANGED <<doc, state, parts, lane, op, deploy, used, past>> BY DEF Total
<1>3. /\ Types' /\ Only(c) /\ co[c].pc = "close"
      /\ co'[c].st = co[c].st /\ co'[c].token = co[c].token /\ co'[c].empty = co[c].empty
      /\ co'[c].dir = co[c].dir
      /\ \/ /\ co'[c].pc = "roll" /\ co'[c].sum.migrated = Counters(Generation(c))
            /\ co'[c].sum.bad = co[c].st.bad \cup BadOf(Generation(c))
         \/ co'[c].pc = "judge" /\ co'[c].sum = co[c].sum
  BY <1>1, TotalStep
<1>4. CASE co'[c].pc = "judge"
  <2>1. CoSteady(c) BY <1>3, <1>4, WentOn DEF Idle
  <2> QED BY <1>2, <1>3, <2>1, StateStays, CoordinatorAlone
<1>5. CASE co'[c].pc = "roll"
  <2>1. co'[c].sum.bad \subseteq Poison
    <3>1. BadOf(Generation(c)) \subseteq Poison BY <1>1 DEF BadOf, Generation, OnlyPoison
    <3> QED BY <1>1, <1>3, <1>5, <3>1 DEF OnlyPoison
  <2>2. CoSteady(c) BY <1>3, <1>5, <2>1 DEF CoSteady, CoMoves, SumsKept, Idle
  <2> QED BY <1>2, <1>3, <1>5, <2>2, StateStays, CoordinatorAlone
<1> QED BY <1>3, <1>4, <1>5

LEMMA FailKeeps ==
  ASSUME IInv, NEW c \in Coord, Fail(c)
  PROVE  IInv'
<1>1. Types BY DEF IInv
<1>2. UNCHANGED <<doc, parts, lane, op, deploy, used, past>> BY DEF Fail
<1>3. /\ Types' /\ Only(c) /\ co[c].pc = "fail" /\ co'[c] = NoCoord /\ SamePlan
      /\ \/ state'.status = state.status
         \/ state.status \in {"blocked", "pending", "running"} /\ state'.status = "failed"
  BY <1>1, FailStep
<1>4. CoSteady(c) BY <1>3, StillSteady, Emptiness
<1>5. StateKept /\ StatusKept BY <1>3, StateStays DEF StatusKept, Active
<1> QED BY <1>2, <1>3, <1>4, <1>5, CoordinatorAlone

LEMMA CoordCrashKeeps ==
  ASSUME IInv, NEW c \in Coord, CoordCrash(c)
  PROVE  IInv'
<1>1. Types BY DEF IInv
<1>2. UNCHANGED <<doc, state, parts, lane, op, deploy, past>> BY DEF CoordCrash
<1>3. Types' /\ Only(c) /\ co'[c] = NoCoord /\ used'.plans = used.plans BY <1>1, CoordCrashStep
<1>4. CoSteady(c) BY <1>3, StillSteady, Emptiness
<1> QED BY <1>2, <1>3, <1>4, StateStays, CoordinatorAlone

LEMMA LoseLockKeeps ==
  ASSUME IInv, NEW c \in Coord, LoseLock(c)
  PROVE  IInv'
<1>1. Types BY DEF IInv
<1>2. UNCHANGED <<doc, state, parts, co, lane, op, deploy, past>> BY DEF LoseLock
<1>3. Types' /\ used'.plans = used.plans BY <1>1, LoseLockStep
<1>4. CoSteady(c) /\ Only(c) BY <1>2, StillSteady DEF Only
<1> QED BY <1>2, <1>3, <1>4, StateStays, CoordinatorAlone

\* A step of a coordinator that drops the generations before its own.
LEMMA CompleteKeeps ==
  ASSUME IInv, NEW c \in Coord, Complete(c)
  PROVE  IInv'
<1>1. Types BY DEF IInv
<1>2. UNCHANGED <<doc, lane, op, deploy, used>> BY DEF Complete
<1>3. /\ Types' /\ Only(c) /\ co[c].pc = "complete" /\ co'[c] = NoCoord /\ SamePlan
      /\ \/ state'.status = state.status
         \/ state.status \in {"pending", "running"} /\ state'.status = "completed"
      /\ Delete(UpTo(co[c].st.gen - 1)) /\ Completes(c, Leaks(UpTo(co[c].st.gen - 1)))
  BY <1>1, CompleteStep
<1>4. CoSteady(c) BY <1>3, StillSteady, Emptiness
<1>5. StateKept /\ StatusKept BY <1>3, StateStays DEF StatusKept, Active
<1>6. PICK S : S = UpTo(co[c].st.gen - 1) OBVIOUS
<1>7. PartsSteady(S) /\ NoneReopened /\ LeasesKept BY <1>1, <1>3, <1>6, PartsGo
<1>8. PastSteady(S) /\ PastKept BY <1>3, <1>6 DEF Completes, SameCrossings, PastSteady, PastKept
<1> QED BY <1>2, <1>3, <1>4, <1>5, <1>7, <1>8, CoordinatorKeeps

LEMMA NextPassKeeps ==
  ASSUME IInv, NEW c \in Coord, NextPass(c)
  PROVE  IInv'
<1>1. Types BY DEF IInv
<1>2. UNCHANGED <<doc, lane, op, deploy, used>> BY DEF NextPass
<1>3. /\ Types' /\ Only(c) /\ co[c].pc = "next" /\ SamePlan /\ state'.status = state.status
      /\ Delete(UpTo(co[c].st.gen - 1)) /\ OnlyLeaks(Leaks(UpTo(co[c].st.gen - 1)))
      /\ \/ co'[c] = NoCoord
         \/ /\ co'[c].pc = Top(state') /\ co'[c].st = state' /\ co'[c].token = co[c].token
            /\ co'[c].empty = co[c].empty /\ co'[c].dir = co[c].dir /\ co'[c].sum = NoCoord.sum
  BY <1>1, NextPassStep
<1>4. Top(state') \in {"replan", "plan", "activate", "look"} BY TopType
<1>5. CoSteady(c) BY <1>3, <1>4, WentOn DEF Idle
<1>6. StateKept /\ StatusKept BY <1>3, StateStays DEF StatusKept
<1>7. PICK S : S = UpTo(co[c].st.gen - 1) OBVIOUS
<1>8. PartsSteady(S) /\ NoneReopened /\ LeasesKept BY <1>1, <1>3, <1>7, PartsGo
<1>9. PastSteady(S) /\ PastKept BY <1>3, <1>7 DEF OnlyLeaks, PastSteady, PastKept
<1> QED BY <1>2, <1>3, <1>5, <1>6, <1>8, <1>9, CoordinatorKeeps

\* The fresh count.
LEMMA JudgeKeeps ==
  ASSUME IInv, NEW c \in Coord, Judge(c)
  PROVE  IInv'
<1>1. Types BY DEF IInv
<1>2. UNCHANGED <<doc, state, parts, lane, op, deploy, used>> BY DEF Judge
<1>3. /\ Types' /\ Only(c) /\ co[c].pc = "judge"
      /\ co'[c].pc \in {"fail", "complete", "next"}
      /\ co'[c].st = co[c].st /\ co'[c].token = co[c].token /\ co'[c].empty = co[c].empty
      /\ co'[c].dir = co[c].dir /\ co'[c].sum = co[c].sum
      /\ past'.crossed = past.crossed /\ past'.resumed = past.resumed /\ past'.stalled = past.stalled
      /\ past'.work = past.work /\ past'.leaks = past.leaks
  BY <1>1, JudgeStep
<1>4. CoSteady(c) BY <1>3, SumStays DEF CoSteady, CoMoves, SumsKept, Idle
<1>5. (\A k \in Coord : CoSteady(k)) /\ (\A l \in Lane : LaneSteady(l) /\ LaneStops(l)) /\ OpMoves
  BY <1>2, <1>3, <1>4, StillSteady DEF Only
<1>6. PartsSteady({}) /\ NoneReopened /\ LeasesKept BY <1>2, PartsStay
<1>7. PastSteady({}) BY <1>3, PastStays
<1>8. /\ Names' /\ OnlyPoison'
      /\ ~past'.crossed => Accounted' /\ Balance' /\ Views' /\ Rolled'
  BY <1>2, <1>3, <1>5, <1>6, <1>7, StateStays, SteadyKeeps
<1>9. Quiet' BY <1>2, <1>3, <1>5, <1>6, <1>7, SteadyQuiet DEF StopsKept
<1> QED BY <1>3, <1>8, <1>9 DEF IInv

\* The roll-up: the generation's counters go into the total, once, and what older
\* generations hold is left behind.
LEMMA RollBalances ==
  ASSUME Types, Types', Views, Rolled, Accounted, Balance, NEW c \in Coord, Only(c), co[c].pc = "roll",
         Rolls(co[c].st.gen), UNCHANGED parts, used'.plans = used.plans,
         state'.gen = state.gen, state'.rolled = co[c].st.gen,
         state'.total = state.total + co[c].sum.migrated,
         past'.work = past.work, past'.leaks = Leaks(UpTo(co[c].st.gen - 1)), co'[c].pc # "roll"
  PROVE  Accounted' /\ Balance'
<1>1. PICK g \in Nat : g = co[c].st.gen BY DEF Types, CoordRec, StateDoc
<1>2. PICK m \in Nat : m = co[c].sum.migrated BY DEF Types, CoordRec, SumRec
<1>3. state.rolled \in Nat /\ state.rolled < g /\ state.total \in Nat BY <1>1 DEF Rolls, Types, StateDoc
<1>4. \A p \in DOMAIN parts : parts[p].gen \in Nat BY DEF Types, PartsOK, PartOK, Partition
<1>5. \A X : Counted(X)' = Counted(X) BY DEF Counted, Counts
<1> DEFINE S == UpTo(g - 1)
<1>6. past'.leaks = Leaks(S) BY <1>1
<1>7. Leaks(S) \subseteq past.work BY LeaksCardinality
<1>8. Accounted'
  <2>1. past'.leaks \subseteq past'.work /\ IsFiniteSet(past'.work) BY <1>6, <1>7, WorkFinite
  <2>2. Counted(DOMAIN parts)' \subseteq past'.work BY DEF Accounted, Counted, Counts
  <2>3. \A u \in past'.work : /\ u[1] \in 1..state'.gen /\ u[2][1] <= used'.plans
                              /\ u[2] \in DOMAIN parts' => u \in Counted({u[2]})'
    BY <1>5 DEF Accounted
  <2>4. ASSUME NEW u \in past'.leaks PROVE u[1] <= state'.rolled \/ u[2] \notin DOMAIN parts'
    <3>1. CASE u \in past.leaks
      <4>1. CASE u[2] \notin DOMAIN parts BY <4>1
      <4>2. CASE u[2] \in DOMAIN parts
        <5>1. u[1] <= state.rolled BY <3>1, <4>2 DEF Accounted
        <5>2. u[1] \in 1..state.gen BY <3>1 DEF Accounted
        <5>3. u[1] \in Nat /\ state.gen \in Nat BY <5>2 DEF Types, StateDoc
        <5> QED BY <1>1, <1>3, <5>1, <5>3
      <4> QED BY <4>1, <4>2
    <3>2. CASE u \in Counted(S \cap Unrolled)
      <4>1. u[2] \in S /\ u[1] = parts[u[2]].gen
        <5>1. u[2] \in S \cap Unrolled /\ u[1] = parts[u[2]].gen BY <3>2, CountedSets
        <5> QED BY <5>1
      <4>2. u[2] \in DOMAIN parts /\ parts[u[2]].gen <= g - 1 BY <4>1 DEF UpTo
      <4> QED BY <1>1, <1>4, <4>1, <4>2
    <3> QED BY <1>6, <3>1, <3>2 DEF Leaks
  <2> QED BY <2>1, <2>2, <2>3, <2>4 DEF Accounted
<1>9. /\ Counters(Generation(c)) <= m /\ m <= Cardinality(Of(g))
  BY <1>1, <1>2, <1>3 DEF Balance
<1>10. Cardinality(past'.work) <= Progress' + Cardinality(past'.leaks)
  <2>1. PICK U : U = Unrolled' OBVIOUS
  <2>2. /\ U \subseteq DOMAIN parts /\ Generation(c) \subseteq DOMAIN parts
        /\ S \cap Unrolled \subseteq DOMAIN parts
        /\ Unrolled = U \cup (Generation(c) \cup (S \cap Unrolled))
    <3>1. \A p : p \in U <=> p \in DOMAIN parts /\ parts[p].gen > g BY <1>1, <2>1 DEF Unrolled
    <3>2. \A p : p \in Generation(c) <=> p \in DOMAIN parts /\ parts[p].gen = g BY <1>1 DEF Generation
    <3>3. \A p : p \in Unrolled <=> p \in DOMAIN parts /\ parts[p].gen > state.rolled BY DEF Unrolled
    <3>4. \A p : p \in S <=> p \in DOMAIN parts /\ parts[p].gen <= g - 1 BY DEF UpTo
    <3>5. \A p \in DOMAIN parts :
            parts[p].gen > state.rolled
              <=> parts[p].gen > g \/ parts[p].gen = g \/ (parts[p].gen <= g - 1 /\ parts[p].gen > state.rolled)
      BY <1>3, <1>4
    <3> QED BY <3>1, <3>2, <3>3, <3>4, <3>5
  <2>3. /\ IsFiniteSet(Counted(U)) /\ Counters(U) \in Nat /\ Counters(U) = Cardinality(Counted(U))
        /\ IsFiniteSet(Counted(Generation(c))) /\ Counters(Generation(c)) \in Nat
        /\ Counters(Generation(c)) = Cardinality(Counted(Generation(c)))
        /\ IsFiniteSet(Counted(S \cap Unrolled)) /\ Counters(S \cap Unrolled) \in Nat
        /\ Counters(S \cap Unrolled) = Cardinality(Counted(S \cap Unrolled))
    BY <2>2, CountedParts
  <2>4. Counted(Unrolled) = Counted(U) \cup (Counted(Generation(c)) \cup Counted(S \cap Unrolled))
    <3>1. PICK V, W : V = Generation(c) /\ W = S \cap Unrolled OBVIOUS
    <3>2. Counted(V \cup W) = Counted(V) \cup Counted(W) BY CountedSets
    <3>3. Counted(U \cup (V \cup W)) = Counted(U) \cup Counted(V \cup W) BY CountedSets
    <3>4. Unrolled = U \cup (V \cup W) BY <2>2, <3>1
    <3>5. Counted(Unrolled) = Counted(U \cup (V \cup W)) BY <3>4
    <3> QED BY <3>1, <3>2, <3>3, <3>5
  <2>5. /\ IsFiniteSet(Counted(Generation(c)) \cup Counted(S \cap Unrolled))
        /\ Cardinality(Counted(Generation(c)) \cup Counted(S \cap Unrolled)) \in Nat
        /\ Cardinality(Counted(Generation(c)) \cup Counted(S \cap Unrolled))
             <= Counters(Generation(c)) + Counters(S \cap Unrolled)
    BY <2>3, UnionCardinality
  <2>6. Counters(Unrolled) <= Counters(U) + Cardinality(Counted(Generation(c)) \cup Counted(S \cap Unrolled))
    BY <2>3, <2>4, <2>5, UnionCardinality DEF Counters
  <2>7. Counters(Unrolled)' = Counters(U)
    <3>1. Counted(Unrolled)' = Counted(U)' BY <2>1 DEF Counted
    <3> QED BY <1>5, <3>1 DEF Counters
  <2>8. Cardinality(past'.leaks) = Cardinality(past.leaks) + Counters(S \cap Unrolled)
    BY <1>6, LeaksCardinality
  <2>9. /\ Cardinality(past.work) \in Nat /\ Cardinality(past.leaks) \in Nat /\ Counters(Unrolled) \in Nat
    BY WorkFinite, ProgressCounted
  <2>10. Cardinality(past.work) <= state.total + Counters(Unrolled) + Cardinality(past.leaks)
    BY DEF Balance, Progress
  <2>11. Progress' = state.total + m + Counters(U) BY <1>2, <2>7 DEF Progress
  <2> HIDE DEF S
  <2> QED BY <1>3, <1>9, <2>3, <2>5, <2>6, <2>8, <2>9, <2>10, <2>11
<1>11. state'.total <= Cardinality(Older(state.rolled)')
  <2>1. /\ IsFiniteSet(Older(state.rolled)) /\ Cardinality(Older(state.rolled)) \in Nat
        /\ IsFiniteSet(Of(g)) /\ Cardinality(Of(g)) \in Nat
        /\ IsFiniteSet(Older(g)) /\ Cardinality(Older(g)) \in Nat
    BY WorkFinite
  <2>2. \A u \in past.work : u[1] \in Nat
    <3>1. state.gen \in Nat /\ \A u \in past.work : u[1] \in 1..state.gen BY DEF Accounted, Types, StateDoc
    <3> QED BY <3>1
  <2>3. Older(state.rolled) \cap Of(g) = {} BY <1>3, <2>2 DEF Older, Of
  <2>4. Older(state.rolled) \cup Of(g) \subseteq Older(g) BY <1>3, <2>2 DEF Older, Of
  <2>5. Cardinality(Older(state.rolled) \cup Of(g)) = Cardinality(Older(state.rolled)) + Cardinality(Of(g))
    BY <2>1, <2>3, DisjointCardinality
  <2>6. Cardinality(Older(state.rolled) \cup Of(g)) <= Cardinality(Older(g)) BY <2>1, <2>4, FS_Subset
  <2>7. state.total <= Cardinality(Older(state.rolled)) BY DEF Balance
  <2>8. Older(state.rolled)' = Older(g) BY <1>1 DEF Older
  <2>9. state'.total = state.total + m BY <1>2
  <2> QED BY <1>3, <1>9, <2>1, <2>5, <2>6, <2>7, <2>8, <2>9
<1>12. ASSUME NEW k \in Coord, co'[k].pc = "roll"
       PROVE  /\ co'[k].sum.migrated <= Cardinality(Of(co[k].st.gen)')
              /\ state'.rolled < co'[k].st.gen => Counters(Generation(k))' <= co'[k].sum.migrated
  <2>1. co'[k] = co[k] BY <1>12 DEF Only
  <2>2. Of(co[k].st.gen)' = Of(co[k].st.gen) BY <2>1 DEF Of
  <2>3. Counters(Generation(k))' = Counters(Generation(k))
    <3>1. Generation(k)' = Generation(k) BY <2>1 DEF Generation
    <3> QED BY <3>1 DEF Counters, Counted, Counts
  <2>4. co[k].st.gen \in Nat BY DEF Types, CoordRec, StateDoc
  <2>5. state'.rolled < co[k].st.gen => state.rolled < co[k].st.gen BY <1>1, <1>3, <2>4
  <2> QED BY <1>12, <2>1, <2>2, <2>3, <2>5 DEF Balance
<1>13. Balance' BY <1>10, <1>11, <1>12 DEF Balance
<1> QED BY <1>8, <1>13

LEMMA RollKeeps ==
  ASSUME IInv, NEW c \in Coord, Roll(c)
  PROVE  IInv'
<1>1. Types /\ Names /\ OnlyPoison BY DEF IInv
<1>2. UNCHANGED <<doc, parts, lane, op, deploy, used>> BY DEF Roll
<1>3. /\ Types' /\ Only(c) /\ co[c].pc = "roll"
      /\ state'.gen = state.gen /\ state'.token = state.token /\ state'.dir = state.dir
      /\ state'.status = state.status
      /\ \/ /\ Rolls(co[c].st.gen) /\ state'.rolled = co[c].st.gen
            /\ state'.total = state.total + co[c].sum.migrated /\ state'.bad = co[c].sum.bad
            /\ OnlyLeaks(Leaks(UpTo(co[c].st.gen - 1)))
         \/ ~Rolls(co[c].st.gen) /\ UNCHANGED <<state, past>>
      /\ \/ co'[c] = NoCoord
         \/ /\ co'[c].pc = "judge" /\ co'[c].st = state' /\ co'[c].token = co[c].token
            /\ co'[c].empty = co[c].empty /\ co'[c].dir = co[c].dir /\ co'[c].sum = NoCoord.sum
  BY <1>1, RollStep
<1>4. CoSteady(c) BY <1>3, WentOn DEF Idle
<1>5. CASE ~Rolls(co[c].st.gen)
  <2>1. UNCHANGED <<state, past>> BY <1>3, <1>5
  <2> QED BY <1>2, <1>3, <1>4, <2>1, StateStays, CoordinatorAlone
<1>6. CASE Rolls(co[c].st.gen)
  <2>1. /\ \A k \in Coord : CoSteady(k)
        /\ \A l \in Lane : LaneSteady(l) /\ LaneStops(l)
        /\ OpMoves
    BY <1>2, <1>3, <1>4, StillSteady DEF Only
  <2>2. PlansKept /\ NoneReopened /\ LeasesKept BY <1>2 DEF PlansKept, NoneReopened, LeasesKept, Open
  <2>3. Names'
    <3>1. (\A k \in Coord : CoMoves(k)) /\ (\A l \in Lane : LaneMoves(l)) BY <2>1 DEF CoSteady, LaneSteady
    <3>2. \A p \in DOMAIN parts' : parts'[p].migrated = parts[p].migrated BY <1>2
    <3> QED BY <1>1, <1>2, <1>3, <2>1, <2>2, <3>1, <3>2, NamesKept
  <2>4. OnlyPoison'
    <3>1. state'.bad \subseteq Poison BY <1>1, <1>3, <1>6 DEF OnlyPoison
    <3>2. \A p \in DOMAIN parts' : parts'[p].bad \subseteq Poison BY <1>1, <1>2 DEF OnlyPoison
    <3>3. \A k \in Coord : /\ co'[k].st.bad \subseteq co[k].st.bad \/ co'[k].st = state'
                           /\ co'[k].sum.bad \subseteq Poison
      BY <2>1, Emptiness DEF CoSteady, CoMoves
    <3>4. \A l \in Lane : lane'[l].failed \subseteq Poison BY <2>1 DEF LaneSteady
    <3> QED BY <1>1, <1>3, <3>1, <3>2, <3>3, <3>4, PoisonKept
  <2>5. PICK S : S = UpTo(co[c].st.gen - 1) OBVIOUS
  <2>6. PastSteady(S) BY <1>3, <1>6, <2>5 DEF OnlyLeaks, PastSteady
  <2>7. Quiet'
    <3>1. StopsKept BY <1>2, <1>3, <1>6 DEF StopsKept, OnlyLeaks
    <3> QED BY <1>3, <2>1, <2>2, <2>6, <3>1, SteadyQuiet
  <2>8. ASSUME ~past'.crossed PROVE Views' /\ Rolled' /\ Accounted' /\ Balance'
    <3>1. Views /\ Rolled /\ Accounted /\ Balance BY <1>3, <1>6, <2>8 DEF IInv, OnlyLeaks
    <3>2. Accounted' /\ Balance'
      <4>1. past'.work = past.work /\ past'.leaks = Leaks(UpTo(co[c].st.gen - 1))
        BY <1>3, <1>6 DEF OnlyLeaks
      <4>2. co'[c].pc # "roll" BY <1>3, Emptiness
      <4> QED BY <1>1, <1>2, <1>3, <1>6, <3>1, <4>1, <4>2, RollBalances
    <3>3. /\ state'.rolled <= state.gen
          /\ \A p \in DOMAIN parts' : p[1] = state.token /\ Open(p) => state'.rolled < parts[p].gen
      <4>1. Seen(co[c].st) BY <1>3, <3>1 DEF Views, Idle
      <4>2. state'.rolled = co[c].st.gen BY <1>3, <1>6
      <4>3. ASSUME NEW p \in DOMAIN parts, p[1] = state.token, Open(p) PROVE co[c].st.gen < parts[p].gen
        <5>1. parts[p].gen = state.gen BY <1>1, <4>3 DEF Names, Named, Held
        <5>2. co[c].st.gen # state.gen BY <1>3, <3>1, <4>1, <4>3 DEF Seen, Rolled
        <5>3. co[c].st.gen \in Nat /\ state.gen \in Nat BY <1>1 DEF Types, CoordRec, StateDoc
        <5> QED BY <4>1, <5>1, <5>2, <5>3 DEF Seen
      <4> QED BY <1>2, <4>1, <4>2, <4>3 DEF Seen
    <3>4. (\A k \in Coord : CoMoves(k)) /\ (\A l \in Lane : LaneMoves(l)) BY <2>1 DEF CoSteady, LaneSteady
    <3>5. Views' /\ Rolled' BY <1>1, <1>3, <2>2, <3>1, <3>3, <3>4, ViewsKept
    <3> QED BY <3>2, <3>5
  <2> QED BY <1>3, <2>3, <2>4, <2>7, <2>8 DEF IInv
<1> QED BY <1>5, <1>6

\* A lost plan was never worked, so nothing is dropped with it; a plan that is
\* committed is ahead of everything there was.
LEMMA CommitKeeps ==
  ASSUME IInv, NEW c \in Coord, Commit(c)
  PROVE  IInv'
<1>1. Types /\ Names /\ OnlyPoison BY DEF IInv
<1>2. UNCHANGED <<doc, lane, op, deploy, used, past>> BY DEF Commit
<1>3. /\ Types' /\ Only(c) /\ co[c].pc = "commit"
      /\ \/ /\ Commits(co[c].st) /\ UNCHANGED parts
            /\ state'.gen = co[c].st.gen + 1 /\ state'.token = co[c].token
            /\ state'.rolled = state.rolled /\ state'.total = state.total
            /\ state'.dir = state.dir /\ state'.bad = state.bad /\ state'.status = state.status
            /\ co'[c].pc = "tidy" /\ co'[c].st = state' /\ co'[c].token = co[c].token
            /\ co'[c].empty = co[c].empty /\ co'[c].dir = co[c].dir /\ co'[c].sum = co[c].sum
         \/ UNCHANGED state /\ Delete(Is(co[c].token)) /\ co'[c] = NoCoord
  BY <1>1, CommitStep
<1>4. CASE UNCHANGED state /\ Delete(Is(co[c].token)) /\ co'[c] = NoCoord
  <2>1. PICK S : S = Is(co[c].token) OBVIOUS
  <2>2. PartsSteady(S) /\ NoneReopened /\ LeasesKept BY <1>1, <1>4, <2>1, PartsGo
  <2>3. Leaks(S) = past.leaks
    <3>1. \A p \in S : parts[p].migrated = 0 BY <1>1, <1>3, <2>1 DEF Names, Uncommitted, Is
    <3>2. \A p \in S : Counts(p, 1, parts[p].migrated) = {} BY <3>1 DEF Counts
    <3>3. Counted(S \cap Unrolled) = {} BY <3>2 DEF Counted
    <3> QED BY <3>3 DEF Leaks
  <2>4. PastSteady(S) /\ PastKept BY <1>2, <2>3 DEF PastSteady, PastKept
  <2>5. CoSteady(c) BY <1>4, StillSteady, Emptiness
  <2>6. StateKept /\ StatusKept BY <1>4, StateStays
  <2> QED BY <1>2, <1>3, <2>2, <2>4, <2>5, <2>6, CoordinatorKeeps
<1>5. CASE /\ Commits(co[c].st) /\ UNCHANGED parts
           /\ state'.gen = co[c].st.gen + 1 /\ state'.token = co[c].token
           /\ state'.rolled = state.rolled /\ state'.total = state.total
           /\ state'.dir = state.dir /\ state'.bad = state.bad /\ state'.status = state.status
           /\ co'[c].pc = "tidy" /\ co'[c].st = state' /\ co'[c].token = co[c].token
           /\ co'[c].empty = co[c].empty /\ co'[c].dir = co[c].dir /\ co'[c].sum = co[c].sum
  <2>1. /\ state.gen \in Nat /\ state.rolled \in Nat /\ state'.gen \in Nat
        /\ state'.gen = state.gen + 1
    BY <1>1, <1>5 DEF Types, StateDoc, Commits
  <2>2. \A k \in Coord : co'[k].pc = "commit" => k # c /\ co[k].pc = "commit" /\ co'[k] = co[k]
    BY <1>3, <1>5 DEF Only
  <2>3. Held(state)'
    <3>1. state'.token <= used'.plans BY <1>1, <1>2, <1>3, <1>5 DEF Names, Uncommitted
    <3>2. \A p \in DOMAIN parts' : p[1] = state'.token => parts'[p].gen = state'.gen
      BY <1>1, <1>3, <1>5 DEF Names, Uncommitted
    <3>3. \A k \in Coord : co'[k].pc = "commit" => co'[k].token # state'.token
      BY <1>1, <1>3, <1>5, <2>2 DEF Names, Uncommitted
    <3> QED BY <3>1, <3>2, <3>3 DEF Held
  <2>4. ASSUME NEW v, Held(v)
        PROVE  /\ v.token <= used'.plans
               /\ \A p \in DOMAIN parts' : p[1] = v.token => parts'[p].gen = v.gen
               /\ \A k \in Coord : co'[k].pc = "commit" => co'[k].token # v.token
    BY <1>2, <1>5, <2>2, <2>4 DEF Held
  <2>5. Names'
    <3>1. \A p \in DOMAIN parts' : p[1] <= used'.plans BY <1>1, <1>2, <1>5 DEF Names, Named
    <3>2. Held(op.st)' BY <1>1, <1>2, <2>4 DEF Names, Named, Held
    <3>3. ASSUME NEW k \in Coord PROVE Held(co[k].st)'
      <4>1. CASE k = c BY <1>5, <2>3, <4>1 DEF Held
      <4>2. CASE k # c
        <5>1. co'[k] = co[k] BY <1>3, <4>2 DEF Only
        <5> QED BY <1>1, <2>4, <5>1 DEF Names, Named, Held
      <4> QED BY <4>1, <4>2
    <3>4. \A l \in Lane : Held(lane[l])' BY <1>1, <1>2, <2>4 DEF Names, Named, Held
    <3>5. Uncommitted' BY <1>1, <1>2, <1>5, <2>2 DEF Names, Uncommitted
    <3>6. InPlan'
      <4>1. ASSUME NEW k \in Coord, co'[k].pc = "tidy" /\ co'[k].empty
            PROVE  \A p \in DOMAIN parts' : p[1] # co'[k].st.token
        <5>1. CASE k = c BY <1>1, <1>3, <1>5, <4>1, <5>1 DEF Names, Uncommitted
        <5>2. CASE k # c BY <1>1, <1>3, <1>5, <4>1, <5>2 DEF Names, InPlan, Only
        <5> QED BY <5>1, <5>2
      <4> QED BY <1>1, <1>2, <4>1 DEF Names, InPlan
    <3> QED BY <2>3, <3>1, <3>2, <3>3, <3>4, <3>5, <3>6 DEF Names, Named
  <2>6. OnlyPoison'
    <3>1. \A k \in Coord : /\ co'[k].st.bad \subseteq co[k].st.bad \/ co'[k].st = state'
                           /\ co'[k].sum.bad \subseteq Poison
      BY <1>1, <1>3, <1>5 DEF Only, OnlyPoison
    <3>2. /\ state'.bad \subseteq Poison /\ \A p \in DOMAIN parts' : parts'[p].bad \subseteq Poison
          /\ \A l \in Lane : lane'[l].failed \subseteq Poison
      BY <1>1, <1>2, <1>5 DEF OnlyPoison
    <3> QED BY <1>1, <1>3, <3>1, <3>2, PoisonKept
  <2>7. PastSteady({}) /\ NoneReopened /\ LeasesKept BY <1>2, <1>5, PastStays, PartsStay
  <2>8. Quiet'
    <3>1. \A l \in Lane : LaneStops(l) BY <1>2, StillSteady
    <3>2. StopsKept BY <1>2, <1>5 DEF StopsKept
    <3> QED BY <1>3, <2>7, <3>1, <3>2, SteadyQuiet
  <2>9. ASSUME ~past'.crossed PROVE Views' /\ Rolled' /\ Accounted' /\ Balance'
    <3>1. Views /\ Rolled /\ Accounted /\ Balance BY <1>2, <2>9 DEF IInv
    <3>2. \A k \in Coord : co[k].st.gen \in Nat BY <1>1 DEF Types, CoordRec, StateDoc
    <3>3. \A l \in Lane : lane[l].gen \in Nat BY <1>1 DEF Types, LaneRec
    <3>4. Views'
      <4>1. state'.rolled <= state'.gen BY <1>5, <2>1, <3>1 DEF Views
      <4>2. ASSUME NEW k \in Coord, ~Idle(k)'
            PROVE  /\ Seen(co[k].st)' /\ co'[k].dir = state'.dir
                   /\ k # c => ~Idle(k) /\ co'[k].st = co[k].st
        <5>1. CASE k = c BY <1>3, <1>5, <2>1, <3>1, <5>1 DEF Views, Seen, Idle
        <5>2. CASE k # c
          <6>1. co'[k] = co[k] BY <1>3, <5>2 DEF Only
          <6>2. ~Idle(k) BY <4>2, <6>1 DEF Idle
          <6>3. co[k].st.gen <= state.gen /\ co[k].dir = state.dir BY <3>1, <6>2 DEF Views, Seen
          <6> QED BY <1>5, <2>1, <3>2, <6>1, <6>2, <6>3 DEF Seen
        <5> QED BY <5>1, <5>2
      <4>3. ASSUME NEW l \in Lane, lane'[l].pc # "idle", NEW p \in DOMAIN parts', p[1] = lane'[l].token
            PROVE  /\ Seen(lane[l])'
                   /\ \A k \in Coord : ~Idle(k)' /\ co'[k].st.gen = lane'[l].gen => co'[k].st.token = lane'[l].token
        <5>1. /\ Seen(lane[l])
              /\ \A k \in Coord : ~Idle(k) /\ co[k].st.gen = lane[l].gen => co[k].st.token = lane[l].token
          BY <1>2, <1>5, <3>1, <4>3 DEF Views
        <5>2. lane[l].gen < state'.gen /\ lane'[l] = lane[l] BY <1>2, <2>1, <3>3, <5>1 DEF Seen
        <5>3. co'[c].st.gen = state'.gen BY <1>5
        <5> QED BY <2>1, <3>3, <4>2, <5>1, <5>2, <5>3 DEF Seen
      <4> QED BY <4>1, <4>2, <4>3 DEF Views
    <3>5. Rolled'
      <4>1. \A p \in DOMAIN parts' : p[1] = state'.token => parts'[p].gen = state'.gen BY <2>3 DEF Held
      <4>2. state'.rolled < state'.gen BY <1>5, <2>1, <3>1 DEF Views
      <4>3. \A p \in DOMAIN parts' : p[1] = state'.token /\ Open(p)' => state'.rolled < parts'[p].gen
        BY <4>1, <4>2
      <4>4. ASSUME NEW k \in Coord, co'[k].pc \in {"close", "roll"}
            PROVE  \A p \in DOMAIN parts' : p[1] = co'[k].st.token => ~Open(p)'
        <5>1. co'[k] = co[k] BY <1>3, <1>5, <4>4 DEF Only
        <5> QED BY <1>5, <3>1, <4>4, <5>1 DEF Rolled, Open
      <4> QED BY <4>3, <4>4 DEF Rolled
    <3>6. Accounted' /\ Balance'
      <4>1. \A k \in Coord : SumsKept(k) BY <1>3, <1>5 DEF Only, SumsKept
      <4>2. /\ DOMAIN parts' = DOMAIN parts \ {}
            /\ \A p \in DOMAIN parts' : parts'[p].gen = parts[p].gen /\ parts'[p].migrated = parts[p].migrated
        BY <1>5
      <4>3. past'.work = past.work /\ past'.leaks = Leaks({}) BY <1>2, NothingDropped
      <4>4. state.gen <= state'.gen BY <2>1
      <4> QED BY <1>1, <1>2, <1>3, <1>5, <3>1, <4>1, <4>2, <4>3, <4>4, CountsKept
    <3> QED BY <3>4, <3>5, <3>6
  <2> QED BY <1>3, <2>5, <2>6, <2>8, <2>9 DEF IInv
<1> QED BY <1>3, <1>4, <1>5

\* The partitions of a new plan are of a plan that nobody knows, and count nothing.
LEMMA InsertKeeps ==
  ASSUME IInv, NEW c \in Coord, Insert(c)
  PROVE  IInv'
<1>1. Types /\ Names /\ OnlyPoison BY DEF IInv
<1>2. UNCHANGED <<doc, state, lane, op, deploy, past>> BY DEF Insert
<1>3. PICK t : t = used.plans + 1 OBVIOUS
<1>4. PICK N : /\ DOMAIN parts' = DOMAIN parts \cup N /\ N \cap DOMAIN parts = {}
               /\ \A p \in N : p[1] = t /\ NewPart(parts'[p], co[c].st.gen + 1)
               /\ \A p \in DOMAIN parts : parts'[p] = parts[p]
               /\ co'[c].empty => N = {}
  BY <1>1, <1>3, InsertStep
<1>5. /\ Types' /\ Only(c) /\ used'.plans = t /\ t \in Token
      /\ co[c].pc = "plan" /\ co'[c].pc = "commit" /\ co'[c].token = t
      /\ co'[c].st = co[c].st /\ co'[c].dir = co[c].dir /\ co'[c].sum = co[c].sum
  BY <1>1, <1>3, InsertStep
<1>6. used.plans \in Nat /\ t \in Nat /\ t # 0 BY <1>1, <1>3, <1>5, Bounds DEF Types, Token
<1>7. \A p \in N : /\ parts'[p].gen = co[c].st.gen + 1 /\ parts'[p].migrated = 0
                   /\ parts'[p].bad = {} /\ parts'[p].lease = None
  BY <1>4 DEF NewPart
<1>8. \A k \in Coord : k # c => co'[k] = co[k] BY <1>5 DEF Only
<1>9. \A k \in Coord : co'[k].st = co[k].st /\ co'[k].sum = co[k].sum /\ co'[k].dir = co[k].dir
  BY <1>5, <1>8
<1>10. ASSUME NEW v, Held(v), v.token \in Token \cup {0}
       PROVE  /\ v.token <= used'.plans
              /\ \A p \in DOMAIN parts' : p[1] = v.token => p \in DOMAIN parts /\ parts'[p].gen = v.gen
              /\ \A k \in Coord : co'[k].pc = "commit" => co'[k].token # v.token
  <2>1. v.token \in Nat /\ v.token <= used.plans BY <1>10, Bounds DEF Held, Token
  <2>2. v.token # t /\ v.token <= t BY <1>3, <1>6, <2>1
  <2>3. \A p \in DOMAIN parts' : p[1] = v.token => p \in DOMAIN parts /\ parts'[p].gen = v.gen
    BY <1>4, <1>10, <2>2 DEF Held
  <2>4. \A k \in Coord : co'[k].pc = "commit" => co'[k].token # v.token
    BY <1>5, <1>8, <1>10, <2>2 DEF Held
  <2> QED BY <1>5, <2>2, <2>3, <2>4
<1>11. /\ state.token \in Token \cup {0} /\ op.st.token \in Token \cup {0}
       /\ \A k \in Coord : co[k].st.token \in Token \cup {0}
       /\ \A l \in Lane : lane[l].token \in Token \cup {0}
  BY <1>1 DEF Types, StateDoc, CoordRec, LaneRec, OpRec
<1>12. /\ Held(state) /\ Held(op.st)
       /\ \A k \in Coord : Held(co[k].st)
       /\ \A l \in Lane : Held(lane[l])
  BY <1>1 DEF Names, Named
<1>13. Named'
  <2>1. \A p \in DOMAIN parts' : p[1] <= used'.plans
    <3>1. \A p \in DOMAIN parts : p[1] \in Nat /\ p[1] <= used.plans
      BY <1>1, Bounds DEF Types, PartsOK, Token, Names, Named
    <3> QED BY <1>3, <1>4, <1>5, <1>6, <3>1
  <2>2. Held(state)' /\ Held(op.st)' BY <1>2, <1>10, <1>11, <1>12 DEF Held
  <2>3. \A l \in Lane : Held(lane[l])' BY <1>2, <1>10, <1>11, <1>12 DEF Held
  <2>4. \A k \in Coord : Held(co[k].st)' BY <1>9, <1>10, <1>11, <1>12 DEF Held
  <2> QED BY <2>1, <2>2, <2>3, <2>4 DEF Named
<1>14. Uncommitted'
  <2>1. ASSUME NEW k \in Coord, k # c, co[k].pc = "commit" PROVE co[k].token # t
    <3>1. co[k].token <= used.plans BY <1>1, <2>1 DEF Names, Uncommitted
    <3> QED BY <1>3, <1>6, <3>1
  <2>2. ASSUME NEW k \in Coord, co'[k].pc = "commit"
        PROVE  /\ co'[k].token # 0 /\ co'[k].token <= used'.plans
               /\ \A j \in Coord : j # k /\ co'[j].pc = "commit" => co'[k].token # co'[j].token
               /\ \A p \in DOMAIN parts' : p[1] = co'[k].token =>
                    parts'[p].gen = co'[k].st.gen + 1 /\ parts'[p].migrated = 0 /\ ~co'[k].empty
    <3>1. CASE k = c
      <4>1. \A j \in Coord : j # k /\ co'[j].pc = "commit" => co'[k].token # co'[j].token
        BY <1>5, <1>8, <2>1, <3>1
      <4>2. ASSUME NEW p \in DOMAIN parts', p[1] = t
            PROVE  parts'[p].gen = co'[k].st.gen + 1 /\ parts'[p].migrated = 0 /\ ~co'[k].empty
        <5>1. p \notin DOMAIN parts BY <1>1, <1>3, <1>6, <4>2 DEF Names, Named
        <5> QED BY <1>4, <1>5, <1>7, <3>1, <4>2, <5>1
      <4> QED BY <1>5, <1>6, <3>1, <4>1, <4>2
    <3>2. CASE k # c
      <4>1. co'[k] = co[k] /\ co[k].pc = "commit" BY <1>8, <2>2, <3>2
      <4>2. co[k].token \in Nat /\ co[k].token <= used.plans
        BY <1>1, <4>1, Bounds DEF Names, Uncommitted, Types, CoordRec, Token
      <4>3. co[k].token # t /\ co[k].token <= used'.plans BY <1>3, <1>5, <1>6, <4>2
      <4>4. \A j \in Coord : j # k /\ co'[j].pc = "commit" => co'[k].token # co'[j].token
        BY <1>1, <1>5, <1>8, <4>1, <4>3 DEF Names, Uncommitted
      <4>5. \A p \in DOMAIN parts' : p[1] = co[k].token => p \in DOMAIN parts /\ parts'[p] = parts[p]
        BY <1>4, <4>3
      <4> QED BY <1>1, <4>1, <4>3, <4>4, <4>5 DEF Names, Uncommitted
    <3> QED BY <3>1, <3>2
  <2> QED BY <2>2 DEF Uncommitted
<1>15. InPlan'
  <2>1. ASSUME NEW k \in Coord, co'[k].pc = "tidy" /\ co'[k].empty
        PROVE  \A p \in DOMAIN parts' : p[1] # co'[k].st.token
    <3>1. co'[k] = co[k] BY <1>5, <1>8, <2>1
    <3>2. \A p \in DOMAIN parts' : p[1] = co[k].st.token => p \in DOMAIN parts BY <1>10, <1>11, <1>12
    <3> QED BY <1>1, <2>1, <3>1, <3>2 DEF Names, InPlan
  <2> QED BY <1>1, <1>2, <2>1 DEF Names, InPlan
<1>16. OnlyPoison'
  <2>1. \A p \in DOMAIN parts' : parts'[p].bad \subseteq Poison BY <1>1, <1>4, <1>7 DEF OnlyPoison
  <2>2. \A k \in Coord : co'[k].st.bad \subseteq co[k].st.bad /\ co'[k].sum.bad \subseteq Poison
    BY <1>1, <1>9 DEF OnlyPoison
  <2>3. state'.bad \subseteq Poison /\ \A l \in Lane : lane'[l].failed \subseteq Poison
    BY <1>1, <1>2 DEF OnlyPoison
  <2> QED BY <1>1, <1>5, <2>1, <2>2, <2>3, PoisonKept
<1>17. PastSteady({}) BY <1>2, PastStays
<1>18. Quiet'
  <2>1. LeasesKept BY <1>4, <1>7 DEF LeasesKept
  <2>2. \A l \in Lane : LaneStops(l) BY <1>2, StillSteady
  <2>3. StopsKept BY <1>2 DEF StopsKept
  <2> QED BY <1>5, <1>17, <2>1, <2>2, <2>3, SteadyQuiet
<1>19. ASSUME ~past'.crossed PROVE Views' /\ Rolled' /\ Accounted' /\ Balance'
  <2>1. Views /\ Rolled /\ Accounted /\ Balance BY <1>2, <1>19 DEF IInv
  <2>2. \A k \in Coord : ~Idle(k)' => ~Idle(k) BY <1>5, <1>8 DEF Idle
  <2>3. Views'
    <3>1. \A k \in Coord : ~Idle(k)' => Seen(co[k].st)' /\ co'[k].dir = state'.dir
      BY <1>2, <1>9, <2>1, <2>2 DEF Views, Seen
    <3>2. ASSUME NEW l \in Lane, lane'[l].pc # "idle", NEW p \in DOMAIN parts', p[1] = lane'[l].token
          PROVE  /\ Seen(lane[l])'
                 /\ \A k \in Coord : ~Idle(k)' /\ co'[k].st.gen = lane'[l].gen => co'[k].st.token = lane'[l].token
      <4>1. lane'[l] = lane[l] BY <1>2
      <4>2. p \in DOMAIN parts BY <1>10, <1>11, <1>12, <3>2, <4>1
      <4>3. /\ Seen(lane[l])
            /\ \A k \in Coord : ~Idle(k) /\ co[k].st.gen = lane[l].gen => co[k].st.token = lane[l].token
        BY <2>1, <3>2, <4>1, <4>2 DEF Views
      <4> QED BY <1>2, <1>9, <2>2, <4>1, <4>3 DEF Seen
    <3> QED BY <1>2, <2>1, <3>1, <3>2 DEF Views
  <2>4. Rolled'
    <3>1. \A p \in DOMAIN parts' : p[1] = state.token => p \in DOMAIN parts /\ parts'[p] = parts[p]
      BY <1>4, <1>10, <1>11, <1>12
    <3>2. \A p \in DOMAIN parts' : p[1] = state'.token /\ Open(p)' => state'.rolled < parts'[p].gen
      BY <1>2, <2>1, <3>1 DEF Rolled, Open
    <3>3. ASSUME NEW k \in Coord, co'[k].pc \in {"close", "roll"}, NEW p \in DOMAIN parts', p[1] = co'[k].st.token
          PROVE  ~Open(p)'
      <4>1. co'[k] = co[k] BY <1>5, <1>8, <3>3
      <4>2. p \in DOMAIN parts /\ parts'[p] = parts[p] BY <1>4, <1>10, <1>11, <1>12, <3>3, <4>1
      <4> QED BY <2>1, <3>3, <4>1, <4>2 DEF Rolled, Open
    <3> QED BY <3>2, <3>3 DEF Rolled
  <2>5. PICK D : D = DOMAIN parts OBVIOUS
  <2>6. ASSUME NEW X, X \subseteq D, NEW Y, Y \subseteq N PROVE Counted(X \cup Y)' = Counted(X)
    <3>1. \A p \in X : parts'[p].gen = parts[p].gen /\ parts'[p].migrated = parts[p].migrated
      BY <1>4, <2>5, <2>6
    <3>2. Counted(X)' = Counted(X) BY <3>1, CountsStay
    <3>3. \A p \in Y : {<<parts'[p].gen, p, n>> : n \in 1..parts'[p].migrated} = {} BY <1>7, <2>6
    <3>4. Counted(Y)' = {} BY <3>3 DEF Counted, Counts
    <3>5. Counted(X \cup Y)' = Counted(X)' \cup Counted(Y)' BY DEF Counted
    <3> QED BY <3>2, <3>4, <3>5
  <2>7. ASSUME NEW u \in past.work
        PROVE  u[2] \in DOMAIN parts' => u[2] \in D
    <3>1. u \in Count BY <1>1 DEF Types, History
    <3>2. u[2][1] \in Token /\ u[2][1] <= used.plans BY <2>1, <3>1 DEF Count, Accounted
    <3>3. u[2][1] # t BY <1>3, <1>6, <3>2
    <3> QED BY <1>4, <2>5, <3>3
  <2>8. Accounted'
    <3>1. past'.leaks \subseteq past'.work /\ IsFiniteSet(past'.work) BY <1>2, <2>1 DEF Accounted
    <3>2. Counted(DOMAIN parts)' \subseteq past'.work
      <4>1. Counted(D \cup N)' = Counted(D) BY <2>6
      <4>2. Counted(DOMAIN parts)' = Counted(D \cup N)' BY <1>4, <2>5 DEF Counted
      <4>3. Counted(D) \subseteq past.work BY <2>1, <2>5 DEF Accounted
      <4> QED BY <1>2, <4>1, <4>2, <4>3
    <3>3. ASSUME NEW u \in past'.work
          PROVE  /\ u[1] \in 1..state'.gen /\ u[2][1] <= used'.plans
                 /\ u[2] \in DOMAIN parts' => u \in Counted({u[2]})'
      <4>1. u \in past.work BY <1>2
      <4>2. u[1] \in 1..state'.gen BY <1>2, <2>1, <4>1 DEF Accounted
      <4>3. u \in Count BY <1>1, <4>1 DEF Types, History
      <4>4. u[2][1] \in Nat /\ u[2][1] <= used.plans
        <5>1. u[2][1] \in Token BY <4>3 DEF Count
        <5>2. u[2][1] \in Nat BY <5>1, Bounds DEF Token
        <5> QED BY <2>1, <4>1, <5>2 DEF Accounted
      <4>5. ASSUME u[2] \in DOMAIN parts' PROVE u \in Counted({u[2]})'
        <5>1. u[2] \in D BY <2>7, <4>1, <4>5
        <5>2. u \in Counted({u[2]}) BY <2>1, <2>5, <4>1, <5>1 DEF Accounted
        <5>3. PICK q : q = u[2] OBVIOUS
        <5>4. Counted({q} \cup {})' = Counted({q}) BY <2>6, <5>1, <5>3
        <5>5. {q} \cup {} = {q} OBVIOUS
        <5>6. Counted({q})' = Counted({q}) BY <5>4, <5>5
        <5> QED BY <5>2, <5>3, <5>6
      <4> QED BY <1>3, <1>5, <1>6, <4>2, <4>4, <4>5
    <3>4. ASSUME NEW u \in past'.leaks PROVE u[1] <= state'.rolled \/ u[2] \notin DOMAIN parts'
      <4>1. u \in past.leaks /\ u \in past.work BY <1>2, <2>1 DEF Accounted
      <4> QED BY <1>2, <2>1, <2>5, <2>7, <4>1 DEF Accounted
    <3> QED BY <3>1, <3>2, <3>3, <3>4 DEF Accounted
  <2>9. Balance'
    <3>1. PICK U : U = Unrolled OBVIOUS
    <3>2. PICK V : V = Unrolled' OBVIOUS
    <3>3. U \subseteq D /\ U = V \cap D /\ V \subseteq D \cup N
      BY <1>2, <1>4, <2>5, <3>1, <3>2 DEF Unrolled
    <3>4. PICK M : M = V \cap N OBVIOUS
    <3>5. V = U \cup M /\ M \subseteq N BY <3>3, <3>4
    <3>6. Counted(V)' = Counted(U) BY <2>6, <3>3, <3>5
    <3>7. Counters(Unrolled)' = Counters(Unrolled)
      <4>1. Counted(Unrolled)' = Counted(V)' BY <3>2 DEF Counted
      <4> QED BY <3>1, <3>6, <4>1 DEF Counters
    <3>8. Progress' = Progress BY <1>2, <3>7 DEF Progress
    <3>9. state'.total <= Cardinality(Older(state.rolled)') BY <1>2, <2>1 DEF Balance, Older
    <3>10. ASSUME NEW k \in Coord, co'[k].pc = "roll"
           PROVE  /\ co'[k].sum.migrated <= Cardinality(Of(co[k].st.gen)')
                  /\ state'.rolled < co'[k].st.gen => Counters(Generation(k))' <= co'[k].sum.migrated
      <4>1. co'[k] = co[k] BY <1>5, <1>8, <3>10
      <4>2. Of(co[k].st.gen)' = Of(co[k].st.gen) BY <1>2, <4>1 DEF Of
      <4>3. PICK G : G = Generation(k) OBVIOUS
      <4>4. PICK H : H = Generation(k)' OBVIOUS
      <4>5. G \subseteq D /\ G = H \cap D /\ H \subseteq D \cup N
        BY <1>4, <2>5, <4>1, <4>3, <4>4 DEF Generation
      <4>6. PICK W : W = H \cap N OBVIOUS
      <4>7. H = G \cup W /\ W \subseteq N BY <4>5, <4>6
      <4>8. Counted(H)' = Counted(G) BY <2>6, <4>5, <4>7
      <4>9. Counters(Generation(k))' = Counters(Generation(k))
        <5>1. Counted(Generation(k))' = Counted(H)' BY <4>4 DEF Counted
        <5> QED BY <4>3, <4>8, <5>1 DEF Counters
      <4> QED BY <1>2, <2>1, <3>10, <4>1, <4>2, <4>9 DEF Balance
    <3> QED BY <1>2, <2>1, <3>8, <3>9, <3>10 DEF Balance
  <2> QED BY <2>3, <2>4, <2>8, <2>9
<1> QED BY <1>5, <1>13, <1>14, <1>15, <1>16, <1>18, <1>19 DEF Names, IInv

-----------------------------------------------------------------------------
(* The lanes keep the invariant *)

LEMMA LaneKeeps ==
  ASSUME IInv, Types', NEW l \in Lane, OnlyLane(l), UNCHANGED <<co, op, deploy>>,
         used'.plans = used.plans, StateKept, StatusKept,
         PartsSteady({}), NoneReopened, LeasesKept, PastSteady({}), PastKept,
         LaneSteady(l), LaneStops(l)
  PROVE  IInv'
<1>1. \A k \in Lane : LaneSteady(k) /\ LaneStops(k) BY StillSteady DEF OnlyLane
<1>2. (\A k \in Coord : CoSteady(k)) /\ OpMoves BY StillSteady
<1>3. StopsKept BY DEF StopsKept, StatusKept, PastKept
<1> QED BY <1>1, <1>2, <1>3, CalmKeeps

\* A partition is freed, or none is.
LEMMA LaneLeaves ==
  ASSUME IInv, Types', NEW l \in Lane, OnlyLane(l), UNCHANGED <<state, co, op, deploy>>,
         past'.work = past.work, past'.leaks = past.leaks, past'.crossed = past.crossed,
         past'.stalled = past.stalled, past'.resumed = past.resumed,
         used'.plans = used.plans, UNCHANGED parts \/ Frees(At(l)), LaneSteady(l), LaneStops(l)
  PROVE  IInv'
<1>1. PartsSteady({}) /\ NoneReopened /\ LeasesKept BY PartsStay, PartFreed
<1>2. PastSteady({}) /\ PastKept BY PastStays DEF PastKept
<1>3. StateKept /\ StatusKept BY StateStays
<1> QED BY <1>1, <1>2, <1>3, LaneKeeps

LEMMA LaneFrees ==
  ASSUME IInv, Types', NEW l \in Lane, OnlyLane(l), UNCHANGED <<state, co, op, deploy, past>>,
         used'.plans = used.plans, UNCHANGED parts \/ Frees(At(l)), LaneSteady(l), LaneStops(l)
  PROVE  IInv'
BY LaneLeaves

\* A lane goes on with its partition, or is done.
LEMMA LaneGoesOn ==
  ASSUME IInv, NEW l \in Lane, AtWork(l),
         \/ lane'[l] = NoLane
         \/ /\ lane'[l].pc \in {"control", "write", "save", "budget", "fail"} /\ SamePart(l)
            /\ lane'[l].failed \subseteq Poison
            /\ Writing(l)' => Writing(l) \/ state.status = "running"
  PROVE  LaneSteady(l) /\ LaneStops(l)
<1>1. CASE lane'[l] = NoLane BY <1>1, StillSteady
<1>2. CASE /\ lane'[l].pc \in {"control", "write", "save", "budget", "fail"} /\ SamePart(l)
           /\ lane'[l].failed \subseteq Poison
           /\ Writing(l)' => Writing(l) \/ state.status = "running"
  BY <1>2 DEF LaneSteady, LaneMoves, LaneStops, SamePart, AtWork
<1> QED BY <1>1, <1>2

LEMMA SliceKeeps ==
  ASSUME IInv, NEW l \in Lane, Slice(l)
  PROVE  IInv'
<1>1. Types BY DEF IInv
<1>2. UNCHANGED <<doc, state, parts, co, op, deploy, used, past>> BY DEF Slice
<1>3. /\ Types' /\ OnlyLane(l)
      /\ lane'[l].pc = "claim" /\ lane'[l].gen = state.gen /\ lane'[l].token = state.token
      /\ lane'[l].failed = {}
  BY <1>1, SliceStep
<1>4. LaneSteady(l) /\ LaneStops(l) BY <1>3 DEF LaneSteady, LaneMoves, LaneStops, AtWork
<1> QED BY <1>2, <1>3, <1>4, LaneFrees

LEMMA ControlKeeps ==
  ASSUME IInv, NEW l \in Lane, Control(l)
  PROVE  IInv'
<1>1. Types BY DEF IInv
<1>2. UNCHANGED <<doc, state, co, op, deploy, used, past>> BY DEF Control
<1>3. /\ Types' /\ OnlyLane(l) /\ lane[l].pc = "control"
      /\ \/ /\ state.status = "running" /\ UNCHANGED parts
            /\ lane'[l].pc = "write" /\ SamePart(l) /\ lane'[l].failed = lane[l].failed
         \/ lane'[l] = NoLane /\ (UNCHANGED parts \/ Frees(At(l)))
  BY <1>1, ControlStep
<1>4. AtWork(l) /\ lane[l].failed \subseteq Poison BY <1>3 DEF AtWork, IInv, OnlyPoison
<1>5. LaneSteady(l) /\ LaneStops(l) BY <1>3, <1>4, LaneGoesOn
<1> QED BY <1>2, <1>3, <1>5, LaneFrees

LEMMA YieldKeeps ==
  ASSUME IInv, NEW l \in Lane, Yield(l)
  PROVE  IInv'
<1>1. Types BY DEF IInv
<1>2. UNCHANGED <<doc, state, co, op, deploy, past>> BY DEF Yield
<1>3. /\ Types' /\ OnlyLane(l) /\ used'.plans = used.plans
      /\ lane'[l] = NoLane /\ (UNCHANGED parts \/ Frees(At(l)))
  BY <1>1, YieldStep
<1> QED BY <1>2, <1>3, StillSteady, LaneFrees

LEMMA BudgetKeeps ==
  ASSUME IInv, NEW l \in Lane, Budget(l)
  PROVE  IInv'
<1>1. Types BY DEF IInv
<1>2. UNCHANGED <<doc, state, co, op, deploy, used, past>> BY DEF Budget
<1>3. /\ Types' /\ OnlyLane(l) /\ lane[l].pc = "budget"
      /\ UNCHANGED parts \/ Frees(At(l))
      /\ \/ lane'[l] = NoLane
         \/ lane'[l].pc \in {"fail", "control"} /\ SamePart(l) /\ lane'[l].failed = lane[l].failed
  BY <1>1, BudgetStep
<1>4. AtWork(l) /\ lane[l].failed \subseteq Poison BY <1>3 DEF AtWork, IInv, OnlyPoison
<1>5. LaneSteady(l) /\ LaneStops(l) BY <1>3, <1>4, LaneGoesOn DEF Writing
<1> QED BY <1>2, <1>3, <1>5, LaneFrees

LEMMA SliceFailsKeeps ==
  ASSUME IInv, NEW l \in Lane, NEW s \in {"running", "failed"}, SliceFails(l, s)
  PROVE  IInv'
<1>1. Types BY DEF IInv
<1>2. UNCHANGED <<doc, state, co, op, deploy>> BY DEF SliceFails
<1>3. /\ Types' /\ OnlyLane(l) /\ lane'[l] = NoLane /\ Frees(At(l)) /\ used'.plans = used.plans
      /\ SameHistory /\ SameCrossings /\ past'.crossed = past.crossed
  BY <1>1, SliceFailsStep
<1>4. /\ past'.work = past.work /\ past'.leaks = past.leaks /\ past'.crossed = past.crossed
      /\ past'.stalled = past.stalled /\ past'.resumed = past.resumed
  BY <1>3 DEF SameHistory, SameCrossings
<1> QED BY <1>2, <1>3, <1>4, StillSteady, LaneLeaves

LEMMA LaneCrashKeeps ==
  ASSUME IInv, NEW l \in Lane, LaneCrash(l)
  PROVE  IInv'
<1>1. Types BY DEF IInv
<1>2. UNCHANGED <<doc, state, parts, co, op, deploy>> BY DEF LaneCrash
<1>3. /\ Types' /\ OnlyLane(l) /\ lane'[l] = NoLane /\ used'.plans = used.plans
      /\ SameHistory /\ SameCrossings /\ past'.crossed = past.crossed
  BY <1>1, LaneCrashStep
<1>4. /\ past'.work = past.work /\ past'.leaks = past.leaks /\ past'.crossed = past.crossed
      /\ past'.stalled = past.stalled /\ past'.resumed = past.resumed
  BY <1>3 DEF SameHistory, SameCrossings
<1> QED BY <1>2, <1>3, <1>4, StillSteady, LaneLeaves

LEMMA LaneFailsKeeps ==
  ASSUME IInv, NEW l \in Lane, LaneFails(l)
  PROVE  IInv'
<1>1. Types BY DEF IInv
<1>2. UNCHANGED <<doc, parts, co, op, deploy, used, past>> BY DEF LaneFails
<1>3. /\ Types' /\ OnlyLane(l) /\ lane'[l] = NoLane /\ SamePlan
      /\ \/ state'.status = state.status
         \/ state.status \in {"blocked", "pending", "running"} /\ state'.status = "failed"
  BY <1>1, LaneFailsStep
<1>4. StateKept /\ StatusKept BY <1>3, StateStays DEF StatusKept, Active
<1>5. PartsSteady({}) /\ NoneReopened /\ LeasesKept BY <1>2, PartsStay
<1>6. PastSteady({}) /\ PastKept BY <1>2, PastStays DEF PastKept
<1> QED BY <1>2, <1>3, <1>4, <1>5, <1>6, StillSteady, LaneKeeps

\* What is claimed has a lease that stands.
LEMMA ClaimKeeps ==
  ASSUME IInv, NEW l \in Lane, Claim(l)
  PROVE  IInv'
<1>1. Types /\ Quiet BY DEF IInv
<1>2. UNCHANGED <<doc, state, co, op, deploy, used, past>> BY DEF Claim
<1>3. Types' /\ OnlyLane(l) /\ lane[l].pc = "claim" /\ SameCounts BY <1>1, ClaimStep
<1>4. PastSteady({}) /\ PastKept BY <1>2, PastStays DEF PastKept
<1>5. StateKept /\ StatusKept BY <1>2, StateStays
<1>6. CASE parts' = Reaped /\ lane'[l] = NoLane
  <2>1. PartsSteady({}) /\ NoneReopened /\ LeasesKept BY <1>1, <1>6, PartsReaped
  <2> QED BY <1>2, <1>3, <1>4, <1>5, <1>6, <2>1, StillSteady, LaneKeeps
<1>7. ASSUME NEW p \in DOMAIN parts,
             p[1] = lane[l].token, Open(p),
             parts'[p].status = "running", parts'[p].lease = l, parts'[p].live,
             \A q \in DOMAIN parts : q # p => parts'[q] = Reaped[q],
             lane'[l].pc = "control", lane'[l].part = p, lane'[l].gen = lane[l].gen,
             lane'[l].token = lane[l].token, lane'[l].failed = lane[l].failed
      PROVE  IInv'
  <2>1. DOMAIN parts' = DOMAIN parts BY <1>3 DEF SameCounts
  <2>2. PartsSteady({}) BY <1>3 DEF SameCounts, PartsSteady
  <2>3. \A q \in DOMAIN parts : q # p =>
          /\ parts'[q].status = parts[q].status /\ parts'[q].live = parts[q].live
          /\ parts'[q].lease = None \/ parts'[q].lease = parts[q].lease
    BY <1>1, <1>7, ReapedFacts DEF Types
  <2>4. NoneReopened BY <1>7, <2>1, <2>3 DEF NoneReopened, Open
  <2>5. lane[l].failed \subseteq Poison BY DEF IInv, OnlyPoison
  <2>6. LaneSteady(l) BY <1>3, <1>7, <2>5 DEF LaneSteady, LaneMoves
  <2>7. \A k \in Lane : k # l => lane'[k] = lane[k] BY <1>3 DEF OnlyLane
  <2>8. \A k \in Lane : LaneSteady(k) BY <2>6, <2>7, StillSteady
  <2>9. (\A k \in Coord : CoSteady(k)) /\ OpMoves BY <1>2, StillSteady
  <2>10. /\ Names' /\ OnlyPoison'
         /\ ~past'.crossed => Accounted' /\ Balance' /\ Views' /\ Rolled'
    BY <1>2, <1>3, <1>4, <1>5, <2>2, <2>4, <2>8, <2>9, SteadyKeeps
  <2>11. ASSUME NEW k \in Lane, k # l, Holds(k)'
         PROVE  Holds(k) /\ lane'[k] = lane[k] /\ parts'[At(k)].live = parts[At(k)].live
    <3>1. lane'[k] = lane[k] BY <2>7, <2>11
    <3>2. PICK q : q = lane[k].part OBVIOUS
    <3>3. q \in DOMAIN parts' /\ parts'[q].lease = k BY <2>11, <3>1, <3>2 DEF Holds, At
    <3>4. q # p /\ k # None BY <1>7, <2>11, <3>3, NoneAssumption
    <3> QED BY <2>1, <2>3, <3>1, <3>2, <3>3, <3>4 DEF Holds, At
  <2>12. Quiet'
    <3>1. ASSUME ~past'.stalled, NEW k \in Lane, AtWork(k)', Holds(k)' PROVE parts'[lane'[k].part].live
      <4>1. CASE k = l BY <1>7, <4>1
      <4>2. CASE k # l BY <1>1, <1>2, <2>11, <3>1, <4>2 DEF Quiet, AtWork, At
      <4> QED BY <4>1, <4>2
    <3>2. \A k \in Lane : Writing(k)' /\ Holds(k)' => Writing(k) /\ Holds(k)
      BY <1>7, <2>11 DEF Writing
    <3> QED BY <1>1, <1>2, <3>1, <3>2 DEF Quiet, At
  <2> QED BY <1>3, <2>10, <2>12 DEF IInv
<1> QED BY <1>1, <1>6, <1>7, ClaimStep

\* A lease that expires under a lane that goes on is history's to tell.
LEMMA ExpireKeeps ==
  ASSUME IInv, NEW p \in DOMAIN parts, Expire(p)
  PROVE  IInv'
<1>1. Types /\ Quiet BY DEF IInv
<1>2. UNCHANGED <<doc, state, co, lane, op, deploy>> BY DEF Expire
<1>3. /\ Types' /\ SameCounts /\ used'.plans = used.plans
      /\ parts[p].lease # None /\ parts'[p].status = parts[p].status
      /\ parts'[p].lease = parts[p].lease
      /\ \A q \in DOMAIN parts : q # p => parts'[q] = parts[q]
      /\ past'.crossed = past.crossed /\ past'.resumed = past.resumed /\ past'.late = past.late
      /\ past'.work = past.work /\ past'.leaks = past.leaks
      /\ \/ past'.stalled
         \/ past'.stalled = past.stalled /\ Abandoned(p)
  BY <1>1, ExpireStep
<1>4. PastSteady({}) BY <1>3, PastStays
<1>5. StateKept BY <1>2, StateStays
<1>6. DOMAIN parts' = DOMAIN parts /\ PartsSteady({}) BY <1>3 DEF SameCounts, PartsSteady
<1>7. NoneReopened BY <1>3, <1>6 DEF NoneReopened, Open
<1>8. (\A k \in Coord : CoSteady(k)) /\ (\A k \in Lane : LaneSteady(k)) /\ OpMoves BY <1>2, StillSteady
<1>9. /\ Names' /\ OnlyPoison'
      /\ ~past'.crossed => Accounted' /\ Balance' /\ Views' /\ Rolled'
  BY <1>3, <1>4, <1>5, <1>6, <1>7, <1>8, SteadyKeeps
<1>10. \A k \in Lane : Holds(k)' => Holds(k) BY <1>2, <1>3, <1>6 DEF Holds, At
<1>11. Quiet'
  <2>1. ASSUME ~past'.stalled, NEW k \in Lane, AtWork(k)', Holds(k)' PROVE parts'[lane'[k].part].live
    <3>1. ~past.stalled /\ Abandoned(p) BY <1>3, <2>1
    <3>2. PICK q : q = lane[k].part OBVIOUS
    <3>3. q \in DOMAIN parts /\ parts[q].lease = k /\ parts[q].live
      BY <1>1, <1>2, <1>10, <2>1, <3>1, <3>2 DEF Quiet, AtWork, Holds, At
    <3>4. q # p BY <3>1, <3>2, <3>3 DEF Abandoned
    <3> QED BY <1>2, <1>3, <3>2, <3>3, <3>4
  <2>2. past.stalled => past'.stalled BY <1>3
  <2>3. \A k \in Lane : Writing(k)' = Writing(k) BY <1>2 DEF Writing
  <2> QED BY <1>1, <1>2, <1>3, <1>10, <2>1, <2>2, <2>3 DEF Quiet, At
<1> QED BY <1>3, <1>9, <1>11 DEF IInv

LEMMA BatchKeeps ==
  ASSUME IInv, NEW l \in Lane, NEW all \in BOOLEAN, Batch(l, all)
  PROVE  IInv'
<1>1. Types /\ Quiet BY DEF IInv
<1>2. UNCHANGED <<state, parts, co, op, deploy, used>> BY DEF Batch
<1>4. /\ Types' /\ OnlyLane(l) /\ lane[l].pc = "write"
      /\ lane'[l].pc = "save" /\ SamePart(l) /\ lane'[l].failed \subseteq Poison
      /\ past'.crossed = past.crossed /\ past'.resumed = past.resumed /\ past'.stalled = past.stalled
      /\ past'.work = past.work /\ past'.leaks = past.leaks
  BY <1>1, BatchStep
<1>5. LaneSteady(l) /\ LaneStops(l)
  <2>1. AtWork(l) /\ Writing(l) BY <1>4 DEF AtWork, Writing
  <2> QED BY <1>4, <2>1, LaneGoesOn
<1>6. \A k \in Lane : LaneSteady(k) /\ LaneStops(k) BY <1>4, <1>5, StillSteady DEF OnlyLane
<1>7. PastSteady({}) BY <1>4, PastStays
<1>8. PartsSteady({}) /\ NoneReopened /\ LeasesKept /\ StateKept BY <1>2, PartsStay, StateStays
<1>9. (\A k \in Coord : CoSteady(k)) /\ OpMoves BY <1>2, StillSteady
<1>10. /\ Names' /\ OnlyPoison'
       /\ ~past'.crossed => Accounted' /\ Balance' /\ Views' /\ Rolled'
  BY <1>2, <1>4, <1>6, <1>7, <1>8, <1>9, SteadyKeeps
<1>11. Quiet'
  <2>1. StopsKept BY <1>2, <1>4 DEF StopsKept
  <2> QED BY <1>4, <1>6, <1>7, <1>8, <2>1, SteadyQuiet
<1> QED BY <1>4, <1>10, <1>11 DEF IInv

\* A checkpoint counts what nobody counted before, in a generation that is still to
\* be rolled up or else is left behind.
LEMMA SaveCounts ==
  ASSUME Types, Types', Names, Views, Rolled, Accounted, Balance, NEW l \in Lane, lane[l].pc = "save",
         UNCHANGED <<state, co>>, used'.plans = used.plans,
         NEW p \in DOMAIN parts, p = At(l), parts[p].status = "running",
         DOMAIN parts' = DOMAIN parts, \A q \in DOMAIN parts : q # p => parts'[q] = parts[q],
         parts'[p].gen = parts[p].gen, NEW n \in Nat, parts'[p].migrated = parts[p].migrated + n,
         past'.work = past.work \cup Counts(p, parts[p].migrated + 1, parts[p].migrated + n),
         past'.leaks = IF parts[p].gen <= state.rolled /\ p[1] # state.token
                         THEN past.leaks \cup Counts(p, parts[p].migrated + 1, parts[p].migrated + n)
                         ELSE past.leaks
  PROVE  Accounted' /\ Balance'
<1>1. PICK D : D = DOMAIN parts OBVIOUS
<1>2. PICK m : m = parts[p].migrated OBVIOUS
<1>3. PICK g : g = parts[p].gen OBVIOUS
<1>4. PICK C : C = Counts(p, m + 1, m + n) OBVIOUS
<1>5. m \in Nat /\ g \in Nat /\ g >= 1 BY <1>2, <1>3 DEF Types, PartsOK, PartOK, Partition
<1>6. IsFiniteSet(C) /\ Cardinality(C) = n
  <2>1. IsFiniteSet(Counts(p, m + 1, m + n)) /\ Cardinality(Counts(p, m + 1, m + n)) = n
    <3>1. m \in Nat /\ n \in Nat BY <1>5
    <3> QED BY ONLY <3>1, CountsNumber, Zenon
  <2> QED BY <1>4, <2>1
<1>7. \A u : u \in C <=> \E k \in (m + 1)..(m + n) : u = <<g, p, k>> BY <1>3, <1>4 DEF Counts
<1>8. p[1] = lane[l].token /\ p[1] <= used.plans BY <1>1 DEF Names, Named, InPlan, At
<1>9. /\ g = lane[l].gen /\ Seen(lane[l])
      /\ \A c \in Coord : ~Idle(c) /\ co[c].st.gen = lane[l].gen => co[c].st.token = lane[l].token
  BY <1>3, <1>8 DEF Names, Named, Held, Views
<1>10. state.gen \in Nat /\ state.rolled \in Nat /\ state.total \in Nat /\ g <= state.gen
  BY <1>9 DEF Types, StateDoc, Seen
<1>11. \A X : p \notin X /\ X \subseteq D => Counted(X)' = Counted(X)
  <2>1. SUFFICES ASSUME NEW X, p \notin X, X \subseteq D PROVE Counted(X)' = Counted(X) OBVIOUS
  <2>2. \A q \in X : parts'[q].gen = parts[q].gen /\ parts'[q].migrated = parts[q].migrated BY <1>1, <2>1
  <2> QED BY <2>2, CountsStay
<1>12. Counted({p})' = Counted({p}) \cup C
  <2>1. {<<g, p, k>> : k \in 1..(m + n)} = {<<g, p, k>> : k \in 1..m} \cup {<<g, p, k>> : k \in (m + 1)..(m + n)}
    <3>1. 1..(m + n) = (1..m) \cup ((m + 1)..(m + n)) BY <1>5
    <3> QED BY <3>1
  <2>2. Counted({p})' = {<<g, p, k>> : k \in 1..(m + n)} BY <1>2, <1>3 DEF Counted, Counts
  <2>3. Counted({p}) = {<<g, p, k>> : k \in 1..m} BY <1>2, <1>3 DEF Counted, Counts
  <2>4. C = {<<g, p, k>> : k \in (m + 1)..(m + n)} BY <1>3, <1>4 DEF Counts
  <2> QED BY <2>1, <2>2, <2>3, <2>4
<1>13. ASSUME NEW X, X \subseteq D, p \in X PROVE Counted(X)' = Counted(X) \cup C
  <2>1. PICK Y : Y = X \ {p} OBVIOUS
  <2>2. X = Y \cup {p} /\ p \notin Y /\ Y \subseteq D BY <1>13, <2>1
  <2>3. Counted(Y)' = Counted(Y) BY <1>11, <2>2
  <2>4. Counted(Y \cup {p}) = Counted(Y) \cup Counted({p}) BY CountedSets
  <2>5. Counted(Y \cup {p})' = Counted(Y)' \cup Counted({p})' BY DEF Counted
  <2>6. Counted(X)' = Counted(Y \cup {p})' BY <2>2
  <2> QED BY <1>12, <2>2, <2>3, <2>4, <2>5, <2>6
<1>14. past.work \cap C = {}
  <2>1. SUFFICES ASSUME NEW u \in past.work, u \in C PROVE FALSE OBVIOUS
  <2>2. PICK k \in (m + 1)..(m + n) : u = <<g, p, k>> BY <1>7, <2>1
  <2>3. u \in Counted({p}) BY <2>1, <2>2 DEF Accounted
  <2>4. PICK j \in 1..m : u = <<g, p, j>> BY <1>2, <1>3, <2>3 DEF Counted, Counts
  <2> QED BY <1>5, <2>2, <2>4
<1>15. past'.work = past.work \cup C BY <1>2, <1>4
<1>16. IF g <= state.rolled /\ p[1] # state.token THEN past'.leaks = past.leaks \cup C
                                                  ELSE past'.leaks = past.leaks
  BY <1>2, <1>3, <1>4
<1>17. /\ IsFiniteSet(past.work) /\ Cardinality(past.work) \in Nat
       /\ IsFiniteSet(past.leaks) /\ Cardinality(past.leaks) \in Nat
       /\ past.leaks \subseteq past.work
  BY WorkFinite DEF Accounted
<1>18. IsFiniteSet(past'.work) /\ Cardinality(past'.work) = Cardinality(past.work) + n
  <2>1. /\ IsFiniteSet(past.work \cup C)
        /\ Cardinality(past.work \cup C) = Cardinality(past.work) + Cardinality(C)
    BY <1>6, <1>14, <1>17, DisjointCardinality
  <2> QED BY <1>6, <1>15, <2>1
<1>19. Accounted'
  <2>1. past'.leaks \subseteq past'.work BY <1>15, <1>16, <1>17
  <2>2. Counted(DOMAIN parts)' \subseteq past'.work
    <3>1. Counted(D)' = Counted(D) \cup C BY <1>1, <1>13
    <3>2. Counted(DOMAIN parts)' = Counted(D)' BY <1>1 DEF Counted
    <3> QED BY <1>1, <1>15, <3>1, <3>2 DEF Accounted
  <2>3. ASSUME NEW u \in past'.work
        PROVE  /\ u[1] \in 1..state'.gen /\ u[2][1] <= used'.plans
               /\ u[2] \in DOMAIN parts' => u \in Counted({u[2]})'
    <3>1. CASE u \in past.work
      <4>1. u[1] \in 1..state'.gen /\ u[2][1] <= used'.plans BY <3>1 DEF Accounted
      <4>2. ASSUME u[2] \in D PROVE u \in Counted({u[2]})'
        <5>1. PICK q : q = u[2] OBVIOUS
        <5>2. u \in Counted({q}) BY <1>1, <3>1, <4>2, <5>1 DEF Accounted
        <5>3. CASE q = p BY <1>12, <5>1, <5>2, <5>3
        <5>4. CASE q # p
          <6>1. p \notin {q} /\ {q} \subseteq D BY <4>2, <5>1, <5>4
          <6>2. Counted({q})' = Counted({q}) BY <1>11, <6>1
          <6> QED BY <5>1, <5>2, <6>2
        <5> QED BY <5>3, <5>4
      <4> QED BY <1>1, <4>1, <4>2
    <3>2. CASE u \in C
      <4>1. PICK k \in (m + 1)..(m + n) : u = <<g, p, k>> BY <1>7, <3>2
      <4>2. u[1] = g /\ u[2] = p BY <4>1
      <4>3. g \in 1..state'.gen BY <1>5, <1>10
      <4>4. u \in Counted({p})' BY <1>12, <3>2
      <4> QED BY <1>8, <4>2, <4>3, <4>4
    <3> QED BY <1>15, <3>1, <3>2
  <2>4. ASSUME NEW u \in past'.leaks PROVE u[1] <= state'.rolled \/ u[2] \notin DOMAIN parts'
    <3>1. CASE u \in past.leaks BY <3>1 DEF Accounted
    <3>2. CASE u \notin past.leaks
      <4>1. g <= state.rolled /\ u \in C BY <1>16, <3>2
      <4>2. u[1] = g BY <1>7, <4>1
      <4> QED BY <4>1, <4>2
    <3> QED BY <3>1, <3>2
  <2> QED BY <1>18, <2>1, <2>2, <2>3, <2>4 DEF Accounted
<1>20. \A h : Older(h) \subseteq Older(h)' /\ Of(h) \subseteq Of(h)' BY <1>15 DEF Older, Of
<1>21. \A h : /\ IsFiniteSet(Older(h)') /\ Cardinality(Older(h)') \in Nat
              /\ IsFiniteSet(Of(h)') /\ Cardinality(Of(h)') \in Nat
  <2>1. SUFFICES ASSUME NEW h
                 PROVE  /\ IsFiniteSet(Older(h)') /\ Cardinality(Older(h)') \in Nat
                        /\ IsFiniteSet(Of(h)') /\ Cardinality(Of(h)') \in Nat
    OBVIOUS
  <2>2. Older(h)' \subseteq past'.work /\ Of(h)' \subseteq past'.work BY DEF Older, Of
  <2> QED BY <1>18, <2>2, FS_Subset, FS_CardinalityType
<1>22. \A h : Cardinality(Older(h)) <= Cardinality(Older(h)') /\ Cardinality(Of(h)) <= Cardinality(Of(h)')
  BY <1>20, <1>21, FS_Subset
<1>23. \A h : Cardinality(Older(h)) \in Nat /\ Cardinality(Of(h)) \in Nat BY WorkFinite
<1>24. state'.total <= Cardinality(Older(state.rolled)')
  <2>1. state.total <= Cardinality(Older(state.rolled)) BY DEF Balance
  <2>2. PICK r : r = state.rolled OBVIOUS
  <2>3. Older(state.rolled)' = Older(r)' BY <2>2 DEF Older
  <2> QED BY <1>10, <1>21, <1>22, <1>23, <2>1, <2>2, <2>3
<1>25. PICK U : U = Unrolled OBVIOUS
<1>26. U \subseteq D /\ Unrolled' = U /\ (p \in U <=> g > state.rolled)
  BY <1>1, <1>3, <1>25 DEF Unrolled
<1>27. /\ Counters(U) \in Nat /\ IsFiniteSet(Counted(U)) /\ Counters(U) = Cardinality(Counted(U))
       /\ Counted(U) \subseteq past.work
  <2>1. Counted(U) \subseteq Counted(D) BY <1>26, CountedSets
  <2> QED BY <1>1, <1>26, <2>1, CountedParts DEF Accounted
<1>28. Counters(Unrolled)' = Cardinality(Counted(U)')
  <2>1. Counted(Unrolled)' = Counted(U)' BY <1>26 DEF Counted
  <2> QED BY <2>1 DEF Counters
<1>29. Cardinality(past.work) <= state.total + Counters(U) + Cardinality(past.leaks)
  BY <1>25 DEF Balance, Progress
<1>30. Cardinality(past'.work) <= Progress' + Cardinality(past'.leaks)
  <2>1. CASE g > state.rolled
    <3>1. Counted(U)' = Counted(U) \cup C BY <1>13, <1>26, <2>1
    <3>2. Counted(U) \cap C = {} BY <1>14, <1>27
    <3>3. Cardinality(Counted(U) \cup C) = Counters(U) + n
      <4>1. Cardinality(Counted(U) \cup C) = Cardinality(Counted(U)) + Cardinality(C)
        BY <1>6, <1>27, <3>2, DisjointCardinality
      <4> QED BY <1>6, <1>27, <4>1
    <3>4. past'.leaks = past.leaks BY <1>5, <1>10, <1>16, <2>1
    <3>5. Progress' = state.total + (Counters(U) + n) BY <1>28, <3>1, <3>3 DEF Progress
    <3> QED BY <1>10, <1>17, <1>18, <1>27, <1>29, <3>4, <3>5
  <2>2. CASE g <= state.rolled
    <3>1. p \notin U BY <1>5, <1>10, <1>26, <2>2
    <3>2. Counted(U)' = Counted(U) BY <1>11, <1>26, <3>1
    <3>3. p[1] # state.token
      <4>1. Open(p) BY DEF Open, OpenPartition
      <4>2. p[1] = state.token => state.rolled < g BY <1>3, <4>1 DEF Rolled
      <4> QED BY <1>5, <1>10, <2>2, <4>2
    <3>4. past'.leaks = past.leaks \cup C BY <1>16, <2>2, <3>3
    <3>5. past.leaks \cap C = {} BY <1>14, <1>17
    <3>6. Cardinality(past'.leaks) = Cardinality(past.leaks) + n
      <4>1. Cardinality(past.leaks \cup C) = Cardinality(past.leaks) + Cardinality(C)
        BY <1>6, <1>17, <3>5, DisjointCardinality
      <4> QED BY <1>6, <3>4, <4>1
    <3>7. Progress' = state.total + Counters(U) BY <1>27, <1>28, <3>2 DEF Progress
    <3> QED BY <1>10, <1>17, <1>18, <1>27, <1>29, <3>6, <3>7
  <2> QED BY <1>5, <1>10, <2>1, <2>2
<1>31. ASSUME NEW k \in Coord, co'[k].pc = "roll"
       PROVE  /\ co'[k].sum.migrated <= Cardinality(Of(co[k].st.gen)')
              /\ state'.rolled < co'[k].st.gen => Counters(Generation(k))' <= co'[k].sum.migrated
  <2>1. PICK h : h = co[k].st.gen OBVIOUS
  <2>2. /\ co[k].sum.migrated <= Cardinality(Of(h))
        /\ state.rolled < h => Counters(Generation(k)) <= co[k].sum.migrated
    BY <1>31, <2>1 DEF Balance
  <2>3. co[k].sum.migrated \in Nat BY DEF Types, CoordRec, SumRec
  <2>4. Of(co[k].st.gen)' = Of(h)' BY <2>1 DEF Of
  <2>5. co'[k].sum.migrated <= Cardinality(Of(co[k].st.gen)')
    BY <1>21, <1>22, <1>23, <2>2, <2>3, <2>4
  <2>6. PICK G : G = Generation(k) OBVIOUS
  <2>7. G \subseteq D /\ Generation(k)' = G BY <1>1, <2>6 DEF Generation
  <2>8. p \notin G
    <3>1. SUFFICES ASSUME p \in G PROVE FALSE OBVIOUS
    <3>2. co[k].st.gen = lane[l].gen BY <1>3, <1>9, <2>6, <3>1 DEF Generation
    <3>3. ~Idle(k) BY <1>31 DEF Idle
    <3>4. p[1] = co[k].st.token BY <1>8, <1>9, <3>2, <3>3
    <3>5. ~Open(p) BY <1>31, <3>4 DEF Rolled
    <3> QED BY <3>5 DEF Open, OpenPartition
  <2>9. Counted(G)' = Counted(G) BY <1>11, <2>7, <2>8
  <2>10. Counters(Generation(k))' = Counters(Generation(k))
    <3>1. Counted(Generation(k))' = Counted(G)' BY <2>7 DEF Counted
    <3> QED BY <2>6, <2>9, <3>1 DEF Counters
  <2> QED BY <2>1, <2>2, <2>5, <2>10
<1>32. Balance' BY <1>24, <1>30, <1>31 DEF Balance
<1> QED BY <1>19, <1>32

LEMMA SaveKeeps ==
  ASSUME IInv, NEW l \in Lane, Save(l)
  PROVE  IInv'
<1>1. Types /\ Names /\ OnlyPoison /\ Quiet BY DEF IInv
<1>2. UNCHANGED <<doc, state, co, op, deploy, used>> BY DEF Save
<1>3. /\ Types' /\ OnlyLane(l) /\ lane[l].pc = "save"
      /\ past'.crossed = past.crossed /\ past'.resumed = past.resumed /\ past'.stalled = past.stalled
  BY <1>1, SaveStep
<1>4. AtWork(l) /\ Writing(l) BY <1>3 DEF AtWork, Writing
<1>5. CASE SameHistory /\ lane'[l] = NoLane /\ (UNCHANGED parts \/ Frees(At(l)))
  <2>1. past'.work = past.work /\ past'.leaks = past.leaks BY <1>5 DEF SameHistory
  <2> QED BY <1>2, <1>3, <1>5, <2>1, StillSteady, LaneLeaves
<1>6. ASSUME Holds(l), parts[At(l)].status = "running",
             \/ lane'[l] = NoLane
             \/ lane'[l].pc \in {"budget", "control"} /\ SamePart(l) /\ lane'[l].failed = {},
             DOMAIN parts' = DOMAIN parts,
             \A q \in DOMAIN parts : q # At(l) => parts'[q] = parts[q],
             parts'[At(l)].gen = parts[At(l)].gen,
             parts'[At(l)].bad = parts[At(l)].bad \cup lane[l].failed,
             \/ parts'[At(l)].lease = None
             \/ parts'[At(l)].lease = parts[At(l)].lease /\ parts'[At(l)].live,
             NEW n \in Nat,
             parts'[At(l)].migrated = parts[At(l)].migrated + n,
             past'.work = past.work \cup Counts(At(l), parts[At(l)].migrated + 1, parts[At(l)].migrated + n),
             past'.leaks = IF parts[At(l)].gen <= state.rolled /\ At(l)[1] # state.token
                             THEN past.leaks \cup Counts(At(l), parts[At(l)].migrated + 1, parts[At(l)].migrated + n)
                             ELSE past.leaks
      PROVE  IInv'
  <2>1. PICK p \in DOMAIN parts : p = At(l) BY <1>6 DEF Holds
  <2>2. p[1] = lane[l].token BY <1>1, <1>4, <2>1 DEF Names, InPlan, AtWork, At
  <2>3. PlansKept BY <1>6, <2>1 DEF PlansKept
  <2>4. NoneReopened BY <1>6, <2>1 DEF NoneReopened, Open, OpenPartition
  <2>5. LeasesKept BY <1>6, <2>1 DEF LeasesKept
  <2>6. LaneSteady(l) /\ LaneStops(l) BY <1>4, <1>6, LaneGoesOn
  <2>7. \A k \in Lane : LaneSteady(k) /\ LaneStops(k) BY <1>3, <2>6, StillSteady DEF OnlyLane
  <2>8. (\A k \in Coord : CoSteady(k)) /\ OpMoves BY <1>2, StillSteady
  <2>9. (\A k \in Coord : CoMoves(k)) /\ (\A k \in Lane : LaneMoves(k))
    BY <2>7, <2>8 DEF CoSteady, LaneSteady
  <2>10. Names'
    <3>1. \A q \in DOMAIN parts' : parts'[q].migrated # parts[q].migrated => q[1] = lane[l].token
      BY <1>6, <2>1, <2>2
    <3> QED BY <1>1, <1>2, <1>3, <2>3, <2>8, <2>9, <3>1, NamesKept
  <2>11. OnlyPoison'
    <3>1. \A q \in DOMAIN parts' : parts'[q].bad \subseteq Poison BY <1>1, <1>6, <2>1 DEF OnlyPoison
    <3>2. \A k \in Coord : co'[k].st.bad \subseteq co[k].st.bad /\ co'[k].sum.bad \subseteq Poison
      BY <1>1, <1>2 DEF OnlyPoison
    <3>3. state'.bad \subseteq Poison BY <1>1, <1>2 DEF OnlyPoison
    <3>4. \A k \in Lane : lane'[k].failed \subseteq Poison BY <2>7 DEF LaneSteady
    <3> QED BY <1>1, <1>3, <3>1, <3>2, <3>3, <3>4, PoisonKept
  <2>12. Quiet'
    <3>1. ~(~past.resumed /\ ~past.stalled /\ deploy.pc = "remove") BY <1>1, <1>4, <1>6 DEF Quiet
    <3>2. DeployStays BY <1>2, <1>3, <3>1 DEF DeployStays
    <3> QED BY <1>1, <1>3, <2>5, <2>7, <3>2, QuietKept
  <2>13. ASSUME ~past'.crossed PROVE Views' /\ Rolled' /\ Accounted' /\ Balance'
    <3>1. Views /\ Rolled /\ Accounted /\ Balance BY <1>3, <2>13 DEF IInv
    <3>2. Views' /\ Rolled' BY <1>1, <1>2, <1>3, <2>3, <2>4, <2>9, <3>1, ViewsKept
    <3>3. Accounted' /\ Balance' BY <1>1, <1>2, <1>3, <1>6, <2>1, <3>1, SaveCounts
    <3> QED BY <3>2, <3>3
  <2> QED BY <1>3, <2>10, <2>11, <2>12, <2>13 DEF IInv
<1> QED BY <1>1, <1>5, <1>6, SaveStep

-----------------------------------------------------------------------------
(* The application, the operator and the deploy keep the invariant *)

LEMMA DeskKeeps ==
  ASSUME IInv, Types', UNCHANGED <<co, lane>>, used'.plans = used.plans, StateKept,
         NEW S, PartsSteady(S), NoneReopened, LeasesKept, PastSteady(S), OpMoves, StopsKept
  PROVE  IInv'
<1>1. (\A k \in Coord : CoSteady(k)) /\ \A k \in Lane : LaneSteady(k) /\ LaneStops(k) BY StillSteady
<1> QED BY <1>1, CalmKeeps

\* The partitions and the history are left alone.
LEMMA DeskAlone ==
  ASSUME IInv, Types', UNCHANGED <<parts, co, lane>>, used'.plans = used.plans, StateKept,
         SameHistory, past.crossed => past'.crossed, past.stalled => past'.stalled, OpMoves, StopsKept
  PROVE  IInv'
<1>1. PartsSteady({}) /\ NoneReopened /\ LeasesKept BY PartsStay
<1>2. PastSteady({}) BY PastStays DEF SameHistory
<1> QED BY <1>1, <1>2, DeskKeeps

LEMMA UnblockKeeps ==
  ASSUME IInv, Unblock
  PROVE  IInv'
<1>1. Types BY DEF IInv
<1>2. UNCHANGED <<doc, parts, co, lane, op, deploy, used, past>> /\ state.status = "blocked"
  BY DEF Unblock
<1>3. Types' /\ state' = [state EXCEPT !.status = "pending"] BY <1>1, UnblockStep
<1>4. SamePlan /\ state'.status = "pending" BY <1>1, <1>3 DEF Types, StateDoc, SamePlan
<1>5. StopsKept BY <1>2, <1>4 DEF StopsKept, Active
<1>6. SameHistory /\ OpMoves BY <1>2, StillSteady DEF SameHistory
<1> QED BY <1>2, <1>3, <1>4, <1>5, <1>6, StateStays, DeskAlone

LEMMA RequireKeeps ==
  ASSUME IInv, NEW b \in BOOLEAN, Require(b)
  PROVE  IInv'
<1>1. Types BY DEF IInv
<1>2. UNCHANGED <<doc, state, parts, co, lane, op, deploy, past>> BY DEF Require
<1>3. Types' /\ used'.plans = used.plans BY <1>1, RequireStep
<1>4. SameHistory /\ OpMoves /\ StopsKept BY <1>2, StillSteady DEF SameHistory, StopsKept
<1> QED BY <1>2, <1>3, <1>4, StateStays, DeskAlone

LEMMA AskKeeps ==
  ASSUME IInv, (\E act \in Acts : Ask(act)) \/ Drift
  PROVE  IInv'
<1>1. Types BY DEF IInv
<1>2. /\ Types' /\ used'.plans = used.plans /\ op'.st = state
      /\ UNCHANGED <<doc, state, parts, lock, co, lane, deploy, past>>
  BY <1>1, AskStep
<1>3. SameHistory /\ OpMoves /\ StopsKept BY <1>2 DEF SameHistory, OpMoves, StopsKept
<1> QED BY <1>2, <1>3, StateStays, DeskAlone

LEMMA MoveKeeps ==
  ASSUME IInv, Move
  PROVE  IInv'
<1>1. Types BY DEF IInv
<1>2. UNCHANGED <<doc, parts, co, lane, deploy, used>> BY DEF Move
<1>3. /\ Types' /\ SameHistory /\ past'.stalled = past.stalled
      /\ past.crossed => past'.crossed
      /\ past.resumed => past'.resumed
      /\ state'.gen = state.gen /\ state'.token = state.token /\ state'.rolled = state.rolled
      /\ state'.total = state.total /\ state'.dir = state.dir /\ state'.bad \subseteq state.bad
      /\ \/ UNCHANGED <<state, past>> /\ (op'.st = state \/ op'.st.token = 0)
         \/ /\ op'.st = op.st /\ state'.status \notin {"completed", "none"}
            /\ past'.resumed \/ state'.status \in {"paused", "cancelled"}
  BY <1>1, MoveStep
<1>4. StateKept BY <1>3 DEF StateKept
<1>5. OpMoves BY <1>3 DEF OpMoves
<1>6. StopsKept BY <1>2, <1>3 DEF StopsKept, Active
<1> QED BY <1>2, <1>3, <1>4, <1>5, <1>6, DeskAlone

LEMMA RepinKeeps ==
  ASSUME IInv, NEW b \in BOOLEAN, Repin(b)
  PROVE  IInv'
<1>1. Types BY DEF IInv
<1>2. /\ Types' /\ used'.plans = used.plans /\ op'.st = state
      /\ UNCHANGED <<doc, state, parts, lock, co, lane, deploy, past>>
  BY <1>1, RepinStep
<1>3. SameHistory /\ OpMoves /\ StopsKept BY <1>2 DEF SameHistory, OpMoves, StopsKept
<1> QED BY <1>2, <1>3, StateStays, DeskAlone

LEMMA PinKeeps ==
  ASSUME IInv, Pin
  PROVE  IInv'
<1>1. Types BY DEF IInv
<1>2. UNCHANGED <<doc, parts, co, lane, deploy, used, past>> BY DEF Pin
<1>3. Types' /\ SamePlan /\ state'.status = state.status /\ op'.st.token = 0 BY <1>1, PinStep
<1>4. SameHistory /\ OpMoves /\ StopsKept BY <1>2, <1>3 DEF SameHistory, OpMoves, StopsKept
<1> QED BY <1>2, <1>3, <1>4, StateStays, DeskAlone

LEMMA RegisterKeeps ==
  ASSUME IInv, Register
  PROVE  IInv'
<1>1. Types BY DEF IInv
<1>2. UNCHANGED <<doc, state, co, lane, op>> BY DEF Register
<1>3. PICK S : S = DOMAIN parts OBVIOUS
<1>4. /\ Types' /\ used'.plans = used.plans /\ Delete(S) /\ deploy'.pc = "swap"
      /\ past'.leaks = Leaks(S) /\ past'.work = past.work /\ past'.late = past.late
      /\ SameCrossings
      /\ past.crossed => past'.crossed
  BY <1>1, <1>3, RegisterStep
<1>5. PartsSteady(S) /\ NoneReopened /\ LeasesKept BY <1>1, <1>4, PartsGo
<1>6. PastSteady(S) BY <1>4 DEF PastSteady, SameCrossings
<1>7. OpMoves /\ StopsKept BY <1>2, <1>4, StillSteady DEF StopsKept, Stopping
<1> QED BY <1>2, <1>4, <1>5, <1>6, <1>7, StateStays, DeskKeeps

LEMMA WithdrawKeeps ==
  ASSUME IInv, Withdraw
  PROVE  IInv'
<1>1. Types BY DEF IInv
<1>2. UNCHANGED <<doc, state, parts, co, lane, op>> BY DEF Withdraw
<1>3. /\ Types' /\ used'.plans = used.plans /\ deploy'.pc \in {"idle", "judge"}
      /\ SameHistory /\ past'.crossed = past.crossed /\ past'.stalled = past.stalled
  BY <1>1, WithdrawStep
<1>4. OpMoves /\ StopsKept BY <1>2, <1>3, StillSteady DEF StopsKept, Stopping
<1> QED BY <1>2, <1>3, <1>4, StateStays, DeskAlone

LEMMA WithdrawRefusedKeeps ==
  ASSUME IInv, WithdrawRefused
  PROVE  IInv'
<1>1. Types BY DEF IInv
<1>2. UNCHANGED <<doc, parts, co, lane, op, used, past>> BY DEF WithdrawRefused
<1>3. /\ Types' /\ SamePlan /\ deploy'.pc = "idle"
      /\ state'.status \in {state.status, "blocked", "pending", "running"}
  BY <1>1, WithdrawRefusedStep
<1>4. SameHistory /\ OpMoves /\ StopsKept BY <1>2, <1>3, StillSteady DEF SameHistory, StopsKept, Stopping
<1> QED BY <1>2, <1>3, <1>4, StateStays, DeskAlone

LEMMA WaitTimesOutKeeps ==
  ASSUME IInv, WaitTimesOut
  PROVE  IInv'
<1>1. Types BY DEF IInv
<1>2. Types' /\ UNCHANGED <<doc, state, parts, lock, co, lane, op, prereq, spec, used, past>>
  BY <1>1, WithdrawGoesStep
<1>3. deploy'.pc = "resume" BY <1>1 DEF WaitTimesOut, DeployGoes, Types, DeployRec
<1>4. SameHistory /\ OpMoves /\ StopsKept BY <1>2, <1>3, StillSteady DEF SameHistory, StopsKept, Stopping
<1> QED BY <1>2, <1>4, StateStays, DeskAlone

LEMMA AppWriteKeeps ==
  ASSUME IInv, NEW d \in Doc, NEW s \in {"old", "new"}, AppWrite(d, s)
  PROVE  IInv'
<1>1. Types BY DEF IInv
<1>2. UNCHANGED <<state, parts, co, lane, op, deploy>> BY DEF AppWrite
<1>3. /\ Types' /\ used'.plans = used.plans
      /\ doc' = [doc EXCEPT ![d] = s] /\ past'.late = past.late \cup {d}
      /\ past'.crossed = past.crossed /\ SameCrossings
      /\ past'.work = past.work /\ past'.leaks = past.leaks
  BY <1>1, AppWriteStep
<1>4. PartsSteady({}) /\ NoneReopened /\ LeasesKept /\ StateKept BY <1>2, PartsStay, StateStays
<1>5. PastSteady({}) BY <1>3, PastStays DEF SameCrossings
<1>6. (\A k \in Coord : CoSteady(k)) /\ (\A k \in Lane : LaneSteady(k) /\ LaneStops(k)) /\ OpMoves
  BY <1>2, StillSteady
<1>7. /\ Names' /\ OnlyPoison'
      /\ ~past'.crossed => Accounted' /\ Balance' /\ Views' /\ Rolled'
  BY <1>3, <1>4, <1>5, <1>6, SteadyKeeps
<1>8. Quiet'
  <2>1. StopsKept BY <1>2, <1>3 DEF StopsKept, SameCrossings
  <2> QED BY <1>3, <1>4, <1>5, <1>6, <2>1, SteadyQuiet
<1> QED BY <1>3, <1>7, <1>8 DEF IInv

\* A retry opens partitions of a generation that is not rolled up, and of no
\* coordinator at work.
LEMMA RetryKeeps ==
  ASSUME IInv, Types', UNCHANGED <<doc, state, co, lane, deploy, used>>, op'.st.token = 0,
         past'.late = past.late, past'.work = past.work, past'.leaks = past.leaks, SameCrossings,
         past.crossed => past'.crossed, SameCounts,
         \A p \in DOMAIN parts : /\ parts'[p].lease = parts[p].lease
                                 /\ parts'[p].live = parts[p].live
                                 /\ p \notin Is(op.st.token) => parts'[p] = parts[p],
         ~Closed(op.st),
         ~past'.crossed => ~CoordinatorAtWork /\ state.rolled = op.st.rolled
  PROVE  IInv'
<1>1. Types /\ Names BY DEF IInv
<1>2. DOMAIN parts' = DOMAIN parts /\ PartsSteady({}) BY DEF SameCounts, PartsSteady
<1>3. LeasesKept BY <1>2 DEF LeasesKept
<1>4. PastSteady({}) BY PastStays DEF SameCrossings
<1>5. (\A k \in Coord : CoSteady(k)) /\ (\A k \in Lane : LaneSteady(k) /\ LaneStops(k)) BY StillSteady
<1>6. OpMoves /\ StateKept BY StateStays DEF OpMoves
<1>7. /\ Names' /\ OnlyPoison'
      /\ ~past'.crossed => Accounted' /\ Balance'
  BY <1>2, <1>4, <1>5, <1>6, SteadyKeeps
<1>8. Quiet'
  <2>1. StopsKept BY DEF StopsKept, SameCrossings
  <2> QED BY <1>3, <1>4, <1>5, <2>1, SteadyQuiet
<1>9. ASSUME ~past'.crossed PROVE Views' /\ Rolled'
  <2>1. Views /\ Rolled BY <1>9 DEF IInv
  <2>2. \A c \in Coord : Idle(c)' BY <1>9 DEF CoordinatorAtWork, Idle
  <2>3. Views'
    <3>1. ASSUME NEW l \in Lane, lane'[l].pc # "idle", NEW p \in DOMAIN parts', p[1] = lane'[l].token
          PROVE  Seen(lane[l])'
      <4>1. Seen(lane[l]) BY <1>2, <2>1, <3>1 DEF Views
      <4> QED BY <4>1 DEF Seen
    <3> QED BY <2>1, <2>2, <3>1 DEF Views
  <2>4. ASSUME NEW p \in DOMAIN parts', p[1] = state'.token, Open(p)' PROVE state'.rolled < parts'[p].gen
    <3>1. p \in DOMAIN parts /\ parts'[p].gen = parts[p].gen BY <1>2 DEF SameCounts
    <3>2. CASE p \notin Is(op.st.token)
      <4>1. parts'[p] = parts[p] BY <3>1, <3>2
      <4> QED BY <2>1, <2>4, <3>1, <4>1 DEF Rolled, Open
    <3>3. CASE p \in Is(op.st.token)
      <4>1. p[1] = op.st.token /\ p[1] # 0 BY <1>1, <3>1, <3>3 DEF Is, Types, PartsOK, Token
      <4>2. parts[p].gen = op.st.gen BY <1>1, <3>1, <4>1 DEF Names, Named, Held
      <4>3. ~(op.st.rolled >= op.st.gen) BY <4>1 DEF Closed
      <4>4. op.st.rolled \in Nat /\ op.st.gen \in Nat BY <1>1 DEF Types, OpRec, StateDoc
      <4> QED BY <1>9, <3>1, <4>2, <4>3, <4>4
    <3> QED BY <3>2, <3>3
  <2>5. Rolled' BY <2>2, <2>4 DEF Rolled, Idle
  <2> QED BY <2>3, <2>5
<1> QED BY <1>7, <1>8, <1>9 DEF IInv

LEMMA MovePartsKeeps ==
  ASSUME IInv, MoveParts
  PROVE  IInv'
<1>1. Types BY DEF IInv
<1>2. UNCHANGED <<doc, state, co, lane, deploy, used>> BY DEF MoveParts
<1>3. /\ Types' /\ op'.st.token = 0 /\ SameCrossings
      /\ past'.late = past.late /\ past'.work = past.work
      /\ past.crossed => past'.crossed
  BY <1>1, MovePartsStep
<1>4. OpMoves /\ StopsKept BY <1>2, <1>3 DEF OpMoves, StopsKept, SameCrossings
<1>5. CASE /\ UNCHANGED past /\ SameCounts
           /\ \A p \in DOMAIN parts : /\ parts'[p].lease = parts[p].lease
                                      /\ parts'[p].live = parts[p].live
                                      /\ parts'[p].status \in {parts[p].status, "cancelled"}
  <2>1. PartsSteady({}) BY <1>5 DEF SameCounts, PartsSteady
  <2>2. NoneReopened BY <1>5 DEF SameCounts, NoneReopened, Open, OpenPartition
  <2>3. LeasesKept BY <1>5 DEF SameCounts, LeasesKept
  <2>4. PastSteady({}) BY <1>5, PastStays
  <2> QED BY <1>2, <1>3, <1>4, <2>1, <2>2, <2>3, <2>4, StateStays, DeskKeeps
<1>6. CASE Delete(UpTo(op.st.gen)) /\ past'.leaks = Leaks(UpTo(op.st.gen))
  <2>1. PICK S : S = UpTo(op.st.gen) OBVIOUS
  <2>2. PartsSteady(S) /\ NoneReopened /\ LeasesKept BY <1>1, <1>6, <2>1, PartsGo
  <2>3. PastSteady(S) BY <1>3, <1>6, <2>1 DEF PastSteady, SameCrossings
  <2> QED BY <1>2, <1>3, <1>4, <2>2, <2>3, StateStays, DeskKeeps
<1>7. CASE /\ SameCounts /\ past'.leaks = past.leaks
           /\ \A p \in DOMAIN parts : /\ parts'[p].lease = parts[p].lease
                                      /\ parts'[p].live = parts[p].live
                                      /\ p \notin Is(op.st.token) => parts'[p] = parts[p]
           /\ ~Closed(op.st)
           /\ ~past'.crossed => ~CoordinatorAtWork /\ state.rolled = op.st.rolled
  BY <1>2, <1>3, <1>7, RetryKeeps
<1> QED BY <1>1, <1>5, <1>6, <1>7, MovePartsStep

\* A new state has nothing behind it, unless somebody is still at the old one.
LEMMA AnewKeeps ==
  ASSUME IInv, Types', Anew, UNCHANGED <<doc, co, lane, op, used>>,
         DOMAIN parts' = {} \/ UNCHANGED parts, ~past'.crossed => DOMAIN parts' = {}
  PROVE  IInv'
<1>1. Types /\ Names /\ OnlyPoison /\ Quiet BY DEF IInv
<1>2. PlansKept /\ LeasesKept BY DEF PlansKept, LeasesKept
<1>3. (\A k \in Coord : CoSteady(k)) /\ (\A k \in Lane : LaneSteady(k) /\ LaneStops(k)) /\ OpMoves
  BY StillSteady
<1>4. Names'
  <2>1. (\A k \in Coord : CoMoves(k)) /\ (\A k \in Lane : LaneMoves(k)) BY <1>3 DEF CoSteady, LaneSteady
  <2>2. \A p \in DOMAIN parts' : parts'[p].migrated = parts[p].migrated OBVIOUS
  <2>3. state'.token = 0 BY DEF Anew
  <2> QED BY <1>1, <1>2, <1>3, <2>1, <2>2, <2>3, NamesKept
<1>5. OnlyPoison'
  <2>1. state'.bad = {} BY DEF Anew
  <2>2. \A p \in DOMAIN parts' : parts'[p].bad \subseteq Poison BY <1>1 DEF OnlyPoison
  <2> QED BY <1>1, <2>1, <2>2 DEF OnlyPoison
<1>6. Quiet'
  <2>1. deploy'.pc \notin Stopping BY DEF Anew, Stopping
  <2>2. (past.stalled => past'.stalled) /\ (past.crossed => past'.crossed) BY DEF Anew, SameCrossings
  <2> QED BY <1>1, <1>2, <1>3, <2>1, <2>2, QuietKept
<1>7. ASSUME ~past'.crossed PROVE Views' /\ Rolled' /\ Accounted' /\ Balance'
  <2>1. DOMAIN parts' = {} BY <1>7
  <2>2. /\ state'.gen = 0 /\ state'.rolled = 0 /\ state'.total = 0 /\ state'.status # "completed"
        /\ past'.work = {} /\ past'.leaks = {}
    BY DEF Anew
  <2>3. \A c \in Coord : co'[c].pc = "idle" BY <1>7 DEF Anew, CoordinatorAtWork, Idle
  <2>4. Views' /\ Rolled' BY <2>1, <2>2, <2>3 DEF Views, Rolled, Idle
  <2>5. Counted(DOMAIN parts)' = {} /\ Counted(Unrolled)' = {} BY <2>1 DEF Counted, Unrolled
  <2>6. Accounted' BY <2>2, <2>5, FS_EmptySet DEF Accounted
  <2>7. Progress' = 0
    <3>1. Counters(Unrolled)' = 0 BY <2>5, FS_EmptySet DEF Counters
    <3> QED BY <2>2, <3>1 DEF Progress
  <2>8. Older(state.rolled)' = {} BY <2>2 DEF Older
  <2>9. Balance' BY <2>2, <2>3, <2>7, <2>8, FS_EmptySet DEF Balance
  <2> QED BY <2>4, <2>6, <2>9
<1> QED BY <1>4, <1>5, <1>6, <1>7 DEF IInv

LEMMA SwapKeeps ==
  ASSUME IInv, Swap
  PROVE  IInv'
<1>1. Types BY DEF IInv
<1>2. UNCHANGED <<doc, parts, co, lane, op, used>> BY DEF Swap
<1>3. Types' /\ Anew /\ (~past'.crossed => DOMAIN parts = {}) BY <1>1, SwapStep
<1>4. ~past'.crossed => DOMAIN parts' = {} BY <1>2, <1>3
<1> QED BY <1>2, <1>3, <1>4, AnewKeeps

LEMMA RemoveKeeps ==
  ASSUME IInv, RemoveUnplanned \/ WithdrawRemoves
  PROVE  IInv'
<1>1. Types BY DEF IInv
<1>2. Remove /\ UNCHANGED <<doc, lock, co, lane, op, prereq, spec, used>>
  BY DEF RemoveUnplanned, WithdrawRemoves
<1>3. Types' /\ Anew /\ DOMAIN parts' = {} BY <1>1, <1>2, RemoveStep
<1> QED BY <1>2, <1>3, AnewKeeps

\* The steps of a deploy that is stopping the lanes: all but what it may not see.
LEMMA StoppingKeeps ==
  ASSUME IInv, Types', UNCHANGED <<doc, parts, co, lane, op, used, past>>, SamePlan,
         Quiet'
  PROVE  IInv'
<1>1. PartsSteady({}) /\ NoneReopened BY PartsStay
<1>2. PastSteady({}) BY PastStays
<1>3. (\A k \in Coord : CoSteady(k)) /\ (\A k \in Lane : LaneSteady(k)) /\ OpMoves BY StillSteady
<1>4. StateKept BY StateStays
<1>5. /\ Names' /\ OnlyPoison'
      /\ ~past'.crossed => Accounted' /\ Balance' /\ Views' /\ Rolled'
  BY <1>1, <1>2, <1>3, <1>4, SteadyKeeps
<1> QED BY <1>5 DEF IInv

\* What is paused is not active.
LEMMA WithdrawPausesKeeps ==
  ASSUME IInv, WithdrawPauses
  PROVE  IInv'
<1>1. Types /\ Quiet BY DEF IInv
<1>2. UNCHANGED <<doc, parts, co, lane, op, used, past>> BY DEF WithdrawPauses
<1>3. /\ Types' /\ SamePlan
      /\ state'.status \in {state.status, "paused"}
      /\ state'.status \notin {"blocked", "pending", "running"}
  BY <1>1, WithdrawPausesStep
<1>4. deploy'.pc = "wait" BY <1>1 DEF WithdrawPauses, DeployGoes, Types, DeployRec
<1>5. Quiet' BY <1>1, <1>2, <1>3, <1>4 DEF Quiet, Active, AtWork, Holds, At
<1> QED BY <1>2, <1>3, <1>5, StoppingKeeps

\* With no live lease, no lane at work has one.
LEMMA WithdrawWaitsKeeps ==
  ASSUME IInv, WithdrawWaits
  PROVE  IInv'
<1>1. Types /\ Quiet BY DEF IInv
<1>2. Types' /\ UNCHANGED <<doc, state, parts, lock, co, lane, op, prereq, spec, used, past>>
  BY <1>1, WithdrawGoesStep
<1>3. deploy.pc = "wait" /\ Live = {} /\ deploy'.pc = "check"
  BY <1>1 DEF WithdrawWaits, LanesStopped, DeployGoes, Types, DeployRec
<1>4. ASSUME ~past.stalled, NEW l \in Lane, Writing(l), Holds(l) PROVE FALSE
  <2>1. AtWork(l) BY <1>4 DEF AtWork, Writing
  <2>2. parts[At(l)].live BY <1>1, <1>4, <2>1 DEF Quiet
  <2>3. At(l) \in DOMAIN parts /\ parts[At(l)].lease # None BY <1>4, NoneAssumption DEF Holds
  <2> QED BY <1>3, <2>2, <2>3 DEF Live
<1>5. Quiet'
  <2>1. \A l \in Lane : Holds(l)' = Holds(l) /\ Writing(l)' = Writing(l) /\ AtWork(l)' = AtWork(l)
    BY <1>2 DEF Holds, At, Writing, AtWork
  <2> QED BY <1>1, <1>2, <1>3, <1>4, <2>1 DEF Quiet, Stopping, At
<1> QED BY <1>2, <1>5, StoppingKeeps DEF SamePlan

\* No progress means that everything that was counted was dropped.
LEMMA WithdrawChecksKeeps ==
  ASSUME IInv, WithdrawChecks
  PROVE  IInv'
<1>1. Types /\ Quiet BY DEF IInv
<1>2. Types' /\ UNCHANGED <<doc, state, parts, lock, co, lane, op, prereq, spec, used, past>>
  BY <1>1, WithdrawGoesStep
<1>3. deploy.pc = "check" BY DEF WithdrawChecks
<1>4. deploy'.pc = "resume" \/ (deploy'.pc = "remove" /\ ~(Progress > 0))
  BY <1>1 DEF WithdrawChecks, DeployGoes, Types, DeployRec
<1>5. ASSUME ~past.crossed, ~(Progress > 0) PROVE past.work = past.leaks
  <2>1. Accounted /\ Balance BY <1>5 DEF IInv
  <2>2. Progress \in Nat BY <1>1, <2>1, ProgressCounted
  <2>3. Progress = 0 BY <1>5, <2>2
  <2>4. /\ IsFiniteSet(past.work) /\ Cardinality(past.work) \in Nat /\ Cardinality(past.leaks) \in Nat
        /\ past.leaks \subseteq past.work
    BY <2>1, WorkFinite DEF Accounted
  <2>5. Cardinality(past.work) <= Cardinality(past.leaks) BY <2>1, <2>3, <2>4 DEF Balance
  <2>6. Cardinality(past.leaks) <= Cardinality(past.work) BY <2>4, FS_Subset
  <2>7. Cardinality(past.work) = Cardinality(past.leaks) BY <2>4, <2>5, <2>6
  <2> QED BY <2>4, <2>7, FS_Subset
<1>6. Quiet'
  <2>1. \A l \in Lane : Holds(l)' = Holds(l) /\ Writing(l)' = Writing(l) /\ AtWork(l)' = AtWork(l)
    BY <1>2 DEF Holds, At, Writing, AtWork
  <2> QED BY <1>1, <1>2, <1>3, <1>4, <1>5, <2>1 DEF Quiet, Stopping, At
<1> QED BY <1>2, <1>6, StoppingKeeps DEF SamePlan

-----------------------------------------------------------------------------
(* The theorems *)

LEMMA InitInv == Init => IInv
<1> SUFFICES ASSUME Init PROVE IInv OBVIOUS
<1>1. DOMAIN parts = {} /\ state = Registered(IF prereq THEN "pending" ELSE "blocked", "forward")
  BY DEF Init
<1>2. PICK s \in {"pending", "blocked"} : state = Registered(s, "forward") BY <1>1
<1>3. state \in StateDoc BY <1>2, Constants DEF Status, Direction
<1>4. /\ state.gen = 0 /\ state.token = 0 /\ state.rolled = 0 /\ state.total = 0 /\ state.bad = {}
      /\ state.status = s
  BY <1>2, RegisteredFacts
<1>5. /\ \A c \in Coord : co[c] = NoCoord
      /\ \A l \in Lane : lane[l] = NoLane
      /\ op = NoOp /\ deploy = NoDeploy
  BY DEF Init
<1>6. /\ past.late = {} /\ past.work = {} /\ past.leaks = {} /\ ~past.resumed /\ ~past.stalled
      /\ used.plans = 0 /\ past \in History
  BY DEF Init, History
<1>7. op.st.token = 0 /\ deploy.pc = "idle" /\ NoLane.token = 0 /\ NoCoord.st.token = 0
  BY <1>5 DEF NoOp, NoDeploy, NoLane, NoCoord, Registered
<1>8. Types
  <2>1. PartsOK BY <1>1, FS_EmptySet DEF PartsOK
  <2>2. co \in [Coord -> CoordRec] /\ lane \in [Lane -> LaneRec] BY Constants DEF Init
  <2>3. op \in OpRec /\ deploy \in DeployRec BY <1>5, Constants
  <2>4. doc \in [Doc -> {"old", "new"}] /\ lock \in Coord \cup {None} /\ prereq \in BOOLEAN BY DEF Init
  <2>5. used \in [plans: 0..MaxPlans, faults: 0..MaxFaults, writes: 0..MaxWrites, controls: 0..MaxControls]
    BY Bounds DEF Init
  <2> QED BY <1>3, <1>6, <2>1, <2>2, <2>3, <2>4, <2>5 DEF Types
<1>9. \A c \in Coord : co[c].pc = "idle" /\ co[c].st.token = 0 BY <1>5, <1>7, Emptiness
<1>10. \A l \in Lane : lane[l].pc = "idle" /\ lane[l].token = 0 BY <1>5, <1>7, Emptiness
<1>11. Names
  <2>1. \A v : v.token = 0 => Held(v) BY <1>1, <1>6, <1>9 DEF Held
  <2>2. Named BY <1>1, <1>4, <1>7, <1>9, <1>10, <2>1 DEF Named
  <2> QED BY <1>9, <1>10, <2>2 DEF Names, Uncommitted, InPlan
<1>12. OnlyPoison BY <1>1, <1>4, <1>5, Emptiness DEF OnlyPoison
<1>13. Quiet BY <1>7, <1>10 DEF Quiet, AtWork, Stopping
<1>14. Views /\ Rolled BY <1>1, <1>4, <1>9 DEF Views, Rolled, Idle
<1>15. Counted(DOMAIN parts) = {} /\ Counted(Unrolled) = {} BY <1>1 DEF Counted, Unrolled
<1>16. Accounted BY <1>6, <1>15, FS_EmptySet DEF Accounted
<1>17. Balance
  <2>1. Progress = 0
    <3>1. Counters(Unrolled) = 0 BY <1>15, FS_EmptySet DEF Counters
    <3> QED BY <1>4, <3>1 DEF Progress
  <2>2. Older(state.rolled) = {} BY <1>6 DEF Older
  <2> QED BY <1>4, <1>6, <1>9, <2>1, <2>2, FS_EmptySet DEF Balance
<1> QED BY <1>8, <1>11, <1>12, <1>13, <1>14, <1>16, <1>17 DEF IInv

LEMMA NextInv == IInv /\ [Next]_vars => IInv'
<1> SUFFICES ASSUME IInv, [Next]_vars PROVE IInv' OBVIOUS
<1>1. ASSUME NEW c \in Coord, Coordinate(c) PROVE IInv'
  BY <1>1, StartKeeps, SupersedeKeeps, DrainKeeps, InsertKeeps, CommitKeeps, TidyKeeps, ActivateKeeps,
     LookKeeps, TotalKeeps, RollKeeps, JudgeKeeps, CompleteKeeps, NextPassKeeps, FailKeeps
     DEF Coordinate
<1>2. ASSUME NEW l \in Lane, Work(l) \/ Yield(l) \/ Batch(l, FALSE) PROVE IInv'
  <2>1. TRUE \in BOOLEAN /\ FALSE \in BOOLEAN OBVIOUS
  <2> QED BY <1>2, <2>1, SliceKeeps, ClaimKeeps, ControlKeeps, BatchKeeps, SaveKeeps, BudgetKeeps,
             LaneFailsKeeps, YieldKeeps
          DEF Work
<1>3. ASSUME NEW p \in DOMAIN parts, Expire(p) PROVE IInv' BY <1>3, ExpireKeeps
<1>4. CASE Unblock BY <1>4, UnblockKeeps
<1>5. CASE Operate BY <1>5, AskKeeps, MoveKeeps, MovePartsKeeps, PinKeeps DEF Operate
<1>6. CASE Deploys
  BY <1>6, SwapKeeps, RemoveKeeps, WithdrawPausesKeeps, WithdrawWaitsKeeps, WaitTimesOutKeeps,
     WithdrawChecksKeeps, WithdrawRefusedKeeps
     DEF Deploys
<1>7. CASE Fails
  <2>1. ASSUME NEW c \in Coord, CoordCrash(c) \/ LoseLock(c) \/ Reshard(c) PROVE IInv'
    BY <2>1, CoordCrashKeeps, LoseLockKeeps, ReshardKeeps
  <2>2. ASSUME NEW l \in Lane, LaneCrash(l) PROVE IInv' BY <2>2, LaneCrashKeeps
  <2>3. ASSUME NEW l \in Lane, NEW s \in {"running", "failed"}, SliceFails(l, s) PROVE IInv'
    BY <2>3, SliceFailsKeeps
  <2> QED BY <1>7, <2>1, <2>2, <2>3 DEF Fails
<1>8. ASSUME NEW d \in Doc, NEW s \in {"old", "new"}, AppWrite(d, s) PROVE IInv' BY <1>8, AppWriteKeeps
<1>9. ASSUME NEW b \in BOOLEAN, Require(b) \/ Repin(b) PROVE IInv' BY <1>9, RequireKeeps, RepinKeeps
<1>10. CASE \E act \in Acts : Ask(act) BY <1>10, AskKeeps
<1>11. CASE Register \/ Withdraw BY <1>11, RegisterKeeps, WithdrawKeeps
<1>12. CASE UNCHANGED vars
  <2>1. UNCHANGED <<doc, state, parts, lock, co, lane, op, deploy, prereq, used, past>>
    BY <1>12 DEF vars
  <2>2. Types' BY <2>1 DEF IInv, Types, PartsOK
  <2>3. SameHistory /\ OpMoves /\ StopsKept BY <2>1, StillSteady DEF SameHistory, StopsKept
  <2> QED BY <2>1, <2>2, <2>3, StateStays, DeskAlone
<1> QED BY <1>1, <1>2, <1>3, <1>4, <1>5, <1>6, <1>7, <1>8, <1>9, <1>10, <1>11, <1>12 DEF Next

\* Everything above holds in every state: plans have names of their own and copies
\* of the state are not ahead of it, the generation that is being rolled up is not
\* being worked, every count is rolled up or to be rolled up or known as dropped,
\* and a deploy that waits for the lanes has stopped them.
THEOREM PassesInvariant == Spec => []IInv
BY InitInv, NextInv, PTL DEF Spec

\* Everything keeps its type, and a live lease has a holder.
THEOREM TypeCorrect == Spec => []TypeOK
<1>1. IInv => TypeOK
  BY DEF IInv, Types, TypeOK, PartsOK, PartOK, CoordRec, LaneRec, OpRec, DeployRec
<1> QED BY <1>1, PassesInvariant, PTL

\* Crashed, repeated and concurrent roll-ups (finalize's rolledGeneration) double
\* no count and lose none, for any number of coordinators, lanes, plans, faults and
\* controls.
THEOREM TotalsAreKept == Spec => []TotalsKept
<1>1. IInv => TotalsKept
  <2> SUFFICES ASSUME IInv, ~past.crossed
               PROVE  /\ Progress <= Cardinality(past.work)
                      /\ Cardinality(past.work) <= Progress + Cardinality(past.leaks)
    BY DEF TotalsKept
  <2>1. Types /\ Accounted /\ Balance BY DEF IInv
  <2> QED BY <2>1, ProgressCounted DEF Balance
<1> QED BY <1>1, PassesInvariant, PTL

-----------------------------------------------------------------------------
(* What is completed is clean *)

\* What completion goes by: a completed migration, and a coordinator that is about to
\* complete it and was at work for no earlier registration, leave only what was made
\* old since the count; and such a coordinator counts in the state's direction.
Clean ==
  /\ state.status = "completed" /\ ~past.misled => OldShape(state.dir, Poison) \subseteq past.late
  /\ \A c \in Coord \ past.ousted :
       /\ co[c].pc = "complete" => OldShape(state.dir, Poison) \subseteq past.late
       /\ ~Idle(c) => co[c].dir = state.dir

\* A coordinator does not come to complete, nor to work, and scans what it scanned.
CoKept(c) ==
  /\ co'[c].pc = "complete" => co[c].pc = "complete"
  /\ co'[c].pc # "idle" => co[c].pc # "idle" /\ co'[c].dir = co[c].dir

\* The documents, the count and the direction stay, and nobody completes.
CountStands ==
  /\ UNCHANGED doc /\ state'.dir = state.dir /\ past'.late = past.late /\ SameOusted
  /\ state'.status = "completed" => state.status = "completed"

LEMMA OldShapes ==
  /\ UNCHANGED doc /\ state'.dir = state.dir
       => OldShape(state.dir, Poison)' = OldShape(state.dir, Poison)
  /\ \A dir, bad : bad \subseteq Poison => OldShape(dir, Poison) \subseteq OldShape(dir, bad)
BY DEF OldShape, Source

\* Nobody else is moved, and this coordinator does not come to complete.
LEMMA CoordinatorCleans ==
  ASSUME Clean, NEW c \in Coord, Only(c), CoKept(c), CountStands
  PROVE  Clean'
<1>1. OldShape(state.dir, Poison)' = OldShape(state.dir, Poison) BY OldShapes DEF CountStands
<1>2. \A k \in Coord : CoKept(k) BY DEF Only, CoKept
<1>3. past'.late = past.late /\ past'.ousted = past.ousted /\ past'.misled = past.misled
  BY DEF CountStands, SameOusted
<1>4. state'.status = "completed" /\ ~past'.misled => OldShape(state.dir, Poison)' \subseteq past'.late
  BY <1>1, <1>3 DEF Clean, CountStands
<1>5. ASSUME NEW k \in Coord \ past'.ousted
      PROVE  /\ co'[k].pc = "complete" => OldShape(state.dir, Poison)' \subseteq past'.late
             /\ Idle(k)' \/ co'[k].dir = state'.dir
  BY <1>1, <1>2, <1>3 DEF Clean, CountStands, CoKept, Idle
<1> QED BY <1>4, <1>5 DEF Clean

LEMMA StillClean ==
  ASSUME Clean, UNCHANGED co, CountStands
  PROVE  Clean'
<1>1. OldShape(state.dir, Poison)' = OldShape(state.dir, Poison) BY OldShapes DEF CountStands
<1>2. past'.late = past.late /\ past'.ousted = past.ousted /\ past'.misled = past.misled
  BY DEF CountStands, SameOusted
<1>3. \A k \in Coord : Idle(k)' = Idle(k) BY DEF Idle
<1> QED BY <1>1, <1>2, <1>3 DEF Clean, CountStands

\* Most steps of a coordinator.
LEMMA PlainCleans ==
  ASSUME Types, Clean, NEW c \in Coord,
         \/ Supersede(c) \/ Drain(c) \/ Insert(c) \/ Commit(c) \/ Tidy(c) \/ Activate(c) \/ Look(c)
         \/ Total(c) \/ Roll(c) \/ NextPass(c) \/ Fail(c) \/ CoordCrash(c) \/ Reshard(c)
  PROVE  Clean'
<1>1. NoCoord.pc = "idle" BY Emptiness
<1>2. \A st : Top(st) \notin {"complete", "idle"} BY TopType
<1>3. co[c] \in CoordRec BY DEF Types
<1>4. CASE Supersede(c)
  <2>1. /\ Only(c) /\ co[c].pc = "replan" /\ co'[c] = [co[c] EXCEPT !.pc = "drain"]
    BY <1>4, SupersedeStep
  <2>2. CoKept(c) BY <1>3, <2>1 DEF CoKept, CoordRec
  <2>3. CountStands BY <1>4 DEF Supersede, CountStands, SameOusted
  <2> QED BY <2>1, <2>2, <2>3, CoordinatorCleans
<1>5. CASE Drain(c)
  <2>1. Only(c) /\ CoKept(c) /\ state'.dir = state.dir /\ state'.status = state.status
    BY <1>1, <1>5, DrainStep DEF CoKept, SamePlan
  <2>2. CountStands BY <1>5, <2>1 DEF Drain, CountStands, SameOusted
  <2> QED BY <2>1, <2>2, CoordinatorCleans
<1>6. CASE Insert(c)
  <2>1. co[c].pc = "plan" /\ UNCHANGED <<doc, state, past>> BY <1>6 DEF Insert
  <2>2. PICK e : Goes(c, [co[c] EXCEPT !.pc = "commit", !.token = used.plans + 1, !.empty = e])
    BY <1>6 DEF Insert
  <2>3. Only(c) /\ co'[c] = [co[c] EXCEPT !.pc = "commit", !.token = used.plans + 1, !.empty = e]
    BY <2>2 DEF Goes, Only, Types
  <2>4. CoKept(c) BY <1>3, <2>1, <2>3 DEF CoKept, CoordRec
  <2>5. CountStands BY <2>1 DEF CountStands, SameOusted
  <2> QED BY <2>3, <2>4, <2>5, CoordinatorCleans
<1>7. CASE Commit(c)
  <2>1. /\ Only(c) /\ CoKept(c) /\ state'.dir = state.dir
        /\ state'.status = "completed" => state.status = "completed"
    BY <1>1, <1>7, CommitStep DEF CoKept
  <2>2. CountStands BY <1>7, <2>1 DEF Commit, CountStands, SameOusted
  <2> QED BY <2>1, <2>2, CoordinatorCleans
<1>8. CASE Tidy(c)
  <2>1. /\ Only(c) /\ co[c].pc = "tidy" /\ OnlyLeaks(Leaks(Foreign(co[c].st.token)))
        /\ co'[c].pc \notin {"complete", "idle"} /\ co'[c].dir = co[c].dir
    BY <1>2, <1>8, TidyStep
  <2>2. CoKept(c) BY <2>1 DEF CoKept
  <2>3. UNCHANGED <<doc, state>> BY <1>8 DEF Tidy
  <2>4. CountStands BY <2>1, <2>3 DEF CountStands, OnlyLeaks
  <2> QED BY <2>1, <2>2, <2>4, CoordinatorCleans
<1>9. CASE Activate(c)
  <2>1. /\ Only(c) /\ CoKept(c) /\ state'.dir = state.dir
        /\ state'.status = "completed" => state.status = "completed"
    BY <1>9, ActivateStep DEF CoKept, SamePlan
  <2>2. CountStands BY <1>9, <2>1 DEF Activate, CountStands, SameOusted
  <2> QED BY <2>1, <2>2, CoordinatorCleans
<1>10. CASE Look(c)
  <2>1. /\ Only(c) /\ co[c].pc = "look"
        /\ co'[c] = NoCoord \/ co'[c] = [co[c] EXCEPT !.pc = "close"]
    BY <1>10, LookStep
  <2>2. CoKept(c) BY <1>1, <1>3, <2>1 DEF CoKept, CoordRec
  <2>3. CountStands BY <1>10 DEF Look, CountStands, SameOusted
  <2> QED BY <2>1, <2>2, <2>3, CoordinatorCleans
<1>11. CASE Total(c)
  <2>1. Only(c) /\ CoKept(c) BY <1>11, TotalStep DEF CoKept
  <2>2. CountStands BY <1>11 DEF Total, CountStands, SameOusted
  <2> QED BY <2>1, <2>2, CoordinatorCleans
<1>12. CASE Roll(c)
  <2>1. /\ Only(c) /\ CoKept(c) /\ state'.dir = state.dir /\ state'.status = state.status
        /\ past'.late = past.late /\ SameOusted
    BY <1>1, <1>12, RollStep DEF CoKept, OnlyLeaks, SameOusted
  <2>2. UNCHANGED doc BY <1>12 DEF Roll
  <2>3. CountStands BY <2>1, <2>2 DEF CountStands
  <2> QED BY <2>1, <2>3, CoordinatorCleans
<1>13. CASE NextPass(c)
  <2>1. /\ Only(c) /\ CoKept(c) /\ state'.dir = state.dir /\ state'.status = state.status
        /\ past'.late = past.late /\ SameOusted
    BY <1>1, <1>2, <1>13, NextPassStep DEF CoKept, OnlyLeaks, SamePlan
  <2>2. UNCHANGED doc BY <1>13 DEF NextPass
  <2>3. CountStands BY <2>1, <2>2 DEF CountStands
  <2> QED BY <2>1, <2>3, CoordinatorCleans
<1>14. CASE Fail(c)
  <2>1. /\ Only(c) /\ CoKept(c) /\ state'.dir = state.dir
        /\ state'.status = "completed" => state.status = "completed"
    BY <1>1, <1>14, FailStep DEF CoKept, SamePlan
  <2>2. CountStands BY <1>14, <2>1 DEF Fail, CountStands, SameOusted
  <2> QED BY <2>1, <2>2, CoordinatorCleans
<1>15. CASE CoordCrash(c)
  <2>1. Only(c) /\ CoKept(c) BY <1>1, <1>15, CoordCrashStep DEF CoKept
  <2>2. CountStands BY <1>15 DEF CoordCrash, CountStands, SameOusted
  <2> QED BY <2>1, <2>2, CoordinatorCleans
<1>16. CASE Reshard(c)
  <2>1. Only(c) /\ CoKept(c) /\ state'.dir = state.dir /\ state'.status = state.status
    BY <1>1, <1>2, <1>16, ReshardStep DEF CoKept, SamePlan
  <2>2. CountStands BY <1>16, <2>1 DEF Reshard, CountStands, SameOusted
  <2> QED BY <2>1, <2>2, CoordinatorCleans
<1> QED BY <1>4, <1>5, <1>6, <1>7, <1>8, <1>9, <1>10, <1>11, <1>12, <1>13, <1>14, <1>15, <1>16

\* A coordinator that starts counts for the state it reads.
LEMMA StartCleans ==
  ASSUME Types, Clean, NEW c \in Coord, Start(c)
  PROVE  Clean'
<1>1. /\ Only(c) /\ co'[c].pc = Top(state) /\ co'[c].dir = state.dir
      /\ past'.ousted = past.ousted \ {c} /\ past'.misled = past.misled /\ past'.late = past.late
  BY StartStep
<1>2. UNCHANGED <<doc, state>> BY DEF Start
<1>3. OldShape(state.dir, Poison)' = OldShape(state.dir, Poison) BY <1>2, OldShapes
<1>4. ASSUME NEW k \in Coord \ past'.ousted
      PROVE  /\ co'[k].pc = "complete" => OldShape(state.dir, Poison)' \subseteq past'.late
             /\ Idle(k)' \/ co'[k].dir = state'.dir
  <2>1. CASE k = c
    <3>1. co'[k].pc # "complete" BY <1>1, <2>1, TopType
    <3> QED BY <1>1, <1>2, <2>1, <3>1
  <2>2. CASE k # c
    <3>1. co'[k] = co[k] /\ k \in Coord \ past.ousted BY <1>1, <2>2 DEF Only
    <3> QED BY <1>1, <1>2, <1>3, <3>1 DEF Clean, Idle
  <2> QED BY <2>1, <2>2
<1>5. state'.status = "completed" /\ ~past'.misled => OldShape(state.dir, Poison)' \subseteq past'.late
  BY <1>1, <1>2, <1>3 DEF Clean
<1> QED BY <1>4, <1>5 DEF Clean

\* The count of a coordinator that is at work for this registration is a count of
\* everything: what it skips cannot be migrated.
LEMMA JudgeCleans ==
  ASSUME Types, OnlyPoison, Clean, NEW c \in Coord, Judge(c)
  PROVE  Clean'
<1>1. /\ Only(c) /\ co[c].pc = "judge" /\ co'[c].dir = co[c].dir /\ SameOusted
      /\ \/ /\ UNCHANGED past
            /\ co'[c].pc = "complete" /\ c \notin past.ousted
                 => \E k \in Coord \ past.ousted : co[k].pc = "complete"
         \/ past'.late = {} /\ Remaining(c) = {} /\ c \notin past.ousted
  BY JudgeStep
<1>2. UNCHANGED <<doc, state>> BY DEF Judge
<1>3. OldShape(state.dir, Poison)' = OldShape(state.dir, Poison) BY <1>2, OldShapes
<1>4. \A k \in Coord \ past'.ousted : Idle(k)' \/ co'[k].dir = state'.dir
  BY <1>1, <1>2 DEF Clean, Idle, Only, SameOusted
<1>5. CASE past'.late = {} /\ Remaining(c) = {} /\ c \notin past.ousted
  <2>1. co[c].dir = state.dir BY <1>1, <1>5 DEF Clean, Idle
  <2>2. OldShape(state.dir, Poison) \subseteq OldShape(state.dir, co[c].st.bad)
    BY OldShapes DEF OnlyPoison
  <2>3. OldShape(state.dir, Poison) = {} BY <1>5, <2>1, <2>2 DEF Remaining
  <2> QED BY <1>3, <1>4, <2>3 DEF Clean
<1>6. CASE /\ UNCHANGED past
           /\ co'[c].pc = "complete" /\ c \notin past.ousted
                => \E k \in Coord \ past.ousted : co[k].pc = "complete"
  <2>1. ASSUME NEW k \in Coord \ past'.ousted, co'[k].pc = "complete"
        PROVE  OldShape(state.dir, Poison)' \subseteq past'.late
    <3>1. CASE k = c BY <1>3, <1>6, <2>1, <3>1 DEF Clean
    <3>2. CASE k # c
      <4>1. co[k].pc = "complete" /\ k \in Coord \ past.ousted BY <1>1, <1>6, <2>1, <3>2 DEF Only
      <4> QED BY <1>3, <1>6, <4>1 DEF Clean
    <3> QED BY <3>1, <3>2
  <2>2. state'.status = "completed" /\ ~past'.misled => OldShape(state.dir, Poison)' \subseteq past'.late
    BY <1>2, <1>3, <1>6 DEF Clean
  <2> QED BY <1>4, <2>1, <2>2 DEF Clean
<1> QED BY <1>1, <1>5, <1>6

LEMMA CompleteCleans ==
  ASSUME Types, Clean, NEW c \in Coord, Complete(c)
  PROVE  Clean'
<1>1. /\ Only(c) /\ co[c].pc = "complete" /\ co'[c] = NoCoord /\ state'.dir = state.dir
      /\ past'.late = past.late /\ past'.ousted = past.ousted
      /\ \/ state'.status = state.status /\ past'.misled = past.misled
         \/ ~past'.misled => c \notin past.ousted
  BY CompleteStep DEF Completes, SamePlan
<1>2. UNCHANGED doc BY DEF Complete
<1>3. OldShape(state.dir, Poison)' = OldShape(state.dir, Poison) BY <1>1, <1>2, OldShapes
<1>4. state'.status = "completed" /\ ~past'.misled => OldShape(state.dir, Poison)' \subseteq past'.late
  BY <1>1, <1>3 DEF Clean
<1>5. ASSUME NEW k \in Coord \ past'.ousted
      PROVE  /\ co'[k].pc = "complete" => OldShape(state.dir, Poison)' \subseteq past'.late
             /\ Idle(k)' \/ co'[k].dir = state'.dir
  <2>1. CASE k = c BY <1>1, <2>1, Emptiness DEF Idle
  <2>2. CASE k # c
    <3>1. co'[k] = co[k] /\ k \in Coord \ past.ousted BY <1>1, <2>2 DEF Only
    <3> QED BY <1>1, <1>3, <3>1 DEF Clean, Idle
  <2> QED BY <2>1, <2>2
<1> QED BY <1>4, <1>5 DEF Clean

\* A batch of this registration makes no document old, and one of an earlier one is
\* known to come late.
LEMMA BatchCleans ==
  ASSUME Types, Clean, NEW l \in Lane, NEW all \in BOOLEAN, Batch(l, all)
  PROVE  Clean'
<1>1. UNCHANGED <<state, co>> BY DEF Batch
<1>2. SameOusted BY BatchStep
<1>3. PICK good \in SUBSET Doc :
        /\ doc' = [d \in Doc |-> IF d \in good THEN Target(lane[l].dir) ELSE doc[d]]
        /\ past'.late = IF lane[l].dir = state.dir THEN past.late ELSE past.late \cup good
  BY BatchStep
<1>4. state.dir \in Direction /\ lane[l].dir \in Direction BY DEF Types, StateDoc, LaneRec
<1>5. ASSUME OldShape(state.dir, Poison) \subseteq past.late
      PROVE  OldShape(state.dir, Poison)' \subseteq past'.late
  <2> SUFFICES ASSUME NEW d \in Doc \ Poison, doc'[d] = Source(state.dir)
               PROVE  d \in past'.late
    BY <1>1 DEF OldShape
  <2>1. CASE d \in good
    <3>1. doc'[d] = Target(lane[l].dir) BY <1>3, <2>1
    <3>2. lane[l].dir # state.dir BY <1>4, <3>1 DEF Target, Source, Direction
    <3> QED BY <1>3, <2>1, <3>2
  <2>2. CASE d \notin good
    <3>1. doc[d] = Source(state.dir) BY <1>3, <2>2
    <3>2. d \in past.late BY <1>5, <3>1 DEF OldShape
    <3> QED BY <1>3, <3>2
  <2> QED BY <2>1, <2>2
<1>6. \A k \in Coord : Idle(k)' = Idle(k) BY <1>1 DEF Idle
<1> QED BY <1>1, <1>2, <1>5, <1>6 DEF Clean, SameOusted

LEMMA AppWriteCleans ==
  ASSUME Types, Clean, NEW d \in Doc, NEW s \in {"old", "new"}, AppWrite(d, s)
  PROVE  Clean'
<1>1. UNCHANGED <<state, co>> BY DEF AppWrite
<1>2. doc' = [doc EXCEPT ![d] = s] /\ past'.late = past.late \cup {d} /\ SameOusted BY AppWriteStep
<1>3. doc \in [Doc -> {"old", "new"}] BY DEF Types
<1>4. OldShape(state.dir, Poison)' \subseteq OldShape(state.dir, Poison) \cup {d}
  BY <1>1, <1>2, <1>3 DEF OldShape, Source
<1>5. OldShape(state.dir, Poison) \subseteq past.late => OldShape(state.dir, Poison)' \subseteq past'.late
  BY <1>2, <1>4
<1>6. \A k \in Coord : Idle(k)' = Idle(k) BY <1>1 DEF Idle
<1> QED BY <1>1, <1>2, <1>5, <1>6 DEF Clean, SameOusted

\* Whoever is at work when the state is replaced is at work for an earlier one.
LEMMA AnewCleans ==
  ASSUME Anew, UNCHANGED co
  PROVE  Clean'
<1>1. state'.status # "completed" /\ past'.ousted = {c \in Coord : ~Idle(c)} BY DEF Anew
<1>2. \A c \in Coord \ past'.ousted : Idle(c)' /\ co'[c].pc # "complete" BY <1>1 DEF Idle
<1> QED BY <1>1, <1>2 DEF Clean

\* A lane's other steps.
LEMMA LaneCleans ==
  ASSUME Types, Clean, NEW l \in Lane,
         \/ Slice(l) \/ Claim(l) \/ Control(l) \/ Yield(l) \/ Save(l) \/ Budget(l) \/ LaneFails(l)
         \/ LaneCrash(l) \/ \E s \in {"running", "failed"} : SliceFails(l, s)
  PROVE  Clean'
<1>1. CASE Slice(l) \/ Claim(l) \/ Control(l) \/ Yield(l) \/ Budget(l)
  <2>1. UNCHANGED <<doc, state, co, past>> BY <1>1 DEF Slice, Claim, Control, Yield, Budget
  <2> QED BY <2>1, StillClean DEF CountStands, SameOusted
<1>2. CASE Save(l)
  <2>1. UNCHANGED <<doc, state, co>> BY <1>2 DEF Save
  <2>2. past'.late = past.late /\ SameOusted BY <1>2, SaveStep
  <2> QED BY <2>1, <2>2, StillClean DEF CountStands
<1>3. CASE LaneFails(l)
  <2>1. UNCHANGED <<doc, co, past>> BY <1>3 DEF LaneFails
  <2>2. state'.dir = state.dir /\ (state'.status = "completed" => state.status = "completed")
    BY <1>3, LaneFailsStep DEF SamePlan
  <2> QED BY <2>1, <2>2, StillClean DEF CountStands, SameOusted
<1>4. CASE LaneCrash(l)
  <2>1. UNCHANGED <<doc, state, co>> BY <1>4 DEF LaneCrash
  <2>2. past'.late = past.late /\ SameOusted BY <1>4, LaneCrashStep DEF SameHistory
  <2> QED BY <2>1, <2>2, StillClean DEF CountStands
<1>5. ASSUME NEW s \in {"running", "failed"}, SliceFails(l, s) PROVE Clean'
  <2>1. UNCHANGED <<doc, state, co>> BY <1>5 DEF SliceFails
  <2>2. past'.late = past.late /\ SameOusted BY <1>5, SliceFailsStep DEF SameHistory
  <2> QED BY <2>1, <2>2, StillClean DEF CountStands
<1> QED BY <1>1, <1>2, <1>3, <1>4, <1>5

\* What operators and deploys do short of registering the migration again.
LEMMA DeskCleans ==
  ASSUME Types, Clean,
         \/ Unblock \/ Operate \/ Register \/ Withdraw \/ WithdrawPauses \/ WithdrawWaits
         \/ WaitTimesOut \/ WithdrawChecks \/ WithdrawRefused
         \/ \E b \in BOOLEAN : Require(b) \/ Repin(b)
         \/ \E act \in Acts : Ask(act)
  PROVE  Clean'
<1>1. CASE Unblock
  <2>1. UNCHANGED <<doc, co, past>> BY <1>1 DEF Unblock
  <2>2. state'.dir = state.dir /\ state'.status # "completed" BY <1>1, UnblockStep DEF Types, StateDoc
  <2> QED BY <2>1, <2>2, StillClean DEF CountStands, SameOusted
<1>2. CASE Move
  <2>1. UNCHANGED <<doc, co>> BY <1>2 DEF Move
  <2>2. /\ past'.late = past.late /\ SameOusted /\ state'.dir = state.dir
        /\ state'.status = "completed" => state.status = "completed"
    BY <1>2, MoveStep DEF SameHistory
  <2> QED BY <2>1, <2>2, StillClean DEF CountStands
<1>3. CASE MoveParts
  <2>1. UNCHANGED <<doc, state, co>> BY <1>3 DEF MoveParts
  <2>2. past'.late = past.late /\ SameOusted BY <1>3, MovePartsStep
  <2> QED BY <2>1, <2>2, StillClean DEF CountStands
<1>4. CASE Pin
  <2>1. UNCHANGED <<doc, co, past>> BY <1>4 DEF Pin
  <2>2. state'.dir = state.dir /\ state'.status = state.status BY <1>4, PinStep DEF SamePlan
  <2> QED BY <2>1, <2>2, StillClean DEF CountStands, SameOusted
<1>5. CASE Register
  <2>1. UNCHANGED <<doc, state, co>> BY <1>5 DEF Register
  <2>2. past'.late = past.late /\ SameOusted BY <1>5, RegisterStep
  <2> QED BY <2>1, <2>2, StillClean DEF CountStands
<1>6. CASE Withdraw
  <2>1. UNCHANGED <<doc, state, co>> BY <1>6 DEF Withdraw
  <2>2. past'.late = past.late /\ SameOusted BY <1>6, WithdrawStep DEF SameHistory
  <2> QED BY <2>1, <2>2, StillClean DEF CountStands
<1>7. CASE WithdrawPauses
  <2>1. UNCHANGED <<doc, co, past>> BY <1>7 DEF WithdrawPauses
  <2>2. state'.dir = state.dir /\ (state'.status = "completed" => state.status = "completed")
    BY <1>7, WithdrawPausesStep DEF SamePlan
  <2> QED BY <2>1, <2>2, StillClean DEF CountStands, SameOusted
<1>8. CASE WithdrawRefused
  <2>1. UNCHANGED <<doc, co, past>> BY <1>8 DEF WithdrawRefused
  <2>2. state'.dir = state.dir /\ (state'.status = "completed" => state.status = "completed")
    BY <1>8, WithdrawRefusedStep DEF SamePlan
  <2> QED BY <2>1, <2>2, StillClean DEF CountStands, SameOusted
<1>9. CASE \/ Drift \/ WithdrawWaits \/ WaitTimesOut \/ WithdrawChecks
           \/ \E b \in BOOLEAN : Require(b) \/ Repin(b)
           \/ \E act \in Acts : Ask(act)
  <2>1. UNCHANGED <<doc, state, co, past>>
    BY <1>9 DEF Drift, WithdrawWaits, WaitTimesOut, WithdrawChecks, Require, Repin, Ask
  <2> QED BY <2>1, StillClean DEF CountStands, SameOusted
<1> QED BY <1>1, <1>2, <1>3, <1>4, <1>5, <1>6, <1>7, <1>8, <1>9 DEF Operate

LEMMA InitClean == Init => Clean
<1> SUFFICES ASSUME Init PROVE Clean OBVIOUS
<1>1. state.status # "completed" BY RegisteredFacts DEF Init
<1>2. \A c \in Coord : co[c].pc = "idle" BY Emptiness DEF Init
<1> QED BY <1>1, <1>2 DEF Clean, Idle

LEMMA NextClean == Types /\ OnlyPoison /\ Clean /\ [Next]_vars => Clean'
<1> SUFFICES ASSUME Types, OnlyPoison, Clean, [Next]_vars PROVE Clean' OBVIOUS
<1>1. ASSUME NEW c \in Coord, Coordinate(c) PROVE Clean'
  BY <1>1, StartCleans, JudgeCleans, CompleteCleans, PlainCleans DEF Coordinate
<1>2. ASSUME NEW l \in Lane, Work(l) \/ Yield(l) \/ Batch(l, FALSE) PROVE Clean'
  <2>1. TRUE \in BOOLEAN /\ FALSE \in BOOLEAN OBVIOUS
  <2> QED BY <1>2, <2>1, LaneCleans, BatchCleans DEF Work
<1>3. ASSUME NEW p \in DOMAIN parts, Expire(p) PROVE Clean'
  <2>1. UNCHANGED <<doc, state, co>> BY <1>3 DEF Expire
  <2>2. past'.late = past.late /\ SameOusted BY <1>3, ExpireStep
  <2> QED BY <2>1, <2>2, StillClean DEF CountStands
<1>4. CASE Swap
  <2>1. UNCHANGED co BY <1>4 DEF Swap
  <2> QED BY <1>4, <2>1, SwapStep, AnewCleans
<1>5. CASE RemoveUnplanned \/ WithdrawRemoves
  <2>1. Remove /\ UNCHANGED <<doc, lock, co, lane, op, prereq, spec, used>>
    BY <1>5 DEF RemoveUnplanned, WithdrawRemoves
  <2> QED BY <2>1, RemoveStep, AnewCleans
<1>6. CASE Fails
  <2>1. ASSUME NEW c \in Coord, CoordCrash(c) \/ Reshard(c) PROVE Clean' BY <2>1, PlainCleans
  <2>2. ASSUME NEW c \in Coord, LoseLock(c) PROVE Clean'
    <3>1. UNCHANGED <<doc, state, co, past>> BY <2>2 DEF LoseLock
    <3> QED BY <3>1, StillClean DEF CountStands, SameOusted
  <2>3. ASSUME NEW l \in Lane, LaneCrash(l) \/ \E s \in {"running", "failed"} : SliceFails(l, s)
        PROVE  Clean'
    BY <2>3, LaneCleans
  <2> QED BY <1>6, <2>1, <2>2, <2>3 DEF Fails
<1>7. ASSUME NEW d \in Doc, NEW s \in {"old", "new"}, AppWrite(d, s) PROVE Clean'
  BY <1>7, AppWriteCleans
<1>8. CASE UNCHANGED vars
  <2>1. UNCHANGED <<doc, state, co, past>> BY <1>8 DEF vars
  <2> QED BY <2>1, StillClean DEF CountStands, SameOusted
<1> QED BY <1>1, <1>2, <1>3, <1>4, <1>5, <1>6, <1>7, <1>8, DeskCleans DEF Next, Deploys

-----------------------------------------------------------------------------
(* What is rewritten, and counted *)

\* A lane has a batch only between its write and its checkpoint, and before the first
\* checkpoint lands every rewritten document is in such a batch or was left uncounted.
Written ==
  /\ \A l \in Lane : lane[l].good # {} => lane[l].pc = "save"
  /\ past.work = {} => \A d \in past.rewrote :
       d \in past.unsaved \/ \E l \in Lane : d \in lane[l].good

SameWritten ==
  past'.rewrote = past.rewrote /\ past'.unsaved = past.unsaved /\ past'.work = past.work

LEMMA WrittenStays ==
  ASSUME Written, UNCHANGED lane, SameWritten
  PROVE  Written'
BY DEF Written, SameWritten

\* A lane that has no batch does something else.
LEMMA LaneIdles ==
  ASSUME Written, NEW l \in Lane, OnlyLane(l), lane[l].pc # "save", lane'[l].good = {}, SameWritten
  PROVE  Written'
<1>1. lane[l].good = {} BY DEF Written
<1>2. \A k \in Lane : lane'[k].good = lane[k].good /\ (lane'[k].good # {} => lane'[k].pc = lane[k].pc)
  BY <1>1 DEF OnlyLane
<1> QED BY <1>2 DEF Written, SameWritten

\* A lane leaves its batch uncounted.
LEMMA LaneDrops ==
  ASSUME Types, Written, NEW l \in Lane, LaneGoes(l, NoLane), past' = Unsaved(l)
  PROVE  Written'
<1>1. lane'[l] = NoLane /\ OnlyLane(l) BY LaneEnds
<1>2. lane'[l].good = {} BY <1>1 DEF NoLane
<1>3. past \in History BY DEF Types
<1>4. /\ past'.rewrote = past.rewrote /\ past'.work = past.work
      /\ past'.unsaved = past.unsaved \cup lane[l].good
  BY <1>3 DEF Unsaved, History
<1>5. \A k \in Lane : lane'[k].good # {} => lane'[k].pc = "save" BY <1>1, <1>2 DEF Written, OnlyLane
<1>6. ASSUME past'.work = {}, NEW d \in past'.rewrote
      PROVE  d \in past'.unsaved \/ \E k \in Lane : d \in lane'[k].good
  <2>1. d \in past.unsaved \/ \E k \in Lane : d \in lane[k].good BY <1>4, <1>6 DEF Written
  <2>2. CASE d \in past.unsaved BY <1>4, <2>2
  <2>3. ASSUME NEW k \in Lane, d \in lane[k].good
        PROVE  d \in past'.unsaved \/ \E j \in Lane : d \in lane'[j].good
    <3>1. CASE k = l BY <1>4, <2>3, <3>1
    <3>2. CASE k # l BY <1>1, <2>3, <3>2 DEF OnlyLane
    <3> QED BY <3>1, <3>2
  <2> QED BY <2>1, <2>2, <2>3
<1> QED BY <1>5, <1>6 DEF Written

LEMMA BatchWrites ==
  ASSUME Types, Written, NEW l \in Lane, NEW all \in BOOLEAN, Batch(l, all)
  PROVE  Written'
<1>1. OnlyLane(l) /\ lane[l].pc = "write" /\ lane'[l].pc = "save" /\ past'.work = past.work BY BatchStep
<1>2. past \in History /\ lane \in [Lane -> LaneRec] BY DEF Types
<1>3. PICK good : /\ past'.rewrote = past.rewrote \cup good /\ past'.unsaved = past.unsaved
                  /\ lane'[l].good = good
  <2> DEFINE rest == Matching(l)
             batch == IF all \/ rest = {} THEN rest ELSE {Min(rest)}
  <2>1. PICK good : good = batch \ Poison OBVIOUS
  <2>2. PICK bad : bad = batch \cap Poison OBVIOUS
  <2>3. PICK done : done = (all \/ rest = {}) OBVIOUS
  <2>4. PICK last : last = IF batch = {} THEN 0 ELSE Max(batch) OBVIOUS
  <2>5. PICK late : late = IF lane[l].dir = state.dir THEN past.late ELSE past.late \cup good OBVIOUS
  <2>6. PICK R : R = past.rewrote \cup good OBVIOUS
  <2>7. /\ LaneGoes(l, [lane[l] EXCEPT !.pc = "save", !.good = good, !.failed = bad, !.done = done,
                                       !.last = last])
        /\ past' = [past EXCEPT !.late = IF lane[l].dir = state.dir THEN @ ELSE @ \cup good,
                                !.rewrote = @ \cup good]
    BY <2>1, <2>2, <2>3, <2>4 DEF Batch
  <2> HIDE DEF rest, batch
  <2>8. past' = [past EXCEPT !.late = late, !.rewrote = R] BY <2>5, <2>6, <2>7
  <2>9. past'.rewrote = R /\ past'.unsaved = past.unsaved BY <1>2, <2>8 DEF History
  <2>10. lane'[l].good = good BY <1>2, <2>7 DEF LaneGoes, LaneRec
  <2> QED BY <2>6, <2>9, <2>10
<1>4. lane[l].good = {} BY <1>1 DEF Written
<1>5. \A k \in Lane : lane'[k].good # {} => lane'[k].pc = "save" BY <1>1 DEF Written, OnlyLane
<1>6. ASSUME past'.work = {}, NEW d \in past'.rewrote
      PROVE  d \in past'.unsaved \/ \E k \in Lane : d \in lane'[k].good
  <2>1. CASE d \in good BY <1>3, <2>1
  <2>2. CASE d \in past.rewrote
    <3>1. d \in past.unsaved \/ \E k \in Lane : d \in lane[k].good BY <1>1, <1>6, <2>2 DEF Written
    <3>2. \A k \in Lane : d \in lane[k].good => k # l BY <1>4
    <3> QED BY <1>1, <1>3, <3>1, <3>2 DEF OnlyLane
  <2> QED BY <1>3, <1>6, <2>1, <2>2
<1> QED BY <1>5, <1>6 DEF Written

\* A checkpoint that lands has counted its batch: if nothing is counted, there was
\* nothing in it.
LEMMA SaveWrites ==
  ASSUME Types, Written, NEW l \in Lane, Save(l)
  PROVE  Written'
<1>1. CASE ~(Holds(l) /\ parts[At(l)].status = "running")
  <2>1. LaneGoes(l, NoLane) /\ past' = Unsaved(l) BY <1>1 DEF Save
  <2> QED BY <2>1, LaneDrops
<1>2. CASE Holds(l) /\ parts[At(l)].status = "running"
  <2>1. PICK p \in DOMAIN parts : p = At(l) BY <1>2 DEF Holds
  <2>2. lane[l] \in LaneRec /\ PartOK(parts[p]) /\ past \in History /\ lane \in [Lane -> LaneRec]
    BY DEF Types, PartsOK
  <2>3. PICK m \in Nat : m = parts[p].migrated BY <2>2 DEF PartOK, Partition
  <2>4. PICK n \in Nat : n = Cardinality(lane[l].good) BY <2>2, DocSets DEF LaneRec
  <2>5. PICK counts : counts = Counts(p, m + 1, m + n) OBVIOUS
  <2>6. PICK W : W = past.work \cup counts OBVIOUS
  <2>7. PICK L : L = IF parts[p].gen <= state.rolled /\ p[1] # state.token
                       THEN past.leaks \cup counts ELSE past.leaks
    OBVIOUS
  <2>8. past' = [past EXCEPT !.work = W, !.leaks = L]
    <3>1. past' = [past EXCEPT !.work = @ \cup counts,
                               !.leaks = IF parts[p].gen <= state.rolled /\ p[1] # state.token
                                           THEN @ \cup counts ELSE @]
      BY <1>2, <2>1, <2>3, <2>4, <2>5 DEF Save
    <3> QED BY <3>1, <2>6, <2>7
  <2>9. /\ past'.rewrote = past.rewrote /\ past'.unsaved = past.unsaved
        /\ past'.work = past.work \cup counts
    BY <2>2, <2>6, <2>8 DEF History
  <2>10. OnlyLane(l) BY SaveStep
  <2>11. lane'[l].good = {}
    <3> DEFINE then == [lane[l] EXCEPT !.from = lane[l].last, !.good = {}, !.last = 0,
                                       !.failed = {}, !.worked = TRUE]
               next == IF lane[l].failed # {} THEN [then EXCEPT !.pc = "budget"]
                       ELSE IF lane[l].done THEN NoLane ELSE [then EXCEPT !.pc = "control"]
    <3>1. LaneGoes(l, next) BY <1>2 DEF Save
    <3>2. then \in LaneRec /\ then.good = {} BY <2>2 DEF LaneRec
    <3> HIDE DEF then
    <3>3. [then EXCEPT !.pc = "budget"].good = {} /\ [then EXCEPT !.pc = "control"].good = {}
      BY <3>2 DEF LaneRec
    <3>4. next.good = {} BY <3>3 DEF NoLane
    <3> HIDE DEF next
    <3>5. lane'[l] = next BY <2>2, <3>1 DEF LaneGoes
    <3> QED BY <3>4, <3>5
  <2>12. \A k \in Lane : lane'[k].good # {} => lane'[k].pc = "save" BY <2>10, <2>11 DEF Written, OnlyLane
  <2>13. ASSUME past'.work = {}, NEW d \in past'.rewrote
         PROVE  d \in past'.unsaved \/ \E k \in Lane : d \in lane'[k].good
    <3>1. counts = {} /\ past.work = {} BY <2>9, <2>13
    <3>2. n = 0
      <4>1. Cardinality(counts) = n BY <2>3, <2>4, <2>5, CountsNumber
      <4> QED BY <3>1, <4>1, FS_EmptySet
    <3>3. lane[l].good = {}
      <4>1. IsFiniteSet(lane[l].good) BY <2>2, DocSets DEF LaneRec
      <4> QED BY <2>4, <3>2, <4>1, FS_EmptySet
    <3>4. d \in past.unsaved \/ \E k \in Lane : d \in lane[k].good BY <2>9, <2>13, <3>1 DEF Written
    <3> QED BY <2>9, <2>10, <3>3, <3>4 DEF OnlyLane
  <2> QED BY <2>12, <2>13 DEF Written
<1> QED BY <1>1, <1>2

\* What the coordinators do to the history leaves what was written and counted.
LEMMA CoordinatorWrites ==
  ASSUME Types, Written, NEW c \in Coord,
         Coordinate(c) \/ CoordCrash(c) \/ LoseLock(c) \/ Reshard(c)
  PROVE  Written'
<1>1. past \in History BY DEF Types
<1>2. CASE \/ Supersede(c) \/ Drain(c) \/ Insert(c) \/ Commit(c) \/ Activate(c) \/ Look(c) \/ Total(c)
           \/ Fail(c) \/ CoordCrash(c) \/ LoseLock(c) \/ Reshard(c)
  <2>1. UNCHANGED <<lane, past>>
    BY <1>2 DEF Supersede, Drain, Insert, Commit, Activate, Look, Total, Fail, CoordCrash, LoseLock, Reshard
  <2> QED BY <2>1, WrittenStays DEF SameWritten
<1>3. CASE Start(c)
  <2>1. UNCHANGED lane /\ past' = [past EXCEPT !.ousted = @ \ {c}] BY <1>3 DEF Start
  <2> QED BY <1>1, <2>1, WrittenStays DEF SameWritten, History
<1>4. CASE Tidy(c) \/ NextPass(c)
  <2>1. PICK L : UNCHANGED lane /\ past' = [past EXCEPT !.leaks = L] BY <1>4 DEF Tidy, NextPass
  <2> QED BY <1>1, <2>1, WrittenStays DEF SameWritten, History
<1>5. CASE Roll(c)
  <2>1. PICK L : past' = past \/ past' = [past EXCEPT !.leaks = L] BY <1>5 DEF Roll
  <2>2. UNCHANGED lane BY <1>5 DEF Roll
  <2> QED BY <1>1, <2>1, <2>2, WrittenStays DEF SameWritten, History
<1>6. CASE Judge(c)
  <2>1. past' = past \/ past' = [past EXCEPT !.late = {}] BY <1>6 DEF Judge
  <2>2. UNCHANGED lane BY <1>6 DEF Judge
  <2> QED BY <1>1, <2>1, <2>2, WrittenStays DEF SameWritten, History
<1>7. CASE Complete(c)
  <2>1. PICK L : L = Leaks(UpTo(co[c].st.gen - 1)) OBVIOUS
  <2>2. PICK m : m = IF state.status \in {"pending", "running"} THEN c \in past.ousted ELSE past.misled OBVIOUS
  <2>3. UNCHANGED lane /\ past' = [past EXCEPT !.leaks = L, !.misled = m] BY <1>7, <2>1, <2>2 DEF Complete
  <2> QED BY <1>1, <2>3, WrittenStays DEF SameWritten, History
<1> QED BY <1>2, <1>3, <1>4, <1>5, <1>6, <1>7 DEF Coordinate

LEMMA LaneWrites ==
  ASSUME Types, Written, NEW l \in Lane,
         \/ Slice(l) \/ Claim(l) \/ Control(l) \/ Yield(l) \/ Save(l) \/ Budget(l) \/ LaneFails(l)
         \/ LaneCrash(l) \/ \E s \in {"running", "failed"} : SliceFails(l, s)
  PROVE  Written'
<1>1. lane \in [Lane -> LaneRec] /\ lane[l] \in LaneRec BY DEF Types
<1>2. NoLane.good = {} BY DEF NoLane
<1>3. ASSUME lane[l].pc # "save", UNCHANGED past,
             \/ LaneGoes(l, NoLane)
             \/ \E pc : LaneGoes(l, [lane[l] EXCEPT !.pc = pc])
      PROVE  Written'
  <2>1. OnlyLane(l) BY <1>1, <1>3 DEF LaneGoes, OnlyLane
  <2>2. lane[l].good = {} BY <1>3 DEF Written
  <2>3. lane'[l].good = {} BY <1>1, <1>2, <1>3, <2>2 DEF LaneGoes, LaneRec
  <2> QED BY <1>3, <2>1, <2>3, LaneIdles DEF SameWritten
<1>4. CASE Slice(l)
  <2>1. PICK g, t, dir, skip :
          LaneGoes(l, [NoLane EXCEPT !.pc = "claim", !.gen = g, !.token = t, !.dir = dir, !.skip = skip])
    BY <1>4 DEF Slice
  <2>2. OnlyLane(l) /\ lane'[l].good = {} BY <1>1, <2>1 DEF LaneGoes, OnlyLane, NoLane
  <2>3. lane[l].pc # "save" /\ UNCHANGED past BY <1>4 DEF Slice
  <2> QED BY <2>2, <2>3, LaneIdles DEF SameWritten
<1>5. CASE Claim(l)
  <2>1. lane[l].pc # "save" /\ UNCHANGED past BY <1>5 DEF Claim
  <2>2. CASE LaneGoes(l, NoLane) BY <1>3, <2>1, <2>2
  <2>3. CASE ~LaneGoes(l, NoLane)
    <3>1. PICK p, scope, from :
            LaneGoes(l, [lane[l] EXCEPT !.pc = "control", !.part = p, !.scope = scope, !.from = from])
      BY <1>5, <2>3 DEF Claim
    <3>2. lane[l].good = {} BY <2>1 DEF Written
    <3>3. OnlyLane(l) /\ lane'[l].good = {} BY <1>1, <3>1, <3>2 DEF LaneGoes, OnlyLane, LaneRec
    <3> QED BY <2>1, <3>3, LaneIdles DEF SameWritten
  <2> QED BY <2>2, <2>3
<1>6. CASE Control(l) \/ Yield(l) \/ Budget(l) \/ LaneFails(l)
  <2>1. lane[l].pc # "save" /\ UNCHANGED past BY <1>6 DEF Control, Yield, Budget, LaneFails
  <2>2. \/ LaneGoes(l, NoLane)
        \/ \E pc : LaneGoes(l, [lane[l] EXCEPT !.pc = pc])
    BY <1>6 DEF Control, Yield, Budget, LaneFails
  <2> QED BY <1>3, <2>1, <2>2
<1>7. CASE LaneCrash(l) \/ \E s \in {"running", "failed"} : SliceFails(l, s)
  <2>1. LaneGoes(l, NoLane) /\ past' = Unsaved(l) BY <1>7 DEF LaneCrash, SliceFails
  <2> QED BY <2>1, LaneDrops
<1> QED BY <1>4, <1>5, <1>6, <1>7, SaveWrites

\* A new registration has nothing rewritten.
LEMMA RenewedWrites ==
  ASSUME Types, Written, UNCHANGED lane, NEW x, past' = Renewed \/ past' = [Renewed EXCEPT !.crossed = x]
  PROVE  Written'
<1>1. past \in History BY DEF Types
<1>2. PICK S, y : Renewed = [past EXCEPT !.late = {}, !.rewrote = {}, !.unsaved = {}, !.work = {},
                                         !.leaks = {}, !.ousted = S, !.crossed = y]
  BY DEF Renewed
<1>3. past'.rewrote = {} BY <1>1, <1>2 DEF History
<1> QED BY <1>3 DEF Written

LEMMA DeskWrites ==
  ASSUME Types, Written, Operate \/ Register \/ Withdraw
  PROVE  Written'
<1>1. past \in History BY DEF Types
<1>2. CASE Drift \/ Pin
  <2>1. UNCHANGED <<lane, past>> BY <1>2 DEF Drift, Pin
  <2> QED BY <2>1, WrittenStays DEF SameWritten
<1>3. CASE Move
  <2>1. PICK x, y : past' = past \/ past' = [past EXCEPT !.crossed = x, !.resumed = y] BY <1>3 DEF Move
  <2>2. UNCHANGED lane BY <1>3 DEF Move
  <2> QED BY <1>1, <2>1, <2>2, WrittenStays DEF SameWritten, History
<1>4. CASE MoveParts
  <2>1. PICK L, x : \/ past' = past
                    \/ past' = [past EXCEPT !.leaks = L, !.crossed = x]
                    \/ past' = [past EXCEPT !.crossed = x]
    BY <1>4 DEF MoveParts
  <2>2. UNCHANGED lane BY <1>4 DEF MoveParts
  <2> QED BY <1>1, <2>1, <2>2, WrittenStays DEF SameWritten, History
<1>5. CASE Register
  <2>1. PICK L, x : past' = [past EXCEPT !.leaks = L, !.crossed = x] BY <1>5 DEF Register
  <2>2. UNCHANGED lane BY <1>5 DEF Register
  <2> QED BY <1>1, <2>1, <2>2, WrittenStays DEF SameWritten, History
<1>6. CASE Withdraw
  <2>1. UNCHANGED lane /\ past' = [past EXCEPT !.resumed = FALSE] BY <1>6 DEF Withdraw
  <2> QED BY <1>1, <2>1, WrittenStays DEF SameWritten, History
<1> QED BY <1>2, <1>3, <1>4, <1>5, <1>6 DEF Operate

LEMMA InitWritten == Init => Written
<1> SUFFICES ASSUME Init PROVE Written OBVIOUS
<1>1. \A l \in Lane : lane[l].good = {} BY DEF Init, NoLane
<1>2. past.rewrote = {} BY DEF Init
<1> QED BY <1>1, <1>2 DEF Written

LEMMA NextWritten == Types /\ Written /\ [Next]_vars => Written'
<1> SUFFICES ASSUME Types, Written, [Next]_vars PROVE Written' OBVIOUS
<1>1. past \in History BY DEF Types
<1>2. ASSUME NEW c \in Coord, Coordinate(c) PROVE Written' BY <1>2, CoordinatorWrites
<1>3. ASSUME NEW l \in Lane, Work(l) \/ Yield(l) \/ Batch(l, FALSE) PROVE Written'
  <2>1. TRUE \in BOOLEAN /\ FALSE \in BOOLEAN OBVIOUS
  <2> QED BY <1>3, <2>1, LaneWrites, BatchWrites DEF Work
<1>4. ASSUME NEW p \in DOMAIN parts, Expire(p) PROVE Written'
  <2>1. past' = past \/ past' = [past EXCEPT !.stalled = TRUE] BY <1>4 DEF Expire
  <2>2. UNCHANGED lane BY <1>4 DEF Expire
  <2> QED BY <1>1, <2>1, <2>2, WrittenStays DEF SameWritten, History
<1>5. CASE Operate \/ Register \/ Withdraw BY <1>5, DeskWrites
<1>6. CASE Swap
  <2>1. PICK x : x = (Renewed.crossed \/ op.pc # "idle" \/ DOMAIN parts # {}) OBVIOUS
  <2>2. UNCHANGED lane /\ past' = [Renewed EXCEPT !.crossed = x] BY <1>6, <2>1 DEF Swap
  <2> QED BY <2>2, RenewedWrites
<1>7. CASE RemoveUnplanned \/ WithdrawRemoves
  <2>1. UNCHANGED lane /\ past' = Renewed BY <1>7 DEF RemoveUnplanned, WithdrawRemoves, Remove
  <2> QED BY <2>1, RenewedWrites
<1>8. CASE Fails
  <2>1. ASSUME NEW c \in Coord, CoordCrash(c) \/ LoseLock(c) \/ Reshard(c) PROVE Written'
    BY <2>1, CoordinatorWrites
  <2>2. ASSUME NEW l \in Lane, LaneCrash(l) \/ \E s \in {"running", "failed"} : SliceFails(l, s)
        PROVE  Written'
    BY <2>2, LaneWrites
  <2> QED BY <1>8, <2>1, <2>2 DEF Fails
<1>9. ASSUME NEW d \in Doc, NEW s \in {"old", "new"}, AppWrite(d, s) PROVE Written'
  <2>1. PICK L : UNCHANGED lane /\ past' = [past EXCEPT !.late = L] BY <1>9 DEF AppWrite
  <2> QED BY <1>1, <2>1, WrittenStays DEF SameWritten, History
<1>10. CASE \/ Unblock \/ WithdrawPauses \/ WithdrawWaits \/ WaitTimesOut \/ WithdrawChecks \/ WithdrawRefused
            \/ \E b \in BOOLEAN : Require(b) \/ Repin(b)
            \/ \E act \in Acts : Ask(act)
            \/ UNCHANGED vars
  <2>1. UNCHANGED <<lane, past>>
    BY <1>10 DEF Unblock, WithdrawPauses, WithdrawWaits, WaitTimesOut, WithdrawChecks, WithdrawRefused,
                 Require, Repin, Ask, vars
  <2> QED BY <2>1, WrittenStays DEF SameWritten
<1> QED BY <1>2, <1>3, <1>4, <1>5, <1>6, <1>7, <1>8, <1>9, <1>10 DEF Next, Deploys

-----------------------------------------------------------------------------
(* What they say of completion and withdrawal *)

\* A completed migration has left nothing in the old shape but what cannot be
\* migrated and what was written since the count that completed it (finalize's
\* fresh count), whoever raced for it: retries, retries from the start, registrations
\* and other coordinators.  Only a coordinator that began before the migration was
\* registered again completes it on a count of something else.
THEOREM CompletedIsClean == Spec => []CompletedClean
<1>1. IInv /\ Clean /\ [Next]_vars => Clean' BY NextClean DEF IInv
<1>2. Spec => []Clean BY <1>1, InitClean, PassesInvariant, PTL DEF Spec
<1>3. Clean => CompletedClean BY DEF Clean, CompletedClean
<1> QED BY <1>2, <1>3, PTL

\* Only a withdrawal removes the state.
LEMMA NoneStays ==
  ASSUME Types, Next, ~RemoveUnplanned, ~WithdrawRemoves
  PROVE  state'.status = "none" => state.status = "none"
<1> USE DEF Types
<1>1. ASSUME NEW c \in Coord, Coordinate(c) PROVE state'.status = "none" => state.status = "none"
  <2>1. CASE Drain(c) BY <2>1 DEF Drain, StateDoc
  <2>2. CASE Commit(c) BY <2>2, CommitStep
  <2>3. CASE Activate(c) BY <2>3 DEF Activate, StateDoc
  <2>4. CASE Roll(c) BY <2>4, RollStep
  <2>5. CASE Complete(c) BY <2>5 DEF Complete, StateDoc
  <2>6. CASE NextPass(c) BY <2>6 DEF NextPass, StateDoc
  <2>7. CASE Fail(c) BY <2>7, FailedFacts DEF Fail
  <2>8. CASE Start(c) \/ Supersede(c) \/ Insert(c) \/ Tidy(c)
    <3>1. UNCHANGED state BY <2>8 DEF Start, Supersede, Insert, Tidy
    <3> QED BY <3>1
  <2>9. CASE Look(c) \/ Total(c) \/ Judge(c)
    <3>1. UNCHANGED state BY <2>9 DEF Look, Total, Judge
    <3> QED BY <3>1
  <2> QED BY <1>1, <2>1, <2>2, <2>3, <2>4, <2>5, <2>6, <2>7, <2>8, <2>9 DEF Coordinate
<1>2. ASSUME NEW l \in Lane, Work(l) \/ Yield(l) \/ Batch(l, FALSE)
      PROVE  state'.status = "none" => state.status = "none"
  <2>1. CASE LaneFails(l) BY <2>1, FailedFacts DEF LaneFails
  <2>2. CASE Slice(l) \/ Claim(l) \/ Control(l) \/ Budget(l) \/ Yield(l)
    <3>1. UNCHANGED state BY <2>2 DEF Slice, Claim, Control, Budget, Yield
    <3> QED BY <3>1
  <2>3. CASE Save(l)
    <3>1. UNCHANGED state BY <2>3 DEF Save
    <3> QED BY <3>1
  <2>4. ASSUME NEW b \in BOOLEAN, Batch(l, b) PROVE state'.status = "none" => state.status = "none"
    <3>1. UNCHANGED state BY <2>4 DEF Batch
    <3> QED BY <3>1
  <2> QED BY <1>2, <2>1, <2>2, <2>3, <2>4 DEF Work
<1>3. ASSUME NEW p \in DOMAIN parts, Expire(p) PROVE UNCHANGED state BY <1>3 DEF Expire
<1>4. CASE Unblock BY <1>4 DEF Unblock, StateDoc
<1>5. CASE Operate
  <2>1. CASE Move BY <2>1, MoveStep
  <2>2. CASE Pin BY <2>2, PinStep
  <2>3. CASE UNCHANGED state BY <2>3
  <2> QED BY <1>5, <2>1, <2>2, <2>3 DEF Operate, Drift, MoveParts
<1>6. CASE Deploys
  <2>1. CASE Swap BY <2>1, SwapStep
  <2>2. CASE WithdrawPauses BY <2>2, WithdrawPausesStep
  <2>3. CASE WithdrawRefused BY <2>3, WithdrawRefusedStep
  <2>4. CASE UNCHANGED state BY <2>4
  <2> QED BY <1>6, <2>1, <2>2, <2>3, <2>4 DEF Deploys, WithdrawWaits, WaitTimesOut, WithdrawChecks
<1>7. CASE Fails
  <2>1. ASSUME NEW c \in Coord, Reshard(c) PROVE state'.status = "none" => state.status = "none"
    BY <2>1 DEF Reshard, StateDoc
  <2>2. CASE UNCHANGED state BY <2>2
  <2> QED BY <1>7, <2>1, <2>2 DEF Fails, CoordCrash, LoseLock, LaneCrash, SliceFails
<1>8. ASSUME NEW d \in Doc, NEW s \in {"old", "new"}, AppWrite(d, s) PROVE UNCHANGED state
  BY <1>8 DEF AppWrite
<1>9. ASSUME NEW b \in BOOLEAN, Require(b) \/ Repin(b) PROVE state'.status = "none" => state.status = "none"
  BY <1>9, RepinStep DEF Require
<1>10. CASE (\E act \in Acts : Ask(act)) \/ Register \/ Withdraw BY <1>10 DEF Ask, Register, Withdraw
<1> QED BY <1>1, <1>2, <1>3, <1>4, <1>5, <1>6, <1>7, <1>8, <1>9, <1>10 DEF Next

\* When the state is removed, no lane holds a batch it can still count, nothing is
\* counted, and so every rewritten document is in a batch that never is.
LEMMA RemovedUnwritten ==
  ASSUME IInv, Written, Next, state.status # "none", state'.status = "none",
         ~past.resumed, ~past.stalled, ~past.crossed, past.leaks = {}
  PROVE  past.rewrote \subseteq past.unsaved \cup Uncountable
<1>1. Types /\ Quiet /\ Accounted /\ Views /\ Names BY DEF IInv
<1>2. past.work = {} /\ \A l \in Lane : lane[l].good # {} => ~Holds(l)
  <2>1. CASE RemoveUnplanned
    <3>1. state.gen = 0 BY <2>1 DEF RemoveUnplanned
    <3>2. past.work = {} BY <1>1, <3>1 DEF Accounted
    <3>3. ASSUME NEW l \in Lane, lane[l].good # {}, Holds(l) PROVE FALSE
      <4>1. lane[l].pc = "save" BY <3>3 DEF Written
      <4>2. At(l) \in DOMAIN parts /\ At(l)[1] = lane[l].token
        BY <1>1, <3>3, <4>1 DEF Holds, At, Names, InPlan
      <4>3. Seen(lane[l]) BY <1>1, <4>1, <4>2 DEF Views
      <4>4. parts[At(l)].gen = lane[l].gen BY <1>1, <4>2 DEF Names, Named, Held
      <4>5. parts[At(l)].gen \in Nat /\ parts[At(l)].gen >= 1
        BY <1>1, <4>2 DEF Types, PartsOK, PartOK, Partition
      <4> QED BY <3>1, <4>3, <4>4, <4>5 DEF Seen
    <3> QED BY <3>2, <3>3
  <2>2. CASE WithdrawRemoves
    <3>1. deploy.pc = "remove" BY <2>2 DEF WithdrawRemoves
    <3>2. past.work = {} BY <1>1, <3>1 DEF Quiet
    <3>3. \A l \in Lane : ~(Writing(l) /\ Holds(l)) BY <1>1, <3>1 DEF Quiet
    <3>4. \A l \in Lane : lane[l].good # {} => Writing(l) BY DEF Written, Writing
    <3> QED BY <3>2, <3>3, <3>4
  <2> QED BY <1>1, <2>1, <2>2, NoneStays
<1>3. ASSUME NEW d \in past.rewrote PROVE d \in past.unsaved \cup Uncountable
  <2>1. d \in past.unsaved \/ \E l \in Lane : d \in lane[l].good BY <1>2 DEF Written
  <2>2. ASSUME NEW l \in Lane, d \in lane[l].good PROVE d \in Uncountable
    <3>1. ~Holds(l) BY <1>2, <2>2
    <3> QED BY <2>2, <3>1 DEF Uncountable
  <2> QED BY <2>1, <2>2
<1> QED BY <1>3

\* A migration is withdrawn (down without a revert) only if no lane rewrote a
\* document, but in a batch that no checkpoint counts: no lane with a lease is in the
\* middle of a batch once the deploy has seen that there is no live lease, unless its
\* lease expired under it or somebody resumed the migration, or a retry or a replan
\* dropped the counters.
THEOREM WithdrawnIsUnwritten == Spec => WithdrawnUnwritten
<1>1. IInv /\ Written /\ [Next]_vars => Written' BY NextWritten DEF IInv
<1>2. Spec => []Written BY <1>1, InitWritten, PassesInvariant, PTL DEF Spec
<1>3. IInv /\ Written /\ [Next]_vars =>
        [(/\ state.status # "none" /\ state'.status = "none"
          /\ ~past.resumed /\ ~past.stalled /\ ~past.crossed /\ past.leaks = {})
         => past.rewrote \subseteq past.unsaved \cup Uncountable]_vars
  <2>1. ASSUME IInv, Written, [Next]_vars, state.status # "none", state'.status = "none",
               ~past.resumed, ~past.stalled, ~past.crossed, past.leaks = {}
        PROVE  past.rewrote \subseteq past.unsaved \cup Uncountable
    <3>1. Next BY <2>1 DEF vars
    <3> QED BY <2>1, <3>1, RemovedUnwritten
  <2> QED BY <2>1
<1> QED BY <1>2, <1>3, PassesInvariant, PTL DEF Spec, WithdrawnUnwritten
=============================================================================
