--------------------------- MODULE BackgroundPasses ---------------------------
(***************************************************************************)
(* A background migration over its passes (core/background.js, the state   *)
(* and partition collections of core/background-store.js): coordinators,   *)
(* each under the coordinator lock, plan a pass, wait for its partitions,  *)
(* roll their counters into the state and complete it, fail it or plan the *)
(* next pass; lanes work the partitions; an operator pauses, resumes,      *)
(* cancels, retries and pins it again; a deploy reverts or withdraws it    *)
(* (core/background-kit.js); the drift check reopens it                    *)
(* (core/background-drift.js); the application writes all the while.       *)
(*                                                                         *)
(* Each action is one access to the database and what is decided on it, so *)
(* everybody else comes between any two of them.  Every process acts on the*)
(* copy of the state it read.  Lanes are those of BackgroundLanes, without *)
(* slots, transactions and conflicts; step migrations are left out.        *)
(***************************************************************************)
EXTENDS Integers, FiniteSets, FiniteSetsExt, Functions

CONSTANTS
  Coord,         \* processes that coordinate
  Lane,          \* lanes
  Doc,           \* the documents, by _id
  Bracket,       \* the type bracket of each _id
  Poison,        \* the documents whose transformation fails
  Budgets,       \* the values of spec.maxDocumentErrors to consider
  Reversible,    \* the values of spec.reversible to consider
  MaxPasses,     \* spec.maxPasses
  None,          \* nobody
  MaxPlans,      \* bound on plans inserted
  MaxFaults,     \* bound on crashes, stalls, lost locks, failed slices and reshards
  MaxWrites,     \* bound on the application's writes
  MaxControls    \* bound on controls and deploys

ASSUME DocAssumption ==
  /\ Doc \subseteq Nat \ {0} /\ IsFiniteSet(Doc) /\ Doc # {}
  /\ Poison \subseteq Doc /\ DOMAIN Bracket = Doc
ASSUME NoneAssumption == None \notin Coord /\ None \notin Lane
ASSUME SettingsAssumption ==
  Budgets \subseteq Nat /\ Reversible \subseteq BOOLEAN /\ MaxPasses \in Nat \ {0}
ASSUME BoundsAssumption == {MaxPlans, MaxFaults, MaxWrites, MaxControls} \subseteq Nat

VARIABLES
  doc,        \* the shape of each document
  state,      \* the state document
  parts,      \* the partitions: those of plan t are <<t, 0>>, <<t, 1>>, ...
  lock,       \* who holds the coordinator lock
  co,         \* what each coordinator is doing
  lane,       \* what each lane is doing
  op,         \* the operator, or the drift check
  deploy,     \* the deploy
  prereq,     \* whether everything in `requires` is done
  spec,       \* maxDocumentErrors and reversible
  used,       \* how much of each bound was used
  past        \* history, see History

vars == <<doc, state, parts, lock, co, lane, op, deploy, prereq, spec, used, past>>

Token == 1..MaxPlans
Status == {"none", "blocked", "pending", "running", "paused", "completed", "failed", "cancelled"}
Terminal == {"completed", "failed", "cancelled"}
OpenPartition == {"pending", "running"}
Direction == {"forward", "revert"}

\* The shape a direction rewrites, and the one it writes.
Source(dir) == IF dir = "forward" THEN "old" ELSE "new"
Target(dir) == IF dir = "forward" THEN "new" ELSE "old"

\* The state of a new registration; token 0 is no plan.  `stale` is whether the
\* plan's match hash is not the spec's, `pin` the checksum, `failed` whether
\* failedPartitions > 0.
Registered(status, dir) ==
  [status |-> status, phase |-> "partition", pass |-> 0, gen |-> 0, token |-> 0,
   stale |-> FALSE, rolled |-> 0, bad |-> {}, failed |-> FALSE, total |-> 0,
   dir |-> dir, pin |-> 0]

StateDoc == [status: Status, phase: {"partition", "process", "replan"}, pass: Nat, gen: Nat,
             token: Token \cup {0}, stale: BOOLEAN, rolled: Nat, bad: SUBSET Doc,
             failed: BOOLEAN, total: Nat, dir: Direction, pin: Nat]

Partition == [gen: Nat, scope: SUBSET Doc,
              status: OpenPartition \cup {"done", "failed", "cancelled", "superseded"},
              lease: Lane \cup {None}, live: BOOLEAN, cursor: Nat, migrated: Nat,
              bad: SUBSET Doc]

CoordSteps == {"idle", "replan", "drain", "plan", "commit", "tidy", "activate", "look",
               "close", "roll", "judge", "complete", "next", "fail"}

\* A coordinator: the state as it last saw it, what its job scans, whether the
\* plan it makes is a new pass, the plan it inserted, and the totals it read.
NoCoord == [pc |-> "idle", st |-> Registered("none", "forward"), skip |-> {}, dir |-> "forward",
            new |-> TRUE, token |-> 0, empty |-> FALSE,
            sum |-> [migrated |-> 0, bad |-> {}, failed |-> FALSE]]

\* A lane: its slice's plan, what its job skips, its partition with the range and
\* cursor it read, and its batch.
NoLane == [pc |-> "idle", gen |-> 0, token |-> 0, dir |-> "forward", skip |-> {},
           part |-> <<0, 0>>, scope |-> {}, from |-> 0,
           good |-> {}, failed |-> {}, last |-> 0, done |-> FALSE, worked |-> FALSE]

NoOp == [pc |-> "idle", act |-> "none", st |-> Registered("none", "forward")]

NoDeploy == [pc |-> "idle", st |-> NoOp.st, paused |-> FALSE]

\* History: documents the application, or a lane of an earlier registration, made
\* old since the count that completion goes by; whether the state was replaced or
\* its pass retried under a coordinator at work; the coordinators at work when it was
\* registered again, and whether one of those completed it; whether someone resumed
\* what a deploy had paused; whether a lease expired under a lane that goes on; the
\* documents that lanes rewrote, and those of them that no checkpoint counted; what
\* the checkpoints counted, and what of it was dropped uncounted.  A count is the
\* n-th rewritten document of a partition, with its generation.
Count == Nat \X (Token \X Nat) \X Nat

History == [late: SUBSET Doc, crossed: BOOLEAN, ousted: SUBSET Coord, misled: BOOLEAN,
            resumed: BOOLEAN, stalled: BOOLEAN, rewrote: SUBSET Doc, unsaved: SUBSET Doc,
            work: SUBSET Count, leaks: SUBSET Count]

TypeOK ==
  /\ doc \in [Doc -> {"old", "new"}]
  /\ state \in StateDoc
  /\ \A p \in DOMAIN parts : parts[p] \in Partition /\ (parts[p].live => parts[p].lease # None)
  /\ lock \in Coord \cup {None}
  /\ \A c \in Coord : co[c].pc \in CoordSteps /\ co[c].st \in StateDoc
  /\ \A l \in Lane : lane[l].pc \in {"idle", "claim", "control", "write", "save", "budget", "fail"}
  /\ op.st \in StateDoc
  /\ deploy.pc \in {"idle", "swap", "judge", "pause", "wait", "check", "resume", "remove"}
  /\ deploy.st \in StateDoc
  /\ prereq \in BOOLEAN
  /\ used \in [plans: 0..MaxPlans, faults: 0..MaxFaults, writes: 0..MaxWrites, controls: 0..MaxControls]
  /\ past \in History

Init ==
  /\ doc \in [Doc -> {"old"}]
  /\ prereq \in BOOLEAN
  /\ state = Registered(IF prereq THEN "pending" ELSE "blocked", "forward")
  /\ parts = <<>>
  /\ lock = None
  /\ co = [c \in Coord |-> NoCoord]
  /\ lane = [l \in Lane |-> NoLane]
  /\ op = NoOp /\ deploy = NoDeploy
  /\ spec \in [budget: Budgets, reversible: Reversible]
  /\ used = [plans |-> 0, faults |-> 0, writes |-> 0, controls |-> 0]
  /\ past = [late |-> {}, crossed |-> FALSE, ousted |-> {}, misled |-> FALSE,
             resumed |-> FALSE, stalled |-> FALSE, rewrote |-> {}, unsaved |-> {},
             work |-> {}, leaks |-> {}]

Use(k, max) == used[k] < max /\ used' = [used EXCEPT ![k] = @ + 1]
Fault == Use("faults", MaxFaults)

Is(t) == {p \in DOMAIN parts : p[1] = t}
Open(p) == parts[p].status \in OpenPartition
Live == {p \in DOMAIN parts : parts[p].lease # None /\ parts[p].live}
Counts(p, from, to) == {<<parts[p].gen, p, n>> : n \in from..to}
Counted(S) == UNION {Counts(p, 1, parts[p].migrated) : p \in S}
\* The sum of the counters of the partitions S.
Counters(S) == Cardinality(Counted(S))
Unrolled == {p \in DOMAIN parts : parts[p].gen > state.rolled}
BadOf(S) == UNION {parts[p].bad : p \in S}
OldShape(dir, skip) == {d \in Doc \ skip : doc[d] = Source(dir)}

\* The partitions of S are deleted.
Delete(S) == parts' = Restrict(parts, DOMAIN parts \ S)
Leaks(S) == past.leaks \cup Counted(S \cap Unrolled)

\* Partitions of generations up to g, and those of other plans than t that are not done.
UpTo(g) == {p \in DOMAIN parts : parts[p].gen <= g}
Foreign(t) == {p \in DOMAIN parts : p[1] # t /\ (Open(p) \/ parts[p].status = "superseded")}

Statused(S, s) == [p \in DOMAIN parts |-> IF p \in S THEN [parts[p] EXCEPT !.status = s] ELSE parts[p]]

Idle(c) == co[c].pc = "idle"
CoordinatorAtWork == \E c \in Coord : ~Idle(c)

-----------------------------------------------------------------------------
(* A coordinator *)

Goes(c, r) == co' = [co EXCEPT ![c] = r]

\* The step ends: the lock is released, if it is still this one's.
Release(c) ==
  /\ Goes(c, NoCoord)
  /\ lock' = IF lock = c THEN None ELSE lock

\* The top of the loop: a plan to replace, none or one of another spec, or one to
\* work.
Top(st) == IF st.phase = "replan" THEN "replan"
           ELSE IF st.phase = "partition" \/ st.token = 0 \/ st.stale THEN "plan"
           ELSE IF st.status = "pending" THEN "activate" ELSE "look"

\* Going on with the state after a compare-and-set, or the one read when it was
\* lost; a state that is gone ends the step.
GoesOn(c, st, pc) ==
  IF st.status = "none" THEN Release(c)
  ELSE Goes(c, [co[c] EXCEPT !.st = st, !.pc = pc, !.sum = NoCoord.sum, !.new = pc # "replan"])
       /\ UNCHANGED lock

\* A coordinator takes the lock, reads the state, and makes its job of it.
Start(c) ==
  /\ Idle(c) /\ lock = None
  /\ state.status \in {"pending", "running"}
  /\ lock' = c
  /\ Goes(c, [NoCoord EXCEPT !.pc = Top(state), !.st = state, !.skip = state.bad,
                             !.dir = state.dir, !.new = state.phase # "replan"])
  /\ past' = [past EXCEPT !.ousted = @ \ {c}]
  /\ UNCHANGED <<doc, state, parts, lane, op, deploy, prereq, spec, used>>

\* tryUnblock, by a coordinator or by the completion of what was required: the
\* look at `requires` and the move are one step.
Unblock ==
  /\ state.status = "blocked" /\ prereq
  /\ state' = [state EXCEPT !.status = "pending"]
  /\ UNCHANGED <<doc, parts, lock, co, lane, op, deploy, prereq, spec, used, past>>

\* The collection was resharded since the plan: the same pass is planned again.
Reshard(c) ==
  /\ co[c].pc \in {"activate", "look"} /\ Fault
  /\ LET hit == state.phase = "process" /\ state.token = co[c].st.token IN
     /\ state' = IF hit THEN [state EXCEPT !.phase = "replan"] ELSE state
     /\ GoesOn(c, state', Top(state'))
  /\ UNCHANGED <<doc, parts, lane, op, deploy, prereq, spec, past>>

\* A replan supersedes the open partitions of the plan it replaces.
Supersede(c) ==
  /\ co[c].pc = "replan"
  /\ parts' = Statused({p \in Is(co[c].st.token) : Open(p)}, "superseded")
  /\ Goes(c, [co[c] EXCEPT !.pc = "drain"])
  /\ UNCHANGED <<doc, state, lock, lane, op, deploy, prereq, spec, used, past>>

\* ... and waits for every lane: this step ends while one has a live lease.
Drain(c) ==
  /\ co[c].pc = "drain"
  /\ IF Live # {} THEN Release(c) /\ UNCHANGED state
     ELSE LET hit == state.status # "none" /\ state.phase = "replan" IN
          /\ state' = IF hit THEN [state EXCEPT !.phase = "partition"] ELSE state
          /\ Goes(c, [co[c] EXCEPT !.pc = "plan", !.st = IF hit THEN state' ELSE @])
          /\ UNCHANGED lock
  /\ UNCHANGED <<doc, parts, lane, op, deploy, prereq, spec, used, past>>

\* Cut a bracket at the documents of K: the range of _ids that begins at lo.
RangeOf(b, K, lo) ==
  {d \in Doc : Bracket[d] = b /\ lo <= d /\ ~\E k \in K : Bracket[k] = b /\ lo < k /\ k <= d}

\* The plans of the documents S: a range of each bracket they are in, cut at some
\* of them but the first.
Plans(S) ==
  LET Inner == {d \in S : \E e \in S : Bracket[e] = Bracket[d] /\ e < d}
      present == {Bracket[d] : d \in S} IN
  {{RangeOf(b, K, 0) : b \in present} \cup {RangeOf(Bracket[k], K, k) : k \in K} : K \in SUBSET Inner}

\* What still matches is split, and inserted under a fresh plan token.
Insert(c) ==
  /\ co[c].pc = "plan" /\ Use("plans", MaxPlans)
  /\ LET t == used.plans + 1
         g == co[c].st.gen + 1 IN
     \E P \in Plans(OldShape(co[c].dir, co[c].skip)) :
       /\ parts' = [p \in DOMAIN parts \cup {<<t, Min(r)>> : r \in P} |->
                      IF p \in DOMAIN parts THEN parts[p]
                      ELSE [gen |-> g, scope |-> CHOOSE r \in P : Min(r) = p[2], status |-> "pending",
                            lease |-> None, live |-> FALSE, cursor |-> 0, migrated |-> 0, bad |-> {}]]
       /\ Goes(c, [co[c] EXCEPT !.pc = "commit", !.token = t, !.empty = P = {}])
  /\ UNCHANGED <<doc, state, lock, lane, op, deploy, prereq, spec, past>>

\* The filter of the commit: the generation, plan and checksum that were planned against.
Commits(st) ==
  /\ state.status \in {"pending", "running"}
  /\ state.gen = st.gen /\ state.token = st.token /\ state.pin = st.pin

\* The state moves to the plan, or its partitions are deleted again.
Commit(c) ==
  /\ co[c].pc = "commit"
  /\ IF Commits(co[c].st)
       THEN /\ state' = [state EXCEPT !.gen = co[c].st.gen + 1, !.token = co[c].token,
                                      !.phase = "process", !.stale = FALSE,
                                      !.pass = co[c].st.pass + (IF co[c].new THEN 1 ELSE 0)]
            /\ Goes(c, [co[c] EXCEPT !.st = state', !.pc = "tidy"])
            /\ UNCHANGED <<parts, lock>>
       ELSE Delete(Is(co[c].token)) /\ Release(c) /\ UNCHANGED state
  /\ UNCHANGED <<doc, lane, op, deploy, prereq, spec, used, past>>

\* What lost races and replans left of other plans goes.
Tidy(c) ==
  /\ co[c].pc = "tidy"
  /\ Delete(Foreign(co[c].st.token))
  /\ past' = [past EXCEPT !.leaks = Leaks(Foreign(co[c].st.token))]
  /\ Goes(c, [co[c] EXCEPT !.pc = IF co[c].empty THEN "close" ELSE Top(co[c].st),
                           !.token = 0, !.empty = FALSE])
  /\ UNCHANGED <<doc, state, lock, lane, op, deploy, prereq, spec, used>>

Activate(c) ==
  /\ co[c].pc = "activate"
  /\ LET hit == state.status = "pending" IN
     /\ state' = IF hit THEN [state EXCEPT !.status = "running"] ELSE state
     /\ Goes(c, [co[c] EXCEPT !.pc = "look", !.st = IF hit THEN state' ELSE @])
  /\ UNCHANGED <<doc, parts, lock, lane, op, deploy, prereq, spec, used, past>>

Expired(p) == parts[p].lease # None /\ ~parts[p].live

\* Mutant: nobody frees them.
ReapedNever == parts

Reaped == [p \in DOMAIN parts |-> IF Expired(p) THEN [parts[p] EXCEPT !.lease = None] ELSE parts[p]]

StillOpen(S) == \E p \in S : Open(p)

\* Expired leases are reaped and the plan's partitions counted: its lanes go on,
\* or the pass is closed.
Look(c) ==
  /\ co[c].pc = "look"
  /\ parts' = Reaped
  /\ IF StillOpen(Is(co[c].st.token))
       THEN Release(c)
       ELSE Goes(c, [co[c] EXCEPT !.pc = "close"]) /\ UNCHANGED lock
  /\ UNCHANGED <<doc, state, lane, op, deploy, prereq, spec, used, past>>

Generation(c) == {p \in DOMAIN parts : parts[p].gen = co[c].st.gen}

\* finalize: the generation's counters are read, unless they are rolled up already.
Total(c) ==
  /\ co[c].pc = "close"
  /\ Goes(c, IF co[c].st.rolled < co[c].st.gen
               THEN [co[c] EXCEPT !.pc = "roll",
                       !.sum = [migrated |-> Counters(Generation(c)),
                                bad |-> co[c].st.bad \cup BadOf(Generation(c)),
                                failed |-> \E p \in Generation(c) : parts[p].status = "failed"]]
               ELSE [co[c] EXCEPT !.pc = "judge"])
  /\ UNCHANGED <<doc, state, parts, lock, lane, op, deploy, prereq, spec, used, past>>

\* Mutant: the roll-up is not guarded by the generation.
RollsAgain(g) == state.status # "none"

\* The generation was not rolled up meanwhile.
Rolls(g) == state.status # "none" /\ state.rolled < g

\* ... and rolled into the state, once per generation.  What an earlier one that
\* was planned again counted stays behind.
Roll(c) ==
  /\ co[c].pc = "roll"
  /\ state' = IF Rolls(co[c].st.gen)
                THEN [state EXCEPT !.rolled = co[c].st.gen, !.total = @ + co[c].sum.migrated,
                                   !.bad = co[c].sum.bad, !.failed = @ \/ co[c].sum.failed]
                ELSE state
  /\ past' = IF Rolls(co[c].st.gen) THEN [past EXCEPT !.leaks = Leaks(UpTo(co[c].st.gen - 1))]
             ELSE past
  /\ GoesOn(c, state', "judge")
  /\ UNCHANGED <<doc, parts, lane, op, deploy, prereq, spec, used>>

\* Mutant: every partition is done, so nothing can be left.
RemainingNone(c) == {}

\* What is left in the old shape, but for the documents that could not be migrated.
Remaining(c) == OldShape(co[c].dir, co[c].st.bad)

\* A failed partition fails it, nothing left completes it, and what is left after
\* maxPasses passes fails it: the count is fresh.
Judge(c) ==
  /\ co[c].pc = "judge"
  /\ LET failed == co[c].st.failed
         left == Remaining(c) # {} IN
     /\ Goes(c, [co[c] EXCEPT !.pc = IF failed THEN "fail"
                                     ELSE IF ~left THEN "complete"
                                     ELSE IF co[c].st.pass >= MaxPasses THEN "fail" ELSE "next"])
     /\ past' = IF failed \/ left \/ c \in past.ousted
                   \/ \E k \in Coord \ past.ousted : co[k].pc = "complete"
                THEN past ELSE [past EXCEPT !.late = {}]
  /\ UNCHANGED <<doc, state, parts, lock, lane, op, deploy, prereq, spec, used>>

\* The move asks for the status alone: whose registration was counted, it does not
\* ask.
Complete(c) ==
  /\ co[c].pc = "complete"
  /\ LET hit == state.status \in {"pending", "running"} IN
     /\ state' = IF hit THEN [state EXCEPT !.status = "completed", !.phase = "process"] ELSE state
     /\ past' = [past EXCEPT !.leaks = Leaks(UpTo(co[c].st.gen - 1)),
                             !.misled = IF hit THEN c \in past.ousted ELSE @]
  /\ Delete(UpTo(co[c].st.gen - 1))
  /\ Release(c)
  /\ UNCHANGED <<doc, lane, op, deploy, prereq, spec, used>>

\* The next pass is planned by this step, unless it has lost its lock.
NextPass(c) ==
  /\ co[c].pc = "next"
  /\ state' = IF state.gen = co[c].st.gen /\ state.phase = "process"
                THEN [state EXCEPT !.phase = "partition"] ELSE state
  /\ Delete(UpTo(co[c].st.gen - 1))
  /\ past' = [past EXCEPT !.leaks = Leaks(UpTo(co[c].st.gen - 1))]
  /\ IF lock = c THEN GoesOn(c, state', Top(state')) ELSE Release(c)
  /\ UNCHANGED <<doc, lane, op, deploy, prereq, spec, used>>

Failed == IF state.status \in {"blocked", "pending", "running"}
            THEN [state EXCEPT !.status = "failed"] ELSE state

Fail(c) ==
  /\ co[c].pc = "fail"
  /\ state' = Failed
  /\ Release(c)
  /\ UNCHANGED <<doc, parts, lane, op, deploy, prereq, spec, used, past>>

\* A coordinator's process dies, and its lock's TTL runs out.
CoordCrash(c) ==
  /\ ~Idle(c) /\ Fault
  /\ Release(c)
  /\ UNCHANGED <<doc, state, parts, lane, op, deploy, prereq, spec, past>>

\* The lock is taken from a coordinator that stalls.
LoseLock(c) ==
  /\ lock = c /\ Fault
  /\ lock' = None
  /\ UNCHANGED <<doc, state, parts, co, lane, op, deploy, prereq, spec, past>>

-----------------------------------------------------------------------------
(* A lane *)

LaneGoes(l, r) == lane' = [lane EXCEPT ![l] = r]
At(l) == lane[l].part
Alter(p, r) == parts' = [parts EXCEPT ![p] = r]

\* Whether the lane's lease on its partition stands.
Holds(l) == At(l) \in DOMAIN parts /\ parts[At(l)].lease = l

\* A slice reads the state: there is a plan to work.
Slice(l) ==
  /\ lane[l].pc = "idle"
  /\ state.status = "running" /\ state.phase = "process"
  /\ LaneGoes(l, [NoLane EXCEPT !.pc = "claim", !.gen = state.gen, !.token = state.token,
                                !.dir = state.dir, !.skip = state.bad])
  /\ UNCHANGED <<doc, state, parts, lock, co, op, deploy, prereq, spec, used, past>>

\* An open partition of the plan that was read is claimed, whatever the state is now.
Claim(l) ==
  /\ lane[l].pc = "claim"
  /\ LET free == {p \in Is(lane[l].token) : Open(p) /\ Reaped[p].lease = None} IN
     IF free = {} THEN parts' = Reaped /\ LaneGoes(l, NoLane)
     ELSE \E p \in free :
            /\ parts' = [Reaped EXCEPT ![p] = [@ EXCEPT !.status = "running", !.lease = l, !.live = TRUE]]
            /\ LaneGoes(l, [lane[l] EXCEPT !.pc = "control", !.part = p,
                                           !.scope = parts[p].scope, !.from = parts[p].cursor])
  /\ UNCHANGED <<doc, state, lock, co, op, deploy, prereq, spec, used, past>>

\* Mutant: a lease that is given back is not marked so.
UnleaseLive(l) == IF Holds(l) THEN Alter(At(l), [parts[At(l)] EXCEPT !.lease = None]) ELSE UNCHANGED parts

\* The lease is given back, if it is still held.
Unlease(l) == IF Holds(l) THEN Alter(At(l), [parts[At(l)] EXCEPT !.lease = None, !.live = FALSE])
                          ELSE UNCHANGED parts

\* The control read before a batch: go on, or stop.
Control(l) ==
  /\ lane[l].pc = "control"
  /\ IF state.status = "running" /\ state.gen = lane[l].gen /\ state.token = lane[l].token
       THEN LaneGoes(l, [lane[l] EXCEPT !.pc = "write"]) /\ UNCHANGED parts
       ELSE LaneGoes(l, NoLane) /\ Unlease(l)
  /\ UNCHANGED <<doc, state, lock, co, op, deploy, prereq, spec, used, past>>

\* Its time is up after a batch, or its process stops.
Yield(l) ==
  /\ lane[l].pc = "control"
  /\ IF lane[l].worked THEN UNCHANGED used ELSE Fault
  /\ LaneGoes(l, NoLane) /\ Unlease(l)
  /\ UNCHANGED <<doc, state, lock, co, op, deploy, prereq, spec, past>>

\* What the batch query matches.
Matching(l) == {d \in OldShape(lane[l].dir, lane[l].skip) \cap lane[l].scope : d > lane[l].from}

\* A batch, the partition's rest or its first document: what the transformation
\* takes is rewritten, lease or no lease.
Batch(l, all) ==
  /\ lane[l].pc = "write"
  /\ LET rest == Matching(l)
         batch == IF all \/ rest = {} THEN rest ELSE {Min(rest)}
         good == batch \ Poison IN
     /\ doc' = [d \in Doc |-> IF d \in good THEN Target(lane[l].dir) ELSE doc[d]]
     /\ LaneGoes(l, [lane[l] EXCEPT !.pc = "save", !.good = good, !.failed = batch \cap Poison,
                                    !.done = all \/ rest = {},
                                    !.last = IF batch = {} THEN 0 ELSE Max(batch)])
     /\ past' = [past EXCEPT !.late = IF lane[l].dir = state.dir THEN @ ELSE @ \cup good,
                             !.rewrote = @ \cup good]
  /\ UNCHANGED <<state, parts, lock, co, op, deploy, prereq, spec, used>>

\* The batch that the lane has written, if it has, is not counted.
Unsaved(l) == [past EXCEPT !.unsaved = @ \cup lane[l].good]

\* The fenced checkpoint; the partition is done, the error budget is judged, or
\* the next batch follows.  Without the lease the slice is lost.
Save(l) ==
  /\ lane[l].pc = "save"
  /\ IF Holds(l) /\ parts[At(l)].status = "running"
       THEN LET p == parts[At(l)]
                then == [lane[l] EXCEPT !.from = lane[l].last, !.good = {}, !.last = 0,
                                        !.failed = {}, !.worked = TRUE]
                next == IF lane[l].failed # {} THEN [then EXCEPT !.pc = "budget"]
                        ELSE IF lane[l].done THEN NoLane ELSE [then EXCEPT !.pc = "control"] IN
            /\ Alter(At(l), [p EXCEPT !.status = IF lane[l].done THEN "done" ELSE @,
                                      !.lease = IF lane[l].done THEN None ELSE @,
                                      !.live = ~lane[l].done,
                                      !.cursor = IF lane[l].done THEN @ ELSE lane[l].last,
                                      !.migrated = @ + Cardinality(lane[l].good),
                                      !.bad = @ \cup lane[l].failed])
            /\ LET counts == Counts(At(l), p.migrated + 1, p.migrated + Cardinality(lane[l].good))
                   late == p.gen <= state.rolled /\ At(l)[1] # state.token IN
               past' = [past EXCEPT !.work = @ \cup counts,
                                    !.leaks = IF late THEN @ \cup counts ELSE @]
            /\ LaneGoes(l, next)
       ELSE LaneGoes(l, NoLane) /\ Unlease(l) /\ past' = Unsaved(l)
  /\ UNCHANGED <<doc, state, lock, co, op, deploy, prereq, spec, used>>

\* More documents failed than the budget allows: the partition is failed, then
\* the state.
Budget(l) ==
  /\ lane[l].pc = "budget"
  /\ LET over == Cardinality(state.bad) + Cardinality(BadOf({p \in DOMAIN parts : parts[p].gen = lane[l].gen}))
                   > spec.budget IN
     IF over
       THEN /\ LaneGoes(l, [lane[l] EXCEPT !.pc = "fail"])
            /\ IF Holds(l) /\ Open(At(l))
                 THEN Alter(At(l), [parts[At(l)] EXCEPT !.status = "failed", !.lease = None, !.live = FALSE])
                 ELSE UNCHANGED parts
       ELSE /\ LaneGoes(l, IF lane[l].done THEN NoLane ELSE [lane[l] EXCEPT !.pc = "control"])
            /\ UNCHANGED parts
  /\ UNCHANGED <<doc, state, lock, co, op, deploy, prereq, spec, used, past>>

LaneFails(l) ==
  /\ lane[l].pc = "fail"
  /\ state' = Failed
  /\ LaneGoes(l, NoLane)
  /\ UNCHANGED <<doc, parts, lock, co, op, deploy, prereq, spec, used, past>>

\* A slice throws, at its batch or at its checkpoint: the partition is open again, or
\* failed for good.
SliceFails(l, s) ==
  /\ lane[l].pc \in {"write", "save"} /\ Holds(l) /\ Open(At(l)) /\ s \in {"running", "failed"}
  /\ Fault
  /\ Alter(At(l), [parts[At(l)] EXCEPT !.status = s, !.lease = None, !.live = FALSE])
  /\ LaneGoes(l, NoLane)
  /\ past' = Unsaved(l)
  /\ UNCHANGED <<doc, state, lock, co, op, deploy, prereq, spec>>

\* A lane's process dies: its lease stays until it expires.
LaneCrash(l) ==
  /\ lane[l].pc # "idle" /\ Fault
  /\ LaneGoes(l, NoLane)
  /\ past' = Unsaved(l)
  /\ UNCHANGED <<doc, state, parts, lock, co, op, deploy, prereq, spec>>

Abandoned(p) == lane[parts[p].lease].part # p

\* A lease is not renewed within its TTL: its holder is gone, or stalls.
Expire(p) ==
  /\ p \in Live
  /\ IF ~Abandoned(p)
       THEN Fault /\ past' = [past EXCEPT !.stalled = TRUE] ELSE UNCHANGED <<used, past>>
  /\ Alter(p, [parts[p] EXCEPT !.live = FALSE])
  /\ UNCHANGED <<doc, state, lock, co, lane, op, deploy, prereq, spec>>

-----------------------------------------------------------------------------
(* The application, and what others require *)

\* An old release makes a document old, a new one makes it new.
AppWrite(d, shape) ==
  /\ doc[d] # shape /\ Use("writes", MaxWrites)
  /\ doc' = [doc EXCEPT ![d] = shape]
  /\ past' = [past EXCEPT !.late = @ \cup {d}]
  /\ UNCHANGED <<state, parts, lock, co, lane, op, deploy, prereq, spec>>

\* What is required completes; or is reverted, retried or reopened.
Require(done) ==
  /\ prereq # done
  /\ IF done THEN UNCHANGED used ELSE Use("controls", MaxControls)
  /\ prereq' = done
  /\ UNCHANGED <<doc, state, parts, lock, co, lane, op, deploy, spec, past>>

-----------------------------------------------------------------------------
(* Controls *)

\* The transitions of each action: the statuses it moves, and to what.
Movable(act) == CASE act = "pause" -> {"blocked", "pending", "running"}
                  [] act = "resume" -> {"paused"}
                  [] act = "cancel" -> {"blocked", "pending", "running", "paused"}
                  [] act \in {"retry", "fromStart"} -> {"failed", "cancelled", "completed"}

Acts == {"pause", "resume", "cancel", "retry", "fromStart"}

Resumed(st) == IF ~prereq THEN "blocked"
               ELSE IF st.token # 0 /\ st.phase = "process" THEN "running" ELSE "pending"

MovesTo(st, act) == CASE act = "pause" -> "paused"
                      [] act = "resume" -> Resumed(st)
                      [] act = "cancel" -> "cancelled"
                      [] OTHER -> IF st.status = "completed" THEN "running" ELSE "pending"

\* Mutant: a pass that closed is resumed all the same.
ClosedNever(st) == FALSE

\* A pass whose counters are rolled up is not resumed.
Closed(st) == st.token # 0 /\ st.rolled >= st.gen

\* The state after the move of an action judged on st.
Moved(st, act) ==
  LET reopened == act \in {"retry", "fromStart"} /\ st.status = "completed" IN
  [state EXCEPT !.status = MovesTo(st, act),
                !.phase = IF reopened \/ act = "fromStart" \/ (act = "retry" /\ Closed(st))
                            THEN "partition" ELSE @,
                !.pass = IF act = "fromStart" THEN 0 ELSE @,
                !.bad = IF act = "fromStart" THEN {} ELSE @,
                !.failed = IF act \in {"retry", "fromStart"} THEN FALSE ELSE @]

\* An operator reads the state: the action fits its status.
Ask(act) ==
  /\ op.pc = "idle" /\ state.status \in Movable(act) /\ Use("controls", MaxControls)
  /\ op' = [pc |-> "move", act |-> act, st |-> state]
  /\ UNCHANGED <<doc, state, parts, lock, co, lane, deploy, prereq, spec, past>>

\* The requires guard of a later migration, or the drift check, finds old shapes
\* behind a completed forward migration.
Drift ==
  /\ op.pc = "idle" /\ state.status = "completed" /\ state.dir = "forward"
  /\ OldShape("forward", state.bad) # {}
  /\ op' = [pc |-> "move", act |-> "retry", st |-> state]
  /\ UNCHANGED <<doc, state, parts, lock, co, lane, deploy, prereq, spec, used, past>>

\* The move is on the status that was read; lost, the action is judged again.
Move ==
  /\ op.pc = "move"
  /\ IF state.status = op.st.status
       THEN /\ state' = Moved(op.st, op.act)
            /\ op' = [op EXCEPT !.pc = "parts"]
            /\ past' = [past EXCEPT !.crossed = @ \/ (op.act = "fromStart" /\ CoordinatorAtWork),
                                    !.resumed = @ \/ op.act \notin {"pause", "cancel"}]
       ELSE /\ op' = IF state.status \in Movable(op.act) THEN [op EXCEPT !.st = state] ELSE NoOp
            /\ UNCHANGED <<state, past>>
  /\ UNCHANGED <<doc, parts, lock, co, lane, deploy, prereq, spec, used>>

\* Then the partitions of the plan that was read: cancelled, dropped, or tried again.
MoveParts ==
  /\ op.pc = "parts" /\ op' = NoOp
  /\ LET st == op.st
         again == {p \in Is(st.token) : parts[p].status \in {"failed", "cancelled"}} IN
     CASE st.token # 0 /\ op.act = "cancel" ->
            parts' = Statused({p \in Is(st.token) : Open(p)}, "cancelled") /\ UNCHANGED past
       [] st.token # 0 /\ op.act = "fromStart" ->
            /\ Delete(UpTo(st.gen))
            /\ past' = [past EXCEPT !.leaks = Leaks(UpTo(st.gen)), !.crossed = @ \/ CoordinatorAtWork]
       [] st.token # 0 /\ op.act = "retry" /\ st.status # "completed" /\ ~Closed(st) ->
            /\ parts' = Statused(again, "pending")
            /\ past' = [past EXCEPT !.crossed = @ \/ CoordinatorAtWork \/ state.rolled # st.rolled]
       [] OTHER -> UNCHANGED <<parts, past>>
  /\ UNCHANGED <<doc, state, lock, co, lane, deploy, prereq, spec, used>>

\* repin reads the state, and whether what is on disk needs another plan.
Repin(replan) ==
  /\ op.pc = "idle" /\ state.status # "none" /\ Use("controls", MaxControls)
  /\ op' = [pc |-> "pin", act |-> IF replan THEN "replan" ELSE "repin", st |-> state]
  /\ UNCHANGED <<doc, state, parts, lock, co, lane, deploy, prereq, spec, past>>

\* What is on disk is pinned, its checksum and perhaps another match, and whether it
\* is planned again was decided on the state that was read: nothing is compared.
Pin ==
  /\ op.pc = "pin" /\ op' = NoOp
  /\ LET replan == op.act = "replan" IN
     state' = IF state.status = "none" THEN state
              ELSE [state EXCEPT !.pin = @ + 1, !.stale = @ \/ (replan /\ state.token # 0),
                                 !.phase = IF replan /\ op.st.status \notin Terminal /\ op.st.token # 0
                                             THEN "replan" ELSE @]
  /\ UNCHANGED <<doc, parts, lock, co, lane, deploy, prereq, spec, used, past>>

-----------------------------------------------------------------------------
(* down, and up again *)

DeployGoes(r) == deploy' = r

\* register: the old partitions go first, ...
Register ==
  /\ deploy.pc = "idle" /\ state.status # "none" /\ spec.reversible
  /\ Use("controls", MaxControls)
  /\ Delete(DOMAIN parts)
  /\ past' = [past EXCEPT !.leaks = Leaks(DOMAIN parts), !.crossed = @ \/ CoordinatorAtWork]
  /\ DeployGoes([deploy EXCEPT !.pc = "swap"])
  /\ UNCHANGED <<doc, state, lock, co, lane, op, prereq, spec>>

\* What history says of a registration begins anew, and the coordinators at work are
\* those of an earlier one.
Renewed ==
  [past EXCEPT !.late = {}, !.rewrote = {}, !.unsaved = {}, !.work = {}, !.leaks = {},
               !.ousted = {c \in Coord : ~Idle(c)}, !.crossed = @ \/ CoordinatorAtWork]

\* ... then the state is replaced by that of the other direction.
Swap ==
  /\ deploy.pc = "swap" /\ DeployGoes(NoDeploy)
  /\ state' = IF state.dir = "forward" THEN Registered("pending", "revert")
              ELSE Registered(IF prereq THEN "pending" ELSE "blocked", "forward")
  /\ past' = [Renewed EXCEPT !.crossed = @ \/ op.pc # "idle" \/ DOMAIN parts # {}]
  /\ UNCHANGED <<doc, parts, lock, co, lane, op, prereq, spec, used>>

\* What was rewritten, rolled up or not.
Progress == state.total + Counters(Unrolled)

\* down without a revert: refused once anything was rewritten.
Withdraw ==
  /\ deploy.pc = "idle" /\ state.status # "none" /\ ~spec.reversible
  /\ Use("controls", MaxControls)
  /\ DeployGoes(IF Progress > 0 THEN NoDeploy ELSE [deploy EXCEPT !.pc = "judge", !.st = state])
  /\ past' = [past EXCEPT !.resumed = FALSE]
  /\ UNCHANGED <<doc, state, parts, lock, co, lane, op, prereq, spec>>

\* The state and its partitions are deleted.
Remove ==
  /\ state' = Registered("none", "forward")
  /\ Delete(DOMAIN parts)
  /\ past' = Renewed
  /\ DeployGoes(NoDeploy)

\* A state that never had a plan goes at once.
RemoveUnplanned ==
  /\ deploy.pc = "judge" /\ deploy.st.gen = 0 /\ state.gen = 0
  /\ Remove
  /\ UNCHANGED <<doc, lock, co, lane, op, prereq, spec, used>>

\* Otherwise its lanes are paused: the action is judged, and moves the status it read.
WithdrawPauses ==
  /\ deploy.pc = "judge" /\ ~(deploy.st.gen = 0 /\ state.gen = 0)
  /\ LET hit == state.status \in Movable("pause") IN
     /\ state' = IF hit THEN [state EXCEPT !.status = "paused"] ELSE state
     /\ DeployGoes([deploy EXCEPT !.pc = "wait", !.paused = hit])
  /\ UNCHANGED <<doc, parts, lock, co, lane, op, prereq, spec, used, past>>

\* Mutant: nobody waits for the lanes.
LanesUnasked == TRUE

LanesStopped == Live = {}

\* ... waited for, and what they rewrote is looked at again.
WithdrawWaits ==
  /\ deploy.pc = "wait" /\ LanesStopped
  /\ DeployGoes([deploy EXCEPT !.pc = "check"])
  /\ UNCHANGED <<doc, state, parts, lock, co, lane, op, prereq, spec, used, past>>

\* The lanes do not stop in time.
WaitTimesOut ==
  /\ deploy.pc = "wait" /\ Live # {}
  /\ DeployGoes([deploy EXCEPT !.pc = "resume"])
  /\ UNCHANGED <<doc, state, parts, lock, co, lane, op, prereq, spec, used, past>>

WithdrawChecks ==
  /\ deploy.pc = "check"
  /\ DeployGoes([deploy EXCEPT !.pc = IF Progress > 0 THEN "resume" ELSE "remove"])
  /\ UNCHANGED <<doc, state, parts, lock, co, lane, op, prereq, spec, used, past>>

\* Refused: what was paused goes on.
WithdrawRefused ==
  /\ deploy.pc = "resume" /\ DeployGoes(NoDeploy)
  /\ state' = IF deploy.paused /\ state.status = "paused"
                THEN [state EXCEPT !.status = Resumed(state)] ELSE state
  /\ UNCHANGED <<doc, parts, lock, co, lane, op, prereq, spec, used, past>>

WithdrawRemoves ==
  /\ deploy.pc = "remove"
  /\ Remove
  /\ UNCHANGED <<doc, lock, co, lane, op, prereq, spec, used>>

-----------------------------------------------------------------------------
Coordinate(c) ==
  \/ Start(c) \/ Supersede(c) \/ Drain(c) \/ Insert(c) \/ Commit(c)
  \/ Tidy(c) \/ Activate(c) \/ Look(c) \/ Total(c) \/ Roll(c) \/ Judge(c) \/ Complete(c)
  \/ NextPass(c) \/ Fail(c)

Work(l) ==
  \/ Slice(l) \/ Claim(l) \/ Control(l) \/ Batch(l, TRUE) \/ Save(l) \/ Budget(l)
  \/ LaneFails(l)

Operate == Drift \/ Move \/ MoveParts \/ Pin

Deploys ==
  \/ Swap \/ RemoveUnplanned \/ WithdrawPauses \/ WithdrawWaits \/ WaitTimesOut
  \/ WithdrawChecks \/ WithdrawRefused \/ WithdrawRemoves

Fails ==
  \/ \E c \in Coord : CoordCrash(c) \/ LoseLock(c) \/ Reshard(c)
  \/ \E l \in Lane : LaneCrash(l) \/ \E s \in {"running", "failed"} : SliceFails(l, s)

Next ==
  \/ \E c \in Coord : Coordinate(c)
  \/ \E l \in Lane : Work(l) \/ Yield(l) \/ Batch(l, FALSE)
  \/ \E p \in DOMAIN parts : Expire(p)
  \/ Unblock \/ Operate \/ Deploys \/ Fails
  \/ \E d \in Doc, s \in {"old", "new"} : AppWrite(d, s)
  \/ \E b \in BOOLEAN : Require(b) \/ Repin(b)
  \/ \E act \in Acts : Ask(act)
  \/ Register \/ Withdraw

Spec == Init /\ [][Next]_vars

\* Coordinators and lanes are driven until the migration is done, leases of dead
\* lanes run out, what a control or a deploy began goes on, and drift is looked for.
Fairness ==
  /\ \A c \in Coord : WF_vars(Coordinate(c))
  /\ \A l \in Lane : WF_vars(Work(l))
  /\ WF_vars(\E p \in Live : Abandoned(p) /\ Expire(p))
  /\ WF_vars(Unblock) /\ WF_vars(Operate) /\ WF_vars(Deploys)

FairSpec == Spec /\ Fairness

-----------------------------------------------------------------------------
(* Properties *)

\* "completed" means it: no document is in the old shape but those that could not
\* be migrated and those made old since the last count, by the application or by a
\* lane of an earlier registration -- whichever coordinators, lanes and operators
\* raced for it (finalize's fresh count).  Only a coordinator whose job was made for
\* an earlier registration is left out: finalize's move would let it complete this
\* one.
CompletedClean ==
  state.status = "completed" /\ ~past.misled
    => OldShape(state.dir, Poison) \subseteq past.late

\* What lanes have written whose lease does not stand any more.
Uncountable == UNION {lane[l].good : l \in {k \in Lane : ~Holds(k)}}

\* The totals and the counters still to be rolled up never hold more than what the
\* checkpoints counted, and they lack only what a replan or a retry from the start
\* dropped, and what a lane still counted in a plan that had been replaced and left
\* behind by the roll-up: crashed, repeated and concurrent roll-ups double and lose
\* nothing (rolledGeneration).
TotalsKept ==
  ~past.crossed => /\ Progress <= Cardinality(past.work)
                   /\ Cardinality(past.work) <= Progress + Cardinality(past.leaks)

\* down withdraws a migration only if no lane rewrote a document, but in batches
\* whose checkpoint never landed, or cannot any more because the lane's partition is
\* gone or somebody else's: pausing and waiting for the lanes leaves no other in the
\* middle of a batch.  Left out are: counters that a replan or a retry from the start
\* dropped, somebody who resumes what down has paused, a lane that goes on although
\* its lease ran out, and a retry under a coordinator at work.
WithdrawnUnwritten ==
  [][(/\ state.status # "none" /\ state'.status = "none"
      /\ ~past.resumed /\ ~past.stalled /\ ~past.crossed /\ past.leaks = {})
     => past.rewrote \subseteq past.unsaved \cup Uncountable]_vars

\* Every migration comes to an end, whatever crashed, stalled or was planned again:
\* it waits for what it requires or for an operator, it has failed, or it is
\* completed and what an old release wrote since then has been found and migrated.
EndsClean ==
  <>[](\/ state.status \in {"none", "blocked", "paused", "cancelled", "failed"}
       \/ state.status = "completed" /\ OldShape("forward", Poison \cup state.bad) = {}
       \/ state.status = "completed" /\ state.dir = "revert")
=============================================================================
