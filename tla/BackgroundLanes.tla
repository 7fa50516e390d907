--------------------------- MODULE BackgroundLanes ---------------------------
(***************************************************************************)
(* The lanes of a background migration (core/background-engine.js, runSlice*)
(* of core/background.js, the leases of core/background-store.js) on one   *)
(* plan: each claims a partition together with a slot, rewrites its        *)
(* documents batch by batch while the application goes on writing them, and*)
(* moves the partition's cursor in a checkpoint that its lease fences.     *)
(*                                                                         *)
(* A batch without a transaction is read, guarded write, perhaps a second  *)
(* look at the documents somebody else changed, and checkpoint, each a step*)
(* of its own that other lanes, the application and crashes come between.  *)
(* In a transaction the write and the checkpoint are one step, which only  *)
(* happens when nothing that was read has changed.                         *)
(*                                                                         *)
(* A document is its place in _id order.  The heartbeat is what keeps a    *)
(* lease live; ExpireLease is when it failed to.  Tokens are random ids: one*)
(* that nobody holds any more may come up again.  Left out are the shard   *)
(* groups' second slot, the throttle's waiting, and step migrations.       *)
(***************************************************************************)
EXTENDS Integers, FiniteSets, FiniteSetsExt

CONSTANTS
  Lane,              \* the lanes of all processes
  Part,              \* the partitions of the plan, by seq
  Doc,               \* the documents, by _id
  Scope,             \* the documents in each partition's range
  Poison,            \* the documents whose transformation fails
  Token,             \* lease tokens
  Modes,             \* the values of spec.transaction to consider
  MaxParallel,       \* maxParallel: how many slots there are
  BatchSize,         \* batchSize
  MaxRetries,        \* maxConflictRetries, transaction.maxRetries
  MaxSliceFailures,  \* maxSliceFailures
  MaxDocErrors,      \* maxDocumentErrors
  NoToken,           \* not a token
  MaxWrites,         \* bound on the application's writes
  MaxFaults          \* bound on failures, crashes, lost leases and operators' acts

ASSUME PartAssumption == Part \subseteq Nat \ {0} /\ IsFiniteSet(Part)
ASSUME DocAssumption == Doc \subseteq Nat \ {0} /\ IsFiniteSet(Doc)
ASSUME ScopeAssumption ==
  /\ Scope \in [Part -> SUBSET Doc]
  /\ \A p, q \in Part : p # q => Scope[p] \cap Scope[q] = {}
ASSUME PoisonAssumption == Poison \subseteq Doc
ASSUME TokenAssumption == NoToken \notin Token
ASSUME SettingsAssumption ==
  /\ Modes \subseteq BOOLEAN
  /\ MaxParallel \in Nat \ {0} /\ BatchSize \in Nat \ {0} /\ MaxRetries \in Nat
  /\ MaxSliceFailures \in Nat \ {0} /\ MaxDocErrors \in Nat
ASSUME BoundsAssumption == MaxWrites \in Nat /\ MaxFaults \in Nat

VARIABLES
  doc,        \* the documents: shape, what the application wrote, revision
  status,     \* each partition's status
  cursor,     \* each partition's cursor: the last document behind it, or 0
  lease,      \* each partition's lease
  failures,   \* each partition's failed slices in a row
  migrated,   \* each partition's counter of documents migrated
  bad,        \* each partition's badIds
  ctl,        \* what a lane's control read finds
  lane,       \* what each lane is doing
  txn,        \* spec.transaction
  faults,     \* how many faults there have been
  rewritten,  \* history: the documents that lanes rewrote
  upgraded,   \* history: the documents that the application upgraded
  passed      \* history: the documents that a checkpoint left for the next pass

partVars == <<status, cursor, lease, failures, migrated, bad>>
pastVars == <<rewritten, upgraded, passed>>
vars == <<doc, partVars, ctl, lane, txn, faults, pastVars>>

Slot == 0 .. MaxParallel - 1
NoLease == [slot |-> -1, token |-> NoToken, live |-> FALSE]
Lease == [slot: Slot, token: Token, live: BOOLEAN]
OpenPartition == {"pending", "running"}
Steps == {"idle", "claim", "control", "read", "write", "reread", "checkpoint",
          "budget", "release", "failSlice", "failPartition", "failState"}

\* What was seen of a document that is to be written.
Seen == [val: Nat, rev: Nat]
Unread == [val |-> -1, rev |-> -1]

\* What a lane remembers: where it is in runSlice, its partition, its lease's
\* token, the slots it saw free, its cursor, the batch it read and its limit, the
\* revision and contents of each document to be written, the round of conflicts,
\* the documents it counts as migrated, as failed and as left, why its slice
\* ends, whether it has done a batch and, as history, whether a commit of this
\* batch landed that it was told had failed.
Idle == [pc |-> "idle", part |-> 0, token |-> NoToken, free |-> {}, from |-> 0,
         batch |-> {}, limit |-> BatchSize, snap |-> [d \in Doc |-> Unread], round |-> 0,
         good |-> {}, failed |-> {}, left |-> {}, why |-> "ended", worked |-> FALSE,
         unheard |-> FALSE]

LaneState == [pc: Steps, part: Part \cup {0}, token: Token \cup {NoToken}, free: SUBSET Slot,
              from: Nat, batch: SUBSET Doc, limit: 1..BatchSize, snap: [Doc -> Seen \cup {Unread}],
              round: 0..MaxRetries, good: SUBSET Doc, failed: SUBSET Doc, left: SUBSET Doc,
              why: {"ended", "lost", "error", "document"}, worked: BOOLEAN, unheard: BOOLEAN]

TypeOK ==
  /\ doc \in [Doc -> [shape: {"old", "new", "gone"}, val: Nat, rev: Nat]]
  /\ status \in [Part -> OpenPartition \cup {"done", "failed", "superseded"}]
  /\ cursor \in [Part -> Nat]
  /\ lease \in [Part -> Lease \cup {NoLease}]
  /\ failures \in [Part -> 0..MaxSliceFailures]
  /\ migrated \in [Part -> Nat]
  /\ bad \in [Part -> SUBSET Doc]
  /\ ctl \in {"running", "paused", "failed", "stale"}
  /\ lane \in [Lane -> LaneState]
  /\ txn \in BOOLEAN
  /\ faults \in 0..MaxFaults
  /\ rewritten \subseteq Doc /\ upgraded \subseteq Doc /\ passed \subseteq Doc

Init ==
  /\ doc = [d \in Doc |-> [shape |-> "old", val |-> 0, rev |-> 0]]
  /\ status = [p \in Part |-> "pending"]
  /\ cursor = [p \in Part |-> 0]
  /\ lease = [p \in Part |-> NoLease]
  /\ failures = [p \in Part |-> 0]
  /\ migrated = [p \in Part |-> 0]
  /\ bad = [p \in Part |-> {}]
  /\ ctl = "running"
  /\ lane = [l \in Lane |-> Idle]
  /\ txn \in Modes
  /\ faults = 0
  /\ rewritten = {} /\ upgraded = {} /\ passed = {}

Fault == faults < MaxFaults /\ faults' = faults + 1

Leased(p) == lease[p] # NoLease
At(l) == lane[l].part

\* A lane goes on with what it remembers.
Goes(l, r) == lane' = [lane EXCEPT ![l] = r]

-----------------------------------------------------------------------------
(* The application and the operators *)

Writes ==
  MapThenSumSet(LAMBDA d : doc[d].val, Doc) + Cardinality({d \in Doc : doc[d].shape = "gone"})

\* A write by a release that keeps the shape, or that upgrades as it writes.
AppWrite(d, s) ==
  /\ doc[d].shape # "gone" /\ Writes < MaxWrites /\ s \in {doc[d].shape, "new"}
  /\ doc' = [doc EXCEPT ![d] = [shape |-> s, val |-> @.val + 1, rev |-> @.rev + 1]]
  /\ upgraded' = IF s # doc[d].shape THEN upgraded \cup {d} ELSE upgraded
  /\ UNCHANGED <<partVars, ctl, lane, txn, faults, rewritten, passed>>

AppDelete(d) ==
  /\ doc[d].shape # "gone" /\ Writes < MaxWrites
  /\ doc' = [doc EXCEPT ![d].shape = "gone"]
  /\ UNCHANGED <<partVars, ctl, lane, txn, faults, pastVars>>

Pause ==
  /\ ctl = "running" /\ ctl' = "paused" /\ Fault
  /\ UNCHANGED <<doc, partVars, lane, txn, pastVars>>

Resume ==
  /\ ctl = "paused" /\ ctl' = "running"
  /\ UNCHANGED <<doc, partVars, lane, txn, faults, pastVars>>

\* retry: failed partitions are open again.
Retry ==
  /\ ctl = "failed" /\ ctl' = "running" /\ Fault
  /\ status' = [p \in Part |-> IF status[p] = "failed" THEN "pending" ELSE status[p]]
  /\ failures' = [p \in Part |-> IF status[p] = "failed" THEN 0 ELSE failures[p]]
  /\ UNCHANGED <<doc, cursor, lease, migrated, bad, lane, txn, pastVars>>

\* A replan supersedes the open partitions of this plan.
Supersede ==
  /\ ctl = "running" /\ ctl' = "stale" /\ Fault
  /\ status' = [p \in Part |-> IF status[p] \in OpenPartition THEN "superseded" ELSE status[p]]
  /\ UNCHANGED <<doc, cursor, lease, failures, migrated, bad, lane, txn, pastVars>>

\* unlock: every lease is dropped, held or not.
UnlockAll ==
  /\ \E p \in Part : Leased(p)
  /\ Fault
  /\ lease' = [p \in Part |-> NoLease]
  /\ UNCHANGED <<doc, status, cursor, failures, migrated, bad, ctl, lane, txn, pastVars>>

-----------------------------------------------------------------------------
(* Leases *)

Reaped == [p \in Part |-> IF Leased(p) /\ ~lease[p].live THEN NoLease ELSE lease[p]]

\* A lease was not renewed within its TTL: its holder is gone, or stalls.
ExpireLease(p) ==
  /\ Leased(p) /\ lease[p].live
  /\ IF \E l \in Lane : lane[l].token = lease[p].token THEN Fault ELSE UNCHANGED faults
  /\ lease' = [lease EXCEPT ![p].live = FALSE]
  /\ UNCHANGED <<doc, status, cursor, failures, migrated, bad, ctl, lane, txn, pastVars>>

\* A slice begins: expired leases are reaped and the free slots are read.
StartSlice(l) ==
  /\ lane[l].pc = "idle" /\ ctl = "running"
  /\ lease' = Reaped
  /\ Goes(l, [lane[l] EXCEPT !.pc = "claim",
                             !.free = Slot \ {Reaped[p].slot : p \in Part}])
  /\ UNCHANGED <<doc, status, cursor, failures, migrated, bad, ctl, txn, faults, pastVars>>

\* Mutant: only partitions nobody started.
ClaimableNew(p) == status[p] = "pending" /\ ~Leased(p)

Claimable(p) == status[p] \in OpenPartition /\ ~Leased(p)

\* Started ones first, then by seq.
FirstClaimable(p) ==
  /\ Claimable(p)
  /\ \A q \in Part : Claimable(q) =>
       \/ status[p] = "running" /\ status[q] = "pending"
       \/ status[p] = status[q] /\ p <= q

\* Mutant: no such index.
SlotUnindexed(s) == FALSE

\* The unique index on the slots.
SlotTaken(s) == \E p \in Part : lease[p].slot = s

Unheld(t) ==
  /\ \A p \in Part : lease[p].token # t
  /\ \A l \in Lane : lane[l].token # t

ClaimOne(l, p, s, t) ==
  /\ lane[l].pc = "claim" /\ s \in lane[l].free /\ ~SlotTaken(s)
  /\ FirstClaimable(p) /\ Unheld(t)
  /\ lease' = [lease EXCEPT ![p] = [slot |-> s, token |-> t, live |-> TRUE]]
  /\ status' = [status EXCEPT ![p] = "running"]
  /\ Goes(l, [Idle EXCEPT !.pc = "control", !.part = p, !.token = t,
                          !.from = cursor[p]])
  /\ UNCHANGED <<doc, cursor, failures, migrated, bad, ctl, txn, faults, pastVars>>

\* The index refuses the slot; the next free one is tried.
ClaimCollides(l, s) ==
  /\ lane[l].pc = "claim" /\ s \in lane[l].free /\ SlotTaken(s)
  /\ \E p \in Part : Claimable(p)
  /\ Goes(l, [lane[l] EXCEPT !.free = @ \ {s}])
  /\ UNCHANGED <<doc, partVars, ctl, txn, faults, pastVars>>

\* Exhausted or busy: the slice ends without a claim.
NoClaim(l) ==
  /\ lane[l].pc = "claim"
  /\ lane[l].free = {} \/ ~\E p \in Part : Claimable(p)
  /\ Goes(l, Idle)
  /\ UNCHANGED <<doc, partVars, ctl, txn, faults, pastVars>>

\* Mutants: the checkpoint's filter without the token, and without the status.
HoldsOpen(l) == status[At(l)] = "running"
HoldsToken(l) == lease[At(l)].token = lane[l].token

\* What a lane's lease still allows: the fence of every checkpoint.
Holds(l) == lease[At(l)].token = lane[l].token /\ status[At(l)] = "running"

\* runWithLock's release, scoped to the token.
Unleased(l) ==
  [p \in Part |-> IF p = At(l) /\ lease[p].token = lane[l].token THEN NoLease ELSE lease[p]]

-----------------------------------------------------------------------------
(* The loop of processPartition *)

\* The control read lets the next batch begin.  A transaction's size is kept, or
\* has grown after clean ones.
GoOn(l) ==
  /\ lane[l].pc = "control" /\ ctl = "running"
  /\ \E n \in lane[l].limit .. BatchSize :
       Goes(l, [lane[l] EXCEPT !.pc = "read", !.good = {}, !.failed = {},
                               !.left = {}, !.round = 0, !.limit = n])
  /\ UNCHANGED <<doc, partVars, ctl, txn, faults, pastVars>>

\* The lane's signal is aborted: it lost its lease.
Told(l) == lease[At(l)].token # lane[l].token \/ ~lease[At(l)].live

\* Mutant: a lane waits while a control holds it up.
YieldUnasked(l) ==
  /\ \/ lane[l].pc = "control" /\ (lane[l].worked \/ Told(l)) /\ UNCHANGED faults
     \/ lane[l].pc = "read" /\ txn /\ Told(l) /\ UNCHANGED faults
     \/ (lane[l].pc = "control" \/ (lane[l].pc = "read" /\ txn)) /\ Fault
  /\ Goes(l, [lane[l] EXCEPT !.pc = "release"])
  /\ UNCHANGED <<doc, partVars, ctl, txn, pastVars>>

\* The slice's time is up after a batch, a control says stop, or the lane's
\* signal is aborted: by its lease, or by its process.
Yield(l) ==
  /\ \/ lane[l].pc = "control" /\ (lane[l].worked \/ ctl # "running" \/ Told(l))
          /\ UNCHANGED faults
     \/ lane[l].pc = "read" /\ txn /\ Told(l) /\ UNCHANGED faults
     \/ (lane[l].pc = "control" \/ (lane[l].pc = "read" /\ txn)) /\ Fault
  /\ Goes(l, [lane[l] EXCEPT !.pc = "release"])
  /\ UNCHANGED <<doc, partVars, ctl, txn, pastVars>>

\* The first n documents of a set, by _id.
FirstOf(S, n) == {d \in S : Cardinality({e \in S : e < d}) < n}

Last(S) == CHOOSE d \in S : \A e \in S : e <= d

\* What the batch query matches: old shape, in the range, behind the cursor.
Matching(l) == {d \in Scope[At(l)] : d > lane[l].from /\ doc[d].shape = "old"}

Snapshot(S) == [d \in Doc |-> IF d \in S THEN [val |-> doc[d].val, rev |-> doc[d].rev]
                                         ELSE Unread]

\* A batch is read, as large as the throttle allows or the transaction's size.
\* A transaction's retry leaves out the documents that have failed in it.
Read(l, n) ==
  /\ lane[l].pc = "read" /\ n \in 1..BatchSize
  /\ txn => n = lane[l].limit
  /\ LET read == FirstOf(Matching(l), n) IN
     Goes(l, [lane[l] EXCEPT !.pc = "write", !.limit = n, !.batch = read,
                             !.snap = Snapshot(read \ lane[l].failed)])
  /\ UNCHANGED <<doc, partVars, ctl, txn, faults, pastVars>>

\* Mutant: the revision is not part of the filter.
UnchangedShape(l, d) == doc[d].shape = "old"

\* The guard of a write: the document has the old shape and the revision read.
Unchanged(l, d) == doc[d].shape = "old" /\ doc[d].rev = lane[l].snap[d].rev

Todo(l) == {d \in Doc : lane[l].snap[d] # Unread}
Pending(l) == Todo(l) \ Poison
Matched(l) == {d \in Pending(l) : Unchanged(l, d)}

\* The documents of S become what the transformation made of what was read.
Applied(l, S) ==
  [d \in Doc |-> IF d \in S
                   THEN [shape |-> "new", val |-> lane[l].snap[d].val, rev |-> doc[d].rev + 1]
                   ELSE doc[d]]

\* The bulkWrite: a document that fails is an error of its own, one that
\* somebody else changed matches nothing.
Write(l) ==
  /\ lane[l].pc = "write" /\ ~txn
  /\ doc' = Applied(l, Matched(l))
  /\ rewritten' = rewritten \cup Matched(l)
  /\ LET all == Matched(l) = Pending(l) IN
     Goes(l, [lane[l] EXCEPT !.pc = IF all THEN "checkpoint" ELSE "reread",
                             !.good = IF all THEN @ \cup Matched(l) ELSE @,
                             !.failed = @ \cup (Todo(l) \cap Poison)])
  /\ UNCHANGED <<partVars, ctl, txn, faults, upgraded, passed>>

\* The bulkWrite fails (a lost connection, a write concern), some of it applied.
WriteFails(l, S) ==
  /\ lane[l].pc = "write" /\ ~txn /\ S \subseteq Matched(l)
  /\ Fault
  /\ doc' = Applied(l, S)
  /\ rewritten' = rewritten \cup S
  /\ Goes(l, [lane[l] EXCEPT !.pc = "release", !.why = "error"])
  /\ UNCHANGED <<partVars, ctl, txn, upgraded, passed>>

\* What became of the documents whose write may have matched nothing.
Counted(l) == {d \in Pending(l) : doc[d].shape = "new" /\ doc[d].rev = lane[l].snap[d].rev + 1}

\* Mutant: what matched nothing is somebody else's.
StaleNever(l) == {}

Stale(l) == {d \in Pending(l) : doc[d].shape = "old"}

\* They are looked at again: one in the new shape at the next revision counts as
\* migrated, one in the old shape is tried again, or left after MaxRetries
\* rounds.  The two reads of the code are one step.
Reread(l) ==
  /\ lane[l].pc = "reread"
  /\ LET again == Stale(l) # {} /\ lane[l].round < MaxRetries IN
     Goes(l, [lane[l] EXCEPT !.pc = IF again THEN "write" ELSE "checkpoint",
                             !.good = @ \cup Counted(l),
                             !.snap = IF again THEN Snapshot(Stale(l)) ELSE Idle.snap,
                             !.round = IF again THEN @ + 1 ELSE @,
                             !.left = IF again THEN @ ELSE Stale(l)])
  /\ UNCHANGED <<doc, partVars, ctl, txn, faults, pastVars>>

-----------------------------------------------------------------------------
(* Checkpoints *)

\* The batch was shorter than its limit: the partition is done.
Ended(l) == Cardinality(lane[l].batch) < lane[l].limit
NextFrom(l) == IF Ended(l) THEN lane[l].from ELSE Last(lane[l].batch)

\* The checkpoint: the cursor moves, the counters grow, the lease is renewed, or
\* the partition is done and its slot is free.
SaveBatch(l, done) ==
  LET p == At(l) IN
  /\ Holds(l)
  /\ cursor' = [cursor EXCEPT ![p] = NextFrom(l)]
  /\ migrated' = [migrated EXCEPT ![p] = @ + Cardinality(done)]
  /\ bad' = [bad EXCEPT ![p] = @ \cup lane[l].failed]
  /\ failures' = [failures EXCEPT ![p] = 0]
  /\ status' = [status EXCEPT ![p] = IF Ended(l) THEN "done" ELSE @]
  /\ lease' = [lease EXCEPT ![p] = IF Ended(l) THEN NoLease ELSE [@ EXCEPT !.live = TRUE]]
  /\ passed' = passed \cup lane[l].left

\* After a batch: the error budget is judged, the slice goes on, or another
\* partition is claimed.
AfterBatch(l) ==
  IF lane[l].failed = {} /\ Ended(l) THEN Idle
  ELSE [lane[l] EXCEPT !.pc = IF lane[l].failed = {} THEN "control" ELSE "budget",
                       !.from = NextFrom(l), !.worked = TRUE, !.unheard = FALSE]

Checkpoint(l) ==
  /\ lane[l].pc = "checkpoint"
  /\ SaveBatch(l, lane[l].good)
  /\ Goes(l, AfterBatch(l))
  /\ UNCHANGED <<doc, ctl, txn, faults, rewritten, upgraded>>

\* The lease is not the lane's any more, or its partition is closed to it.
CheckpointFenced(l) ==
  /\ lane[l].pc = "checkpoint" \/ (lane[l].pc = "write" /\ txn /\ Matched(l) = Todo(l))
  /\ ~Holds(l)
  /\ Goes(l, [lane[l] EXCEPT !.pc = "release", !.why = "lost"])
  /\ UNCHANGED <<doc, partVars, ctl, txn, faults, pastVars>>

\* The checkpoint fails, applied or not.
CheckpointFails(l) ==
  /\ lane[l].pc = "checkpoint"
  /\ Fault
  /\ \/ SaveBatch(l, lane[l].good)
     \/ UNCHANGED <<partVars, passed>>
  /\ Goes(l, [lane[l] EXCEPT !.pc = "release", !.why = "error"])
  /\ UNCHANGED <<doc, ctl, txn, rewritten, upgraded>>

-----------------------------------------------------------------------------
(* Batches in a transaction *)

InTxn(l) == lane[l].pc = "write" /\ txn

Halved(n) == IF n > 1 THEN n \div 2 ELSE 1

\* Everything that was read is as it was: writes and checkpoint are one step.
Commits(l) ==
  /\ InTxn(l) /\ Pending(l) = Todo(l) /\ Matched(l) = Pending(l)
  /\ doc' = Applied(l, Matched(l))
  /\ rewritten' = rewritten \cup Matched(l)
  /\ SaveBatch(l, Matched(l))

TxnCommit(l) ==
  /\ Commits(l)
  /\ Goes(l, AfterBatch(l))
  /\ UNCHANGED <<ctl, txn, faults, upgraded>>

\* The commit fails for good (the connection, the write concern); it may have
\* landed.
TxnUnknown(l) ==
  /\ InTxn(l) /\ Fault
  /\ Commits(l) \/ UNCHANGED <<doc, partVars, rewritten, passed>>
  /\ Goes(l, [lane[l] EXCEPT !.pc = "release", !.why = "error"])
  /\ UNCHANGED <<ctl, txn, upgraded>>

\* A document that fails aborts the batch, which is tried again without it.
TxnDocError(l, d) ==
  /\ InTxn(l) /\ d \in Todo(l) \cap Poison
  /\ Goes(l, [lane[l] EXCEPT !.pc = "read", !.failed = @ \cup {d}])
  /\ UNCHANGED <<doc, partVars, ctl, txn, faults, pastVars>>

\* A batch is tried again MaxRetries times, with half the documents after half of
\* them.
Retried(l) ==
  LET n == lane[l].round + 1 IN
  IF lane[l].round = MaxRetries
  THEN [lane[l] EXCEPT !.pc = "release", !.why = "error"]
  ELSE [lane[l] EXCEPT !.pc = "read", !.round = n,
                       !.limit = IF 2 * n > MaxRetries THEN Halved(@) ELSE @]

\* Somebody changed what was read, or the transaction met a transient error.
TxnRetry(l) ==
  /\ InTxn(l)
  /\ \/ Matched(l) # Pending(l) /\ UNCHANGED faults
     \/ Fault
  /\ Goes(l, Retried(l))
  /\ UNCHANGED <<doc, partVars, ctl, txn, pastVars>>

\* Half the documents at once; alone, the document fails; an empty batch is tried
\* again.
TooBig(l) ==
  CASE lane[l].limit > 1 -> [lane[l] EXCEPT !.pc = "read", !.limit = Halved(@)]
    [] lane[l].limit = 1 /\ lane[l].batch # {} ->
         [lane[l] EXCEPT !.pc = "read", !.failed = @ \cup lane[l].batch]
    [] OTHER -> Retried(l)

\* Too slow or too big.  A commit that ran out of time (maxCommitTimeMS) may have
\* landed all the same: the lane goes on from where this batch began.
TxnTooBig(l) ==
  /\ InTxn(l) /\ Fault
  /\ \/ Commits(l) /\ Goes(l, [TooBig(l) EXCEPT !.unheard = TRUE])
     \/ Goes(l, TooBig(l)) /\ UNCHANGED <<doc, partVars, rewritten, passed>>
  /\ UNCHANGED <<ctl, txn, upgraded>>

\* Alone and still in the way: the cursor goes past it, in a write of its own.
TxnInTheWay(l) ==
  /\ InTxn(l) /\ lane[l].limit = 1 /\ Matched(l) # Pending(l)
  /\ Goes(l, [lane[l] EXCEPT !.pc = "checkpoint", !.left = lane[l].batch,
                             !.failed = {}])
  /\ UNCHANGED <<doc, partVars, ctl, txn, faults, pastVars>>

-----------------------------------------------------------------------------
(* The end of a slice *)

\* The distinct documents that failed so far, against maxDocumentErrors.
BadIds == UNION {bad[p] : p \in Part}

Budget(l) ==
  /\ lane[l].pc = "budget"
  /\ Goes(l, IF Cardinality(BadIds) > MaxDocErrors
             THEN [lane[l] EXCEPT !.pc = "release", !.why = "document"]
             ELSE IF Ended(l) THEN Idle ELSE [lane[l] EXCEPT !.pc = "control"])
  /\ UNCHANGED <<doc, partVars, ctl, txn, faults, pastVars>>

\* runWithLock releases the lease.  When that fails the lease stays until it
\* expires, and a slice that had nothing else to report has failed.
Release(l) ==
  /\ lane[l].pc = "release"
  /\ lease' = Unleased(l)
  /\ Goes(l, CASE lane[l].why = "error" -> [lane[l] EXCEPT !.pc = "failSlice"]
               [] lane[l].why = "document" -> [lane[l] EXCEPT !.pc = "failPartition"]
               [] OTHER -> Idle)
  /\ UNCHANGED <<doc, status, cursor, failures, migrated, bad, ctl, txn, faults, pastVars>>

ReleaseFails(l) ==
  /\ lane[l].pc = "release" /\ Fault
  /\ Goes(l, IF lane[l].why = "lost" THEN Idle ELSE [lane[l] EXCEPT !.pc = "failSlice"])
  /\ UNCHANGED <<doc, partVars, ctl, txn, pastVars>>

\* A partition is still the lane's to fail: open, and nobody else's.
MayFail(l) ==
  status[At(l)] \in OpenPartition /\ (~Leased(At(l)) \/ lease[At(l)].token = lane[l].token)

FailSlice(l) ==
  LET p == At(l) IN
  /\ lane[l].pc = "failSlice"
  /\ IF MayFail(l)
       THEN /\ failures' = [failures EXCEPT ![p] = @ + 1]
            /\ status' = [status EXCEPT ![p] = IF failures'[p] >= MaxSliceFailures
                                                 THEN "failed" ELSE @]
            /\ lease' = [lease EXCEPT ![p] = NoLease]
       ELSE UNCHANGED <<failures, status, lease>>
  /\ Goes(l, Idle)
  /\ UNCHANGED <<doc, cursor, migrated, bad, ctl, txn, faults, pastVars>>

FailPartition(l) ==
  LET p == At(l) IN
  /\ lane[l].pc = "failPartition"
  /\ IF MayFail(l)
       THEN /\ status' = [status EXCEPT ![p] = "failed"]
            /\ lease' = [lease EXCEPT ![p] = NoLease]
       ELSE UNCHANGED <<status, lease>>
  /\ Goes(l, [lane[l] EXCEPT !.pc = "failState"])
  /\ UNCHANGED <<doc, cursor, failures, migrated, bad, ctl, txn, faults, pastVars>>

FailState(l) ==
  /\ lane[l].pc = "failState"
  /\ ctl' = IF ctl = "running" THEN "failed" ELSE ctl
  /\ Goes(l, Idle)
  /\ UNCHANGED <<doc, partVars, txn, faults, pastVars>>

\* The process dies; its lease stays until it expires.
Crash(l) ==
  /\ lane[l].pc # "idle"
  /\ Fault
  /\ Goes(l, Idle)
  /\ UNCHANGED <<doc, partVars, ctl, txn, pastVars>>

-----------------------------------------------------------------------------

\* What a lane does when nothing goes wrong but what others do.
Step(l) ==
  \/ StartSlice(l) \/ NoClaim(l)
  \/ \E s \in Slot : ClaimCollides(l, s) \/ \E p \in Part, t \in Token : ClaimOne(l, p, s, t)
  \/ GoOn(l) \/ Yield(l) \/ (\E n \in 1..BatchSize : Read(l, n))
  \/ Write(l) \/ Reread(l) \/ Checkpoint(l) \/ CheckpointFenced(l)
  \/ TxnCommit(l) \/ (\E d \in Doc : TxnDocError(l, d)) \/ TxnRetry(l) \/ TxnInTheWay(l)
  \/ Budget(l) \/ Release(l) \/ FailSlice(l) \/ FailPartition(l) \/ FailState(l)

Fails(l) ==
  \/ \E S \in SUBSET Doc : WriteFails(l, S)
  \/ CheckpointFails(l) \/ TxnUnknown(l) \/ TxnTooBig(l) \/ ReleaseFails(l) \/ Crash(l)

Next ==
  \/ \E d \in Doc : (\E s \in {"old", "new"} : AppWrite(d, s)) \/ AppDelete(d)
  \/ Pause \/ Resume \/ Retry \/ Supersede \/ UnlockAll
  \/ \E p \in Part : ExpireLease(p)
  \/ \E l \in Lane : Step(l) \/ Fails(l)

Spec == Init /\ [][Next]_vars

\* Lanes are started again and go on with what they do, and the lease of one that
\* is gone expires.
Fairness ==
  /\ \A l \in Lane : WF_vars(Step(l) /\ UNCHANGED faults)
  /\ \A p \in Part : WF_vars(ExpireLease(p) /\ UNCHANGED faults)

FairSpec == Spec /\ Fairness

-----------------------------------------------------------------------------
(* Properties *)

\* A lane that still holds its lease: its next checkpoint lands.
Working(l) == At(l) # 0 /\ Holds(l)

\* Of all lanes, however many lost their lease and do not know yet, those whose
\* checkpoints land are in partitions of their own and on slots of their own, so
\* no more than maxParallel, although claims choose from slots they read before.
LanesApart ==
  \A l, m \in Lane : l # m /\ Working(l) /\ Working(m) =>
    At(l) # At(m) /\ lease[At(l)].slot # lease[At(m)].slot

\* The writes of lanes, those that lost their lease included, and of the
\* application are atomic steps on each document as it is then: a batch that was
\* read long ago overwrites nothing, and a replayed one rewrites nothing twice
\* (the guide: "Every write is guarded").
Collection == INSTANCE VersionedCollection
RewritesAtomic == Collection!Spec

\* Only its lease's holder moves a partition, and never once it is closed: a
\* counter never decreases, and a cursor goes back only in a transaction that is
\* tried again although its commit landed, which the lane was not told.
MovedForward ==
  [][\A p \in Part :
       /\ \/ cursor'[p] >= cursor[p]
          \/ \E l \in Lane : lane[l].unheard /\ At(l) = p /\ Holds(l)
       /\ migrated'[p] >= migrated[p]
       /\ status[p] \in {"done", "failed", "superseded"} =>
            /\ cursor'[p] = cursor[p] /\ migrated'[p] = migrated[p]
            /\ status'[p] = status[p] \/ (status[p] = "failed" /\ status'[p] = "pending")]_vars

\* A document behind the cursor, or in a partition that is done, is in the new
\* shape or gone, unless it failed or was left for the next pass on purpose:
\* crashes, retries and lanes that take over never step over one.
NothingSkipped ==
  \A p \in Part : \A d \in Scope[p] :
    (d <= cursor[p] \/ status[p] = "done") /\ doc[d].shape = "old" => d \in bad[p] \cup passed

\* No document is counted as migrated twice, whatever is replayed by whom; in a
\* transaction the counter is exact (the guide: "The counters are exact").
CountedOnce ==
  \A p \in Part :
    /\ migrated[p] <= Cardinality(Scope[p] \cap (rewritten \cup upgraded))
    /\ txn => migrated[p] = Cardinality(Scope[p] \cap rewritten)

\* While the migration runs, every partition is done or fails in the end,
\* although lanes crash, stall and meet the application's writes.
WorkEnds ==
  <>[](ctl = "running") => <>[](\A p \in Part : status[p] \in {"done", "failed"})

\* Once it is paused, failed or replanned for good, its lanes stop between two
\* batches, and no lease is held any more.
LanesDrain ==
  <>[](ctl # "running") =>
    <>[](/\ \A l \in Lane : lane[l].pc = "idle"
         /\ \A p \in Part : ~(Leased(p) /\ lease[p].live))
=============================================================================
