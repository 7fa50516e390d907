---------------------------- MODULE MigrationRun ----------------------------
(***************************************************************************)
(* The commands that apply and revert migrations (core/migrator.js, with   *)
(* sequence.js, runner.js and changelog.js): `up`, `down` and `redo`, each *)
(* under the migration lock, reading the changelog and the migration files,*)
(* running the bodies one by one and recording each in the changelog.      *)
(*                                                                         *)
(* The lock appears as what it promises (ExclusiveLease, which             *)
(* MigrationLock implements): one holder, but for runs whose lock an       *)
(* operator removed (`migronaut unlock`).  Those go on until a heartbeat   *)
(* tells them; a run that has been told stops before its next migration.   *)
(*                                                                         *)
(* A migration file is its place in name order.  Of what a body does to the*)
(* data, only how many times it is in effect is kept.  The reads a command *)
(* plans from (applied names, files, next batch) are one step: under the   *)
(* lock nobody else writes the changelog between them, and what a run does *)
(* without it, the properties do not promise anything about.               *)
(***************************************************************************)
EXTENDS Integers, Sequences, FiniteSets

CONSTANTS
  Run,            \* processes that run commands
  NumFiles,       \* migration files, 1 sorting first
  FirstFiles,     \* the files on disk at the start; the others arrive later
  Transactional,  \* the files whose migration runs in a transaction
  Jobs,           \* the commands that are given
  Labels,         \* whether single-file runs are given explicit batches
  Timeouts,       \* whether timeoutMs is set
  Free,           \* nobody holds the lock
  MaxBatch,       \* bound on batch numbers
  MaxFaults       \* bound on failures, timeouts, crashes and lost locks

File == 1..NumFiles
NoFile == 0

\* A command: what it does, how it selects its files, the file it names (or
\* NoFile), how many steps it takes, its options, and the onOutOfOrder policy of
\* the process it is given to: "error", or "warn" and "allow", which go on.
Job == [op: {"up", "down", "redo"}, by: {"all", "to", "one", "batch", "steps"},
        file: File \cup {NoFile}, steps: Nat, ordered: BOOLEAN,
        force: BOOLEAN, step: BOOLEAN, policy: {"error", "warn"}]

\* What the option checks let through.
ValidJob(c) ==
  /\ c.ordered => c.by = "one" /\ c.op # "redo"
  /\ c.force \/ c.step => c.op = "up"
  /\ c.by \in {"one", "to"} => c.file # NoFile
  /\ c.op = "up" => c.by \in {"all", "to", "one"}
  /\ c.op = "down" => c.by \in {"batch", "steps", "to", "one"}
  /\ c.op = "redo" => c.by = "one" \/ (c.by = "steps" /\ c.steps = 1)

ASSUME FilesAssumption == NumFiles \in Nat /\ FirstFiles \subseteq File
ASSUME TransactionalAssumption == Transactional \subseteq File
ASSUME JobsAssumption == \A c \in Jobs : c \in Job /\ ValidJob(c)
ASSUME OptionsAssumption == Labels \in BOOLEAN /\ Timeouts \in BOOLEAN
ASSUME FreeAssumption == Free \notin Run
ASSUME BoundsAssumption == MaxBatch \in Nat /\ MaxFaults \in Nat

VARIABLES
  files,    \* the migration files on disk
  log,      \* the changelog: each file's record
  order,    \* the applied files by appliedAt, newest last
  effect,   \* how often a file's changes are in the data: 0, 1, 2 (or more)
  lease,    \* who holds the migration lock
  revoked,  \* the runs whose lock an operator removed and who do not know it yet
  phase,    \* where each run is
  job,      \* the command it runs
  way,      \* the direction it goes: a redo goes down, then up
  todo,     \* the files it has still to deal with, in order
  seen,     \* the applied names it has read
  batch,    \* the batch number of what it applies next
  aborted,  \* its abort signal
  peeked,   \* the numbers nextBatch() has answered
  zombies,  \* bodies that timed out and still run: <<file, direction>>
  faults,   \* how many faults there were
  lost,     \* history: whether a run's lock was freed while the run went on
  strayed,  \* history: the files that runs worked on after that
  labelled, \* history: whether a run was given an explicit batch
  forced,   \* history: the files that were applied again on demand
  excused,  \* history: the files whose body and record came apart
  used      \* history: the batch numbers records have had

dataVars == <<files, log, order, effect>>
runVars  == <<phase, job, way, todo, seen, batch, aborted>>
lockVars == <<lease, revoked>>
lossVars == <<lost, strayed>>
pastVars == <<lossVars, labelled, forced, excused, used>>
vars == <<dataVars, lockVars, runVars, peeked, zombies, faults, pastVars>>

NoJob == [op |-> "up", by |-> "all", file |-> NoFile, steps |-> 0,
          ordered |-> FALSE, force |-> FALSE, step |-> FALSE, policy |-> "warn"]

Phases == {"idle", "plan", "next", "load", "body", "record", "trace", "end"}

\* Every variable has its type.
TypeOK ==
  /\ files \subseteq File
  /\ log \in [File -> [status: {"none", "applied", "reverted", "failed"},
                       batch: 0..MaxBatch]]
  /\ order \in Seq(File)
  /\ effect \in [File -> 0..2]
  /\ lease \in Run \cup {Free}
  /\ revoked \subseteq Run
  /\ phase \in [Run -> Phases]
  /\ job \in [Run -> Job]
  /\ way \in [Run -> {"up", "down"}]
  /\ todo \in [Run -> Seq(File)]
  /\ seen \in [Run -> SUBSET File]
  /\ batch \in [Run -> 0..MaxBatch + 1]
  /\ aborted \in [Run -> BOOLEAN]
  /\ peeked \subseteq 1..MaxBatch
  /\ zombies \subseteq File \X {"up", "down"}
  /\ faults \in 0..MaxFaults
  /\ lost \in BOOLEAN
  /\ strayed \subseteq File
  /\ labelled \in BOOLEAN
  /\ forced \subseteq File
  /\ excused \subseteq File
  /\ used \subseteq 1..MaxBatch

Init ==
  /\ files = FirstFiles
  /\ log = [f \in File |-> [status |-> "none", batch |-> 0]]
  /\ order = <<>>
  /\ effect = [f \in File |-> 0]
  /\ lease = Free
  /\ revoked = {}
  /\ phase = [p \in Run |-> "idle"]
  /\ job = [p \in Run |-> NoJob]
  /\ way = [p \in Run |-> "up"]
  /\ todo = [p \in Run |-> <<>>]
  /\ seen = [p \in Run |-> {}]
  /\ batch = [p \in Run |-> 0]
  /\ aborted = [p \in Run |-> FALSE]
  /\ peeked = {}
  /\ zombies = {}
  /\ faults = 0
  /\ lost = FALSE
  /\ strayed = {}
  /\ labelled = FALSE
  /\ forced = {}
  /\ excused = {}
  /\ used = {}

-----------------------------------------------------------------------------
(* The changelog's queries *)

Applied == {f \in File : log[f].status = "applied"}

\* The highest number of S, 0 for none.
Highest(S) == IF S = {} THEN 0 ELSE CHOOSE n \in S : \A m \in S : m <= n

\* getLastBatch(), among the applied.
LastBatch == Highest({log[f].batch : f \in Applied})

\* Wrong on purpose: counts the applied records only.
BatchAfterApplied == 1 + LastBatch


\* getMaxBatch() + 1: over the full history, reverted and failed included.
NextBatch == 1 + Highest({log[f].batch : f \in File})

Ascending(S) == CHOOSE s \in [1..Cardinality(S) -> S] :
                  \A i, j \in 1..Cardinality(S) : i < j => s[i] < s[j]
Reversed(s) == [i \in 1..Len(s) |-> s[Len(s) + 1 - i]]
Descending(S) == Reversed(Ascending(S))

\* getLastAppliedN(): newest first.
LastApplied(n) ==
  LET newest == Reversed(order)
  IN SubSeq(newest, 1, IF n < Len(newest) THEN n ELSE Len(newest))

\* getAppliedNewerThan(): what was applied after f and still is.
NewerThan(f) ==
  {g \in Applied : \E i, j \in DOMAIN order : i < j /\ order[i] = f /\ order[j] = g}

-----------------------------------------------------------------------------
(* sequence.js: which files a command is about *)

\* Wrong on purpose: a failed trace counts as having run.
PendingUntried(app) == {f \in files \ app : log[f].status # "failed"}

PendingIn(app) == files \ app

\* The files an `up` goes through: truncateAtTarget for --to.
UpTargets(c, app) ==
  CASE c.op = "redo" \/ c.by = "one" -> <<c.file>>
    [] c.by = "to"  -> Ascending({f \in PendingIn(app) : f <= c.file})
    [] OTHER -> Ascending(PendingIn(app))

\* Pending files that sort before the newest applied name.
LateArrivals(targets, app) ==
  {i \in DOMAIN targets : targets[i] \notin app /\ \E g \in app : targets[i] < g}

\* Wrong on purpose: a batch is reverted in the order it was applied.
DownForward(c) ==
  CASE c.by = "one"   -> <<c.file>>
    [] c.by = "steps" -> LastApplied(c.steps)
    [] c.by = "to"    -> Descending({f \in Applied : f > c.file})
    [] OTHER -> Ascending({f \in Applied : log[f].batch = LastBatch})

\* The applied files a `down` reverts, in its order.
DownTargets(c) ==
  CASE c.by = "one"   -> <<c.file>>
    [] c.by = "steps" -> LastApplied(c.steps)
    [] c.by = "to"    -> Descending({f \in Applied : f > c.file})
    [] OTHER -> Descending({f \in Applied : log[f].batch = LastBatch})

-----------------------------------------------------------------------------
(* Writing the changelog, and what a body does *)

\* f is at most once in s.
Without(s, f) ==
  IF \A i \in DOMAIN s : s[i] # f THEN s
  ELSE LET k == CHOOSE i \in DOMAIN s : s[i] = f
       IN [i \in 1..Len(s) - 1 |-> IF i < k THEN s[i] ELSE s[i + 1]]

\* markApplied: appliedAt is the time of this write.
MarkApplied(f, b) ==
  /\ log' = [log EXCEPT ![f] = [status |-> "applied", batch |-> b]]
  /\ order' = Append(Without(order, f), f)
  /\ used' = used \cup {b}

\* markReverted: only an applied record.  Its batch stays.
MarkReverted(f) ==
  /\ log' = IF f \in Applied THEN [log EXCEPT ![f].status = "reverted"] ELSE log
  /\ order' = Without(order, f)
  /\ UNCHANGED used

\* Wrong on purpose: the trace overwrites any record.
MarkFailedAlways(f, b) ==
  /\ log' = [log EXCEPT ![f] = [status |-> "failed", batch |-> b]]
  /\ used' = used \cup {b}

\* markFailed: never an applied record.
MarkFailed(f, b) ==
  IF f \in Applied
  THEN UNCHANGED <<log, used>>
  ELSE /\ log' = [log EXCEPT ![f] = [status |-> "failed", batch |-> b]]
       /\ used' = used \cup {b}

Changed(n, d) == CASE d = "up" /\ n < 2   -> n + 1
                   [] d = "down" /\ n > 0 -> n - 1
                   [] OTHER -> n

Takes(f, d) == effect' = [effect EXCEPT ![f] = Changed(@, d)]

Fault == faults < MaxFaults /\ faults' = faults + 1

-----------------------------------------------------------------------------
(* Around the runs *)

\* A deploy brings a migration file, perhaps one that sorts early.
FileArrives(f) ==
  /\ f \notin files
  /\ files' = files \cup {f}
  /\ UNCHANGED <<log, order, effect, lockVars, runVars, peeked, zombies, faults, pastVars>>

\* nextBatch(): a peek, not a reservation.
Peek ==
  /\ Labels /\ NextBatch <= MaxBatch
  /\ peeked' = peeked \cup {NextBatch}
  /\ UNCHANGED <<dataVars, lockVars, runVars, zombies, faults, pastVars>>

\* A command takes the lock.  A single-file `up` may be given a batch, one that
\* nextBatch() answered.
Start(p, c, label) ==
  /\ phase[p] = "idle" /\ lease = Free
  /\ label = 0 \/ (c.op = "up" /\ c.by = "one" /\ ~c.step /\ label \in peeked)
  /\ lease' = p
  /\ job' = [job EXCEPT ![p] = c]
  /\ way' = [way EXCEPT ![p] = IF c.op = "up" THEN "up" ELSE "down"]
  /\ batch' = [batch EXCEPT ![p] = label]
  /\ phase' = [phase EXCEPT ![p] = "plan"]
  /\ labelled' = (labelled \/ label # 0)
  /\ UNCHANGED <<dataVars, revoked, todo, seen, aborted, peeked, zombies, faults, lossVars,
                 forced, excused, used>>

\* The migration that a run has in hand: no abort check comes before its record.
Head1(p) == todo[p][1]
InHand(p) == IF phase[p] \in {"load", "body", "record"} THEN {Head1(p)} ELSE {}

\* The lock is freed under whoever has it.
Freed(p) ==
  /\ lease = p
  /\ lease' = Free
  /\ lost' = (lost \/ phase[p] # "idle")
  /\ strayed' = strayed \cup InHand(p)

\* `migronaut unlock` (forceRelease): the run is alive, and is not told.
Unlock(p) ==
  /\ phase[p] # "idle"
  /\ Fault
  /\ Freed(p)
  /\ revoked' = IF aborted[p] THEN revoked ELSE revoked \cup {p}
  /\ UNCHANGED <<dataVars, runVars, peeked, zombies, labelled, forced, excused, used>>

\* The heartbeat finds the lock gone, or no renewal came through in time: the
\* run is told, by its abort signal.  In the second case it still has the lock.
Told(p) ==
  /\ phase[p] # "idle" /\ ~aborted[p]
  /\ (p \in revoked /\ UNCHANGED faults) \/ Fault
  /\ aborted' = [aborted EXCEPT ![p] = TRUE]
  /\ revoked' = revoked \ {p}
  /\ UNCHANGED <<dataVars, lease, phase, job, way, todo, seen, batch, peeked, zombies,
                 pastVars>>

\* The lock of a process that died, or that gave up renewing it, goes stale.
Expire(p) ==
  /\ phase[p] = "idle" \/ aborted[p]
  /\ Freed(p)
  /\ UNCHANGED <<dataVars, revoked, runVars, peeked, zombies, faults, labelled, forced,
                 excused, used>>

-----------------------------------------------------------------------------
(* Planning *)

\* What #runUp knows to be applied: one file's record, or all of them.
Snapshot(c) ==
  IF c.op = "redo" \/ (c.by = "one" /\ ~c.ordered) THEN Applied \cap {c.file} ELSE Applied

\* Wrong on purpose: `ordered` does not look at the files before.
BlockedNever(c, app) == FALSE

\* #assertUpNotBlocked: an earlier file of the sequence is pending.  What is
\* applied already is exempt, unless forced.
UpBlocked(c, app) ==
  /\ c.ordered /\ (c.force \/ c.file \notin app)
  /\ \E f \in PendingIn(app) : f < c.file

\* Wrong on purpose: the policy is not applied.
OrderIntactAlways(c, targets, app) == TRUE

\* #assertOrderIntact
OrderIntact(c, targets, app) == c.policy = "warn" \/ LateArrivals(targets, app) = {}

UpRefused(c, app) ==
  \/ c.by \in {"one", "to"} /\ c.file \notin files
  \/ UpBlocked(c, app)
  \/ ~OrderIntact(c, UpTargets(c, app), app)

\* The batch of a run's first file: its label, or a new number.
BaseBatch(p) == IF batch[p] # 0 THEN batch[p] ELSE NextBatch

Goes(p, ph) == phase' = [phase EXCEPT ![p] = ph]

\* #runUp, up to its first migration.  It ends when it is refused or there is
\* nothing to do, and here also when the bound on batches is reached.
PlanUp(p) ==
  /\ phase[p] = "plan" /\ way[p] = "up"
  /\ LET c == job[p]
         app == Snapshot(c)
         targets == UpTargets(c, app)
     IN IF \/ UpRefused(c, app) \/ targets = <<>>
           \/ BaseBatch(p) + Len(targets) - 1 > MaxBatch
        THEN Goes(p, "end") /\ UNCHANGED <<todo, seen, batch>>
        ELSE /\ Goes(p, "next")
             /\ todo' = [todo EXCEPT ![p] = targets]
             /\ seen' = [seen EXCEPT ![p] = app]
             /\ batch' = [batch EXCEPT ![p] = BaseBatch(p)]
  /\ UNCHANGED <<dataVars, lockVars, job, way, aborted, peeked, zombies, faults, pastVars>>

\* #selectDownTargets and #assertDownNotBlocked
DownRefused(c) ==
  \/ c.by \in {"one", "to"} /\ c.file \notin Applied
  \/ c.by = "one" /\ c.ordered /\ NewerThan(c.file) # {}

\* #runDown, up to its first migration.  A redo keeps its file for later.
PlanDown(p) ==
  /\ phase[p] = "plan" /\ way[p] = "down"
  /\ LET c == job[p]
         targets == DownTargets(c)
     IN IF DownRefused(c) \/ targets = <<>>
        THEN Goes(p, "end") /\ UNCHANGED <<todo, job>>
        ELSE /\ Goes(p, "next")
             /\ todo' = [todo EXCEPT ![p] = targets]
             /\ job' = [job EXCEPT ![p].file = IF c.op = "redo" THEN targets[1] ELSE @]
  /\ UNCHANGED <<dataVars, lockVars, way, seen, batch, aborted, peeked, zombies, faults,
                 pastVars>>

-----------------------------------------------------------------------------
(* The migrations, one after another *)

\* #assertNotAborted, between migrations
Stop(p) ==
  /\ phase[p] = "next" /\ todo[p] # <<>> /\ aborted[p]
  /\ Goes(p, "end")
  /\ UNCHANGED <<dataVars, lockVars, job, way, todo, seen, batch, aborted, peeked, zombies,
                 faults, pastVars>>

Skips(p) == way[p] = "up" /\ Head1(p) \in seen[p] /\ ~job[p].force

Skip(p) ==
  /\ phase[p] = "next" /\ todo[p] # <<>> /\ ~aborted[p]
  /\ Skips(p)
  /\ todo' = [todo EXCEPT ![p] = Tail(@)]
  /\ UNCHANGED <<dataVars, lockVars, phase, job, way, seen, batch, aborted, peeked, zombies,
                 faults, pastVars>>

\* Wrong on purpose: the abort signal is not looked at between migrations.
LoadAnyway(p) ==
  /\ phase[p] = "next" /\ todo[p] # <<>>
  /\ ~Skips(p)
  /\ Goes(p, "load")
  /\ strayed' = IF p \in revoked THEN strayed \cup {Head1(p)} ELSE strayed
  /\ UNCHANGED <<dataVars, lockVars, job, way, todo, seen, batch, aborted, peeked, zombies,
                 faults, lost, labelled, forced, excused, used>>

\* The migration's turn: checksum, requires, beforeEach, load.
Load(p) ==
  /\ phase[p] = "next" /\ todo[p] # <<>> /\ ~aborted[p]
  /\ ~Skips(p)
  /\ Goes(p, "load")
  /\ strayed' = IF p \in revoked THEN strayed \cup {Head1(p)} ELSE strayed
  /\ UNCHANGED <<dataVars, lockVars, job, way, todo, seen, batch, aborted, peeked, zombies,
                 faults, lost, labelled, forced, excused, used>>

\* beforeEach throws, or the file does not load: no trace.
LoadFails(p) ==
  /\ phase[p] = "load"
  /\ Fault
  /\ Goes(p, "end")
  /\ UNCHANGED <<dataVars, lockVars, job, way, todo, seen, batch, aborted, peeked, zombies,
                 pastVars>>

StartBody(p) ==
  /\ phase[p] = "load"
  /\ Goes(p, "body")
  /\ UNCHANGED <<dataVars, lockVars, job, way, todo, seen, batch, aborted, peeked, zombies,
                 faults, pastVars>>

\* The body runs once more for a file that is applied.
Again(p) == way[p] = "up" /\ Head1(p) \in Applied /\ job[p].force
ForcedNow(p) == IF Again(p) THEN forced \cup {Head1(p)} ELSE forced

\* Without a transaction: the body has done its work, nothing is recorded yet.
BodyCommit(p) ==
  /\ phase[p] = "body" /\ Head1(p) \notin Transactional
  /\ Takes(Head1(p), way[p])
  /\ forced' = ForcedNow(p)
  /\ Goes(p, "record")
  /\ UNCHANGED <<files, log, order, lockVars, job, way, todo, seen, batch, aborted, peeked,
                 zombies, faults, lossVars, labelled, excused, used>>

\* An `up` that fails leaves a trace; a `down` does not.
Failed(p) == IF way[p] = "up" THEN "trace" ELSE "end"

\* The body throws.  Without a transaction part of its work may stay.
BodyFails(p) ==
  /\ phase[p] = "body"
  /\ Fault
  /\ Goes(p, Failed(p))
  /\ \/ UNCHANGED <<effect, excused, forced>>
     \/ /\ Head1(p) \notin Transactional
        /\ Takes(Head1(p), way[p])
        /\ excused' = excused \cup {Head1(p)}
        /\ forced' = ForcedNow(p)
  /\ UNCHANGED <<files, log, order, lockVars, job, way, todo, seen, batch, aborted, peeked,
                 zombies, lossVars, labelled, used>>

\* withTimeout: the run goes on to fail, and a body outside a transaction goes
\* on too.
Timeout(p) ==
  /\ Timeouts /\ phase[p] = "body"
  /\ Fault
  /\ Goes(p, Failed(p))
  /\ zombies' = IF Head1(p) \in Transactional THEN zombies
                ELSE zombies \cup {<<Head1(p), way[p]>>}
  /\ UNCHANGED <<dataVars, lockVars, job, way, todo, seen, batch, aborted, peeked, pastVars>>

\* The timed-out body gets its work done after all.
ZombieCommits(z) ==
  /\ zombies' = zombies \ {z}
  /\ Takes(z[1], z[2])
  /\ excused' = excused \cup {z[1]}
  /\ UNCHANGED <<files, log, order, lockVars, runVars, peeked, faults, lossVars, labelled, forced,
                 used>>

MarkDone(p) ==
  IF way[p] = "up" THEN MarkApplied(Head1(p), batch[p]) ELSE MarkReverted(Head1(p))

\* Recorded: on to the next file, with the next batch number under --step.
Advance(p) ==
  /\ Goes(p, "next")
  /\ todo' = [todo EXCEPT ![p] = Tail(@)]
  /\ batch' = [batch EXCEPT ![p] = IF way[p] = "up" /\ job[p].step THEN @ + 1 ELSE @]
  /\ UNCHANGED faults

\* afterEach throws, or the answer to a commit is lost: the migration is in and
\* reported as failed.
FailsAfter(p) == Fault /\ Goes(p, Failed(p)) /\ UNCHANGED <<todo, batch>>

Record(p) ==
  /\ phase[p] = "record"
  /\ MarkDone(p)
  /\ Advance(p) \/ FailsAfter(p)
  /\ UNCHANGED <<files, effect, lockVars, job, way, seen, aborted, peeked, zombies, lossVars,
                 labelled, forced, excused>>

\* phase = 'changelog-write': the body's work stays, unrecorded.
RecordFails(p) ==
  /\ phase[p] = "record"
  /\ Fault
  /\ Goes(p, Failed(p))
  /\ excused' = excused \cup {Head1(p)}
  /\ UNCHANGED <<dataVars, lockVars, job, way, todo, seen, batch, aborted, peeked, zombies,
                 lossVars, labelled, forced, used>>

\* Wrong on purpose: the record is written outside the transaction.
TxThenRecord(p) ==
  /\ phase[p] = "body" /\ Head1(p) \in Transactional
  /\ Takes(Head1(p), way[p])
  /\ forced' = ForcedNow(p)
  /\ Goes(p, "record")
  /\ UNCHANGED <<files, log, order, lockVars, job, way, todo, seen, batch, aborted, peeked,
                 zombies, faults, lossVars, labelled, excused, used>>

\* In a transaction the body's work and its record commit together.
TxCommit(p) ==
  /\ phase[p] = "body" /\ Head1(p) \in Transactional
  /\ Takes(Head1(p), way[p])
  /\ MarkDone(p)
  /\ Advance(p) \/ FailsAfter(p)
  /\ forced' = ForcedNow(p)
  /\ UNCHANGED <<files, lockVars, job, way, seen, aborted, peeked, zombies, lossVars, labelled,
                 excused>>

\* The trace of a failed `up`, as far as the changelog can be reached.
Trace(p) ==
  /\ phase[p] = "trace"
  /\ \/ MarkFailed(Head1(p), batch[p]) /\ UNCHANGED faults
     \/ Fault /\ UNCHANGED <<log, used>>
  /\ Goes(p, "end")
  /\ UNCHANGED <<files, order, effect, lockVars, job, way, todo, seen, batch, aborted,
                 peeked, zombies, lossVars, labelled, forced, excused>>

-----------------------------------------------------------------------------
(* The end of a run *)

\* All files are done.  A redo's second half is an `up` under the same lock.
SequenceDone(p) ==
  /\ phase[p] = "next" /\ todo[p] = <<>>
  /\ IF job[p].op = "redo" /\ way[p] = "down"
     THEN Goes(p, "plan") /\ way' = [way EXCEPT ![p] = "up"]
     ELSE Goes(p, "end") /\ UNCHANGED way
  /\ UNCHANGED <<dataVars, lockVars, job, todo, seen, batch, aborted, peeked, zombies,
                 faults, pastVars>>

Reset(p) ==
  /\ phase' = [phase EXCEPT ![p] = "idle"]
  /\ job' = [job EXCEPT ![p] = NoJob]
  /\ way' = [way EXCEPT ![p] = "up"]
  /\ todo' = [todo EXCEPT ![p] = <<>>]
  /\ seen' = [seen EXCEPT ![p] = {}]
  /\ batch' = [batch EXCEPT ![p] = 0]
  /\ aborted' = [aborted EXCEPT ![p] = FALSE]
  /\ revoked' = revoked \ {p}

\* Wrong on purpose: the release is not scoped to this run's lock.
EndAnyLock(p) ==
  /\ phase[p] = "end"
  /\ lease' = Free
  /\ Reset(p)
  /\ UNCHANGED <<dataVars, peeked, zombies, faults, pastVars>>

\* The run gives back the lock, if it still is this run's.
End(p) ==
  /\ phase[p] = "end"
  /\ lease' = IF lease = p THEN Free ELSE lease
  /\ Reset(p)
  /\ UNCHANGED <<dataVars, peeked, zombies, faults, pastVars>>

\* The process dies, its lock document stays.  A transaction rolls back; work
\* that is done and not recorded stays.
Crash(p) ==
  /\ phase[p] # "idle"
  /\ Fault
  /\ Reset(p)
  /\ excused' = IF phase[p] = "record" THEN excused \cup {Head1(p)} ELSE excused
  /\ UNCHANGED <<dataVars, lease, peeked, zombies, lossVars, labelled, forced, used>>

-----------------------------------------------------------------------------

\* What a run does when nothing goes wrong with it.
Work(p) ==
  \/ PlanUp(p) \/ PlanDown(p)
  \/ Stop(p) \/ Skip(p) \/ Load(p) \/ StartBody(p)
  \/ BodyCommit(p) \/ Record(p) \/ TxCommit(p) \/ Trace(p)
  \/ SequenceDone(p) \/ End(p)

Mishap(p) ==
  \/ LoadFails(p) \/ BodyFails(p) \/ Timeout(p) \/ RecordFails(p) \/ Crash(p)
  \/ Unlock(p) \/ Told(p)

Next ==
  \/ \E f \in File : FileArrives(f)
  \/ Peek
  \/ \E p \in Run, c \in Jobs, label \in 0..MaxBatch : Start(p, c, label)
  \/ \E p \in Run : Work(p) \/ Mishap(p)
  \/ \E z \in zombies : ZombieCommits(z)
  \/ \E p \in Run : Expire(p)

Spec == Init /\ [][Next]_vars

\* Runs go on, a stale lock is reclaimed, and `up` is run again and again.
FairSpec ==
  /\ Spec
  /\ \A p \in Run : WF_vars(Work(p))
  /\ WF_vars(\E p \in Run : Expire(p))
  /\ WF_vars(\E p \in Run, c \in Jobs : c.op = "up" /\ c.by = "all" /\ Start(p, c, 0))

-----------------------------------------------------------------------------
(* Properties *)

Working(p) == phase[p] \in {"body", "record"}

\* Two runs are in the middle of a migration at once only if one of them has
\* been told that it lost its lock (#withLock), or an operator has removed its
\* lock and no heartbeat has told it yet.
BodiesExclusive ==
  \A p, q \in Run : p # q /\ Working(p) /\ Working(q) =>
    \E r \in {p, q} : aborted[r] \/ r \in revoked

\* Who runs a command holds the lock, or knows that it lost it, or had it removed
\* by an operator.
LeaseInv ==
  \A p \in Run : phase[p] # "idle" => lease = p \/ aborted[p] \/ p \in revoked

\* The runs use the lock as an exclusive lease: the one that MigrationLock is
\* shown to be, with the same revoked holders.
Lease == INSTANCE ExclusiveLease
           WITH holding <- {p \in Run : phase[p] # "idle" /\ ~aborted[p]}
UsesLease == Lease!Spec

\* A run is between its body's commit and the record.
Unrecorded(f) == \E p \in Run : phase[p] = "record" /\ Head1(p) = f

\* A file's changes are in the data exactly when its record says applied: always
\* in a transaction, and otherwise unless the body and the record came apart (a
\* crash or a failed write between them, a body that failed half-way or outlived
\* its timeout).  Forced files are exempt.  A lost lock costs no more than the
\* migrations that a run had in hand when its lock was freed or, if an operator
\* removed it, began before it was told (#runSequence, between migrations).
Exact ==
  \A f \in File \ (forced \cup strayed) :
    \/ f \notin Transactional /\ (f \in excused \/ Unrecorded(f))
    \/ effect[f] = IF f \in Applied THEN 1 ELSE 0

Acts(p) == phase'[p] # phase[p]
Applies(f) == log[f].status # "applied" /\ log'[f].status = "applied"
Reverts(f) == log[f].status = "applied" /\ log'[f].status # "applied"

\* `ordered`: no single-file run records a migration while an earlier one that
\* was there from the start, or that failed or was reverted, is pending.
OrderedStep ==
  [][\A p \in Run, f \in File :
       Acts(p) /\ job[p].ordered /\ Applies(f) /\ ~lost =>
         \A g \in 1..f - 1 :
           g \in Applied \/ (g \notin FirstFiles /\ log[g].status = "none")]_vars

NewestFirst(c) == c.ordered \/ c.by \in {"batch", "steps"}

\* A rollback of the last batch or of the last steps, an ordered one and a
\* plain redo undo migrations in reverse of the order they were applied in
\* (#assertDownNotBlocked: "the only one that undoes effects in reverse").
\* Explicit batches make a batch what the caller says it is.
RevertsNewestFirst ==
  [][\A p \in Run, f \in File :
       /\ Acts(p) /\ NewestFirst(job[p]) /\ Reverts(f) /\ ~lost
       /\ labelled => job[p].by # "batch"
       => NewerThan(f) = {}]_vars

\* onOutOfOrder "error": a bulk or ordered `up` never records a migration that
\* sorts before one that is applied.
OrderKept ==
  [][\A p \in Run, f \in File :
       Acts(p) /\ job[p].policy = "error" /\ job[p].op = "up"
         /\ (job[p].ordered \/ job[p].by # "one") /\ Applies(f) /\ ~lost =>
         \A g \in Applied : g < f]_vars

\* Whatever fails and whenever it does, a record that says applied never comes
\* to say failed (markFailed), even when the run has lost its lock.
FailureNeverDemotes ==
  [][\A f \in File : f \in Applied => log'[f].status # "failed"]_vars

Numbered(p) == phase[p] = "plan" /\ way[p] = "up" /\ phase'[p] = "next" /\ batch[p] = 0

\* A number that some record has had is not given to a new run, also when
\* everything that had it was rolled back (getMaxBatch), as long as nobody gives
\* explicit batches.
BatchNeverReused ==
  [][\A p \in Run : Numbered(p) /\ ~lost /\ ~labelled => batch'[p] \notin used]_vars

\* Every migration on disk is applied in the end, those that failed or were cut
\* off by a crash included.
AllApplied == <>[](files \subseteq Applied)
=============================================================================
