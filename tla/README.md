# migronaut in TLA+

migronaut applies migrations to MongoDB databases: a line of files applied one
by one under a lock, long-running *background* migrations beside the line,
`converge` for declared collections and indexes, a queue adapter, and a runtime
for versioned documents. This directory holds TLA+ models of it, the TLC
configurations that check them on small instances and TLAPS proofs of what
matters most. Source lines refer to the repository, whose code is `src/` of it
(here `src/src/`).

## The system

| Component (src/src) | State | Operations | What is hard |
|---|---|---|---|
| Migration lock (`core/lock.js`) | one document in `_migronaut_locks`: owner, nonce, lockedAt | acquire, renew, release, forceRelease; runWithLock: heartbeat, deadline, early release | two clocks (server staleness, client deadline), multi-step acquire, lost replies, crashed holders, operators |
| Migration commands (`core/migrator.js`, `sequence.js`, `changelog.js`, `runner.js`) | one record per migration: status, batch, appliedAt | up, down, redo, nextBatch | crash between body and record, timeouts that do not stop the body, files arriving late, partial failure, batch numbers |
| Waiting for the lock (`core/lock-wait.js`, `run.js`) | a stall budget and a backoff | withLockWait, runMigrations | the budget follows another process's heartbeat |
| Background state (`background-store.js`, `background-spec.js`, `background-partition.js`) | a state document per migration, a document per partition with its lease | transitions, claim, checkpoint, reap | leases that expire, fencing, compare-and-set with retries |
| Background coordinator (`background.js`, `background-kit.js`) | its own lock, pass number, plan | plan, next pass, finalize, pause, resume, cancel, retry, repin | controls race coordinator and lanes; generations |
| Background lanes (`background-engine.js`, throttle, shards) | a slice in memory, a cursor in the partition | run a slice, apply a batch, checkpoint, skip, fail | batch applied and checkpoint lost; documents changed between read and write |
| Drift watch (`background-watch*.js`, `background-drift.js`) | resume tokens | follow a change stream, verify | lost tokens, restarts |
| Converge (`converge*.js`, `index-spec.js`, `search-index-spec.js`) | collections, validators, indexes | diff, execute | half-done DDL, concurrent DDL, lock given up before the end |
| Baseline, import, audit | the changelog | adopt, import, audit | bulk writes under the lock |
| Versioning (`versioning/`) | a version per document | read with upcasting, guarded write | optimistic concurrency beside background writers |
| BullMQ adapter (`bullmq/`) | jobs and groups in Redis | enqueue, process, retry | duplicate and reordered jobs, stalled workers |
| CLI, config, loader, logging, telemetry, templates | none shared | parse, print, load | not modelled: I/O and formatting |

The lock is under everything that writes: `up`, `down`, `redo`, `converge`,
`baseline` and `import` call `runWithLock`, which calls the unit of work with an
abort signal. Commands read the changelog and the files, and write one record
per migration. Background migrations are registered by an `up` and then run by
coordinators and lanes that have locks of their own in the same collection.

What makes the parts correct, in short. *Lock*: at most one holder knows no
better; the holder's deadline fires before anyone may reclaim; no step touches a
fresh lock that is not its own; an orphan is reclaimed. *Commands*: data and
changelog agree except where the documentation says they cannot; a failure never
demotes an applied record; ordered steps keep the order; rollbacks undo the
newest first; batch numbers are not reused; the line goes on after any failure.
*Background lanes*: rewrites are atomic on what a document is at that
moment, no more lanes than slots can save anything, a checkpoint never goes back,
no document is stepped over or counted twice. *Background coordination*: a
completed migration has left no document behind, what was counted stays counted,
what was rewritten and could be saved is not withdrawn, and one that nobody stops
ends. *Queue*: what is applied is a prefix of the line whatever the queue redelivers,
a converge job only works while nothing is pending, chains of coordinators have rounds
of their own, and everything is done in the end. *Converge*: a clean run leaves
nothing for the next one, an index it took away is back or reported, only what
was reviewed is destroyed. *Versioning and drift watch*: no write is lost, and
no late write in an old shape is passed over.

## Modules

```
ExclusiveLease          VersionedCollection        (what a lock, and a collection, promise)
  ^ implemented by        ^ implemented by
MigrationLock           BackgroundLanes            BackgroundPasses
  MigrationLock_proofs    BackgroundLanes_proofs,    BackgroundPasses_proofs
                          BackgroundBatches_proofs
MigrationRun            BackgroundQueue            ConvergePlan    VersionedDocuments
  (uses the lease)        ^ EXTENDS                  ^ EXTENDS       ^ EXTENDS
  MigrationRun_proofs   MigrationQueue             Converge        DriftWatch
                          MigrationQueue_proofs      Converge_proofs DriftWatch_proofs

LockWait    Adoption    BackgroundSpec    LanePacing    ShardPlan    SearchDefinition
                                                           (algorithms)
```

`MC<module>` instantiates a module for TLC. Three models compose components by
extension: `MigrationQueue` has the line of jobs, the background queue and the
runs that both start; `Converge` runs what `ConvergePlan` plans; `DriftWatch` has
the pods of `VersionedDocuments`, the lanes and the watchers on one collection.
Where a model needs another component, it keeps what that component's own model
shows of it: the lock is a variable that is taken and lost (`ExclusiveLease`, used
no other way: `UsesLease`), a lane of `BackgroundPasses` is one of
`BackgroundLanes` without conflicts, a document's rewrite in `DriftWatch` is the
atomic step of `VersionedCollection`.

The six algorithm modules have no behaviour of their own. They are operators on
small values, and their `MC` modules compare them, by named `ASSUME`s that TLC
evaluates before a run, with what they are for, over every input of a bounded set.
Those `MC` modules are extended by the one whose component calls the algorithm:
`MCLockWait` by `MCMigrationLock`, `MCAdoption` by `MCMigrationRun`, `MCLanePacing` by
`MCBackgroundLanes`, `MCShardPlan` and `MCBackgroundSpec` by `MCBackgroundPasses`,
`MCSearchDefinition` by `MCConverge`.

### MigrationLock (`core/lock.js`)

The database keeps the document `lock` (owner, nonce, age since its `lockedAt`);
each run has a phase in `runWithLock`, the nonce it minted, the request it
waits for (`wait`), its heartbeat and deadline timers, and its abort flag.
Requests take effect at the server and their replies come back separately, so
another process's step, a crash or a deadline may fall between. An error may
come back for a request that was applied. Time is relative: ages and timers
count ticks, `Tick` moves them together, and a timer that is due fires before
time goes on. An acquire is upsert, reclaim of a stale document or refusal,
then the read that confirms it; renew and release are filtered by owner and
nonce; `EarlyRelease` is `lock.release()` for a tail that only reads;
`forceRelease` is the two operations it is in the code. `nonce` values are
minted fresh; two runs may share an owner id (`OwnerOf`), which a queue or a
configured `generateId` makes possible.

### MigrationRun (`core/migrator.js`, `sequence.js`, `changelog.js`, `runner.js`)

A file is its rank in name order. `log` is the changelog, `order` the applied
files by `appliedAt`, `effect` how often each file's changes are in the data.
A command goes through `plan`, then for each file `next` (abort check and skip),
`load` (checksum, beforeEach, load), `body`, and outside a transaction `record`;
a failed `up` goes to `trace`; `end` releases the lock. `TxCommit` is the
transaction, in which body and record are one step. `FailsAfter` is a record
that was written by a migration which is then reported as failed. A timed-out
body outside a transaction stays behind as a zombie. `Crash` leaves the lock
behind until `Expire`. `Unlock` is an operator's `migronaut unlock`: the lock is free
for others and the run is not told (`revoked`), so it goes on, from migration to
migration, until `Told`: a heartbeat found the lock gone, or none came through in time,
and the abort signal is set. A run that was told keeps the lock, if it still has it, until
it ends or `Expire`. A redo plans its `up` half when its `down` half is over, under the
same lock.

History variables: `lost` (a lock was freed under a run), `strayed` (the files that a
run had in hand when its lock was freed, or began before it was told), `forced` (files re-applied on
demand), `excused` (body and record came apart), `labelled` (an explicit batch
was given), `used` (batch numbers). An explicit batch is older than what has
been applied since, so `down` of "the last batch" need not be the newest files
then, and a number may come back; `down --steps` and `--to` keep
the order even so, which `RevertsNewestFirst` states.

Abstracted: the reads a command plans from are one step; dry runs, the numbers
of an explicit `down --batch`, and hooks around the whole run are left out; the
version a job was planned with and `requires` are in `MigrationQueue`, strict mode
and forward-only records in `Adoption`; what an
explicit batch is given is a number `nextBatch()` has answered. That a body
which fails without a transaction may have done part of its work is a choice.

### BackgroundLanes (`core/background-engine.js`, `background-store.js`, `runSlice` of `background.js`)

One plan of a background migration: partitions with status, cursor, lease and
counters, documents with shape, contents and revision. `lane[l]` is what one
call of `runSlice` keeps in memory, with `pc` where it is: `claim` (leases were
reaped and free slots read), `control`, `read`, `write`, `reread` (the second
look at documents whose write matched nothing), `checkpoint`, `budget`,
`release`, then `failSlice`, or `failPartition` and `failState`. Between any two
the application may write or delete a document, another lane may work, and the
lease may be lost. With a transaction (`txn`), `write` commits documents and
checkpoint in one step, if nothing that was read has changed; otherwise one of
`TxnRetry`, `TxnDocError`, `TxnTooBig`, `TxnInTheWay` and `TxnUnknown` happens. A
commit whose answer is an error may have landed: with most errors the slice ends
(`TxnUnknown`), but one that ran out of time is taken for a batch that is too slow, and
the lane goes on from where the batch began (`TxnTooBig`; `unheard`, history, says that
it landed).
`Holds` is the filter of the checkpoint, `MayFail` that of the failures,
`Unchanged` the guard of each document's write, `SlotTaken` the unique index.
What the state document says to lanes is `ctl`.

History variables: `rewritten` and `upgraded` (who brought a document to the new
shape) and `passed` (documents that a checkpoint left for the next pass).

Abstracted: a heartbeat is a lease that does not expire, `ExpireLease` one that
did not come in time; the two reads of the second look are one step; the size
the throttle picks is any up to `batchSize`; a retry reopens the failed
partitions in the step that moves the state. Left out: the slots per shard
group, step migrations, the bytes of a transaction, collections without a
revision field (where `Counted` would have to guess).

`VersionedCollection` says what every writer of such a collection may rely on: a
write of the application and a rewrite are each one step on the document as it
is.

### BackgroundPasses (`core/background.js`, `background-kit.js`, the state and plans of `background-store.js`)

The state document, the partitions of every plan, the coordinator lock, and a
process counter for each coordinator, lane, operator and deploy: every action is
one access to the database, decided on the copy of the state that the process
read before, so everybody else comes between any two. A coordinator goes through
`replan`, `drain`, `plan`, `commit`, `tidy`, `activate`, `look`, `close`, `roll`,
`judge`, then `complete`, `next` or `fail`. An operator's pause, resume, cancel
and retry are a read and a compare-and-set, a repin a read (`Repin`) and a write that
compares nothing (`Pin`); `withdraw` is the check, the pause, the
wait for lanes and the check again. A deploy registers, reverts or withdraws. The
drift check reopens. Ids lie in type brackets, as range queries see them.

History variables: `past.work` is what checkpoints counted, a set in which a count is
the n-th rewritten document of a partition, so that "counted twice" and "lost" mean
something; `past.leaks` what of it a replan or a retry from the start dropped before it
was rolled up, or a lane counted when the roll-up had already gone past its plan;
`past.late` what the application, or a lane of an earlier registration, wrote after the
count that completion goes by; `past.rewrote` the documents that lanes rewrote, and
`past.unsaved` those of them in a batch that will not be saved any more.
`past.ousted` are the coordinators at work when the migration was registered again, and
`past.misled` says that one of them completed it.
`past.crossed` (the state or its partitions were replaced or reopened under a
coordinator at work), `past.resumed` and `past.stalled` mark behaviours that the table
of differences below describes and a property sets apart.

### MigrationQueue and BackgroundQueue (`bullmq/`)

`BackgroundQueue` is Redis for background migrations: coordinator jobs with their
rounds and deduplication keys, lanes as children or as plain jobs, stalls, retries,
the heal that starts chains from what MongoDB says; of the kit it keeps whether a
migration is done, how many slices are left and who holds a lease. `MigrationQueue`
adds the line of `up`, `down`, `converge` jobs, sync ticks, callers whose plan and
whose add are two steps, workers that fetch, wait for the lock or give up, plan
again under the lock, apply, and enqueue what comes next, jobs that stall while
their process lives on, pods that close or crash, a CLI run, a flushed Redis. The
changelog is the sequence of applied files and the trace of each. `LineStopped`
and `Earlier` are the guards of the ordered step.

### ConvergePlan and Converge (`core/converge-plan.js`, `converge.js`, `converge-search-run.js`)

`ConvergePlan` is the planner as operators: `PlanCollection` takes a definition, a live
collection and the options to rows and steps. An index is name, key, uniqueness and
TTL; a validator the version floor. `Converge` carries the steps out, one server
command per action, with the fallbacks of the code: a modification that fails
becomes a rebuild, a conversion to unique is prepared, checked and undone, a rebuild
that cannot create puts the old index back. Beside it run another converge (which
only the loss of the lock lets in), an administrator, the application with
duplicates and documents below the floor, and a search server that builds in the
background and lists late. The administrator also creates indexes, under declared names
too. `fresh` holds which runs' plans nobody has disturbed. A rebuild drops what it
replaces in any order. The search server lists the version of every index; where one
lists none, `isSearchIndexReady` (`search-index-spec.js:702`) leaves the comparison out and
takes an index that serves for the new one, which `ReadyServes` does not speak of. The
model assumes of its definitions that the indexes of a
collection have different names and its `unique` is a Boolean (`DefinitionsAssumption`), and of the
start that a missing collection has no indexes and no floor and that search lists are up to date
(`StartsAssumption`).

### VersionedDocuments and DriftWatch (`versioning/`, `core/background-watch*.js`)

A document's data is the set of writes it carries, which is what a lost update
would lose. Pods of two releases insert, upsert, and load, lift and write back
guarded by the revision, with retries. A deleted document is not inserted again
under its id (a revision would start over at 0, and a guard from before the delete
could match). The log is what the server delivers of old-shape writes; a position
in it is a resume token. `DriftWatch` adds the lanes of each migration, reduced to
guarded rewrites, the final count and completion, and two watchers: take the lock,
look for the token, open the stream or start it and probe, follow events, upgrade
hop by hop with retries or hand back to the lanes, save tokens fenced by the lock,
crash, lose the lock, find the token fallen off the oplog; and reverts. Handing back
to a migration that is still running changes nothing (`control` refuses the retry):
its lanes find the document, unless the count that completes it has been taken
already, and then the code lets the document go (`excused`). The two
reads at the start of an upgrade are one step. Migrations start running or
completed, so that a watcher meets both without all the passes in between.

### SearchDefinition (`core/search-index-spec.js`)

Whether a live search index is what was declared: defaults filled in on both sides,
what only the server says trimmed, differences, what an update may not change, build
states. A definition is a node with options and nested mappings. Compared with
`SameMeaning`, the equality of what both ask for, path by path. Checked: an index
just created compares as unchanged however the server reports it
(`CreatedUnchanged`), only such a one does (`UnchangedMeansSame`), an update that is
allowed keeps what embeddings were made with (`UpdatesKeepEmbeddings`), ready means
the newest version serves (`ReadyIsNewest`). A mapping and a list of one mapping
are not told apart.

### ShardPlan (`core/background-shard.js`)

Runs of chunks, merged and split, by sample or by hash, into partitions; the batch
query with its targeting predicate and the cursor. Checked: a plan covers every key
once, within its limits, and a partition that names a shard lies on it
(`PlansCover`), hashed pieces leave no gap (`HashesCover`), and a scan reaches every
document that can be rewritten, over both regions of the first version, whatever
the limit and whatever it steps over (`ScansServe`). Shard keys have two fields, of
which the first is hashed or none is. The time-outs of samples and their random
order are left out: a sample is any list of keys in order.

### LanePacing (`core/background-throttle.js`, `background-kit.js`, `background-runner.js`)

The adaptive batch size and pause, replication lag, how a lane goes on after a
slice, what a driving run does with the coordinator's answer, whose turn the
in-process runner takes. Checked: sizes and pauses stay in bounds and a lane pauses
only when its batches cannot be smaller (`PacedInBounds`), one slow moment is
punished once although lanes share the state of a partition (`OncePerRoundTrip`),
fast batches bring back full size (`Recovers`), a lane waits exactly for
secondaries that count (`WaitsForSecondaries`, `WaitsOutLag`), it gives up after the
last of the failures in a row and not before (`GivesUpInTheEnd`), turns reach
everyone who is free (`TurnsGoRound`). Jitter and abort signals are left out.

### BackgroundSpec (`core/background-spec.js`)

An export is a function from its keys to their values; `Issues` are the keys that are
refused, and the rest resolves a valid one with its defaults. Checked over exports with
values at and past the limits: settings that resolve are ones that `LanePacing` and the
planners can work with (`SettingsFit`), a guard is by the version and revision fields of
the declared collection or what the author named, up to a version that the shapes know,
and never by a field that the filter constrains (`GuardsAgree`); a plan outlives changes
of settings and nothing else (`PlansKept`). `BoundsCross` and `RevisionsDiffer` are
exports that are accepted and perhaps should not be (below). Types of values, names that
a field can have and settings that only have a default are left out.

### LockWait (`core/lock-wait.js`)

The loop as a function of what a waiter keeps, an answer and a sleep. `MCLockWait`
plays it out against holders that renew every half TTL, die or stall, for every sleep
that jitter allows, in units of 2.5 s. Checked: nobody gives up on a holder that renews,
and the lock is taken within a sleep of its release (`HealthyOutwaited`); a budget of
one's own needs half the TTL and two sleeps (`ShortBudgets`: with a little less the wait
may end, though the code warns only up to half the TTL); a lock whose holder died is
taken over before anyone gives up (`DeadReplaced`), if the waiter's TTL is the holder's
(`DeadOutlasts`); a stalled holder gets the budget, less than a sleep short of it, and
at least four polls (`StallBounded`); what a queued job that waited for an earlier one
has left (`BusyThenHeld`); who is told of an abort (`AbortTold`).

### Adoption (`core/baseline.js`, `import.js`, `import-runner.js`, and what reads their records)

A changelog is a function from names to records, a command a function of the
changelog and the files. Checked: after a baseline `up` has nothing to do and
nothing that was applied has changed (`BaselineSettles`); what is run later has a
batch no record ever had and can be reverted alone (`BaselineApart`, `ImportApart`);
imports number migrations in the order they ran, apart from all others
(`ImportOrders`); an import interrupted anywhere, also in the middle of an unordered
bulk write, and repeated with force is the import that was not (`ImportResumes`);
a strict run accepts what was imported unless a hash had to be trusted
(`ImportVerifies`); audit's verdicts are what strict runs and `up` will find
(`AuditAgrees`). Changelogs of migrate-mongo have a name at most once.

## Runs

| Run | Instance | Shows |
|---|---|---|
| `lock` | 2 runs, 4 nonces, TTL 6, latency 1, operators, both runs with one owner id | types, exclusion, deadline before reclaim, healthy holders keep the lock, a fresh lock is untouched, implements the lease; `MCLockWait` |
| `lock_live` | 1 run that crashes and comes back, 4 nonces, TTL 3, operator | `LossIsTold`, `OrphanReclaimed` |
| `run` | 2 processes, 2 files (one transactional), up, forced up, down, redo, timeouts, any 2 faults, an unlock and a lost renewal among them | `Exact`, `FailureNeverDemotes`, `UsesLease`; `MCAdoption` |
| `run_order` | 1 process, 3 files of which two arrive in any order, 12 kinds of command under both `onOutOfOrder` policies, single files under batches that `nextBatch()` answered, a fault | `OrderedStep`, `OrderKept`, `RevertsNewestFirst`, `BatchNeverReused` |
| `run_line` | 2 processes running `up`, 3 files, two arriving, any 2 faults | `AllApplied` |
| `lanes` | 2 lanes, 1 slot, a partition of 2 documents (one fails) and an empty one, plain and transactional, 1 write of the application, any fault | `LanesApart`, `NothingSkipped`, `CountedOnce`, `RewritesAtomic`, `MovedForward`, `WorkEnds`, `LanesDrain`; `MCLanePacing`. The types are proved (`LanesTypeCorrect`) |
| `passes` | 1 coordinator, 1 lane, 2 documents in two brackets (one fails), 2 plans, 1 act of an operator or deploy, any fault | types, `TotalsKept`, `CompletedClean`, `WithdrawnUnwritten`; `MCShardPlan`, `MCBackgroundSpec` |
| `passes_live` | 2 coordinators, 1 lane, 5 plans, 1 write of the application, any fault | `CompletedClean`, `EndsClean` |
| `queue` | 2 pods without global concurrency, 2 files, 2 calls or CLI runs, 2 troubles, converge at the tail | `PrefixApplied`, `ConvergesLast` |
| `queue_background` | a pod, a background migration and one that requires it, with and without BullMQ parents, 1 trouble | types, `RoundsApart`, `AllDone` |
| `converge` | a run that prunes and rebuilds unique indexes and one that does neither, 2 collections, an act of the administrator (who may create an index, also under a declared name) or the application, a fault | `FixedPoint`, `LossReported`, `ReviewedOnly`, `ReadyServes`; `MCSearchDefinition` |
| `versions` | 1 document, pods of 2 releases, 2 writes, 3 versions, 2 watchers, lanes, reopening or not, transactional or not, one crash, lost lock, broken stream, truncation or revert | `DriftServed`, `NoLostUpdate` |

Bounds. Nonces bound how many acquires a behaviour has; four let each run lose
and take the lock again. The TTL of 6 ticks is the smallest at which interval
(3), margin (1) and latency (1) differ and a renewal can fail and be repeated
before the deadline. `MaxBatch` stops planning when the numbers run out, and is
large enough for rollbacks between applies; `MaxFaults` is 2 where two processes
run a command, so that a second fault may hit the recovery from the first, and 1 in
`run_order`, whose subject is the sequence of commands. Two runs suffice for exclusion because the
invariants speak of pairs; the proofs cover every number. In `lanes` one
slot makes the two lanes take over from each other, which is what fencing is
about, and the number of lanes that may still hold a token bounds how many are
needed: two with one slot. One write of the application suffices
to change any document at any moment of a batch, and `MaxRetries` 1 to see both
a retry and the end of retries. In `passes` two plans are the pass that is
disturbed and the one after it, and in `passes_live` five let a late write, a
reopening and a replan each cost a pass before the migration ends. Six rounds
are what a chain of coordinators needs with one trouble (`queue_background`); two
calls are a plan and another that outdates it. In `versions` two hops make a chain,
and `MaxLog` stops only the loop in which a watcher undoes a revert. Symmetry of
runs, pods and watchers is used where no liveness is checked.

Fairness. `MigrationLock!FairSpec`: timers fire, requests are answered or fail,
runs that hold the lock end; acquires are strongly fair because they compete.
`MigrationRun!FairSpec`: a run that can go on does (bodies end or time out), a
stale lock is reclaimed, and `up` is run again when nothing runs, which is what
a deploy pipeline or a queue does. `BackgroundLanes!FairSpec`: a lane that can go on does and is started again, as
its queue job or runner loop does, and the lease of a lane that is gone expires.
`BackgroundPasses!Fairness`: coordinators and lanes are driven until the migration is
done, abandoned leases expire, requirements are met, what an operator or a deploy
began goes on, drift is looked for (`verifyIntervalMs`). `MigrationQueue!FairSpec`:
pods are started, schedules tick, BullMQ finds stalled jobs, failed files are
fixed, a dead holder's lock goes stale; of verify ticks nothing is asked. Fetching and
working are strongly fair, because pods compete for jobs and the lock.
Faults are bounded in number, so the fairness
of the work is not spent on failing. `converge` and `versions` check safety only.
Deadlock is not checked where a model stops for good when its bounds are used up.

### Where the code differs from what it says

What the models do in each case is the code's behaviour; where a property would
not hold, it excludes exactly that case, named in its comment.

| Where | What the repository says | What happens |
|---|---|---|
| `lock.js:337` | `lock.js:329`: the deadline aborts strictly before the lock is reclaimable | it is armed when the reply is handled, not when the server stamped: replies slower than the margin (5 s at the default TTL) open a window |
| `migrator.js:853` | `docs/guide/how-it-works.md:153`: a run that loses its lock stops before its next migration | a loss between the abort check and the body (checksum, hooks, load) does not stop that body |
| `lock.js:226` | `how-it-works.md:154`: it "never runs on alongside the new holder" | a run whose lock an operator removes is not told before its next heartbeat (`lock.js:355`): until then it finishes and begins migrations beside the new holder (`revoked`, `strayed`) |
| `background-engine.js:594` | `background-engine.js:541`: "one too big or too slow is a document error" | a commit that ran out of time (`maxCommitTimeMS`) may have landed: the batch is done again from the old cursor, which goes back, and a document that was alone in it is reported as failed although it was migrated (`unheard`) |
| `migrator.js:1021` | `how-it-works.md:116`: the failing migration is not recorded as applied | a throwing `afterEach`, or a commit whose answer was lost, reports a failure of a recorded migration |
| `sequence.js:66` | `sequence.js:61`: `up --to` an applied file finds nothing pending before it | a file that arrived late is pending before it, and is applied |
| `changelog.js:216` | `changelog.js:213`, `migrator.js:656`: a rolled-back number is never handed out again | applying a file again under an explicit lower batch removes the record that held the higher number |
| `changelog.js:243` | `migrator.js:1569`: forward-only migrations can be re-applied and then reverted natively | a forced re-apply keeps `origin`, so `down` still refuses the record |
| `lock-wait.js:173` | `lock-wait.js:125`: `onSettle` "fires once when a wait that happened ends" | not when the attempt that got the lock fails: the wait is never recorded (`BusyThenHeld`) |
| `lock-wait.js:201` | `lock-wait.js:191`: "The timeout bounds *stall* time, not total wait" | what a job waited for an earlier one counts against a holder it then meets, which renews and is given up on (`BusyThenHeld`) |
| `lock-wait.js:109` | `lock-wait.js:31`: a default below a full TTL "would give up ... before a dead one could be replaced" | the budget follows the holder's TTL, staleness (`lock.js:146`) the waiter's: with a longer one it does give up first (`DeadOutlasts`) |
| `background-spec.js:382` | `background-spec.js:225`: `minBatchSize` "must not exceed adaptive.maxBatchSize" | an upper bound below 10 alone is accepted beside the default lower one: batches never get smaller (`BoundsCross`) |
| `background-spec.js:430` | `docs/guide/background-migrations.md:107`: with a declared `versioning` "takes its field names from there" | another `revisionField`, unlike another `versionField`, is accepted: the guard then misses the application's writes (`RevisionsDiffer`) |
| `import-runner.js:82` | `import-runner.js:78`: a forced re-import keeps batch numbers stable | only if nothing was applied in between: then imported batches move past it, and `down` of the last batch is refused |
| `background.js:997` | `background.js:1005`: "`totals` stays" on a retry from the start | a replan, or such a retry, drops counters that were not rolled up (`past.leaks`) |
| `background.js:411` | `background.js:1005`: `totals` "is what was rewritten" | a plan whose match was pinned anew after the migration had failed is replaced without the drain of a replan: a lane still in its batch counts into a generation that the next roll-up has passed (`past.leaks`) |
| `background.js:1034` | `background.js:997`: a pass that closed is not resumed, for "its partitions' work since would never be counted" | it is judged on a state read before: a retry that reopens partitions between a coordinator's read of the counters and its roll-up lets them count into a generation that is closed (`past.crossed`) |
| `background-kit.js:196` | `background-kit.js:202`: `withdraw` waits for the lanes, so that the check sees every batch they wrote | a lane that stalled past its lease and was not reaped passes the checkpoint afterwards (`past.stalled`); so may one that a resume let go on |
| `background-kit.js:196` | `docs/guide/background-migrations.md:259`: withdrawn "only while no document has been rewritten" | it looks at counters: what a batch wrote before a crash, a failed checkpoint or the loss of its partition (`past.unsaved`) and what a replan or a retry from the start dropped (`past.leaks`) does not keep it from being withdrawn |
| `background.js:596` | `background-migrations.md:269`: a migration registered again "covers only what is left" | `finalize` moves to completed whatever registration it finds: a coordinator that began before, and whose count was of the old one, completes the new one (`past.misled`) |
| `background.js:1073` | `background-migrations.md:836`: a change to what it matches "replans the pass" | decided on the state that `repin` read and written without comparing: if the first plan is committed in between, there is no replan; the next coordinator plans anew, without superseding the old plan and waiting for its lanes |
| `background-store.js:266` | `background-store.js:264`: never partitions of an old registration | a coordinator that inserts between its `deleteMany` and `replaceOne` leaves some (`past.crossed`) |
| `bullmq/producer.js:136` | `producer.js:301`: waiting on a foreign job "simply joins the job that will do the work" | after the first failed and was fixed, it is added behind the job that was absorbed, which fails as blocked |
| `bullmq/processor.js` (`isTransientForJob`) | `processor.js:48`: "a blocker with a 'failed' trace stopped the line for real" | without global concurrency a trace that is out of date fails a job while the file's own job is at work (`LineStopped`) |
| `converge-plan.js:165` | `docs/guide/collections.md:549`, `converge-plan.js:33`: without `rebuildUnique` a unique guard is never dropped | the check looks at the same rebuild's drops only: in an entangled group another's guard is dropped |
| `converge.js:754` | `converge.js:745`: a drop or rebuild that the reviewed plan did not have refuses the run | rows are compared by target, name and action: an index created meanwhile that collides with a reviewed rebuild, or has the name of one that it replaces, is dropped with it |
| `converge.js:309` | `converge.js:304`: a drop that fails has nothing to restore | with several drops, the earlier ones are neither restored nor reported |
| `converge.js:317` | `docs/reference/error-codes.md:64`: `restored` says the old index is back | one whose name was already created again is not put back |
| `background-watch.js:502` | `docs/guide/background-migrations.md:754`: a document that the watcher keeps losing goes back to the lanes | a plain batch counts conflicts and answers as usual: nobody takes it |
| `background-watch.js:414` | `background-migrations.md:719`: nothing falls between the start and the stream | a probe that failed is not repeated once a token is saved; a stream whose target was lower passes over later shapes |
| `background-watch.js` (edges) | `background-migrations.md:726`: a watcher stands aside while a revert works | the edges are refreshed only every `refreshMs`: until then it upgrades what the revert has rewritten |

## Proofs

`MigrationLock_proofs` proves for every set of runs and nonces, every TTL and
margin: type correctness; the inductive invariant `LockInv`; mutual exclusion;
that the deadline comes before reclaim; that a fresh lock is never touched by
others; that the lock implements the lease. Exclusion alone is not inductive:
that a holder's document has its nonce says nothing of replies under way.
`LockInv` adds which phase goes with which request (`PhaseInv`), that nonces
in use are distinct and the document's is one of them (`NonceInv`), what a reply
says of the document at the time it was sent (`ReplyInv`), when an operator's
eviction counts (`EvictedInv`), and how far the timers of a holder may lag behind
the age of its document (`HolderInv`). The last needs replies no slower than the
margin (`Latency <= Margin`); with slower ones TLC finds two holders;
`FreshLockSafe` and `TypeCorrect` do not assume it.

A holder that nothing goes wrong for keeps its lock (`HealthyNeverLost`) if besides
an interval and a reply fit before the deadline (`Interval + Latency < DeadlineAfter`).
For that, `OutpacedInv` says of its timers that the next renewal, or the one in
flight, is answered before the deadline fires, and `ToldInv` that only an evicted run's
renewal finds the document missing.

`MigrationRun_proofs` proves all the safety properties of the commands, for any
processes, files, kinds of command, policies, batches and faults. That commands use
the lock as a lease and that bodies overlap only as it allows follows from `LeaseInv`
(a run in a command holds the lock, or has been told of its loss, or was evicted by an
operator and is not told yet), that no failure
demotes an applied record from the shape of the records and the three ways they are
written. The others need `RunInv`:
- `RecordsInv`: `order` lists the applied files once each, and who has a record is on
  disk;
- `RunsInv`: direction, phase and rest of a run fit its command, and the rest is in
  order;
- `PlansInv`, as long as no lock is freed under a run: what a run has planned is still true, because
  nobody else writes the changelog. The rest of an `up` is not applied but for what the
  run saw, with nothing pending before it (`UpOrdered`) and nothing applied after it
  (`UpIntact`) where the command promises that; the rest of a rollback is applied, and
  what is newer comes earlier (`DownNewestFirst`); between body and record the data is
  one ahead of the changelog. `NumbersInv`: every used batch number has one as
  high on record, and the order of application is that of batches and, within a batch,
  of names;
- `DataInv`, whatever locks are lost: `Exact`, and for a run that has the lock that its
  plan is true of every file but those that others strayed to (`FitUp`, `FitDown`,
  `Ahead`); what a run has in hand without the lock has strayed. So an evicted run can
  do no harm to the files it does not touch.

From these `OrderedRuns`, `OrderIsKept`, `NewestRevertedFirst` and `BatchesAreNew` follow
for each step that writes a record. Plans are listings of finite sets in order;
that they exist and are complete is proved by counting (`AscendingFacts`).

`MigrationQueue_proofs` proves the safety properties of both queues, for any number of
pods, files, background migrations, calls, stalls, losses and troubles. Its invariant is
- `BackInv`: a coordinator's rounds, those in its data and those it has been
  told, are not newer than the last one handed out and belong to its chain alone
  (`CoordsInv`); a lane with a lease is at work with a process (`LanesInv`); leases,
  those of the dead included, are no more than slots (`LeasesInv`). `RoundsApart` alone
  is not inductive, because a job that is fetched again goes on with the round in its data;
- `JobsInv`, `KeysInv`: what each job and each plan in hand names, and that no two of the
  waiting, active and orphaned jobs, nor two of one plan, have one deduplication key;
- `LineInv`: the applied files are 1, 2, 3, ..., and the one job in its body has the
  lock and is about the next file, or about the last one for a `down`. This is what the
  checks under the lock establish (`NotBlockedIsNext`), whatever the plan of the job was
  and however often it runs, and why `PrefixApplied` needs nothing of the queue. A
  converge job in its body has everything applied, and since every other job needs the
  lock to apply or revert anything, this stays so to its end (`ConvergeIsLast`). Nothing is
  assumed of global concurrency.

`DriftWatch_proofs` proves both properties of versioned documents and the watcher, for
any documents, pods, watchers, versions, retries and faults. `ReadsInv`: a
document's revision has not gone back since a pod or a watcher read it, and where it is
the same the document still carries what was read, so a guarded write removes no
write that it has not seen (`WritesKept`). `ServedInv` is `LeadsInv` (who has the lock is
the leader on record; positions and tokens are positions of the log), `LogTells` (the
last entry of a document in the log is the shape that it has) and `OwedAhead` (a document
that no pass of its migration looks for any more and that nobody was told about was last
written ahead of the position on record, and of the leader's, or is the one it is
upgrading). `OwedAhead` speaks of migrations whose completing count is taken, not only of
completed ones: a document written between the count and the completion would otherwise
appear from nowhere behind the watcher. It is what has to survive a change of leader, a
broken stream, a truncated oplog and a reopening, and `WatcherServes` is its instance for
the leader at work.

`Converge_proofs` proves two of the four properties of `Converge`, for any definitions,
collections, runs, acts and faults. The invariant (`Inv`) has four parts besides the
shapes of plans and steps:
- `Searched`: what a search index serves is a version that it has, and one that is listed
  ready serves. A definition is given to the server before the list shows it,
  so this is what the wait of the search phase may rely on (`ReadyServes`);
- `TargetsKnown`: every version of a search index past the one a run began to wait
  with is as declared, as long as nobody interferes;
- `DropsReviewed`: each index that a run has still to drop stands on a row that was
  reviewed, or in the way of a rebuild that was. The steps of a plan have this from the
  planner (`PlanParts`, `PlanOK`: who drops an index has a row that says so), a second plan
  under the lock because it introduces nothing, and a modification or conversion that
  becomes a rebuild on the way because it has the name of its step.

Plans are listings of declared indexes in the order of the definition, with
the indexes of a group at its first member (`DeclaredAtOf`, `OrderExists`); what a command
does to a collection is `EffectOK`.

`BackgroundLanes_proofs` and `BackgroundBatches_proofs` prove all the safety
properties of the lanes, for any number of lanes, partitions, documents, slots,
tokens and faults and any batch size, retries and budgets. The argument is in
layers. Types (`TypeInv`) need that a claimed lane has a partition and a token,
and that an open partition may fail once more. `ApartInv`: no two leases share a
slot and no two lanes a token; the claim keeps it, every other step only drops
leases and tokens (`StepOnParts`, `StepOnLanes` say once what a step does to
them). `CursorInv`: a lane that holds its lease works from its partition's cursor
on, or from before it after a commit that landed unheard; another lane's checkpoint
cannot move that cursor, because its token would have to be the same. `SnapInv`: what a lane remembers of a document is how the
document is as long as its revision and shape are the same; so a guarded write
is a rewrite of what the document is now, which is the refinement. `BatchInv`
says what a lane has of its batch: it covers all of the old shape up to its end
(`FirstOfFacts`, about the sorted and limited query), what may still have the old
shape has failed, is left or still to be written, and what it counts was touched.
With these, `NothingSkipped` and the counters are preserved by each checkpoint.
The assumptions are those named in the module: partitions' ranges are disjoint,
sets are finite, settings are positive, and documents and partitions are numbers
(their order is that of `_id` and `seq`).

`BackgroundPasses_proofs` proves all the safety properties of a background migration
over its passes, for any number of coordinators, lanes, documents, plans, controls,
deploys and faults. None of them is inductive, because everybody acts on a copy of the
state: what has to be said is what a copy still tells when it is used.
- `Names`: a plan token is of one generation for everybody who goes by it, and a plan
  that is inserted and not yet committed belongs to one coordinator and has no count;
- `OnlyPoison`: only documents that cannot be migrated are ever recorded as failed;
- `Quiet`: a deploy that waits for the lanes of a migration it paused finds none that could
  still save a batch, and what it then checks stays so, unless a lease expired under its
  lane or somebody resumed the migration;
- `Views`: a copy is never ahead of the state, and one of the same generation is of the
  same plan; whoever works or coordinates a generation does so by one plan;
- `Rolled`: no partition of the state's plan is open once its generation is rolled up, and
  none of a plan whose counters are being read (`Total`) and rolled up (`Roll`). This is
  what makes the two steps of the roll-up one, and why a lane's checkpoint between them
  cannot count;
- `Accounted`: counts are of generations that there were, each partition's counter is the
  number of its counts, and what was dropped cannot be rolled up any more;
- `Balance`: the total is at most the number of counts in generations that are rolled
  up; what was read for a roll-up is at most what was counted in its generation, and at
  least what its partitions hold;
- `Clean`: `CompletedClean`, from the moment when the count was taken, for every coordinator
  that began after the migration was registered;
- `Written`: as long as nothing is counted, every document that was rewritten is in a batch
  that a lane has still to save, or in one that will never be. With `Quiet` and `Accounted`
  this is why a withdrawn migration has rewritten nothing else.

`Views`, `Rolled`, `Accounted` and `Balance` are claimed as long as nobody replaced or
reopened what a coordinator was at work on (`~past.crossed`), which is where the table
above says that they fail; completion is clean nevertheless, because the last count
looks at the documents.
`TotalsKept` compares numbers of counts, so the proof is one about finite sets:
`CountsStay`, `CountedParts` and `DisjointCardinality` say what becomes of the counts of
some partitions when others are inserted, deleted or altered. The proof changed the model
twice: it did not go through for the two rows of the table about `background.js:411` and
`1034`, which need more processes than the runs have; TLC found both with 2 lanes and
2 controls, and the properties now name them.

A greatest or least element of a finite set (`FiniteHasEnds`, `FiniteHasLast`, `FiniteHasFirst`) is
found by the well-foundedness of inclusion among finite sets, which needs no
induction theorem with an operator for parameter.

Only model-checked: all liveness properties, which are out of this prover's reach, and
`FixedPoint` and `LossReported` of `Converge`. The algorithm modules are compared with what they are for
on bounded inputs; `SearchDefinition` and `ShardPlan` are
recursive, which no installed prover handles.

## Not modelled

- Configuration, loading of files, templates, connection, logging, telemetry, the
  command line, sandbox and dry runs: no state that several steps or actors share.
- Step migrations of the background kit: their `run` is user code called in a loop
  with the checkpoint that `BackgroundLanes` has.
- A lock with `onLockLost: 'warn'` or `noLock`, which drop the guarantee on
  purpose, and, but for a waiter's side (`DeadOutlasts`), processes that disagree
  about `lockTTLSeconds`.
- The Mongoose plugin, and write-backs of lazily upgraded reads: the guarded
  update that `VersionedDocuments` has, issued elsewhere.
- What index keys and options look like; ordinary index comparison is equality there.

## Plan

1. `FixedPoint` and `LossReported` of `Converge`, as theorems.
2. A lock model with a TTL per process.
