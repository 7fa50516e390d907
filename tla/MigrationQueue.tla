--------------------------- MODULE MigrationQueue ---------------------------
(***************************************************************************)
(* Migrations as a queue (bullmq/service.js, producer.js, processor.js,    *)
(* jobs.js): a line of jobs in Redis, one migration each, planned by       *)
(* whoever enqueues and worked off by the pods' workers, with sync ticks   *)
(* that enqueue what is pending, converge jobs at the tail, and the        *)
(* background queue beside it.  Redis holds intent, MongoDB holds truth.   *)
(*                                                                         *)
(* A run of the kit is MigrationRun's, kept to its checks under the lock   *)
(* and its outcome.  A migration file is its place in name order; what is  *)
(* kept of a file's version is whether it is the one that failed, and      *)
(* whether it is the one a job was planned with.                           *)
(***************************************************************************)
EXTENDS BackgroundQueue, Sequences

CONSTANTS
  NumFiles,       \* migration files; those in Bg are background migrations
  Requires,       \* what each file requires
  OneAtATime,     \* globalConcurrency: one active job on the queue
  ConvergeAfter,  \* convergeAfterUp, with something declared
  Free, Cli, Gone, \* who else holds the lock: nobody, a CLI run, a dead process
  MaxCalls        \* bound on enqueue calls and on CLI runs

File == 1..NumFiles
NoFile == 0

ASSUME FilesAssumption == NumFiles \in Nat /\ Bg \subseteq File
ASSUME RequiresAssumption == Requires \in [File -> SUBSET Bg]
ASSUME OptionsAssumption == OneAtATime \in BOOLEAN /\ ConvergeAfter \in BOOLEAN
ASSUME HoldersAssumption == Cardinality({Free, Cli, Gone}) = 3 /\ {Free, Cli, Gone} \cap Pod = {}
ASSUME CallsAssumption == MaxCalls \in Nat

VARIABLES
  applied,   \* MongoDB: the applied files, newest last
  trace,     \* MongoDB: a failed trace: "none", "failed", or "stale" once the file changed
  lock,      \* MongoDB: who holds the migration lock
  insync,    \* MongoDB: whether the collections are as declared
  line,      \* Redis: the wait list
  orphans,   \* Redis: active jobs whose process died
  scheduled, \* Redis: whether the schedules are registered
  run,       \* what each pod's worker does
  client,    \* the plan of an enqueue call that has not added it yet
  calls      \* how many calls there were

mqVars == <<applied, trace, lock, insync, line, orphans, scheduled, run, client, calls>>
vars == <<svc, trouble, bgVars, mqVars>>

\* A job: its deduplication key (what it does and its file; for a converge, the
\* one it follows), whether its file has changed since the plan, and how often
\* it stalled.
Job == [what: {"up", "down", "converge", "sync"}, file: File \cup {NoFile},
        old: BOOLEAN, stalls: 0..MaxStalls]
AJob(what, f) == [what |-> what, file |-> f, old |-> FALSE, stalls |-> 0]
SyncJob == AJob("sync", NoFile)
NoJob == AJob("none", NoFile)

\* A worker's run: its job, whether Redis still takes it for the one at work, and
\* for a sync tick the plan it is about to add.
Idle == [phase |-> "idle", job |-> NoJob, own |-> FALSE, plan |-> <<>>]
NoPlan == <<>>

Applied == {applied[i] : i \in DOMAIN applied}

\* Every variable of the two queues has its type, nothing is applied twice, and no
\* deduplication key is on two live jobs.
TypeOK ==
  /\ BackgroundTypeOK
  /\ applied \in Seq(File) /\ Len(applied) = Cardinality(Applied)
  /\ trace \in [File -> {"none", "failed", "stale"}]
  /\ lock \in Pod \cup {Free, Cli, Gone}
  /\ insync \in BOOLEAN /\ scheduled \in BOOLEAN
  /\ line \in Seq(Job) /\ orphans \subseteq Job
  /\ \A p \in Pod :
       /\ run[p].phase \in {"idle", "got", "plan", "body", "post"}
       /\ run[p].phase # "idle" => run[p].job \in Job
       /\ run[p].own \in BOOLEAN /\ run[p].plan \in Seq(Job)
  /\ client \in Seq(Job)
  /\ calls \in 0..MaxCalls
  /\ \A i, j \in DOMAIN line :
       i # j => <<line[i].what, line[i].file>> # <<line[j].what, line[j].file>>

Init ==
  /\ BackgroundInit
  /\ applied = <<>>
  /\ trace = [f \in File |-> "none"]
  /\ lock = Free
  /\ insync = FALSE
  /\ line = <<>>
  /\ orphans = {}
  /\ scheduled = FALSE
  /\ run = [p \in Pod |-> Idle]
  /\ client = NoPlan
  /\ calls = 0

Call == calls < MaxCalls /\ calls' = calls + 1

-----------------------------------------------------------------------------
(* The changelog *)

PendingFiles == File \ Applied
Earlier(f) == {g \in PendingFiles : g < f}
Newer(f) == {g \in Applied : \E i, j \in DOMAIN applied :
                               i < j /\ applied[i] = f /\ applied[j] = g}
FirstPending == CHOOSE f \in PendingFiles : \A g \in PendingFiles : f <= g

\* The background migrations a file requires that are not completed.
WaitsFor(f) == {m \in Requires[f] : bstat[m] # "completed"}

-----------------------------------------------------------------------------
(* The queue *)

Key(j) == <<j.what, j.file>>

\* The jobs Redis has: waiting, or active.
Active == {run[p].job : p \in {q \in Pod : run[q].own}} \cup orphans
Live == {line[i] : i \in DOMAIN line} \cup Active

\* Wrong on purpose: no deduplication.
AddAlways(specs) == line \o specs

InOrder(S) == CHOOSE s \in [1..Cardinality(S) -> S] :
                \A i, j \in 1..Cardinality(S) : i < j => s[i] < s[j]

\* addBulk: a live job with its key absorbs an add.
AddBulk(specs) ==
  LET new == InOrder({i \in DOMAIN specs : \A x \in Live : Key(x) # Key(specs[i])})
  IN line \o [i \in DOMAIN new |-> specs[new[i]]]

Goes(p, ph) == run' = [run EXCEPT ![p].phase = ph]
Rests(p) == run' = [run EXCEPT ![p] = Idle]

-----------------------------------------------------------------------------
(* Planning (producer.js) *)

\* The files an `up` group applies: what is pending, in order, cut short at the
\* first that waits for a background migration.
Cut(f) == f \notin Bg /\ WaitsFor(f) # {}
Planned == {f \in PendingFiles : ~\E g \in PendingFiles : g <= f /\ Cut(g)}
LastOf(S) == IF S = {} THEN NoFile ELSE CHOOSE f \in S : \A g \in S : g <= f

\* A group that reaches the newest migration ends with a converge job; with
\* nothing to run, only when a dry run finds something to do.
ConvergeTail(fs) ==
  IF ConvergeAfter /\ fs = PendingFiles /\ (fs # {} \/ ~insync)
  THEN <<AJob("converge", LastOf(fs))>> ELSE <<>>

PlanUp ==
  LET order == InOrder(Planned)
  IN [i \in DOMAIN order |-> AJob("up", order[i])] \o ConvergeTail(Planned)

\* The newest migrations, newest first: the top of the applied stack.
PlanDown(n) == [i \in 1..n |-> AJob("down", applied[Len(applied) + 1 - i])]

\* enqueueUp() and enqueueDown() plan first, and add what they planned later.
CallUp ==
  /\ client = NoPlan /\ PlanUp # NoPlan
  /\ Call
  /\ client' = PlanUp
  /\ UNCHANGED <<svc, trouble, bgVars, applied, trace, lock, insync, line, orphans, scheduled,
                 run>>

CallDown(n) ==
  /\ client = NoPlan /\ n \in 1..Len(applied)
  /\ \A i \in 1..n : applied[Len(applied) + 1 - i] \notin Bg
  /\ Call
  /\ client' = PlanDown(n)
  /\ UNCHANGED <<svc, trouble, bgVars, applied, trace, lock, insync, line, orphans, scheduled,
                 run>>

CallAdds ==
  /\ client # NoPlan
  /\ line' = AddBulk(client)
  /\ client' = NoPlan
  /\ UNCHANGED <<svc, trouble, bgVars, applied, trace, lock, insync, orphans, scheduled, run,
                 calls>>

\* The scheduler's next tick: there is one at a time.
Ticks ==
  /\ scheduled /\ \A x \in Live : x.what # "sync"
  /\ line' = Append(line, SyncJob)
  /\ UNCHANGED <<svc, trouble, bgVars, applied, trace, lock, insync, orphans, scheduled, run,
                 client, calls>>

\* The file of a failed migration is fixed.  What was planned with the old one
\* names another version.
Aged(s, f) ==
  [i \in DOMAIN s |-> IF Key(s[i]) = <<"up", f>> THEN [s[i] EXCEPT !.old = TRUE] ELSE s[i]]
Fixed(f) ==
  /\ trace[f] = "failed"
  /\ trace' = [trace EXCEPT ![f] = "stale"]
  /\ line' = Aged(line, f)
  /\ client' = Aged(client, f)
  /\ run' = [p \in Pod |-> [run[p] EXCEPT !.plan = Aged(@, f),
                                          !.job.old = @ \/ Key(run[p].job) = <<"up", f>>]]
  /\ orphans' = {IF Key(j) = <<"up", f>> THEN [j EXCEPT !.old = TRUE] ELSE j : j \in orphans}
  /\ UNCHANGED <<svc, trouble, bgVars, applied, lock, insync, scheduled, calls>>

-----------------------------------------------------------------------------
(* A job (processor.js) *)

Serves(p) == svc[p] \in {"up", "closing"}

Fetch(p) ==
  /\ svc[p] = "up" /\ run[p].phase = "idle" /\ line # <<>>
  /\ OneAtATime => Active = {}
  /\ run' = [run EXCEPT ![p] = [Idle EXCEPT !.phase = "got", !.job = line[1], !.own = TRUE]]
  /\ line' = SubSeq(line, 2, Len(line))
  /\ UNCHANGED <<svc, trouble, bgVars, applied, trace, lock, insync, orphans, scheduled,
                 client, calls>>

\* What the kit refuses under the lock: for how long?
Blockers(j) ==
  CASE j.what = "up" -> Earlier(j.file)
    [] j.what = "down" -> Newer(j.file)
    [] OTHER -> PendingFiles

\* There is nothing to do any more.
Moot(j) == \/ j.what = "up" /\ j.file \in Applied
           \/ j.what = "down" /\ j.file \notin Applied

\* Wrong on purpose: the order is not checked.
BlockedNever(j) == FALSE

Blocked(j) == ~Moot(j) /\ Blockers(j) # {}

\* isTransientForJob: the line stopped for real when a blocker has failed.
LineStopped(j) ==
  Blocked(j) /\ j.what # "down" /\ \E g \in Blockers(j) : trace[g] # "none"

\* Another version of the file than planned, or a required migration not done.
Unrunnable(j) == j.what = "up" /\ ~Blocked(j) /\ (j.old \/ WaitsFor(j.file) # {})

\* Wrong on purpose: a run checks before it has the lock.
ReadyUnlocked(p) == run[p].phase = "got" /\ svc[p] = "up" /\ run[p].job.what # "sync"

Ready(p) == run[p].phase = "got" /\ svc[p] = "up" /\ lock = Free /\ run[p].job.what # "sync"

\* The job finds its migration done: it completes as skipped.
Skips(p) ==
  /\ Ready(p) /\ Moot(run[p].job)
  /\ Rests(p)
  /\ UNCHANGED <<svc, trouble, bgVars, applied, trace, lock, insync, line, orphans, scheduled,
                 client, calls>>

\* The job fails without running: the line has stopped, or nothing to wait for.
\* While it is blocked otherwise, or the lock is held, it waits (withLockWait).
Refused(p) ==
  /\ Ready(p) /\ ~Moot(run[p].job)
  /\ LineStopped(run[p].job) \/ Unrunnable(run[p].job)
  /\ Rests(p)
  /\ UNCHANGED <<svc, trouble, bgVars, applied, trace, lock, insync, line, orphans, scheduled,
                 client, calls>>

\* Its wait runs out of its budget, and it fails.
GivesUp(p) ==
  /\ run[p].phase = "got" /\ svc[p] = "up" /\ run[p].job.what # "sync"
  /\ lock # Free \/ Blocked(run[p].job)
  /\ Trouble
  /\ Rests(p)
  /\ UNCHANGED <<svc, bgVars, applied, trace, lock, insync, line, orphans, scheduled, client,
                 calls>>

\* The kit runs it, under the lock.
Begins(p) ==
  /\ Ready(p)
  /\ ~Moot(run[p].job) /\ ~Blocked(run[p].job) /\ ~Unrunnable(run[p].job)
  /\ lock' = p
  /\ Goes(p, "body")
  /\ UNCHANGED <<svc, trouble, bgVars, applied, trace, insync, line, orphans, scheduled,
                 client, calls>>

\* A background file is registered with its changelog record.
Registers(f) ==
  IF f \in Bg
  THEN /\ bstat' = [bstat EXCEPT ![f] = "running"]
       /\ left' = [left EXCEPT ![f] = Slices]
  ELSE UNCHANGED <<bstat, left>>

\* f is at most once in s.
Drop(s, f) ==
  IF \A i \in DOMAIN s : s[i] # f THEN s
  ELSE LET k == CHOOSE i \in DOMAIN s : s[i] = f
       IN [i \in 1..Len(s) - 1 |-> IF i < k THEN s[i] ELSE s[i + 1]]

\* The run succeeds.
Succeeds(p) ==
  /\ run[p].phase = "body"
  /\ lock' = Free
  /\ LET j == run[p].job
     IN \/ /\ j.what = "up"
           /\ applied' = Append(applied, j.file)
           /\ trace' = [trace EXCEPT ![j.file] = "none"]
           /\ Registers(j.file)
           /\ IF j.file \in Bg THEN Goes(p, "post") ELSE Rests(p)
           /\ UNCHANGED insync
        \/ /\ j.what = "down"
           /\ applied' = Drop(applied, j.file)
           /\ Rests(p)
           /\ UNCHANGED <<trace, insync, bstat, left>>
        \/ /\ j.what = "converge"
           /\ insync' = TRUE
           /\ Rests(p)
           /\ UNCHANGED <<applied, trace, bstat, left>>
  /\ UNCHANGED <<children, svc, trouble, round, dead, quiet, coord, lanes, line, orphans, scheduled,
                 client, calls>>

\* The run fails; an `up` leaves a trace.
Breaks(p) ==
  /\ run[p].phase = "body"
  /\ Trouble
  /\ lock' = Free
  /\ trace' = IF run[p].job.what = "up" THEN [trace EXCEPT ![run[p].job.file] = "failed"]
              ELSE trace
  /\ Rests(p)
  /\ UNCHANGED <<svc, bgVars, applied, insync, line, orphans, scheduled, client, calls>>

\* startBackground: what the job registered gets its coordinator, if it can be
\* added; the job completes either way.
HandsOver(p) ==
  /\ run[p].phase = "post"
  /\ \/ coord' = Added(coord, run[p].job.file, {PlainKey}) /\ UNCHANGED trouble
     \/ Trouble /\ UNCHANGED coord
  /\ Rests(p)
  /\ UNCHANGED <<children, svc, bstat, left, round, dead, quiet, lanes, applied, trace, lock, insync,
                 line, orphans, scheduled, client, calls>>

-----------------------------------------------------------------------------
(* A sync tick *)

\* heldFailure: the next in line failed and has not changed since.
Held == PendingFiles # {} /\ trace[FirstPending] = "failed"

\* It heals the background queue, and plans what is pending unless that is held.
SyncPlans(p) ==
  /\ run[p].phase = "got" /\ svc[p] = "up" /\ run[p].job.what = "sync"
  /\ Heal
  /\ IF Held \/ PlanUp = NoPlan THEN Rests(p)
     ELSE run' = [run EXCEPT ![p].phase = "plan", ![p].plan = PlanUp]
  /\ UNCHANGED <<children, svc, trouble, bstat, left, round, dead, quiet, lanes, applied, trace, lock,
                 insync, line, orphans, scheduled, client, calls>>

SyncAdds(p) ==
  /\ run[p].phase = "plan"
  /\ line' = AddBulk(run[p].plan)
  /\ Rests(p)
  /\ UNCHANGED <<svc, trouble, bgVars, applied, trace, lock, insync, orphans, scheduled,
                 client, calls>>

-----------------------------------------------------------------------------
(* Shutdown, stalls, crashes *)

\* requeueOnShutdown: a job that has not begun goes back to the head of the line,
\* unless BullMQ has already moved it.
GoesBack(p) ==
  /\ run[p].phase = "got" /\ svc[p] = "closing"
  /\ line' = IF run[p].own THEN <<run[p].job>> \o line ELSE line
  /\ Rests(p)
  /\ UNCHANGED <<svc, trouble, bgVars, applied, trace, lock, insync, orphans, scheduled,
                 client, calls>>

\* BullMQ runs a stalled job again, from the head of the line, and fails it when
\* it stalls once more.
Requeued(j) ==
  line' = IF j.stalls = MaxStalls THEN line
          ELSE <<[j EXCEPT !.stalls = @ + 1]>> \o line

\* Its process died.
Stalls(j) ==
  /\ orphans' = orphans \ {j}
  /\ Requeued(j)
  /\ UNCHANGED <<svc, trouble, bgVars, applied, trace, lock, insync, scheduled, run, client,
                 calls>>

\* Its process lives, and goes on with it: what comes of it is discarded.
StallsAlive(p) ==
  /\ run[p].own
  /\ Trouble
  /\ run' = [run EXCEPT ![p].own = FALSE]
  /\ Requeued(run[p].job)
  /\ UNCHANGED <<svc, bgVars, applied, trace, lock, insync, orphans, scheduled, client, calls>>

\* The process dies: its jobs stay active, its lock and leases stay.
Crash(p) ==
  /\ svc[p] # "off"
  /\ Trouble
  /\ svc' = [svc EXCEPT ![p] = "off"]
  /\ coord' = CoordsLeft(p)
  /\ lanes' = LanesLeft(p)
  /\ dead' = LeasesLeft(p)
  /\ orphans' = IF run[p].own THEN orphans \cup {run[p].job} ELSE orphans
  /\ lock' = IF lock = p THEN Gone ELSE lock
  /\ Rests(p)
  /\ UNCHANGED <<children, bstat, left, round, quiet, applied, trace, insync, line, scheduled, client,
                 calls>>

\* A dead holder's lock goes stale.
LockExpires ==
  /\ lock = Gone
  /\ lock' = Free
  /\ UNCHANGED <<svc, trouble, bgVars, applied, trace, insync, line, orphans, scheduled, run,
                 client, calls>>

\* A flushed Redis: every job, key and schedule is gone.  Who was at work finds
\* out when it is done.
RedisLost ==
  /\ Trouble
  /\ coord' = NoCoords
  /\ lanes' = {}
  /\ dead' = AllLeasesLeft
  /\ line' = <<>>
  /\ orphans' = {}
  /\ scheduled' = FALSE
  /\ run' = [p \in Pod |-> [run[p] EXCEPT !.own = FALSE]]
  /\ UNCHANGED <<children, svc, bstat, left, round, quiet, applied, trace, lock, insync, client, calls>>

-----------------------------------------------------------------------------
(* The service (service.js) *)

\* startWorker() and startBackgroundWorker(); the application registers its
\* schedules, and the background worker heals.
Starts(p) ==
  /\ svc[p] = "off"
  /\ svc' = [svc EXCEPT ![p] = "up"]
  /\ scheduled' = TRUE
  /\ Heal
  /\ UNCHANGED <<children, trouble, bstat, left, round, dead, quiet, lanes, applied, trace, lock, insync,
                 line, orphans, run, client, calls>>

\* close(): the workers stop fetching, and the processors are told to stop.
Closes(p) ==
  /\ svc[p] = "up"
  /\ Trouble
  /\ svc' = [svc EXCEPT ![p] = "closing"]
  /\ UNCHANGED <<bgVars, mqVars>>

\* Everything in flight has settled.
Closed(p) ==
  /\ svc[p] = "closing" /\ run[p].phase = "idle" /\ Load(p) = 0
  /\ svc' = [svc EXCEPT ![p] = "off"]
  /\ UNCHANGED <<trouble, bgVars, mqVars>>

\* Nobody ticks any more after a flush: somebody registers the schedules again.
Reschedules ==
  /\ ~scheduled /\ \E p \in Pod : svc[p] = "up"
  /\ scheduled' = TRUE
  /\ UNCHANGED <<svc, trouble, bgVars, applied, trace, lock, insync, line, orphans, run,
                 client, calls>>

\* A run from the command line: it applies what is next, or fails to.
CliStarts ==
  /\ lock = Free
  /\ Call
  /\ lock' = Cli
  /\ UNCHANGED <<svc, trouble, bgVars, applied, trace, insync, line, orphans, scheduled, run,
                 client>>

CliEnds ==
  /\ lock = Cli
  /\ lock' = Free
  /\ \/ UNCHANGED <<applied, trace, bstat, left>>
     \/ /\ PendingFiles # {} /\ WaitsFor(FirstPending) = {}
        /\ applied' = Append(applied, FirstPending)
        /\ trace' = [trace EXCEPT ![FirstPending] = "none"]
        /\ Registers(FirstPending)
  /\ UNCHANGED <<children, svc, trouble, round, dead, quiet, coord, lanes, insync, line, orphans,
                 scheduled, run, client, calls>>

-----------------------------------------------------------------------------

\* What a worker does with its job.
Work(p) ==
  \/ Skips(p) \/ Refused(p) \/ Begins(p) \/ Succeeds(p) \/ HandsOver(p)
  \/ SyncPlans(p) \/ SyncAdds(p) \/ GoesBack(p)

Next ==
  \/ BackgroundNext /\ UNCHANGED mqVars
  \/ CallUp \/ CallAdds \/ Ticks
  \/ \E n \in File : CallDown(n)
  \/ \E f \in File : Fixed(f)
  \/ \E p \in Pod : Fetch(p) \/ Work(p) \/ GivesUp(p) \/ Breaks(p) \/ StallsAlive(p)
  \/ \E p \in Pod : Starts(p) \/ Closes(p) \/ Closed(p) \/ Crash(p)
  \/ \E j \in orphans : Stalls(j)
  \/ LockExpires \/ RedisLost \/ Reschedules \/ CliStarts \/ CliEnds

Spec == Init /\ [][Next]_vars

\* Workers take what waits and go on with what they have, a coordinator that asks
\* again and again is answered, BullMQ finds stalled jobs, leases expire and time
\* passes.  Nothing is asked of verify ticks: sync ticks heal as well.
BackgroundFairness ==
  /\ \A m \in Bg :
       /\ WF_vars(LeaseExpires(m) /\ UNCHANGED mqVars)
       /\ WF_vars(Stuck(m) /\ FallsQuiet(m) /\ UNCHANGED mqVars)
       /\ SF_vars((\E p \in Pod, k \in Keys : CoordFetch(p, m, k)) /\ UNCHANGED mqVars)
       /\ SF_vars((\E k \in Keys : CoordStep(m, k)) /\ UNCHANGED mqVars)
       /\ WF_vars(CoordGoesOn(m) /\ UNCHANGED mqVars)
  /\ SF_vars(AnyLaneFetched /\ UNCHANGED mqVars)
  /\ WF_vars(LaneGoesOn /\ UNCHANGED mqVars) /\ WF_vars(AnyLaneWorks /\ UNCHANGED mqVars)

\* Pods are started, what they do goes on, schedules tick, stalled jobs are found,
\* failed files are fixed, and a dead holder's lock goes stale.
FairSpec ==
  /\ Spec
  /\ BackgroundFairness
  /\ \A p \in Pod : /\ WF_vars(Starts(p)) /\ WF_vars(Closed(p)) /\ SF_vars(Work(p))
  /\ SF_vars(\E p \in Pod : Fetch(p))
  /\ WF_vars(CallAdds) /\ WF_vars(Ticks) /\ WF_vars(\E j \in orphans : Stalls(j))
  /\ WF_vars(\E f \in File : Fixed(f))
  /\ WF_vars(LockExpires) /\ WF_vars(Reschedules) /\ WF_vars(CliEnds)

-----------------------------------------------------------------------------
(* Properties *)

\* Whatever the queue does -- duplicates, stalled jobs that run twice, stale plans,
\* rollbacks and CLI runs in between --, what is applied are the first migrations
\* and no others ("order is enforced in the kit, not arranged in the queue").
PrefixApplied == Applied = 1..Len(applied)

\* A converge job is at work only while nothing is pending, from its check under the
\* lock to its end, whatever is deduplicated, stalls, races on other workers or is
\* rolled back meanwhile ("the tail of a deploy must not converge to a schema its own
\* migrations have not reached yet": runConvergeJob, with `ordered` as it is by default).
ConvergesLast ==
  \A p \in Pod : run[p].phase = "body" /\ run[p].job.what = "converge" => PendingFiles = {}

\* With a schedule, everything is applied and every background migration completed
\* in the end, whatever was lost on the way (jobs.js: "a heal picks it up").
AllDone == <>[](PendingFiles = {} /\ \A m \in Bg : bstat[m] = "completed")
=============================================================================
