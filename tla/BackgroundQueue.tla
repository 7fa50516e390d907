--------------------------- MODULE BackgroundQueue ---------------------------
(***************************************************************************)
(* Background migrations on a BullMQ queue of their own                    *)
(* (bullmq/background-processor.js, and what jobs.js and producer.js say   *)
(* about its jobs): coordinator jobs that ask the kit what to do and spawn *)
(* lane jobs as their children, lanes that work slices, and the heal that  *)
(* makes coordinators from what MongoDB says.                              *)
(*                                                                         *)
(* The kit's side (BackgroundPasses, BackgroundLanes) is kept to what the  *)
(* queue can tell apart: whether a migration is done, how many slices of   *)
(* work are left, who holds a lease, which round a coordinator chain has.  *)
(*                                                                         *)
(* Redis is a job's place: waiting, active, waiting for its children.  A   *)
(* delayed job is a waiting one whose time comes.  The key of BullMQ's     *)
(* deduplication is held from the add until the job completes or fails, so *)
(* there is at most one live coordinator per key.                          *)
(***************************************************************************)
EXTENDS Integers, FiniteSets

CONSTANTS
  Pod,         \* the processes that run workers
  NoPod,       \* nobody
  Bg,          \* the background migrations
  Children,    \* whether lanes are children of their coordinator (`children`, BullMQ's parents)
  Slices,      \* the slices of work each of them has
  Slots,       \* maxParallel
  Concurrency, \* the background worker's concurrency
  MaxStalls,   \* maxStalledCount
  MaxTries,    \* the attempts of a coordinator
  MaxRetries,  \* maxLaneRetries
  MaxRounds,   \* bound on rounds
  MaxSpawns,   \* bound on the spawns of a coordinator
  MaxTrouble   \* bound on everything that goes wrong

ASSUME PodsAssumption == NoPod \notin Pod
ASSUME QueueAssumption ==
  /\ Children \subseteq BOOLEAN
  /\ {Slices, Slots, Concurrency, MaxTries} \subseteq Nat \ {0}
  /\ {MaxStalls, MaxRetries, MaxRounds, MaxSpawns, MaxTrouble} \subseteq Nat

VARIABLES
  children, \* whether they are here
  svc,     \* each process: "off", "up" or "closing"
  bstat,   \* MongoDB: "none", "running" or "completed"
  left,    \* MongoDB: the slices left
  round,   \* MongoDB: the round last handed out, 0 for none
  dead,    \* MongoDB: leases whose process died and that have not expired
  quiet,   \* whether nothing has moved it for stallMs
  coord,   \* Redis: the coordinator under each deduplication key
  lanes,   \* Redis: the lane jobs
  trouble  \* how much went wrong

bgVars == <<children, bstat, left, round, dead, quiet, coord, lanes>>

\* The key of a coordinator: bg-<name>, or the takeover of a round.
Keys == 0..MaxRounds + 1
PlainKey == 0
TakeoverKey(m) == round[m] + 1

\* A coordinator job: where it is, who has it, what it does next, the round and
\* the spawn in its data, the round it knows, the lanes it was told to spawn,
\* how often it stalled and how often it failed.
NoCoord == [at |-> "none", by |-> NoPod, pc |-> "step", round |-> 0, spawn |-> 0, mem |-> 0,
            want |-> 0, stalls |-> 0, tries |-> 0]
Queued == [NoCoord EXCEPT !.at = "wait"]

CoordJob == [at: {"none", "wait", "active", "children"}, by: Pod \cup {NoPod},
             pc: {"step", "spawn", "add", "move"}, round: 0..MaxRounds, spawn: 0..MaxSpawns,
             mem: 0..MaxRounds, want: 0..Slots, stalls: 0..MaxStalls, tries: 0..MaxTries]

\* A lane job: its id says whose it is, and whether it holds a lease.
LaneJob == [bg: Bg, key: Keys, round: 0..MaxRounds, spawn: 0..MaxSpawns, n: 1..Slots,
            at: {"wait", "active", "done", "gone"}, by: Pod \cup {NoPod},
            busy: BOOLEAN, retry: 0..MaxRetries, stalls: 0..MaxStalls]

BackgroundTypeOK ==
  /\ children \in Children
  /\ svc \in [Pod -> {"off", "up", "closing"}]
  /\ bstat \in [Bg -> {"none", "running", "completed"}]
  /\ left \in [Bg -> 0..Slices]
  /\ round \in [Bg -> 0..MaxRounds]
  /\ dead \in [Bg -> 0..Slots]
  /\ quiet \in [Bg -> BOOLEAN]
  /\ coord \in [Bg -> [Keys -> CoordJob]]
  /\ lanes \subseteq LaneJob
  /\ trouble \in 0..MaxTrouble

BackgroundInit ==
  /\ children \in Children
  /\ svc = [p \in Pod |-> "off"]
  /\ bstat = [m \in Bg |-> "none"]
  /\ left = [m \in Bg |-> 0]
  /\ round = [m \in Bg |-> 0]
  /\ dead = [m \in Bg |-> 0]
  /\ quiet = [m \in Bg |-> FALSE]
  /\ coord = [m \in Bg |-> [k \in Keys |-> NoCoord]]
  /\ lanes = {}
  /\ trouble = 0

Trouble == trouble < MaxTrouble /\ trouble' = trouble + 1

-----------------------------------------------------------------------------
(* The queue *)

Works(p) == p # NoPod /\ svc[p] \in {"up", "closing"}

\* The jobs of the background queue a process has in hand.
Load(p) ==
  Cardinality({x \in Bg \X Keys : coord[x[1]][x[2]].by = p})
  + Cardinality({l \in lanes : l.by = p})

CanFetch(p) == svc[p] = "up" /\ Load(p) < Concurrency

SetCoord(m, k, j) == coord' = [coord EXCEPT ![m][k] = j]

\* The lanes a coordinator job waits for.
Pending(m, k, j, ls) ==
  {l \in ls : l.bg = m /\ l.key = k /\ l.round = j.round /\ l.at # "done"}

\* A parent whose last lane finished goes back to the wait list.
Woken(c, ls) ==
  [m \in Bg |-> [k \in Keys |->
     IF c[m][k].at = "children" /\ Pending(m, k, c[m][k], ls) = {}
     THEN [c[m][k] EXCEPT !.at = "wait"] ELSE c[m][k]]]

ChangeLane(l, x) == lanes' = (lanes \ {l}) \cup {x}

\* A lane completes or fails.  Under a parent its id stays taken and the parent
\* is told either way (ignoreDependencyOnFailure); on its own its key is freed.
LaneEnds(l) ==
  IF children
  THEN /\ IF coord[l.bg][l.key].round = l.round
          THEN ChangeLane(l, [l EXCEPT !.at = "done", !.by = NoPod, !.busy = FALSE])
          ELSE lanes' = lanes \ {l}
       /\ coord' = Woken(coord, lanes')
  ELSE lanes' = lanes \ {l} /\ UNCHANGED coord

\* moveToDelayed: the same job, later.
LaneLater(l, retry) ==
  /\ ChangeLane(l, [l EXCEPT !.at = "wait", !.by = NoPod, !.busy = FALSE, !.retry = retry])
  /\ UNCHANGED coord

Leases(m) == dead[m] + Cardinality({l \in lanes : l.bg = m /\ l.busy})

-----------------------------------------------------------------------------
(* enqueueBackground, and the heal *)

\* Wrong on purpose: a stuck chain absorbs what is to take it over.
KeysPlain(m) == IF bstat[m] = "running" THEN {PlainKey} ELSE {}

\* The coordinators a heal asks for.
HealKeys(m) ==
  IF bstat[m] # "running" THEN {}
  ELSE IF quiet[m] /\ Leases(m) = 0 THEN {PlainKey, TakeoverKey(m)} ELSE {PlainKey}

\* A live coordinator absorbs the add.
Added(c, m, ks) ==
  [c EXCEPT ![m] = [k \in Keys |-> IF k \in ks /\ @[k].at = "none" THEN Queued ELSE @[k]]]

Healed(c, ms) ==
  [m \in Bg |-> [k \in Keys |->
     IF m \in ms /\ k \in HealKeys(m) /\ c[m][k].at = "none" THEN Queued ELSE c[m][k]]]

Heal == coord' = Healed(coord, Bg)

\* A verify tick finds no drift, and heals.
Verify(p) ==
  /\ svc[p] = "up"
  /\ Heal
  /\ UNCHANGED <<children, svc, bstat, left, round, dead, quiet, lanes, trouble>>

\* A verify tick finds documents of an old version: there is work again.
Drift(p, m) ==
  /\ svc[p] = "up" /\ bstat[m] = "completed"
  /\ Trouble
  /\ bstat' = [bstat EXCEPT ![m] = "running"]
  /\ left' = [left EXCEPT ![m] = 1]
  /\ coord' = Added(coord, m, {PlainKey})
  /\ UNCHANGED <<children, svc, round, dead, quiet, lanes>>

\* Nothing can move it any more: what is live waits for lanes that are gone.
Stuck(m) ==
  /\ \A k \in Keys : coord[m][k].at \in {"none", "children"}
  /\ \A l \in lanes : l.bg = m => l.at \in {"done", "gone"}

\* stallMs goes by without a sign of life: because nothing can move it, or
\* because every worker is slow.
FallsQuiet(m) ==
  /\ bstat[m] = "running" /\ Leases(m) = 0 /\ ~quiet[m]
  /\ \/ Stuck(m) /\ UNCHANGED trouble
     \/ ~Stuck(m) /\ Trouble
  /\ quiet' = [quiet EXCEPT ![m] = TRUE]
  /\ UNCHANGED <<children, svc, bstat, left, round, dead, coord, lanes>>

LeaseExpires(m) ==
  /\ dead[m] > 0
  /\ dead' = [dead EXCEPT ![m] = @ - 1]
  /\ UNCHANGED <<children, svc, bstat, left, round, quiet, coord, lanes, trouble>>

-----------------------------------------------------------------------------
(* The coordinator *)

\* What a run knows of its round is what the job's data says.
CoordFetch(p, m, k) ==
  /\ CanFetch(p) /\ coord[m][k].at = "wait"
  /\ SetCoord(m, k, [coord[m][k] EXCEPT !.at = "active", !.by = p, !.pc = "step",
                                        !.mem = coord[m][k].round])
  /\ UNCHANGED <<children, svc, bstat, left, round, dead, quiet, lanes, trouble>>

Runs(m, k, pc) ==
  coord[m][k].at = "active" /\ Works(coord[m][k].by) /\ coord[m][k].pc = pc

\* later(): its data first, then moved to delayed.
Later(j) == [j EXCEPT !.at = "wait", !.by = NoPod, !.pc = "step", !.round = j.mem, !.want = 0]

\* Asked to stop, it goes back to the queue before its next step.
CoordStops(m, k) ==
  /\ Runs(m, k, "step") /\ svc[coord[m][k].by] = "closing"
  /\ SetCoord(m, k, Later(coord[m][k]))
  /\ UNCHANGED <<children, svc, bstat, left, round, dead, quiet, lanes, trouble>>

\* Another coordinator holds the lock: it comes back.
CoordBusy(m, k) ==
  /\ Runs(m, k, "step")
  /\ \E q \in Keys \ {k} : coord[m][q].at = "active"
  /\ SetCoord(m, k, Later(coord[m][k]))
  /\ UNCHANGED <<children, svc, bstat, left, round, dead, quiet, lanes, trouble>>

Without(m, k) == [coord EXCEPT ![m][k] = NoCoord]

\* The lanes of a chain that ended keep their ids, but no later chain has its round.
LanesWithout(m, k) == {l \in lanes : ~(l.bg = m /\ l.key = k /\ l.at = "done")}

\* Done, or superseded: the job completes.  What waited for a migration that is
\* completed is healed.
CoordBowsOut(m, k) ==
  /\ Runs(m, k, "step") /\ svc[coord[m][k].by] = "up"
  /\ LET j == coord[m][k]
     IN \/ bstat[m] # "running" /\ coord' = Healed(Without(m, k), Bg)
        \/ bstat[m] = "running" /\ j.mem \notin {0, round[m]} /\ coord' = Without(m, k)
  /\ lanes' = LanesWithout(m, k)
  /\ UNCHANGED <<children, svc, bstat, left, round, dead, quiet, trouble>>

\* Wrong on purpose: a new chain goes on in the round of the last one.
RoundKept(m, j) == IF j.mem = 0 /\ round[m] = 0 THEN 1 ELSE round[m]

\* A new chain gets the next round; the one that has the latest keeps it.
RoundFor(m, j) == IF j.mem = 0 THEN round[m] + 1 ELSE round[m]

\* The lanes that deduplicate per slot (no parents).
Loose(m, n) == [bg |-> m, key |-> PlainKey, round |-> 0, spawn |-> 0, n |-> n, at |-> "wait",
                by |-> NoPod, busy |-> FALSE, retry |-> 0, stalls |-> 0]
AddLoose(m, want) ==
  {Loose(m, n) : n \in {i \in 1..want : ~\E l \in lanes : l.bg = m /\ l.n = i}}

\* One step: the kit records the round and answers.
CoordStep(m, k) ==
  /\ Runs(m, k, "step") /\ svc[coord[m][k].by] = "up"
  /\ LET j == coord[m][k]
         r == RoundFor(m, j)
         free == Slots - Leases(m)
         known == [j EXCEPT !.mem = r]
     IN /\ bstat[m] = "running" /\ j.mem \in {0, round[m]} /\ r <= MaxRounds
        /\ round' = [round EXCEPT ![m] = r]
        /\ quiet' = [quiet EXCEPT ![m] = FALSE]
        /\ \/ /\ left[m] = 0 /\ Leases(m) = 0
              /\ bstat' = [bstat EXCEPT ![m] = "completed"]
              /\ coord' = Healed(Without(m, k), Bg \ {m})
              /\ lanes' = LanesWithout(m, k)
           \/ /\ (left[m] = 0 /\ Leases(m) > 0) \/ (left[m] > 0 /\ free = 0)
              /\ SetCoord(m, k, Later(known))
              /\ UNCHANGED <<bstat, lanes>>
           \/ /\ left[m] > 0 /\ free > 0
              /\ IF children
                 THEN /\ SetCoord(m, k, [known EXCEPT !.pc = "spawn", !.want = free])
                      /\ UNCHANGED lanes
                 ELSE /\ lanes' = lanes \cup AddLoose(m, free)
                      /\ SetCoord(m, k, Later(known))
              /\ UNCHANGED bstat
  /\ UNCHANGED <<children, svc, left, dead, trouble>>

\* The next spawn is in the job's data before any of its lanes exists.
CoordUpdates(m, k) ==
  /\ Runs(m, k, "spawn") /\ coord[m][k].spawn < MaxSpawns
  /\ LET j == coord[m][k]
     IN SetCoord(m, k, [j EXCEPT !.pc = "add", !.round = j.mem, !.spawn = @ + 1])
  /\ UNCHANGED <<children, svc, bstat, left, round, dead, quiet, lanes, trouble>>

Child(m, k, j, n) ==
  [Loose(m, n) EXCEPT !.key = k, !.round = j.mem, !.spawn = j.spawn]
SameId(l, x) ==
  l.bg = x.bg /\ l.round = x.round /\ l.spawn = x.spawn /\ l.n = x.n

\* addBulk: an id that exists is not added again.
CoordAddsLanes(m, k) ==
  /\ Runs(m, k, "add")
  /\ LET j == coord[m][k]
         new == {Child(m, k, j, n) : n \in 1..j.want}
     IN /\ lanes' = lanes \cup {x \in new : ~\E l \in lanes : SameId(l, x)}
        /\ SetCoord(m, k, [j EXCEPT !.pc = "move", !.want = 0])
  /\ UNCHANGED <<children, svc, bstat, left, round, dead, quiet, trouble>>

\* moveToWaitingChildren: unless every lane has finished meanwhile.
CoordMoves(m, k) ==
  /\ Runs(m, k, "move")
  /\ LET j == coord[m][k]
     IN SetCoord(m, k,
          IF Pending(m, k, j, lanes) # {}
          THEN [j EXCEPT !.at = "children", !.by = NoPod, !.pc = "step", !.mem = 0]
          ELSE [j EXCEPT !.pc = "step"])
  /\ UNCHANGED <<children, svc, bstat, left, round, dead, quiet, lanes, trouble>>

\* A step throws: BullMQ tries it again, a few times.
CoordFails(m, k) ==
  /\ coord[m][k].at = "active" /\ Works(coord[m][k].by)
  /\ Trouble
  /\ LET j == coord[m][k]
     IN SetCoord(m, k, IF j.tries + 1 = MaxTries THEN NoCoord
                       ELSE [j EXCEPT !.at = "wait", !.by = NoPod, !.pc = "step", !.mem = 0,
                                      !.want = 0, !.tries = @ + 1])
  /\ lanes' = IF coord'[m][k] = NoCoord THEN LanesWithout(m, k) ELSE lanes
  /\ UNCHANGED <<children, svc, bstat, left, round, dead, quiet>>

\* Its worker died: run again, once.
CoordStalls(m, k) ==
  /\ coord[m][k].at = "active" /\ coord[m][k].by = NoPod
  /\ LET j == coord[m][k]
     IN SetCoord(m, k, IF j.stalls = MaxStalls THEN NoCoord
                       ELSE [j EXCEPT !.at = "wait", !.pc = "step", !.mem = 0, !.want = 0,
                                      !.stalls = @ + 1])
  /\ lanes' = IF coord'[m][k] = NoCoord THEN LanesWithout(m, k) ELSE lanes
  /\ UNCHANGED <<children, svc, bstat, left, round, dead, quiet, trouble>>

Coordinator(m, k) ==
  \/ \E p \in Pod : CoordFetch(p, m, k)
  \/ CoordStops(m, k) \/ CoordBusy(m, k) \/ CoordBowsOut(m, k) \/ CoordStep(m, k)
  \/ CoordUpdates(m, k) \/ CoordAddsLanes(m, k) \/ CoordMoves(m, k)
  \/ CoordFails(m, k) \/ CoordStalls(m, k)

-----------------------------------------------------------------------------
(* The lanes *)

LaneFetch(p, l) ==
  /\ CanFetch(p) /\ l.at = "wait"
  /\ ChangeLane(l, [l EXCEPT !.at = "active", !.by = p])
  /\ UNCHANGED <<children, svc, bstat, left, round, dead, quiet, coord, trouble>>

LaneRuns(l) == l.at = "active" /\ Works(l.by)

\* It stops before its slice, and goes back.
LaneStops(l) ==
  /\ LaneRuns(l) /\ ~l.busy /\ svc[l.by] = "closing"
  /\ LaneLater(l, l.retry)
  /\ UNCHANGED <<children, svc, bstat, left, round, dead, quiet, trouble>>

\* The slice begins: a lease, no slot ("busy": come back), or nothing to do.
LaneSlice(l) ==
  /\ LaneRuns(l) /\ ~l.busy /\ svc[l.by] = "up"
  /\ \/ /\ bstat[l.bg] # "running" \/ left[l.bg] = 0
        /\ LaneEnds(l)
     \/ /\ bstat[l.bg] = "running" /\ left[l.bg] > 0
        /\ IF Leases(l.bg) < Slots
           THEN ChangeLane(l, [l EXCEPT !.busy = TRUE]) /\ UNCHANGED coord
           ELSE LaneLater(l, 0)
  /\ UNCHANGED <<children, svc, bstat, left, round, dead, quiet, trouble>>

\* The slice ends: its work is in MongoDB, its lease released.  With work left it
\* continues as the same job.
LaneWorks(l) ==
  /\ LaneRuns(l) /\ l.busy
  /\ LET m == l.bg
     IN IF left[m] = 0
        THEN LaneEnds(l) /\ UNCHANGED <<left, quiet>>
        ELSE /\ left' = [left EXCEPT ![m] = @ - 1]
             /\ quiet' = [quiet EXCEPT ![m] = FALSE]
             /\ IF left[m] = 1 THEN LaneEnds(l) ELSE LaneLater(l, 0)
  /\ UNCHANGED <<children, svc, bstat, round, dead, trouble>>

\* A slice fails: the lane backs off, and gives up in the end.
LaneFails(l) ==
  /\ LaneRuns(l) /\ l.busy
  /\ Trouble
  /\ IF l.retry = MaxRetries THEN LaneEnds(l) ELSE LaneLater(l, l.retry + 1)
  /\ UNCHANGED <<children, svc, bstat, left, round, dead, quiet>>

\* Its worker died: run again, once.
LaneStalls(l) ==
  /\ l.at = "active" /\ l.by = NoPod
  /\ IF l.stalls = MaxStalls THEN LaneEnds(l)
     ELSE ChangeLane(l, [l EXCEPT !.at = "wait", !.stalls = @ + 1]) /\ UNCHANGED coord
  /\ UNCHANGED <<children, svc, bstat, left, round, dead, quiet, trouble>>

\* Redis loses the job, with its key; a parent goes on waiting for it.
LaneLost(l) ==
  /\ l.at = "wait"
  /\ Trouble
  /\ lanes' = (lanes \ {l}) \cup {x \in {[l EXCEPT !.at = "gone"]} : children}
  /\ UNCHANGED <<children, svc, bstat, left, round, dead, quiet, coord>>

Lane(l) ==
  \/ \E p \in Pod : LaneFetch(p, l)
  \/ LaneStops(l) \/ LaneSlice(l) \/ LaneWorks(l) \/ LaneFails(l) \/ LaneStalls(l)
  \/ LaneLost(l)

-----------------------------------------------------------------------------
(* What happens to a whole process, or to Redis *)

\* The jobs of a dead process stay active, with nobody.
CoordsLeft(p) ==
  [m \in Bg |-> [k \in Keys |->
     IF coord[m][k].by = p THEN [coord[m][k] EXCEPT !.by = NoPod] ELSE coord[m][k]]]
LanesLeft(p) ==
  {IF l.by = p THEN [l EXCEPT !.by = NoPod, !.busy = FALSE] ELSE l : l \in lanes}
LeasesLeft(p) ==
  [m \in Bg |-> dead[m] + Cardinality({l \in lanes : l.bg = m /\ l.by = p /\ l.busy})]

NoCoords == [m \in Bg |-> [k \in Keys |-> NoCoord]]
AllLeasesLeft == [m \in Bg |-> Leases(m)]

BackgroundNext ==
  \/ \E p \in Pod : Verify(p)
  \/ \E p \in Pod, m \in Bg : Drift(p, m)
  \/ \E m \in Bg : FallsQuiet(m) \/ LeaseExpires(m)
  \/ \E m \in Bg, k \in Keys : Coordinator(m, k)
  \/ \E l \in lanes : Lane(l)

\* A coordinator goes on with what it has in hand.
CoordGoesOn(m) ==
  \E k \in Keys : CoordStops(m, k) \/ CoordBowsOut(m, k) \/ CoordUpdates(m, k)
                  \/ CoordAddsLanes(m, k) \/ CoordMoves(m, k) \/ CoordStalls(m, k)
AnyLaneFetched == \E l \in lanes, p \in Pod : LaneFetch(p, l)
LaneGoesOn == \E l \in lanes : LaneStops(l) \/ LaneSlice(l) \/ LaneStalls(l)
AnyLaneWorks == \E l \in lanes : LaneWorks(l)

-----------------------------------------------------------------------------

\* Two coordinator chains of one background migration that are told to go on
\* never share a round (coordinateStep: "two chains started at once each get
\* their own"): the lanes they spawn have ids of their own.
RoundsApart ==
  \A m \in Bg : \A j, k \in Keys :
    j # k /\ coord[m][j].mem # 0 => coord[m][j].mem # coord[m][k].mem
=============================================================================
