------------------------------ MODULE Converge ------------------------------
(***************************************************************************)
(* Converge runs (core/converge.js, core/converge-search-run.js,           *)
(* migrator.js converge()): under the migration lock a run reads every     *)
(* declared collection, plans it, refuses conflicts, and collection by     *)
(* collection plans again, carries out the steps and verifies that nothing *)
(* is left to do; then it may give up the lock and wait for the search     *)
(* indexes to serve.                                                       *)
(*                                                                         *)
(* Each server command is one action, so everybody else comes between any  *)
(* two of them: another run whose turn came when this one lost its lock,   *)
(* an administrator who creates and drops indexes, the application, which  *)
(* writes duplicates where nothing forbids them and, from old pods,        *)
(* documents below the version floor, and the server, which builds search  *)
(* indexes in the background and lists them late.                          *)
(***************************************************************************)
EXTENDS ConvergePlan

CONSTANTS
  Run,          \* converge runs
  Nobody,       \* no run
  Order,        \* the collections, in the order of their definitions
  Def,          \* the definition of each
  Starts,       \* the states the collections may be in
  Options,      \* prune and rebuildUnique of each run
  Waits,        \* the runs that wait for search indexes
  Backing,      \* the keys, per collection, whose indexes back its shard key
  ReadsShardKeys, \* whether shard keys may be read
  DbaIndex,     \* the indexes, per collection, that an administrator may create
  MaxFaults,    \* bound on lost replies, lost locks, stops and crashes
  MaxMeddle     \* bound on the administrator's and the application's acts

Coll == {Order[k] : k \in DOMAIN Order}

\* A collection as the server has it. Its search indexes are listed as they are, to start with.
WellFormed(coll) ==
  /\ DOMAIN coll =
       {"exists", "indexes", "prepared", "rules", "below", "dups", "search", "listed"}
  /\ IsFiniteSet(coll.indexes) /\ OnePerName(coll.indexes)
  /\ \A i \in coll.indexes : IsIndex(i)
  /\ ~coll.exists => coll.indexes = {} /\ coll.rules = 0
  /\ coll.listed = coll.search /\ IsFiniteSet(coll.search) /\ OnePerName(coll.search)
  /\ \A i \in coll.search : IsSearchIndex(i) /\ (i.status = "ready" => i.served = i.body)

ASSUME RunAssumption == Nobody \notin Run /\ Waits \subseteq Run
ASSUME DefinitionsAssumption ==
  /\ Order \in Seq(Coll) /\ Len(Order) = Cardinality(Coll) /\ Len(Order) > 0
  /\ \A c \in Coll : /\ IsSequence(Def[c].indexes) /\ WellDeclared(Def[c].indexes)
                     /\ \A d \in ToSet(Def[c].indexes) : IsIndex(d) /\ d.unique \in BOOLEAN
                     /\ IsFiniteSet(Def[c].search) /\ OnePerName(Def[c].search)
ASSUME StartsAssumption ==
  \A start \in Starts : /\ DOMAIN start = Coll
                        /\ \A c \in Coll : WellFormed(start[c])
ASSUME DbaAssumption == \A c \in Coll : \A i \in DbaIndex[c] : IsIndex(i)
ASSUME ConvergeBoundsAssumption == MaxFaults \in Nat /\ MaxMeddle \in Nat

VARIABLES
  db,       \* the collections: indexes, validator, search indexes, and data as far as it matters
  holder,   \* the run that holds the migration lock
  run,      \* what each run is doing
  fresh,    \* history: <<r, c>> where nobody but r changed c's indexes since r planned c
  used      \* how much of the bounds was used

vars == <<db, holder, run, fresh, used>>

\* A run: where it is, in which collection, the steps left there, and what the guard reviewed.
Idle == [pc |-> "idle", pos |-> 0, steps |-> <<>>, aborted |-> FALSE,
         reviewed |-> [c \in Coll |-> [rows |-> {}, drops |-> {}]],
         dropped |-> <<>>, made |-> {}, unrestored |-> {}, kept |-> {}, removed |-> {},
         before |-> {}, targets |-> {}, unstable |-> {}, lost |-> {}]

Init ==
  /\ db \in Starts
  /\ holder = Nobody /\ fresh = {}
  /\ run = [r \in Run |-> Idle]
  /\ used = [faults |-> 0, meddle |-> 0]

Here(r) == Order[run[r].pos]
Now(r) == Head(run[r].steps)
Faulty == used.faults < MaxFaults /\ used' = [used EXCEPT !.faults = @ + 1]

\* A run that ends releases the lock, if it still holds it; nothing else of it matters.
Over(r, pc) ==
  /\ run' = [run EXCEPT ![r] = [Idle EXCEPT !.pc = pc]]
  /\ holder' = IF holder = r THEN Nobody ELSE holder

\* What failed says which dropped indexes it knows are not back (lostIndexes).
Fails(r, lost) ==
  /\ run' = [run EXCEPT ![r] = [Idle EXCEPT !.pc = "failed", !.lost = lost]]
  /\ holder' = IF holder = r THEN Nobody ELSE holder

-----------------------------------------------------------------------------
(* The server.                                                             *)

Names(indexes) == {i.name : i \in indexes}

\* Same name, another index; or the same index, another name; or a second text index.
Clashes(i, coll) == \E j \in coll.indexes : j # i /\ (j.name = i.name \/ Collides(i, j))

Refuses(indexes, coll) ==
  \E i \in indexes : Clashes(i, coll) \/ (i.unique /\ i.key \in coll.dups)

Added(indexes, coll) == [coll EXCEPT !.exists = TRUE, !.indexes = @ \cup indexes]

Without(names, coll) ==
  [coll EXCEPT !.indexes = {i \in @ : i.name \notin names}, !.prepared = @ \ names]

\* No duplicate of the key can be written.
Guarded(coll, key) ==
  \E i \in coll.indexes : i.key = key /\ (i.unique \/ i.name \in coll.prepared)

\* `collMod` changes an index in place, or replaces the search index of that name.
Modified(name, change(_), coll) ==
  [coll EXCEPT !.indexes = {IF i.name = name THEN change(i) ELSE i : i \in @}]

Searching(name, change(_), coll) ==
  [coll EXCEPT !.search = {IF i.name = name THEN change(i) ELSE i : i \in @}]

Submitted(d) == [name |-> d.name, type |-> d.type, body |-> d.body,
                 version |-> 1, served |-> Unset, status |-> "building"]

\* What a command makes of its collection ...
Effect(step, def, coll) ==
  CASE step.op = "createCollection" ->
         [coll EXCEPT !.exists = TRUE,
                      !.rules = IF def.rules \in {Unset, 0} THEN @ ELSE def.rules]
    [] step.op = "validator" -> [coll EXCEPT !.rules = def.rules]
    [] step.op = "createIndexes" -> Added(ToSet(step.creates), coll)
    [] step.op = "collMod" ->
         Modified(step.creates[1].name,
                  LAMBDA i : [i EXCEPT !.ttl = step.creates[1].ttl], coll)
    [] step.op = "dropIndex" -> Without(Names(step.drops), coll)
    [] step.op = "createSearch" ->
         [coll EXCEPT !.search = @ \cup {Submitted(d) : d \in {e \in def.search :
            e.name \in step.on /\ e.name \notin Names(coll.search)}}]
    [] step.op = "updateSearch" ->
         LET d == CHOOSE e \in def.search : e.name \in step.on
         IN Searching(d.name, LAMBDA i : [i EXCEPT !.body = d.body, !.version = @ + 1,
                                                   !.status = "building"], coll)
    [] step.op = "dropSearch" ->
         LET name == CHOOSE n \in step.on : TRUE
         IN Searching(name, LAMBDA i : [i EXCEPT !.status = "removing"], coll)

\* ... and when it says no. Dropping what is gone already is what the step wanted.
SaysNo(step, def, coll) ==
  CASE step.op = "createIndexes" -> Refuses(ToSet(step.creates), coll)
    [] step.op = "collMod" -> step.creates[1].name \notin Names(coll.indexes)
    [] step.op = "createSearch" ->
         \E i \in coll.search : /\ i.name \in step.on
                                /\ \E d \in def.search : d.name = i.name /\ d.body # i.body
    [] step.op = "updateSearch" ->
         \A i \in coll.search : i.name \in step.on => i.status = "removing"
    [] OTHER -> FALSE

\* The index that backs a shard key cannot be dropped.
ShardKeyRefusal(drops, c) == \E i \in drops : i.key \in Backing[c] /\ i \in db[c].indexes

-----------------------------------------------------------------------------
(* Reading and planning.                                                   *)

Plan(r, c) ==
  PlanCollection(Def[c], db[c],
    [prune |-> Options[r].prune, rebuildUnique |-> Options[r].rebuildUnique,
     backing |-> IF ReadsShardKeys THEN Backing[c] ELSE {}])

\* The live indexes that a plan drops: all of them are named on its rows.
DropsOf(plan) ==
  UNION {plan.steps[k].drops : k \in DOMAIN plan.steps}

Reviewed(plan) == [rows |-> Destructive(plan), drops |-> Names(DropsOf(plan))]

\* Wrong on purpose: a wait does not ask for a version past the one that it updated.
SinceNever(d, listed) == 0

\* The version that an update starts from, as listed.
Since(d, listed) ==
  IF \E i \in listed : i.name = d.name /\ i.body # d.body
  THEN (CHOOSE i \in listed : i.name = d.name).version ELSE 0

\* The search indexes to wait for, and whether the run creates or changes them (waitTargets).
Targets(c) ==
  {[coll |-> c, name |-> d.name, since |-> Since(d, db[c].listed),
    touched |-> SearchVerdict(d, db[c].listed) # "unchanged"] : d \in Def[c].search}

\* The run turns to the collection at `pos`, with what it just planned for it.
Enters(self, r, pos, plan) ==
  [self EXCEPT !.pc = IF plan.steps = <<>> THEN "next" ELSE "running",
               !.pos = pos, !.steps = plan.steps, !.kept = {}, !.removed = {}, !.unstable = {},
               !.before = IF plan.steps = <<>> THEN {} ELSE db[Order[pos]].indexes,
               !.targets = @ \cup Targets(Order[pos])]

\* readAndPlan and refuseConflicts: any conflict refuses the run before its first write.
Plans(r) ==
  /\ run[r].pc = "idle" /\ holder = Nobody
  /\ LET plans == [c \in Coll |-> Plan(r, c)]
     IN IF \E c \in Coll : Conflicts(plans[c]) # {}
        THEN Fails(r, {}) /\ UNCHANGED fresh
        ELSE /\ holder' = r
             /\ run' = [run EXCEPT ![r] =
                  Enters([Idle EXCEPT !.reviewed = [c \in Coll |-> Reviewed(plans[c])]],
                         r, 1, plans[Order[1]])]
             /\ fresh' = fresh \cup {<<r, Order[1]>>}
  /\ UNCHANGED <<db, used>>

\* Wrong on purpose: whatever the new plan does is taken as reviewed.
IntroducedNever(r, c, plan) == {}

\* A conflict, a drop or a rebuild that the first plan did not have.
Introduced(r, c, plan) == (Conflicts(plan) \cup Destructive(plan)) \ run[r].reviewed[c].rows

\* Every collection but the first is read and planned again right before its turn.
Replans(r) ==
  /\ run[r].pc = "next" /\ run[r].pos < Len(Order)
  /\ LET c    == Order[run[r].pos + 1]
         plan == Plan(r, c)
     IN IF Introduced(r, c, plan) # {}
        THEN Fails(r, {}) /\ UNCHANGED fresh
        ELSE /\ run' = [run EXCEPT ![r] = Enters(run[r], r, run[r].pos + 1, plan)]
             /\ fresh' = fresh \cup {<<r, c>>}
             /\ UNCHANGED holder
  /\ UNCHANGED <<db, used>>

-----------------------------------------------------------------------------
(* Carrying the steps out.                                                 *)

Changes(r, c, coll) ==
  /\ db' = [db EXCEPT ![c] = coll]
  /\ fresh' = {p \in fresh : p[2] # c \/ p[1] = r}

InOneCommand(step) == step.op \notin {"rebuild", "convertUnique"}

\* A step begins: between steps is the only place where an abort stops a run.
Begins(r) == run[r].pc = "running" /\ run[r].steps # <<>> /\ ~run[r].aborted

StepRuns(r) ==
  /\ Begins(r) /\ InOneCommand(Now(r))
  /\ ~SaysNo(Now(r), Def[Here(r)], db[Here(r)])
  /\ Now(r).op = "dropIndex" => ~ShardKeyRefusal(Now(r).drops, Here(r))
  /\ Changes(r, Here(r), Effect(Now(r), Def[Here(r)], db[Here(r)]))
  /\ run' = [run EXCEPT ![r].steps = Tail(@),
                        ![r].removed = IF Now(r).op = "dropIndex"
                                       THEN @ \cup Names(Now(r).drops) ELSE @]
  /\ UNCHANGED <<holder, used>>

StepRefused(r) ==
  /\ Begins(r) /\ InOneCommand(Now(r))
  /\ SaysNo(Now(r), Def[Here(r)], db[Here(r)])
  /\ Fails(r, {}) /\ UNCHANGED <<db, fresh, used>>

\* Its shard key could not be read up front: the index is kept, and the run goes on.
StepKept(r) ==
  /\ Begins(r) /\ Now(r).op = "dropIndex" /\ ShardKeyRefusal(Now(r).drops, Here(r))
  /\ run' = [run EXCEPT ![r].steps = Tail(@), ![r].kept = @ \cup Names(Now(r).drops)]
  /\ UNCHANGED <<db, holder, fresh, used>>

\* The connection breaks: the command may have been carried out, the run fails.
StepLost(r) ==
  /\ Begins(r) /\ InOneCommand(Now(r)) /\ Faulty
  /\ ~SaysNo(Now(r), Def[Here(r)], db[Here(r)])
  /\ Now(r).op = "dropIndex" => ~ShardKeyRefusal(Now(r).drops, Here(r))
  /\ \/ Changes(r, Here(r), Effect(Now(r), Def[Here(r)], db[Here(r)]))
     \/ UNCHANGED <<db, fresh>>
  /\ Fails(r, Names(Now(r).drops))

\* convertToUnique: first no new duplicates, then the existing documents are checked.
Prepares(r) ==
  /\ Begins(r) /\ Now(r).op = "convertUnique"
  /\ LET name == Now(r).creates[1].name
     IN IF name \in Names(db[Here(r)].indexes)
        THEN /\ Changes(r, Here(r), [db[Here(r)] EXCEPT !.prepared = @ \cup {name}])
             /\ run' = [run EXCEPT ![r].pc = "converting"] /\ UNCHANGED holder
        ELSE Fails(r, {}) /\ UNCHANGED <<db, fresh>>
  /\ UNCHANGED used

\* Wrong on purpose: only makes the index unique, and forgets what else was to change.
ConvertedOnly(d, i) == [i EXCEPT !.unique = TRUE]

Converted(d, i) == [i EXCEPT !.unique = TRUE, !.ttl = d.ttl]

Converts(r) ==
  /\ run[r].pc = "converting"
  /\ LET d    == Now(r).creates[1]
         coll == db[Here(r)]
         free == [coll EXCEPT !.prepared = @ \ {d.name}]
     IN IF d.name \in Names(coll.indexes) /\ d.key \notin coll.dups
        THEN /\ Changes(r, Here(r), Modified(d.name, LAMBDA i : Converted(d, i), free))
             /\ run' = [run EXCEPT ![r].pc = "running", ![r].steps = Tail(@)]
             /\ UNCHANGED holder
        ELSE Changes(r, Here(r), free) /\ Fails(r, {})
  /\ UNCHANGED used

\* The connection breaks in between: what was taken back, or not, is anybody's guess, and the
\* options that a further collMod would have changed stay.
ConvertLost(r) ==
  /\ (Begins(r) /\ Now(r).op = "convertUnique") \/ run[r].pc = "converting"
  /\ Faulty
  /\ LET d    == Now(r).creates[1]
         coll == db[Here(r)]
     IN \/ UNCHANGED <<db, fresh>>
        \/ /\ run[r].pc = "running" /\ d.name \in Names(coll.indexes)
           /\ Changes(r, Here(r), [coll EXCEPT !.prepared = @ \cup {d.name}])
        \/ /\ run[r].pc = "converting"
           /\ Changes(r, Here(r), [coll EXCEPT !.prepared = @ \ {d.name}])
        \/ /\ run[r].pc = "converting" /\ d.key \notin coll.dups
           /\ Changes(r, Here(r), Modified(d.name, LAMBDA i : [i EXCEPT !.unique = TRUE],
                                           [coll EXCEPT !.prepared = @ \ {d.name}]))
  /\ Fails(r, {})

\* A rebuild runs its drops, in any order, and then its creates, whatever is aborted meanwhile.
InRebuild(r) ==
  /\ \/ run[r].pc = "rebuilding"
     \/ Begins(r) /\ Now(r).op = "rebuild"
  /\ UNCHANGED used

Dropped(r, i) ==
  [run[r] EXCEPT !.pc = "rebuilding", !.steps[1].drops = @ \ {i}, !.dropped = Append(@, i)]

RebuildDrops(r) ==
  /\ InRebuild(r)
  /\ \E i \in Now(r).drops :
       IF ShardKeyRefusal({i}, Here(r))
       THEN Fails(r, {}) /\ UNCHANGED <<db, fresh>>
       ELSE /\ Changes(r, Here(r), Without({i.name}, db[Here(r)]))
            /\ run' = [run EXCEPT ![r] = Dropped(r, i)]
            /\ UNCHANGED holder

\* The indexes a rebuild built: it ends with the last of them.
Built(r, d) ==
  IF Len(Now(r).creates) = 1
  THEN [run[r] EXCEPT !.pc = "running", !.steps = Tail(@), !.dropped = <<>>, !.made = {}]
  ELSE [run[r] EXCEPT !.pc = "rebuilding", !.steps[1].creates = Tail(@), !.made = @ \cup {d.name}]

RebuildCreates(r) ==
  /\ InRebuild(r) /\ Now(r).drops = {}
  /\ LET d == Head(Now(r).creates)
     IN IF Refuses({d}, db[Here(r)])
        THEN run' = [run EXCEPT ![r].pc = "restoring"] /\ UNCHANGED <<db, fresh>>
        ELSE /\ Changes(r, Here(r), Added({d}, db[Here(r)]))
             /\ run' = [run EXCEPT ![r] = Built(r, d)]
  /\ UNCHANGED holder

\* A drop that fails is thrown as it is, whatever the ones before it dropped.
DropLost(r) ==
  /\ Begins(r) \/ run[r].pc = "rebuilding"
  /\ Now(r).op = "rebuild" /\ Now(r).drops # {} /\ Faulty
  /\ \/ \E i \in Now(r).drops : Changes(r, Here(r), Without({i.name}, db[Here(r)]))
     \/ UNCHANGED <<db, fresh>>
  /\ Fails(r, {})

\* After connection trouble nothing is put back: the server may still be building.
RebuildLost(r) ==
  /\ run[r].pc = "rebuilding" /\ Now(r).drops = {} /\ Faulty
  /\ LET d == Head(Now(r).creates)
     IN /\ \/ ~Refuses({d}, db[Here(r)]) /\ Changes(r, Here(r), Added({d}, db[Here(r)]))
           \/ UNCHANGED <<db, fresh>>
        /\ Fails(r, Names(ToSet(run[r].dropped)))

\* Wrong on purpose: what could not be put back is not remembered.
UnrestoredNever(r, i) == run[r].unrestored

Unrestored(r, i) == run[r].unrestored \cup {i.name}

\* Every dropped index whose name is still free is put back, as well as it goes.
Restores(r) ==
  /\ run[r].pc = "restoring" /\ run[r].dropped # <<>>
  /\ LET i    == Head(run[r].dropped)
         rest == [run[r] EXCEPT !.dropped = Tail(@)]
     IN \/ /\ i.name \in run[r].made
           /\ run' = [run EXCEPT ![r] = rest] /\ UNCHANGED <<db, fresh, used>>
        \/ /\ i.name \notin run[r].made /\ ~Refuses({i}, db[Here(r)])
           /\ Changes(r, Here(r), Added({i}, db[Here(r)]))
           /\ run' = [run EXCEPT ![r] = rest] /\ UNCHANGED used
        \/ /\ i.name \notin run[r].made
           /\ \/ Refuses({i}, db[Here(r)]) /\ UNCHANGED used
              \/ Faulty
           /\ run' = [run EXCEPT ![r] = [rest EXCEPT !.unrestored = Unrestored(r, i)]]
           /\ UNCHANGED <<db, fresh>>
  /\ UNCHANGED holder

Restored(r) ==
  /\ run[r].pc = "restoring" /\ run[r].dropped = <<>>
  /\ Fails(r, run[r].unrestored)
  /\ UNCHANGED <<db, fresh, used>>

\* verifyFixedPoint: what was applied must now compare as unchanged.
Verifies(r) ==
  /\ run[r].pc = "running" /\ run[r].steps = <<>>
  /\ LET still == {row \in Plan(r, Here(r)).rows :
                     /\ IsChange(row) /\ row.target # "search"
                     /\ ~(row.action = "drop" /\ row.name \in run[r].kept)}
     IN run' = [run EXCEPT ![r].pc = "next", ![r].unstable = still]
  /\ UNCHANGED <<db, holder, fresh, used>>

-----------------------------------------------------------------------------
(* Waiting for search indexes, and the end.                                *)

\* The lock is given up before the wait, which only reads.
Ends(r) ==
  /\ run[r].pc = "next" /\ run[r].pos = Len(Order)
  /\ IF r \in Waits /\ run[r].targets # {}
     THEN /\ run' = [run EXCEPT ![r] = [Idle EXCEPT !.pc = "waiting", !.targets = run[r].targets,
                                                    !.aborted = run[r].aborted]]
          /\ holder' = IF holder = r THEN Nobody ELSE holder
     ELSE Over(r, "done")
  /\ UNCHANGED <<db, fresh, used>>

Listed(t) == {i \in db[t.coll].listed : i.name = t.name}

\* Serving, and with a definition past the one that this run updated
\* (isSearchIndexReady).  The code leaves out the version when the server lists none,
\* and takes any serving index for the new one; the server here always lists it.
Serves(t) == \E i \in Listed(t) : i.status = "ready" /\ i.version > t.since

\* One that the run did not touch, and that cannot get there by waiting, holds nobody up.
Hopeless(t) == ~t.touched /\ \E i \in Listed(t) : i.status \in {"failed", "stale"}

WaitReady(r) ==
  /\ run[r].pc = "waiting" /\ ~run[r].aborted
  /\ \A t \in run[r].targets : Serves(t) \/ Hopeless(t)
  /\ Over(r, "done") /\ UNCHANGED <<db, fresh, used>>

\* A FAILED build, the budget running out, a list that cannot be read, or an abort.
WaitFails(r) ==
  /\ run[r].pc = "waiting"
  /\ Fails(r, {}) /\ UNCHANGED <<db, fresh, used>>

\* Between steps, and while the check rereads a late search index list, or fails to.
Aborts(r) ==
  /\ run[r].pc = "running" /\ run[r].aborted
  /\ Fails(r, {}) /\ UNCHANGED <<db, fresh, used>>

-----------------------------------------------------------------------------
(* Faults, and everybody else.                                             *)

Active(r) == run[r].pc \notin {"idle", "done", "failed", "dead"}

\* The lock's deadline aborts the run before anybody can take the lock.
LosesLock(r) ==
  /\ Active(r) /\ holder = r /\ Faulty
  /\ holder' = Nobody /\ run' = [run EXCEPT ![r].aborted = TRUE]
  /\ UNCHANGED <<db, fresh>>

Stops(r) ==
  /\ Active(r) /\ ~run[r].aborted /\ Faulty
  /\ run' = [run EXCEPT ![r].aborted = TRUE] /\ UNCHANGED <<db, holder, fresh>>

Dies(r) ==
  /\ Active(r) /\ Faulty
  /\ Over(r, "dead") /\ UNCHANGED <<db, fresh>>

Meddles == used.meddle < MaxMeddle /\ used' = [used EXCEPT !.meddle = @ + 1]

DbaCreates(c, i) ==
  /\ Meddles /\ db[c].exists /\ i \notin db[c].indexes /\ ~Refuses({i}, db[c])
  /\ Changes(Nobody, c, Added({i}, db[c])) /\ UNCHANGED <<holder, run>>

DbaDrops(c, i) ==
  /\ Meddles /\ i.key \notin Backing[c]
  /\ Changes(Nobody, c, Without({i.name}, db[c])) /\ UNCHANGED <<holder, run>>

\* The application writes a duplicate where no index forbids it.
Duplicates(c, key) ==
  /\ Meddles /\ db[c].exists /\ key \notin db[c].dups /\ ~Guarded(db[c], key)
  /\ db' = [db EXCEPT ![c].dups = @ \cup {key}] /\ UNCHANGED <<holder, run, fresh>>

\* An old pod writes a document below the floor, which the validator does not enforce yet.
OldWrites(c) ==
  /\ Meddles /\ db[c].exists /\ db[c].rules = 0 /\ ~db[c].below
  /\ db' = [db EXCEPT ![c].below = TRUE] /\ UNCHANGED <<holder, run, fresh>>

\* The server builds a search index, removes one, or brings its list up to date.
Builds(c, i) ==
  /\ i.status = "building"
  /\ \E status \in {"ready", "failed", "stale"} :
       db' = [db EXCEPT ![c].search = (@ \ {i}) \cup
         {[i EXCEPT !.status = status, !.served = IF status = "failed" THEN @ ELSE i.body]}]
  /\ UNCHANGED <<holder, run, fresh, used>>

Removes(c, i) ==
  /\ i.status = "removing"
  /\ db' = [db EXCEPT ![c].search = @ \ {i}] /\ UNCHANGED <<holder, run, fresh, used>>

Lists(c) ==
  /\ db[c].listed # db[c].search
  /\ db' = [db EXCEPT ![c].listed = db[c].search] /\ UNCHANGED <<holder, run, fresh, used>>

-----------------------------------------------------------------------------
RunActs(r) ==
  \/ Plans(r) \/ Replans(r) \/ StepRuns(r) \/ StepRefused(r) \/ StepKept(r) \/ StepLost(r)
  \/ Prepares(r) \/ Converts(r) \/ ConvertLost(r) \/ RebuildDrops(r) \/ RebuildCreates(r)
  \/ DropLost(r) \/ RebuildLost(r) \/ Restores(r) \/ Restored(r) \/ Verifies(r)
  \/ Ends(r) \/ WaitReady(r) \/ WaitFails(r) \/ Aborts(r)

OthersAct ==
  \/ \E c \in Coll : \/ \E i \in DbaIndex[c] : DbaCreates(c, i)
                     \/ \E i \in db[c].indexes : DbaDrops(c, i)
                     \/ \E k \in {i.key : i \in ToSet(Def[c].indexes)} : Duplicates(c, k)
                     \/ OldWrites(c) \/ Lists(c)
                     \/ \E i \in db[c].search : Builds(c, i) \/ Removes(c, i)

Next ==
  \/ \E r \in Run : RunActs(r) \/ LosesLock(r) \/ Stops(r) \/ Dies(r)
  \/ OthersAct

Spec == Init /\ [][Next]_vars

-----------------------------------------------------------------------------
(* Properties.                                                             *)

\* What a run applied compares as unchanged afterwards: unless somebody else changed the
\* collection since the run planned it, the verify phase finds no index and no validator that
\* the next converge would change again (verifyFixedPoint's `unstable`, converge.js).
FixedPoint ==
  [][\A r \in Run :
       run[r].unstable = {} /\ run'[r].unstable # {} => <<r, Here(r)>> \notin fresh]_vars

\* A run that fails while nobody else touched the collection leaves every index that it found
\* there under its name or its key, or it says which one is gone (lostIndexes, runRebuild,
\* converge.js). Not claimed of a run that failed at a drop inside a rebuild.
LossReported ==
  [][\A r \in Run :
       LET c == Here(r)
       IN /\ run[r].pc \in {"running", "rebuilding", "converting", "restoring"}
          /\ run'[r].pc = "failed" /\ <<r, c>> \in fresh
          /\ ~(run[r].steps # <<>> /\ Now(r).op = "rebuild" /\ Now(r).drops # {})
          => \A i \in run[r].before :
               \/ i.name \in Names(db'[c].indexes) \cup run[r].removed \cup run'[r].lost
               \/ \E j \in db'[c].indexes : Collides(j, i)]_vars

\* No run removes an index under a name that was not among the drops when its plan was
\* reviewed, however the database changed while it worked on the collections before
\* (refuseConflicts, replan, converge.js) -- unless, when it planned the collection again, the
\* index of that name stood in the way of a rebuild that was reviewed, or had its name.
ReviewedOnly ==
  [][\A r \in Run, c \in Coll :
       run'[r] # run[r] =>
         \A name \in Names(db[c].indexes) \ Names(db'[c].indexes) :
           \/ name \in run[r].reviewed[c].drops
           \/ \E d \in ToSet(Def[c].indexes) :
                /\ Row("index", d.name, "recreate") \in run[r].reviewed[c].rows
                /\ name = d.name \/ \E i \in run[r].before : i.name = name /\ Collides(d, i)]_vars

\* A wait that ends well ends with every search index that the run created or updated serving
\* its declaration, although the server lists what it does late (isSearchIndexReady,
\* search-index-spec.js; waitTargets, converge-search-run.js).
ReadyServes ==
  [][\A r \in Run :
       run[r].pc = "waiting" /\ run'[r].pc = "done" =>
         \A t \in run[r].targets : t.touched =>
           \E i \in db[t.coll].search : \E d \in Def[t.coll].search :
             i.name = t.name /\ d.name = t.name /\ i.served = d.body]_vars
=============================================================================
