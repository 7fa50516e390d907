----------------------------- MODULE LanePacing -----------------------------
(***************************************************************************)
(* When lanes work, and how much at a time: the throttle that adapts a     *)
(* lane's batches to the database (src/core/background-throttle.js), the   *)
(* loop of one lane and of the run that drives lanes                       *)
(* (src/core/background-kit.js), and the turns that the in-process runner  *)
(* deals to the migrations it serves (src/core/background-runner.js).      *)
(* What happens in a batch or a step is BackgroundLanes' and               *)
(* BackgroundPasses' business; there, a lane may stop or go on at any      *)
(* time.  Here is what decides it.  Times are in milliseconds.             *)
(***************************************************************************)
EXTENDS Integers, Sequences, FiniteSets

CONSTANTS
  Target,       \* targetLatencyMs: a batch that takes longer is slow
  MinBatch,     \* minBatchSize
  MaxBatch,     \* maxBatchSize
  MaxPause,     \* maxPauseMs
  FirstBackoff, \* the first pause (FIRST_BACKOFF_MS)
  MaxFailures,  \* failed slices in a row that end a lane (MAX_LANE_FAILURES)
  LaneBackoff,  \* the longest wait of a lane after a failed slice (MAX_LANE_BACKOFF_MS)
  TurnBackoff   \* and of a migration after a failed turn (MAX_BACKOFF_MS)

Lower(a, b) == IF a < b THEN a ELSE b
Upper(a, b) == IF a < b THEN b ELSE a
Clamp(value, low, high) == Lower(high, Upper(low, value))

-----------------------------------------------------------------------------
(* The adaptive batch size *)

Increase == Upper(1, MaxBatch \div 20)

\* A lane starts where the partition's last lane left off, or with a batch to warm up.
Fresh == [size |-> MaxBatch, pause |-> 0, warm |-> FALSE, decreased |-> -Target - MaxPause]
Resumed(size, pause) ==
  [Fresh EXCEPT !.size = Clamp(size, MinBatch, MaxBatch),
                !.pause = Clamp(pause, 0, MaxPause), !.warm = TRUE]

Decreased(a, now) ==
  IF a.size > MinBatch
  THEN [a EXCEPT !.decreased = now, !.size = Upper(MinBatch, @ \div 2)]
  ELSE [a EXCEPT !.decreased = now, !.pause = Lower(MaxPause, Upper(FirstBackoff, @ * 2))]

Recovered(a) ==
  IF a.pause > 0 THEN [a EXCEPT !.pause = @ \div 2]
  ELSE [a EXCEPT !.size = Lower(MaxBatch, @ + Increase)]

\* One batch is judged.  One that was under way at the last decrease does not count again.
Judged(a, batch) ==
  IF ~a.warm THEN [a EXCEPT !.warm = TRUE]
  ELSE IF ~batch.overloaded /\ batch.latency <= Target THEN Recovered(a)
  ELSE IF batch.now - a.decreased < Upper(batch.latency, 1) THEN a
  ELSE Decreased(a, batch.now)

-----------------------------------------------------------------------------
(* Replication lag *)

Unknown == -1

Counting(members, hidden) ==
  {m \in members : m.state = "SECONDARY" /\ m.name \notin hidden /\ m.at # Unknown}

\* The worst lag of a secondary that counts; hidden and delayed ones do not.
Lag(members, hidden) ==
  LET primaries == {m \in members : m.state = "PRIMARY" /\ m.at # Unknown}
      Behind(p) == {p.at - m.at : m \in Counting(members, hidden)} \cup {0}
  IN  IF primaries = {} THEN 0
      ELSE LET behind == Behind(CHOOSE p \in primaries : TRUE)
           IN  CHOOSE l \in behind : \A k \in behind : k <= l

\* `looks` are what successive looks at the status show: a lag, or that it cannot be read,
\* after which this lane never waits for secondaries again.  A lane that did not look just
\* now goes on after the first look that is not too high.
LagWait(enabled, recent, maxLag, looks) ==
  LET stops == {i \in DOMAIN looks : looks[i] = Unknown \/ looks[i] <= maxLag}
      first == CHOOSE i \in stops : \A j \in stops : i <= j
  IN  IF ~enabled \/ recent THEN [looked |-> 0, lagged |-> FALSE, enabled |-> enabled]
      ELSE [looked  |-> first, lagged |-> first > 1, enabled |-> looks[first] # Unknown]

-----------------------------------------------------------------------------
(* A lane that is driven from this process *)

Backoff(longest, first, failures) == Lower(longest, first * 2 ^ failures)
LaneWait(failures) == Backoff(LaneBackoff, 250, failures)

\* What a lane does after a slice: `outcome` is how it ended, "error" that it threw, "fatal"
\* that no retry can help.
LaneNext(failures, outcome, untilDone) ==
  CASE outcome = "stopped"                        -> [does |-> "ends", failures |-> failures]
    [] outcome = "fatal"                          -> [does |-> "throws", failures |-> failures + 1]
    [] outcome = "error" /\ failures + 1 >= MaxFailures
                                                  -> [does |-> "throws", failures |-> failures + 1]
    [] outcome = "error" /\ failures + 1 < MaxFailures
                                                  -> [does |-> IF untilDone THEN "waits" ELSE "ends",
                                                      failures |-> failures + 1]
    [] outcome = "yielded"                        -> [does |-> IF untilDone THEN "goes on" ELSE "ends",
                                                      failures |-> 0]
    [] outcome = "busy"                           -> [does |-> IF untilDone THEN "waits" ELSE "ends",
                                                      failures |-> 0]
    [] OTHER                                      -> [does |-> "ends", failures |-> 0]

\* What the run that drives lanes does with the coordinator's answer.  A run under the
\* migration lock does not wait for a deploy: it is the deploy.
DriveNext(answer, inline, untilDone) ==
  CASE answer.next \in {"done", "superseded"}            -> "ends"
    [] answer.next = "process"                           -> "lanes"
    [] inline /\ answer.next \in {"wait", "busy"} /\ answer.reason = "checksum" -> "throws"
    [] OTHER                                             -> IF untilDone THEN "waits" ELSE "ends"

\* As many lanes as were asked for, and no more than the migration allows.
Lanes(concurrency, maxParallel) == Upper(1, Lower(concurrency, maxParallel))

-----------------------------------------------------------------------------
(* The runner's turns *)

\* The entry that is looked at as the i-th from `next` on (both from 0).
Entry(list, next, i) == list[((next + i) % Len(list)) + 1]

Free(entry, shared, now) ==
  /\ shared.backoff[entry.migration] <= now
  /\ shared.active[entry.migration] < entry.maxParallel

\* The first entry that is free, round-robin; 0 is none.
Pick(list, shared, now) ==
  LET free == {i \in 0..Len(list) - 1 : Free(Entry(list, shared.next, i), shared, now)}
      i    == CHOOSE k \in free : \A j \in free : k <= j
  IN  IF free = {} THEN [picked |-> 0, shared |-> shared]
      ELSE LET entry == Entry(list, shared.next, i)
           IN  [picked |-> ((shared.next + i) % Len(list)) + 1,
                shared |-> [shared EXCEPT !.next = (@ + i + 1) % Len(list),
                                          !.active[entry.migration] = @ + 1]]

\* A turn ends: with a slice that did something, with the coordinator's word, or with an error.
TurnEnds(shared, name, now, outcome, answer, poll) ==
  LET ended  == [shared EXCEPT !.active[name] = @ - 1]
      Off(ms) == [ended EXCEPT !.backoff[name] = now + ms]
  IN  CASE outcome = "error" ->
             [Off(Backoff(TurnBackoff, 1000, shared.failures[name] + 1)) EXCEPT !.failures[name] = @ + 1]
        [] outcome \in {"yielded", "lost", "stopped", "paused", "cancelled", "failed"} ->
             [ended EXCEPT !.failures[name] = 0]
        [] outcome = "busy" \/ (outcome \in {"stale", "exhausted"} /\ answer \in {"wait", "busy"})
             \/ (outcome = "exhausted" /\ answer = "process") ->
             [Off(poll) EXCEPT !.failures[name] = 0]
        [] OTHER -> [ended EXCEPT !.failures[name] = 0]
=============================================================================
