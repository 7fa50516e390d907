------------------------------ MODULE LockWait ------------------------------
(***************************************************************************)
(* Waiting for a lock that another process holds: the one loop that        *)
(* `runMigrations` and the queue's jobs share (src/core/lock-wait.js).     *)
(* MigrationQueue says that a job waits and may give up; here is when.     *)
(*                                                                         *)
(* The loop knows of the holder only what a refusal carries: its TTL and   *)
(* when it last renewed the lock.  An attempt's answer is a record         *)
(*   kind  "ran", "failed", "held" (the lock is), or "busy" (an earlier    *)
(*         job of the queue is in flight, which says nothing of a holder)  *)
(*   ttl   the holder's, or else the waiter's own     at  its last renewal *)
(* Any time is a number, in a unit that the constants are given in.        *)
(***************************************************************************)
EXTENDS Integers

CONSTANTS
  DefaultBudget,  \* DEFAULT_LOCK_WAIT_TIMEOUT_MS
  LongestPoll,    \* MAX_LOCK_POLL_INTERVAL_MS
  LongestTimer,   \* MAX_TIMER_MS
  None            \* a time that there is none of

PollsPerBudget == 4

Lower(a, b) == IF a < b THEN a ELSE b
Upper(a, b) == IF a < b THEN b ELSE a

\* `options` has `onHeld`, what to do when the lock is held; `budget`, how long to wait or
\* None; `interval`, between polls.
Accepts(options) ==
  /\ options.onHeld \in {"wait", "throw"}
  /\ options.budget = None \/ options.budget > 0
  /\ options.interval \in 1..LongestTimer

-----------------------------------------------------------------------------
(* How long to wait, and how long to sleep *)

\* The default is one and a half times the holder's TTL, where that is more.
WaitBudget(given, ttl) ==
  IF given # None THEN given
  ELSE IF ttl = None THEN DefaultBudget
  ELSE Upper(DefaultBudget, (3 * ttl + 1) \div 2)

\* Doubling with every attempt, up to a quarter of the budget, and never below the interval.
Backoff(interval, attempt, budget) ==
  LET cap == Upper(interval, Lower(LongestPoll, budget \div PollsPerBudget))
  IN  Lower(cap, interval * 2 ^ Lower(Upper(attempt - 1, 0), 30))

\* What jitter of a quarter makes of it, rounded.
Sleeps(interval, attempt, budget) ==
  LET grown == Backoff(interval, attempt, budget)
  IN  {Lower(Upper(1, ms), LongestTimer) : ms \in (3 * grown + 2) \div 4 .. (5 * grown + 2) \div 4}

-----------------------------------------------------------------------------
(* The loop.  `w` is what the waiter keeps from one attempt to the next. *)

Begin == [attempts |-> 0, since |-> None, deadline |-> None, last |-> None, waited |-> FALSE]

Advanced(w, at) == at # None /\ w.last # None /\ at > w.last

\* A refusal sets the deadline when it is the first, or when the holder has renewed since the
\* last: the budget bounds how long the holder stalls.
Refused(w, options, now, answer) ==
  [w EXCEPT !.since    = IF @ = None THEN now ELSE @,
            !.deadline = IF @ = None \/ Advanced(w, answer.at)
                         THEN now + WaitBudget(options.budget, answer.ttl) ELSE @,
            !.last     = IF answer.at # None THEN answer.at ELSE @]

\* How a wait ends is told to whoever asked, when there was one.
Settled(w, outcome) == IF w.waited THEN outcome ELSE "nothing"

\* What the loop does with an answer, when the sleep that jitter would have it is `sleep`.
Next(w, options, now, answer, sleep) ==
  LET tried   == [w EXCEPT !.attempts = @ + 1]
      refused == Refused(tried, options, now, answer)
  IN  CASE answer.kind = "ran" ->
             [does |-> "returns", told |-> Settled(w, "acquired"), w |-> tried]
        [] answer.kind = "failed" \/ (answer.kind # "ran" /\ options.onHeld # "wait") ->
             [does |-> "throws", told |-> "nothing", w |-> tried]
        [] answer.kind \in {"held", "busy"} /\ options.onHeld = "wait" ->
             IF now + sleep > refused.deadline
             THEN [does |-> "gives up", told |-> Settled(w, "timeout"), w |-> refused]
             ELSE [does |-> "sleeps", told |-> "nothing", w |-> [refused EXCEPT !.waited = TRUE]]

\* The sleeps that Next may be given.
SleepsAfter(w, options, now, answer) ==
  IF answer.kind \notin {"held", "busy"} THEN {0}
  ELSE Sleeps(options.interval, w.attempts + 1, WaitBudget(options.budget, answer.ttl))

\* An abort is seen before an attempt and during a sleep, never during an attempt.
Aborted(w) == [does |-> "aborts", told |-> Settled(w, "aborted"), w |-> w]
=============================================================================
