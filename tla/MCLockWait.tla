----------------------------- MODULE MCLockWait -----------------------------
(* Holders of several kinds, against whom TLC plays LockWait out, in units of 2.5 seconds. *)
EXTENDS Integers, FiniteSets

LWNone == -1
W == INSTANCE LockWait WITH DefaultBudget <- 36, LongestPoll <- 2,
                            LongestTimer <- 1000, None <- LWNone

LWOptions(budget, interval) == [onHeld |-> "wait", budget |-> budget, interval |-> interval]
LWDefaults == LWOptions(LWNone, 1)

\* The longest sleep of a waiter with a budget.
LWLongest(options, budget) ==
  (5 * W!Upper(options.interval, W!Lower(2, budget \div 4)) + 2) \div 4

(* A holder: it took the lock at `from`, renews it every half `ttl` until it `dies`, and     *)
(* releases it at `until`; either time may be LWNone.  Before it, until `clear`, an earlier  *)
(* job is in flight.  `own` is the TTL by which the waiter judges that the lock is stale.    *)
LWHolder == [from |-> 0, ttl |-> 24, dies |-> LWNone, until |-> LWNone, own |-> 24, clear |-> 0,
             ends |-> "ran"]

LWRenewed(h, now) ==
  LET seen == IF h.dies # LWNone /\ h.dies < now THEN h.dies ELSE now
  IN  h.from + ((seen - h.from) \div (h.ttl \div 2)) * (h.ttl \div 2)

LWAnswer(h, now) ==
  CASE now < h.clear -> [kind |-> "busy", ttl |-> LWNone, at |-> LWNone]
    [] now >= h.clear /\ ((h.until # LWNone /\ now >= h.until) \/ LWRenewed(h, now) < now - h.own) ->
         [kind |-> h.ends, ttl |-> LWNone, at |-> LWNone]
    [] OTHER -> [kind |-> "held", ttl |-> h.ttl, at |-> LWRenewed(h, now)]

\* All the ways in which a waiter that comes at `now` can end, with the time of each.
RECURSIVE LWPlay(_, _, _, _)
LWPlay(h, options, waiters, ended) ==
  IF waiters = {} THEN ended
  ELSE LET after == UNION {{[now  |-> x.now, sleep |-> s, came |-> x.came,
                             step |-> W!Next(x.w, options, x.now, LWAnswer(h, x.now), s)] :
                              s \in W!SleepsAfter(x.w, options, x.now, LWAnswer(h, x.now))} :
                              x \in waiters}
           slept == {a \in after : a.step.does = "sleeps"}
       IN  LWPlay(h, options,
                  {[now |-> a.now + a.sleep, w |-> a.step.w, came |-> a.came] : a \in slept},
                  ended \cup {[does |-> a.step.does, told |-> a.step.told, now |-> a.now,
                               came |-> a.came, w |-> a.step.w] : a \in after \ slept})

LWEnds(h, options, comes) == LWPlay(h, options, {[now |-> c, w |-> W!Begin, came |-> c] : c \in comes}, {})

LWTtls == {2, 8, 24, 48}

\* While its holder renews it, nobody gives up on a lock, whatever its TTL and however long it
\* is held, and it is taken within a sleep of its release.
ASSUME HealthyOutwaited ==
  \A ttl \in LWTtls :
    LET h == [LWHolder EXCEPT !.ttl = ttl, !.own = ttl, !.until = W!WaitBudget(LWNone, ttl) + ttl]
    IN  \A e \in LWEnds(h, LWDefaults, {0, 1, ttl \div 2 - 1, ttl}) :
          /\ e.does = "returns" /\ e.told = "acquired"
          /\ e.now \in h.until .. h.until + LWLongest(LWDefaults, 36)

\* A waiter with a budget of its own needs half the TTL and two sleeps: the holder's renewal is
\* seen a sleep late, and the next sleep must fit.  A little less is not enough, though the
\* loop warns only of budgets up to half the TTL.
ASSUME ShortBudgets ==
  \A ttl \in {8, 24} :
    LET h == [LWHolder EXCEPT !.ttl = ttl, !.own = ttl, !.until = 3 * ttl]
        Ends(budget) == {e.does : e \in LWEnds(h, LWOptions(budget, 1), {0, 1, ttl \div 2 - 1})}
        Enough(budget) == 2 * budget >= ttl + 4 * LWLongest(LWOptions(budget, 1), budget)
    IN  /\ \A budget \in ttl \div 2 .. 2 * ttl : Enough(budget) => Ends(budget) = {"returns"}
        /\ ttl = 24 => "gives up" \in Ends(ttl \div 2 + 1)

\* Nobody gives up on a lock whose holder died before it can be taken over, if all have the TTL
\* that the holder had.
ASSUME DeadReplaced ==
  \A ttl \in LWTtls : \A dies \in {0, ttl \div 2, ttl - 1} :
    LET h == [LWHolder EXCEPT !.ttl = ttl, !.own = ttl, !.dies = dies]
    IN  \A e \in LWEnds(h, LWDefaults, {dies, dies + ttl \div 2}) :
          e.does = "returns" /\ e.now <= W!Upper(e.came, LWRenewed(h, dies) + ttl) + 1 + LWLongest(LWDefaults, 36)

\* A waiter whose own TTL is more than the budget may give up first: it follows the holder's
\* TTL, and staleness the waiter's.
ASSUME DeadOutlasts ==
  LET h == [LWHolder EXCEPT !.own = 48, !.dies = 0]
  IN  {e.does : e \in LWEnds(h, LWDefaults, {1})} = {"gives up"}

\* A holder that stalls is given all of the budget but the last sleep, and no more; a budget
\* has room for PollsPerBudget attempts, unless the interval is longer than that.
ASSUME StallBounded ==
  \A budget \in {1, 4, 10, 36}, interval \in {1, 2, 7} :
    LET h == [LWHolder EXCEPT !.own = 1000, !.dies = 0]
        o == LWOptions(budget, interval)
    IN  /\ W!Accepts(o)
        /\ \A e \in LWEnds(h, o, {0, 10}) :
             /\ e.does = "gives up"
             /\ e.now - e.w.since <= budget /\ e.now + LWLongest(o, budget) > e.w.since + budget
             /\ 4 * interval <= budget => e.w.attempts >= W!PollsPerBudget
             /\ e.told = IF e.w.attempts > 1 THEN "timeout" ELSE "nothing"

\* A job that waited for an earlier one has that much less left when the lock turns out to be
\* held: enough if half the TTL and two sleeps are left, and else it may give up on a lock
\* that is renewed.  And whoever waited for an attempt that then fails is told nothing.
ASSUME BusyThenHeld ==
  LET Held(clear) == [LWHolder EXCEPT !.clear = clear, !.until = 80]
      Ends(h) == {e.does : e \in LWEnds(h, LWDefaults, {0})}
  IN  /\ \A clear \in {1, 8, 18} : Ends(Held(clear)) = {"returns"}
      /\ "gives up" \in Ends(Held(34))
      /\ \A e \in LWEnds([Held(8) EXCEPT !.ends = "failed"], LWDefaults, {0}) :
           e.does = "throws" /\ e.w.waited /\ e.told = "nothing"

\* An abort is told to whoever waited, and to nobody else.
ASSUME AbortTold ==
  \A w \in {W!Begin, W!Refused(W!Begin, LWDefaults, 0, LWAnswer(LWHolder, 0)),
            W!Next(W!Begin, LWDefaults, 0, LWAnswer(LWHolder, 0), 1).w} :
    W!Aborted(w).told = "aborted" <=> w.waited /\ w.since # LWNone
=============================================================================
