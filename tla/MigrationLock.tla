--------------------------- MODULE MigrationLock ---------------------------
(***************************************************************************)
(* The migration lock (core/lock.js): one document in MongoDB, taken by an *)
(* upsert that inserts it or reclaims a stale one, kept alive by a         *)
(* heartbeat, guarded on the holder's side by a deadline timer, released   *)
(* by a delete scoped to the holder's owner token and nonce.               *)
(*                                                                         *)
(* A run is one execution of runWithLock; a run that is over may start     *)
(* again, with a fresh nonce.  Every call to the server takes effect in an *)
(* action of its own, between the actions that send it and hear its reply. *)
(*                                                                         *)
(* Time is counted in ticks and only relatively: `age` is how long ago the *)
(* server stamped lockedAt (server time, capped one tick past the TTL), the*)
(* timers of a run count down to 0 and go off before time moves on, and a  *)
(* call is answered, or fails, at most Latency ticks after it is sent.     *)
(***************************************************************************)
EXTENDS Integers

CONSTANTS Run,        \* the processes that may run under the lock
          Nonce,      \* what randomId() may mint
          OwnerOf,    \* the owner token (run id) a run is given; a user's
                      \* generateId decides whether two runs share one
          NoNonce,    \* the run has no nonce
          NoDoc,      \* there is no lock document
          Ttl,        \* lockTTLSeconds, in ticks
          MarginCap,  \* the 5000 ms cap on the deadline's margin, in ticks
          Latency,    \* the longest a call stays unanswered, in ticks
          Operators   \* whether somebody runs `migronaut unlock`

ASSUME TtlAssumption == Ttl \in Nat \ {0}
ASSUME MarginAssumption == MarginCap \in Nat
ASSUME LatencyAssumption == Latency \in Nat
ASSUME OperatorsAssumption == Operators \in BOOLEAN
ASSUME NonceAssumption == NoNonce \notin Nonce
ASSUME NoDocAssumption ==
    NoDoc \notin [nonce: Nonce, owner: {OwnerOf[p] : p \in Run}, age: Nat]

VARIABLES
  lock,      \* the lock document, or NoDoc
  pc,        \* where each run is
  nonce,     \* the nonce of its acquire
  wait,      \* ticks since it sent the call that is in flight
  renewal,   \* the heartbeat's renew() in flight
  beat,      \* ticks until the heartbeat goes off
  left,      \* ticks until the deadline goes off, or Disarmed
  stopped,   \* the heartbeat and the deadline were stopped
  lost,      \* loseLock() told the run that its lock is lost
  early,     \* where control.release() is
  operator,  \* `migronaut unlock`: the holder it read, once it has
  evicted,   \* history: an operator deleted this run's lock document
  troubled   \* history: a renewal of this run failed

acquireVars == <<pc, nonce>>
timerVars   == <<beat, left, stopped>>
historyVars == <<evicted, troubled>>
vars == <<lock, pc, nonce, wait, renewal, beat, left, stopped, lost, early,
          operator, evicted, troubled>>

Larger(m, n)  == IF m > n THEN m ELSE n
Smaller(m, n) == IF m < n THEN m ELSE n

\* The heartbeat's interval, the margin of the deadline, and the deadline,
\* counted from the moment it is armed.
Interval      == Larger(1, Ttl \div 2)
Margin        == Smaller(Interval \div 2, MarginCap)
DeadlineUnmargined == Larger(1, Ttl)  \* wrong on purpose: no margin
DeadlineAfter == Larger(1, Ttl - Margin)
Disarmed      == -1

LockDoc == [nonce: Nonce, owner: {OwnerOf[p] : p \in Run}, age: 0..(Ttl + 1)]
NotAsked == [asked |-> FALSE, holder |-> NoNonce]
Holder(doc) == IF doc = NoDoc THEN NoNonce ELSE doc.nonce

TypeOK ==
  /\ lock \in LockDoc \cup {NoDoc}
  /\ pc \in [Run -> {"idle", "trying", "inserted", "readback", "held", "ending"}]
  /\ nonce \in [Run -> Nonce \cup {NoNonce}]
  /\ wait \in [Run -> 0..Latency]
  /\ renewal \in [Run -> {"none", "sent", "matched", "missed"}]
  /\ beat \in [Run -> 0..Interval]
  /\ left \in [Run -> Disarmed..DeadlineAfter]
  /\ stopped \in [Run -> BOOLEAN]
  /\ lost \in [Run -> BOOLEAN]
  /\ early \in [Run -> {"no", "asked", "released", "failed"}]
  /\ operator \in [asked: BOOLEAN, holder: Nonce \cup {NoNonce}]
  /\ evicted \in [Run -> BOOLEAN]
  /\ troubled \in [Run -> BOOLEAN]

Init ==
  /\ lock = NoDoc
  /\ pc = [p \in Run |-> "idle"]
  /\ nonce = [p \in Run |-> NoNonce]
  /\ wait = [p \in Run |-> 0]
  /\ renewal = [p \in Run |-> "none"]
  /\ beat = [p \in Run |-> 0]
  /\ left = [p \in Run |-> Disarmed]
  /\ stopped = [p \in Run |-> FALSE]
  /\ lost = [p \in Run |-> FALSE]
  /\ early = [p \in Run |-> "no"]
  /\ operator = NotAsked
  /\ evicted = [p \in Run |-> FALSE]
  /\ troubled = [p \in Run |-> FALSE]

-----------------------------------------------------------------------------
\* A document is reclaimed once lockedAt < $$NOW - ttlMs.
Stale(doc) == doc.age > Ttl

\* Wrong on purpose, for the mutants: the owner token alone.
OwnsByOwner(p) == lock # NoDoc /\ lock.owner = OwnerOf[p]

\* The document matches the run's owner token and nonce: the read-back's
\* check, and the filter of renew() and release().
Owns(p) == /\ lock # NoDoc
           /\ lock.nonce = nonce[p]
           /\ lock.owner = OwnerOf[p]

\* Wrong on purpose: a document without a nonce.
DocWithoutNonce(p) == [nonce |-> NoNonce, owner |-> OwnerOf[p], age |-> 0]

\* The document an acquire writes, stamped with the server's time.
FreshDoc(p) == [nonce |-> nonce[p], owner |-> OwnerOf[p], age |-> 0]

\* The heartbeat and the deadline timer of the run are going.
Beating(p) == pc[p] = "held" /\ ~stopped[p]

\* The run holds the lock as far as it has been told.
Live(p) == Beating(p) /\ ~lost[p]

\* The run is waiting for the server to answer an acquire or a renewal.
Calling(p) == pc[p] \in {"trying", "inserted", "readback"} \/ renewal[p] # "none"

\* The run is over, or refused, or its process is gone: nothing of it is left
\* but what it wrote.
Forget(p) ==
  /\ pc' = [pc EXCEPT ![p] = "idle"]
  /\ nonce' = [nonce EXCEPT ![p] = NoNonce]
  /\ wait' = [wait EXCEPT ![p] = 0]
  /\ renewal' = [renewal EXCEPT ![p] = "none"]
  /\ beat' = [beat EXCEPT ![p] = 0]
  /\ left' = [left EXCEPT ![p] = Disarmed]
  /\ stopped' = [stopped EXCEPT ![p] = FALSE]
  /\ lost' = [lost EXCEPT ![p] = FALSE]
  /\ early' = [early EXCEPT ![p] = "no"]
  /\ evicted' = [evicted EXCEPT ![p] = FALSE]
  /\ troubled' = [troubled EXCEPT ![p] = FALSE]

-----------------------------------------------------------------------------
(* acquire() *)

\* randomId() is unique: no document and no run carries the nonce it mints.
NonceInUse(n) == \/ n \in {Holder(lock), operator.holder}
                 \/ \E p \in Run : nonce[p] = n
FreshNonce == {n \in Nonce : ~NonceInUse(n)}

AcquireSend(p) ==
  /\ pc[p] = "idle"
  /\ \E n \in FreshNonce : nonce' = [nonce EXCEPT ![p] = n]
  /\ pc' = [pc EXCEPT ![p] = "trying"]
  /\ UNCHANGED <<lock, wait, renewal, timerVars, lost, early, operator, historyVars>>

\* The upsert finds no document and inserts one: upsertedCount = 1.
AcquireInsert(p) ==
  /\ pc[p] = "trying"
  /\ lock = NoDoc
  /\ lock' = FreshDoc(p)
  /\ pc' = [pc EXCEPT ![p] = "inserted"]
  /\ UNCHANGED <<nonce, wait, renewal, timerVars, lost, early, operator, historyVars>>

\* The upsert replaces a stale document; the run cannot tell and reads back.
AcquireReclaim(p) ==
  /\ pc[p] = "trying"
  /\ lock # NoDoc
  /\ Stale(lock)
  /\ lock' = FreshDoc(p)
  /\ pc' = [pc EXCEPT ![p] = "readback"]
  /\ UNCHANGED <<nonce, wait, renewal, timerVars, lost, early, operator, historyVars>>

\* Wrong on purpose: a refused upsert stamps the document it leaves.
AcquireTouch(p) ==
  /\ pc[p] = "trying"
  /\ lock # NoDoc
  /\ ~Stale(lock)
  /\ lock' = [lock EXCEPT !.age = 0]
  /\ pc' = [pc EXCEPT ![p] = "readback"]
  /\ UNCHANGED <<nonce, wait, renewal, timerVars, lost, early, operator, historyVars>>

\* The upsert leaves a fresh document as it is; the run reads back.
AcquireKeep(p) ==
  /\ pc[p] = "trying"
  /\ lock # NoDoc
  /\ ~Stale(lock)
  /\ pc' = [pc EXCEPT ![p] = "readback"]
  /\ UNCHANGED <<lock, nonce, wait, renewal, timerVars, lost, early, operator, historyVars>>

\* The upsert raced the very first insert and lost: a duplicate key, refused.
AcquireDuplicate(p) ==
  /\ pc[p] = "trying"
  /\ lock # NoDoc
  /\ ~Stale(lock)
  /\ Forget(p)
  /\ UNCHANGED <<lock, operator>>

\* runWithLock goes on with fn: the heartbeat starts and the deadline is
\* armed, counted from now and not from the server's stamp.
BeginHolding(p) ==
  /\ pc' = [pc EXCEPT ![p] = "held"]
  /\ wait' = [wait EXCEPT ![p] = 0]
  /\ beat' = [beat EXCEPT ![p] = Interval]
  /\ left' = [left EXCEPT ![p] = DeadlineAfter]
  /\ UNCHANGED <<lock, nonce, renewal, stopped, lost, early, operator, historyVars>>

\* An insert proves ownership: no read-back.
AcquireInserted(p) ==
  /\ pc[p] = "inserted"
  /\ BeginHolding(p)

\* Wrong on purpose: the read-back is taken for a confirmation.
AcquireUnconfirmed(p) ==
  /\ pc[p] = "readback"
  /\ BeginHolding(p)

\* The read-back finds the run's own document ...
AcquireConfirmed(p) ==
  /\ pc[p] = "readback"
  /\ Owns(p)
  /\ BeginHolding(p)

\* ... or another one, or none: LockAlreadyHeldError.
AcquireRefused(p) ==
  /\ pc[p] = "readback"
  /\ ~Owns(p)
  /\ Forget(p)
  /\ UNCHANGED <<lock, operator>>

\* The call fails, whatever it did at the server: the error is thrown.
AcquireError(p) ==
  /\ pc[p] \in {"trying", "inserted", "readback"}
  /\ Forget(p)
  /\ UNCHANGED <<lock, operator>>

-----------------------------------------------------------------------------
(* The heartbeat and the deadline of runWithLock *)

\* The interval elapses: a renewal is sent unless one is still pending.
Heartbeat(p) ==
  /\ Beating(p)
  /\ beat[p] = 0
  /\ beat' = [beat EXCEPT ![p] = Interval]
  /\ IF renewal[p] = "none"
       THEN /\ renewal' = [renewal EXCEPT ![p] = "sent"]
            /\ wait' = [wait EXCEPT ![p] = 0]
       ELSE UNCHANGED <<renewal, wait>>
  /\ UNCHANGED <<lock, acquireVars, left, stopped, lost, early, operator, historyVars>>

\* The server runs the renewal: lockedAt is stamped if the document matches.
RenewApply(p) ==
  /\ renewal[p] = "sent"
  /\ IF Owns(p)
       THEN /\ lock' = [lock EXCEPT !.age = 0]
            /\ renewal' = [renewal EXCEPT ![p] = "matched"]
       ELSE /\ renewal' = [renewal EXCEPT ![p] = "missed"]
            /\ UNCHANGED lock
  /\ UNCHANGED <<acquireVars, wait, timerVars, lost, early, operator, historyVars>>

\* Wrong on purpose: the deadline is not armed anew.
RenewUnarmed(p) ==
  /\ renewal[p] = "matched"
  /\ renewal' = [renewal EXCEPT ![p] = "none"]
  /\ wait' = [wait EXCEPT ![p] = 0]
  /\ UNCHANGED <<lock, acquireVars, timerVars, lost, early, operator, historyVars>>

\* The renewal succeeded: the deadline is armed anew.  Once stopped, a
\* deadline does nothing, so only a going one is counted.
RenewMatched(p) ==
  /\ renewal[p] = "matched"
  /\ renewal' = [renewal EXCEPT ![p] = "none"]
  /\ wait' = [wait EXCEPT ![p] = 0]
  /\ left' = [left EXCEPT ![p] = IF stopped[p] THEN Disarmed ELSE DeadlineAfter]
  /\ UNCHANGED <<lock, acquireVars, beat, stopped, lost, early, operator, historyVars>>

\* Wrong on purpose: a renewal that matched nothing counts as a success.
RenewAnyway(p) ==
  /\ renewal[p] = "missed"
  /\ renewal' = [renewal EXCEPT ![p] = "none"]
  /\ wait' = [wait EXCEPT ![p] = 0]
  /\ left' = [left EXCEPT ![p] = IF stopped[p] THEN Disarmed ELSE DeadlineAfter]
  /\ UNCHANGED <<lock, acquireVars, beat, stopped, lost, early, operator, historyVars>>

\* The renewal matched nothing: somebody else owns the lock now.
RenewMissed(p) ==
  /\ renewal[p] = "missed"
  /\ renewal' = [renewal EXCEPT ![p] = "none"]
  /\ wait' = [wait EXCEPT ![p] = 0]
  /\ lost' = [lost EXCEPT ![p] = lost[p] \/ ~stopped[p]]
  /\ UNCHANGED <<lock, acquireVars, timerVars, early, operator, historyVars>>

\* The renewal fails, before or after it took effect: only a warning.
RenewError(p) ==
  /\ renewal[p] # "none"
  /\ renewal' = [renewal EXCEPT ![p] = "none"]
  /\ wait' = [wait EXCEPT ![p] = 0]
  /\ troubled' = [troubled EXCEPT ![p] = TRUE]
  /\ UNCHANGED <<lock, acquireVars, timerVars, lost, early, operator, evicted>>

\* The deadline goes off: no renewal succeeded in time.
DeadlineFires(p) ==
  /\ Beating(p)
  /\ left[p] = 0
  /\ left' = [left EXCEPT ![p] = Disarmed]
  /\ lost' = [lost EXCEPT ![p] = TRUE]
  /\ UNCHANGED <<lock, acquireVars, wait, renewal, beat, stopped, early, operator, historyVars>>

-----------------------------------------------------------------------------
(* Release *)

\* Wrong on purpose: what a delete by _id alone leaves.
ReleasedUnscoped(p) == NoDoc

\* What a delete with this run's owner and nonce leaves.
Released(p) == IF Owns(p) THEN NoDoc ELSE lock

\* stopHeartbeat(), up to its wait for the renewal in flight.
StopHeartbeat(p) ==
  /\ stopped' = [stopped EXCEPT ![p] = TRUE]
  /\ beat' = [beat EXCEPT ![p] = 0]
  /\ left' = [left EXCEPT ![p] = Disarmed]

\* fn asks for an early release, once.
EarlyRelease(p) ==
  /\ pc[p] = "held"
  /\ early[p] = "no"
  /\ early' = [early EXCEPT ![p] = "asked"]
  /\ StopHeartbeat(p)
  /\ UNCHANGED <<lock, acquireVars, wait, renewal, lost, operator, historyVars>>

EarlyDelete(p) ==
  /\ early[p] = "asked"
  /\ renewal[p] = "none"
  /\ lock' = Released(p)
  /\ early' = [early EXCEPT ![p] = "released"]
  /\ UNCHANGED <<acquireVars, wait, renewal, timerVars, lost, operator, historyVars>>

\* A failed delete is only warned about, and may have taken effect.
EarlyDeleteError(p) ==
  /\ early[p] = "asked"
  /\ renewal[p] = "none"
  /\ lock' \in {lock, Released(p)}
  /\ early' = [early EXCEPT ![p] = "failed"]
  /\ UNCHANGED <<acquireVars, wait, renewal, timerVars, lost, operator, historyVars>>

\* fn returns or throws; an early release that is under way goes on.
FnEnds(p) ==
  /\ pc[p] = "held"
  /\ pc' = [pc EXCEPT ![p] = "ending"]
  /\ StopHeartbeat(p)
  /\ UNCHANGED <<lock, nonce, wait, renewal, lost, early, operator, historyVars>>

\* The renewal in flight and an early release have settled.
Settled(p) == renewal[p] = "none" /\ early[p] # "asked"

Release(p) ==
  /\ pc[p] = "ending"
  /\ Settled(p)
  /\ lock' = IF early[p] = "released" THEN lock ELSE Released(p)
  /\ Forget(p)
  /\ UNCHANGED operator

\* LockReleaseFailedError: thrown or logged; the document may be left behind.
ReleaseError(p) ==
  /\ pc[p] = "ending"
  /\ Settled(p)
  /\ early[p] # "released"
  /\ lock' \in {lock, Released(p)}
  /\ Forget(p)
  /\ UNCHANGED operator

-----------------------------------------------------------------------------
(* The environment: crashes, an operator who runs `unlock`, and time *)

\* The process dies.  A call it had sent may still have taken effect: that is
\* a crash right after it did.
Crash(p) ==
  /\ pc[p] # "idle"
  /\ Forget(p)
  /\ UNCHANGED <<lock, operator>>

\* forceRelease() reads the document ...
ForceRead ==
  /\ Operators
  /\ ~operator.asked
  /\ operator' = [asked |-> TRUE, holder |-> Holder(lock)]
  /\ UNCHANGED <<lock, acquireVars, wait, renewal, timerVars, lost, early, historyVars>>

\* ... deletes whatever document is there by then, and returns what it read.
ForceDelete ==
  /\ operator.asked
  /\ lock' = NoDoc
  /\ operator' = NotAsked
  /\ evicted' = [p \in Run |-> evicted[p] \/ Owns(p)]
  /\ UNCHANGED <<acquireVars, wait, renewal, timerVars, lost, early, troubled>>

Tick ==
  /\ \A p \in Run : Calling(p) => wait[p] < Latency
  /\ \A p \in Run : Beating(p) => beat[p] # 0 /\ left[p] # 0
  /\ lock' = IF lock = NoDoc THEN NoDoc
             ELSE [lock EXCEPT !.age = Smaller(lock.age + 1, Ttl + 1)]
  /\ wait' = [p \in Run |-> IF Calling(p) THEN wait[p] + 1 ELSE wait[p]]
  /\ beat' = [p \in Run |-> IF Beating(p) THEN beat[p] - 1 ELSE beat[p]]
  /\ left' = [p \in Run |-> IF Beating(p) /\ left[p] # Disarmed
                            THEN left[p] - 1 ELSE left[p]]
  /\ UNCHANGED <<acquireVars, renewal, stopped, lost, early, operator, historyVars>>

-----------------------------------------------------------------------------
Acquire(p) ==
  \/ AcquireSend(p) \/ AcquireInsert(p) \/ AcquireReclaim(p) \/ AcquireKeep(p)
  \/ AcquireDuplicate(p) \/ AcquireInserted(p) \/ AcquireConfirmed(p)
  \/ AcquireRefused(p) \/ AcquireError(p)

Guard(p) ==
  \/ Heartbeat(p) \/ RenewApply(p) \/ RenewMatched(p) \/ RenewMissed(p)
  \/ RenewError(p) \/ DeadlineFires(p)

Finish(p) ==
  \/ EarlyRelease(p) \/ EarlyDelete(p) \/ EarlyDeleteError(p)
  \/ FnEnds(p) \/ Release(p) \/ ReleaseError(p)

Next ==
  \/ \E p \in Run : Acquire(p) \/ Guard(p) \/ Finish(p) \/ Crash(p)
  \/ ForceRead
  \/ ForceDelete
  \/ Tick

Spec == Init /\ [][Next]_vars

-----------------------------------------------------------------------------
(* Fairness.  Time diverges; a server that is asked answers, or the driver  *)
(* gives up (its timeouts); timers go off (the event loop); the settled run *)
(* is released; and whoever runs the tool tries a refused run again, so     *)
(* that some attempt gets through to the server when it matters.  Nothing   *)
(* is assumed of fn, which may run forever, of crashes, errors, operators.  *)

AcquireServed(p)   == AcquireInsert(p) \/ AcquireReclaim(p)
AcquireAnswered(p) == AcquireInserted(p) \/ AcquireConfirmed(p) \/ AcquireRefused(p)
RenewAnswered(p)   == RenewMatched(p) \/ RenewMissed(p) \/ RenewError(p)

Fairness ==
  /\ SF_vars(Tick)
  /\ \A p \in Run :
       /\ WF_vars(AcquireSend(p))
       /\ SF_vars(AcquireServed(p))
       /\ WF_vars(AcquireKeep(p) \/ AcquireError(p))
       /\ WF_vars(AcquireAnswered(p))
       /\ WF_vars(Heartbeat(p))
       /\ WF_vars(RenewApply(p))
       /\ WF_vars(RenewAnswered(p))
       /\ WF_vars(DeadlineFires(p))
       /\ WF_vars(Release(p) \/ ReleaseError(p))
       /\ WF_vars(EarlyDelete(p) \/ EarlyDeleteError(p))

FairSpec == Spec /\ Fairness

-----------------------------------------------------------------------------
(* Properties *)

\* Two runs that both still believe they hold the lock: never, unless an
\* operator deleted the document of one of them.  (runWithLock: "continuing
\* would mean two processes migrating the same database at once".)
HolderExclusive ==
  \A p, q \in Run : p # q /\ Live(p) /\ Live(q) => evicted[p] \/ evicted[q]

\* The deadline tells a run that its lock is lost strictly before the lock
\* becomes reclaimable (the comment on armDeadline).
DeadlineBeatsReclaim ==
  \A p \in Run : Live(p) /\ Owns(p) => ~Stale(lock)

\* A run whose renewals all succeed and whose document no operator deletes is
\* never told that it lost the lock: the heartbeat outpaces the deadline.
HealthyKeepsLock ==
  \A p \in Run : lost[p] => troubled[p] \/ evicted[p]

\* A lock document that is not stale goes away only by its own run's release
\* or an operator's unlock: never by another run's acquire, renewal, early
\* release or release, whatever owner token they share.
FreshKept ==
  lock # NoDoc /\ ~Stale(lock) /\ Holder(lock') # Holder(lock) =>
    \/ operator.asked /\ lock' = NoDoc
    \/ \E p \in Run : /\ nonce[p] = lock.nonce
                     /\ (pc[p] = "ending" \/ early[p] = "asked")
FreshLockUntouched == [][FreshKept]_vars

\* A run that goes on without its document (reclaimed, or deleted by an
\* operator) is eventually told, or ends: the heartbeat finds no match or the
\* deadline goes off, even when every renewal fails.
LossIsTold ==
  \A p \in Run : (Live(p) /\ ~Owns(p)) ~> ~Live(p)

\* A lock left behind by a run that is gone does not stay: some run reclaims
\* it, or an operator deletes it.
Orphaned == lock # NoDoc /\ \A p \in Run : nonce[p] # lock.nonce
OrphanReclaimed == Orphaned ~> ~Orphaned

\* The lock implements an exclusive lease.
Lease == INSTANCE ExclusiveLease
           WITH holding <- {p \in Run : Live(p)},
                revoked <- {p \in Run : Live(p) /\ evicted[p]}
ImplementsLease == Lease!Spec

-----------------------------------------------------------------------------
(* Why it is safe: the inductive invariant behind the properties above. *)

\* A run that is not past its acquire has no renewal and no early release.
PhaseInv ==
  \A p \in Run :
    /\ pc[p] = "idle" <=> nonce[p] = NoNonce
    /\ pc[p] \notin {"held", "ending"} => renewal[p] = "none" /\ early[p] = "no"
    /\ early[p] = "asked" => stopped[p]

\* Nonces tell runs apart, and a run that has not written its document owns none.
NonceInv ==
  /\ \A p, q \in Run : p # q /\ nonce[p] = nonce[q] => nonce[p] = NoNonce
  /\ \A p \in Run : pc[p] = "trying" => ~Owns(p)

\* A document that is gone does not come back.
EvictedInv ==
  \A p \in Run : evicted[p] => pc[p] \notin {"idle", "trying"} /\ ~Owns(p)

\* While a reply is on its way, the stamp it tells of is no older than the call.
ReplyInv ==
  \A p \in Run :
    /\ pc[p] = "inserted" => evicted[p] \/ Owns(p)
    /\ pc[p] \in {"inserted", "readback"} /\ Owns(p) => lock.age <= wait[p]
    /\ renewal[p] = "matched" /\ Owns(p) => lock.age <= wait[p]

\* A live run owns its document, and what is left of its deadline outweighs
\* the document's age.
HolderInv ==
  \A p \in Run : Live(p) =>
    /\ evicted[p] \/ Owns(p)
    /\ 0 <= left[p]
    /\ Owns(p) => lock.age + left[p] <= DeadlineAfter + Latency

LockInv ==
  TypeOK /\ PhaseInv /\ NonceInv /\ EvictedInv /\ ReplyInv /\ HolderInv

\* The timers of a live run that nothing went wrong for: the next renewal is
\* answered before the deadline, and so is the one in flight.
OutpacedInv ==
  \A p \in Run : Live(p) /\ ~troubled[p] /\ ~evicted[p] =>
    IF renewal[p] = "none" THEN beat[p] + Latency < left[p] ELSE Latency - wait[p] < left[p]

\* What a run is told, and why: only the document of an evicted run is missed.
ToldInv ==
  \A p \in Run :
    /\ pc[p] = "ending" => stopped[p]
    /\ Live(p) /\ renewal[p] = "missed" => evicted[p]

HealthyInv == LockInv /\ HealthyKeepsLock /\ OutpacedInv /\ ToldInv

=============================================================================
