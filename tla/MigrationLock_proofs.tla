------------------------ MODULE MigrationLock_proofs ------------------------
(***************************************************************************)
(* Proofs about the migration lock, for every set of runs, every TTL and   *)
(* every margin cap.  Safety needs one assumption on the environment:      *)
(* replies come within the margin that the deadline keeps to the TTL.      *)
(***************************************************************************)
EXTENDS MigrationLock, TLAPS

\* The timers' arithmetic: the interval is positive, and the deadline and its
\* margin fit in the TTL.
LEMMA TimerFacts ==
  /\ Interval \in Nat /\ 1 <= Interval
  /\ Margin \in Nat
  /\ DeadlineAfter \in Nat /\ 1 <= DeadlineAfter
  /\ DeadlineAfter + Margin <= Ttl
<1>1. Interval \in Nat /\ 1 <= Interval
  BY TtlAssumption DEF Interval, Larger
<1>2. Margin \in Nat /\ Margin <= Interval \div 2
  BY <1>1, MarginAssumption DEF Margin, Smaller
<1>3. CASE Ttl = 1
  <2>1. Interval = 1
    BY <1>3 DEF Interval, Larger
  <2>2. Margin = 0
    BY <1>2, <2>1
  <2> QED
    BY <1>1, <1>3, <2>2 DEF DeadlineAfter, Larger
<1>4. CASE Ttl > 1
  <2>1. Interval = Ttl \div 2
    BY <1>4, TtlAssumption DEF Interval, Larger
  <2>2. Margin <= Ttl - 1
    BY <1>2, <2>1, <1>4, TtlAssumption
  <2> QED
    BY <1>1, <1>2, <2>2, TtlAssumption DEF DeadlineAfter, Larger
<1> QED
  BY <1>3, <1>4, TtlAssumption

\* The documents the actions write are lock documents.
LEMMA DocFacts ==
  ASSUME TypeOK, PhaseInv
  PROVE  /\ \A p \in Run : pc[p] # "idle" => FreshDoc(p) \in LockDoc
         /\ \A a \in 0..(Ttl + 1) :
              lock # NoDoc => [lock EXCEPT !.age = a] \in LockDoc
<1> USE TtlAssumption DEF TypeOK, PhaseInv
<1>1. ASSUME NEW p \in Run, pc[p] # "idle" PROVE FreshDoc(p) \in LockDoc
  <2>1. nonce[p] \in Nonce /\ 0 \in 0..(Ttl + 1)
    BY <1>1
  <2>2. OwnerOf[p] \in {OwnerOf[q] : q \in Run}
    OBVIOUS
  <2> QED
    BY <2>1, <2>2 DEF FreshDoc, LockDoc
<1>2. ASSUME NEW a \in 0..(Ttl + 1), lock # NoDoc
      PROVE  [lock EXCEPT !.age = a] \in LockDoc
  BY <1>2 DEF LockDoc
<1> QED
  BY <1>1, <1>2

\* Type correctness: no action leaves the values the code's fields can have.
LEMMA TypeInit == Init => TypeOK
  BY TimerFacts, NonceAssumption, LatencyAssumption DEF Init, TypeOK, NotAsked, Disarmed

LEMMA TypeStep == TypeOK /\ PhaseInv /\ [Next]_vars => TypeOK'
<1> SUFFICES ASSUME TypeOK, PhaseInv, [Next]_vars PROVE TypeOK'
  OBVIOUS
<1> USE TimerFacts, LatencyAssumption, NonceAssumption, NoDocAssumption
<1> USE DEF TypeOK, Disarmed
<1>1. ASSUME NEW p \in Run, Acquire(p) PROVE TypeOK'
  <2>1. CASE AcquireSend(p)
    BY <2>1 DEF AcquireSend, FreshNonce, NonceInUse, acquireVars, timerVars, historyVars
  <2>2. CASE AcquireInsert(p)
    <3>1. lock' \in LockDoc
      BY <2>2, DocFacts DEF AcquireInsert
    <3> QED
      BY <2>2, <3>1 DEF AcquireInsert, acquireVars, timerVars, historyVars
  <2>3. CASE AcquireReclaim(p)
    <3>1. lock' \in LockDoc
      BY <2>3, DocFacts DEF AcquireReclaim
    <3> QED
      BY <2>3, <3>1 DEF AcquireReclaim, acquireVars, timerVars, historyVars
  <2>4. CASE AcquireKeep(p)
    BY <2>4 DEF AcquireKeep, Stale, acquireVars, timerVars, historyVars
  <2>5. CASE AcquireDuplicate(p)
    BY <2>5 DEF AcquireDuplicate, Forget, Stale, acquireVars, timerVars, historyVars
  <2>6. CASE AcquireInserted(p)
    BY <2>6 DEF AcquireInserted, BeginHolding, acquireVars, timerVars, historyVars
  <2>7. CASE AcquireConfirmed(p)
    BY <2>7 DEF AcquireConfirmed, BeginHolding, acquireVars, timerVars, historyVars
  <2>8. CASE AcquireRefused(p)
    BY <2>8 DEF AcquireRefused, Forget, acquireVars, timerVars, historyVars
  <2>9. CASE AcquireError(p)
    BY <2>9 DEF AcquireError, Forget, acquireVars, timerVars, historyVars
  <2> QED
    BY <2>1, <2>2, <2>3, <2>4, <2>5, <2>6, <2>7, <2>8, <2>9, <1>1 DEF Acquire
<1>2. ASSUME NEW p \in Run, Guard(p) PROVE TypeOK'
  <2>1. CASE Heartbeat(p)
    BY <2>1 DEF Heartbeat, Beating, acquireVars, timerVars, historyVars
  <2>2. CASE RenewApply(p)
    <3>1. lock' \in LockDoc \cup {NoDoc}
      <4>1. 0 \in 0..(Ttl + 1)
        BY TtlAssumption
      <4>2. CASE Owns(p)
        <5>1. lock # NoDoc /\ lock' = [lock EXCEPT !.age = 0]
          BY <2>2, <4>2 DEF RenewApply, Owns
        <5> QED
          BY <4>1, <5>1, DocFacts
      <4>3. CASE ~Owns(p)
        BY <2>2, <4>3 DEF RenewApply
      <4> QED
        BY <4>2, <4>3
    <3> QED
      BY <2>2, <3>1 DEF RenewApply, acquireVars, timerVars, historyVars
  <2>3. CASE RenewMatched(p)
    BY <2>3 DEF RenewMatched, acquireVars, timerVars, historyVars
  <2>4. CASE RenewMissed(p)
    BY <2>4 DEF RenewMissed, acquireVars, timerVars, historyVars
  <2>5. CASE RenewError(p)
    BY <2>5 DEF RenewError, acquireVars, timerVars, historyVars
  <2>6. CASE DeadlineFires(p)
    BY <2>6 DEF DeadlineFires, Beating, acquireVars, timerVars, historyVars
  <2> QED
    BY <2>1, <2>2, <2>3, <2>4, <2>5, <2>6, <1>2 DEF Guard
<1>3. ASSUME NEW p \in Run, Finish(p) PROVE TypeOK'
  <2>1. CASE EarlyRelease(p)
    BY <2>1 DEF EarlyRelease, StopHeartbeat, acquireVars, timerVars, historyVars
  <2>2. CASE EarlyDelete(p)
    BY <2>2 DEF EarlyDelete, Released, acquireVars, timerVars, historyVars
  <2>3. CASE EarlyDeleteError(p)
    BY <2>3 DEF EarlyDeleteError, Released, acquireVars, timerVars, historyVars
  <2>4. CASE FnEnds(p)
    BY <2>4 DEF FnEnds, StopHeartbeat, acquireVars, timerVars, historyVars
  <2>5. CASE Release(p)
    BY <2>5 DEF Release, Forget, Released, Settled, acquireVars, timerVars, historyVars
  <2>6. CASE ReleaseError(p)
    BY <2>6 DEF ReleaseError, Forget, Released, Settled, acquireVars, timerVars, historyVars
  <2> QED
    BY <2>1, <2>2, <2>3, <2>4, <2>5, <2>6, <1>3 DEF Finish
<1>4. ASSUME NEW p \in Run, Crash(p) PROVE TypeOK'
  BY <1>4 DEF Crash, Forget
<1>5. CASE ForceRead
  BY <1>5 DEF ForceRead, Holder, LockDoc, acquireVars, timerVars, historyVars
<1>6. CASE ForceDelete
  BY <1>6 DEF ForceDelete, NotAsked, Owns, acquireVars, timerVars
<1>7. CASE Tick
  <2>1. lock' \in LockDoc \cup {NoDoc}
    <3>1. CASE lock = NoDoc
      BY <1>7, <3>1 DEF Tick
    <3>2. CASE lock # NoDoc
      <4>1. lock.age \in 0..(Ttl + 1)
        BY <3>2 DEF LockDoc
      <4>2. Smaller(lock.age + 1, Ttl + 1) \in 0..(Ttl + 1)
        BY <4>1, TtlAssumption DEF Smaller
      <4> QED
        BY <1>7, <3>2, <4>2, DocFacts DEF Tick
    <3> QED
      BY <3>1, <3>2
  <2>2. wait' \in [Run -> 0..Latency]
    BY <1>7 DEF Tick, Calling
  <2>3. beat' \in [Run -> 0..Interval] /\ left' \in [Run -> Disarmed..DeadlineAfter]
    BY <1>7 DEF Tick, Beating
  <2> QED
    BY <1>7, <2>1, <2>2, <2>3 DEF Tick, acquireVars, historyVars
<1>8. CASE UNCHANGED vars
  BY <1>8 DEF vars, acquireVars, timerVars, historyVars
<1> QED
  BY <1>1, <1>2, <1>3, <1>4, <1>5, <1>6, <1>7, <1>8 DEF Next

\* Phases, nonces and early releases go together.
LEMMA PhaseStep == TypeOK /\ PhaseInv /\ [Next]_vars => PhaseInv'
<1> SUFFICES ASSUME TypeOK, PhaseInv, [Next]_vars PROVE PhaseInv'
  OBVIOUS
<1> USE NonceAssumption DEF TypeOK, PhaseInv
<1>1. ASSUME NEW p \in Run, Acquire(p) PROVE PhaseInv'
  <2>1. CASE AcquireSend(p)
    BY <2>1 DEF AcquireSend, FreshNonce, NonceInUse, acquireVars, timerVars
  <2>2. CASE AcquireInsert(p)
    BY <2>2 DEF AcquireInsert, acquireVars, timerVars
  <2>3. CASE AcquireReclaim(p)
    BY <2>3 DEF AcquireReclaim, acquireVars, timerVars
  <2>4. CASE AcquireKeep(p)
    BY <2>4 DEF AcquireKeep, acquireVars, timerVars
  <2>5. CASE AcquireDuplicate(p)
    BY <2>5 DEF AcquireDuplicate, Forget, acquireVars, timerVars
  <2>6. CASE AcquireInserted(p)
    BY <2>6 DEF AcquireInserted, BeginHolding, acquireVars, timerVars
  <2>7. CASE AcquireConfirmed(p)
    BY <2>7 DEF AcquireConfirmed, BeginHolding, acquireVars, timerVars
  <2>8. CASE AcquireRefused(p)
    BY <2>8 DEF AcquireRefused, Forget, acquireVars, timerVars
  <2>9. CASE AcquireError(p)
    BY <2>9 DEF AcquireError, Forget, acquireVars, timerVars
  <2> QED
    BY <2>1, <2>2, <2>3, <2>4, <2>5, <2>6, <2>7, <2>8, <2>9, <1>1 DEF Acquire
<1>2. ASSUME NEW p \in Run, Guard(p) PROVE PhaseInv'
  <2>1. CASE Heartbeat(p)
    BY <2>1 DEF Heartbeat, Beating, acquireVars, timerVars
  <2>2. CASE RenewApply(p)
    BY <2>2 DEF RenewApply, acquireVars, timerVars
  <2>3. CASE RenewMatched(p)
    BY <2>3 DEF RenewMatched, acquireVars, timerVars
  <2>4. CASE RenewMissed(p)
    BY <2>4 DEF RenewMissed, acquireVars, timerVars
  <2>5. CASE RenewError(p)
    BY <2>5 DEF RenewError, acquireVars, timerVars
  <2>6. CASE DeadlineFires(p)
    BY <2>6 DEF DeadlineFires, Beating, acquireVars, timerVars
  <2> QED
    BY <2>1, <2>2, <2>3, <2>4, <2>5, <2>6, <1>2 DEF Guard
<1>3. ASSUME NEW p \in Run, Finish(p) PROVE PhaseInv'
  <2>1. CASE EarlyRelease(p)
    BY <2>1 DEF EarlyRelease, StopHeartbeat, acquireVars, timerVars
  <2>2. CASE EarlyDelete(p)
    BY <2>2 DEF EarlyDelete, acquireVars, timerVars
  <2>3. CASE EarlyDeleteError(p)
    BY <2>3 DEF EarlyDeleteError, acquireVars, timerVars
  <2>4. CASE FnEnds(p)
    BY <2>4 DEF FnEnds, StopHeartbeat, acquireVars, timerVars
  <2>5. CASE Release(p)
    BY <2>5 DEF Release, Forget, Settled, acquireVars, timerVars
  <2>6. CASE ReleaseError(p)
    BY <2>6 DEF ReleaseError, Forget, Settled, acquireVars, timerVars
  <2> QED
    BY <2>1, <2>2, <2>3, <2>4, <2>5, <2>6, <1>3 DEF Finish
<1>4. ASSUME NEW p \in Run, Crash(p) PROVE PhaseInv'
  BY <1>4 DEF Crash, Forget
<1>5. CASE ForceRead \/ ForceDelete \/ Tick
  BY <1>5 DEF ForceRead, ForceDelete, Tick, acquireVars, timerVars
<1>6. CASE UNCHANGED vars
  BY <1>6 DEF vars
<1> QED
  BY <1>1, <1>2, <1>3, <1>4, <1>5, <1>6 DEF Next

\* The state of the lock and of its runs is always one the code knows.
THEOREM TypeCorrect == Spec => []TypeOK
<1>1. Init => TypeOK /\ PhaseInv
  BY TypeInit DEF Init, PhaseInv
<1>2. TypeOK /\ PhaseInv /\ [Next]_vars => (TypeOK /\ PhaseInv)'
  BY TypeStep, PhaseStep
<1> QED
  BY <1>1, <1>2, PTL DEF Spec

-----------------------------------------------------------------------------
(* Safety. *)

\* A lock document tells of one run at most.
LEMMA OwnerFacts ==
  ASSUME TypeOK, NonceInv
  PROVE  /\ lock # NoDoc => lock.nonce \in Nonce /\ lock.age \in 0..(Ttl + 1)
         /\ \A p, q \in Run : Owns(p) /\ Owns(q) => p = q
<1>1. lock # NoDoc => lock.nonce \in Nonce /\ lock.age \in 0..(Ttl + 1)
  BY DEF TypeOK, LockDoc
<1> QED
  BY <1>1, NonceAssumption DEF NonceInv, Owns

\* A renewal and the passing of time leave the document's holder alone.
LEMMA RenewFacts ==
  ASSUME TypeOK, NEW p \in Run, RenewApply(p)
  PROVE  /\ lock = NoDoc <=> lock' = NoDoc
         /\ lock # NoDoc => /\ lock'.nonce = lock.nonce
                            /\ lock'.owner = lock.owner
                            /\ lock'.age \in 0..lock.age
         /\ renewal'[p] = "matched" => Owns(p) /\ lock'.age = 0
         /\ \A q \in Run : q # p => renewal'[q] = renewal[q]
<1> USE DEF TypeOK, LockDoc
<1>1. CASE Owns(p)
  <2>1. lock # NoDoc /\ lock' = [lock EXCEPT !.age = 0]
    BY <1>1 DEF RenewApply, Owns
  <2>2. lock'.nonce = lock.nonce /\ lock'.owner = lock.owner /\ lock'.age = 0
    BY <2>1, TtlAssumption
  <2>3. lock' # NoDoc
    <3>1. lock' \in [nonce: Nonce, owner: {OwnerOf[q] : q \in Run}, age: Nat]
      BY <2>1
    <3> QED
      BY <3>1, NoDocAssumption
  <2> QED
    BY <1>1, <2>1, <2>2, <2>3, TtlAssumption DEF RenewApply
<1>2. CASE ~Owns(p)
  BY <1>2, TtlAssumption DEF RenewApply
<1> QED
  BY <1>1, <1>2

LEMMA TickFacts ==
  ASSUME TypeOK, Tick
  PROVE  /\ lock = NoDoc <=> lock' = NoDoc
         /\ lock # NoDoc => /\ lock'.nonce = lock.nonce
                            /\ lock'.owner = lock.owner
                            /\ lock'.age \in Nat
                            /\ lock'.age <= lock.age + 1
<1> USE TtlAssumption DEF TypeOK, LockDoc
<1>1. CASE lock = NoDoc
  BY <1>1 DEF Tick
<1>2. CASE lock # NoDoc
  <2> DEFINE aged == Smaller(lock.age + 1, Ttl + 1)
  <2>1. aged \in Nat /\ aged <= lock.age + 1
    BY <1>2 DEF Smaller
  <2>2. lock' = [lock EXCEPT !.age = aged]
    BY <1>2 DEF Tick
  <2> HIDE DEF aged
  <2>3. lock' \in [nonce: Nonce, owner: {OwnerOf[q] : q \in Run}, age: Nat]
    BY <1>2, <2>1, <2>2
  <2> QED
    BY <1>2, <2>1, <2>2, <2>3, NoDocAssumption
<1> QED
  BY <1>1, <1>2

\* A nonce is minted once: runs stay apart.
LEMMA NonceStep ==
  TypeOK /\ PhaseInv /\ NonceInv /\ [Next]_vars => NonceInv'
<1> SUFFICES ASSUME TypeOK, PhaseInv, NonceInv, [Next]_vars PROVE NonceInv'
  OBVIOUS
<1> USE OwnerFacts, NonceAssumption, NoDocAssumption
    DEF TypeOK, PhaseInv, NonceInv, Owns
<1>1. ASSUME NEW p \in Run, Acquire(p) PROVE NonceInv'
  <2>1. CASE AcquireSend(p)
    BY <2>1 DEF AcquireSend, FreshNonce, NonceInUse, Holder, acquireVars, timerVars, historyVars
  <2>2. CASE AcquireInsert(p)
    BY <2>2 DEF AcquireInsert, FreshDoc, acquireVars, timerVars, historyVars
  <2>3. CASE AcquireReclaim(p)
    BY <2>3 DEF AcquireReclaim, FreshDoc, Stale, acquireVars, timerVars, historyVars
  <2>4. CASE AcquireKeep(p)
    BY <2>4 DEF AcquireKeep, acquireVars, timerVars, historyVars
  <2>5. CASE AcquireDuplicate(p)
    BY <2>5 DEF AcquireDuplicate, Forget, acquireVars, timerVars, historyVars
  <2>6. CASE AcquireInserted(p)
    BY <2>6 DEF AcquireInserted, BeginHolding, acquireVars, timerVars, historyVars
  <2>7. CASE AcquireConfirmed(p)
    BY <2>7 DEF AcquireConfirmed, BeginHolding, acquireVars, timerVars, historyVars
  <2>8. CASE AcquireRefused(p)
    BY <2>8 DEF AcquireRefused, Forget, acquireVars, timerVars, historyVars
  <2>9. CASE AcquireError(p)
    BY <2>9 DEF AcquireError, Forget, acquireVars, timerVars, historyVars
  <2> QED
    BY <2>1, <2>2, <2>3, <2>4, <2>5, <2>6, <2>7, <2>8, <2>9, <1>1 DEF Acquire
<1>2. ASSUME NEW p \in Run, Guard(p) PROVE NonceInv'
  <2>1. CASE Heartbeat(p)
    BY <2>1 DEF Heartbeat, Beating, acquireVars, timerVars, historyVars
  <2>2. CASE RenewApply(p)
    <3>1. /\ UNCHANGED <<pc, nonce, wait, left, stopped, lost, early, evicted>>
          /\ renewal[p] = "sent"
      BY <2>2 DEF RenewApply, acquireVars, timerVars, historyVars
    <3> QED
      BY <2>2, <3>1, RenewFacts
  <2>3. CASE RenewMatched(p)
    BY <2>3 DEF RenewMatched, acquireVars, timerVars, historyVars
  <2>4. CASE RenewMissed(p)
    BY <2>4 DEF RenewMissed, acquireVars, timerVars, historyVars
  <2>5. CASE RenewError(p)
    BY <2>5 DEF RenewError, acquireVars, timerVars, historyVars
  <2>6. CASE DeadlineFires(p)
    BY <2>6 DEF DeadlineFires, Beating, acquireVars, timerVars, historyVars
  <2> QED
    BY <2>1, <2>2, <2>3, <2>4, <2>5, <2>6, <1>2 DEF Guard
<1>3. ASSUME NEW p \in Run, Finish(p) PROVE NonceInv'
  <2>1. CASE EarlyRelease(p)
    BY <2>1 DEF EarlyRelease, StopHeartbeat, acquireVars, timerVars, historyVars
  <2>2. CASE EarlyDelete(p)
    BY <2>2 DEF EarlyDelete, Released, acquireVars, timerVars, historyVars
  <2>3. CASE EarlyDeleteError(p)
    BY <2>3 DEF EarlyDeleteError, Released, acquireVars, timerVars, historyVars
  <2>4. CASE FnEnds(p)
    BY <2>4 DEF FnEnds, StopHeartbeat, acquireVars, timerVars, historyVars
  <2>5. CASE Release(p)
    BY <2>5 DEF Release, Forget, Released, Settled, acquireVars, timerVars, historyVars
  <2>6. CASE ReleaseError(p)
    BY <2>6 DEF ReleaseError, Forget, Released, Settled, acquireVars, timerVars, historyVars
  <2> QED
    BY <2>1, <2>2, <2>3, <2>4, <2>5, <2>6, <1>3 DEF Finish
<1>4. ASSUME NEW p \in Run, Crash(p) PROVE NonceInv'
  BY <1>4 DEF Crash, Forget
<1>5. CASE ForceRead
  BY <1>5 DEF ForceRead, acquireVars, timerVars, historyVars
<1>6. CASE ForceDelete
  BY <1>6 DEF ForceDelete, acquireVars, timerVars, historyVars
<1>7. CASE Tick
  <2>1. /\ UNCHANGED <<pc, nonce, renewal, stopped, lost, early, evicted>>
        /\ wait' = [q \in Run |-> IF Calling(q) THEN wait[q] + 1 ELSE wait[q]]
        /\ left' = [q \in Run |-> IF Beating(q) /\ left[q] # Disarmed
                                  THEN left[q] - 1 ELSE left[q]]
        /\ \A q \in Run : Beating(q) => left[q] # 0
    BY <1>7 DEF Tick, acquireVars, historyVars
  <2> QED
    BY <1>7, <2>1, TickFacts DEF Calling, Beating
<1>8. CASE UNCHANGED vars
  BY <1>8 DEF vars, acquireVars, timerVars, historyVars
<1> QED
  BY <1>1, <1>2, <1>3, <1>4, <1>5, <1>6, <1>7, <1>8 DEF Next

\* A document an operator deleted does not come back.
LEMMA EvictedStep ==
  TypeOK /\ PhaseInv /\ NonceInv /\ EvictedInv /\ [Next]_vars => EvictedInv'
<1> SUFFICES ASSUME TypeOK, PhaseInv, NonceInv, EvictedInv, [Next]_vars PROVE EvictedInv'
  OBVIOUS
<1> USE OwnerFacts, NonceAssumption, NoDocAssumption
    DEF TypeOK, PhaseInv, NonceInv, EvictedInv, Owns
<1>1. ASSUME NEW p \in Run, Acquire(p) PROVE EvictedInv'
  <2>1. CASE AcquireSend(p)
    BY <2>1 DEF AcquireSend, FreshNonce, NonceInUse, Holder, acquireVars, timerVars, historyVars
  <2>2. CASE AcquireInsert(p)
    BY <2>2 DEF AcquireInsert, FreshDoc, acquireVars, timerVars, historyVars
  <2>3. CASE AcquireReclaim(p)
    BY <2>3 DEF AcquireReclaim, FreshDoc, Stale, acquireVars, timerVars, historyVars
  <2>4. CASE AcquireKeep(p)
    BY <2>4 DEF AcquireKeep, acquireVars, timerVars, historyVars
  <2>5. CASE AcquireDuplicate(p)
    BY <2>5 DEF AcquireDuplicate, Forget, acquireVars, timerVars, historyVars
  <2>6. CASE AcquireInserted(p)
    BY <2>6 DEF AcquireInserted, BeginHolding, acquireVars, timerVars, historyVars
  <2>7. CASE AcquireConfirmed(p)
    BY <2>7 DEF AcquireConfirmed, BeginHolding, acquireVars, timerVars, historyVars
  <2>8. CASE AcquireRefused(p)
    BY <2>8 DEF AcquireRefused, Forget, acquireVars, timerVars, historyVars
  <2>9. CASE AcquireError(p)
    BY <2>9 DEF AcquireError, Forget, acquireVars, timerVars, historyVars
  <2> QED
    BY <2>1, <2>2, <2>3, <2>4, <2>5, <2>6, <2>7, <2>8, <2>9, <1>1 DEF Acquire
<1>2. ASSUME NEW p \in Run, Guard(p) PROVE EvictedInv'
  <2>1. CASE Heartbeat(p)
    BY <2>1 DEF Heartbeat, Beating, acquireVars, timerVars, historyVars
  <2>2. CASE RenewApply(p)
    <3>1. /\ UNCHANGED <<pc, nonce, wait, left, stopped, lost, early, evicted>>
          /\ renewal[p] = "sent"
      BY <2>2 DEF RenewApply, acquireVars, timerVars, historyVars
    <3> QED
      BY <2>2, <3>1, RenewFacts
  <2>3. CASE RenewMatched(p)
    BY <2>3 DEF RenewMatched, acquireVars, timerVars, historyVars
  <2>4. CASE RenewMissed(p)
    BY <2>4 DEF RenewMissed, acquireVars, timerVars, historyVars
  <2>5. CASE RenewError(p)
    BY <2>5 DEF RenewError, acquireVars, timerVars, historyVars
  <2>6. CASE DeadlineFires(p)
    BY <2>6 DEF DeadlineFires, Beating, acquireVars, timerVars, historyVars
  <2> QED
    BY <2>1, <2>2, <2>3, <2>4, <2>5, <2>6, <1>2 DEF Guard
<1>3. ASSUME NEW p \in Run, Finish(p) PROVE EvictedInv'
  <2>1. CASE EarlyRelease(p)
    BY <2>1 DEF EarlyRelease, StopHeartbeat, acquireVars, timerVars, historyVars
  <2>2. CASE EarlyDelete(p)
    BY <2>2 DEF EarlyDelete, Released, acquireVars, timerVars, historyVars
  <2>3. CASE EarlyDeleteError(p)
    BY <2>3 DEF EarlyDeleteError, Released, acquireVars, timerVars, historyVars
  <2>4. CASE FnEnds(p)
    BY <2>4 DEF FnEnds, StopHeartbeat, acquireVars, timerVars, historyVars
  <2>5. CASE Release(p)
    BY <2>5 DEF Release, Forget, Released, Settled, acquireVars, timerVars, historyVars
  <2>6. CASE ReleaseError(p)
    BY <2>6 DEF ReleaseError, Forget, Released, Settled, acquireVars, timerVars, historyVars
  <2> QED
    BY <2>1, <2>2, <2>3, <2>4, <2>5, <2>6, <1>3 DEF Finish
<1>4. ASSUME NEW p \in Run, Crash(p) PROVE EvictedInv'
  BY <1>4 DEF Crash, Forget
<1>5. CASE ForceRead
  BY <1>5 DEF ForceRead, acquireVars, timerVars, historyVars
<1>6. CASE ForceDelete
  BY <1>6 DEF ForceDelete, acquireVars, timerVars, historyVars
<1>7. CASE Tick
  <2>1. /\ UNCHANGED <<pc, nonce, renewal, stopped, lost, early, evicted>>
        /\ wait' = [q \in Run |-> IF Calling(q) THEN wait[q] + 1 ELSE wait[q]]
        /\ left' = [q \in Run |-> IF Beating(q) /\ left[q] # Disarmed
                                  THEN left[q] - 1 ELSE left[q]]
        /\ \A q \in Run : Beating(q) => left[q] # 0
    BY <1>7 DEF Tick, acquireVars, historyVars
  <2> QED
    BY <1>7, <2>1, TickFacts DEF Calling, Beating
<1>8. CASE UNCHANGED vars
  BY <1>8 DEF vars, acquireVars, timerVars, historyVars
<1> QED
  BY <1>1, <1>2, <1>3, <1>4, <1>5, <1>6, <1>7, <1>8 DEF Next

\* A document stays fresh while its run waits for the reply.
LEMMA ReplyStep ==
  TypeOK /\ PhaseInv /\ NonceInv /\ ReplyInv /\ Latency <= Margin /\ [Next]_vars => ReplyInv'
<1> SUFFICES ASSUME TypeOK, PhaseInv, NonceInv, ReplyInv, Latency <= Margin, [Next]_vars PROVE ReplyInv'
  OBVIOUS
<1> USE OwnerFacts, NonceAssumption, NoDocAssumption, TtlAssumption,
        LatencyAssumption, TimerFacts
    DEF TypeOK, PhaseInv, NonceInv, ReplyInv, Owns
<1>1. ASSUME NEW p \in Run, Acquire(p) PROVE ReplyInv'
  <2>1. CASE AcquireSend(p)
    BY <2>1 DEF AcquireSend, FreshNonce, NonceInUse, Holder, acquireVars, timerVars, historyVars
  <2>2. CASE AcquireInsert(p)
    BY <2>2 DEF AcquireInsert, FreshDoc, acquireVars, timerVars, historyVars
  <2>3. CASE AcquireReclaim(p)
    BY <2>3 DEF AcquireReclaim, FreshDoc, Stale, acquireVars, timerVars, historyVars
  <2>4. CASE AcquireKeep(p)
    BY <2>4 DEF AcquireKeep, acquireVars, timerVars, historyVars
  <2>5. CASE AcquireDuplicate(p)
    BY <2>5 DEF AcquireDuplicate, Forget, acquireVars, timerVars, historyVars
  <2>6. CASE AcquireInserted(p)
    BY <2>6 DEF AcquireInserted, BeginHolding, acquireVars, timerVars, historyVars
  <2>7. CASE AcquireConfirmed(p)
    BY <2>7 DEF AcquireConfirmed, BeginHolding, acquireVars, timerVars, historyVars
  <2>8. CASE AcquireRefused(p)
    BY <2>8 DEF AcquireRefused, Forget, acquireVars, timerVars, historyVars
  <2>9. CASE AcquireError(p)
    BY <2>9 DEF AcquireError, Forget, acquireVars, timerVars, historyVars
  <2> QED
    BY <2>1, <2>2, <2>3, <2>4, <2>5, <2>6, <2>7, <2>8, <2>9, <1>1 DEF Acquire
<1>2. ASSUME NEW p \in Run, Guard(p) PROVE ReplyInv'
  <2>1. CASE Heartbeat(p)
    BY <2>1 DEF Heartbeat, Beating, acquireVars, timerVars, historyVars
  <2>2. CASE RenewApply(p)
    <3>1. /\ UNCHANGED <<pc, nonce, wait, left, stopped, lost, early, evicted>>
          /\ renewal[p] = "sent"
      BY <2>2 DEF RenewApply, acquireVars, timerVars, historyVars
    <3> QED
      BY <2>2, <3>1, RenewFacts
  <2>3. CASE RenewMatched(p)
    BY <2>3 DEF RenewMatched, acquireVars, timerVars, historyVars
  <2>4. CASE RenewMissed(p)
    BY <2>4 DEF RenewMissed, acquireVars, timerVars, historyVars
  <2>5. CASE RenewError(p)
    BY <2>5 DEF RenewError, acquireVars, timerVars, historyVars
  <2>6. CASE DeadlineFires(p)
    BY <2>6 DEF DeadlineFires, Beating, acquireVars, timerVars, historyVars
  <2> QED
    BY <2>1, <2>2, <2>3, <2>4, <2>5, <2>6, <1>2 DEF Guard
<1>3. ASSUME NEW p \in Run, Finish(p) PROVE ReplyInv'
  <2>1. CASE EarlyRelease(p)
    BY <2>1 DEF EarlyRelease, StopHeartbeat, acquireVars, timerVars, historyVars
  <2>2. CASE EarlyDelete(p)
    BY <2>2 DEF EarlyDelete, Released, acquireVars, timerVars, historyVars
  <2>3. CASE EarlyDeleteError(p)
    BY <2>3 DEF EarlyDeleteError, Released, acquireVars, timerVars, historyVars
  <2>4. CASE FnEnds(p)
    BY <2>4 DEF FnEnds, StopHeartbeat, acquireVars, timerVars, historyVars
  <2>5. CASE Release(p)
    BY <2>5 DEF Release, Forget, Released, Settled, acquireVars, timerVars, historyVars
  <2>6. CASE ReleaseError(p)
    BY <2>6 DEF ReleaseError, Forget, Released, Settled, acquireVars, timerVars, historyVars
  <2> QED
    BY <2>1, <2>2, <2>3, <2>4, <2>5, <2>6, <1>3 DEF Finish
<1>4. ASSUME NEW p \in Run, Crash(p) PROVE ReplyInv'
  BY <1>4 DEF Crash, Forget
<1>5. CASE ForceRead
  BY <1>5 DEF ForceRead, acquireVars, timerVars, historyVars
<1>6. CASE ForceDelete
  BY <1>6 DEF ForceDelete, acquireVars, timerVars, historyVars
<1>7. CASE Tick
  <2>1. /\ UNCHANGED <<pc, nonce, renewal, stopped, lost, early, evicted>>
        /\ wait' = [q \in Run |-> IF Calling(q) THEN wait[q] + 1 ELSE wait[q]]
        /\ left' = [q \in Run |-> IF Beating(q) /\ left[q] # Disarmed
                                  THEN left[q] - 1 ELSE left[q]]
        /\ \A q \in Run : Beating(q) => left[q] # 0
    BY <1>7 DEF Tick, acquireVars, historyVars
  <2> QED
    BY <1>7, <2>1, TickFacts DEF Calling, Beating
<1>8. CASE UNCHANGED vars
  BY <1>8 DEF vars, acquireVars, timerVars, historyVars
<1> QED
  BY <1>1, <1>2, <1>3, <1>4, <1>5, <1>6, <1>7, <1>8 DEF Next

\* A live run keeps its document: what reclaims it needs it stale.
LEMMA HolderStep ==
  TypeOK /\ PhaseInv /\ NonceInv /\ EvictedInv /\ ReplyInv /\ HolderInv /\ Latency <= Margin /\ [Next]_vars => HolderInv'
<1> SUFFICES ASSUME TypeOK, PhaseInv, NonceInv, EvictedInv, ReplyInv, HolderInv, Latency <= Margin, [Next]_vars PROVE HolderInv'
  OBVIOUS
<1> USE OwnerFacts, NonceAssumption, NoDocAssumption, TtlAssumption,
        LatencyAssumption, TimerFacts
    DEF TypeOK, PhaseInv, NonceInv, EvictedInv, ReplyInv, HolderInv,
        Owns, Live, Beating, Disarmed
<1>1. ASSUME NEW p \in Run, Acquire(p) PROVE HolderInv'
  <2>1. CASE AcquireSend(p)
    BY <2>1 DEF AcquireSend, FreshNonce, NonceInUse, Holder, acquireVars, timerVars, historyVars
  <2>2. CASE AcquireInsert(p)
    BY <2>2 DEF AcquireInsert, FreshDoc, acquireVars, timerVars, historyVars
  <2>3. CASE AcquireReclaim(p)
    BY <2>3 DEF AcquireReclaim, FreshDoc, Stale, acquireVars, timerVars, historyVars
  <2>4. CASE AcquireKeep(p)
    BY <2>4 DEF AcquireKeep, acquireVars, timerVars, historyVars
  <2>5. CASE AcquireDuplicate(p)
    BY <2>5 DEF AcquireDuplicate, Forget, acquireVars, timerVars, historyVars
  <2>6. CASE AcquireInserted(p)
    BY <2>6 DEF AcquireInserted, BeginHolding, acquireVars, timerVars, historyVars
  <2>7. CASE AcquireConfirmed(p)
    BY <2>7 DEF AcquireConfirmed, BeginHolding, acquireVars, timerVars, historyVars
  <2>8. CASE AcquireRefused(p)
    BY <2>8 DEF AcquireRefused, Forget, acquireVars, timerVars, historyVars
  <2>9. CASE AcquireError(p)
    BY <2>9 DEF AcquireError, Forget, acquireVars, timerVars, historyVars
  <2> QED
    BY <2>1, <2>2, <2>3, <2>4, <2>5, <2>6, <2>7, <2>8, <2>9, <1>1 DEF Acquire
<1>2. ASSUME NEW p \in Run, Guard(p) PROVE HolderInv'
  <2>1. CASE Heartbeat(p)
    BY <2>1 DEF Heartbeat, Beating, acquireVars, timerVars, historyVars
  <2>2. CASE RenewApply(p)
    <3>1. /\ UNCHANGED <<pc, nonce, wait, left, stopped, lost, early, evicted>>
          /\ renewal[p] = "sent"
      BY <2>2 DEF RenewApply, acquireVars, timerVars, historyVars
    <3> QED
      BY <2>2, <3>1, RenewFacts
  <2>3. CASE RenewMatched(p)
    BY <2>3 DEF RenewMatched, acquireVars, timerVars, historyVars
  <2>4. CASE RenewMissed(p)
    BY <2>4 DEF RenewMissed, acquireVars, timerVars, historyVars
  <2>5. CASE RenewError(p)
    BY <2>5 DEF RenewError, acquireVars, timerVars, historyVars
  <2>6. CASE DeadlineFires(p)
    BY <2>6 DEF DeadlineFires, Beating, acquireVars, timerVars, historyVars
  <2> QED
    BY <2>1, <2>2, <2>3, <2>4, <2>5, <2>6, <1>2 DEF Guard
<1>3. ASSUME NEW p \in Run, Finish(p) PROVE HolderInv'
  <2>1. CASE EarlyRelease(p)
    BY <2>1 DEF EarlyRelease, StopHeartbeat, acquireVars, timerVars, historyVars
  <2>2. CASE EarlyDelete(p)
    BY <2>2 DEF EarlyDelete, Released, acquireVars, timerVars, historyVars
  <2>3. CASE EarlyDeleteError(p)
    BY <2>3 DEF EarlyDeleteError, Released, acquireVars, timerVars, historyVars
  <2>4. CASE FnEnds(p)
    BY <2>4 DEF FnEnds, StopHeartbeat, acquireVars, timerVars, historyVars
  <2>5. CASE Release(p)
    BY <2>5 DEF Release, Forget, Released, Settled, acquireVars, timerVars, historyVars
  <2>6. CASE ReleaseError(p)
    BY <2>6 DEF ReleaseError, Forget, Released, Settled, acquireVars, timerVars, historyVars
  <2> QED
    BY <2>1, <2>2, <2>3, <2>4, <2>5, <2>6, <1>3 DEF Finish
<1>4. ASSUME NEW p \in Run, Crash(p) PROVE HolderInv'
  BY <1>4 DEF Crash, Forget
<1>5. CASE ForceRead
  BY <1>5 DEF ForceRead, acquireVars, timerVars, historyVars
<1>6. CASE ForceDelete
  BY <1>6 DEF ForceDelete, acquireVars, timerVars, historyVars
<1>7. CASE Tick
  <2>1. /\ UNCHANGED <<pc, nonce, renewal, stopped, lost, early, evicted>>
        /\ wait' = [q \in Run |-> IF Calling(q) THEN wait[q] + 1 ELSE wait[q]]
        /\ left' = [q \in Run |-> IF Beating(q) /\ left[q] # Disarmed
                                  THEN left[q] - 1 ELSE left[q]]
        /\ \A q \in Run : Beating(q) => left[q] # 0
    BY <1>7 DEF Tick, acquireVars, historyVars
  <2> QED
    BY <1>7, <2>1, TickFacts DEF Calling, Beating
<1>8. CASE UNCHANGED vars
  BY <1>8 DEF vars, acquireVars, timerVars, historyVars
<1> QED
  BY <1>1, <1>2, <1>3, <1>4, <1>5, <1>6, <1>7, <1>8 DEF Next

\* Replies that come within the deadline's margin make the lock safe.
THEOREM LockInvariant ==
  ASSUME Latency <= Margin
  PROVE  Spec => []LockInv
<1>1. Init => LockInv
  <2>1. Init => TypeOK /\ PhaseInv
    BY TypeInit DEF Init, PhaseInv
  <2> QED
    BY <2>1 DEF Init, LockInv, NonceInv, EvictedInv, ReplyInv, HolderInv, Owns, Live, Beating
<1>2. LockInv /\ [Next]_vars => LockInv'
  BY TypeStep, PhaseStep, NonceStep, EvictedStep, ReplyStep, HolderStep DEF LockInv
<1> QED
  BY <1>1, <1>2, PTL DEF Spec

\* Mutual exclusion: two runs never both believe they hold the lock, unless
\* an operator deleted the document of one of them.
THEOREM MutualExclusion ==
  ASSUME Latency <= Margin
  PROVE  Spec => []HolderExclusive
<1>1. LockInv => HolderExclusive
  BY OwnerFacts DEF LockInv, HolderInv, HolderExclusive
<1> QED
  BY <1>1, LockInvariant, PTL

\* The deadline goes off strictly before the lock becomes reclaimable.
THEOREM DeadlineFirst ==
  ASSUME Latency <= Margin
  PROVE  Spec => []DeadlineBeatsReclaim
<1>1. LockInv => DeadlineBeatsReclaim
  BY OwnerFacts, TimerFacts, LatencyAssumption, TtlAssumption
  DEF LockInv, HolderInv, DeadlineBeatsReclaim, Stale, Owns, TypeOK, Disarmed
<1> QED
  BY <1>1, LockInvariant, PTL

\* No step takes a fresh document from its run, whatever the latency.
LEMMA FreshStep == TypeOK /\ [Next]_vars => FreshKept
<1> SUFFICES ASSUME TypeOK, [Next]_vars PROVE FreshKept
  OBVIOUS
<1> USE DEF FreshKept, Holder, Stale
<1>1. ASSUME NEW p \in Run, Acquire(p) PROVE FreshKept
  <2>1. CASE AcquireSend(p)
    BY <2>1 DEF AcquireSend, FreshNonce, NonceInUse, Holder, acquireVars, timerVars, historyVars
  <2>2. CASE AcquireInsert(p)
    BY <2>2 DEF AcquireInsert, FreshDoc, acquireVars, timerVars, historyVars
  <2>3. CASE AcquireReclaim(p)
    BY <2>3 DEF AcquireReclaim, FreshDoc, Stale, acquireVars, timerVars, historyVars
  <2>4. CASE AcquireKeep(p)
    BY <2>4 DEF AcquireKeep, acquireVars, timerVars, historyVars
  <2>5. CASE AcquireDuplicate(p)
    BY <2>5 DEF AcquireDuplicate, Forget, acquireVars, timerVars, historyVars
  <2>6. CASE AcquireInserted(p)
    BY <2>6 DEF AcquireInserted, BeginHolding, acquireVars, timerVars, historyVars
  <2>7. CASE AcquireConfirmed(p)
    BY <2>7 DEF AcquireConfirmed, BeginHolding, acquireVars, timerVars, historyVars
  <2>8. CASE AcquireRefused(p)
    BY <2>8 DEF AcquireRefused, Forget, acquireVars, timerVars, historyVars
  <2>9. CASE AcquireError(p)
    BY <2>9 DEF AcquireError, Forget, acquireVars, timerVars, historyVars
  <2> QED
    BY <2>1, <2>2, <2>3, <2>4, <2>5, <2>6, <2>7, <2>8, <2>9, <1>1 DEF Acquire
<1>2. ASSUME NEW p \in Run, Guard(p) PROVE FreshKept
  <2>1. CASE Heartbeat(p)
    BY <2>1 DEF Heartbeat, Beating, acquireVars, timerVars, historyVars
  <2>2. CASE RenewApply(p)
    BY <2>2, RenewFacts
  <2>3. CASE RenewMatched(p)
    BY <2>3 DEF RenewMatched, acquireVars, timerVars, historyVars
  <2>4. CASE RenewMissed(p)
    BY <2>4 DEF RenewMissed, acquireVars, timerVars, historyVars
  <2>5. CASE RenewError(p)
    BY <2>5 DEF RenewError, acquireVars, timerVars, historyVars
  <2>6. CASE DeadlineFires(p)
    BY <2>6 DEF DeadlineFires, Beating, acquireVars, timerVars, historyVars
  <2> QED
    BY <2>1, <2>2, <2>3, <2>4, <2>5, <2>6, <1>2 DEF Guard
<1>3. ASSUME NEW p \in Run, Finish(p) PROVE FreshKept
  <2>1. CASE EarlyRelease(p)
    BY <2>1 DEF EarlyRelease, StopHeartbeat, acquireVars, timerVars, historyVars
  <2>2. CASE EarlyDelete(p)
    BY <2>2 DEF EarlyDelete, Owns, Released, acquireVars, timerVars, historyVars
  <2>3. CASE EarlyDeleteError(p)
    BY <2>3 DEF EarlyDeleteError, Owns, Released, acquireVars, timerVars, historyVars
  <2>4. CASE FnEnds(p)
    BY <2>4 DEF FnEnds, StopHeartbeat, acquireVars, timerVars, historyVars
  <2>5. CASE Release(p)
    BY <2>5 DEF Release, Owns, Forget, Released, Settled, acquireVars, timerVars, historyVars
  <2>6. CASE ReleaseError(p)
    BY <2>6 DEF ReleaseError, Owns, Forget, Released, Settled, acquireVars, timerVars, historyVars
  <2> QED
    BY <2>1, <2>2, <2>3, <2>4, <2>5, <2>6, <1>3 DEF Finish
<1>4. ASSUME NEW p \in Run, Crash(p) PROVE FreshKept
  BY <1>4 DEF Crash, Forget
<1>5. CASE ForceRead
  BY <1>5 DEF ForceRead, acquireVars, timerVars, historyVars
<1>6. CASE ForceDelete
  BY <1>6 DEF ForceDelete, acquireVars, timerVars, historyVars
<1>7. CASE Tick
  BY <1>7, TickFacts
<1>8. CASE UNCHANGED vars
  BY <1>8 DEF vars, acquireVars, timerVars, historyVars
<1> QED
  BY <1>1, <1>2, <1>3, <1>4, <1>5, <1>6, <1>7, <1>8 DEF Next

\* A fresh document goes only with its own run's release or an operator.
THEOREM FreshLockSafe == Spec => FreshLockUntouched
<1>1. TypeOK /\ [Next]_vars => [FreshKept]_vars
  BY FreshStep
<1>2. Spec => [][FreshKept]_vars
  BY <1>1, TypeCorrect, PTL DEF Spec
<1> QED
  BY <1>2, PTL DEF FreshLockUntouched

-----------------------------------------------------------------------------
(* A healthy run keeps its lock. *)

\* A step that leaves what a run is told, its timers and its history alone
\* keeps what is said of them.
LEMMA HealthyKept ==
  ASSUME HealthyInv,
         UNCHANGED <<wait, renewal, beat, left, stopped, lost, evicted, troubled>>,
         \A p \in Run : pc'[p] \in {"held", "ending"} => pc'[p] = pc[p]
  PROVE  HealthyKeepsLock' /\ OutpacedInv' /\ ToldInv'
  BY DEF HealthyInv, HealthyKeepsLock, OutpacedInv, ToldInv, LockInv, TypeOK, Live, Beating

\* A step after which nothing is left of p's run keeps it, too.
LEMMA HealthyForgotten ==
  ASSUME HealthyInv, NEW p \in Run, Forget(p)
  PROVE  HealthyKeepsLock' /\ OutpacedInv' /\ ToldInv'
  BY DEF HealthyInv, HealthyKeepsLock, OutpacedInv, ToldInv, LockInv, TypeOK, Live, Beating, Forget

\* The heartbeat outpaces the deadline when an interval and a latency fit in it.
LEMMA HealthyStep ==
  ASSUME Interval + Latency < DeadlineAfter, HealthyInv, [Next]_vars
  PROVE  HealthyKeepsLock' /\ OutpacedInv' /\ ToldInv'
<1> DEFINE Goal == HealthyKeepsLock' /\ OutpacedInv' /\ ToldInv'
<1> USE TimerFacts, LatencyAssumption
<1> USE DEF HealthyInv, HealthyKeepsLock, OutpacedInv, ToldInv, LockInv, TypeOK, Disarmed, Live, Beating
<1>1. ASSUME NEW p \in Run, Acquire(p) PROVE Goal
  <2>1. CASE AcquireSend(p)
    BY <2>1, HealthyKept DEF AcquireSend, acquireVars, timerVars, historyVars
  <2>2. CASE AcquireInsert(p)
    BY <2>2, HealthyKept DEF AcquireInsert, acquireVars, timerVars, historyVars
  <2>3. CASE AcquireReclaim(p)
    BY <2>3, HealthyKept DEF AcquireReclaim, acquireVars, timerVars, historyVars
  <2>4. CASE AcquireKeep(p)
    BY <2>4, HealthyKept DEF AcquireKeep, acquireVars, timerVars, historyVars
  <2>5. CASE AcquireDuplicate(p)
    BY <2>5, HealthyForgotten DEF AcquireDuplicate
  <2>6. CASE AcquireInserted(p)
    BY <2>6 DEF AcquireInserted, BeginHolding, PhaseInv, HolderInv, acquireVars, timerVars, historyVars
  <2>7. CASE AcquireConfirmed(p)
    BY <2>7 DEF AcquireConfirmed, BeginHolding, PhaseInv, HolderInv, acquireVars, timerVars, historyVars
  <2>8. CASE AcquireRefused(p)
    BY <2>8, HealthyForgotten DEF AcquireRefused
  <2>9. CASE AcquireError(p)
    BY <2>9, HealthyForgotten DEF AcquireError
  <2> QED
    BY <2>1, <2>2, <2>3, <2>4, <2>5, <2>6, <2>7, <2>8, <2>9, <1>1 DEF Acquire
<1>2. ASSUME NEW p \in Run, Guard(p) PROVE Goal
  <2>1. CASE Heartbeat(p)
    BY <2>1 DEF Heartbeat, PhaseInv, HolderInv, acquireVars, timerVars, historyVars
  <2>2. CASE RenewApply(p)
    BY <2>2 DEF RenewApply, PhaseInv, HolderInv, acquireVars, timerVars, historyVars
  <2>3. CASE RenewMatched(p)
    BY <2>3 DEF RenewMatched, PhaseInv, HolderInv, acquireVars, timerVars, historyVars
  <2>4. CASE RenewMissed(p)
    BY <2>4 DEF RenewMissed, PhaseInv, HolderInv, acquireVars, timerVars, historyVars
  <2>5. CASE RenewError(p)
    BY <2>5 DEF RenewError, PhaseInv, HolderInv, acquireVars, timerVars, historyVars
  <2>6. CASE DeadlineFires(p)
    BY <2>6 DEF DeadlineFires, PhaseInv, HolderInv, acquireVars, timerVars, historyVars
  <2> QED
    BY <2>1, <2>2, <2>3, <2>4, <2>5, <2>6, <1>2 DEF Guard
<1>3. ASSUME NEW p \in Run, Finish(p) PROVE Goal
  <2>1. CASE EarlyRelease(p)
    BY <2>1 DEF EarlyRelease, StopHeartbeat, PhaseInv, HolderInv, acquireVars, timerVars, historyVars
  <2>2. CASE EarlyDelete(p)
    BY <2>2, HealthyKept DEF EarlyDelete, acquireVars, timerVars, historyVars
  <2>3. CASE EarlyDeleteError(p)
    BY <2>3, HealthyKept DEF EarlyDeleteError, acquireVars, timerVars, historyVars
  <2>4. CASE FnEnds(p)
    BY <2>4 DEF FnEnds, StopHeartbeat, PhaseInv, HolderInv, acquireVars, timerVars, historyVars
  <2>5. CASE Release(p)
    BY <2>5, HealthyForgotten DEF Release
  <2>6. CASE ReleaseError(p)
    BY <2>6, HealthyForgotten DEF ReleaseError
  <2> QED
    BY <2>1, <2>2, <2>3, <2>4, <2>5, <2>6, <1>3 DEF Finish
<1>4. ASSUME NEW p \in Run, Crash(p) PROVE Goal
  BY <1>4, HealthyForgotten DEF Crash
<1>5. CASE ForceRead
  BY <1>5, HealthyKept DEF ForceRead, acquireVars, timerVars, historyVars
<1>6. CASE ForceDelete
  BY <1>6 DEF ForceDelete, acquireVars, timerVars, historyVars
<1>7. CASE Tick
  BY <1>7 DEF Tick, Calling, acquireVars, historyVars
<1>8. CASE UNCHANGED vars
  BY <1>8, HealthyKept DEF vars, acquireVars, timerVars, historyVars
<1> QED
  BY <1>1, <1>2, <1>3, <1>4, <1>5, <1>6, <1>7, <1>8 DEF Next

\* A run whose renewals succeed and whose document nobody deletes is never
\* told that it lost the lock, when replies come soon enough.
THEOREM HealthyNeverLost ==
  ASSUME Latency <= Margin, Interval + Latency < DeadlineAfter
  PROVE  Spec => []HealthyKeepsLock
<1>1. Init => HealthyKeepsLock /\ OutpacedInv /\ ToldInv
  BY DEF Init, HealthyKeepsLock, OutpacedInv, ToldInv, Live, Beating
<1>2. LockInv /\ HealthyKeepsLock /\ OutpacedInv /\ ToldInv /\ [Next]_vars
        => HealthyKeepsLock' /\ OutpacedInv' /\ ToldInv'
  BY HealthyStep DEF HealthyInv
<1> QED
  BY <1>1, <1>2, LockInvariant, PTL DEF Spec

-----------------------------------------------------------------------------
(* The lock implements the exclusive lease. *)

LeaseStep == [Lease!Next]_(Lease!leaseVars)

\* A step that changes nobody's standing is a stuttering step of the lease.
LEMMA Staying ==
  ASSUME \A q \in Run : (Live(q)' <=> Live(q)) /\ (evicted'[q] <=> evicted[q])
  PROVE  LeaseStep
<1>1. {q \in Run : Live(q)}' = {q \in Run : Live(q)}
  OBVIOUS
<1>2. {q \in Run : Live(q) /\ evicted[q]}' = {q \in Run : Live(q) /\ evicted[q]}
  OBVIOUS
<1> QED
  BY <1>1, <1>2 DEF LeaseStep, Lease!leaseVars

\* A step after which p alone holds nothing any more is p leaving the lease,
\* if it held it, or a stuttering step.
LEMMA Leaving ==
  ASSUME NEW p \in Run, ~Live(p)',
         \A q \in Run : q # p => (Live(q)' <=> Live(q)) /\ (evicted'[q] <=> evicted[q])
  PROVE  LeaseStep
<1> DEFINE H == {q \in Run : Live(q)}
           R == {q \in Run : Live(q) /\ evicted[q]}
<1>1. H' = H \ {p} /\ R' = R \ {p}
  OBVIOUS
<1>2. CASE Live(p)
  <2>1. Lease!Leave(p)
    BY <1>1, <1>2 DEF Lease!Leave
  <2> QED
    BY <2>1 DEF LeaseStep, Lease!Next
<1>3. CASE ~Live(p)
  <2>1. H' = H /\ R' = R
    BY <1>1, <1>3
  <2> QED
    BY <2>1 DEF LeaseStep, Lease!leaseVars
<1> QED
  BY <1>2, <1>3

\* An acquire that ends well is a run taking the lease.
LEMMA Taking ==
  ASSUME LockInv, NEW p \in Run, AcquireInserted(p) \/ AcquireConfirmed(p)
  PROVE  LeaseStep
<1> USE DEF LockInv, TypeOK
<1> DEFINE H == {q \in Run : Live(q)}
           R == {q \in Run : Live(q) /\ evicted[q]}
<1>1. /\ pc' = [pc EXCEPT ![p] = "held"] /\ pc[p] \in {"inserted", "readback"}
      /\ UNCHANGED <<stopped, lost, evicted>>
  BY DEF AcquireInserted, AcquireConfirmed, BeginHolding, historyVars
<1>2. evicted[p] \/ Owns(p)
  BY DEF AcquireInserted, AcquireConfirmed, ReplyInv
<1>3. ~Live(p) /\ \A q \in Run : q # p => (Live(q)' <=> Live(q))
  BY <1>1 DEF Live, Beating
<1>4. CASE ~Live(p)'
  BY <1>1, <1>3, <1>4, Leaving
<1>5. CASE Live(p)'
  <2>1. H' = H \cup {p} /\ p \notin H
    BY <1>3, <1>5
  <2>2. CASE evicted[p]
    <3>1. R' = R \cup {p}
      BY <1>1, <1>3, <1>5, <2>2
    <3> QED
      BY <2>1, <3>1 DEF LeaseStep, Lease!Next, Lease!Take
  <2>3. CASE ~evicted[p]
    <3>1. R' = R
      BY <1>1, <1>3, <2>3
    <3>2. H \subseteq R
      BY <1>2, <1>3, <2>3, OwnerFacts DEF HolderInv
    <3> QED
      BY <2>1, <3>1, <3>2 DEF LeaseStep, Lease!Next, Lease!Take
  <2> QED
    BY <2>2, <2>3
<1> QED
  BY <1>4, <1>5

\* An operator's delete revokes the lease of the run that owns the document.
LEMMA Revoking ==
  ASSUME LockInv, ForceDelete
  PROVE  LeaseStep
<1> USE DEF LockInv, TypeOK
<1> DEFINE H == {q \in Run : Live(q)}
           R == {q \in Run : Live(q) /\ evicted[q]}
<1>1. /\ \A q \in Run : Live(q)' <=> Live(q)
      /\ evicted' = [q \in Run |-> evicted[q] \/ Owns(q)]
  BY DEF ForceDelete, acquireVars, timerVars, Live, Beating
<1>2. CASE \E p \in Run : Owns(p) /\ Live(p)
  <2>1. PICK p \in Run : Owns(p) /\ Live(p)
    BY <1>2
  <2>2. \A q \in Run : Owns(q) => q = p
    BY <2>1, OwnerFacts
  <2>3. ~evicted[p]
    BY <2>1 DEF EvictedInv
  <2>4. H' = H /\ R' = R \cup {p} /\ p \in H \ R
    BY <1>1, <2>1, <2>2, <2>3
  <2> QED
    BY <2>4 DEF LeaseStep, Lease!Next, Lease!Revoke
<1>3. CASE ~\E p \in Run : Owns(p) /\ Live(p)
  <2>1. H' = H /\ R' = R
    BY <1>1, <1>3
  <2> QED
    BY <2>1 DEF LeaseStep, Lease!leaseVars
<1> QED
  BY <1>2, <1>3

\* Every step of the lock is a step of the lease, or none.
LEMMA LeaseSteps == LockInv /\ [Next]_vars => LeaseStep
<1> SUFFICES ASSUME LockInv, [Next]_vars PROVE LeaseStep
  OBVIOUS
<1> USE DEF LockInv, TypeOK, Live, Beating
<1>1. ASSUME NEW p \in Run, Acquire(p) PROVE LeaseStep
  <2>1. CASE AcquireSend(p)
    <3>1. \A q \in Run : (Live(q)' <=> Live(q)) /\ (evicted'[q] <=> evicted[q])
      BY <2>1 DEF AcquireSend, acquireVars, timerVars, historyVars
    <3> QED
      BY <3>1, Staying
  <2>2. CASE AcquireInsert(p)
    <3>1. \A q \in Run : (Live(q)' <=> Live(q)) /\ (evicted'[q] <=> evicted[q])
      BY <2>2 DEF AcquireInsert, acquireVars, timerVars, historyVars
    <3> QED
      BY <3>1, Staying
  <2>3. CASE AcquireReclaim(p)
    <3>1. \A q \in Run : (Live(q)' <=> Live(q)) /\ (evicted'[q] <=> evicted[q])
      BY <2>3 DEF AcquireReclaim, acquireVars, timerVars, historyVars
    <3> QED
      BY <3>1, Staying
  <2>4. CASE AcquireKeep(p)
    <3>1. \A q \in Run : (Live(q)' <=> Live(q)) /\ (evicted'[q] <=> evicted[q])
      BY <2>4 DEF AcquireKeep, acquireVars, timerVars, historyVars
    <3> QED
      BY <3>1, Staying
  <2>5. CASE AcquireDuplicate(p)
    <3>1. ~Live(p)' /\ \A q \in Run :
            q # p => (Live(q)' <=> Live(q)) /\ (evicted'[q] <=> evicted[q])
      BY <2>5 DEF AcquireDuplicate, Forget, acquireVars, timerVars, historyVars
    <3> QED
      BY <3>1, Leaving
  <2>6. CASE AcquireInserted(p)
    BY <2>6, Taking
  <2>7. CASE AcquireConfirmed(p)
    BY <2>7, Taking
  <2>8. CASE AcquireRefused(p)
    <3>1. ~Live(p)' /\ \A q \in Run :
            q # p => (Live(q)' <=> Live(q)) /\ (evicted'[q] <=> evicted[q])
      BY <2>8 DEF AcquireRefused, Forget, acquireVars, timerVars, historyVars
    <3> QED
      BY <3>1, Leaving
  <2>9. CASE AcquireError(p)
    <3>1. ~Live(p)' /\ \A q \in Run :
            q # p => (Live(q)' <=> Live(q)) /\ (evicted'[q] <=> evicted[q])
      BY <2>9 DEF AcquireError, Forget, acquireVars, timerVars, historyVars
    <3> QED
      BY <3>1, Leaving
  <2> QED
    BY <2>1, <2>2, <2>3, <2>4, <2>5, <2>6, <2>7, <2>8, <2>9, <1>1 DEF Acquire
<1>2. ASSUME NEW p \in Run, Guard(p) PROVE LeaseStep
  <2>1. CASE Heartbeat(p)
    <3>1. \A q \in Run : (Live(q)' <=> Live(q)) /\ (evicted'[q] <=> evicted[q])
      BY <2>1 DEF Heartbeat, acquireVars, timerVars, historyVars
    <3> QED
      BY <3>1, Staying
  <2>2. CASE RenewApply(p)
    <3>1. \A q \in Run : (Live(q)' <=> Live(q)) /\ (evicted'[q] <=> evicted[q])
      BY <2>2 DEF RenewApply, acquireVars, timerVars, historyVars
    <3> QED
      BY <3>1, Staying
  <2>3. CASE RenewMatched(p)
    <3>1. \A q \in Run : (Live(q)' <=> Live(q)) /\ (evicted'[q] <=> evicted[q])
      BY <2>3 DEF RenewMatched, acquireVars, timerVars, historyVars
    <3> QED
      BY <3>1, Staying
  <2>4. CASE RenewMissed(p)
    <3>1. \A q \in Run : q # p => (Live(q)' <=> Live(q)) /\ (evicted'[q] <=> evicted[q])
      BY <2>4 DEF RenewMissed, acquireVars, timerVars, historyVars
    <3>2. ~Live(p)'
      BY <2>4 DEF RenewMissed, acquireVars, timerVars, historyVars
    <3> QED
      BY <3>1, <3>2, Leaving
  <2>5. CASE RenewError(p)
    <3>1. \A q \in Run : (Live(q)' <=> Live(q)) /\ (evicted'[q] <=> evicted[q])
      BY <2>5 DEF RenewError, acquireVars, timerVars, historyVars
    <3> QED
      BY <3>1, Staying
  <2>6. CASE DeadlineFires(p)
    <3>1. ~Live(p)' /\ \A q \in Run :
            q # p => (Live(q)' <=> Live(q)) /\ (evicted'[q] <=> evicted[q])
      BY <2>6 DEF DeadlineFires, acquireVars, timerVars, historyVars
    <3> QED
      BY <3>1, Leaving
  <2> QED
    BY <2>1, <2>2, <2>3, <2>4, <2>5, <2>6, <1>2 DEF Guard
<1>3. ASSUME NEW p \in Run, Finish(p) PROVE LeaseStep
  <2>1. CASE EarlyRelease(p)
    <3>1. ~Live(p)' /\ \A q \in Run :
            q # p => (Live(q)' <=> Live(q)) /\ (evicted'[q] <=> evicted[q])
      BY <2>1 DEF EarlyRelease, StopHeartbeat, acquireVars, timerVars, historyVars
    <3> QED
      BY <3>1, Leaving
  <2>2. CASE EarlyDelete(p)
    <3>1. \A q \in Run : (Live(q)' <=> Live(q)) /\ (evicted'[q] <=> evicted[q])
      BY <2>2 DEF EarlyDelete, acquireVars, timerVars, historyVars
    <3> QED
      BY <3>1, Staying
  <2>3. CASE EarlyDeleteError(p)
    <3>1. \A q \in Run : (Live(q)' <=> Live(q)) /\ (evicted'[q] <=> evicted[q])
      BY <2>3 DEF EarlyDeleteError, acquireVars, timerVars, historyVars
    <3> QED
      BY <3>1, Staying
  <2>4. CASE FnEnds(p)
    <3>1. ~Live(p)' /\ \A q \in Run :
            q # p => (Live(q)' <=> Live(q)) /\ (evicted'[q] <=> evicted[q])
      BY <2>4 DEF FnEnds, StopHeartbeat, acquireVars, timerVars, historyVars
    <3> QED
      BY <3>1, Leaving
  <2>5. CASE Release(p)
    <3>1. ~Live(p)' /\ \A q \in Run :
            q # p => (Live(q)' <=> Live(q)) /\ (evicted'[q] <=> evicted[q])
      BY <2>5 DEF Release, Forget, acquireVars, timerVars, historyVars
    <3> QED
      BY <3>1, Leaving
  <2>6. CASE ReleaseError(p)
    <3>1. ~Live(p)' /\ \A q \in Run :
            q # p => (Live(q)' <=> Live(q)) /\ (evicted'[q] <=> evicted[q])
      BY <2>6 DEF ReleaseError, Forget, acquireVars, timerVars, historyVars
    <3> QED
      BY <3>1, Leaving
  <2> QED
    BY <2>1, <2>2, <2>3, <2>4, <2>5, <2>6, <1>3 DEF Finish
<1>4. ASSUME NEW p \in Run, Crash(p) PROVE LeaseStep
  <2>1. ~Live(p)' /\ \A q \in Run :
          q # p => (Live(q)' <=> Live(q)) /\ (evicted'[q] <=> evicted[q])
    BY <1>4 DEF Crash, Forget
  <2> QED
    BY <2>1, Leaving
<1>5. CASE ForceDelete
  BY <1>5, Revoking
<1>6. CASE ForceRead \/ Tick \/ UNCHANGED vars
  <2>1. \A q \in Run : (Live(q)' <=> Live(q)) /\ (evicted'[q] <=> evicted[q])
    BY <1>6 DEF ForceRead, Tick, vars, acquireVars, timerVars, historyVars
  <2> QED
    BY <2>1, Staying
<1> QED
  BY <1>1, <1>2, <1>3, <1>4, <1>5, <1>6 DEF Next

\* The lock, with its latencies, timers and crashes, is an exclusive lease.
THEOREM LockIsLease ==
  ASSUME Latency <= Margin
  PROVE  Spec => ImplementsLease
<1>1. Init => Lease!Init
  BY DEF Init, Lease!Init, Live, Beating
<1>2. LockInv /\ [Next]_vars => [Lease!Next]_(Lease!leaseVars)
  BY LeaseSteps DEF LeaseStep
<1> QED
  BY <1>1, <1>2, LockInvariant, PTL DEF Spec, ImplementsLease, Lease!Spec
=============================================================================
