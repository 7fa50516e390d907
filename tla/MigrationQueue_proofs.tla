------------------------- MODULE MigrationQueue_proofs -------------------------
(***************************************************************************)
(* Proofs about the queue of migrations and the queue of the background    *)
(* migrations beside it, for any number of processes, files and faults:    *)
(* what is applied are always the first migrations and no others, no       *)
(* deduplication key is on two live jobs, and no two coordinator chains    *)
(* share a round.                                                          *)
(***************************************************************************)
EXTENDS MigrationQueue, FiniteSetTheorems, FunctionTheorems, SequenceTheorems, WellFoundedInduction,
        TLAPS

-----------------------------------------------------------------------------
(* The background queue: its coordinators and their rounds.                *)

\* The rounds that a coordinator knows, or carries in its data.
Rounds(j) == {j.mem, j.round} \ {0}

\* A round belongs to one chain, and is not newer than the last one handed out.
CoordsInv ==
  /\ coord \in [Bg -> [Keys -> CoordJob]]
  /\ \A m \in Bg, k \in Keys :
       /\ coord[m][k].tries < MaxTries
       /\ \A r \in Rounds(coord[m][k]) :
            r <= round[m] /\ \A q \in Keys \ {k} : r \notin Rounds(coord[m][q])

\* Who holds a lease is at work.
GoodLane(l) == l \in LaneJob /\ (l.busy => l.at = "active" /\ l.by # NoPod)

LanesInv == IsFiniteSet(lanes) /\ \A l \in lanes : GoodLane(l)

\* No more leases than slots, those of the dead among them.
LeasesInv == dead \in [Bg -> Nat] /\ \A m \in Bg : Leases(m) <= Slots

BackTypes ==
  /\ children \in Children
  /\ svc \in [Pod -> {"off", "up", "closing"}]
  /\ bstat \in [Bg -> {"none", "running", "completed"}]
  /\ left \in [Bg -> 0..Slices]
  /\ round \in [Bg -> 0..MaxRounds]
  /\ quiet \in [Bg -> BOOLEAN]
  /\ trouble \in 0..MaxTrouble

BackInv == BackTypes /\ CoordsInv /\ LanesInv /\ LeasesInv

LEMMA Bounds ==
  /\ Slices \in Nat \ {0} /\ Slots \in Nat \ {0} /\ MaxTries \in Nat \ {0}
  /\ MaxStalls \in Nat /\ MaxRetries \in Nat /\ MaxRounds \in Nat /\ MaxSpawns \in Nat
  /\ MaxTrouble \in Nat /\ Children \subseteq BOOLEAN /\ PlainKey \in Keys
BY QueueAssumption DEF Keys, PlainKey

\* A finite set has finitely many images.
LEMMA FiniteImage ==
  ASSUME NEW S, IsFiniteSet(S), NEW f, DOMAIN f = S
  PROVE  IsFiniteSet({f[x] : x \in S})
<1> DEFINE T == {f[x] : x \in S}
           g == [x \in S |-> f[x]]
<1>1. g \in Surjection(S, T) BY DEF Surjection
<1>2. g \in [S -> T] /\ \E h : h \in Surjection(S, T) BY <1>1
<1> QED BY <1>2, FS_Surjection DEF ExistsSurjection

-----------------------------------------------------------------------------
(* Coordinators.                                                           *)

LEMMA JobFacts ==
  /\ NoCoord \in CoordJob /\ NoCoord.tries = 0 /\ Rounds(NoCoord) = {} /\ NoCoord.at = "none"
  /\ Queued \in CoordJob /\ Queued.tries = 0 /\ Rounds(Queued) = {}
<1>1. NoCoord \in CoordJob BY Bounds DEF NoCoord, CoordJob
<1>2. PICK j \in CoordJob : j = NoCoord BY <1>1
<1>3. [j EXCEPT !.at = "wait"] \in CoordJob BY DEF CoordJob
<1>4. Queued \in CoordJob BY <1>2, <1>3 DEF Queued
<1>5. NoCoord.tries = 0 /\ NoCoord.mem = 0 /\ NoCoord.round = 0 /\ NoCoord.at = "none" BY DEF NoCoord
<1>6. Queued.tries = 0 /\ Queued.mem = 0 /\ Queued.round = 0 BY DEF Queued, NoCoord
<1> QED BY <1>1, <1>4, <1>5, <1>6 DEF Rounds

\* Coordinators keep the rounds they have, but for one that gets a new one.
LEMMA RoundsGo ==
  ASSUME CoordsInv, round \in [Bg -> 0..MaxRounds], round' \in [Bg -> 0..MaxRounds],
         coord' \in [Bg -> [Keys -> CoordJob]],
         \A m \in Bg : round[m] <= round'[m],
         \A m \in Bg, k \in Keys : coord'[m][k].tries < MaxTries,
         \A m \in Bg, k \in Keys : \A r \in Rounds(coord'[m][k]) :
           \/ r \in Rounds(coord[m][k])
           \/ /\ round[m] < r /\ r <= round'[m]
              /\ \A q \in Keys \ {k} : Rounds(coord'[m][q]) \subseteq Rounds(coord[m][q])
  PROVE  CoordsInv'
<1>1. SUFFICES ASSUME NEW m \in Bg, NEW k \in Keys, NEW r \in Rounds(coord'[m][k])
               PROVE  r <= round'[m] /\ \A q \in Keys \ {k} : r \notin Rounds(coord'[m][q])
  BY DEF CoordsInv
<1>2. round[m] \in Nat /\ round'[m] \in Nat BY Bounds
<1>3. \A q \in Keys : Rounds(coord[m][q]) \subseteq Nat /\ \A s \in Rounds(coord[m][q]) : s <= round[m]
  BY Bounds DEF CoordsInv, Rounds, CoordJob
<1>4. \A q \in Keys : Rounds(coord'[m][q]) \subseteq Nat BY Bounds DEF Rounds, CoordJob
<1>5. CASE r \in Rounds(coord[m][k])
  <2>1. r \in Nat /\ r <= round[m] BY <1>3, <1>5
  <2>2. r <= round'[m] BY <1>2, <2>1
  <2>3. ASSUME NEW q \in Keys \ {k}, r \in Rounds(coord'[m][q]) PROVE FALSE
    <3>1. r \notin Rounds(coord[m][q]) BY <1>5 DEF CoordsInv
    <3>2. round[m] < r BY <2>3, <3>1
    <3> QED BY <1>2, <2>1, <3>2
  <2> QED BY <2>2, <2>3
<1>6. CASE r \notin Rounds(coord[m][k])
  <2>1. /\ round[m] < r /\ r <= round'[m]
        /\ \A q \in Keys \ {k} : Rounds(coord'[m][q]) \subseteq Rounds(coord[m][q])
    BY <1>6
  <2>2. ASSUME NEW q \in Keys \ {k}, r \in Rounds(coord'[m][q]) PROVE FALSE
    <3>1. r \in Nat /\ r <= round[m] BY <1>3, <2>1, <2>2
    <3> QED BY <1>2, <2>1, <3>1
  <2> QED BY <2>1, <2>2
<1> QED BY <1>5, <1>6

\* One coordinator goes on with what it had, or with less of it.
LEMMA CoordSet ==
  ASSUME CoordsInv, round \in [Bg -> 0..MaxRounds], UNCHANGED round,
         NEW m \in Bg, NEW k \in Keys, NEW j \in CoordJob, j.tries < MaxTries,
         Rounds(j) \subseteq Rounds(coord[m][k]), SetCoord(m, k, j)
  PROVE  CoordsInv'
<1>1. coord \in [Bg -> [Keys -> CoordJob]] /\ coord' = [coord EXCEPT ![m][k] = j]
  BY DEF CoordsInv, SetCoord
<1>2. coord' \in [Bg -> [Keys -> CoordJob]] BY <1>1
<1>3. \A n \in Bg, q \in Keys :
        coord'[n][q] = coord[n][q] \/ (n = m /\ q = k /\ coord'[n][q] = j)
  BY <1>1
<1>4. \A n \in Bg, q \in Keys : coord'[n][q].tries < MaxTries BY <1>3 DEF CoordsInv
<1>5. \A n \in Bg, q \in Keys : Rounds(coord'[n][q]) \subseteq Rounds(coord[n][q]) BY <1>3
<1>6. \A n \in Bg : round[n] <= round'[n] BY Bounds
<1> QED BY <1>2, <1>4, <1>5, <1>6, RoundsGo

\* Every coordinator goes on as it is but for its place, ends, or begins anew.
LEMMA CoordsSet ==
  ASSUME CoordsInv, round \in [Bg -> 0..MaxRounds], UNCHANGED round,
         coord' \in [Bg -> [Keys -> CoordJob]],
         \A m \in Bg, k \in Keys :
           \/ Rounds(coord'[m][k]) = {} /\ coord'[m][k].tries = 0
           \/ /\ Rounds(coord'[m][k]) = Rounds(coord[m][k])
              /\ coord'[m][k].tries = coord[m][k].tries
  PROVE  CoordsInv'
<1>1. \A m \in Bg, k \in Keys : coord'[m][k].tries < MaxTries BY Bounds DEF CoordsInv
<1>2. \A m \in Bg : round[m] <= round'[m] BY Bounds
<1> QED BY <1>1, <1>2, RoundsGo

\* A heal and an add leave what is live, and take the place of nothing else.
LEMMA HealFacts ==
  ASSUME NEW c \in [Bg -> [Keys -> CoordJob]], NEW d,
         (\E ms : d = Healed(c, ms)) \/ (\E m \in Bg : \E ks : d = Added(c, m, ks))
  PROVE  /\ d \in [Bg -> [Keys -> CoordJob]]
         /\ \A n \in Bg, k \in Keys : d[n][k] = c[n][k] \/ d[n][k] = Queued
<1>1. ASSUME NEW ms, d = Healed(c, ms)
      PROVE  /\ d \in [Bg -> [Keys -> CoordJob]]
             /\ \A n \in Bg, k \in Keys : d[n][k] = c[n][k] \/ d[n][k] = Queued
  BY <1>1, JobFacts DEF Healed
<1>2. ASSUME NEW m \in Bg, NEW ks, d = Added(c, m, ks)
      PROVE  /\ d \in [Bg -> [Keys -> CoordJob]]
             /\ \A n \in Bg, k \in Keys : d[n][k] = c[n][k] \/ d[n][k] = Queued
  BY <1>2, JobFacts DEF Added
<1> QED BY <1>1, <1>2

LEMMA CoordsHealed ==
  ASSUME CoordsInv, round \in [Bg -> 0..MaxRounds], UNCHANGED round,
         NEW c \in [Bg -> [Keys -> CoordJob]],
         \A m \in Bg, k \in Keys : c[m][k] = coord[m][k] \/ c[m][k] = NoCoord,
         \/ \E ms : coord' = Healed(c, ms)
         \/ \E m \in Bg : \E ks : coord' = Added(c, m, ks)
         \/ coord' = c
  PROVE  CoordsInv'
<1>1. /\ coord' \in [Bg -> [Keys -> CoordJob]]
      /\ \A n \in Bg, k \in Keys : coord'[n][k] = c[n][k] \/ coord'[n][k] = Queued
  <2>1. CASE coord' = c BY <2>1
  <2>2. CASE coord' # c BY <2>2, HealFacts
  <2> QED BY <2>1, <2>2
<1>2. \A n \in Bg, k \in Keys : coord'[n][k] \in {coord[n][k], Queued, NoCoord} BY <1>1
<1>3. \A m \in Bg, k \in Keys :
        \/ Rounds(coord'[m][k]) = {} /\ coord'[m][k].tries = 0
        \/ /\ Rounds(coord'[m][k]) = Rounds(coord[m][k])
           /\ coord'[m][k].tries = coord[m][k].tries
  BY <1>2, JobFacts
<1> QED BY <1>1, <1>3, CoordsSet

\* A job that goes on: its rounds are those that it had.
Follows(x, j) == x \in CoordJob /\ x.tries = j.tries /\ Rounds(x) \subseteq Rounds(j)

LEMMA FetchedFollows ==
  ASSUME NEW j \in CoordJob, NEW p \in Pod, NEW x,
         x = [j EXCEPT !.at = "active", !.by = p, !.pc = "step", !.mem = j.round]
  PROVE  Follows(x, j)
<1>1. PICK r \in 0..MaxRounds : r = j.round BY DEF CoordJob
<1>2. x = [j EXCEPT !.at = "active", !.by = p, !.pc = "step", !.mem = r] BY <1>1
<1>3. x \in CoordJob BY <1>2 DEF CoordJob
<1>4. x.tries = j.tries /\ x.mem = j.round /\ x.round = j.round BY <1>1, <1>2 DEF CoordJob
<1> QED BY <1>3, <1>4 DEF Follows, Rounds

LEMMA LaterFollows ==
  ASSUME NEW j \in CoordJob PROVE Follows(Later(j), j)
<1>1. PICK r \in 0..MaxRounds, z \in 0..Slots : r = j.mem /\ z = 0 BY Bounds DEF CoordJob
<1>2. PICK x : x = Later(j) OBVIOUS
<1>3. x = [j EXCEPT !.at = "wait", !.by = NoPod, !.pc = "step", !.round = r, !.want = z]
  BY <1>1, <1>2 DEF Later
<1>4. x \in CoordJob BY <1>3 DEF CoordJob
<1>5. x.tries = j.tries /\ x.mem = j.mem /\ x.round = j.mem BY <1>1, <1>3 DEF CoordJob
<1> QED BY <1>2, <1>4, <1>5 DEF Follows, Rounds

LEMMA UpdatesFollows ==
  ASSUME NEW j \in CoordJob, j.spawn < MaxSpawns, NEW x,
         x = [j EXCEPT !.pc = "add", !.round = j.mem, !.spawn = j.spawn + 1]
  PROVE  Follows(x, j)
<1>1. PICK r \in 0..MaxRounds, n \in 0..MaxSpawns : r = j.mem /\ n = j.spawn + 1
  BY Bounds DEF CoordJob
<1>2. x = [j EXCEPT !.pc = "add", !.round = r, !.spawn = n] BY <1>1
<1>3. x \in CoordJob BY <1>2 DEF CoordJob
<1>4. x.tries = j.tries /\ x.mem = j.mem /\ x.round = j.mem BY <1>1, <1>2 DEF CoordJob
<1> QED BY <1>3, <1>4 DEF Follows, Rounds

LEMMA MovesFollow ==
  ASSUME NEW j \in CoordJob, NEW x,
         \/ x = [j EXCEPT !.pc = "move", !.want = 0]
         \/ x = [j EXCEPT !.at = "children", !.by = NoPod, !.pc = "step", !.mem = 0]
         \/ x = [j EXCEPT !.pc = "step"]
         \/ x = [j EXCEPT !.at = "wait"] \/ x = [j EXCEPT !.by = NoPod]
  PROVE  Follows(x, j)
<1>1. PICK r \in 0..MaxRounds, w \in 0..Slots : r = 0 /\ w = 0 BY Bounds
<1>2. CASE x = [j EXCEPT !.pc = "move", !.want = 0]
  <2>1. x = [j EXCEPT !.pc = "move", !.want = w] BY <1>1, <1>2
  <2>2. x \in CoordJob /\ x.tries = j.tries /\ x.mem = j.mem /\ x.round = j.round
    BY <2>1 DEF CoordJob
  <2> QED BY <2>2 DEF Follows, Rounds
<1>3. CASE x = [j EXCEPT !.at = "children", !.by = NoPod, !.pc = "step", !.mem = 0]
  <2>1. x = [j EXCEPT !.at = "children", !.by = NoPod, !.pc = "step", !.mem = r] BY <1>1, <1>3
  <2>2. x \in CoordJob /\ x.tries = j.tries /\ x.mem = r /\ x.round = j.round
    BY <2>1 DEF CoordJob
  <2> QED BY <1>1, <2>2 DEF Follows, Rounds
<1>4. CASE x = [j EXCEPT !.pc = "step"] \/ x = [j EXCEPT !.at = "wait"] \/ x = [j EXCEPT !.by = NoPod]
  <2>1. x \in CoordJob /\ x.tries = j.tries /\ x.mem = j.mem /\ x.round = j.round
    BY <1>4 DEF CoordJob
  <2> QED BY <2>1 DEF Follows, Rounds
<1> QED BY <1>2, <1>3, <1>4

\* What is run again forgets the round it knew, and keeps the one in its data.
LEMMA AgainFollows ==
  ASSUME NEW j \in CoordJob, NEW x,
         \/ /\ x = [j EXCEPT !.at = "wait", !.by = NoPod, !.pc = "step", !.mem = 0, !.want = 0,
                              !.tries = j.tries + 1]
            /\ j.tries + 1 # MaxTries /\ j.tries < MaxTries
         \/ /\ x = [j EXCEPT !.at = "wait", !.pc = "step", !.mem = 0, !.want = 0,
                              !.stalls = j.stalls + 1]
            /\ j.stalls # MaxStalls /\ j.tries < MaxTries
  PROVE  x \in CoordJob /\ x.tries < MaxTries /\ Rounds(x) \subseteq Rounds(j)
<1>1. PICK r \in 0..MaxRounds, w \in 0..Slots : r = 0 /\ w = 0 BY Bounds
<1>2. CASE /\ x = [j EXCEPT !.at = "wait", !.by = NoPod, !.pc = "step", !.mem = 0, !.want = 0,
                             !.tries = j.tries + 1]
           /\ j.tries + 1 # MaxTries /\ j.tries < MaxTries
  <2>1. PICK n \in 0..MaxTries : n = j.tries + 1 /\ n < MaxTries BY <1>2, Bounds DEF CoordJob
  <2>2. x = [j EXCEPT !.at = "wait", !.by = NoPod, !.pc = "step", !.mem = r, !.want = w, !.tries = n]
    BY <1>1, <1>2, <2>1
  <2>3. x \in CoordJob /\ x.tries = n /\ x.mem = r /\ x.round = j.round BY <2>2 DEF CoordJob
  <2> QED BY <1>1, <2>1, <2>3 DEF Rounds
<1>3. CASE /\ x = [j EXCEPT !.at = "wait", !.pc = "step", !.mem = 0, !.want = 0,
                             !.stalls = j.stalls + 1]
           /\ j.stalls # MaxStalls /\ j.tries < MaxTries
  <2>1. PICK n \in 0..MaxStalls : n = j.stalls + 1 BY <1>3, Bounds DEF CoordJob
  <2>2. x = [j EXCEPT !.at = "wait", !.pc = "step", !.mem = r, !.want = w, !.stalls = n]
    BY <1>1, <1>3, <2>1
  <2>3. x \in CoordJob /\ x.tries = j.tries /\ x.mem = r /\ x.round = j.round BY <2>2 DEF CoordJob
  <2> QED BY <1>1, <1>3, <2>3 DEF Rounds
<1> QED BY <1>2, <1>3

\* The job that is told a round by the kit: to spawn, or to come back later.
LEMMA KnownFacts ==
  ASSUME NEW j \in CoordJob, NEW r \in 0..MaxRounds, NEW n \in 0..Slots, NEW x,
         \/ x = Later([j EXCEPT !.mem = r])
         \/ x = [[j EXCEPT !.mem = r] EXCEPT !.pc = "spawn", !.want = n]
  PROVE  x \in CoordJob /\ x.tries = j.tries /\ Rounds(x) \subseteq Rounds(j) \cup {r}
<1>1. PICK known : known = [j EXCEPT !.mem = r] OBVIOUS
<1>2. known \in CoordJob /\ known.tries = j.tries /\ known.mem = r /\ known.round = j.round
  BY <1>1 DEF CoordJob
<1>3. CASE x = Later([j EXCEPT !.mem = r])
  <2>1. Follows(x, known) BY <1>1, <1>2, <1>3, LaterFollows
  <2> QED BY <1>2, <2>1 DEF Follows, Rounds
<1>4. CASE x = [[j EXCEPT !.mem = r] EXCEPT !.pc = "spawn", !.want = n]
  <2>1. x = [known EXCEPT !.pc = "spawn", !.want = n] BY <1>1, <1>4
  <2>2. x \in CoordJob /\ x.tries = known.tries /\ x.mem = r /\ x.round = known.round
    BY <1>2, <2>1 DEF CoordJob
  <2> QED BY <1>2, <2>2 DEF Rounds
<1> QED BY <1>3, <1>4

\* Whoever's last lane finished goes on.
LEMMA CoordsWoken ==
  ASSUME CoordsInv, round \in [Bg -> 0..MaxRounds], UNCHANGED round,
         NEW ls, coord' = Woken(coord, ls)
  PROVE  CoordsInv'
<1>1. coord \in [Bg -> [Keys -> CoordJob]] BY DEF CoordsInv
<1>2. ASSUME NEW m \in Bg, NEW k \in Keys
      PROVE  coord'[m][k] \in CoordJob /\ Follows(coord'[m][k], coord[m][k])
             /\ Rounds(coord'[m][k]) = Rounds(coord[m][k])
  <2>1. PICK j \in CoordJob : j = coord[m][k] BY <1>1
  <2>2. PICK x : x = [j EXCEPT !.at = "wait"] OBVIOUS
  <2>3. Follows(x, j) BY <2>2, MovesFollow
  <2>4. x.mem = j.mem /\ x.round = j.round BY <2>2 DEF CoordJob
  <2>5. coord'[m][k] = x \/ coord'[m][k] = j BY <2>1, <2>2 DEF Woken
  <2> QED BY <2>1, <2>3, <2>4, <2>5 DEF Follows, Rounds
<1>3. coord' = [m \in Bg |-> [k \in Keys |-> coord'[m][k]]] BY DEF Woken
<1>4. coord' \in [Bg -> [Keys -> CoordJob]] BY <1>2, <1>3
<1>5. \A m \in Bg, k \in Keys :
        /\ Rounds(coord'[m][k]) = Rounds(coord[m][k])
        /\ coord'[m][k].tries = coord[m][k].tries
  BY <1>2 DEF Follows
<1> QED BY <1>4, <1>5, CoordsSet

-----------------------------------------------------------------------------
(* Lanes and leases.                                                       *)

\* The lanes that hold a lease of m.
Busy(m, ls) == {l \in ls : l.bg = m /\ l.busy}

LEMMA LeasesFacts ==
  ASSUME LanesInv, dead \in [Bg -> Nat], NEW m \in Bg
  PROVE  /\ IsFiniteSet(Busy(m, lanes)) /\ Cardinality(Busy(m, lanes)) \in Nat
         /\ Leases(m) = dead[m] + Cardinality(Busy(m, lanes))
         /\ Leases(m) \in Nat /\ dead[m] \in Nat
<1>1. IsFiniteSet(Busy(m, lanes)) BY FS_Subset DEF Busy, LanesInv
<1>2. Cardinality(Busy(m, lanes)) \in Nat BY <1>1, FS_CardinalityType
<1>3. Leases(m) = dead[m] + Cardinality(Busy(m, lanes)) BY DEF Leases, Busy
<1> QED BY <1>1, <1>2, <1>3

\* Leases only go: none is new.
LEMMA LanesKept ==
  ASSUME LanesInv, LeasesInv, IsFiniteSet(lanes'), \A l \in lanes' : GoodLane(l),
         dead' \in [Bg -> Nat], \A m \in Bg : dead'[m] <= dead[m],
         \A l \in lanes' : l.busy => l \in lanes
  PROVE  LanesInv' /\ LeasesInv'
<1>1. LanesInv' BY DEF LanesInv, GoodLane
<1>2. ASSUME NEW m \in Bg PROVE Leases(m)' <= Slots
  <2>1. PICK ls : ls = lanes' OBVIOUS
  <2>2. Busy(m, ls) \subseteq Busy(m, lanes) BY <2>1 DEF Busy
  <2>3. /\ IsFiniteSet(Busy(m, lanes)) /\ Cardinality(Busy(m, lanes)) \in Nat /\ dead[m] \in Nat
        /\ dead[m] + Cardinality(Busy(m, lanes)) <= Slots
    BY LeasesFacts DEF LeasesInv
  <2>4. /\ Cardinality(Busy(m, ls)) <= Cardinality(Busy(m, lanes))
        /\ IsFiniteSet(Busy(m, ls))
    BY <2>2, <2>3, FS_Subset
  <2>5. Cardinality(Busy(m, ls)) \in Nat BY <2>4, FS_CardinalityType
  <2>6. Leases(m)' = dead'[m] + Cardinality(Busy(m, ls)) BY <2>1 DEF Leases, Busy
  <2>7. dead'[m] \in Nat /\ dead'[m] <= dead[m] OBVIOUS
  <2> QED BY <2>3, <2>4, <2>5, <2>6, <2>7, Bounds
<1> QED BY <1>1, <1>2 DEF LeasesInv

\* A lane gives way to what is no lease of its own, or to nothing.
LEMMA LaneChanges ==
  ASSUME LanesInv, LeasesInv, UNCHANGED dead, NEW l \in lanes,
         NEW x, GoodLane(x), ~x.busy,
         lanes' = (lanes \ {l}) \cup {x} \/ lanes' = lanes \ {l}
  PROVE  LanesInv' /\ LeasesInv'
<1>1. IsFiniteSet(lanes \ {l}) BY FS_Subset DEF LanesInv
<1>2. IsFiniteSet((lanes \ {l}) \cup {x}) BY <1>1, FS_AddElement
<1>3. \A y \in lanes' : y \in lanes \/ y = x OBVIOUS
<1>4. \A y \in lanes' : GoodLane(y) /\ (y.busy => y \in lanes) BY <1>3 DEF LanesInv
<1>5. dead' \in [Bg -> Nat] /\ \A m \in Bg : dead'[m] <= dead[m] BY DEF LeasesInv
<1> QED BY <1>1, <1>2, <1>4, <1>5, LanesKept

LEMMA LanesSame ==
  ASSUME LanesInv, LeasesInv, dead' = dead, lanes' \subseteq lanes
  PROVE  LanesInv' /\ LeasesInv'
<1>1. IsFiniteSet(lanes') BY FS_Subset DEF LanesInv
<1>2. \A y \in lanes' : GoodLane(y) /\ (y.busy => y \in lanes) BY DEF LanesInv
<1>3. dead' \in [Bg -> Nat] /\ \A m \in Bg : dead'[m] <= dead[m] BY DEF LeasesInv
<1> QED BY <1>1, <1>2, <1>3, LanesKept

LEMMA StallsCount == \A n \in 0..MaxStalls : n # MaxStalls => n + 1 \in 0..MaxStalls
BY Bounds

\* What becomes of a lane is a lane, and but for one that begins a slice it has no
\* lease then.
LEMMA LaneForms ==
  ASSUME NEW l, GoodLane(l), NEW x,
         \/ x = [l EXCEPT !.at = "done", !.by = NoPod, !.busy = FALSE]
         \/ \E r \in 0..MaxRetries :
              x = [l EXCEPT !.at = "wait", !.by = NoPod, !.busy = FALSE, !.retry = r]
         \/ l.at = "wait" /\ \E p \in Pod : x = [l EXCEPT !.at = "active", !.by = p]
         \/ l.at = "wait" /\ x = [l EXCEPT !.at = "gone"]
         \/ l.by = NoPod /\ l.stalls # MaxStalls
            /\ x = [l EXCEPT !.at = "wait", !.stalls = l.stalls + 1]
         \/ x = [l EXCEPT !.by = NoPod, !.busy = FALSE]
  PROVE  GoodLane(x) /\ ~x.busy /\ x.bg = l.bg
<1>1. l \in LaneJob BY DEF GoodLane
<1> USE <1>1
<1>2. CASE x = [l EXCEPT !.at = "done", !.by = NoPod, !.busy = FALSE]
  <2>1. x \in LaneJob /\ ~x.busy /\ x.bg = l.bg BY <1>2 DEF LaneJob
  <2> QED BY <2>1 DEF GoodLane
<1>3. ASSUME NEW r \in 0..MaxRetries,
             x = [l EXCEPT !.at = "wait", !.by = NoPod, !.busy = FALSE, !.retry = r]
      PROVE  GoodLane(x) /\ ~x.busy /\ x.bg = l.bg
  <2>1. x \in LaneJob /\ ~x.busy /\ x.bg = l.bg BY <1>3 DEF LaneJob
  <2> QED BY <2>1 DEF GoodLane
<1>4. ASSUME NEW p \in Pod, l.at = "wait", x = [l EXCEPT !.at = "active", !.by = p]
      PROVE  GoodLane(x) /\ ~x.busy /\ x.bg = l.bg
  <2>1. x \in LaneJob /\ x.busy = l.busy /\ x.bg = l.bg BY <1>4 DEF LaneJob
  <2>2. ~l.busy BY <1>4 DEF GoodLane
  <2> QED BY <2>1, <2>2 DEF GoodLane
<1>5. CASE l.at = "wait" /\ x = [l EXCEPT !.at = "gone"]
  <2>1. x \in LaneJob /\ x.busy = l.busy /\ x.bg = l.bg BY <1>5 DEF LaneJob
  <2>2. ~l.busy BY <1>5 DEF GoodLane
  <2> QED BY <2>1, <2>2 DEF GoodLane
<1>6. CASE /\ l.by = NoPod /\ l.stalls # MaxStalls
           /\ x = [l EXCEPT !.at = "wait", !.stalls = l.stalls + 1]
  <2>0. l.stalls \in 0..MaxStalls /\ l.stalls # MaxStalls BY <1>6, Zenon DEF LaneJob
  <2>1. PICK n \in 0..MaxStalls : n = l.stalls + 1 BY <2>0, StallsCount, Zenon
  <2>2. x = [l EXCEPT !.at = "wait", !.stalls = n] BY <1>6, <2>1
  <2>3. x \in LaneJob /\ x.busy = l.busy /\ x.bg = l.bg BY <2>2 DEF LaneJob
  <2>4. ~l.busy BY <1>6 DEF GoodLane
  <2> QED BY <2>3, <2>4 DEF GoodLane
<1>7. CASE x = [l EXCEPT !.by = NoPod, !.busy = FALSE]
  <2>1. x \in LaneJob /\ ~x.busy /\ x.bg = l.bg BY <1>7 DEF LaneJob
  <2> QED BY <2>1 DEF GoodLane
<1>8. CASE \E r \in 0..MaxRetries :
             x = [l EXCEPT !.at = "wait", !.by = NoPod, !.busy = FALSE, !.retry = r]
  BY <1>3, <1>8, Zenon
<1>9. CASE l.at = "wait" /\ \E p \in Pod : x = [l EXCEPT !.at = "active", !.by = p]
  BY <1>4, <1>9, Zenon
<1> QED BY <1>2, <1>5, <1>6, <1>7, <1>8, <1>9, Zenon

\* A lane ends, and may wake its parent.
LEMMA EndsKeeps ==
  ASSUME BackInv, UNCHANGED <<round, dead>>, NEW l \in lanes, LaneEnds(l)
  PROVE  CoordsInv' /\ LanesInv' /\ LeasesInv'
<1>1. GoodLane(l) /\ LanesInv /\ LeasesInv /\ CoordsInv /\ round \in [Bg -> 0..MaxRounds]
  BY DEF BackInv, LanesInv, BackTypes
<1>2. PICK x : x = [l EXCEPT !.at = "done", !.by = NoPod, !.busy = FALSE] OBVIOUS
<1>3. GoodLane(x) /\ ~x.busy BY <1>1, <1>2, LaneForms
<1>4. lanes' = (lanes \ {l}) \cup {x} \/ lanes' = lanes \ {l}
  BY <1>2 DEF LaneEnds, ChangeLane
<1>5. LanesInv' /\ LeasesInv' BY <1>1, <1>3, <1>4, LaneChanges
<1>6. PICK ls : ls = lanes' OBVIOUS
<1>7. coord' = coord \/ coord' = Woken(coord, ls) BY <1>6 DEF LaneEnds
<1>a. round' = round OBVIOUS
<1>8. ASSUME coord' = coord PROVE CoordsInv' BY <1>1, <1>8, <1>a DEF CoordsInv
<1>9. ASSUME coord' = Woken(coord, ls) PROVE CoordsInv' BY <1>1, <1>9, <1>a, CoordsWoken
<1> QED BY <1>5, <1>7, <1>8, <1>9

\* A lane comes back later.
LEMMA LaterKeeps ==
  ASSUME BackInv, UNCHANGED <<round, dead>>, NEW l \in lanes, NEW r \in 0..MaxRetries,
         LaneLater(l, r)
  PROVE  CoordsInv' /\ LanesInv' /\ LeasesInv'
<1>1. GoodLane(l) /\ LanesInv /\ LeasesInv /\ CoordsInv BY DEF BackInv, LanesInv
<1>2. PICK x : x = [l EXCEPT !.at = "wait", !.by = NoPod, !.busy = FALSE, !.retry = r] OBVIOUS
<1>3. GoodLane(x) /\ ~x.busy BY <1>1, <1>2, LaneForms
<1>4. lanes' = (lanes \ {l}) \cup {x} /\ coord' = coord BY <1>2 DEF LaneLater, ChangeLane
<1>5. LanesInv' /\ LeasesInv' BY <1>1, <1>3, <1>4, LaneChanges
<1> QED BY <1>1, <1>4, <1>5 DEF CoordsInv

LEMMA OneMore ==
  ASSUME NEW S, IsFiniteSet(S), NEW x
  PROVE  /\ IsFiniteSet(S \cup {x}) /\ Cardinality(S \cup {x}) \in Nat
         /\ Cardinality(S \cup {x}) <= Cardinality(S) + 1
<1>1. /\ IsFiniteSet(S \cup {x})
      /\ Cardinality(S \cup {x}) = IF x \in S THEN Cardinality(S) ELSE Cardinality(S) + 1
  BY FS_AddElement
<1>2. Cardinality(S) \in Nat BY FS_CardinalityType
<1> QED BY <1>1, <1>2

\* A slice begins where a slot is free.
LEMMA SliceKeeps ==
  ASSUME BackInv, UNCHANGED dead, NEW l \in lanes, LaneRuns(l), ~l.busy, Leases(l.bg) < Slots,
         NEW x, x = [l EXCEPT !.busy = TRUE], lanes' = (lanes \ {l}) \cup {x}
  PROVE  LanesInv' /\ LeasesInv'
<1>1. LanesInv /\ LeasesInv /\ l \in LaneJob /\ dead \in [Bg -> Nat]
  BY DEF BackInv, LanesInv, GoodLane, LeasesInv
<1>2. l.at = "active" /\ l.by # NoPod BY DEF LaneRuns, Works
<1>3. x \in LaneJob /\ x.busy /\ x.at = l.at /\ x.by = l.by /\ x.bg = l.bg BY <1>1 DEF LaneJob
<1>4. GoodLane(x) BY <1>2, <1>3 DEF GoodLane
<1>5. IsFiniteSet(lanes \ {l}) BY <1>1, FS_Subset DEF LanesInv
<1>6. IsFiniteSet(lanes') BY <1>5, FS_AddElement
<1>7. LanesInv' BY <1>1, <1>4, <1>6 DEF LanesInv, GoodLane
<1>8. ASSUME NEW m \in Bg PROVE Leases(m)' <= Slots
  <2>1. PICK ls : ls = lanes' OBVIOUS
  <2>2. /\ IsFiniteSet(Busy(m, lanes)) /\ Cardinality(Busy(m, lanes)) \in Nat /\ dead[m] \in Nat
        /\ Leases(m) = dead[m] + Cardinality(Busy(m, lanes)) /\ Leases(m) <= Slots
    BY <1>1, LeasesFacts DEF LeasesInv
  <2>3. Leases(m)' = dead[m] + Cardinality(Busy(m, ls)) BY <2>1 DEF Leases, Busy
  <2>4. CASE m # l.bg
    <3>1. Busy(m, ls) \subseteq Busy(m, lanes) BY <1>3, <2>1, <2>4 DEF Busy
    <3>2. /\ Cardinality(Busy(m, ls)) <= Cardinality(Busy(m, lanes))
          /\ Cardinality(Busy(m, ls)) \in Nat
      BY <2>2, <3>1, FS_Subset, FS_CardinalityType
    <3> QED BY <2>2, <2>3, <3>2, Bounds
  <2>5. CASE m = l.bg
    <3>1. Busy(m, ls) \subseteq Busy(m, lanes) \cup {x} BY <2>1 DEF Busy
    <3>2. /\ IsFiniteSet(Busy(m, lanes) \cup {x})
          /\ Cardinality(Busy(m, lanes) \cup {x}) <= Cardinality(Busy(m, lanes)) + 1
          /\ Cardinality(Busy(m, lanes) \cup {x}) \in Nat
      BY <2>2, OneMore
    <3>3. /\ Cardinality(Busy(m, ls)) <= Cardinality(Busy(m, lanes) \cup {x})
          /\ Cardinality(Busy(m, ls)) \in Nat
      BY <3>1, <3>2, FS_Subset, FS_CardinalityType
    <3>4. Leases(m) < Slots BY <2>5
    <3> QED BY <2>2, <2>3, <3>2, <3>3, <3>4, Bounds
  <2> QED BY <2>4, <2>5
<1> QED BY <1>1, <1>7, <1>8 DEF LeasesInv

LEMMA TroubleKept == ASSUME trouble \in 0..MaxTrouble, Trouble PROVE trouble' \in 0..MaxTrouble
BY Bounds DEF Trouble

\* A lane's step.
LEMMA LaneStep ==
  ASSUME BackInv, NEW l \in lanes, Lane(l)
  PROVE  BackInv'
<1>1. BackTypes /\ CoordsInv /\ LanesInv /\ LeasesInv /\ GoodLane(l) /\ l \in LaneJob
  BY DEF BackInv, LanesInv, GoodLane
<1>2. l.bg \in Bg /\ l.retry \in 0..MaxRetries BY <1>1 DEF LaneJob
<1>3. ASSUME NEW p \in Pod, LaneFetch(p, l) PROVE BackInv'
  <2>1. PICK x : x = [l EXCEPT !.at = "active", !.by = p] OBVIOUS
  <2>2. l.at = "wait" /\ lanes' = (lanes \ {l}) \cup {x}
        /\ UNCHANGED <<children, svc, bstat, left, round, dead, quiet, coord, trouble>>
    BY <1>3, <2>1 DEF LaneFetch, ChangeLane
  <2>3. GoodLane(x) /\ ~x.busy BY <1>1, <2>1, <2>2, LaneForms
  <2>4. LanesInv' /\ LeasesInv' BY <1>1, <2>2, <2>3, LaneChanges
  <2>5. BackTypes' /\ CoordsInv' BY <1>1, <2>2 DEF BackTypes, CoordsInv
  <2> QED BY <2>4, <2>5 DEF BackInv
<1>4. CASE LaneStops(l)
  <2>1. LaneLater(l, l.retry) /\ UNCHANGED <<children, svc, bstat, left, round, dead, quiet, trouble>>
    BY <1>4 DEF LaneStops
  <2>2. CoordsInv' /\ LanesInv' /\ LeasesInv' BY <1>2, <2>1, LaterKeeps
  <2>3. BackTypes' BY <1>1, <2>1 DEF BackTypes
  <2> QED BY <2>2, <2>3 DEF BackInv
<1>5. CASE LaneSlice(l)
  <2>1. LaneRuns(l) /\ ~l.busy /\ UNCHANGED <<children, svc, bstat, left, round, dead, quiet, trouble>>
    BY <1>5 DEF LaneSlice
  <2>2. BackTypes' BY <1>1, <2>1 DEF BackTypes
  <2>3. CASE LaneEnds(l)
    <3>1. CoordsInv' /\ LanesInv' /\ LeasesInv' BY <2>1, <2>3, EndsKeeps
    <3> QED BY <2>2, <3>1 DEF BackInv
  <2>4. CASE LaneLater(l, 0)
    <3>1. PICK r \in 0..MaxRetries : r = 0 BY Bounds
    <3>2. LaneLater(l, r) BY <2>4, <3>1
    <3>3. CoordsInv' /\ LanesInv' /\ LeasesInv' BY <2>1, <3>2, LaterKeeps
    <3> QED BY <2>2, <3>3 DEF BackInv
  <2>5. CASE Leases(l.bg) < Slots /\ ChangeLane(l, [l EXCEPT !.busy = TRUE]) /\ UNCHANGED coord
    <3>1. PICK x : x = [l EXCEPT !.busy = TRUE] OBVIOUS
    <3>2. lanes' = (lanes \ {l}) \cup {x} BY <2>5, <3>1 DEF ChangeLane
    <3>3. LanesInv' /\ LeasesInv' BY <2>1, <2>5, <3>1, <3>2, SliceKeeps
    <3>4. CoordsInv' BY <1>1, <2>1, <2>5 DEF CoordsInv
    <3> QED BY <2>2, <3>3, <3>4 DEF BackInv
  <2> QED BY <1>5, <2>3, <2>4, <2>5 DEF LaneSlice
<1>6. CASE LaneWorks(l)
  <2>1. /\ UNCHANGED <<children, svc, bstat, round, dead, trouble>>
        /\ \/ UNCHANGED <<left, quiet>>
           \/ /\ left[l.bg] # 0 /\ left' = [left EXCEPT ![l.bg] = @ - 1]
              /\ quiet' = [quiet EXCEPT ![l.bg] = FALSE]
        /\ LaneEnds(l) \/ LaneLater(l, 0)
    BY <1>6 DEF LaneWorks
  <2>2. left' \in [Bg -> 0..Slices]
    <3>1. left \in [Bg -> 0..Slices] BY <1>1 DEF BackTypes
    <3>2. left[l.bg] # 0 => left[l.bg] - 1 \in 0..Slices BY <1>2, <3>1, Bounds
    <3>3. CASE left' = left BY <3>1, <3>3
    <3>4. CASE left[l.bg] # 0 /\ left' = [left EXCEPT ![l.bg] = @ - 1]
      <4>1. PICK n \in 0..Slices : n = left[l.bg] - 1 BY <3>2, <3>4
      <4> QED BY <3>1, <3>4, <4>1
    <3> QED BY <2>1, <3>3, <3>4
  <2>3. quiet' \in [Bg -> BOOLEAN] BY <1>1, <2>1 DEF BackTypes
  <2>4. BackTypes' BY <1>1, <2>1, <2>2, <2>3 DEF BackTypes
  <2>5. CoordsInv' /\ LanesInv' /\ LeasesInv'
    <3>1. PICK r \in 0..MaxRetries : r = 0 BY Bounds
    <3>2. LaneEnds(l) \/ LaneLater(l, r) BY <2>1, <3>1
    <3> QED BY <2>1, <3>2, EndsKeeps, LaterKeeps
  <2> QED BY <2>4, <2>5 DEF BackInv
<1>7. CASE LaneFails(l)
  <2>1. /\ Trouble /\ UNCHANGED <<children, svc, bstat, left, round, dead, quiet>>
        /\ LaneEnds(l) \/ (l.retry # MaxRetries /\ LaneLater(l, l.retry + 1))
    BY <1>7 DEF LaneFails
  <2>2. trouble' \in 0..MaxTrouble BY <1>1, <2>1, TroubleKept DEF BackTypes
  <2>3. BackTypes' BY <1>1, <2>1, <2>2 DEF BackTypes
  <2>4. CoordsInv' /\ LanesInv' /\ LeasesInv'
    <3>1. CASE LaneEnds(l) BY <2>1, <3>1, EndsKeeps
    <3>2. CASE l.retry # MaxRetries /\ LaneLater(l, l.retry + 1)
      <4>1. PICK r \in 0..MaxRetries : r = l.retry + 1 BY <1>2, <3>2, Bounds
      <4>2. LaneLater(l, r) BY <3>2, <4>1
      <4> QED BY <2>1, <4>2, LaterKeeps
    <3> QED BY <2>1, <3>1, <3>2
  <2> QED BY <2>3, <2>4 DEF BackInv
<1>8. CASE LaneStalls(l)
  <2>1. /\ l.by = NoPod
        /\ UNCHANGED <<children, svc, bstat, left, round, dead, quiet, trouble>>
        /\ \/ LaneEnds(l)
           \/ /\ l.stalls # MaxStalls /\ coord' = coord
              /\ ChangeLane(l, [l EXCEPT !.at = "wait", !.stalls = l.stalls + 1])
    BY <1>8 DEF LaneStalls
  <2>2. BackTypes' BY <1>1, <2>1 DEF BackTypes
  <2>3. CASE LaneEnds(l)
    <3>1. CoordsInv' /\ LanesInv' /\ LeasesInv' BY <2>1, <2>3, EndsKeeps
    <3> QED BY <2>2, <3>1 DEF BackInv
  <2>4. CASE /\ l.stalls # MaxStalls /\ coord' = coord
             /\ ChangeLane(l, [l EXCEPT !.at = "wait", !.stalls = l.stalls + 1])
    <3>1. PICK x : x = [l EXCEPT !.at = "wait", !.stalls = l.stalls + 1] OBVIOUS
    <3>2. lanes' = (lanes \ {l}) \cup {x} BY <2>4, <3>1 DEF ChangeLane
    <3>3. GoodLane(x) /\ ~x.busy BY <1>1, <2>1, <2>4, <3>1, LaneForms
    <3>4. LanesInv' /\ LeasesInv' BY <1>1, <2>1, <3>2, <3>3, LaneChanges
    <3>5. CoordsInv' BY <1>1, <2>1, <2>4 DEF CoordsInv
    <3> QED BY <2>2, <3>4, <3>5 DEF BackInv
  <2> QED BY <2>1, <2>3, <2>4
<1>9. CASE LaneLost(l)
  <2>1. PICK x : x = [l EXCEPT !.at = "gone"] OBVIOUS
  <2>2. /\ l.at = "wait" /\ Trouble
        /\ lanes' = (lanes \ {l}) \cup {x} \/ lanes' = lanes \ {l}
        /\ UNCHANGED <<children, svc, bstat, left, round, dead, quiet, coord>>
    BY <1>9, <2>1 DEF LaneLost
  <2>3. GoodLane(x) /\ ~x.busy BY <1>1, <2>1, <2>2, LaneForms
  <2>4. LanesInv' /\ LeasesInv' BY <1>1, <2>2, <2>3, LaneChanges
  <2>5. trouble' \in 0..MaxTrouble BY <1>1, <2>2, TroubleKept DEF BackTypes
  <2>6. BackTypes' /\ CoordsInv' BY <1>1, <2>2, <2>5 DEF BackTypes, CoordsInv
  <2> QED BY <2>4, <2>6 DEF BackInv
<1> QED BY <1>3, <1>4, <1>5, <1>6, <1>7, <1>8, <1>9 DEF Lane

-----------------------------------------------------------------------------
(* The steps of a coordinator.                                             *)

\* Lanes are added that have no lease.
LEMMA LanesAdded ==
  ASSUME LanesInv, LeasesInv, UNCHANGED dead, NEW new, IsFiniteSet(new),
         \A x \in new : GoodLane(x) /\ ~x.busy,
         lanes' \subseteq lanes \cup new
  PROVE  LanesInv' /\ LeasesInv'
<1>1. IsFiniteSet(lanes \cup new) BY FS_Union DEF LanesInv
<1>2. IsFiniteSet(lanes') BY <1>1, FS_Subset
<1>3. \A y \in lanes' : GoodLane(y) /\ (y.busy => y \in lanes) BY DEF LanesInv
<1>4. dead' \in [Bg -> Nat] /\ \A m \in Bg : dead'[m] <= dead[m] BY DEF LeasesInv
<1> QED BY <1>2, <1>3, <1>4, LanesKept

LEMMA LooseFacts ==
  ASSUME NEW m \in Bg, NEW n \in 1..Slots
  PROVE  GoodLane(Loose(m, n)) /\ ~Loose(m, n).busy
<1>1. PICK z \in 0..MaxRounds, s \in 0..MaxSpawns, r \in 0..MaxRetries, t \in 0..MaxStalls :
        z = 0 /\ s = 0 /\ r = 0 /\ t = 0
  BY Bounds
<1>2. Loose(m, n) = [bg |-> m, key |-> PlainKey, round |-> z, spawn |-> s, n |-> n, at |-> "wait",
                     by |-> NoPod, busy |-> FALSE, retry |-> r, stalls |-> t]
  BY <1>1 DEF Loose
<1>3. Loose(m, n) \in LaneJob /\ Loose(m, n).busy = FALSE BY <1>2, Bounds DEF LaneJob
<1> QED BY <1>3 DEF GoodLane

LEMMA ChildFacts ==
  ASSUME NEW m \in Bg, NEW k \in Keys, NEW j \in CoordJob, NEW n \in 1..j.want
  PROVE  GoodLane(Child(m, k, j, n)) /\ ~Child(m, k, j, n).busy
<1>1. n \in 1..Slots BY Bounds DEF CoordJob
<1>2. PICK l : l = Loose(m, n) OBVIOUS
<1>3. l \in LaneJob /\ ~l.busy BY <1>1, <1>2, LooseFacts DEF GoodLane
<1>4. PICK r \in 0..MaxRounds, s \in 0..MaxSpawns : r = j.mem /\ s = j.spawn BY DEF CoordJob
<1>5. PICK x : x = Child(m, k, j, n) OBVIOUS
<1>6. x = [l EXCEPT !.key = k, !.round = r, !.spawn = s] BY <1>2, <1>4, <1>5 DEF Child
<1>7. x \in LaneJob /\ x.busy = l.busy BY <1>3, <1>6 DEF LaneJob
<1> QED BY <1>3, <1>5, <1>7 DEF GoodLane

LEMMA CoordFollows ==
  ASSUME BackInv, UNCHANGED round, NEW m \in Bg, NEW k \in Keys,
         NEW x, Follows(x, coord[m][k]), SetCoord(m, k, x)
  PROVE  CoordsInv'
<1>1. CoordsInv /\ round \in [Bg -> 0..MaxRounds] BY DEF BackInv, BackTypes
<1>2. x \in CoordJob /\ x.tries < MaxTries /\ Rounds(x) \subseteq Rounds(coord[m][k])
  BY <1>1 DEF Follows, CoordsInv
<1> QED BY <1>1, <1>2, CoordSet

\* A chain ends, and what it waited for may be healed.
LEMMA ChainEnds ==
  ASSUME CoordsInv, NEW m \in Bg, NEW k \in Keys
  PROVE  /\ Without(m, k) \in [Bg -> [Keys -> CoordJob]]
         /\ \A n \in Bg, q \in Keys :
              Without(m, k)[n][q] = coord[n][q] \/ Without(m, k)[n][q] = NoCoord
BY JobFacts DEF Without, CoordsInv

\* The kit's answer: a new chain has a round of its own.
LEMMA StepKeeps ==
  ASSUME BackInv, NEW m \in Bg, NEW k \in Keys, CoordStep(m, k)
  PROVE  BackInv'
<1>0. PICK j, r, free : j = coord[m][k] /\ r = RoundFor(m, j) /\ free = Slots - Leases(m)
  OBVIOUS
<1>1. BackTypes /\ CoordsInv /\ LanesInv /\ LeasesInv /\ dead \in [Bg -> Nat]
  BY DEF BackInv, LeasesInv
<1>2. j \in CoordJob /\ j.tries < MaxTries BY <1>0, <1>1 DEF CoordsInv
<1>3. /\ j.mem \in {0, round[m]} /\ r <= MaxRounds
      /\ round' = [round EXCEPT ![m] = r] /\ quiet' = [quiet EXCEPT ![m] = FALSE]
      /\ UNCHANGED <<children, svc, left, dead, trouble>>
  BY <1>0 DEF CoordStep
<1>4. round \in [Bg -> 0..MaxRounds] /\ round[m] \in Nat BY <1>1, Bounds DEF BackTypes
<1>5. /\ r \in 0..MaxRounds /\ round[m] <= r
      /\ r = round[m] + 1 \/ (j.mem = r /\ r # 0)
  BY <1>0, <1>2, <1>3, <1>4, Bounds DEF RoundFor, CoordJob
<1>6. round' \in [Bg -> 0..MaxRounds] BY <1>3, <1>4, <1>5
<1>7. \A n \in Bg : round[n] <= round'[n]
  <2>1. \A n \in Bg : round'[n] = IF n = m THEN r ELSE round[n] BY <1>3, <1>4
  <2> QED BY <1>4, <1>5, <2>1, Bounds
<1>8. Leases(m) \in Nat /\ Leases(m) <= Slots BY <1>1, LeasesFacts DEF LeasesInv
<1>9. CASE /\ bstat' = [bstat EXCEPT ![m] = "completed"]
           /\ coord' = Healed(Without(m, k), Bg \ {m})
           /\ lanes' = LanesWithout(m, k)
  <2>1. BackTypes' BY <1>1, <1>3, <1>6, <1>9 DEF BackTypes
  <2>2. LanesInv' /\ LeasesInv' BY <1>1, <1>3, <1>9, LanesSame DEF LanesWithout
  <2>3. PICK c : c = Without(m, k) OBVIOUS
  <2>4. c \in [Bg -> [Keys -> CoordJob]]
        /\ \A n \in Bg, q \in Keys : c[n][q] = coord[n][q] \/ c[n][q] = NoCoord
    BY <1>1, <2>3, ChainEnds
  <2>5. coord' = Healed(c, Bg \ {m}) BY <1>9, <2>3
  <2>6. /\ coord' \in [Bg -> [Keys -> CoordJob]]
        /\ \A n \in Bg, q \in Keys : coord'[n][q] = c[n][q] \/ coord'[n][q] = Queued
    <3>1. PICK d : d = coord' OBVIOUS
    <3>2. (\E ms : d = Healed(c, ms)) \/ (\E n \in Bg : \E ks : d = Added(c, n, ks))
      BY <2>5, <3>1
    <3>3. /\ d \in [Bg -> [Keys -> CoordJob]]
          /\ \A n \in Bg, q \in Keys : d[n][q] = c[n][q] \/ d[n][q] = Queued
      BY <2>4, <3>2, HealFacts
    <3> QED BY <3>1, <3>3
  <2>7. \A n \in Bg, q \in Keys : coord'[n][q] \in {coord[n][q], NoCoord, Queued} BY <2>4, <2>6
  <2>8. /\ \A n \in Bg, q \in Keys : coord'[n][q].tries < MaxTries
        /\ \A n \in Bg, q \in Keys : Rounds(coord'[n][q]) \subseteq Rounds(coord[n][q])
    <3>1. 0 < MaxTries /\ \A n \in Bg, q \in Keys : coord[n][q].tries < MaxTries
      BY <1>1, Bounds DEF CoordsInv
    <3> QED BY <2>7, <3>1, JobFacts
  <2>9. CoordsInv' BY <1>1, <1>4, <1>6, <1>7, <2>6, <2>8, RoundsGo
  <2> QED BY <2>1, <2>2, <2>9 DEF BackInv
\* What the job knows is its round, and nobody else's.
<1>a. ASSUME NEW x \in CoordJob, x.tries = j.tries, Rounds(x) \subseteq Rounds(j) \cup {r},
             SetCoord(m, k, x)
      PROVE  CoordsInv'
  <2>1. x \in CoordJob /\ x.tries = j.tries /\ Rounds(x) \subseteq Rounds(j) \cup {r} BY <1>a
  <2>2. coord \in [Bg -> [Keys -> CoordJob]] /\ coord' = [coord EXCEPT ![m][k] = x]
    BY <1>1, <1>a DEF CoordsInv, SetCoord
  <2>3. coord' \in [Bg -> [Keys -> CoordJob]] BY <2>1, <2>2
  <2>4. \A n2 \in Bg, q \in Keys :
          \/ coord'[n2][q] = coord[n2][q] /\ (n2 # m \/ q # k)
          \/ n2 = m /\ q = k /\ coord'[n2][q] = x
    BY <2>2
  <2>5. \A n2 \in Bg, q \in Keys : coord'[n2][q].tries < MaxTries
    BY <1>1, <1>2, <2>1, <2>4 DEF CoordsInv
  <2>r. Rounds(j) = Rounds(coord[m][k]) BY <1>0
  <2>6. ASSUME NEW n2 \in Bg, NEW q \in Keys, NEW s \in Rounds(coord'[n2][q])
        PROVE  \/ s \in Rounds(coord[n2][q])
               \/ /\ round[n2] < s /\ s <= round'[n2]
                  /\ \A q2 \in Keys \ {q} : Rounds(coord'[n2][q2]) \subseteq Rounds(coord[n2][q2])
    <3>1. CASE s \in Rounds(coord[n2][q]) BY <3>1
    <3>2. CASE s \notin Rounds(coord[n2][q])
      <4>1. n2 = m /\ q = k /\ s = r BY <2>1, <2>4, <2>r, <3>2
      <4>2. \A q2 \in Keys \ {k} : coord'[m][q2] = coord[m][q2] BY <2>4
      <4>3. s # 0 BY DEF Rounds
      <4>4. j.mem # r \/ r = 0 BY <2>r, <3>2, <4>1 DEF Rounds
      <4>5. round'[m] = r BY <1>3, <1>4
      <4>6. round[m] < r BY <1>4, <1>5, <4>1, <4>3, <4>4
      <4>7. r <= round'[m] BY <1>5, <4>5
      <4> QED BY <4>1, <4>2, <4>6, <4>7
    <3> QED BY <3>1, <3>2
  <2> QED BY <1>1, <1>4, <1>6, <1>7, <2>3, <2>5, <2>6, RoundsGo
<1>m. PICK n \in 0..Slots : free \in 0..Slots => n = free BY Bounds
<1>n. PICK y, z : /\ y = Later([j EXCEPT !.mem = r])
                  /\ z = [[j EXCEPT !.mem = r] EXCEPT !.pc = "spawn", !.want = n]
  OBVIOUS
<1>o. /\ y \in CoordJob /\ y.tries = j.tries /\ Rounds(y) \subseteq Rounds(j) \cup {r}
      /\ z \in CoordJob /\ z.tries = j.tries /\ Rounds(z) \subseteq Rounds(j) \cup {r}
  <2>1. \/ y = Later([j EXCEPT !.mem = r])
        \/ y = [[j EXCEPT !.mem = r] EXCEPT !.pc = "spawn", !.want = n]
    BY <1>n
  <2>2. \/ z = Later([j EXCEPT !.mem = r])
        \/ z = [[j EXCEPT !.mem = r] EXCEPT !.pc = "spawn", !.want = n]
    BY <1>n
  <2>3. j \in CoordJob /\ r \in 0..MaxRounds BY <1>2, <1>5
  <2>4. y \in CoordJob /\ y.tries = j.tries /\ Rounds(y) \subseteq Rounds(j) \cup {r}
    BY <2>1, <2>3, KnownFacts
  <2>5. z \in CoordJob /\ z.tries = j.tries /\ Rounds(z) \subseteq Rounds(j) \cup {r}
    BY <2>2, <2>3, KnownFacts
  <2> QED BY <2>4, <2>5
<1>p. free \in 0..Slots BY <1>0, <1>8, Bounds
<1>b. CASE SetCoord(m, k, y) /\ UNCHANGED <<bstat, lanes>>
  <2>1. BackTypes' BY <1>1, <1>3, <1>6, <1>b DEF BackTypes
  <2>2. LanesInv' /\ LeasesInv' BY <1>1, <1>3, <1>b, LanesSame
  <2>3. CoordsInv' BY <1>a, <1>b, <1>o
  <2> QED BY <2>1, <2>2, <2>3 DEF BackInv
<1>c. CASE /\ IF children
              THEN /\ SetCoord(m, k, z)
                   /\ UNCHANGED lanes
              ELSE /\ lanes' = lanes \cup AddLoose(m, free)
                   /\ SetCoord(m, k, y)
           /\ UNCHANGED bstat
  <2>1. BackTypes' BY <1>1, <1>3, <1>6, <1>c DEF BackTypes
  <2>4. CASE children
    <3>2. CoordsInv' BY <1>a, <1>c, <1>o, <2>4
    <3>3. LanesInv' /\ LeasesInv' BY <1>1, <1>3, <1>c, <2>4, LanesSame
    <3> QED BY <2>1, <3>2, <3>3 DEF BackInv
  <2>5. CASE ~children
    <3>1. CoordsInv' BY <1>a, <1>c, <1>o, <2>5
    <3> DEFINE S == {i \in 1..n : ~\E l \in lanes : l.bg = m /\ l.n = i}
               f == [i \in S |-> Loose(m, i)]
    <3>2. AddLoose(m, free) = {f[i] : i \in S} BY <1>m, <1>p DEF AddLoose
    <3>3. S \subseteq 1..Slots BY Bounds
    <3>a. IsFiniteSet(1..Slots) BY Bounds, FS_Interval
    <3>4. IsFiniteSet(S) BY <3>3, <3>a, FS_Subset
    <3>b. DOMAIN f = S OBVIOUS
    <3> HIDE DEF S
    <3>c. PICK g : g = f OBVIOUS
    <3>5. IsFiniteSet(AddLoose(m, free)) BY <3>2, <3>4, <3>b, <3>c, FiniteImage
    <3>6. \A x \in AddLoose(m, free) : GoodLane(x) /\ ~x.busy BY <3>2, <3>3, LooseFacts
    <3>7. lanes' = lanes \cup AddLoose(m, free) BY <1>c, <2>5
    <3>8. LanesInv' /\ LeasesInv' BY <1>1, <1>3, <3>5, <3>6, <3>7, LanesAdded
    <3> QED BY <2>1, <3>1, <3>8 DEF BackInv
  <2> QED BY <2>4, <2>5
<1>q. \/ /\ bstat' = [bstat EXCEPT ![m] = "completed"]
         /\ coord' = Healed(Without(m, k), Bg \ {m})
         /\ lanes' = LanesWithout(m, k)
      \/ SetCoord(m, k, y) /\ UNCHANGED <<bstat, lanes>>
      \/ /\ IF children
            THEN /\ SetCoord(m, k, z)
                 /\ UNCHANGED lanes
            ELSE /\ lanes' = lanes \cup AddLoose(m, free)
                 /\ SetCoord(m, k, y)
         /\ UNCHANGED bstat
  BY <1>0, <1>m, <1>n, <1>p, Zenon DEF CoordStep
<1> QED BY <1>9, <1>b, <1>c, <1>q

\* A coordinator's step.
LEMMA CoordinatorStep ==
  ASSUME BackInv, NEW m \in Bg, NEW k \in Keys, Coordinator(m, k)
  PROVE  BackInv'
<1>1. BackTypes /\ CoordsInv /\ LanesInv /\ LeasesInv BY DEF BackInv
<1>2. PICK j : j = coord[m][k] OBVIOUS
<1>3. j \in CoordJob /\ j.tries < MaxTries /\ Rounds(j) = Rounds(coord[m][k])
  BY <1>1, <1>2 DEF CoordsInv
<1>4. round \in [Bg -> 0..MaxRounds] BY <1>1 DEF BackTypes
\* Nothing but the coordinator changes.
<1>5. ASSUME NEW x, Follows(x, j), SetCoord(m, k, x),
             UNCHANGED <<children, svc, bstat, left, round, dead, quiet, lanes, trouble>>
      PROVE  BackInv'
  <2>1. CoordsInv' BY <1>2, <1>5, CoordFollows
  <2>2. BackTypes' BY <1>1, <1>5 DEF BackTypes
  <2>3. LanesInv' /\ LeasesInv' BY <1>1, <1>5, LanesSame
  <2> QED BY <2>1, <2>2, <2>3 DEF BackInv
<1>6. ASSUME NEW p \in Pod, CoordFetch(p, m, k) PROVE BackInv'
  <2>1. PICK x : x = [j EXCEPT !.at = "active", !.by = p, !.pc = "step", !.mem = j.round] OBVIOUS
  <2>2. Follows(x, j) BY <1>3, <2>1, FetchedFollows
  <2>3. SetCoord(m, k, x)
        /\ UNCHANGED <<children, svc, bstat, left, round, dead, quiet, lanes, trouble>>
    BY <1>2, <1>6, <2>1 DEF CoordFetch
  <2> QED BY <1>5, <2>2, <2>3
<1>7. CASE CoordStops(m, k) \/ CoordBusy(m, k)
  <2>1. SetCoord(m, k, Later(j))
        /\ UNCHANGED <<children, svc, bstat, left, round, dead, quiet, lanes, trouble>>
    BY <1>2, <1>7 DEF CoordStops, CoordBusy
  <2> QED BY <1>3, <1>5, <2>1, LaterFollows
<1>8. CASE CoordBowsOut(m, k)
  <2>1. /\ coord' = Healed(Without(m, k), Bg) \/ coord' = Without(m, k)
        /\ lanes' \subseteq lanes
        /\ UNCHANGED <<children, svc, bstat, left, round, dead, quiet, trouble>>
    BY <1>8 DEF CoordBowsOut, LanesWithout
  <2>2. BackTypes' BY <1>1, <2>1 DEF BackTypes
  <2>3. LanesInv' /\ LeasesInv' BY <1>1, <2>1, LanesSame
  <2>4. PICK c : c = Without(m, k) OBVIOUS
  <2>5. c \in [Bg -> [Keys -> CoordJob]]
        /\ \A n \in Bg, q \in Keys : c[n][q] = coord[n][q] \/ c[n][q] = NoCoord
    BY <1>1, <2>4, ChainEnds
  <2>6. \/ \E ms : coord' = Healed(c, ms)
        \/ \E n \in Bg : \E ks : coord' = Added(c, n, ks)
        \/ coord' = c
    BY <2>1, <2>4
  <2>7. round' = round BY <2>1
  <2>8. CoordsInv' BY <1>1, <1>4, <2>5, <2>6, <2>7, CoordsHealed
  <2> QED BY <2>2, <2>3, <2>8 DEF BackInv
<1>9. CASE CoordStep(m, k) BY <1>9, StepKeeps
<1>10. CASE CoordUpdates(m, k)
  <2>1. PICK x : x = [j EXCEPT !.pc = "add", !.round = j.mem, !.spawn = j.spawn + 1] OBVIOUS
  <2>2. j.spawn < MaxSpawns /\ SetCoord(m, k, x)
        /\ UNCHANGED <<children, svc, bstat, left, round, dead, quiet, lanes, trouble>>
    BY <1>2, <1>10, <2>1 DEF CoordUpdates
  <2>3. Follows(x, j) BY <1>3, <2>1, <2>2, UpdatesFollows
  <2> QED BY <1>5, <2>2, <2>3
<1>11. CASE CoordAddsLanes(m, k)
  <2>1. PICK x : x = [j EXCEPT !.pc = "move", !.want = 0] OBVIOUS
  <2>2. Follows(x, j) BY <1>3, <2>1, MovesFollow
  <2> DEFINE f == [n \in 1..j.want |-> Child(m, k, j, n)]
  <2>3. PICK new : new = {f[n] : n \in 1..j.want} OBVIOUS
  <2>4. /\ SetCoord(m, k, x) /\ lanes' \subseteq lanes \cup new
        /\ UNCHANGED <<children, svc, bstat, left, round, dead, quiet, trouble>>
    BY <1>2, <1>11, <2>1, <2>3 DEF CoordAddsLanes
  <2>5. j.want \in Nat BY <1>3, Bounds DEF CoordJob
  <2>6. IsFiniteSet(1..j.want) BY <2>5, FS_Interval
  <2>7. DOMAIN f = 1..j.want OBVIOUS
  <2>8. PICK g : g = f OBVIOUS
  <2>9. IsFiniteSet(new) BY <2>3, <2>6, <2>7, <2>8, FiniteImage
  <2>10. \A y \in new : GoodLane(y) /\ ~y.busy BY <1>3, <2>3, ChildFacts
  <2>11. LanesInv' /\ LeasesInv' BY <1>1, <2>4, <2>9, <2>10, LanesAdded
  <2>12. CoordsInv' BY <1>2, <2>2, <2>4, CoordFollows
  <2>13. BackTypes' BY <1>1, <2>4 DEF BackTypes
  <2> QED BY <2>11, <2>12, <2>13 DEF BackInv
<1>12. CASE CoordMoves(m, k)
  <2>1. PICK x, y : /\ x = [j EXCEPT !.at = "children", !.by = NoPod, !.pc = "step", !.mem = 0]
                    /\ y = [j EXCEPT !.pc = "step"]
    OBVIOUS
  <2>2. Follows(x, j) BY <1>3, <2>1, MovesFollow
  <2>3. Follows(y, j) BY <1>3, <2>1, MovesFollow
  <2>4. /\ SetCoord(m, k, x) \/ SetCoord(m, k, y)
        /\ UNCHANGED <<children, svc, bstat, left, round, dead, quiet, lanes, trouble>>
    BY <1>2, <1>12, <2>1 DEF CoordMoves
  <2> QED BY <1>5, <2>2, <2>3, <2>4
\* It ends, or is run again.
<1>13. ASSUME NEW x, x \in CoordJob /\ x.tries < MaxTries /\ Rounds(x) \subseteq Rounds(j),
              SetCoord(m, k, x), lanes' \subseteq lanes, trouble' \in 0..MaxTrouble,
              UNCHANGED <<children, svc, bstat, left, round, dead, quiet>>
       PROVE  BackInv'
  <2>1. round' = round /\ dead' = dead BY <1>13
  <2>2. CoordsInv' BY <1>1, <1>3, <1>4, <1>13, <2>1, CoordSet
  <2>3. LanesInv' /\ LeasesInv' BY <1>1, <1>13, <2>1, LanesSame
  <2>4. BackTypes' BY <1>1, <1>13 DEF BackTypes
  <2> QED BY <2>2, <2>3, <2>4 DEF BackInv
<1>14. NoCoord \in CoordJob /\ NoCoord.tries < MaxTries /\ Rounds(NoCoord) \subseteq Rounds(j)
  BY JobFacts, Bounds
<1>15. CASE CoordFails(m, k)
  <2>1. PICK x : x = [j EXCEPT !.at = "wait", !.by = NoPod, !.pc = "step", !.mem = 0, !.want = 0,
                               !.tries = j.tries + 1]
    OBVIOUS
  <2>2. /\ SetCoord(m, k, NoCoord) \/ (j.tries + 1 # MaxTries /\ SetCoord(m, k, x))
        /\ lanes' \subseteq lanes
        /\ Trouble /\ UNCHANGED <<children, svc, bstat, left, round, dead, quiet>>
    BY <1>2, <1>15, <2>1 DEF CoordFails, LanesWithout
  <2>3. trouble' \in 0..MaxTrouble BY <1>1, <2>2, TroubleKept DEF BackTypes
  <2>4. j.tries + 1 # MaxTries =>
          x \in CoordJob /\ x.tries < MaxTries /\ Rounds(x) \subseteq Rounds(j)
    BY <1>3, <2>1, AgainFollows
  <2>5. CASE SetCoord(m, k, NoCoord) BY <1>13, <1>14, <2>2, <2>3, <2>5
  <2>6. CASE j.tries + 1 # MaxTries /\ SetCoord(m, k, x) BY <1>13, <2>2, <2>3, <2>4, <2>6
  <2> QED BY <2>2, <2>5, <2>6
<1>16. CASE CoordStalls(m, k)
  <2>1. PICK x : x = [j EXCEPT !.at = "wait", !.pc = "step", !.mem = 0, !.want = 0,
                               !.stalls = j.stalls + 1]
    OBVIOUS
  <2>2. /\ SetCoord(m, k, NoCoord) \/ (j.stalls # MaxStalls /\ SetCoord(m, k, x))
        /\ lanes' \subseteq lanes
        /\ UNCHANGED <<children, svc, bstat, left, round, dead, quiet, trouble>>
    BY <1>2, <1>16, <2>1 DEF CoordStalls, LanesWithout
  <2>3. trouble' \in 0..MaxTrouble BY <1>1, <2>2 DEF BackTypes
  <2>4. j.stalls # MaxStalls =>
          x \in CoordJob /\ x.tries < MaxTries /\ Rounds(x) \subseteq Rounds(j)
    BY <1>3, <2>1, AgainFollows
  <2>5. CASE SetCoord(m, k, NoCoord) BY <1>13, <1>14, <2>2, <2>3, <2>5
  <2>6. CASE j.stalls # MaxStalls /\ SetCoord(m, k, x) BY <1>13, <2>2, <2>3, <2>4, <2>6
  <2> QED BY <2>2, <2>5, <2>6
<1> QED BY <1>6, <1>7, <1>8, <1>9, <1>10, <1>11, <1>12, <1>15, <1>16 DEF Coordinator

-----------------------------------------------------------------------------
(* The background queue as a whole.                                        *)

\* A heal, an add, or nothing: what else the steps of the migration queue do to
\* the coordinators.
LEMMA AddsKeep ==
  ASSUME CoordsInv, round \in [Bg -> 0..MaxRounds], UNCHANGED round,
         Heal \/ (\E m \in Bg : \E ks : coord' = Added(coord, m, ks)) \/ coord' = coord
  PROVE  CoordsInv'
<1>1. PICK c : c = coord OBVIOUS
<1>2. c \in [Bg -> [Keys -> CoordJob]] BY <1>1 DEF CoordsInv
<1>3. \/ \E ms : coord' = Healed(c, ms)
      \/ \E m \in Bg : \E ks : coord' = Added(c, m, ks)
      \/ coord' = c
  BY <1>1 DEF Heal
<1>4. \A m \in Bg, k \in Keys : c[m][k] = coord[m][k] \/ c[m][k] = NoCoord BY <1>1
<1> QED BY <1>2, <1>3, <1>4, CoordsHealed

LEMMA BackgroundStarts == BackgroundInit => BackInv
<1> SUFFICES ASSUME BackgroundInit PROVE BackInv OBVIOUS
<1>1. BackTypes BY Bounds DEF BackgroundInit, BackTypes
<1>2. CoordsInv BY JobFacts, Bounds DEF BackgroundInit, CoordsInv
<1>3. LanesInv BY FS_EmptySet DEF BackgroundInit, LanesInv
<1>4. ASSUME NEW m \in Bg PROVE Leases(m) <= Slots
  <2>1. {l \in lanes : l.bg = m /\ l.busy} = {} BY DEF BackgroundInit
  <2>2. Leases(m) = 0 BY <2>1, FS_EmptySet DEF BackgroundInit, Leases
  <2> QED BY <2>2, Bounds
<1>5. LeasesInv BY <1>4 DEF BackgroundInit, LeasesInv
<1> QED BY <1>1, <1>2, <1>3, <1>5 DEF BackInv

LEMMA BackgroundStep ==
  ASSUME BackInv, BackgroundNext
  PROVE  BackInv'
<1>1. BackTypes /\ CoordsInv /\ LanesInv /\ LeasesInv /\ round \in [Bg -> 0..MaxRounds]
  BY DEF BackInv, BackTypes
<1>2. ASSUME NEW p \in Pod, Verify(p) PROVE BackInv'
  <2>1. Heal /\ UNCHANGED <<children, svc, bstat, left, round, dead, quiet, lanes, trouble>>
    BY <1>2 DEF Verify
  <2>2. CoordsInv' BY <1>1, <2>1, AddsKeep
  <2>3. BackTypes' BY <1>1, <2>1 DEF BackTypes
  <2>4. LanesInv' /\ LeasesInv' BY <1>1, <2>1, LanesSame
  <2> QED BY <2>2, <2>3, <2>4 DEF BackInv
<1>3. ASSUME NEW p \in Pod, NEW m \in Bg, Drift(p, m) PROVE BackInv'
  <2>1. /\ bstat' = [bstat EXCEPT ![m] = "running"] /\ left' = [left EXCEPT ![m] = 1]
        /\ coord' = Added(coord, m, {PlainKey}) /\ Trouble
        /\ UNCHANGED <<children, svc, round, dead, quiet, lanes>>
    BY <1>3 DEF Drift
  <2>2. \E n \in Bg : \E ks : coord' = Added(coord, n, ks) BY <2>1
  <2>3. CoordsInv' BY <1>1, <2>1, <2>2, AddsKeep
  <2>4. trouble' \in 0..MaxTrouble BY <1>1, <2>1, TroubleKept DEF BackTypes
  <2>5. bstat' \in [Bg -> {"none", "running", "completed"}] /\ left' \in [Bg -> 0..Slices]
    BY <1>1, <2>1, Bounds DEF BackTypes
  <2>6. BackTypes' BY <1>1, <2>1, <2>4, <2>5 DEF BackTypes
  <2>7. LanesInv' /\ LeasesInv' BY <1>1, <2>1, LanesSame
  <2> QED BY <2>3, <2>6, <2>7 DEF BackInv
<1>4. ASSUME NEW m \in Bg, FallsQuiet(m) PROVE BackInv'
  <2>1. /\ quiet' = [quiet EXCEPT ![m] = TRUE]
        /\ trouble' = trouble \/ Trouble
        /\ UNCHANGED <<children, svc, bstat, left, round, dead, coord, lanes>>
    BY <1>4 DEF FallsQuiet
  <2>2. trouble' \in 0..MaxTrouble BY <1>1, <2>1, TroubleKept DEF BackTypes
  <2>a. quiet' \in [Bg -> BOOLEAN] BY <1>1, <2>1 DEF BackTypes
  <2>b. UNCHANGED <<children, svc, bstat, left, round, coord>> BY <2>1
  <2>c. BackTypes' BY <1>1, <2>2, <2>a, <2>b DEF BackTypes
  <2>d. CoordsInv' BY <1>1, <2>b DEF CoordsInv
  <2>3. BackTypes' /\ CoordsInv' BY <2>c, <2>d
  <2>4. LanesInv' /\ LeasesInv' BY <1>1, <2>1, LanesSame
  <2> QED BY <2>3, <2>4 DEF BackInv
<1>5. ASSUME NEW m \in Bg, LeaseExpires(m) PROVE BackInv'
  <2>1. /\ dead[m] > 0 /\ dead' = [dead EXCEPT ![m] = dead[m] - 1]
        /\ UNCHANGED <<children, svc, bstat, left, round, quiet, coord, lanes, trouble>>
    BY <1>5 DEF LeaseExpires
  <2>2. dead \in [Bg -> Nat] BY <1>1 DEF LeasesInv
  <2>3. dead[m] - 1 \in Nat /\ dead[m] - 1 <= dead[m] BY <2>1, <2>2
  <2>4. dead' \in [Bg -> Nat] BY <2>1, <2>2, <2>3
  <2>5. \A n \in Bg : dead'[n] <= dead[n]
    <3>1. \A n \in Bg : dead'[n] = IF n = m THEN dead[m] - 1 ELSE dead[n] BY <2>1, <2>2
    <3> QED BY <2>2, <2>3, <3>1
  <2>6. IsFiniteSet(lanes') /\ \A l \in lanes' : GoodLane(l) /\ (l.busy => l \in lanes)
    BY <1>1, <2>1 DEF LanesInv
  <2>7. LanesInv' /\ LeasesInv' BY <1>1, <2>4, <2>5, <2>6, LanesKept
  <2>8. BackTypes' /\ CoordsInv' BY <1>1, <2>1 DEF BackTypes, CoordsInv
  <2> QED BY <2>7, <2>8 DEF BackInv
<1> QED BY <1>2, <1>3, <1>4, <1>5, CoordinatorStep, LaneStep DEF BackgroundNext

\* A process dies: its jobs are nobody's, and its leases stay until they expire.
LEMMA CrashKeeps ==
  ASSUME BackInv, NEW p \in Pod, UNCHANGED round,
         coord' = CoordsLeft(p), lanes' = LanesLeft(p), dead' = LeasesLeft(p)
  PROVE  CoordsInv' /\ LanesInv' /\ LeasesInv'
<1>1. /\ CoordsInv /\ LanesInv /\ LeasesInv /\ round \in [Bg -> 0..MaxRounds]
      /\ coord \in [Bg -> [Keys -> CoordJob]] /\ dead \in [Bg -> Nat]
  BY DEF BackInv, BackTypes, CoordsInv, LeasesInv
<1>2. ASSUME NEW m \in Bg, NEW k \in Keys
      PROVE  Follows(coord'[m][k], coord[m][k]) /\ Rounds(coord'[m][k]) = Rounds(coord[m][k])
  <2>1. PICK j \in CoordJob : j = coord[m][k] BY <1>1
  <2>2. PICK x : x = [j EXCEPT !.by = NoPod] OBVIOUS
  <2>3. Follows(x, j) BY <2>2, MovesFollow
  <2>4. x.mem = j.mem /\ x.round = j.round BY <2>2 DEF CoordJob
  <2>5. coord'[m][k] = x \/ coord'[m][k] = j BY <2>1, <2>2 DEF CoordsLeft
  <2> QED BY <2>1, <2>3, <2>4, <2>5 DEF Follows, Rounds
<1>3. coord' = [m \in Bg |-> [k \in Keys |-> coord'[m][k]]] BY DEF CoordsLeft
<1>4. coord' \in [Bg -> [Keys -> CoordJob]] BY <1>2, <1>3 DEF Follows
<1>5. \A m \in Bg, k \in Keys :
        /\ Rounds(coord'[m][k]) = Rounds(coord[m][k])
        /\ coord'[m][k].tries = coord[m][k].tries
  BY <1>2 DEF Follows
<1>6. CoordsInv' BY <1>1, <1>4, <1>5, CoordsSet
<1> DEFINE To(l) == IF l.by = p THEN [l EXCEPT !.by = NoPod, !.busy = FALSE] ELSE l
           f == [l \in lanes |-> To(l)]
<1>7. IsFiniteSet(lanes')
  <2>1. PICK g : g = f OBVIOUS
  <2>2. DOMAIN g = lanes /\ IsFiniteSet(lanes) BY <1>1, <2>1 DEF LanesInv
  <2>3. lanes' = {g[l] : l \in lanes} BY <2>1 DEF LanesLeft
  <2>4. IsFiniteSet({g[l] : l \in lanes}) BY <2>2, FiniteImage
  <2> QED BY <2>3, <2>4
<1>8. ASSUME NEW y \in lanes'
      PROVE  GoodLane(y) /\ (y.busy => y \in lanes /\ y.by # p)
  <2>1. PICK l \in lanes : y = To(l) BY DEF LanesLeft
  <2>2. GoodLane(l) BY <1>1 DEF LanesInv
  <2>3. CASE l.by = p
    <3>1. y = [l EXCEPT !.by = NoPod, !.busy = FALSE] BY <2>1, <2>3
    <3> QED BY <2>2, <3>1, LaneForms
  <2>4. CASE l.by # p BY <2>1, <2>2, <2>4
  <2> QED BY <2>3, <2>4
<1>9. LanesInv' BY <1>7, <1>8 DEF LanesInv, GoodLane
<1>10. ASSUME NEW m \in Bg PROVE dead'[m] \in Nat /\ Leases(m)' <= Slots
  <2>1. PICK his, ls : his = {l \in lanes : l.bg = m /\ l.by = p /\ l.busy} /\ ls = lanes' OBVIOUS
  <2>2. /\ IsFiniteSet(Busy(m, lanes)) /\ Cardinality(Busy(m, lanes)) \in Nat /\ dead[m] \in Nat
        /\ dead[m] + Cardinality(Busy(m, lanes)) <= Slots
    BY <1>1, LeasesFacts DEF LeasesInv
  <2>3. his \subseteq Busy(m, lanes) BY <2>1 DEF Busy
  <2>4. IsFiniteSet(his) /\ Cardinality(his) \in Nat BY <2>2, <2>3, FS_Subset, FS_CardinalityType
  <2>5. dead'[m] = dead[m] + Cardinality(his) BY <2>1 DEF LeasesLeft
  <2>6. Busy(m, ls) \subseteq Busy(m, lanes) /\ Busy(m, ls) \cap his = {}
    BY <1>8, <2>1 DEF Busy
  <2>7. IsFiniteSet(Busy(m, ls)) /\ Cardinality(Busy(m, ls)) \in Nat
    BY <2>2, <2>6, FS_Subset, FS_CardinalityType
  <2>8. Cardinality(Busy(m, ls) \cup his) = Cardinality(Busy(m, ls)) + Cardinality(his)
    <3>1. Cardinality(Busy(m, ls) \cap his) = 0 BY <2>6, FS_EmptySet
    <3>2. Cardinality(Busy(m, ls) \cup his)
            = Cardinality(Busy(m, ls)) + Cardinality(his) - Cardinality(Busy(m, ls) \cap his)
      BY <2>4, <2>7, FS_Union
    <3> QED BY <2>4, <2>7, <3>1, <3>2
  <2>9. Cardinality(Busy(m, ls) \cup his) <= Cardinality(Busy(m, lanes))
    BY <2>2, <2>3, <2>6, FS_Subset
  <2>10. Leases(m)' = dead'[m] + Cardinality(Busy(m, ls)) BY <2>1 DEF Leases, Busy
  <2> QED BY <2>2, <2>4, <2>5, <2>7, <2>8, <2>9, <2>10, Bounds
<1>11. dead' \in [Bg -> Nat] BY <1>10 DEF LeasesLeft
<1>12. LeasesInv' BY <1>10, <1>11 DEF LeasesInv
<1> QED BY <1>6, <1>9, <1>12

\* A flushed Redis: the leases outlive the lanes.
LEMMA FlushKeeps ==
  ASSUME BackInv, UNCHANGED round,
         coord' = NoCoords, lanes' = {}, dead' = AllLeasesLeft
  PROVE  CoordsInv' /\ LanesInv' /\ LeasesInv'
<1>1. CoordsInv /\ LanesInv /\ LeasesInv /\ round \in [Bg -> 0..MaxRounds] /\ dead \in [Bg -> Nat]
  BY DEF BackInv, BackTypes, LeasesInv
<1>2. coord' \in [Bg -> [Keys -> CoordJob]] BY JobFacts DEF NoCoords
<1>3. \A m \in Bg, k \in Keys : Rounds(coord'[m][k]) = {} /\ coord'[m][k].tries = 0
  BY JobFacts DEF NoCoords
<1>4. CoordsInv' BY <1>1, <1>2, <1>3, CoordsSet
<1>5. LanesInv' BY FS_EmptySet DEF LanesInv
<1>6. ASSUME NEW m \in Bg PROVE dead'[m] \in Nat /\ Leases(m)' <= Slots
  <2>1. Leases(m) \in Nat /\ Leases(m) <= Slots BY <1>1, LeasesFacts DEF LeasesInv
  <2>2. dead'[m] = Leases(m) BY DEF AllLeasesLeft
  <2>3. PICK ls : ls = lanes' OBVIOUS
  <2>4. Leases(m)' = dead'[m] + Cardinality({l \in ls : l.bg = m /\ l.busy}) BY <2>3 DEF Leases
  <2>5. {l \in ls : l.bg = m /\ l.busy} = {} BY <2>3
  <2>6. Cardinality({}) = 0 BY FS_EmptySet
  <2> QED BY <2>1, <2>2, <2>4, <2>5, <2>6
<1>7. dead' \in [Bg -> Nat] BY <1>6 DEF AllLeasesLeft
<1> QED BY <1>4, <1>5, <1>6, <1>7 DEF LeasesInv

-----------------------------------------------------------------------------
(* Sequences of jobs.  As in the proofs about runs, a finite set of numbers  *)
(* can be listed in order.                                                   *)

\* A finite set of numbers that is not empty has a greatest element.
LEMMA FiniteHasGreatest ==
  ASSUME NEW S \in SUBSET Nat, IsFiniteSet(S), S # {}
  PROVE  \E n \in S : \A m \in S : m <= n
<1> DEFINE HasLast(X) == \E n \in X : \A m \in X : m <= n
           Bad == {X \in FiniteSubsetsOf(Nat) : X # {} /\ ~HasLast(X)}
<1>1. SUFFICES ASSUME Bad # {} PROVE FALSE
  <2>1. Bad = {} OBVIOUS
  <2> QED BY <2>1 DEF FiniteSubsetsOf
<1>2. PICK X \in Bad : \A Y \in Bad : ~(<<Y, X>> \in StrictSubsetOrdering(Nat))
  <2>1. Bad \subseteq FiniteSubsetsOf(Nat) OBVIOUS
  <2>2. IsWellFoundedOn(StrictSubsetOrdering(Nat), FiniteSubsetsOf(Nat))
    BY FS_StrictSubsetOrderingWellFounded
  <2> HIDE DEF Bad
  <2> QED BY <2>1, <2>2, <1>1, WFMin
<1>3. X \in SUBSET Nat /\ IsFiniteSet(X) /\ X # {} /\ ~HasLast(X) BY DEF FiniteSubsetsOf
<1>4. PICK x \in X : TRUE BY <1>3
<1> DEFINE Y == X \ {x}
<1>5. IsFiniteSet(Y) /\ Y # {} BY <1>3, <1>4, FS_Subset
<1>6. Y \in FiniteSubsetsOf(Nat) BY <1>3, <1>5 DEF FiniteSubsetsOf
<1>7. <<Y, X>> \in StrictSubsetOrdering(Nat) BY <1>3, <1>4 DEF StrictSubsetOrdering
<1>8. HasLast(Y) BY <1>2, <1>5, <1>6, <1>7
<1> QED BY <1>8, <1>3, <1>4

\* s lists S in ascending order.
Lists(s, S) ==
  /\ s \in [1..Cardinality(S) -> S]
  /\ \A i, j \in 1..Cardinality(S) : i < j => s[i] < s[j]

\* Every finite set of numbers can be listed in ascending order.
LEMMA FiniteIsListed ==
  ASSUME NEW S \in SUBSET Nat, IsFiniteSet(S)
  PROVE  \E s : Lists(s, S)
<1> DEFINE IsListed(X) == \E s : Lists(s, X)
           Bad == {X \in FiniteSubsetsOf(Nat) : ~IsListed(X)}
<1>1. SUFFICES ASSUME Bad # {} PROVE FALSE
  <2>1. Bad = {} OBVIOUS
  <2> QED BY <2>1 DEF FiniteSubsetsOf
<1>2. PICK X \in Bad : \A Y \in Bad : ~(<<Y, X>> \in StrictSubsetOrdering(Nat))
  <2>1. Bad \subseteq FiniteSubsetsOf(Nat) OBVIOUS
  <2>2. IsWellFoundedOn(StrictSubsetOrdering(Nat), FiniteSubsetsOf(Nat))
    BY FS_StrictSubsetOrderingWellFounded
  <2> HIDE DEF Bad
  <2> QED BY <2>1, <2>2, <1>1, WFMin
<1>3. X \in SUBSET Nat /\ IsFiniteSet(X) /\ ~IsListed(X) BY DEF FiniteSubsetsOf
<1>4. X # {}
  <2>1. SUFFICES ASSUME X = {} PROVE FALSE OBVIOUS
  <2>2. Cardinality(X) = 0 BY <2>1, FS_EmptySet
  <2>3. Lists(<<>>, X) BY <2>1, <2>2 DEF Lists
  <2> QED BY <2>3, <1>3
<1>5. PICK x \in X : \A y \in X : y <= x BY <1>3, <1>4, FiniteHasGreatest
<1> DEFINE Y == X \ {x}
           n == Cardinality(Y)
<1>6. IsFiniteSet(Y) /\ n \in Nat /\ Cardinality(X) = n + 1
  <2>1. IsFiniteSet(Y) /\ n = Cardinality(X) - 1
    BY <1>3, <1>5, FS_RemoveElement
  <2>2. Cardinality(X) \in Nat /\ n \in Nat
    BY <1>3, <2>1, FS_CardinalityType
  <2> QED
    BY <2>1, <2>2
<1>7. Y \in FiniteSubsetsOf(Nat) BY <1>3, <1>6 DEF FiniteSubsetsOf
<1>8. <<Y, X>> \in StrictSubsetOrdering(Nat) BY <1>3, <1>5 DEF StrictSubsetOrdering
<1>9. PICK s : Lists(s, Y) BY <1>2, <1>7, <1>8
<1>10. s \in [1..n -> Y] /\ \A i, j \in 1..n : i < j => s[i] < s[j] BY <1>9 DEF Lists
<1> DEFINE t == [i \in 1..n + 1 |-> IF i = n + 1 THEN x ELSE s[i]]
<1> HIDE DEF n
<1>11. t \in [1..n + 1 -> X]
  <2>1. \A i \in 1..n + 1 : i # n + 1 => i \in 1..n BY <1>6
  <2> QED BY <1>5, <1>10, <2>1
<1>12. ASSUME NEW i \in 1..n + 1, NEW j \in 1..n + 1, i < j PROVE t[i] < t[j]
  <2>1. i \in 1..n /\ t[i] = s[i] /\ s[i] \in Y BY <1>6, <1>10, <1>12
  <2>2. CASE j = n + 1
    <3>1. s[i] \in Nat /\ x \in Nat /\ s[i] <= x /\ s[i] # x BY <1>3, <1>5, <2>1
    <3> QED BY <2>1, <2>2, <3>1
  <2>3. CASE j # n + 1
    <3>1. j \in 1..n BY <1>6, <2>3
    <3> QED BY <1>10, <1>12, <2>1, <2>3, <3>1
  <2> QED BY <2>2, <2>3
<1>13. Lists(t, X) BY <1>6, <1>11, <1>12 DEF Lists
<1> QED BY <1>3, <1>13

\* InOrder lists a set, each element once.
LEMMA InOrderFacts ==
  ASSUME NEW S \in SUBSET Nat, IsFiniteSet(S)
  PROVE  /\ Cardinality(S) \in Nat /\ DOMAIN InOrder(S) = 1..Cardinality(S)
         /\ InOrder(S) \in [1..Cardinality(S) -> S]
         /\ \A i, j \in 1..Cardinality(S) : i # j => InOrder(S)[i] # InOrder(S)[j]
<1>1. PICK n \in Nat : n = Cardinality(S) BY FS_CardinalityType
<1>2. Lists(InOrder(S), S) BY FiniteIsListed DEF Lists, InOrder
<1>3. PICK s : s = InOrder(S) OBVIOUS
<1>4. s \in [1..n -> S] /\ \A i, j \in 1..n : i < j => s[i] < s[j]
  BY <1>1, <1>2, <1>3 DEF Lists
<1>5. ASSUME NEW i \in 1..n, NEW j \in 1..n, i # j PROVE s[i] # s[j]
  <2>1. i < j \/ j < i BY <1>1, <1>5
  <2>2. s[i] \in Nat /\ s[j] \in Nat BY <1>4
  <2> QED BY <1>4, <2>1, <2>2
<1> QED BY <1>1, <1>3, <1>4, <1>5

-----------------------------------------------------------------------------
(* Jobs and their keys.                                                    *)

\* A job that applies or reverts a migration names one.
GoodJob == {j \in Job : j.what \in {"up", "down"} => j.file \in File}

LineKeys(s) == {Key(s[i]) : i \in DOMAIN s}
Apart(s) == \A i, j \in DOMAIN s : i # j => Key(s[i]) # Key(s[j])

LEMMA JoinFacts ==
  ASSUME NEW S, NEW s \in Seq(S), NEW t \in Seq(S)
  PROVE  /\ s \o t \in Seq(S)
         /\ LineKeys(s \o t) = LineKeys(s) \cup LineKeys(t)
         /\ Apart(s) /\ Apart(t) /\ LineKeys(s) \cap LineKeys(t) = {} => Apart(s \o t)
<1>1. PICK u : u = s \o t OBVIOUS
<1>2. PICK a \in Nat, b \in Nat : a = Len(s) /\ b = Len(t) OBVIOUS
<1>3. /\ u \in Seq(S) /\ Len(u) = a + b
      /\ DOMAIN s = 1..a /\ DOMAIN t = 1..b /\ DOMAIN u = 1..a + b
      /\ \A i \in 1..a + b : u[i] = IF i <= a THEN s[i] ELSE t[i - a]
  BY <1>1, <1>2
<1>4. \A i \in 1..a : i \in 1..a + b /\ u[i] = s[i] BY <1>2, <1>3
<1>5. \A i \in 1..b : a + i \in 1..a + b /\ u[a + i] = t[i] BY <1>2, <1>3
<1>6. \A i \in 1..a + b : i \in 1..a \/ \E k \in 1..b : i = a + k
  <2>1. ASSUME NEW i \in 1..a + b, i \notin 1..a PROVE \E k \in 1..b : i = a + k
    <3>1. i - a \in 1..b /\ i = a + (i - a) BY <1>2, <2>1
    <3> QED BY <3>1
  <2> QED BY <2>1
<1>7. LineKeys(u) = LineKeys(s) \cup LineKeys(t)
  <2>0. DOMAIN s = 1..a /\ DOMAIN t = 1..b /\ DOMAIN u = 1..a + b BY <1>3
  <2>1. ASSUME NEW i \in 1..a + b PROVE Key(u[i]) \in LineKeys(s) \cup LineKeys(t)
    <3>1. CASE i \in 1..a BY <1>4, <2>0, <3>1 DEF LineKeys
    <3>2. CASE i \notin 1..a
      <4>1. PICK k \in 1..b : i = a + k BY <1>6, <3>2
      <4>2. u[i] = t[k] BY <1>5, <4>1
      <4> QED BY <2>0, <4>2 DEF LineKeys
    <3> QED BY <3>1, <3>2
  <2>2. \A i \in 1..a : Key(s[i]) \in LineKeys(u)
    <3>1. \A i \in 1..a : i \in DOMAIN u /\ u[i] = s[i] BY <1>4, <2>0
    <3> QED BY <3>1 DEF LineKeys
  <2>3. \A i \in 1..b : Key(t[i]) \in LineKeys(u)
    <3>1. \A i \in 1..b : \E k \in DOMAIN u : u[k] = t[i] BY <1>5, <2>0
    <3> QED BY <3>1 DEF LineKeys
  <2> QED BY <2>0, <2>1, <2>2, <2>3 DEF LineKeys
<1>8. ASSUME Apart(s), Apart(t), LineKeys(s) \cap LineKeys(t) = {} PROVE Apart(u)
  <2>1. SUFFICES ASSUME NEW i \in 1..a + b, NEW j \in 1..a + b, i # j PROVE Key(u[i]) # Key(u[j])
    BY <1>3 DEF Apart
  <2>2. \A n \in 1..a, k \in 1..b : Key(s[n]) # Key(t[k]) BY <1>3, <1>8 DEF LineKeys
  <2>3. CASE i \in 1..a /\ j \in 1..a BY <1>3, <1>4, <1>8, <2>1, <2>3 DEF Apart
  <2>4. CASE i \in 1..a /\ j \notin 1..a
    <3>1. PICK k \in 1..b : j = a + k BY <1>6, <2>4
    <3> QED BY <1>4, <1>5, <2>2, <2>4, <3>1
  <2>5. CASE i \notin 1..a /\ j \in 1..a
    <3>1. PICK k \in 1..b : i = a + k BY <1>6, <2>5
    <3> QED BY <1>4, <1>5, <2>2, <2>5, <3>1
  <2>6. CASE i \notin 1..a /\ j \notin 1..a
    <3>1. PICK k \in 1..b, n \in 1..b : i = a + k /\ j = a + n BY <1>6, <2>6
    <3>2. k # n BY <2>1, <3>1
    <3>3. Key(t[k]) # Key(t[n]) BY <1>3, <1>8, <3>2 DEF Apart
    <3>4. u[i] = t[k] /\ u[j] = t[n] BY <1>5, <3>1
    <3> QED BY <3>3, <3>4
  <2> QED BY <2>3, <2>4, <2>5, <2>6
<1> QED BY <1>1, <1>3, <1>7, <1>8

\* A job joins a sequence, at its head or its end.
LEMMA PushFacts ==
  ASSUME NEW S, NEW s \in Seq(S), NEW x \in S, NEW t, t = <<x>> \o s \/ t = Append(s, x)
  PROVE  /\ t \in Seq(S) /\ LineKeys(t) = LineKeys(s) \cup {Key(x)}
         /\ Apart(s) /\ Key(x) \notin LineKeys(s) => Apart(t)
<1>1. PICK u : u = <<x>> OBVIOUS
<1>2. u \in Seq(S) /\ DOMAIN u = {1} /\ u[1] = x BY <1>1
<1>3. LineKeys(u) = {Key(x)} /\ Apart(u) BY <1>2 DEF LineKeys, Apart
<1>4. t = u \o s \/ t = s \o u
  <2>1. Append(s, x) = s \o u BY <1>1
  <2> QED BY <1>1, <2>1
<1>5. CASE t = u \o s
  <2>1. /\ u \o s \in Seq(S)
        /\ LineKeys(u \o s) = LineKeys(u) \cup LineKeys(s)
        /\ Apart(u) /\ Apart(s) /\ LineKeys(u) \cap LineKeys(s) = {} => Apart(u \o s)
    BY <1>2, JoinFacts
  <2> QED BY <1>3, <1>5, <2>1
<1>6. CASE t = s \o u
  <2>1. /\ s \o u \in Seq(S)
        /\ LineKeys(s \o u) = LineKeys(s) \cup LineKeys(u)
        /\ Apart(s) /\ Apart(u) /\ LineKeys(s) \cap LineKeys(u) = {} => Apart(s \o u)
    BY <1>2, JoinFacts
  <2> QED BY <1>3, <1>6, <2>1
<1> QED BY <1>4, <1>5, <1>6

\* The first job leaves.
LEMMA PopFacts ==
  ASSUME NEW s \in Seq(GoodJob), s # <<>>, NEW t, t = SubSeq(s, 2, Len(s))
  PROVE  /\ s[1] \in GoodJob /\ t \in Seq(GoodJob) /\ LineKeys(t) \subseteq LineKeys(s)
         /\ Key(s[1]) \in LineKeys(s)
         /\ Apart(s) => Apart(t) /\ Key(s[1]) \notin LineKeys(t)
<1>1. PICK n \in Nat : n = Len(s) OBVIOUS
<1>2. n > 0 /\ DOMAIN s = 1..n /\ s[1] \in GoodJob BY <1>1
<1>3. /\ t \in Seq(GoodJob) /\ DOMAIN t = 1..n - 1
      /\ \A i \in 1..n - 1 : i + 1 \in 1..n /\ t[i] = s[i + 1]
  <2>1. \A i \in 2..n : s[i] \in GoodJob BY <1>2
  <2>2. SubSeq(s, 2, n) \in Seq(GoodJob) BY <1>1, <1>2
  <2>3. Len(t) = n - 1 /\ \A i \in 1..n - 1 : t[i] = s[i + 1] BY <1>1, <1>2
  <2> QED BY <1>1, <1>2, <2>2, <2>3
<1>4. 1 \in DOMAIN s /\ \A i \in DOMAIN t : i + 1 \in DOMAIN s /\ i + 1 # 1 /\ t[i] = s[i + 1]
  BY <1>2, <1>3
<1>5. LineKeys(t) \subseteq LineKeys(s) /\ Key(s[1]) \in LineKeys(s) BY <1>4 DEF LineKeys
<1>6. ASSUME Apart(s) PROVE Apart(t) /\ Key(s[1]) \notin LineKeys(t)
  <2>1. Key(s[1]) \notin LineKeys(t) BY <1>4, <1>6 DEF LineKeys, Apart
  <2>2. \A i, j \in 1..n - 1 : i # j => i + 1 # j + 1 BY <1>1
  <2>3. Apart(t) BY <1>3, <1>4, <1>6, <2>2 DEF Apart
  <2> QED BY <2>1, <2>3
<1> QED BY <1>2, <1>3, <1>5, <1>6

LEMMA EmptyFacts == \A S : <<>> \in Seq(S) /\ Apart(<<>>) /\ LineKeys(<<>>) = {}
BY DEF Apart, LineKeys

\* Jobs keep their keys when their file changes.
LEMMA AgedFacts ==
  ASSUME NEW s \in Seq(GoodJob), NEW f
  PROVE  /\ Aged(s, f) \in Seq(GoodJob) /\ LineKeys(Aged(s, f)) = LineKeys(s)
         /\ Apart(s) => Apart(Aged(s, f))
<1>1. PICK t : t = Aged(s, f) OBVIOUS
<1>2. PICK n \in Nat : n = Len(s) /\ DOMAIN s = 1..n OBVIOUS
<1>3. ASSUME NEW i \in 1..n PROVE t[i] \in GoodJob /\ Key(t[i]) = Key(s[i])
  <2>1. PICK j \in GoodJob : j = s[i] BY <1>2
  <2>2. PICK x : x = [j EXCEPT !.old = TRUE] OBVIOUS
  <2>3. x \in GoodJob /\ x.what = j.what /\ x.file = j.file
    <3>1. j \in Job BY DEF GoodJob
    <3>2. x \in Job /\ x.what = j.what /\ x.file = j.file BY <2>2, <3>1 DEF Job
    <3> QED BY <3>2 DEF GoodJob
  <2>4. t[i] = x \/ t[i] = j BY <1>1, <1>2, <2>1, <2>2 DEF Aged
  <2> QED BY <2>1, <2>3, <2>4 DEF Key
<1>4. DOMAIN t = 1..n BY <1>1, <1>2 DEF Aged
<1>5. t = [i \in 1..n |-> t[i]] BY <1>1, <1>2 DEF Aged
<1>6. t \in [1..n -> GoodJob] BY <1>3, <1>5
<1>7. t \in Seq(GoodJob) BY <1>2, <1>6, SeqDef
<1>8. LineKeys(t) = LineKeys(s) BY <1>2, <1>3, <1>4 DEF LineKeys
<1>9. Apart(s) => Apart(t) BY <1>2, <1>3, <1>4 DEF Apart
<1> QED BY <1>1, <1>7, <1>8, <1>9

\* Jobs whose keys are no longer free are not added.
LEMMA AddBulkFacts ==
  ASSUME line \in Seq(GoodJob), NEW specs \in Seq(GoodJob), Apart(line), Apart(specs)
  PROVE  /\ AddBulk(specs) \in Seq(GoodJob) /\ Apart(AddBulk(specs))
         /\ \A k \in LineKeys(AddBulk(specs)) :
              k \in LineKeys(line) \/ \A x \in Active : k # Key(x)
<1>1. PICK n \in Nat : n = Len(specs) /\ DOMAIN specs = 1..n OBVIOUS
<1>2. PICK S : S = {i \in DOMAIN specs : \A x \in Live : Key(x) # Key(specs[i])} OBVIOUS
<1>3. S \in SUBSET Nat /\ S \subseteq 1..n /\ IsFiniteSet(S)
  <2>1. IsFiniteSet(1..n) BY FS_Interval
  <2>2. S \subseteq 1..n BY <1>1, <1>2
  <2>3. IsFiniteSet(S) BY <2>1, <2>2, FS_Subset
  <2> QED BY <2>2, <2>3
<1>4. PICK c \in Nat : c = Cardinality(S) BY <1>3, FS_CardinalityType
<1>a. PICK new : new = InOrder(S) OBVIOUS
<1>5. /\ DOMAIN new = 1..c /\ new \in [1..c -> S]
      /\ \A i, j \in 1..c : i # j => new[i] # new[j]
  BY <1>3, <1>4, <1>a, InOrderFacts
<1>6. PICK t : t = [i \in 1..c |-> specs[new[i]]] OBVIOUS
<1>7. \A i \in 1..c : new[i] \in 1..n /\ new[i] \in S /\ t[i] = specs[new[i]] BY <1>3, <1>5, <1>6
<1>8. \A i \in 1..c : t[i] \in GoodJob BY <1>1, <1>7
<1>9. t \in [1..c -> GoodJob] BY <1>6, <1>8
<1>10. t \in Seq(GoodJob) /\ DOMAIN t = 1..c BY <1>6, <1>9, SeqDef
<1>11. AddBulk(specs) = line \o t BY <1>2, <1>4, <1>a, <1>5, <1>6 DEF AddBulk
<1>12. Apart(t) BY <1>1, <1>5, <1>7, <1>10 DEF Apart
<1>13. \A k \in LineKeys(t) : \A x \in Live : k # Key(x)
  BY <1>2, <1>7, <1>10 DEF LineKeys
<1>14. LineKeys(line) \cap LineKeys(t) = {} BY <1>13 DEF LineKeys, Live
<1>15. /\ line \o t \in Seq(GoodJob)
       /\ LineKeys(line \o t) = LineKeys(line) \cup LineKeys(t)
       /\ Apart(line \o t)
  BY <1>10, <1>12, <1>14, JoinFacts
<1> QED BY <1>11, <1>13, <1>15 DEF Live

LEMMA JobForms ==
  ASSUME NEW f \in File \cup {NoFile}, NEW what \in {"up", "down", "converge", "sync"},
         what \in {"up", "down"} => f \in File
  PROVE  AJob(what, f) \in GoodJob /\ Key(AJob(what, f)) = <<what, f>>
<1>1. PICK z \in 0..MaxStalls : z = 0 BY Bounds
<1>2. AJob(what, f) = [what |-> what, file |-> f, old |-> FALSE, stalls |-> z] BY <1>1 DEF AJob
<1>3. AJob(what, f) \in Job BY <1>2 DEF Job
<1>4. AJob(what, f).what = what /\ AJob(what, f).file = f BY <1>2
<1> QED BY <1>3, <1>4 DEF GoodJob, Key

LEMMA LastOfFacts == ASSUME NEW S \in SUBSET File PROVE LastOf(S) \in File \cup {NoFile}
<1>1. CASE S = {} BY <1>1 DEF LastOf
<1>2. CASE S # {}
  <2>1. S \in SUBSET Nat /\ IsFiniteSet(File) BY FilesAssumption, FS_Interval DEF File
  <2>2. IsFiniteSet(S) BY <2>1, FS_Subset
  <2>3. \E f \in S : \A g \in S : g <= f BY <1>2, <2>1, <2>2, FiniteHasGreatest
  <2> QED BY <1>2, <2>3 DEF LastOf
<1> QED BY <1>1, <1>2

\* A plan names every migration once.
LEMMA PlanUpFacts == PlanUp \in Seq(GoodJob) /\ Apart(PlanUp)
<1>1. Planned \in SUBSET File /\ File \in SUBSET Nat /\ IsFiniteSet(File)
  BY FilesAssumption, FS_Interval DEF Planned, PendingFiles, File
<1>2. Planned \in SUBSET Nat /\ IsFiniteSet(Planned) BY <1>1, FS_Subset
<1>3. PICK c \in Nat : c = Cardinality(Planned) BY <1>2, FS_CardinalityType
<1>a. PICK order : order = InOrder(Planned) OBVIOUS
<1>4. /\ DOMAIN order = 1..c /\ order \in [1..c -> Planned]
      /\ \A i, j \in 1..c : i # j => order[i] # order[j]
  BY <1>2, <1>3, <1>a, InOrderFacts
<1>5. PICK s, t : s = [i \in 1..c |-> AJob("up", order[i])] /\ t = ConvergeTail(Planned) OBVIOUS
<1>6. \A i \in 1..c : s[i] \in GoodJob /\ Key(s[i]) = <<"up", order[i]>>
  BY <1>1, <1>4, <1>5, JobForms
<1>7. s \in [1..c -> GoodJob] BY <1>5, <1>6
<1>8. s \in Seq(GoodJob) /\ DOMAIN s = 1..c BY <1>5, <1>7, SeqDef
<1>9. Apart(s) BY <1>4, <1>6, <1>8 DEF Apart
<1>10. PICK l \in File \cup {NoFile} : l = LastOf(Planned) BY <1>1, LastOfFacts
<1>11. t \in Seq(GoodJob) /\ Apart(t) /\ LineKeys(t) \subseteq {<<"converge", l>>}
  <2>1. CASE t = <<>> BY <2>1, EmptyFacts
  <2>2. CASE t # <<>>
    <3>1. PICK x : x = AJob("converge", l) OBVIOUS
    <3>2. t = <<x>> BY <1>5, <1>10, <2>2, <3>1 DEF ConvergeTail
    <3>3. x \in GoodJob /\ Key(x) = <<"converge", l>> BY <3>1, JobForms
    <3>4. DOMAIN t = {1} /\ t[1] = x /\ t \in Seq(GoodJob) BY <3>2, <3>3
    <3> QED BY <3>3, <3>4 DEF Apart, LineKeys
  <2> QED BY <2>1, <2>2
<1>12. LineKeys(s) \cap LineKeys(t) = {}
  <2>1. \A k \in LineKeys(s) : \E f : k = <<"up", f>> BY <1>6, <1>8 DEF LineKeys
  <2> QED BY <1>11, <2>1
<1>13. PlanUp = s \o t BY <1>3, <1>4, <1>5, <1>a DEF PlanUp
<1> QED BY <1>8, <1>9, <1>11, <1>12, <1>13, JoinFacts

LEMMA PlanDownFacts ==
  ASSUME applied \in Seq(File), \A i \in DOMAIN applied : applied[i] = i, NEW n \in 1..Len(applied)
  PROVE  PlanDown(n) \in Seq(GoodJob) /\ Apart(PlanDown(n))
<1>1. PICK a \in Nat : a = Len(applied) /\ DOMAIN applied = 1..a OBVIOUS
<1>2. n \in Nat BY <1>1
<1>3. \A i \in 1..n : a + 1 - i \in 1..a /\ applied[a + 1 - i] = a + 1 - i
                      /\ applied[a + 1 - i] \in File
  BY <1>1
<1>4. PICK s : s = PlanDown(n) OBVIOUS
<1>5. s = [i \in 1..n |-> AJob("down", applied[a + 1 - i])] BY <1>1, <1>4 DEF PlanDown
<1>6. \A i \in 1..n : s[i] = AJob("down", a + 1 - i) /\ a + 1 - i \in File BY <1>3, <1>5
<1>7. \A i \in 1..n : s[i] \in GoodJob /\ Key(s[i]) = <<"down", a + 1 - i>> BY <1>6, JobForms
<1>8. s \in [1..n -> GoodJob] BY <1>5, <1>7
<1>9. s \in Seq(GoodJob) /\ DOMAIN s = 1..n BY <1>2, <1>5, <1>8, SeqDef
<1>10. \A i, j \in 1..n : i # j => a + 1 - i # a + 1 - j BY <1>1, <1>2
<1>11. Apart(s)
  <2>1. SUFFICES ASSUME NEW i \in 1..n, NEW j \in 1..n, i # j PROVE Key(s[i]) # Key(s[j])
    BY <1>9 DEF Apart
  <2>2. PICK x, y : x = a + 1 - i /\ y = a + 1 - j OBVIOUS
  <2>3. x # y /\ Key(s[i]) = <<"down", x>> /\ Key(s[j]) = <<"down", y>>
    BY <1>7, <1>10, <2>1, <2>2
  <2> QED BY <2>3
<1> QED BY <1>4, <1>9, <1>11

-----------------------------------------------------------------------------
(* The invariant of the migration queue.                                   *)

StoreInv ==
  /\ trace \in [File -> {"none", "failed", "stale"}]
  /\ lock \in Pod \cup {Free, Cli, Gone}
  /\ insync \in BOOLEAN /\ scheduled \in BOOLEAN
  /\ calls \in 0..MaxCalls

RunRec == [phase: {"idle", "got", "plan", "body", "post"}, job: GoodJob \cup {NoJob},
           own: BOOLEAN, plan: Seq(GoodJob)]

\* What is in the line, in a plan or at work is a job.
JobsInv ==
  /\ line \in Seq(GoodJob) /\ client \in Seq(GoodJob) /\ orphans \subseteq GoodJob
  /\ run \in [Pod -> RunRec]
  /\ \A p \in Pod :
       /\ run[p].phase # "idle" => run[p].job \in GoodJob
       /\ run[p].own => run[p].phase # "idle"
       /\ run[p].phase = "post" => run[p].job.file \in Bg

\* No deduplication key is twice among the live jobs, nor in a plan.
KeysInv ==
  /\ Apart(line) /\ Apart(client) /\ \A p \in Pod : Apart(run[p].plan)
  /\ \A x \in Active : Key(x) \notin LineKeys(line)
  /\ \A p, q \in Pod : p # q /\ run[p].own /\ run[q].own => Key(run[p].job) # Key(run[q].job)
  /\ \A p \in Pod, o \in orphans : run[p].own => Key(o) # Key(run[p].job)
  /\ \A o, x \in orphans : o # x => Key(o) # Key(x)

\* What is applied are the first migrations.  Who runs a job has the lock, and the
\* job is the one that is next; a converge is when none is.
LineInv ==
  /\ applied \in Seq(File) /\ \A i \in DOMAIN applied : applied[i] = i
  /\ \A p \in Pod : run[p].phase = "body" =>
       /\ lock = p
       /\ run[p].job.what = "up" => run[p].job.file = Len(applied) + 1
       /\ run[p].job.what = "down" => run[p].job.file = Len(applied)
       /\ run[p].job.what = "converge" => Len(applied) = NumFiles

QueueInv == StoreInv /\ JobsInv /\ KeysInv /\ LineInv

-----------------------------------------------------------------------------
(* Steps that leave most of it alone.                                      *)

\* Workers go on with jobs of the keys they had; who is done rests.
RunsOn ==
  /\ run' \in [Pod -> RunRec]
  /\ \A p \in Pod :
       /\ run'[p].phase # "idle" => run'[p].job \in GoodJob
       /\ run'[p].own =>
            run'[p].phase # "idle" /\ run[p].own /\ Key(run'[p].job) = Key(run[p].job)
       /\ run'[p].phase = "post" => run'[p].job.file \in Bg
       /\ Apart(run'[p].plan)

OrphansOn ==
  /\ orphans' \subseteq GoodJob
  /\ \A x \in orphans' : \E o \in orphans : Key(x) = Key(o)
  /\ \A x, y \in orphans' : x # y => Key(x) # Key(y)

\* Nobody begins a run, and whoever is in one keeps the lock.
BodiesOn ==
  \A p \in Pod : run'[p].phase = "body" =>
    /\ run[p].phase = "body" /\ lock' = p
    /\ run'[p].job.what = run[p].job.what /\ run'[p].job.file = run[p].job.file

LEMMA QueueMoves ==
  ASSUME QueueInv, RunsOn, OrphansOn,
         client' \in Seq(GoodJob), Apart(client'), line' \in Seq(GoodJob), Apart(line'),
         \A k \in LineKeys(line') : k \in LineKeys(line) \/ \A x \in Active' : k # Key(x)
  PROVE  JobsInv' /\ KeysInv'
<1>1. JobsInv /\ KeysInv BY DEF QueueInv
<1>2. JobsInv' BY DEF JobsInv, RunsOn, OrphansOn
<1>3. \A x \in Active' : \E y \in Active : Key(x) = Key(y)
  <2>1. ASSUME NEW x \in Active' PROVE \E y \in Active : Key(x) = Key(y)
    <3>1. CASE x \in orphans' BY <3>1 DEF OrphansOn, Active
    <3>2. CASE x \notin orphans'
      <4>1. PICK p \in Pod : run'[p].own /\ x = run'[p].job BY <3>2 DEF Active
      <4>2. run[p].own /\ Key(x) = Key(run[p].job) BY <4>1 DEF RunsOn
      <4>3. run[p].job \in Active BY <4>2 DEF Active
      <4> QED BY <4>2, <4>3
    <3> QED BY <3>1, <3>2
  <2> QED BY <2>1
<1>4. \A x \in Active' : Key(x) \notin LineKeys(line')
  <2>1. ASSUME NEW x \in Active', Key(x) \in LineKeys(line') PROVE FALSE
    <3>1. Key(x) \in LineKeys(line) BY <2>1
    <3>2. PICK y \in Active : Key(x) = Key(y) BY <1>3
    <3> QED BY <1>1, <3>1, <3>2 DEF KeysInv
  <2> QED BY <2>1
<1>5. \A p, q \in Pod : p # q /\ run'[p].own /\ run'[q].own => Key(run'[p].job) # Key(run'[q].job)
  BY <1>1 DEF RunsOn, KeysInv
<1>6. \A p \in Pod, o \in orphans' : run'[p].own => Key(o) # Key(run'[p].job)
  <2>1. ASSUME NEW p \in Pod, NEW o \in orphans', run'[p].own PROVE Key(o) # Key(run'[p].job)
    <3>1. PICK x \in orphans : Key(o) = Key(x) BY DEF OrphansOn
    <3>2. run[p].own /\ Key(run'[p].job) = Key(run[p].job) BY <2>1 DEF RunsOn
    <3> QED BY <1>1, <3>1, <3>2 DEF KeysInv
  <2> QED BY <2>1
<1>7. /\ \A p \in Pod : Apart(run'[p].plan)
      /\ \A x, y \in orphans' : x # y => Key(x) # Key(y)
  BY DEF RunsOn, OrphansOn
<1>8. PICK l, c : l = line' /\ c = client' OBVIOUS
<1>9. Apart(l) /\ Apart(c) /\ \A x \in Active' : Key(x) \notin LineKeys(l) BY <1>4, <1>8
<1>10. KeysInv' BY <1>5, <1>6, <1>7, <1>8, <1>9 DEF KeysInv
<1> QED BY <1>2, <1>3, <1>10

LEMMA QueueStays ==
  ASSUME QueueInv, RunsOn, UNCHANGED <<line, client, orphans>>
  PROVE  JobsInv' /\ KeysInv'
<1>1. /\ client \in Seq(GoodJob) /\ Apart(client) /\ line \in Seq(GoodJob) /\ Apart(line)
      /\ orphans \subseteq GoodJob /\ \A x, y \in orphans : x # y => Key(x) # Key(y)
  BY DEF QueueInv, JobsInv, KeysInv
<1>2. OrphansOn BY <1>1 DEF OrphansOn
<1>3. line' = line /\ client' = client OBVIOUS
<1> QED BY <1>1, <1>2, <1>3, QueueMoves

LEMMA LineGoes ==
  ASSUME QueueInv, BodiesOn, applied' = applied
  PROVE  LineInv'
BY DEF QueueInv, LineInv, BodiesOn

\* The orphans there were, or fewer.
LEMMA OrphansLess == ASSUME QueueInv, orphans' \subseteq orphans PROVE OrphansOn
BY DEF QueueInv, JobsInv, KeysInv, OrphansOn

LEMMA RunFacts ==
  ASSUME QueueInv, NEW p \in Pod
  PROVE  /\ run \in [Pod -> RunRec] /\ run[p] \in RunRec /\ Apart(run[p].plan)
         /\ run[p].phase # "idle" => run[p].job \in GoodJob
         /\ run[p].own => run[p].phase # "idle"
         /\ run[p].phase = "post" => run[p].job.file \in Bg
BY DEF QueueInv, JobsInv, KeysInv

LEMMA RunSame == ASSUME QueueInv, run' = run PROVE RunsOn
BY DEF QueueInv, JobsInv, KeysInv, RunsOn

LEMMA IdleFacts == Idle \in RunRec /\ Idle.phase = "idle" /\ Idle.own = FALSE /\ Apart(Idle.plan)
                   /\ Idle.job = NoJob
<1>1. <<>> \in Seq(GoodJob) /\ Apart(<<>>) BY EmptyFacts
<1>2. Idle.plan = <<>> BY DEF Idle
<1>3. Idle \in RunRec BY <1>1 DEF Idle, RunRec
<1> QED BY <1>1, <1>2, <1>3 DEF Idle

\* One worker goes on.
LEMMA WorkerGoes ==
  ASSUME QueueInv, NEW p \in Pod, NEW x \in RunRec, run' = [run EXCEPT ![p] = x],
         x.phase # "idle" => x.job \in GoodJob,
         x.own => x.phase # "idle" /\ run[p].own /\ Key(x.job) = Key(run[p].job),
         x.phase = "post" => x.job.file \in Bg,
         Apart(x.plan)
  PROVE  /\ RunsOn /\ run'[p] = x /\ \A q \in Pod \ {p} : run'[q] = run[q]
<1>1. run \in [Pod -> RunRec] BY DEF QueueInv, JobsInv
<1>2. run' \in [Pod -> RunRec] BY <1>1
<1>3. run'[p] = x /\ \A q \in Pod \ {p} : run'[q] = run[q] BY <1>1
<1>4. ASSUME NEW q \in Pod
      PROVE  /\ run'[q].phase # "idle" => run'[q].job \in GoodJob
             /\ run'[q].own =>
                  run'[q].phase # "idle" /\ run[q].own /\ Key(run'[q].job) = Key(run[q].job)
             /\ run'[q].phase = "post" => run'[q].job.file \in Bg
             /\ Apart(run'[q].plan)
  <2>1. CASE q = p BY <1>3, <2>1
  <2>2. CASE q # p
    <3>1. run'[q] = run[q] BY <1>3, <2>2
    <3> QED BY <3>1, RunFacts
  <2> QED BY <2>1, <2>2
<1> QED BY <1>2, <1>3, <1>4 DEF RunsOn

LEMMA WorkerRests ==
  ASSUME QueueInv, NEW p \in Pod, Rests(p)
  PROVE  /\ RunsOn /\ run'[p] = Idle /\ \A q \in Pod \ {p} : run'[q] = run[q]
<1>1. PICK x : x = Idle OBVIOUS
<1>2. run' = [run EXCEPT ![p] = x] BY <1>1 DEF Rests
<1>3. x \in RunRec /\ x.phase = "idle" /\ ~x.own /\ Apart(x.plan) BY <1>1, IdleFacts
<1> QED BY <1>1, <1>2, <1>3, WorkerGoes

\* Nobody else is in a run while p has the lock.
LEMMA BodiesKept ==
  ASSUME QueueInv, NEW p \in Pod, run'[p].phase # "body",
         \A q \in Pod \ {p} : run'[q] = run[q], lock' # lock => lock = p
  PROVE  BodiesOn
<1>1. ASSUME NEW q \in Pod, run'[q].phase = "body"
      PROVE  /\ run[q].phase = "body" /\ lock' = q
             /\ run'[q].job.what = run[q].job.what /\ run'[q].job.file = run[q].job.file
  <2>1. q # p /\ run'[q] = run[q] BY <1>1
  <2>2. lock = q BY <1>1, <2>1 DEF QueueInv, LineInv
  <2> QED BY <1>1, <2>1, <2>2
<1> QED BY <1>1 DEF BodiesOn

LEMMA BodiesSame ==
  ASSUME QueueInv, run' = run, lock' = lock \/ \A p \in Pod : lock # p
  PROVE  BodiesOn
BY DEF QueueInv, LineInv, BodiesOn

\* A worker is done with its job.
LEMMA Rested ==
  ASSUME QueueInv, NEW p \in Pod, Rests(p), UNCHANGED <<applied, line, client, orphans>>,
         lock' # lock => lock = p
  PROVE  JobsInv' /\ KeysInv' /\ LineInv'
<1>1. RunsOn /\ run'[p] = Idle /\ \A q \in Pod \ {p} : run'[q] = run[q] BY WorkerRests
<1>2. run'[p].phase # "body" BY <1>1, IdleFacts
<1>3. BodiesOn BY <1>1, <1>2, BodiesKept
<1>4. LineInv' BY <1>3, LineGoes
<1>5. JobsInv' /\ KeysInv' BY <1>1, QueueStays
<1> QED BY <1>4, <1>5

\* No worker is touched, nor the lock but by others.
LEMMA Untouched ==
  ASSUME QueueInv, UNCHANGED <<run, applied, line, client, orphans>>,
         lock' = lock \/ \A p \in Pod : lock # p
  PROVE  JobsInv' /\ KeysInv' /\ LineInv'
<1>1. RunsOn BY RunSame
<1>2. BodiesOn BY BodiesSame
<1>3. LineInv' BY <1>2, LineGoes
<1>4. JobsInv' /\ KeysInv' BY <1>1, QueueStays
<1> QED BY <1>3, <1>4

\* The line changes, and no run.
LEMMA LineMoves ==
  ASSUME QueueInv, UNCHANGED <<run, applied, lock>>, orphans' \subseteq orphans,
         client' \in Seq(GoodJob), Apart(client'), line' \in Seq(GoodJob), Apart(line'),
         \A k \in LineKeys(line') : k \in LineKeys(line) \/ \A x \in Active' : k # Key(x)
  PROVE  JobsInv' /\ KeysInv' /\ LineInv'
<1>1. RunsOn BY RunSame
<1>2. BodiesOn BY BodiesSame
<1>3. LineInv' BY <1>2, LineGoes
<1>4. OrphansOn BY OrphansLess
<1>5. JobsInv' /\ KeysInv' BY <1>1, <1>4, QueueMoves
<1> QED BY <1>3, <1>5

LEMMA BackStays ==
  ASSUME BackInv, UNCHANGED <<children, svc, bstat, left, round, dead, quiet, coord, lanes>>,
         trouble' = trouble \/ Trouble
  PROVE  BackInv'
<1>1. BackTypes /\ CoordsInv /\ LanesInv /\ LeasesInv BY DEF BackInv
<1>2. trouble' \in 0..MaxTrouble BY <1>1, TroubleKept DEF BackTypes
<1>3. BackTypes' /\ CoordsInv' BY <1>1, <1>2 DEF BackTypes, CoordsInv
<1>4. LanesInv' /\ LeasesInv' BY <1>1, LanesSame
<1> QED BY <1>3, <1>4 DEF BackInv

LEMMA HoldersFacts == Free \notin Pod /\ Cli \notin Pod /\ Gone \notin Pod
BY HoldersAssumption

-----------------------------------------------------------------------------
(* What waits: plans, adds, ticks, stalled jobs.                           *)

Inv == BackInv /\ QueueInv

LEMMA CallsStep ==
  ASSUME Inv, CallUp \/ (\E n \in File : CallDown(n))
  PROVE  Inv'
<1>1. /\ BackInv /\ QueueInv /\ StoreInv /\ line \in Seq(GoodJob) /\ Apart(line)
      /\ applied \in Seq(File) /\ \A i \in DOMAIN applied : applied[i] = i
  BY DEF Inv, QueueInv, JobsInv, KeysInv, LineInv
<1>2. /\ Call
      /\ UNCHANGED <<svc, trouble, bgVars, applied, trace, lock, insync, line, orphans, scheduled, run>>
  BY DEF CallUp, CallDown
<1>3. client' \in Seq(GoodJob) /\ Apart(client')
  <2>1. CASE CallUp
    <3>1. client' = PlanUp BY <2>1 DEF CallUp
    <3> QED BY <3>1, PlanUpFacts
  <2>2. ASSUME NEW n \in File, CallDown(n) PROVE client' \in Seq(GoodJob) /\ Apart(client')
    <3>1. n \in 1..Len(applied) /\ client' = PlanDown(n) BY <2>2 DEF CallDown
    <3> QED BY <1>1, <3>1, PlanDownFacts
  <2> QED BY <2>1, <2>2
<1>4. StoreInv' BY <1>1, <1>2, CallsAssumption DEF StoreInv, Call
<1>5. /\ UNCHANGED <<run, applied, lock>> /\ orphans' \subseteq orphans
      /\ line' \in Seq(GoodJob) /\ Apart(line')
      /\ \A k \in LineKeys(line') : k \in LineKeys(line) \/ \A x \in Active' : k # Key(x)
  <2>1. line' = line BY <1>2
  <2> QED BY <1>1, <1>2, <2>1
<1>6. JobsInv' /\ KeysInv' /\ LineInv' BY <1>1, <1>3, <1>5, LineMoves
<1>7. BackInv' BY <1>1, <1>2, BackStays DEF bgVars
<1> QED BY <1>4, <1>6, <1>7 DEF Inv, QueueInv

LEMMA CallAddsStep == ASSUME Inv, CallAdds PROVE Inv'
<1>1. /\ BackInv /\ QueueInv /\ StoreInv /\ line \in Seq(GoodJob) /\ Apart(line)
      /\ client \in Seq(GoodJob) /\ Apart(client)
  BY DEF Inv, QueueInv, JobsInv, KeysInv
<1>2. /\ line' = AddBulk(client) /\ client' = <<>>
      /\ UNCHANGED <<svc, trouble, bgVars, applied, trace, lock, insync, orphans, scheduled, run, calls>>
  BY DEF CallAdds, NoPlan
<1>3. client' \in Seq(GoodJob) /\ Apart(client') BY <1>2, EmptyFacts
<1>4. PICK l, a : l = AddBulk(client) /\ a = Active OBVIOUS
<1>5. /\ l \in Seq(GoodJob) /\ Apart(l)
      /\ \A k \in LineKeys(l) : k \in LineKeys(line) \/ \A x \in a : k # Key(x)
  BY <1>1, <1>4, AddBulkFacts
<1>6. line' = l /\ Active' = a BY <1>2, <1>4 DEF Active
<1>7. /\ line' \in Seq(GoodJob) /\ Apart(line')
      /\ \A k \in LineKeys(line') : k \in LineKeys(line) \/ \A x \in Active' : k # Key(x)
  BY <1>5, <1>6
<1>8. JobsInv' /\ KeysInv' /\ LineInv' BY <1>1, <1>2, <1>3, <1>7, LineMoves
<1>9. StoreInv' BY <1>1, <1>2 DEF StoreInv
<1>10. BackInv' BY <1>1, <1>2, BackStays DEF bgVars
<1> QED BY <1>8, <1>9, <1>10 DEF Inv, QueueInv

LEMMA TicksStep == ASSUME Inv, Ticks PROVE Inv'
<1>1. /\ BackInv /\ QueueInv /\ StoreInv /\ line \in Seq(GoodJob) /\ Apart(line)
      /\ client \in Seq(GoodJob) /\ Apart(client)
  BY DEF Inv, QueueInv, JobsInv, KeysInv
<1>2. /\ line' = Append(line, SyncJob) /\ \A x \in Live : x.what # "sync"
      /\ UNCHANGED <<svc, trouble, bgVars, applied, trace, lock, insync, orphans, scheduled, run,
                     client, calls>>
  BY DEF Ticks
<1>3. PICK s : s = SyncJob OBVIOUS
<1>4. s \in GoodJob /\ Key(s) = <<"sync", NoFile>> BY <1>3, JobForms DEF SyncJob
<1>5. PICK l : l = Append(line, s) OBVIOUS
<1>a. l = <<s>> \o line \/ l = Append(line, s) BY <1>5
<1>6. \A x \in Live : Key(x) # Key(s) BY <1>2, <1>4 DEF Key
<1>7. Key(s) \notin LineKeys(line) /\ \A x \in Active : Key(s) # Key(x)
  BY <1>6 DEF Live, LineKeys
<1>8. l \in Seq(GoodJob) /\ LineKeys(l) = LineKeys(line) \cup {Key(s)} /\ Apart(l)
  <2>1. s \in GoodJob /\ line \in Seq(GoodJob) BY <1>1, <1>4
  <2>2. /\ l \in Seq(GoodJob) /\ LineKeys(l) = LineKeys(line) \cup {Key(s)}
        /\ Apart(line) /\ Key(s) \notin LineKeys(line) => Apart(l)
    BY <1>a, <2>1, PushFacts
  <2> QED BY <1>1, <1>7, <2>2
<1>9. PICK a : a = Active OBVIOUS
<1>10. line' = l /\ Active' = a /\ client' = client BY <1>2, <1>3, <1>5, <1>9 DEF Active
<1>11. /\ line' \in Seq(GoodJob) /\ Apart(line') /\ client' \in Seq(GoodJob) /\ Apart(client')
       /\ \A k \in LineKeys(line') : k \in LineKeys(line) \/ \A x \in Active' : k # Key(x)
  BY <1>1, <1>7, <1>8, <1>9, <1>10
<1>12. JobsInv' /\ KeysInv' /\ LineInv' BY <1>1, <1>2, <1>11, LineMoves
<1>13. StoreInv' BY <1>1, <1>2 DEF StoreInv
<1>14. BackInv' BY <1>1, <1>2, BackStays DEF bgVars
<1> QED BY <1>12, <1>13, <1>14 DEF Inv, QueueInv

\* A job goes back to the head of the line, or is given up; what was at work under
\* its key is so no more.
LEMMA RequeuedFacts ==
  ASSUME QueueInv, NEW j \in GoodJob, Key(j) \notin LineKeys(line),
         \A x \in Active' : Key(x) # Key(j), Requeued(j)
  PROVE  /\ line' \in Seq(GoodJob) /\ Apart(line')
         /\ \A k \in LineKeys(line') : k \in LineKeys(line) \/ \A x \in Active' : k # Key(x)
<1>1. line \in Seq(GoodJob) /\ Apart(line) BY DEF QueueInv, JobsInv, KeysInv
<1>2. CASE line' = line BY <1>1, <1>2
<1>3. CASE line' # line
  <2>1. j.stalls # MaxStalls /\ line' = <<[j EXCEPT !.stalls = @ + 1]>> \o line
    BY <1>3 DEF Requeued
  <2>2. j \in Job BY DEF GoodJob
  <2>3. j.stalls \in 0..MaxStalls BY <2>2 DEF Job
  <2>4. PICK n \in 0..MaxStalls : n = j.stalls + 1 BY <2>1, <2>3, StallsCount
  <2>5. PICK x : x = [j EXCEPT !.stalls = n] OBVIOUS
  <2>6. x \in Job /\ x.what = j.what /\ x.file = j.file BY <2>2, <2>5 DEF Job
  <2>7. x \in GoodJob /\ Key(x) = Key(j) BY <2>6 DEF GoodJob, Key
  <2>8. PICK l : l = <<x>> \o line OBVIOUS
  <2>9. line' = l BY <2>1, <2>4, <2>5, <2>8
  <2>a. l = <<x>> \o line \/ l = Append(line, x) BY <2>8
  <2>10. l \in Seq(GoodJob) /\ LineKeys(l) = LineKeys(line) \cup {Key(x)} /\ Apart(l)
    BY <1>1, <2>7, <2>a, PushFacts
  <2> QED BY <2>7, <2>9, <2>10
<1> QED BY <1>2, <1>3

LEMMA StallsStep == ASSUME Inv, NEW j \in orphans, Stalls(j) PROVE Inv'
<1>1. /\ BackInv /\ QueueInv /\ StoreInv /\ client \in Seq(GoodJob) /\ Apart(client)
      /\ orphans \subseteq GoodJob
  BY DEF Inv, QueueInv, JobsInv, KeysInv
<1>2. /\ orphans' = orphans \ {j} /\ Requeued(j)
      /\ UNCHANGED <<svc, trouble, bgVars, applied, trace, lock, insync, scheduled, run, client, calls>>
  BY DEF Stalls
<1>3. j \in Active BY DEF Active
<1>4. Key(j) \notin LineKeys(line) BY <1>1, <1>3 DEF QueueInv, KeysInv
<1>5. \A x \in Active' : Key(x) # Key(j)
  <2>1. ASSUME NEW x \in Active' PROVE Key(x) # Key(j)
    <3>1. CASE x \in orphans \ {j} BY <1>1, <3>1 DEF QueueInv, KeysInv
    <3>2. CASE x \notin orphans \ {j}
      <4>1. PICK p \in Pod : run[p].own /\ x = run[p].job BY <1>2, <3>2 DEF Active
      <4> QED BY <1>1, <4>1 DEF QueueInv, KeysInv
    <3> QED BY <3>1, <3>2
  <2> QED BY <2>1
<1>6. /\ line' \in Seq(GoodJob) /\ Apart(line') /\ client' \in Seq(GoodJob) /\ Apart(client')
      /\ \A k \in LineKeys(line') : k \in LineKeys(line) \/ \A x \in Active' : k # Key(x)
  <2>1. client' = client BY <1>2
  <2> QED BY <1>1, <1>2, <1>4, <1>5, <2>1, RequeuedFacts
<1>7. JobsInv' /\ KeysInv' /\ LineInv' BY <1>1, <1>2, <1>6, LineMoves
<1>8. StoreInv' BY <1>1, <1>2 DEF StoreInv
<1>9. BackInv' BY <1>1, <1>2, BackStays DEF bgVars
<1> QED BY <1>7, <1>8, <1>9 DEF Inv, QueueInv

-----------------------------------------------------------------------------
(* What a worker does.                                                     *)

LEMMA InvFacts ==
  ASSUME Inv
  PROVE  /\ BackInv /\ QueueInv /\ StoreInv /\ JobsInv /\ KeysInv /\ LineInv
         /\ line \in Seq(GoodJob) /\ Apart(line) /\ client \in Seq(GoodJob) /\ Apart(client)
         /\ run \in [Pod -> RunRec] /\ orphans \subseteq GoodJob
BY DEF Inv, QueueInv, JobsInv, KeysInv

\* What becomes of a worker's record.
LEMMA RecordForms ==
  ASSUME NEW r \in RunRec, NEW x,
         \/ \E ph \in {"body", "post"} : x = [r EXCEPT !.phase = ph]
         \/ x = [r EXCEPT !.own = FALSE]
  PROVE  /\ x \in RunRec /\ x.job = r.job /\ x.plan = r.plan
         /\ \/ x.phase \in {"body", "post"} /\ x.own = r.own
            \/ x.phase = r.phase /\ x.own = FALSE
<1>1. CASE \E ph \in {"body", "post"} : x = [r EXCEPT !.phase = ph]
  <2>1. PICK ph \in {"body", "post"} : x = [r EXCEPT !.phase = ph] BY <1>1
  <2> QED BY <2>1 DEF RunRec
<1>2. CASE x = [r EXCEPT !.own = FALSE] BY <1>2 DEF RunRec
<1> QED BY <1>1, <1>2

\* p's worker enters another phase with its job.
LEMMA PhaseGoes ==
  ASSUME QueueInv, NEW p \in Pod, NEW ph \in {"body", "post"}, Goes(p, ph),
         run[p].phase # "idle", ph = "post" => run[p].job.file \in Bg
  PROVE  /\ RunsOn /\ run'[p].phase = ph /\ run'[p].job = run[p].job
         /\ \A q \in Pod \ {p} : run'[q] = run[q]
<1>1. PICK r \in RunRec : r = run[p] BY RunFacts
<1>2. PICK x : x = [r EXCEPT !.phase = ph] OBVIOUS
<1>3. x \in RunRec /\ x.job = r.job /\ x.plan = r.plan /\ x.phase = ph /\ x.own = r.own
  BY <1>2 DEF RunRec
<1>4. run' = [run EXCEPT ![p] = x] BY <1>1, <1>2 DEF Goes
<1>5. /\ x.phase # "idle" => x.job \in GoodJob
      /\ x.own => x.phase # "idle" /\ run[p].own /\ Key(x.job) = Key(run[p].job)
      /\ x.phase = "post" => x.job.file \in Bg
      /\ Apart(x.plan)
  BY <1>1, <1>3, RunFacts
<1>6. RunsOn /\ run'[p] = x /\ \A q \in Pod \ {p} : run'[q] = run[q] BY <1>3, <1>4, <1>5, WorkerGoes
<1> QED BY <1>1, <1>3, <1>6

\* Who is done without a run: skipped, refused, or after it gave up.
LEMMA IdlesStep ==
  ASSUME Inv, NEW p \in Pod, Skips(p) \/ Refused(p) \/ GivesUp(p)
  PROVE  Inv'
<1>1. /\ Rests(p) /\ (trouble' = trouble \/ Trouble)
      /\ UNCHANGED <<svc, bgVars, applied, trace, lock, insync, line, orphans, scheduled, client, calls>>
  BY DEF Skips, Refused, GivesUp
<1>2. JobsInv' /\ KeysInv' /\ LineInv' BY <1>1, InvFacts, Rested
<1>3. StoreInv' BY <1>1, InvFacts DEF StoreInv
<1>4. BackInv' BY <1>1, InvFacts, BackStays DEF bgVars
<1> QED BY <1>2, <1>3, <1>4 DEF Inv, QueueInv

LEMMA AppliedFacts ==
  ASSUME LineInv
  PROVE  /\ Len(applied) \in Nat /\ DOMAIN applied = 1..Len(applied)
         /\ Applied = 1..Len(applied) /\ Len(applied) <= NumFiles
         /\ Applied \subseteq File
<1>1. PICK a \in Nat : a = Len(applied) /\ DOMAIN applied = 1..a BY DEF LineInv
<1>2. \A i \in 1..a : applied[i] = i /\ i \in File BY <1>1 DEF LineInv
<1>3. Applied = 1..a BY <1>1, <1>2 DEF Applied
<1>4. a <= NumFiles
  <2>1. CASE a = 0 BY <2>1, FilesAssumption
  <2>2. CASE a # 0
    <3>1. a \in 1..a BY <2>2
    <3> QED BY <1>2, <3>1, FilesAssumption DEF File
  <2> QED BY <2>1, <2>2
<1> QED BY <1>1, <1>2, <1>3, <1>4

\* A job that is not refused is the one that is next: to apply the first pending
\* migration, or to revert the last applied one.
LEMMA NotBlockedIsNext ==
  ASSUME LineInv, NEW j \in GoodJob, ~Moot(j), ~Blocked(j)
  PROVE  /\ j.what = "up" => j.file = Len(applied) + 1
         /\ j.what = "down" => j.file = Len(applied)
         /\ j.what = "converge" => Len(applied) = NumFiles
<1>1. PICK a \in Nat : a = Len(applied) /\ DOMAIN applied = 1..a /\ Applied = 1..a
                       /\ 1..a \subseteq File /\ \A i \in 1..a : applied[i] = i
  BY AppliedFacts DEF LineInv
<1>2. Blockers(j) = {} BY DEF Blocked
<1>3. ASSUME j.what = "up" PROVE j.file = a + 1
  <2>1. j.file \in File /\ j.file \notin 1..a BY <1>1, <1>3 DEF GoodJob, Moot
  <2>2. \A g \in File : g \notin 1..a => ~(g < j.file)
    BY <1>1, <1>2, <1>3 DEF Blockers, Earlier, PendingFiles
  <2>3. j.file \in Nat /\ j.file > a /\ j.file <= NumFiles BY <1>1, <2>1, FilesAssumption DEF File
  <2>4. a + 1 \in File /\ a + 1 \notin 1..a BY <1>1, <2>3, FilesAssumption DEF File
  <2>5. ~(a + 1 < j.file) BY <2>2, <2>4
  <2> QED BY <1>1, <2>3, <2>5
<1>4. ASSUME j.what = "down" PROVE j.file = a
  <2>1. j.file \in 1..a BY <1>1, <1>4 DEF Moot
  <2>2. \A g \in 1..a : ~(\E i, k \in 1..a : i < k /\ applied[i] = j.file /\ applied[k] = g)
    BY <1>1, <1>2, <1>4 DEF Blockers, Newer
  <2>3. a \in 1..a /\ applied[a] = a /\ applied[j.file] = j.file BY <1>1, <2>1
  <2>4. ~(j.file < a) BY <2>1, <2>2, <2>3
  <2> QED BY <1>1, <2>1, <2>4
<1>5. ASSUME j.what = "converge" PROVE a = NumFiles
  <2>1. \A g \in File : g \in 1..a BY <1>1, <1>2, <1>5 DEF Blockers, PendingFiles
  <2>2. CASE NumFiles = 0
    <3>1. a \notin 1..a BY <1>1, <2>2, FilesAssumption DEF File
    <3> QED BY <2>2, <3>1
  <2>3. CASE NumFiles # 0
    <3>1. NumFiles \in File BY <2>3, FilesAssumption DEF File
    <3>2. NumFiles \in 1..a BY <2>1, <3>1
    <3>3. a \in 1..NumFiles BY <1>1, <3>2 DEF File
    <3> QED BY <3>2, <3>3, FilesAssumption
  <2> QED BY <2>2, <2>3
<1> QED BY <1>1, <1>3, <1>4, <1>5

LEMMA BeginsStep == ASSUME Inv, NEW p \in Pod, Begins(p) PROVE Inv'
<1>1. /\ run[p].phase = "got" /\ lock = Free /\ lock' = p /\ Goes(p, "body")
      /\ ~Moot(run[p].job) /\ ~Blocked(run[p].job)
      /\ UNCHANGED <<svc, trouble, bgVars, applied, trace, insync, line, orphans, scheduled,
                     client, calls>>
  BY DEF Begins, Ready
<1>2. /\ RunsOn /\ run'[p].phase = "body" /\ run'[p].job = run[p].job
      /\ \A q \in Pod \ {p} : run'[q] = run[q]
  BY <1>1, InvFacts, PhaseGoes
<1>3. JobsInv' /\ KeysInv' BY <1>1, <1>2, InvFacts, QueueStays
<1>4. /\ run[p].job.what = "up" => run[p].job.file = Len(applied) + 1
      /\ run[p].job.what = "down" => run[p].job.file = Len(applied)
      /\ run[p].job.what = "converge" => Len(applied) = NumFiles
  BY <1>1, InvFacts, RunFacts, NotBlockedIsNext
<1>5. LineInv'
  <2>1. applied' = applied BY <1>1
  <2>2. ASSUME NEW q \in Pod, run'[q].phase = "body"
        PROVE  /\ lock' = q
               /\ run'[q].job.what = "up" => run'[q].job.file = Len(applied) + 1
               /\ run'[q].job.what = "down" => run'[q].job.file = Len(applied)
               /\ run'[q].job.what = "converge" => Len(applied) = NumFiles
    <3>1. CASE q = p BY <1>1, <1>2, <1>4, <3>1
    <3>2. CASE q # p
      <4>1. run[q].phase = "body" BY <1>2, <2>2, <3>2
      <4>2. lock = q BY <4>1, InvFacts DEF LineInv
      <4> QED BY <1>1, <4>2, HoldersFacts
    <3> QED BY <3>1, <3>2
  <2> QED BY <2>1, <2>2, InvFacts DEF LineInv
<1>6. StoreInv' BY <1>1, InvFacts DEF StoreInv
<1>7. BackInv' BY <1>1, InvFacts, BackStays DEF bgVars
<1> QED BY <1>3, <1>5, <1>6, <1>7 DEF Inv, QueueInv

LEMMA BreaksStep == ASSUME Inv, NEW p \in Pod, Breaks(p) PROVE Inv'
<1>1. /\ run[p].phase = "body" /\ Trouble /\ lock' = Free /\ Rests(p)
      /\ trace' = trace \/ trace' = [trace EXCEPT ![run[p].job.file] = "failed"]
      /\ UNCHANGED <<svc, bgVars, applied, insync, line, orphans, scheduled, client, calls>>
  BY DEF Breaks
<1>2. lock = p BY <1>1, InvFacts DEF LineInv
<1>3. JobsInv' /\ KeysInv' /\ LineInv' BY <1>1, <1>2, InvFacts, Rested
<1>4. trace' \in [File -> {"none", "failed", "stale"}] BY <1>1, InvFacts DEF StoreInv
<1>5. StoreInv' BY <1>1, <1>4, InvFacts DEF StoreInv
<1>6. BackInv' BY <1>1, InvFacts, BackStays DEF bgVars
<1> QED BY <1>3, <1>5, <1>6 DEF Inv, QueueInv

\* The last of the applied migrations is taken off, the next one put on.
LEMMA DropFacts ==
  ASSUME LineInv, NEW f, f = Len(applied), NEW s, s = Drop(applied, f), f # 0
  PROVE  s \in Seq(File) /\ \A i \in DOMAIN s : s[i] = i
<1>1. PICK a \in Nat : a = Len(applied) /\ DOMAIN applied = 1..a /\ a # 0
                       /\ \A i \in 1..a : applied[i] = i /\ applied[i] \in File
  BY DEF LineInv
<1>2. a \in 1..a /\ applied[a] = a /\ f = a BY <1>1
<1>3. ~\A i \in 1..a : applied[i] # f BY <1>2
<1>4. PICK k : k = CHOOSE i \in 1..a : applied[i] = f OBVIOUS
<1>5. k \in 1..a /\ applied[k] = f BY <1>2, <1>4
<1>6. k = a BY <1>1, <1>2, <1>5
<1>7. s = [i \in 1..a - 1 |-> IF i < k THEN applied[i] ELSE applied[i + 1]]
  BY <1>1, <1>3, <1>4 DEF Drop
<1>8. \A i \in 1..a - 1 : i \in 1..a /\ i < k /\ s[i] = i /\ s[i] \in File BY <1>1, <1>6, <1>7
<1>9. a - 1 \in Nat BY <1>1
<1>10. s \in [1..a - 1 -> File] BY <1>7, <1>8
<1>11. s \in Seq(File) /\ DOMAIN s = 1..a - 1 BY <1>7, <1>9, <1>10, SeqDef
<1> QED BY <1>8, <1>11

LEMMA AppendFacts ==
  ASSUME LineInv, NEW f \in File, f = Len(applied) + 1, NEW s, s = Append(applied, f)
  PROVE  s \in Seq(File) /\ \A i \in DOMAIN s : s[i] = i
<1>1. PICK a \in Nat : a = Len(applied) /\ DOMAIN applied = 1..a /\ applied \in Seq(File)
                       /\ \A i \in 1..a : applied[i] = i
  BY DEF LineInv
<1>2. s \in Seq(File) /\ DOMAIN s = 1..a + 1 BY <1>1
<1>3. \A i \in 1..a + 1 : s[i] = IF i <= a THEN applied[i] ELSE f BY <1>1
<1> QED BY <1>1, <1>2, <1>3

LEMMA RegistersFacts ==
  ASSUME BackInv, NEW f \in File,
         UNCHANGED <<children, svc, round, dead, quiet, coord, lanes>>, trouble' = trouble,
         Registers(f) \/ UNCHANGED <<bstat, left>>
  PROVE  BackInv'
<1>1. BackTypes /\ CoordsInv /\ LanesInv /\ LeasesInv BY DEF BackInv
<1>2. bstat' \in [Bg -> {"none", "running", "completed"}] /\ left' \in [Bg -> 0..Slices]
  BY <1>1, Bounds DEF Registers, BackTypes
<1>3. BackTypes' BY <1>1, <1>2 DEF BackTypes
<1>4. CoordsInv' BY <1>1 DEF CoordsInv
<1>5. LanesInv' /\ LeasesInv' BY <1>1, LanesSame
<1> QED BY <1>3, <1>4, <1>5 DEF BackInv

\* What a run leaves behind it: nobody is in one.
LEMMA LineAfter ==
  ASSUME LineInv, NEW p \in Pod, lock = p, run'[p].phase # "body",
         \A q \in Pod \ {p} : run'[q] = run[q],
         NEW s, applied' = s, s \in Seq(File), \A i \in DOMAIN s : s[i] = i
  PROVE  LineInv'
<1>1. ASSUME NEW q \in Pod PROVE run'[q].phase # "body"
  <2>1. CASE q = p BY <2>1
  <2>2. CASE q # p BY <2>2 DEF LineInv
  <2> QED BY <2>1, <2>2
<1>2. applied' \in Seq(File) /\ \A i \in DOMAIN applied' : applied'[i] = i OBVIOUS
<1> QED BY <1>1, <1>2 DEF LineInv

LEMMA SucceedsStep == ASSUME Inv, NEW p \in Pod, Succeeds(p) PROVE Inv'
<1>1. PICK j : j = run[p].job OBVIOUS
<1>2. /\ run[p].phase = "body" /\ lock' = Free
      /\ UNCHANGED <<children, svc, trouble, round, dead, quiet, coord, lanes, line, orphans, scheduled,
                     client, calls>>
  BY DEF Succeeds
<1>3. \/ /\ j.what = "up" /\ applied' = Append(applied, j.file)
         /\ trace' = [trace EXCEPT ![j.file] = "none"] /\ Registers(j.file) /\ insync' = insync
         /\ (j.file \in Bg /\ Goes(p, "post")) \/ Rests(p)
      \/ /\ j.what = "down" /\ applied' = Drop(applied, j.file) /\ Rests(p)
         /\ UNCHANGED <<trace, insync, bstat, left>>
      \/ /\ j.what = "converge" /\ insync' = TRUE /\ Rests(p)
         /\ UNCHANGED <<applied, trace, bstat, left>>
  BY <1>1 DEF Succeeds
<1>4. /\ j \in GoodJob /\ lock = p
      /\ j.what = "up" => j.file = Len(applied) + 1
      /\ j.what = "down" => j.file = Len(applied)
  BY <1>1, <1>2, InvFacts, RunFacts DEF LineInv
<1>5. /\ RunsOn /\ run'[p].phase # "body" /\ \A q \in Pod \ {p} : run'[q] = run[q]
  <2>1. CASE Rests(p) BY <2>1, InvFacts, WorkerRests, IdleFacts
  <2>2. CASE j.file \in Bg /\ Goes(p, "post") BY <1>1, <1>2, <2>2, InvFacts, PhaseGoes
  <2> QED BY <1>3, <2>1, <2>2
<1>6. JobsInv' /\ KeysInv' BY <1>2, <1>5, InvFacts, QueueStays
<1>7. PICK f \in File \cup {NoFile} : f = j.file BY <1>4 DEF GoodJob, Job
<1>8. j.what \in {"up", "down"} => f \in File BY <1>4, <1>7 DEF GoodJob
<1>9. LineInv'
  <2>1. PICK s : s = applied' OBVIOUS
  <2>2. s \in Seq(File) /\ \A i \in DOMAIN s : s[i] = i
    <3>1. CASE j.what = "up" /\ s = Append(applied, f) BY <1>4, <1>7, <1>8, <3>1, InvFacts, AppendFacts
    <3>2. CASE j.what = "down" /\ s = Drop(applied, f)
      <4>1. f = Len(applied) /\ f # 0 BY <1>4, <1>7, <1>8, <3>2, FilesAssumption DEF File
      <4> QED BY <3>2, <4>1, InvFacts, DropFacts
    <3>3. CASE s = applied BY <3>3, InvFacts DEF LineInv
    <3> QED BY <1>3, <1>7, <2>1, <3>1, <3>2, <3>3
  <2> QED BY <1>4, <1>5, <2>1, <2>2, InvFacts, LineAfter
<1>10. StoreInv'
  <2>1. trace' \in [File -> {"none", "failed", "stale"}] BY <1>3, InvFacts DEF StoreInv
  <2>2. insync' \in BOOLEAN BY <1>3, InvFacts DEF StoreInv
  <2> QED BY <1>2, <2>1, <2>2, InvFacts DEF StoreInv
<1>11. BackInv'
  <2>1. CASE j.what = "up" /\ Registers(j.file) BY <1>2, <1>7, <1>8, <2>1, InvFacts, RegistersFacts
  <2>2. CASE UNCHANGED <<bstat, left>> BY <1>2, <2>2, InvFacts, BackStays
  <2> QED BY <1>3, <2>1, <2>2
<1> QED BY <1>6, <1>9, <1>10, <1>11 DEF Inv, QueueInv

\* The coordinators alone are added to.
LEMMA BackAdds ==
  ASSUME BackInv, UNCHANGED <<children, svc, bstat, left, round, dead, quiet, lanes>>,
         trouble' = trouble \/ Trouble,
         Heal \/ (\E m \in Bg : \E ks : coord' = Added(coord, m, ks)) \/ coord' = coord
  PROVE  BackInv'
<1>1. BackTypes /\ CoordsInv /\ LanesInv /\ LeasesInv BY DEF BackInv
<1>2. round \in [Bg -> 0..MaxRounds] /\ round' = round BY <1>1 DEF BackTypes
<1>3. CoordsInv' BY <1>1, <1>2, AddsKeep
<1>4. trouble' \in 0..MaxTrouble BY <1>1, TroubleKept DEF BackTypes
<1>5. BackTypes' BY <1>1, <1>4 DEF BackTypes
<1>6. LanesInv' /\ LeasesInv' BY <1>1, LanesSame
<1> QED BY <1>3, <1>5, <1>6 DEF BackInv

LEMMA HandsOverStep == ASSUME Inv, NEW p \in Pod, HandsOver(p) PROVE Inv'
<1>1. /\ run[p].phase = "post" /\ Rests(p)
      /\ \/ coord' = Added(coord, run[p].job.file, {PlainKey}) /\ UNCHANGED trouble
         \/ Trouble /\ UNCHANGED coord
      /\ UNCHANGED <<children, svc, bstat, left, round, dead, quiet, lanes, applied, trace, lock, insync,
                     line, orphans, scheduled, client, calls>>
  BY DEF HandsOver
<1>2. JobsInv' /\ KeysInv' /\ LineInv' BY <1>1, InvFacts, Rested
<1>3. StoreInv' BY <1>1, InvFacts DEF StoreInv
<1>4. run[p].job.file \in Bg BY <1>1, InvFacts, RunFacts
<1>5. (\E m \in Bg : \E ks : coord' = Added(coord, m, ks)) \/ coord' = coord BY <1>1, <1>4
<1>6. trouble' = trouble \/ Trouble BY <1>1
<1>7. BackInv' BY <1>1, <1>5, <1>6, InvFacts, BackAdds
<1> QED BY <1>2, <1>3, <1>7 DEF Inv, QueueInv

LEMMA SyncPlansStep == ASSUME Inv, NEW p \in Pod, SyncPlans(p) PROVE Inv'
<1>1. /\ run[p].phase = "got" /\ Heal
      /\ Rests(p) \/ run' = [run EXCEPT ![p].phase = "plan", ![p].plan = PlanUp]
      /\ UNCHANGED <<children, svc, trouble, bstat, left, round, dead, quiet, lanes, applied, trace, lock,
                     insync, line, orphans, scheduled, client, calls>>
  BY DEF SyncPlans
<1>2. RunsOn /\ run'[p].phase # "body" /\ \A q \in Pod \ {p} : run'[q] = run[q]
  <2>1. CASE Rests(p) BY <2>1, InvFacts, WorkerRests, IdleFacts
  <2>2. CASE run' = [run EXCEPT ![p].phase = "plan", ![p].plan = PlanUp]
    <3>1. PICK r \in RunRec : r = run[p] BY InvFacts, RunFacts
    <3>2. PICK s \in Seq(GoodJob) : s = PlanUp /\ Apart(s) BY PlanUpFacts
    <3>3. PICK x : x = [r EXCEPT !.phase = "plan", !.plan = s] OBVIOUS
    <3>4. x \in RunRec /\ x.phase = "plan" /\ x.plan = s /\ x.job = r.job /\ x.own = r.own
      BY <3>3 DEF RunRec
    <3>5. run' = [run EXCEPT ![p] = x] BY <2>2, <3>1, <3>2, <3>3, InvFacts
    <3>6. /\ x.phase # "idle" => x.job \in GoodJob
          /\ x.own => x.phase # "idle" /\ run[p].own /\ Key(x.job) = Key(run[p].job)
          /\ x.phase = "post" => x.job.file \in Bg
          /\ Apart(x.plan)
      BY <1>1, <3>1, <3>2, <3>4, InvFacts, RunFacts
    <3>7. RunsOn /\ run'[p] = x /\ \A q \in Pod \ {p} : run'[q] = run[q]
      BY <3>4, <3>5, <3>6, InvFacts, WorkerGoes
    <3> QED BY <3>4, <3>7
  <2> QED BY <1>1, <2>1, <2>2
<1>3. JobsInv' /\ KeysInv' BY <1>1, <1>2, InvFacts, QueueStays
<1>4. BodiesOn BY <1>1, <1>2, InvFacts, BodiesKept
<1>5. LineInv' BY <1>1, <1>4, InvFacts, LineGoes
<1>6. StoreInv' BY <1>1, InvFacts DEF StoreInv
<1>7. BackInv' BY <1>1, InvFacts, BackAdds
<1> QED BY <1>3, <1>5, <1>6, <1>7 DEF Inv, QueueInv

\* A worker is done, and the line has changed.
LEMMA RestsAndMoves ==
  ASSUME QueueInv, NEW p \in Pod, Rests(p), UNCHANGED <<applied, lock, client, orphans>>,
         line' \in Seq(GoodJob), Apart(line'),
         \A k \in LineKeys(line') : k \in LineKeys(line) \/ \A x \in Active' : k # Key(x)
  PROVE  JobsInv' /\ KeysInv' /\ LineInv'
<1>1. RunsOn /\ run'[p] = Idle /\ \A q \in Pod \ {p} : run'[q] = run[q] BY WorkerRests
<1>2. BodiesOn BY <1>1, IdleFacts, BodiesKept
<1>3. LineInv' BY <1>2, LineGoes
<1>4. OrphansOn BY OrphansLess
<1>5. client' \in Seq(GoodJob) /\ Apart(client')
  <2>1. client' = client OBVIOUS
  <2> QED BY <2>1 DEF QueueInv, JobsInv, KeysInv
<1>6. JobsInv' /\ KeysInv' BY <1>1, <1>4, <1>5, QueueMoves
<1> QED BY <1>3, <1>6

\* What is at work after a worker is done was at work before, and was not its job.
LEMMA ActiveLess ==
  ASSUME QueueInv, NEW p \in Pod, orphans' = orphans, run'[p].own = FALSE,
         \A q \in Pod \ {p} : run'[q] = run[q]
  PROVE  /\ Active' \subseteq Active
         /\ run[p].own => \A x \in Active' : Key(x) # Key(run[p].job)
<1>1. ASSUME NEW x \in Active'
      PROVE  /\ x \in Active
             /\ run[p].own => Key(x) # Key(run[p].job)
  <2>1. CASE x \in orphans BY <2>1 DEF Active, QueueInv, KeysInv
  <2>2. CASE x \notin orphans
    <3>1. PICK q \in Pod : run'[q].own /\ x = run'[q].job BY <2>2 DEF Active
    <3>2. q # p /\ run'[q] = run[q] BY <3>1
    <3> QED BY <3>1, <3>2 DEF Active, QueueInv, KeysInv
  <2> QED BY <2>1, <2>2
<1> QED BY <1>1

LEMMA SyncAddsStep == ASSUME Inv, NEW p \in Pod, SyncAdds(p) PROVE Inv'
<1>1. /\ line' = AddBulk(run[p].plan) /\ Rests(p)
      /\ UNCHANGED <<svc, trouble, bgVars, applied, trace, lock, insync, orphans, scheduled,
                     client, calls>>
  BY DEF SyncAdds
<1>2. PICK s \in Seq(GoodJob) : s = run[p].plan /\ Apart(s)
  BY InvFacts, RunFacts DEF RunRec
<1>3. PICK l, a : l = AddBulk(s) /\ a = Active OBVIOUS
<1>4. /\ l \in Seq(GoodJob) /\ Apart(l)
      /\ \A k \in LineKeys(l) : k \in LineKeys(line) \/ \A x \in a : k # Key(x)
  BY <1>2, <1>3, InvFacts, AddBulkFacts
<1>5. run'[p] = Idle /\ \A q \in Pod \ {p} : run'[q] = run[q] BY <1>1, InvFacts, WorkerRests
<1>6. Active' \subseteq a BY <1>1, <1>3, <1>5, IdleFacts, InvFacts, ActiveLess
<1>7. line' = l BY <1>1, <1>2, <1>3
<1>8. /\ line' \in Seq(GoodJob) /\ Apart(line')
      /\ \A k \in LineKeys(line') : k \in LineKeys(line) \/ \A x \in Active' : k # Key(x)
  BY <1>4, <1>6, <1>7
<1>9. JobsInv' /\ KeysInv' /\ LineInv' BY <1>1, <1>8, InvFacts, RestsAndMoves
<1>10. StoreInv' BY <1>1, InvFacts DEF StoreInv
<1>11. BackInv' BY <1>1, InvFacts, BackStays DEF bgVars
<1> QED BY <1>9, <1>10, <1>11 DEF Inv, QueueInv

LEMMA GoesBackStep == ASSUME Inv, NEW p \in Pod, GoesBack(p) PROVE Inv'
<1>1. /\ run[p].phase = "got" /\ Rests(p)
      /\ line' = IF run[p].own THEN <<run[p].job>> \o line ELSE line
      /\ UNCHANGED <<svc, trouble, bgVars, applied, trace, lock, insync, orphans, scheduled,
                     client, calls>>
  BY DEF GoesBack
<1>2. PICK j \in GoodJob : j = run[p].job BY <1>1, InvFacts, RunFacts
<1>3. PICK l : l = line' OBVIOUS
<1>4. run'[p] = Idle /\ \A q \in Pod \ {p} : run'[q] = run[q] BY <1>1, InvFacts, WorkerRests
<1>5. run[p].own => \A x \in Active' : Key(x) # Key(j)
  BY <1>1, <1>2, <1>4, IdleFacts, InvFacts, ActiveLess
<1>6. /\ l \in Seq(GoodJob) /\ Apart(l)
      /\ \A k \in LineKeys(l) : k \in LineKeys(line) \/ \A x \in Active' : k # Key(x)
  <2>1. CASE ~run[p].own
    <3>1. l = line BY <1>1, <1>3, <2>1
    <3> QED BY <3>1, InvFacts
  <2>2. CASE run[p].own
    <3>1. l = <<j>> \o line \/ l = Append(line, j) BY <1>1, <1>2, <1>3, <2>2
    <3>2. j \in Active BY <1>2, <2>2 DEF Active
    <3>3. Key(j) \notin LineKeys(line) BY <3>2, InvFacts DEF KeysInv
    <3>4. line \in Seq(GoodJob) /\ Apart(line) BY InvFacts
    <3>5. l \in Seq(GoodJob) /\ LineKeys(l) = LineKeys(line) \cup {Key(j)} /\ Apart(l)
      BY <3>1, <3>3, <3>4, PushFacts
    <3> QED BY <1>5, <2>2, <3>5
  <2> QED BY <2>1, <2>2
<1>7. JobsInv' /\ KeysInv' /\ LineInv' BY <1>1, <1>3, <1>6, InvFacts, RestsAndMoves
<1>8. StoreInv' BY <1>1, InvFacts DEF StoreInv
<1>9. BackInv' BY <1>1, InvFacts, BackStays DEF bgVars
<1> QED BY <1>7, <1>8, <1>9 DEF Inv, QueueInv

LEMMA StallsAliveStep == ASSUME Inv, NEW p \in Pod, StallsAlive(p) PROVE Inv'
<1>1. /\ run[p].own /\ Trouble /\ run' = [run EXCEPT ![p].own = FALSE] /\ Requeued(run[p].job)
      /\ UNCHANGED <<svc, bgVars, applied, trace, lock, insync, orphans, scheduled, client, calls>>
  BY DEF StallsAlive
<1>2. PICK r \in RunRec : r = run[p] BY InvFacts, RunFacts
<1>3. PICK j \in GoodJob : j = r.job BY <1>1, <1>2, InvFacts, RunFacts
<1>4. PICK x : x = [r EXCEPT !.own = FALSE] OBVIOUS
<1>5. x \in RunRec /\ x.job = r.job /\ x.plan = r.plan /\ x.phase = r.phase /\ x.own = FALSE
  BY <1>4 DEF RunRec
<1>6. run' = [run EXCEPT ![p] = x] BY <1>1, <1>2, <1>4, InvFacts
<1>7. /\ x.phase # "idle" => x.job \in GoodJob
      /\ x.own => x.phase # "idle" /\ run[p].own /\ Key(x.job) = Key(run[p].job)
      /\ x.phase = "post" => x.job.file \in Bg
      /\ Apart(x.plan)
  BY <1>2, <1>5, InvFacts, RunFacts
<1>8. RunsOn /\ run'[p] = x /\ \A q \in Pod \ {p} : run'[q] = run[q]
  BY <1>5, <1>6, <1>7, InvFacts, WorkerGoes
<1>9. \A y \in Active' : Key(y) # Key(j) BY <1>1, <1>2, <1>3, <1>5, <1>8, InvFacts, ActiveLess
<1>10. j \in Active BY <1>1, <1>2, <1>3 DEF Active
<1>11. Key(j) \notin LineKeys(line) BY <1>10, InvFacts DEF KeysInv
<1>12. /\ line' \in Seq(GoodJob) /\ Apart(line')
       /\ \A k \in LineKeys(line') : k \in LineKeys(line) \/ \A y \in Active' : k # Key(y)
  BY <1>1, <1>2, <1>3, <1>9, <1>11, InvFacts, RequeuedFacts
<1>13. client' \in Seq(GoodJob) /\ Apart(client')
  <2>1. client' = client BY <1>1
  <2> QED BY <2>1, InvFacts
<1>14. OrphansOn BY <1>1, InvFacts, OrphansLess
<1>15. JobsInv' /\ KeysInv' BY <1>8, <1>12, <1>13, <1>14, InvFacts, QueueMoves
<1>16. BodiesOn
  <2>1. ASSUME NEW q \in Pod, run'[q].phase = "body"
        PROVE  /\ run[q].phase = "body" /\ lock' = q
               /\ run'[q].job.what = run[q].job.what /\ run'[q].job.file = run[q].job.file
    <3>1. run'[q].phase = run[q].phase /\ run'[q].job = run[q].job
      <4>1. CASE q = p BY <1>2, <1>5, <1>8, <4>1
      <4>2. CASE q # p BY <1>8, <4>2
      <4> QED BY <4>1, <4>2
    <3>2. lock = q BY <2>1, <3>1, InvFacts DEF LineInv
    <3> QED BY <1>1, <2>1, <3>1, <3>2
  <2> QED BY <2>1 DEF BodiesOn
<1>17. LineInv' BY <1>1, <1>16, InvFacts, LineGoes
<1>18. StoreInv' BY <1>1, InvFacts DEF StoreInv
<1>19. BackInv' BY <1>1, InvFacts, BackStays DEF bgVars
<1> QED BY <1>15, <1>17, <1>18, <1>19 DEF Inv, QueueInv

\* A worker takes the first job of the line; with global concurrency one, only
\* when nobody has one.
LEMMA FetchStep == ASSUME Inv, NEW p \in Pod, Fetch(p) PROVE Inv'
<1>1. PICK j, x : j = line[1] /\ x = [Idle EXCEPT !.phase = "got", !.job = j, !.own = TRUE] OBVIOUS
<1>2. /\ run[p].phase = "idle" /\ line # <<>> /\ (OneAtATime => Active = {})
      /\ run' = [run EXCEPT ![p] = x] /\ line' = SubSeq(line, 2, Len(line))
      /\ UNCHANGED <<svc, trouble, bgVars, applied, trace, lock, insync, orphans, scheduled,
                     client, calls>>
  BY <1>1 DEF Fetch
<1>3. PICK l : l = SubSeq(line, 2, Len(line)) OBVIOUS
<1>4. /\ j \in GoodJob /\ l \in Seq(GoodJob) /\ LineKeys(l) \subseteq LineKeys(line)
      /\ Key(j) \in LineKeys(line) /\ Apart(l) /\ Key(j) \notin LineKeys(l)
  <2>1. line \in Seq(GoodJob) /\ line # <<>> /\ Apart(line) BY <1>2, InvFacts
  <2>2. /\ line[1] \in GoodJob /\ l \in Seq(GoodJob) /\ LineKeys(l) \subseteq LineKeys(line)
        /\ Key(line[1]) \in LineKeys(line)
        /\ Apart(line) => Apart(l) /\ Key(line[1]) \notin LineKeys(l)
    BY <1>3, <2>1, PopFacts, Zenon
  <2>3. j = line[1] BY <1>1
  <2> QED BY <2>1, <2>2, <2>3
<1>5. /\ x \in RunRec /\ x.phase = "got" /\ x.job = j /\ x.own = TRUE /\ x.plan = Idle.plan
  <2>1. PICK r \in RunRec : r = Idle BY IdleFacts
  <2>2. x = [r EXCEPT !.phase = "got", !.job = j, !.own = TRUE] BY <1>1, <2>1
  <2>3. j \in GoodJob \cup {NoJob} BY <1>4
  <2> QED BY <2>1, <2>2, <2>3 DEF RunRec
<1>6. Apart(x.plan) BY <1>5, IdleFacts
<1>7. /\ run' \in [Pod -> RunRec] /\ run'[p] = x /\ \A q \in Pod \ {p} : run'[q] = run[q]
  BY <1>2, <1>5, InvFacts
<1>8. line' = l /\ client' = client /\ orphans' = orphans BY <1>2, <1>3
<1>9. ASSUME NEW q \in Pod
      PROVE  /\ run'[q].phase # "idle" => run'[q].job \in GoodJob
             /\ run'[q].own => run'[q].phase # "idle"
             /\ run'[q].phase = "post" => run'[q].job.file \in Bg
             /\ Apart(run'[q].plan)
  <2>1. CASE q = p BY <1>4, <1>5, <1>6, <1>7, <2>1
  <2>2. CASE q # p
    <3>1. run'[q] = run[q] BY <1>7, <2>2
    <3> QED BY <3>1, InvFacts, RunFacts
  <2> QED BY <2>1, <2>2
<1>10. JobsInv' BY <1>4, <1>7, <1>8, <1>9, InvFacts DEF JobsInv
\* Its key was in the line, so nobody else is at work under it.
<1>11. \A y \in Active : Key(y) \notin LineKeys(line) /\ Key(y) # Key(j)
  BY <1>4, InvFacts DEF KeysInv
<1>12. \A y \in Active' : y = j \/ y \in Active
  <2>1. ASSUME NEW y \in Active', y \notin orphans PROVE y = j \/ y \in Active
    <3>1. PICK q \in Pod : run'[q].own /\ y = run'[q].job BY <1>8, <2>1 DEF Active
    <3>2. CASE q = p BY <1>5, <1>7, <3>1, <3>2
    <3>3. CASE q # p BY <1>7, <3>1, <3>3 DEF Active
    <3> QED BY <3>2, <3>3
  <2> QED BY <2>1 DEF Active
<1>13. \A y \in Active' : Key(y) \notin LineKeys(l) BY <1>4, <1>11, <1>12
<1>14. \A q \in Pod : run[q].own => run[q].job \in Active BY DEF Active
<1>15. \A o \in orphans : o \in Active BY DEF Active
<1>16. \A q, r \in Pod : q # r /\ run'[q].own /\ run'[r].own => Key(run'[q].job) # Key(run'[r].job)
  <2>1. ASSUME NEW q \in Pod, NEW r \in Pod, q # r, run'[q].own, run'[r].own,
               Key(run'[q].job) = Key(run'[r].job)
        PROVE  FALSE
    <3>1. CASE q = p
      <4>1. run'[r] = run[r] /\ Key(run[r].job) = Key(j) BY <1>5, <1>7, <2>1, <3>1
      <4> QED BY <1>11, <1>14, <2>1, <4>1
    <3>2. CASE r = p
      <4>1. run'[q] = run[q] /\ Key(run[q].job) = Key(j) BY <1>5, <1>7, <2>1, <3>2
      <4> QED BY <1>11, <1>14, <2>1, <4>1
    <3>3. CASE q # p /\ r # p
      <4>1. run'[q] = run[q] /\ run'[r] = run[r] BY <1>7, <3>3
      <4> QED BY <2>1, <4>1, InvFacts DEF KeysInv
    <3> QED BY <3>1, <3>2, <3>3
  <2> QED BY <2>1
<1>17. \A q \in Pod, o \in orphans : run'[q].own => Key(o) # Key(run'[q].job)
  <2>1. ASSUME NEW q \in Pod, NEW o \in orphans, run'[q].own PROVE Key(o) # Key(run'[q].job)
    <3>1. CASE q = p BY <1>5, <1>7, <1>11, <1>15, <3>1
    <3>2. CASE q # p
      <4>1. run'[q] = run[q] BY <1>7, <3>2
      <4> QED BY <2>1, <4>1, InvFacts DEF KeysInv
    <3> QED BY <3>1, <3>2
  <2> QED BY <2>1
<1>18. KeysInv'
  <2>1. \A o, y \in orphans : o # y => Key(o) # Key(y) BY InvFacts DEF KeysInv
  <2>2. PICK l2, c2 : l2 = line' /\ c2 = client' OBVIOUS
  <2>3. Apart(l2) /\ Apart(c2) /\ \A y \in Active' : Key(y) \notin LineKeys(l2)
    BY <1>4, <1>8, <1>13, <2>2, InvFacts
  <2>4. \A q \in Pod : Apart(run'[q].plan) BY <1>9
  <2> QED BY <1>8, <1>16, <1>17, <2>1, <2>2, <2>3, <2>4 DEF KeysInv
<1>19. BodiesOn BY <1>2, <1>5, <1>7, InvFacts, BodiesKept
<1>20. LineInv' BY <1>2, <1>19, InvFacts, LineGoes
<1>21. StoreInv' BY <1>2, InvFacts DEF StoreInv
<1>22. BackInv' BY <1>2, InvFacts, BackStays DEF bgVars
<1> QED BY <1>10, <1>18, <1>20, <1>21, <1>22 DEF Inv, QueueInv

-----------------------------------------------------------------------------
(* What happens to processes, files and Redis.                             *)

\* A dead process's job stays at work with nobody, under its key.
LEMMA CrashStep == ASSUME Inv, NEW p \in Pod, Crash(p) PROVE Inv'
<1>1. /\ Trouble /\ svc' = [svc EXCEPT ![p] = "off"]
      /\ coord' = CoordsLeft(p) /\ lanes' = LanesLeft(p) /\ dead' = LeasesLeft(p)
      /\ orphans' = (IF run[p].own THEN orphans \cup {run[p].job} ELSE orphans)
      /\ lock' = (IF lock = p THEN Gone ELSE lock)
      /\ Rests(p)
      /\ UNCHANGED <<children, bstat, left, round, quiet, applied, trace, insync, line, scheduled,
                     client, calls>>
  BY DEF Crash
<1>2. RunsOn /\ run'[p] = Idle /\ \A q \in Pod \ {p} : run'[q] = run[q] BY <1>1, InvFacts, WorkerRests
<1>3. BodiesOn BY <1>1, <1>2, IdleFacts, InvFacts, BodiesKept
<1>4. LineInv' BY <1>1, <1>3, InvFacts, LineGoes
<1>5. orphans' \subseteq GoodJob BY <1>1, InvFacts, RunFacts
<1>6. line' = line /\ client' = client BY <1>1
<1>7. JobsInv' BY <1>2, <1>5, <1>6, InvFacts DEF JobsInv, RunsOn
<1>8. /\ ~run'[p].own
      /\ \A q \in Pod : run'[q].own => q # p /\ run'[q] = run[q] /\ run[q].own
  BY <1>2, IdleFacts
<1>9. \A x \in Active' : x \in Active
  <2>1. ASSUME NEW x \in Active' PROVE x \in Active
    <3>1. CASE x \in orphans' BY <1>1, <3>1 DEF Active
    <3>2. CASE x \notin orphans'
      <4>1. PICK q \in Pod : run'[q].own /\ x = run'[q].job BY <3>2 DEF Active
      <4> QED BY <1>8, <4>1 DEF Active
    <3> QED BY <3>1, <3>2
  <2> QED BY <2>1
<1>10. \A q, r \in Pod : q # r /\ run'[q].own /\ run'[r].own => Key(run'[q].job) # Key(run'[r].job)
  BY <1>8, InvFacts DEF KeysInv
<1>11. ASSUME NEW o \in orphans' PROVE o \in orphans \/ (run[p].own /\ o = run[p].job)
  BY <1>1
<1>12. \A q \in Pod, o \in orphans' : run'[q].own => Key(o) # Key(run'[q].job)
  BY <1>8, <1>11, InvFacts DEF KeysInv
<1>13. \A o, x \in orphans' : o # x => Key(o) # Key(x) BY <1>11, InvFacts DEF KeysInv
<1>14. KeysInv'
  <2>1. \A q \in Pod : Apart(run'[q].plan) BY <1>2 DEF RunsOn
  <2>2. \A x \in Active' : Key(x) \notin LineKeys(line) BY <1>9, InvFacts DEF KeysInv
  <2>3. PICK l2, c2 : l2 = line' /\ c2 = client' OBVIOUS
  <2>4. Apart(l2) /\ Apart(c2) /\ \A y \in Active' : Key(y) \notin LineKeys(l2)
    BY <1>6, <2>2, <2>3, InvFacts
  <2> QED BY <1>10, <1>12, <1>13, <2>1, <2>3, <2>4 DEF KeysInv
<1>15. StoreInv'
  <2>1. lock' \in Pod \cup {Free, Cli, Gone} BY <1>1, InvFacts DEF StoreInv
  <2> QED BY <1>1, <2>1, InvFacts DEF StoreInv
<1>16. BackInv'
  <2>1. CoordsInv' /\ LanesInv' /\ LeasesInv' BY <1>1, InvFacts, CrashKeeps
  <2>2. BackTypes BY InvFacts DEF BackInv
  <2>3. trouble' \in 0..MaxTrouble BY <1>1, <2>2, TroubleKept DEF BackTypes
  <2>4. svc' \in [Pod -> {"off", "up", "closing"}] BY <1>1, <2>2 DEF BackTypes
  <2>5. BackTypes' BY <1>1, <2>2, <2>3, <2>4 DEF BackTypes
  <2> QED BY <2>1, <2>5 DEF BackInv
<1> QED BY <1>4, <1>7, <1>14, <1>15, <1>16 DEF Inv, QueueInv

\* A worker's record whose job or plan names a file that has changed.
AgedRun(r, f) == [r EXCEPT !.plan = Aged(@, f), !.job.old = @ \/ Key(r.job) = <<"up", f>>]

LEMMA NoJobFacts ==
  NoJob.what = "none" /\ NoJob.old = FALSE /\ [NoJob EXCEPT !.old = FALSE] = NoJob
<1>1. NoJob = [what |-> "none", file |-> NoFile, old |-> FALSE, stalls |-> 0]
  BY Zenon DEF NoJob, AJob
<1>2. PICK j : j = [what |-> "none", file |-> NoFile, old |-> FALSE, stalls |-> 0] OBVIOUS
<1>3. PICK k : k = [j EXCEPT !.old = FALSE] OBVIOUS
<1>4. j.what = "none" /\ j.old = FALSE BY <1>2
<1>5. k = j
  <2>1. PICK n : n = NoFile OBVIOUS
  <2>2. j \in [what: {"none"}, file: {n}, old: BOOLEAN, stalls: {0}] BY <1>2, <2>1
  <2>3. k \in [what: {"none"}, file: {n}, old: {FALSE}, stalls: {0}] BY <1>3, <2>2
  <2>4. j \in [what: {"none"}, file: {n}, old: {FALSE}, stalls: {0}] BY <1>2, <2>1
  <2>5. k.what = j.what /\ k.file = j.file /\ k.old = j.old /\ k.stalls = j.stalls BY <2>3, <2>4
  <2> QED BY <2>3, <2>4, <2>5
<1> QED BY <1>1, <1>2, <1>3, <1>4, <1>5, Zenon

LEMMA AgedRecord ==
  ASSUME NEW r \in RunRec, r.phase # "idle" => r.job \in GoodJob, Apart(r.plan), NEW f, NEW x,
         x = AgedRun(r, f)
  PROVE  /\ x \in RunRec /\ x.phase = r.phase /\ x.own = r.own /\ Apart(x.plan)
         /\ x.job.what = r.job.what /\ x.job.file = r.job.file /\ Key(x.job) = Key(r.job)
         /\ x.phase # "idle" => x.job \in GoodJob
<1>1. PICK s \in Seq(GoodJob) : s = Aged(r.plan, f) /\ Apart(s)
  BY AgedFacts DEF RunRec
<1>2. PICK j \in GoodJob \cup {NoJob} : j = r.job BY DEF RunRec
<1>3. PICK b \in BOOLEAN : b = (j.old \/ Key(j) = <<"up", f>>) OBVIOUS
<1>4. PICK y : y = [j EXCEPT !.old = b] OBVIOUS
<1>5. x = [r EXCEPT !.plan = s, !.job = y]
  BY <1>1, <1>2, <1>3, <1>4 DEF RunRec, AgedRun
<1>6. y \in GoodJob \cup {NoJob} /\ y.what = j.what /\ y.file = j.file /\ (j \in GoodJob => y \in GoodJob)
  <2>1. CASE j \in GoodJob
    <3>1. j \in Job BY <2>1 DEF GoodJob
    <3>2. y \in Job /\ y.what = j.what /\ y.file = j.file BY <1>4, <3>1 DEF Job
    <3> QED BY <2>1, <3>2 DEF GoodJob
  <2>2. CASE j = NoJob /\ j \notin GoodJob
    <3>1. Key(j) # <<"up", f>> BY <2>2, NoJobFacts DEF Key
    <3>2. b = FALSE BY <1>3, <2>2, <3>1, NoJobFacts
    <3>3. y = j BY <1>4, <2>2, <3>2, NoJobFacts
    <3> QED BY <2>2, <3>3
  <2> QED BY <2>1, <2>2
<1>7. /\ x \in RunRec /\ x.phase = r.phase /\ x.own = r.own /\ x.plan = s /\ x.job = y
  BY <1>5, <1>6 DEF RunRec
<1> QED BY <1>1, <1>2, <1>6, <1>7 DEF Key

LEMMA FixedStep == ASSUME Inv, NEW f \in File, Fixed(f) PROVE Inv'
<1>1. /\ trace' = [trace EXCEPT ![f] = "stale"]
      /\ line' = Aged(line, f) /\ client' = Aged(client, f)
      /\ run' = [p \in Pod |-> [run[p] EXCEPT !.plan = Aged(@, f),
                                              !.job.old = @ \/ Key(run[p].job) = <<"up", f>>]]
      /\ orphans' = {IF Key(j) = <<"up", f>> THEN [j EXCEPT !.old = TRUE] ELSE j : j \in orphans}
      /\ UNCHANGED <<svc, trouble, bgVars, applied, lock, insync, scheduled, calls>>
  BY DEF Fixed
<1>2. ASSUME NEW p \in Pod
      PROVE  /\ run'[p] \in RunRec /\ run'[p].phase = run[p].phase /\ run'[p].own = run[p].own
             /\ Apart(run'[p].plan)
             /\ run'[p].job.what = run[p].job.what /\ run'[p].job.file = run[p].job.file
             /\ Key(run'[p].job) = Key(run[p].job)
             /\ run'[p].phase # "idle" => run'[p].job \in GoodJob
  <2>1. PICK r \in RunRec : r = run[p] BY InvFacts, RunFacts
  <2>2. (r.phase # "idle" => r.job \in GoodJob) /\ Apart(r.plan) BY <2>1, InvFacts, RunFacts
  <2>3. PICK x : x = run'[p] OBVIOUS
  <2>4. x = AgedRun(r, f) BY <1>1, <2>1, <2>3 DEF AgedRun
  <2>5. /\ x \in RunRec /\ x.phase = r.phase /\ x.own = r.own /\ Apart(x.plan)
        /\ x.job.what = r.job.what /\ x.job.file = r.job.file /\ Key(x.job) = Key(r.job)
        /\ x.phase # "idle" => x.job \in GoodJob
    BY <2>2, <2>4, AgedRecord
  <2> QED BY <2>1, <2>3, <2>5
<1>3. run' = [p \in Pod |-> run'[p]] BY <1>1
<1>4. run' \in [Pod -> RunRec] BY <1>2, <1>3
<1>5. RunsOn
  <2>1. ASSUME NEW p \in Pod
        PROVE  /\ run'[p].phase # "idle" => run'[p].job \in GoodJob
               /\ run'[p].own =>
                    run'[p].phase # "idle" /\ run[p].own /\ Key(run'[p].job) = Key(run[p].job)
               /\ run'[p].phase = "post" => run'[p].job.file \in Bg
               /\ Apart(run'[p].plan)
    BY <1>2, InvFacts, RunFacts
  <2> QED BY <1>4, <2>1 DEF RunsOn
<1>6. BodiesOn
  <2>1. lock' = lock BY <1>1
  <2> QED BY <1>2, <2>1, InvFacts DEF BodiesOn, LineInv
<1>7. ASSUME NEW x \in orphans' PROVE x \in GoodJob /\ \E o \in orphans : Key(x) = Key(o)
  <2>1. PICK j \in orphans : x = IF Key(j) = <<"up", f>> THEN [j EXCEPT !.old = TRUE] ELSE j BY <1>1
  <2>2. j \in GoodJob /\ j \in Job BY InvFacts DEF GoodJob
  <2>3. CASE x = j BY <2>2, <2>3
  <2>4. CASE x = [j EXCEPT !.old = TRUE]
    <3>1. x \in Job /\ x.what = j.what /\ x.file = j.file BY <2>2, <2>4 DEF Job
    <3> QED BY <2>2, <3>1 DEF GoodJob, Key
  <2> QED BY <2>1, <2>3, <2>4
<1>8. ASSUME NEW x \in orphans', NEW y \in orphans', x # y PROVE Key(x) # Key(y)
  <2>1. PICK i \in orphans : x = IF Key(i) = <<"up", f>> THEN [i EXCEPT !.old = TRUE] ELSE i BY <1>1
  <2>2. PICK j \in orphans : y = IF Key(j) = <<"up", f>> THEN [j EXCEPT !.old = TRUE] ELSE j BY <1>1
  <2>3. i # j BY <1>8, <2>1, <2>2
  <2>4. Key(i) # Key(j) BY <2>3, InvFacts DEF KeysInv
  <2>5. Key(x) = Key(i)
    <3>1. PICK z : z = [i EXCEPT !.old = TRUE] OBVIOUS
    <3>2. i \in Job BY InvFacts DEF GoodJob
    <3>3. z.what = i.what /\ z.file = i.file BY <3>1, <3>2 DEF Job
    <3>4. x = z \/ x = i BY <2>1, <3>1
    <3> QED BY <3>3, <3>4 DEF Key
  <2>6. Key(y) = Key(j)
    <3>1. PICK z : z = [j EXCEPT !.old = TRUE] OBVIOUS
    <3>2. j \in Job BY InvFacts DEF GoodJob
    <3>3. z.what = j.what /\ z.file = j.file BY <3>1, <3>2 DEF Job
    <3>4. y = z \/ y = j BY <2>2, <3>1
    <3> QED BY <3>3, <3>4 DEF Key
  <2> QED BY <2>4, <2>5, <2>6
<1>9. OrphansOn BY <1>7, <1>8 DEF OrphansOn
<1>10. PICK l, c : l = Aged(line, f) /\ c = Aged(client, f) OBVIOUS
<1>11. /\ l \in Seq(GoodJob) /\ LineKeys(l) = LineKeys(line) /\ Apart(l)
       /\ c \in Seq(GoodJob) /\ Apart(c)
  BY <1>10, InvFacts, AgedFacts
<1>12. line' = l /\ client' = c BY <1>1, <1>10
<1>13. JobsInv' /\ KeysInv' BY <1>5, <1>9, <1>11, <1>12, InvFacts, QueueMoves
<1>14. LineInv' BY <1>1, <1>6, InvFacts, LineGoes
<1>15. StoreInv'
  <2>1. trace' \in [File -> {"none", "failed", "stale"}] BY <1>1, InvFacts DEF StoreInv
  <2> QED BY <1>1, <2>1, InvFacts DEF StoreInv
<1>16. BackInv' BY <1>1, InvFacts, BackStays DEF bgVars
<1> QED BY <1>13, <1>14, <1>15, <1>16 DEF Inv, QueueInv

\* A flushed Redis has no jobs, and what was in hand is nobody's.
LEMMA RedisLostStep == ASSUME Inv, RedisLost PROVE Inv'
<1>1. /\ Trouble /\ coord' = NoCoords /\ lanes' = {} /\ dead' = AllLeasesLeft
      /\ line' = <<>> /\ orphans' = {} /\ scheduled' = FALSE
      /\ run' = [p \in Pod |-> [run[p] EXCEPT !.own = FALSE]]
      /\ UNCHANGED <<children, svc, bstat, left, round, quiet, applied, trace, lock, insync, client, calls>>
  BY DEF RedisLost
<1>2. ASSUME NEW p \in Pod
      PROVE  /\ run'[p] \in RunRec /\ run'[p].phase = run[p].phase /\ ~run'[p].own
             /\ run'[p].plan = run[p].plan /\ run'[p].job = run[p].job
  <2>1. PICK r \in RunRec : r = run[p] BY InvFacts, RunFacts
  <2>2. run'[p] = [r EXCEPT !.own = FALSE] BY <1>1, <2>1
  <2>3. PICK x : x = [r EXCEPT !.own = FALSE] OBVIOUS
  <2>4. x \in RunRec /\ x.phase = r.phase /\ ~x.own /\ x.plan = r.plan /\ x.job = r.job
    BY <2>3 DEF RunRec
  <2> QED BY <2>1, <2>2, <2>3, <2>4
<1>3. run' = [p \in Pod |-> run'[p]] BY <1>1
<1>4. run' \in [Pod -> RunRec] BY <1>2, <1>3
<1>5. RunsOn BY <1>2, <1>4, InvFacts, RunFacts DEF RunsOn
<1>6. BodiesOn
  <2>1. lock' = lock BY <1>1
  <2> QED BY <1>2, <2>1, InvFacts DEF BodiesOn, LineInv
<1>7. LineInv' BY <1>1, <1>6, InvFacts, LineGoes
<1>8. OrphansOn BY <1>1, InvFacts, OrphansLess
<1>9. PICK l : l = <<>> OBVIOUS
<1>10. l \in Seq(GoodJob) /\ Apart(l) /\ LineKeys(l) = {} BY <1>9, EmptyFacts
<1>11. line' = l /\ client' = client BY <1>1, <1>9
<1>12. JobsInv' /\ KeysInv' BY <1>5, <1>8, <1>10, <1>11, InvFacts, QueueMoves
<1>13. StoreInv' BY <1>1, InvFacts DEF StoreInv
<1>14. BackInv'
  <2>1. CoordsInv' /\ LanesInv' /\ LeasesInv' BY <1>1, InvFacts, FlushKeeps
  <2>2. BackTypes BY InvFacts DEF BackInv
  <2>3. trouble' \in 0..MaxTrouble BY <1>1, <2>2, TroubleKept DEF BackTypes
  <2>4. BackTypes' BY <1>1, <2>2, <2>3 DEF BackTypes
  <2> QED BY <2>1, <2>4 DEF BackInv
<1> QED BY <1>7, <1>12, <1>13, <1>14 DEF Inv, QueueInv

-----------------------------------------------------------------------------
(* Services, schedules and the command line.                               *)

\* A process changes its state, and may heal.
LEMMA BackServes ==
  ASSUME BackInv, NEW p \in Pod, NEW s \in {"off", "up", "closing"}, svc' = [svc EXCEPT ![p] = s],
         UNCHANGED <<children, bstat, left, round, dead, quiet, lanes>>,
         trouble' = trouble \/ Trouble,
         Heal \/ coord' = coord
  PROVE  BackInv'
<1>1. BackTypes /\ CoordsInv /\ LanesInv /\ LeasesInv BY DEF BackInv
<1>2. round \in [Bg -> 0..MaxRounds] /\ round' = round BY <1>1 DEF BackTypes
<1>3. CoordsInv' BY <1>1, <1>2, AddsKeep
<1>4. trouble' \in 0..MaxTrouble BY <1>1, TroubleKept DEF BackTypes
<1>5. svc' \in [Pod -> {"off", "up", "closing"}] BY <1>1 DEF BackTypes
<1>6. BackTypes' BY <1>1, <1>4, <1>5 DEF BackTypes
<1>7. LanesInv' /\ LeasesInv' BY <1>1, LanesSame
<1> QED BY <1>3, <1>6, <1>7 DEF BackInv

LEMMA ServiceStep ==
  ASSUME Inv, NEW p \in Pod, Starts(p) \/ Closes(p) \/ Closed(p)
  PROVE  Inv'
<1>1. /\ \E s \in {"off", "up", "closing"} : svc' = [svc EXCEPT ![p] = s]
      /\ UNCHANGED <<children, bstat, left, round, dead, quiet, lanes>>
      /\ trouble' = trouble \/ Trouble
      /\ Heal \/ coord' = coord
      /\ scheduled' \in {scheduled, TRUE}
      /\ UNCHANGED <<applied, trace, lock, insync, line, orphans, run, client, calls>>
  <2>1. CASE Starts(p) BY <2>1 DEF Starts
  <2>2. CASE Closes(p) BY <2>2 DEF Closes, bgVars, mqVars
  <2>3. CASE Closed(p) BY <2>3 DEF Closed, bgVars, mqVars
  <2> QED BY <2>1, <2>2, <2>3
<1>2. JobsInv' /\ KeysInv' /\ LineInv' BY <1>1, InvFacts, Untouched
<1>3. StoreInv'
  <2>1. scheduled' \in BOOLEAN BY <1>1, InvFacts DEF StoreInv
  <2> QED BY <1>1, <2>1, InvFacts DEF StoreInv
<1>4. BackInv'
  <2>1. PICK s \in {"off", "up", "closing"} : svc' = [svc EXCEPT ![p] = s] BY <1>1
  <2> QED BY <1>1, <2>1, InvFacts, BackServes
<1> QED BY <1>2, <1>3, <1>4 DEF Inv, QueueInv

\* Nobody is at work under the lock when it is a dead holder's, or free.
LEMMA LockStep == ASSUME Inv, LockExpires \/ Reschedules \/ CliStarts PROVE Inv'
<1>1. /\ UNCHANGED <<svc, trouble, bgVars, applied, trace, insync, line, orphans, run, client>>
      /\ lock' = lock \/ (lock \in {Free, Gone} /\ lock' \in {Free, Cli})
      /\ scheduled' \in {scheduled, TRUE}
      /\ calls' = calls \/ Call
  BY DEF LockExpires, Reschedules, CliStarts
<1>2. lock' = lock \/ \A p \in Pod : lock # p BY <1>1, HoldersFacts
<1>3. JobsInv' /\ KeysInv' /\ LineInv' BY <1>1, <1>2, InvFacts, Untouched
<1>4. StoreInv'
  <2>1. scheduled' \in BOOLEAN BY <1>1, InvFacts DEF StoreInv
  <2>2. calls' \in 0..MaxCalls BY <1>1, InvFacts, CallsAssumption DEF StoreInv, Call
  <2>3. lock' \in Pod \cup {Free, Cli, Gone} BY <1>1, InvFacts DEF StoreInv
  <2> QED BY <1>1, <2>1, <2>2, <2>3, InvFacts DEF StoreInv
<1>5. BackInv' BY <1>1, InvFacts, BackStays DEF bgVars
<1> QED BY <1>3, <1>4, <1>5 DEF Inv, QueueInv

\* The first file that is not applied comes right after those that are.
LEMMA FirstPendingFacts ==
  ASSUME LineInv, PendingFiles # {}
  PROVE  FirstPending \in File /\ FirstPending = Len(applied) + 1
<1>1. /\ Len(applied) \in Nat /\ Applied = 1..Len(applied) /\ Len(applied) <= NumFiles
      /\ NumFiles \in Nat
  BY AppliedFacts, FilesAssumption
<1>2. PICK n \in Nat : n = Len(applied) BY <1>1
<1>3. \A f : f \in PendingFiles <=> f \in n + 1..NumFiles BY <1>1, <1>2 DEF PendingFiles, File
<1>4. n + 1 \in PendingFiles /\ \A g \in PendingFiles : n + 1 <= g BY <1>1, <1>2, <1>3
<1>5. /\ FirstPending \in PendingFiles
      /\ \A g \in PendingFiles : FirstPending <= g
  BY <1>4 DEF FirstPending
<1>6. FirstPending \in n + 1..NumFiles /\ FirstPending <= n + 1 BY <1>3, <1>4, <1>5
<1> QED BY <1>1, <1>2, <1>6 DEF File

LEMMA CliEndsStep == ASSUME Inv, CliEnds PROVE Inv'
<1>1. /\ lock = Cli /\ lock' = Free
      /\ UNCHANGED <<children, svc, trouble, round, dead, quiet, coord, lanes, insync, line, orphans,
                     scheduled, run, client, calls>>
      /\ \/ UNCHANGED <<applied, trace, bstat, left>>
         \/ /\ PendingFiles # {} /\ applied' = Append(applied, FirstPending)
            /\ trace' = [trace EXCEPT ![FirstPending] = "none"]
            /\ Registers(FirstPending)
  BY DEF CliEnds
<1>2. PendingFiles # {} => FirstPending \in File /\ FirstPending = Len(applied) + 1
  BY InvFacts, FirstPendingFacts
<1>3. \A p \in Pod : run[p].phase # "body" BY <1>1, InvFacts, HoldersFacts DEF LineInv
<1>4. RunsOn BY <1>1, InvFacts, RunSame
<1>5. JobsInv' /\ KeysInv' BY <1>1, <1>4, InvFacts, QueueStays
<1>6. LineInv'
  <2>1. PICK s : s = applied' OBVIOUS
  <2>2. s \in Seq(File) /\ \A i \in DOMAIN s : s[i] = i
    <3>1. CASE PendingFiles # {} /\ s = Append(applied, FirstPending)
      BY <1>2, <3>1, InvFacts, AppendFacts
    <3>2. CASE s = applied BY <3>2, InvFacts DEF LineInv
    <3> QED BY <1>1, <2>1, <3>1, <3>2
  <2>3. \A p \in Pod : run'[p].phase # "body" BY <1>1, <1>3
  <2> QED BY <2>1, <2>2, <2>3 DEF LineInv
<1>7. StoreInv'
  <2>1. trace' \in [File -> {"none", "failed", "stale"}] BY <1>1, InvFacts DEF StoreInv
  <2> QED BY <1>1, <2>1, InvFacts DEF StoreInv
<1>8. BackInv'
  <2>1. CASE PendingFiles # {} /\ Registers(FirstPending)
    BY <1>1, <1>2, <2>1, InvFacts, RegistersFacts
  <2>2. CASE UNCHANGED <<bstat, left>> BY <1>1, <2>2, InvFacts, BackStays
  <2> QED BY <1>1, <2>1, <2>2
<1> QED BY <1>5, <1>6, <1>7, <1>8 DEF Inv, QueueInv

\* The background queue goes on by itself.
LEMMA BesideStep == ASSUME Inv, BackgroundNext, UNCHANGED mqVars PROVE Inv'
<1>1. UNCHANGED <<applied, trace, lock, insync, line, orphans, scheduled, run, client, calls>>
  BY DEF mqVars
<1>2. BackInv' BY InvFacts, BackgroundStep
<1>3. JobsInv' /\ KeysInv' /\ LineInv' BY <1>1, InvFacts, Untouched
<1>4. StoreInv' BY <1>1, InvFacts DEF StoreInv
<1> QED BY <1>2, <1>3, <1>4 DEF Inv, QueueInv

LEMMA NothingStep == ASSUME Inv, UNCHANGED vars PROVE Inv'
<1>1. /\ UNCHANGED <<applied, trace, lock, insync, line, orphans, scheduled, run, client, calls>>
      /\ UNCHANGED <<svc, trouble, children, bstat, left, round, dead, quiet, coord, lanes>>
  BY DEF vars, mqVars, bgVars
<1>2. BackInv' BY <1>1, InvFacts, BackStays
<1>3. JobsInv' /\ KeysInv' /\ LineInv' BY <1>1, InvFacts, Untouched
<1>4. StoreInv' BY <1>1, InvFacts DEF StoreInv
<1> QED BY <1>2, <1>3, <1>4 DEF Inv, QueueInv

-----------------------------------------------------------------------------
(* The invariant, and what it says.                                        *)

LEMMA InvStarts == Init => Inv
<1> SUFFICES ASSUME Init PROVE Inv OBVIOUS
<1>1. /\ BackgroundInit
      /\ applied = <<>> /\ trace = [f \in File |-> "none"] /\ lock = Free /\ insync = FALSE
      /\ line = <<>> /\ orphans = {} /\ scheduled = FALSE /\ run = [p \in Pod |-> Idle]
      /\ client = <<>> /\ calls = 0
  BY DEF Init, NoPlan
<1>2. BackInv BY <1>1, BackgroundStarts
<1>3. StoreInv
  <2>1. trace \in [File -> {"none", "failed", "stale"}]
    <3>1. \A f \in File : trace[f] = "none" /\ trace = [g \in File |-> trace[g]] BY <1>1
    <3> QED BY <1>1, <3>1
  <2>2. lock \in Pod \cup {Free, Cli, Gone} /\ calls \in 0..MaxCalls BY <1>1, CallsAssumption
  <2>3. insync \in BOOLEAN /\ scheduled \in BOOLEAN BY <1>1
  <2> QED BY <2>1, <2>2, <2>3 DEF StoreInv
<1>4. \A p \in Pod : run[p] = Idle BY <1>1
<1>5. run \in [Pod -> RunRec]
  <2>1. PICK i \in RunRec : i = Idle BY IdleFacts
  <2> QED BY <1>1, <2>1
<1>6. JobsInv
  <2>1. line \in Seq(GoodJob) /\ client \in Seq(GoodJob) BY <1>1, EmptyFacts
  <2> QED BY <1>1, <1>4, <1>5, <2>1, IdleFacts DEF JobsInv
<1>7. \A p \in Pod : ~run[p].own /\ run[p].phase = "idle" /\ Apart(run[p].plan)
  BY <1>4, IdleFacts
<1>8. KeysInv
  <2>1. Apart(line) /\ Apart(client) BY <1>1, EmptyFacts
  <2>2. \A x \in Active : FALSE BY <1>1, <1>7 DEF Active
  <2> QED BY <1>1, <1>7, <2>1, <2>2 DEF KeysInv
<1>9. LineInv BY <1>1, <1>7 DEF LineInv
<1> QED BY <1>2, <1>3, <1>6, <1>8, <1>9 DEF Inv, QueueInv

LEMMA InvStep == Inv /\ [Next]_vars => Inv'
<1> SUFFICES ASSUME Inv, [Next]_vars PROVE Inv' OBVIOUS
<1>1. CASE BackgroundNext /\ UNCHANGED mqVars BY <1>1, BesideStep
<1>2. CASE CallUp \/ (\E n \in File : CallDown(n)) BY <1>2, CallsStep
<1>3. CASE CallAdds BY <1>3, CallAddsStep
<1>4. CASE Ticks BY <1>4, TicksStep
<1>5. ASSUME NEW f \in File, Fixed(f) PROVE Inv' BY <1>5, FixedStep
<1>6. ASSUME NEW p \in Pod, Fetch(p) PROVE Inv' BY <1>6, FetchStep
<1>7. ASSUME NEW p \in Pod, Work(p) PROVE Inv'
  <2>1. CASE Skips(p) \/ Refused(p) BY <2>1, IdlesStep
  <2>2. CASE Begins(p) BY <2>2, BeginsStep
  <2>3. CASE Succeeds(p) BY <2>3, SucceedsStep
  <2>4. CASE HandsOver(p) BY <2>4, HandsOverStep
  <2>5. CASE SyncPlans(p) BY <2>5, SyncPlansStep
  <2>6. CASE SyncAdds(p) BY <2>6, SyncAddsStep
  <2>7. CASE GoesBack(p) BY <2>7, GoesBackStep
  <2> QED BY <1>7, <2>1, <2>2, <2>3, <2>4, <2>5, <2>6, <2>7 DEF Work
<1>8. ASSUME NEW p \in Pod, GivesUp(p) PROVE Inv' BY <1>8, IdlesStep
<1>9. ASSUME NEW p \in Pod, Breaks(p) PROVE Inv' BY <1>9, BreaksStep
<1>10. ASSUME NEW p \in Pod, StallsAlive(p) PROVE Inv' BY <1>10, StallsAliveStep
<1>11. ASSUME NEW p \in Pod, Starts(p) \/ Closes(p) \/ Closed(p) PROVE Inv' BY <1>11, ServiceStep
<1>12. ASSUME NEW p \in Pod, Crash(p) PROVE Inv' BY <1>12, CrashStep
<1>13. ASSUME NEW j \in orphans, Stalls(j) PROVE Inv' BY <1>13, StallsStep
<1>14. CASE LockExpires \/ Reschedules \/ CliStarts BY <1>14, LockStep
<1>15. CASE RedisLost BY <1>15, RedisLostStep
<1>16. CASE CliEnds BY <1>16, CliEndsStep
<1>17. CASE UNCHANGED vars BY <1>17, NothingStep
<1> QED BY <1>1, <1>2, <1>3, <1>4, <1>5, <1>6, <1>7, <1>8, <1>9, <1>10, <1>11, <1>12, <1>13,
           <1>14, <1>15, <1>16, <1>17 DEF Next

\* Everything the other theorems rest on, in every state of every run: the records of the two
\* queues, leases and rounds, which jobs carry a deduplication key, and what the one run under
\* the lock is about.
THEOREM QueueInvariant == Spec => []Inv
<1> QED BY InvStarts, InvStep, PTL DEF Spec

\* Every variable of the two queues has its type, no migration is applied twice, no more leases
\* are held than there are slots, and no deduplication key waits twice (addBulk, jobs.js), with
\* any number of pods, files and faults.
THEOREM TypeCorrect == Spec => []TypeOK
<1>1. Inv => TypeOK
  <2> SUFFICES ASSUME Inv PROVE TypeOK OBVIOUS
  <2>1. BackgroundTypeOK
    <3>1. BackTypes /\ CoordsInv /\ LanesInv /\ LeasesInv BY InvFacts DEF BackInv
    <3>2. lanes \subseteq LaneJob BY <3>1 DEF LanesInv, GoodLane
    <3>3. ASSUME NEW m \in Bg PROVE dead[m] \in 0..Slots
      <4>1. /\ Leases(m) = dead[m] + Cardinality(Busy(m, lanes)) /\ dead[m] \in Nat
            /\ Cardinality(Busy(m, lanes)) \in Nat
        BY <3>1, LeasesFacts DEF LeasesInv
      <4>2. Leases(m) <= Slots BY <3>1 DEF LeasesInv
      <4> QED BY <4>1, <4>2, Bounds
    <3>4. dead \in [Bg -> Nat] BY <3>1 DEF LeasesInv
    <3>5. dead \in [Bg -> 0..Slots] BY <3>3, <3>4
    <3> QED BY <3>1, <3>2, <3>5 DEF BackgroundTypeOK, BackTypes, CoordsInv
  <2>2. applied \in Seq(File) /\ Len(applied) = Cardinality(Applied)
    <3>1. Applied = 1..Len(applied) /\ Len(applied) \in Nat BY InvFacts, AppliedFacts
    <3>2. PICK n \in Nat : n = Len(applied) BY <3>1
    <3>3. Cardinality(1..n) = n BY FS_Interval
    <3> QED BY <3>1, <3>2, <3>3, InvFacts DEF LineInv
  <2>3. GoodJob \subseteq Job BY DEF GoodJob
  <2>4. line \in Seq(Job) /\ client \in Seq(Job) /\ orphans \subseteq Job BY <2>3, InvFacts
  <2>5. ASSUME NEW p \in Pod
        PROVE  /\ run[p].phase \in {"idle", "got", "plan", "body", "post"}
               /\ run[p].phase # "idle" => run[p].job \in Job
               /\ run[p].own \in BOOLEAN /\ run[p].plan \in Seq(Job)
    <3>1. PICK r \in RunRec : r = run[p] BY InvFacts, RunFacts
    <3>2. r.plan \in Seq(GoodJob) BY DEF RunRec
    <3>3. r.plan \in Seq(Job) BY <2>3, <3>2
    <3>4. r.phase # "idle" => r.job \in Job BY <2>3, <3>1, InvFacts, RunFacts
    <3>5. r.phase \in {"idle", "got", "plan", "body", "post"} /\ r.own \in BOOLEAN BY DEF RunRec
    <3> QED BY <3>1, <3>3, <3>4, <3>5
  <2>6. \A i, j \in DOMAIN line :
          i # j => <<line[i].what, line[i].file>> # <<line[j].what, line[j].file>>
    BY InvFacts DEF Apart, Key
  <2>7. StoreInv BY InvFacts
  <2> QED BY <2>1, <2>2, <2>4, <2>5, <2>6, <2>7 DEF TypeOK, StoreInv
<1> QED BY <1>1, QueueInvariant, PTL

\* Whatever is enqueued twice, stalls, runs twice, is planned late or rolled back, what is
\* applied are the first migrations and no others: the kit's checks under the lock keep the
\* order, and the queue need not (processor.js).
THEOREM PrefixKept == Spec => []PrefixApplied
<1>1. Inv => PrefixApplied BY InvFacts, AppliedFacts DEF PrefixApplied
<1> QED BY <1>1, QueueInvariant, PTL

\* Two coordinator chains of one background migration never know the same round, so their lanes'
\* ids never meet, whatever fails, stalls, is taken over or flushed (coordinateStep, jobs.js).
THEOREM ChainsApart == Spec => []RoundsApart
<1>1. Inv => RoundsApart
  <2> SUFFICES ASSUME Inv, NEW m \in Bg, NEW j \in Keys, NEW k \in Keys, j # k,
                      coord[m][j].mem # 0, coord[m][j].mem = coord[m][k].mem
               PROVE  FALSE
    BY DEF RoundsApart
  <2>1. CoordsInv BY InvFacts DEF BackInv
  <2>2. coord[m][j].mem \in Rounds(coord[m][j]) /\ coord[m][j].mem \in Rounds(coord[m][k])
    BY DEF Rounds
  <2> QED BY <2>1, <2>2 DEF CoordsInv
<1> QED BY <1>1, QueueInvariant, PTL

\* A converge job never runs over a schema whose migrations are not all applied, whatever
\* other workers, rollbacks, duplicates and CLI runs do while it waits and while it is at work:
\* the check is made under the lock, and the lock is kept (runConvergeJob, processor.js).
THEOREM ConvergeIsLast == Spec => []ConvergesLast
<1>1. Inv => ConvergesLast
  <2> SUFFICES ASSUME Inv, NEW p \in Pod, run[p].phase = "body", run[p].job.what = "converge"
               PROVE  PendingFiles = {}
    BY DEF ConvergesLast
  <2>1. LineInv BY InvFacts
  <2>2. Len(applied) = NumFiles BY <2>1 DEF LineInv
  <2>3. Applied = 1..NumFiles BY <2>1, <2>2, AppliedFacts
  <2> QED BY <2>3 DEF PendingFiles, File
<1> QED BY <1>1, QueueInvariant, PTL
=============================================================================
