----------------------------- MODULE ShardPlan -----------------------------
(***************************************************************************)
(* How a background migration divides a sharded collection, and how a lane *)
(* scans what it gets (src/core/background-shard.js).  A plan starts from  *)
(* the chunks: neighbours on one shard become a run, runs are merged when  *)
(* there are too many, and split where a sample, or the hash, says.  A     *)
(* partition is a range of the shard key; it names the shard its lanes are *)
(* counted for when it lies on one.                                        *)
(*                                                                         *)
(* A shard key has two fields here, so a point of the key space is a pair, *)
(* in lexicographic order.  0 is MinKey and Top is MaxKey.  The values of  *)
(* the first field have classes (numbers, strings, ...): MQL compares      *)
(* within a class only, while the index orders everything.                 *)
(***************************************************************************)
EXTENDS Integers, Sequences, FiniteSets, SequencesExt

CONSTANTS
  Top,            \* MaxKey of the first field
  Class(_),       \* the class of a value of the first field
  MaxStuck,       \* documents a draining scan steps over (MAX_STUCK)
  PerShardMax     \* partitions a shard gets at most (PARTITIONS_PER_SHARD)

Before(a, b) == a[1] < b[1] \/ (a[1] = b[1] /\ a[2] < b[2])
Within(key, scope) == ~Before(key, scope.min) /\ Before(key, scope.max)
Ceil(a, b) == (a + b - 1) \div b
Least(s) == CHOOSE x \in s : \A y \in s : x <= y
Most(s) == CHOOSE x \in s : \A y \in s : y <= x

-----------------------------------------------------------------------------
(* Planning *)

NoShard == "none"

\* Adjacent chunks of one shard, as one run.
RunsOf(chunks) ==
  LET Take(runs, c) ==
        IF runs # <<>> /\ Last(runs).shard = c.shard
        THEN [runs EXCEPT ![Len(runs)].max = c.max, ![Len(runs)].chunks = @ + 1]
        ELSE Append(runs, [min |-> c.min, max |-> c.max, shard |-> c.shard, chunks |-> 1])
  IN  FoldLeft(Take, <<>>, chunks)

\* At most `limit` runs: blocks of neighbours, which have no shard if they differ in it.
CapRuns(runs, limit) ==
  IF Len(runs) <= limit THEN runs
  ELSE LET size  == Ceil(Len(runs), limit)
           End(b) == Least({Len(runs), b * size})
           Block(b) == (b - 1) * size + 1 .. End(b)
           Chunks(b) == FoldLeft(LAMBDA n, i : n + runs[i].chunks, 0,
                                 [k \in 1..Cardinality(Block(b)) |-> (b - 1) * size + k])
       IN  [b \in 1..Ceil(Len(runs), size) |->
              [min |-> runs[(b - 1) * size + 1].min, max |-> runs[End(b)].max,
               shard |-> IF \A i, j \in Block(b) : runs[i].shard = runs[j].shard
                         THEN runs[End(b)].shard ELSE NoShard,
               chunks |-> Chunks(b)]]

\* The pieces between a run's ends and the cuts.
Pieces(run, cuts) ==
  [i \in 1..Len(cuts) + 1 |->
     [run EXCEPT !.min = IF i = 1 THEN @ ELSE cuts[i - 1],
                 !.max = IF i > Len(cuts) THEN @ ELSE cuts[i]]]

\* A hashed run is cut into ranges of hashes of the same width.
SplitHashed(run, parts) ==
  LET lo == run.min[1] hi == run.max[1] step == (hi - lo) \div parts
  IN  IF hi - lo < parts * 2 THEN <<run>>
      ELSE Pieces(run, [i \in 1..parts - 1 |-> <<lo + step * i, 0>>])

IsBound(v) == v \in {0, Top}

\* The sample of a run, in index order: what MQL finds strictly between its ends.
Sampled(run, keys) ==
  LET lo == run.min[1] hi == run.max[1]
      Found(k) == /\ ~IsBound(lo) => lo < k[1] /\ Class(k[1]) = Class(lo)
                  /\ ~IsBound(hi) => k[1] < hi /\ Class(k[1]) = Class(hi)
  IN  SelectSeq(keys, Found)

\* A run is cut at the quantiles of its sample; equal ones are one cut.
SplitSampled(run, keys, parts) ==
  LET lo == run.min[1] hi == run.max[1] sample == Sampled(run, keys)
      At(i) == sample[(i * Len(sample)) \div parts + 1]
      Add(cuts, i) == IF cuts # <<>> /\ Last(cuts) = At(i) THEN cuts ELSE Append(cuts, At(i))
  IN  IF (~IsBound(lo) /\ ~IsBound(hi) /\ Class(lo) # Class(hi)) \/ Len(sample) < parts
      THEN <<run>>
      ELSE Pieces(run, FoldLeft(Add, <<>>, [i \in 1..parts - 1 |-> i]))

\* How many pieces a run is to have: lanes are capped per shard, partitions in all.
Parts(run, runs, count, settings) ==
  LET aim  == IF settings.lanes = 1 THEN 1
              ELSE Least({settings.maxPartitions, settings.over * settings.lanes})
      each == IF settings.grouped
              THEN Least({PerShardMax, settings.over * settings.perShard, aim}) ELSE aim
      same == Cardinality({i \in DOMAIN runs : runs[i].shard = run.shard})
  IN  Least({Ceil(each, same),
             Most({1, Most({Len(runs), settings.maxPartitions}) \div Len(runs)}),
             Most({1, Least({aim, Ceil(count, settings.minDocs)})})})

\* `keys` are those of the documents in the old shape; a collection whose chunks
\* cannot be read is one run.
Plan(chunks, keys, settings) ==
  LET whole == [min |-> <<0, 0>>, max |-> <<Top, 0>>, shard |-> NoShard, chunks |-> 1]
      runs  == IF settings.grouped THEN CapRuns(RunsOf(chunks), settings.maxPartitions)
               ELSE <<whole>>
      Split(run) == LET n == Parts(run, runs, Len(keys), settings)
                    IN  IF n <= 1 THEN <<run>>
                        ELSE IF settings.hashed THEN SplitHashed(run, n)
                        ELSE SplitSampled(run, keys, n)
  IN  IF keys = <<>> THEN <<>>
      ELSE FoldLeft(LAMBDA all, run : all \o Split(run), <<>>, runs)

\* Resharded since, or the key refined: the plan is for another collection.
Stale(planned, current) ==
  planned # "none" /\ current # "none" /\ (planned.uuid # current.uuid \/ planned.key # current.key)

-----------------------------------------------------------------------------
(* Scanning *)

\* A predicate on the first field, with which a mongos asks one shard only, or none:
\* both ends have to be values of one class.
Targeted(scope, hashed) ==
  LET lo == scope.min[1] hi == scope.max[1]
  IN  ~hashed /\ ~IsBound(lo) /\ ~IsBound(hi) /\ Class(lo) = Class(hi)

Meets(key, scope, hashed) ==
  Targeted(scope, hashed) =>
    LET lo == scope.min[1] hi == scope.max[1]
    IN  /\ Class(key[1]) = Class(lo) /\ lo <= key[1]
        /\ IF scope.max[2] = 0 THEN key[1] < hi ELSE key[1] <= hi

\* A document without a version and one with version 0 are both of the first shape,
\* in two regions of the index.
Start == [region |-> 1, at |-> <<>>, id |-> 0, stuck |-> {}]
InRegion(region) == [Start EXCEPT !.region = region]
Over == [Start EXCEPT !.region = 0]

NextRegion(cursor, regions) ==
  IF cursor.region < regions THEN InRegion(cursor.region + 1) ELSE Over

\* In index order, after the cursor: the last tuple is read again, less its document.
Matching(docs, scope, cursor, hashed) ==
  {d \in docs :
     /\ d.region = cursor.region /\ Within(d.key, scope) /\ Meets(d.key, scope, hashed)
     /\ cursor.at # <<>> => \/ Before(cursor.at, d.key)
                            \/ cursor.at = d.key /\ d.id > cursor.id
     /\ d.id \notin cursor.stuck}

First(d, e) == Before(d.key, e.key) \/ (d.key = e.key /\ d.id <= e.id)
BatchOf(docs, scope, cursor, hashed, limit) ==
  LET found == SetToSortSeq(Matching(docs, scope, cursor, hashed), First)
  IN  SubSeq(found, 1, Least({limit, Len(found)}))

\* Past the batch.  Hashes cannot be sorted by: a draining scan starts over each time,
\* without the documents it left, until those are too many.
Past(cursor, batch, left, hashed, regions) ==
  IF hashed
  THEN IF Cardinality(cursor.stuck) + Cardinality(left) > MaxStuck THEN NextRegion(cursor, regions)
       ELSE [cursor EXCEPT !.stuck = @ \cup left]
  ELSE [cursor EXCEPT !.at = Last(batch).key, !.id = Last(batch).id]

Advance(cursor, batch, limit, left, hashed, regions) ==
  IF Len(batch) < limit THEN NextRegion(cursor, regions) ELSE Past(cursor, batch, left, hashed, regions)

\* What a lane leaves of the documents of its partition: those in `bad` are never rewritten.
RECURSIVE Scan(_, _, _, _, _, _, _)
Scan(docs, bad, scope, cursor, limit, hashed, regions) ==
  IF cursor = Over THEN docs
  ELSE LET batch == BatchOf(docs, scope, cursor, hashed, limit)
           read  == {batch[i] : i \in DOMAIN batch}
           left  == {d.id : d \in {e \in read : e.id \in bad}}
       IN  Scan(docs \ {d \in read : d.id \notin bad}, bad, scope,
                Advance(cursor, batch, limit, left, hashed, regions), limit, hashed, regions)

-----------------------------------------------------------------------------
(* Writing *)

\* The filter of a write carries the shard key, so that one shard is asked, and a
\* transformation that changes the key is refused.
KeyChanged(before, after) == {i \in DOMAIN before : before[i] # after[i]}
=============================================================================
