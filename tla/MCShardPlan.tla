---------------------------- MODULE MCShardPlan ----------------------------
(* Small sharded collections, on which TLC compares ShardPlan with what a plan and a scan are *)
(* for: values 1 and 2 are numbers, 3 is a string, in a key of two fields.                    *)
EXTENDS Integers, Sequences, FiniteSets
LOCAL INSTANCE SequencesExt

SPClass(value) == IF value = 3 THEN "string" ELSE "number"
P == INSTANCE ShardPlan WITH Top <- 4, Class <- SPClass, MaxStuck <- 2, PerShardMax <- 3

SPKeys == {1, 2, 3} \X {1, 2}
SPBounds == {<<1, 1>>, <<2, 0>>, <<2, 2>>, <<3, 2>>}
SPSorted(set) == SetToSortSeq(set, P!Before)

\* Chunks: a choice of bounds, and a shard for each.
SPLayouts ==
  UNION {LET at == <<<<0, 0>>>> \o SPSorted(bounds) \o <<<<4, 0>>>>
             n  == Cardinality(bounds) + 1
         IN  {[i \in 1..n |-> [min |-> at[i], max |-> at[i + 1], shard |-> owner[i]]] :
                owner \in [1..n -> {"s1", "s2"}]} : bounds \in SUBSET SPBounds}

\* The keys of the documents, in order, two documents to a key.
SPTwice(keys) == LET s == SPSorted(keys) IN [i \in 1..2 * Len(s) |-> s[(i + 1) \div 2]]
SPCollections == {SPTwice(keys) : keys \in {SPKeys, {<<2, 1>>}, {<<1, 2>>, <<2, 1>>, <<3, 1>>},
                                            {1} \X {1, 2}}}
SPSettings == {[maxPartitions |-> m, over |-> 2, lanes |-> l, perShard |-> 1, minDocs |-> 1,
                grouped |-> g, hashed |-> FALSE] : m \in {1, 2, 3, 6}, l \in {1, 3}, g \in BOOLEAN}

SPGood(chunks, keys, settings) ==
  LET plan == P!Plan(chunks, keys, settings)
      ShardOf(k) == (CHOOSE c \in {chunks[i] : i \in DOMAIN chunks} : P!Within(k, c)).shard
  IN  \* Every key is in one partition, and what a mongos is asked finds it there.
      /\ plan # <<>> => \A k \in SPKeys :
           Cardinality({i \in DOMAIN plan : P!Within(k, plan[i]) /\ P!Meets(k, plan[i], FALSE)}) = 1
      /\ plan = <<>> <=> keys = <<>>
      \* There are no more than the settings allow, and none is empty by its bounds.
      /\ Len(plan) <= settings.maxPartitions
      /\ \A i \in DOMAIN plan : P!Before(plan[i].min, plan[i].max)
      \* A partition that names a shard lies on it.
      /\ \A i \in DOMAIN plan : \A k \in SPKeys :
           plan[i].shard # P!NoShard /\ P!Within(k, plan[i]) => ShardOf(k) = plan[i].shard

\* A plan covers the collection, without overlaps, within its limits.
ASSUME PlansCover ==
  \A chunks \in SPLayouts, keys \in SPCollections \cup {<<>>}, settings \in SPSettings :
    SPGood(chunks, keys, settings)

\* So do the hashed pieces of a run.
ASSUME HashesCover ==
  \A lo \in 0..4, width \in 1..9, parts \in 2..4 :
    LET run == [min |-> <<lo, 0>>, max |-> <<lo + width, 0>>]
        cut == P!SplitHashed(run, parts)
    IN  /\ Len(cut) \in {1, parts} /\ cut[1].min = run.min /\ Last(cut).max = run.max
        /\ \A i \in DOMAIN cut : P!Before(cut[i].min, cut[i].max)
        /\ \A i \in 2..Len(cut) : cut[i].min = cut[i - 1].max

SPDoc(id, key, region) == [id |-> id, key |-> key, region |-> region]
SPDocs == {SPDoc(1, <<1, 1>>, 1), SPDoc(2, <<1, 1>>, 2), SPDoc(3, <<1, 1>>, 1), SPDoc(4, <<2, 1>>, 2),
           SPDoc(5, <<2, 2>>, 1), SPDoc(6, <<3, 1>>, 1)}
SPScopes == {[min |-> <<0, 0>>, max |-> <<4, 0>>], [min |-> <<1, 0>>, max |-> <<2, 2>>],
             [min |-> <<1, 1>>, max |-> <<2, 0>>]}

\* A scan leaves the documents that cannot be rewritten, and no other; one that drains gives
\* up on a region only when more of those are in its way than it steps over.
ASSUME ScansServe ==
  \A docs \in SUBSET SPDocs, scope \in SPScopes, limit \in 1..3, hashed \in BOOLEAN :
    \A bad \in SUBSET {d.id : d \in docs} :
      LET mine == {d \in docs : P!Within(d.key, scope)}
          kept == P!Scan(docs, bad, scope, P!Start, limit, hashed, 2) \cap mine
          Stuck(region) == {d \in mine : d.region = region /\ d.id \in bad}
      IN  \A d \in mine : d \in kept =>
            d.id \in bad \/ (hashed /\ Cardinality(Stuck(d.region)) > 2)
=============================================================================
