-------------------------- MODULE MCBackgroundSpec --------------------------
(* Exports of several kinds, on which TLC compares BackgroundSpec with what its readers assume. *)
EXTENDS Integers, FiniteSets, TLC

BSFields == {"__v", "__rev", "v", "r"}
BSNone == [field |-> "none", revisionField |-> "none", current |-> 0]
X == INSTANCE BackgroundSpec WITH None <- "none", Never <- -2, Todo <- "TODO", Collection <- {"c", "d"},
                                  FieldName <- BSFields

\* Every function from some of the keys of `options` to a value that it has for them.
RECURSIVE BSOf(_, _)
BSOf(options, keys) ==
  IF keys = {} THEN {<<>>}
  ELSE LET key  == CHOOSE k \in keys : TRUE
           rest == BSOf(options, keys \ {key})
       IN  rest \cup {(key :> value) @@ f : value \in options[key], f \in rest}
BSExports(options) == BSOf(options, DOMAIN options)

BSBase == ("collection" :> "c") @@ ("from" :> 0) @@ ("to" :> 1) @@ ("migrate" :> TRUE)
BSStep == "step" :> TRUE

BSSettings ==
  {base @@ set : base \in {BSBase, BSStep}, set \in BSExports(
     ("batchSize" :> {0, 1, 8, 10000}) @@ ("adaptive.minBatchSize" :> {1, 100, 10001})
     @@ ("adaptive.maxBatchSize" :> {1, 5, 5000}) @@ ("transaction" :> {TRUE})
     @@ ("maxParallel" :> {1, 64}) @@ ("partitions.maxPartitions" :> {1, 4096})
     @@ ("partitions.overPartition" :> {64}) @@ ("maxReplicationLagMs" :> {-2, -1}))}

\* What resolves is what the lanes and the planner can work with: batches between bounds that
\* the author's own bounds, a sample with a document for every partition it is split into,
\* and a step that never runs beside itself.  Only the lower bound of a batch may be past the
\* upper one, when the author gave an upper one below the default of the lower.
ASSUME SettingsFit ==
  \A spec \in BSSettings :
    X!Resolves(spec, BSNone) =>
      LET a == X!Adaptive(spec)
          p == X!Partitions(spec)
      IN  /\ X!BatchSize(spec) \in 1..10000
          /\ 1 <= a.min /\ a.min <= X!BatchSize(spec) /\ 1 <= a.max /\ a.max <= X!BatchSize(spec)
          /\ a.min <= a.max \/ (~X!Has(spec, "adaptive.minBatchSize") /\ spec["adaptive.maxBatchSize"] < 10)
          /\ X!Lower(p.most, p.over * X!MaxParallel(spec)) <= p.sample
          /\ p.docs >= X!BatchSize(spec)
          /\ X!Step(spec) => X!MaxParallel(spec) = 1

\* It does happen: the size of a batch is then what the author said, but never comes down.
ASSUME BoundsCross ==
  LET spec == BSBase @@ ("adaptive.maxBatchSize" :> 5)
  IN  X!Resolves(spec, BSNone) /\ X!Adaptive(spec).min = 10 /\ X!Adaptive(spec).max = 5

\* A query, and versionings: with revisions, with none, and none at all.
BSQueries == [sent : BOOLEAN, js : {FALSE}, touches : {{}, {"v"}, {"__v"}}]
BSVersionings == {BSNone} \cup [field : {"__v", "v"}, revisionField : {"none", "__rev", "r"}, current : {1, 2}]

BSDeclared ==
  {spec @@ ("migrate" :> TRUE) : spec \in BSExports(
     ("collection" :> {"c", "TODO"}) @@ ("from" :> {-1, 0, 1}) @@ ("to" :> {1, 2})
     @@ ("filter" :> BSQueries) @@ ("occ" :> {"revision", "version-only"})
     @@ ("versionField" :> {"v", "__rev"}) @@ ("revisionField" :> {"r", "__rev"})
     @@ ("revert" :> {TRUE}))}

\* A write is guarded by the revision of the collection, unless the author named another or
\* none: no export that resolves leaves out what a versioned collection keeps, or guards with
\* what it does not keep.  The scan is by the collection's version, never one that the filter
\* constrains as well, and goes up to no version that the shapes do not know.
ASSUME GuardsAgree ==
  \A versioning \in BSVersionings : \A spec \in BSDeclared :
    X!Resolves(spec, versioning) =>
      LET f == X!Fields(spec, versioning)
      IN  /\ f.field # f.revision
          /\ X!Has(spec, "filter") => f.field \notin spec.filter.touches
          /\ spec.from < spec.to
          /\ versioning.field # "none" =>
               /\ f.field = versioning.field /\ spec.to <= versioning.current
               /\ versioning.revisionField = "none" => f.revision = "none"
               /\ f.revision \in {versioning.revisionField}
                                 \cup (IF X!Has(spec, "revisionField") THEN {spec.revisionField} ELSE {})
                                 \cup (IF X!Or(spec, "occ", "revision") = "version-only" THEN {"none"} ELSE {})

\* An author may name a revision field that a versioned collection does not keep, though not
\* a version field: its guard then sees no write of the application that left the version.
ASSUME RevisionsDiffer ==
  LET own  == [field |-> "__v", revisionField |-> "__rev", current |-> 1]
      spec == BSBase @@ ("revisionField" :> "r")
  IN  X!Resolves(spec, own) /\ X!Fields(spec, own).revision # own.revisionField

\* What is planned outlives a change of settings, and nothing that changes which documents
\* are scanned, or for what: neither an edit of the export nor one of the versioning.
ASSUME PlansKept ==
  /\ \A spec \in BSSettings :
       X!Resolves(spec, BSNone) =>
         X!Match(spec, BSNone, "forward") = X!Match(IF X!Step(spec) THEN BSStep ELSE BSBase, BSNone, "forward")
  /\ \A v, w \in BSVersionings : \A d, e \in {"forward", "revert"} :
       \A one \in {BSBase, BSBase @@ ("occ" :> "version-only")},
          other \in {BSBase, ("to" :> 2) @@ BSBase, BSBase @@ ("filter" :> [sent |-> TRUE, js |-> FALSE, touches |-> {"x"}])} :
         X!Resolves(one, v) /\ X!Resolves(other, w)
           /\ X!Match(one, v, d) = X!Match(other, w, e) =>
              d = e /\ one.to = other.to /\ X!Fields(one, v) = X!Fields(other, w) /\ ~X!Has(other, "filter")
=============================================================================
