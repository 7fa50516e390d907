--------------------------- MODULE BackgroundSpec ---------------------------
(***************************************************************************)
(* What a file's `export const background` may say, and the settings that  *)
(* the rest of the background migrations work with (backgroundIssues,      *)
(* resolveBackgroundSpec and matchHash of src/core/background-spec.js).    *)
(* BackgroundLanes, BackgroundPasses, LanePacing and ShardPlan take such   *)
(* settings for granted.                                                   *)
(*                                                                         *)
(* An export is a function from the keys it has to their values; a nested  *)
(* setting has a key of its own ("adaptive.minBatchSize").  `versioning`   *)
(* is that of the declared collection: a record whose field is None when   *)
(* it has none.                                                            *)
(***************************************************************************)
EXTENDS Integers, TLC

CONSTANTS
  None,       \* no versioning, no revision field, and no adaptive settings
  Never,      \* the lag of one that never waits for secondaries: `false`
  Todo,       \* the collection that a scaffold leaves to be filled in
  Collection, \* the names that a collection can have
  FieldName   \* the names that a system field can have

Lower(a, b) == IF a < b THEN a ELSE b
Or(spec, key, default) == IF key \in DOMAIN spec THEN spec[key] ELSE default
Has(spec, key) == key \in DOMAIN spec

MaxBadIds == 1000

\* The settings that are integers, and the least and the most of each; the most of
\* minPartitionDocs, the largest safe integer, is TLC's own here.
Ranges ==
  [batchSize |-> <<1, 10000>>, pauseMs |-> <<0, 3600000>>, sliceMs |-> <<1000, 3600000>>,
   maxDocumentErrors |-> <<0, MaxBadIds>>, maxPasses |-> <<1, 1000>>,
   maxConflictRetries |-> <<0, 100>>, maxSliceFailures |-> <<1, 100>>, maxParallel |-> <<1, 64>>,
   shardConcurrency |-> <<1, 64>>, maxReplicationLagMs |-> <<0, 3600000>>]

NestedRanges ==
  ("partitions.overPartition" :> <<1, 64>>) @@ ("partitions.maxPartitions" :> <<1, 4096>>)
  @@ ("partitions.minPartitionDocs" :> <<1, 2147483647>>) @@ ("partitions.sampleSize" :> <<1, 100000>>)
  @@ ("transaction.timeoutMs" :> <<1, 50000>>) @@ ("transaction.maxRetries" :> <<0, 20>>)
  @@ ("adaptive.targetLatencyMs" :> <<1, 600000>>) @@ ("adaptive.minBatchSize" :> <<1, 10000>>)
  @@ ("adaptive.maxBatchSize" :> <<1, 10000>>) @@ ("adaptive.maxPauseMs" :> <<0, 3600000>>)

SettingKeys ==
  DOMAIN Ranges \cup DOMAIN NestedRanges
  \cup {"description", "writeConcern", "throttle", "transaction", "adaptive"}
StepKeys == SettingKeys \cup {"collection", "step", "revertStep"}
DeclarativeKeys ==
  SettingKeys \cup {"collection", "from", "to", "filter", "migrate", "migrateBatch", "revert",
                   "revertBatch", "versionField", "revisionField", "occ"}

-----------------------------------------------------------------------------
(* What is wrong with an export: the keys that are *)

Step(spec) == Has(spec, "step")

OutOfRange(spec) ==
  LET Limits == Ranges @@ NestedRanges
  IN  {k \in DOMAIN spec \cap DOMAIN Limits :
         /\ ~(k = "maxReplicationLagMs" /\ spec[k] = Never)
         /\ spec[k] \notin Limits[k][1] .. Limits[k][2]}

SettingIssues(spec) ==
  OutOfRange(spec)
  \cup {k \in {"writeConcern"} : Or(spec, k, "majority") = "unacknowledged"}
  \cup {k \in {"adaptive.minBatchSize"} :
          /\ Has(spec, k) /\ Has(spec, "adaptive.maxBatchSize")
          /\ spec[k] > spec["adaptive.maxBatchSize"]}

StepIssues(spec) ==
  (DOMAIN spec \ StepKeys)
  \cup {k \in {"collection"} : Has(spec, k) /\ spec[k] \notin Collection}
  \cup {k \in {"maxParallel"} : Or(spec, k, 1) # 1}

\* Both versions must be there and go up; one transform, and one way back at most.
VersionIssues(spec) ==
  {k \in {"from", "to"} : Or(spec, k, -1) < 0}
  \cup {k \in {"to"} : Or(spec, "from", -1) >= 0 /\ Or(spec, k, -1) <= Or(spec, "from", -1)}
  \cup {k \in {"migrate"} : ~Has(spec, "migrate") /\ ~Has(spec, "migrateBatch")}
  \cup {k \in {"migrateBatch"} : Has(spec, "migrate") /\ Has(spec, k)}
  \cup {k \in {"revertBatch"} : Has(spec, "revert") /\ Has(spec, k)}

\* `filter` is the kind of query it is: one that constrains the fields `touches`, or that
\* runs JavaScript on the server, or that cannot be sent.
FilterIssues(spec, versioning) ==
  LET own   == IF versioning.field = None THEN "__v" ELSE versioning.field
      field == Or(spec, "versionField", own)
  IN  {k \in {"filter"} : Has(spec, k) /\ (~spec[k].sent \/ spec[k].js \/ field \in spec[k].touches)}

\* The declared collection's versioning is what the documents are read by elsewhere.
VersioningIssues(spec, versioning) ==
  IF versioning.field = None THEN {}
  ELSE {k \in {"versionField"} : Or(spec, k, versioning.field) # versioning.field}
       \cup {k \in {"to"} : Or(spec, k, 0) > versioning.current}
       \cup {k \in {"occ"} : versioning.revisionField = None /\ Or(spec, k, "revision") # "version-only"}

DeclarativeIssues(spec, versioning) ==
  (DOMAIN spec \ DeclarativeKeys)
  \cup {k \in {"collection"} : Or(spec, k, Todo) = Todo \/ spec[k] \notin Collection}
  \cup VersionIssues(spec)
  \cup {k \in {"occ"} : Or(spec, k, "revision") \notin {"revision", "version-only"}}
  \cup {k \in {"versionField", "revisionField"} : Has(spec, k) /\ spec[k] \notin FieldName}
  \cup FilterIssues(spec, versioning)
  \cup VersioningIssues(spec, versioning)
  \cup {k \in {"revisionField"} : Has(spec, k) /\ Or(spec, "occ", "revision") = "version-only"}

Issues(spec, versioning) ==
  SettingIssues(spec)
  \cup (IF Step(spec) THEN StepIssues(spec) ELSE DeclarativeIssues(spec, versioning))

-----------------------------------------------------------------------------
(* What a valid export resolves to *)

\* `adaptive` is FALSE, or TRUE, or left out with keys of its own; so is `transaction`.
Transactional(spec) ==
  \/ Or(spec, "transaction", FALSE)
  \/ Has(spec, "transaction.timeoutMs") \/ Has(spec, "transaction.maxRetries")

BatchSize(spec) == Or(spec, "batchSize", IF Transactional(spec) THEN 100 ELSE 500)
MaxParallel(spec) == IF Step(spec) THEN 1 ELSE Or(spec, "maxParallel", 1)

\* Never more at a time than the author chose.
Adaptive(spec) ==
  LET batch == BatchSize(spec)
  IN  IF ~Or(spec, "adaptive", TRUE) THEN None
      ELSE [target |-> Or(spec, "adaptive.targetLatencyMs", 500),
            min    |-> Lower(Or(spec, "adaptive.minBatchSize", 10), batch),
            max    |-> Lower(Or(spec, "adaptive.maxBatchSize", batch), batch),
            pause  |-> Or(spec, "adaptive.maxPauseMs", 30000)]

Partitions(spec) ==
  LET over == Or(spec, "partitions.overPartition", 4)
      most == Or(spec, "partitions.maxPartitions", 256)
  IN  [over |-> over, most |-> most,
       docs   |-> Or(spec, "partitions.minPartitionDocs", 4 * BatchSize(spec)),
       sample |-> Or(spec, "partitions.sampleSize",
                     Lower(10000, 100 * Lower(most, over * MaxParallel(spec))))]

\* The fields that the documents' versions and revisions are in.
Fields(spec, versioning) ==
  [field    |-> Or(spec, "versionField", IF versioning.field = None THEN "__v" ELSE versioning.field),
   revision |-> IF Or(spec, "occ", "revision") = "version-only" THEN None
                ELSE Or(spec, "revisionField",
                        IF versioning.revisionField = None THEN "__rev"
                        ELSE versioning.revisionField)]

\* A valid export is refused after all when both fields have one name.
Resolves(spec, versioning) ==
  /\ Issues(spec, versioning) = {}
  /\ ~Step(spec) => LET f == Fields(spec, versioning) IN f.field # f.revision

HasWayBack(spec) ==
  IF Step(spec) THEN Has(spec, "revertStep") ELSE Has(spec, "revert") \/ Has(spec, "revertBatch")

NoFilter == [sent |-> TRUE, js |-> FALSE, touches |-> {}]

\* What a partition that is planned depends on: which documents, and which way they go.
Match(spec, versioning, direction) ==
  IF Step(spec) THEN [mode |-> "step", direction |-> direction]
  ELSE [collection |-> spec.collection, from |-> spec.from, to |-> spec.to,
        filter |-> Or(spec, "filter", NoFilter), fields |-> Fields(spec, versioning),
        direction |-> direction]
=============================================================================
