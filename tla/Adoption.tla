------------------------------ MODULE Adoption ------------------------------
(***************************************************************************)
(* Taking over a database that was migrated before: `migronaut baseline`   *)
(* marks the files on disk as applied (src/core/baseline.js), `migronaut   *)
(* import` does so with the changelog of migrate-mongo (import.js,         *)
(* import-runner.js).  Nothing is executed.  And what the other commands   *)
(* make of such records: status, audit, `up --strict`, `down`.             *)
(*                                                                         *)
(* All of it reads and writes the changelog under the migration lock, so   *)
(* here a command is a function of the changelog and the files: `log` maps *)
(* the names that have a record to their records, `disk` the files to      *)
(* their checksums.  A name is a number; `now` is the server's time.       *)
(***************************************************************************)
EXTENDS Integers, Sequences, FiniteSets, SequencesExt

CONSTANTS
  NoName,     \* the name of a foreign document that has none
  NoSum,      \* no checksum
  Plain(_)    \* whether a name can be that of a file

Native == "none"

Highest(S) == IF S = {} THEN 0 ELSE CHOOSE n \in S : \A m \in S : m <= n

-----------------------------------------------------------------------------
(* The changelog *)

Applied(log) == {n \in DOMAIN log : log[n].status = "applied"}
Pending(log, disk) == DOMAIN disk \ Applied(log)

\* nextBatch(): past every record, reverted and failed ones included.
NextBatch(log) == 1 + Highest({log[n].batch : n \in DOMAIN log})

\* markApplied, markAppliedBulk: upserts by name.  What an upsert does not set, it keeps:
\* when the record was first applied, and also where it came from.
Upserted(log, new) ==
  [n \in DOMAIN log \cup DOMAIN new |->
     IF n \notin DOMAIN new THEN log[n]
     ELSE [status |-> "applied", batch |-> new[n].batch, at |-> new[n].at, sum |-> new[n].sum,
           origin |-> IF new[n].origin = Native /\ n \in DOMAIN log THEN log[n].origin
                      ELSE new[n].origin,
           first  |-> IF n \in DOMAIN log THEN log[n].first ELSE new[n].at]]

\* `up`, of all that is pending.
Upped(log, disk, now) ==
  Upserted(log, [n \in Pending(log, disk) |->
                   [batch |-> NextBatch(log), at |-> now, sum |-> disk[n], origin |-> Native]])

-----------------------------------------------------------------------------
(* baseline *)

NoTarget == 0

\* Only what is pending, and with `to` only up to there; all of it in one batch.
Baselined(log, disk, to) == {n \in Pending(log, disk) : to = NoTarget \/ n <= to}
Baseline(log, disk, to, now) ==
  IF to # NoTarget /\ to \notin DOMAIN disk THEN log
  ELSE Upserted(log, [n \in Baselined(log, disk, to) |->
                        [batch |-> NextBatch(log), at |-> now, sum |-> disk[n],
                         origin |-> "baseline"]])

-----------------------------------------------------------------------------
(* import *)

\* The order of migrate-mongo's documents: when their run began, or when they were applied.
NoBlock == 0
OrderKey(doc) == IF doc.block # NoBlock THEN doc.block ELSE doc.at
Earlier(d, e) == OrderKey(d) < OrderKey(e) \/ (OrderKey(d) = OrderKey(e) /\ d.file <= e.file)

Valid(docs) == {d \in docs : d.file # NoName}

\* The batches go on after those that stay: a record that is overwritten does not count.
BatchOffset(log, docs) ==
  Highest({log[n].batch : n \in DOMAIN log \ {d.file : d \in Valid(docs)}})

\* Their own hash, if it is the file's or has to be trusted; else the file's.
ResolvedSum(doc, disk, trust) ==
  IF doc.hash # NoSum /\ (trust \/ doc.file \notin DOMAIN disk) THEN doc.hash
  ELSE IF doc.file \in DOMAIN disk THEN disk[doc.file] ELSE NoSum

\* Every migration gets a batch of its own, and keeps the time it was applied.
Mapped(log, docs, disk, trust) ==
  LET sorted == SetToSortSeq(Valid(docs), Earlier)
      Position(n) == CHOOSE i \in DOMAIN sorted : sorted[i].file = n
  IN  [n \in {d.file : d \in Valid(docs)} |->
         LET doc == sorted[Position(n)]
         IN  [batch |-> BatchOffset(log, docs) + Position(n), at |-> doc.at,
              sum |-> ResolvedSum(doc, disk, trust), origin |-> "migrate-mongo"]]

\* Chunks are written one after another, the records of one in no order: an import that is
\* interrupted has written some of them.
ImportRefused(log, force) == ~force /\ log # <<>>
Import(log, docs, disk, opts, written) ==
  IF docs = {} \/ ImportRefused(log, opts.force) \/ opts.dryRun THEN log
  ELSE LET new == Mapped(log, docs, disk, opts.trust)
       IN  Upserted(log, [n \in DOMAIN new \cap written |-> new[n]])

-----------------------------------------------------------------------------
(* What becomes of adopted records *)

ForwardOnly(log, names) == {n \in names : log[n].origin # Native}

\* `down`: the last batch, all of it or, with a record that is forward-only, none.
LastBatch(log) ==
  LET last == Highest({log[n].batch : n \in Applied(log)})
  IN  {n \in Applied(log) : log[n].batch = last}
DownRefused(log) == ForwardOnly(log, LastBatch(log)) # {}

\* `up --strict` looks at what was applied and is still there; a name that cannot be a
\* file's is an error of its own.
StrictRefused(log, disk) ==
  \E n \in Applied(log) : ~Plain(n) \/ (n \in DOMAIN disk /\ disk[n] # log[n].sum)

\* A row of `status`.  A missing file has nothing to verify.
Row(log, disk, n) ==
  LET applied == n \in Applied(log)
  IN  [status |-> IF n \in DOMAIN log /\ log[n].status \in {"applied", "failed"}
                  THEN log[n].status ELSE "pending",
       sumOk  |-> IF ~applied THEN "unknown"
                  ELSE IF ~Plain(n) THEN "no"
                  ELSE IF n \notin DOMAIN disk THEN "unknown"
                  ELSE IF disk[n] = log[n].sum THEN "yes" ELSE "no",
       late   |-> ~applied /\ n < Highest(Applied(log))]

\* `status`: every name that has a record or a file.
Rows(log, disk) == {Row(log, disk, n) : n \in DOMAIN log \cup DOMAIN disk}

\* The verdicts of `audit` on the history.
Audit(log, disk) ==
  LET rows == Rows(log, disk)
  IN  [sums    |-> ~\E r \in rows : r.sumOk = "no",
       pending |-> ~\E r \in rows : r.status \in {"pending", "failed"},
       order   |-> ~\E r \in rows : r.late]
=============================================================================
