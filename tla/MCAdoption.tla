----------------------------- MODULE MCAdoption -----------------------------
(* Small changelogs, on which TLC compares Adoption with what taking over is for. *)
EXTENDS Integers, Sequences, FiniteSets

ADPlain(n) == n # 3
A == INSTANCE Adoption WITH NoName <- 0, NoSum <- "no sum", Plain <- ADPlain

ADFuns(domain, range) == UNION {[names -> range] : names \in SUBSET domain}
ADDisks == ADFuns(1..3, {"a"}) \cup ADFuns(1..2, {"a", "b"})
ADLater == 9

\* What a changelog may hold: an adopted record is never reverted, and never traced as failed.
ADRecords == {r \in [status : {"applied", "reverted", "failed"}, batch : 1..2, at : {1},
                     sum : {"a"}, origin : {"none", "migrate-mongo"}, first : {1}] :
                r.origin # "none" => r.status = "applied"}
ADLogs == ADFuns(1..3, ADRecords)

\* A baseline leaves `up` nothing to do, neither does it do anything itself the next time,
\* and a strict run agrees with what it wrote; it touches nothing that was applied.
ASSUME BaselineSettles ==
  \A log \in ADLogs, disk \in ADDisks :
    LET done == A!Baseline(log, disk, A!NoTarget, ADLater)
    IN  /\ A!Pending(done, disk) = {}
        /\ A!Baseline(done, disk, A!NoTarget, ADLater + 1) = done
        /\ \A n \in A!Applied(log) : done[n] = log[n]
        /\ \A n \in A!Applied(done) \ A!Applied(log) : done[n].sum = disk[n]

\* What is run after a baseline, which went up to its target, can be reverted by itself: it
\* has a batch that no record ever had.
ASSUME BaselineApart ==
  \A log \in ADLogs, disk \in ADDisks : \A to \in DOMAIN disk :
    LET base == A!Baseline(log, disk, to, ADLater)
        left == A!Pending(base, disk)
        up   == A!Upped(base, disk, ADLater + 1)
    IN  /\ left = {n \in A!Pending(log, disk) : n > to}
        /\ \A n \in left : \A m \in DOMAIN base : up[n].batch > base[m].batch
        /\ left # {} => A!LastBatch(up) = left /\ ~A!DownRefused(up)

\* Foreign documents: a time when the run began or none, and when they were applied.
ADDocs == {docs \in SUBSET [file : 1..3, block : {A!NoBlock, 2}, at : {1, 3}, hash : {"no sum"}] :
             \A d, e \in docs : d.file = e.file => d = e}
ADOnto == ADFuns({1, 4}, {r \in ADRecords : r.origin = "none"})
ADForce == [force |-> TRUE, trust |-> FALSE, dryRun |-> FALSE]

\* Imported records have batches of their own, in the order they ran in; nothing else changes.
ASSUME ImportOrders ==
  \A log \in ADOnto, docs \in ADDocs :
    LET done  == A!Import(log, docs, <<>>, ADForce, 1..3)
        files == {d.file : d \in docs}
        Began(d) == IF d.block = A!NoBlock THEN d.at ELSE d.block
    IN  /\ \A n \in DOMAIN log \ files : done[n] = log[n] /\ \A m \in files : done[m].batch > log[n].batch
        /\ \A d, e \in docs :
             Began(d) < Began(e) \/ (Began(d) = Began(e) /\ d.file < e.file) =>
               done[d.file].batch < done[e.file].batch
        /\ \A d \in docs : d.file \in DOMAIN log => done[d.file].first = log[d.file].first

\* An import that was interrupted, repeated with force, is the import that was not.
ASSUME ImportResumes ==
  \A log \in ADOnto, docs \in ADDocs, written \in SUBSET (1..3) :
    LET part == A!Import(log, docs, <<>>, ADForce, written)
    IN  /\ A!Import(part, docs, <<>>, ADForce, 1..3) = A!Import(log, docs, <<>>, ADForce, 1..3)
        /\ part # log /\ part # <<>> => A!ImportRefused(part, FALSE)

\* What is run after an import can be reverted by itself.
ASSUME ImportApart ==
  \A docs \in ADDocs, disk \in ADDisks :
    LET done == A!Import(<<>>, docs, disk, [ADForce EXCEPT !.force = FALSE], 1..3)
        up   == A!Upped(done, disk, ADLater)
        ran  == A!Pending(done, disk)
    IN  ran # {} => A!LastBatch(up) = ran /\ ~A!DownRefused(up)

\* Whatever hash a document had, a strict run accepts what was imported, unless the hash was
\* to be trusted.
ASSUME ImportVerifies ==
  \A hash \in {"no sum", "a", "b"}, sum \in {"a", "b"}, trust \in BOOLEAN :
    LET doc  == [file |-> 1, block |-> 1, at |-> 1, hash |-> hash]
        disk == [n \in {1} |-> sum]
        done == A!Import(<<>>, {doc}, disk, [ADForce EXCEPT !.trust = trust], 1..3)
    IN  A!StrictRefused(done, disk) => trust /\ hash # sum

\* `audit` says what the runs will say: of the files that were edited, and of those to come.
ASSUME AuditAgrees ==
  \A log \in ADLogs, disk \in ADDisks :
    LET audit == A!Audit(log, disk)
    IN  /\ audit.sums <=> ~A!StrictRefused(log, disk)
        /\ audit.pending => A!Pending(log, disk) = {}
        /\ audit.order => \A n \in A!Pending(log, disk) : \A m \in A!Applied(log) : m < n
=============================================================================
