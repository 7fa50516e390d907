--------------------------- MODULE MCMigrationRun ---------------------------
(* Instances of MigrationRun for TLC: the commands its runs are given; and the assumptions *)
(* about changelogs that were taken over.                                                  *)
EXTENDS MigrationRun, TLC, MCAdoption

Up        == [NoJob EXCEPT !.by = "all"]
UpStep    == [NoJob EXCEPT !.by = "all", !.step = TRUE]
UpTo(f)   == [NoJob EXCEPT !.by = "to", !.file = f]
UpOne(f)  == [NoJob EXCEPT !.by = "one", !.file = f]
Ordered(f) == [UpOne(f) EXCEPT !.ordered = TRUE]
Force(f)  == [UpOne(f) EXCEPT !.force = TRUE]

Down      == [NoJob EXCEPT !.op = "down", !.by = "batch"]
DownSteps(n) == [NoJob EXCEPT !.op = "down", !.by = "steps", !.steps = n]
DownTo(f) == [NoJob EXCEPT !.op = "down", !.by = "to", !.file = f]
DownOrdered(f) == [NoJob EXCEPT !.op = "down", !.by = "one", !.file = f, !.ordered = TRUE]
Redo      == [NoJob EXCEPT !.op = "redo", !.by = "steps", !.steps = 1]
RedoOne(f) == [NoJob EXCEPT !.op = "redo", !.by = "one", !.file = f]

MCJobs == {Up, Force(1), Down, Redo}
Strict(c) == [c EXCEPT !.policy = "error"]

MCOrderJobs == {Up, Strict(UpStep), Strict(UpTo(2)), Ordered(2), Strict(Ordered(2)),
                Strict(Ordered(3)), UpOne(1), Down, DownSteps(2), DownTo(1),
                DownOrdered(1), RedoOne(1)}
MCLineJobs == {Up}

MCSymmetry == Permutations(Run)
=============================================================================
