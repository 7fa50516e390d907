---------------------------- MODULE MCLanePacing ----------------------------
(* Short histories of batches, looks, slices and turns, on which TLC compares LanePacing with *)
(* what pacing is for.                                                                        *)
EXTENDS Integers, Sequences, FiniteSets
LOCAL INSTANCE SequencesExt

L == INSTANCE LanePacing WITH Target <- 2, MinBatch <- 3, MaxBatch <- 20, MaxPause <- 7,
                              FirstBackoff <- 2, MaxFailures <- 3,
                              LaneBackoff <- 1000, TurnBackoff <- 4000

\* A history: how long each batch took, whether something else spoke of overload, and how long
\* after the one before it was judged.  Lanes share a partition's state, so batches may overlap.
LPBatches == [latency : {1, 9}, overloaded : BOOLEAN, later : {0, 2, 8}]
LPHistories == UNION {[1..n -> LPBatches] : n \in 0..3}
LPStarts == {[a |-> L!Fresh, now |-> 0]}
              \cup {[a |-> L!Resumed(size, 0), now |-> 0] : size \in {1, 5, 50}}
LPStep(s, b) == LET now == s.now + b.later
                IN  [a |-> L!Judged(s.a, [latency |-> b.latency, overloaded |-> b.overloaded,
                                          now |-> now]),
                     now |-> now]
LPAfter(start, history) == FoldLeft(LPStep, start, history)

\* Sizes and pauses stay in bounds; a lane only pauses when its batches cannot be smaller.
ASSUME PacedInBounds ==
  \A start \in LPStarts, history \in LPHistories :
    LET a == LPAfter(start, history).a
    IN  a.size \in 3..20 /\ a.pause \in 0..7 /\ (a.pause > 0 => a.size = 3)

\* One slow moment is punished once: a batch that was under way at a decrease makes no other.
ASSUME OncePerRoundTrip ==
  \A start \in LPStarts, history \in LPHistories, b \in LPBatches :
    LET s == LPAfter(start, history) t == LPStep(s, b)
    IN  t.a.decreased # s.a.decreased /\ s.a.decreased >= 0 =>
          t.now - b.latency >= s.a.decreased

\* Whatever happened, batches that are fast again bring the lane back to full size.
LPFast == [latency |-> 1, overloaded |-> FALSE, later |-> 2]
ASSUME Recovers ==
  \A start \in LPStarts : \A history \in {h \in LPHistories : Len(h) <= 2} :
    LET a == LPAfter(start, history \o [i \in 1..22 |-> LPFast]).a
    IN  a.size = 20 /\ a.pause = 0

\* A lane waits exactly while a secondary that the application may read from lags.
LPMembers == {[name |-> "p", state |-> "PRIMARY", at |-> 9]}
               \cup {[name |-> n, state |-> s, at |-> t] :
                       n \in {"a", "b"}, s \in {"SECONDARY", "RECOVERING"}, t \in {4, 9, L!Unknown}}
ASSUME WaitsForSecondaries ==
  \A members \in {m \in SUBSET LPMembers : Cardinality(m) <= 4}, hidden \in SUBSET {"a", "b"} :
    L!Lag(members, hidden) > 3 <=>
      \E m, p \in members : /\ p.state = "PRIMARY" /\ m.state = "SECONDARY"
                            /\ m.name \notin hidden /\ m.at = 4
ASSUME WaitsOutLag ==
  \A looks \in [1..3 -> {0, 5, L!Unknown}] :
    LET wait == L!LagWait(TRUE, FALSE, 3, Append(looks, 0))
    IN  /\ wait.lagged <=> looks[1] > 3
        /\ \A i \in 1..wait.looked - 1 : Append(looks, 0)[i] > 3

\* A lane gives up after three failures in a row, not before, and never for anything else.
LPOutcomes == {"yielded", "busy", "error"}
LPLane(history) == FoldLeft(LAMBDA s, o : IF s.does \in {"ends", "throws"} THEN s
                                          ELSE L!LaneNext(s.failures, o, TRUE),
                            [does |-> "goes on", failures |-> 0], history)
ASSUME GivesUpInTheEnd ==
  \A n \in 0..5 : \A history \in [1..n -> LPOutcomes] :
    LPLane(history).does = "throws" <=>
      \E i \in 1..n - 2 : \A k \in i..i + 2 : history[k] = "error"

\* A run for one round waits for nothing, and one under the migration lock not for a deploy.
LPAnswers == [next : {"done", "superseded", "process", "wait", "busy"}, reason : {"checksum", "deploy"}]
ASSUME OneRound ==
  \A answer \in LPAnswers, inline \in BOOLEAN, untilDone \in BOOLEAN :
    L!DriveNext(answer, inline, untilDone) = "waits" =>
      untilDone /\ (inline => answer.reason # "checksum" \/ answer.next \notin {"wait", "busy"})
ASSUME SomeLanes ==
  \A asked, allowed \in 0..4 :
    L!Lanes(asked, allowed) >= 1 /\ (allowed > 0 => L!Lanes(asked, allowed) <= allowed)

\* Turns go round: whoever stays free is picked before anybody is picked twice, and nobody has
\* more lanes than it may.
LPList(max) == [i \in 1..3 |-> [migration |-> i, maxParallel |-> max[i]]]
LPShared == [next : 0..2, active : [1..3 -> 0..2], backoff : [1..3 -> {0, 9}],
             failures : {[i \in 1..3 |-> 0]}]
ASSUME TurnsGoRound ==
  \A max \in [1..3 -> 1..2] : \A shared \in LPShared :
    LET one   == L!Pick(LPList(max), shared, 1)
        Back(p) == IF p.picked = 0 THEN p.shared
                   ELSE L!TurnEnds(p.shared, p.picked, 1, "yielded", "none", 5)
        two   == L!Pick(LPList(max), Back(one), 1)
        three == L!Pick(LPList(max), Back(two), 1)
        free  == {i \in 1..3 : L!Free(LPList(max)[i], shared, 1)}
    IN  /\ free \subseteq {one.picked, two.picked, three.picked}
        /\ one.picked = 0 <=> free = {}
        /\ one.picked # 0 => one.shared.active[one.picked] <= max[one.picked]
        /\ \A outcome \in {"busy", "error"} : one.picked # 0 =>
             L!Pick(LPList(max), L!TurnEnds(one.shared, one.picked, 1, outcome, "none", 5), 1).picked
               # one.picked
=============================================================================
