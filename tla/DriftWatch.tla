------------------------------ MODULE DriftWatch ------------------------------
(***************************************************************************)
(* The live drift watcher (src/src/core/background-watch.js and its plan,  *)
(* store and probe): once a background migration of a collection is        *)
(* completed, one pod leads the collection, reads its change stream and    *)
(* upgrades the old-shape documents that pods of an older release still    *)
(* write, by the write path of the lanes.                                  *)
(*                                                                         *)
(* Migration m takes the documents of version m to version m + 1. The log  *)
(* (VersionedDocuments) is what the server would deliver; a position in it *)
(* is a resume token. The lanes of BackgroundLanes are reduced to guarded  *)
(* rewrites, a final count and the completion that follows it.             *)
(***************************************************************************)
EXTENDS VersionedDocuments, FiniteSets

CONSTANTS
  Watcher,      \* the pods that watch
  Nobody,       \* no pod
  Begins,       \* how far the background migrations are at first: running or completed
  Settings,     \* settings of a deployment: [reopens, upgrade, transactional, retries]
  MaxLog,       \* bound on the log, for a revert that a watcher undoes
  MaxTrouble    \* bound on crashes, lost locks, broken streams, failures, truncations and reverts

ASSUME WatcherAssumption == Nobody \notin Watcher /\ {MaxLog, MaxTrouble} \subseteq Nat
ASSUME SettingsAssumption ==
  /\ Begins \subseteq [1..(Top - 1) -> {"running", "completed"}]
  /\ Settings \subseteq [reopens : BOOLEAN, upgrade : BOOLEAN,
                             transactional : BOOLEAN, retries : Nat]

VARIABLES
  status,     \* the state of each background migration
  watch,      \* what each watcher is doing
  lock,       \* the pod holding the collection's watcher lock
  store,      \* the collection's document in <backgroundCollection>_watch
  excused,    \* documents that were reported, or that the code is known to let go
  oldest,     \* the oplog reaches back to here
  trouble,    \* how much went wrong so far
  settings

watcherVars == <<watch, lock, store>>
vars == <<documentVars, status, watcherVars, excused, oldest, trouble, settings>>

Migration == 1..(Top - 1)
Unset == -1
IdleWatch == [pc |-> "idle", token |-> Unset, pos |-> 0, edges |-> {}, ev |-> 0,
              snap |-> Absent, tries |-> 0]

Init ==
  /\ DocumentsInit
  /\ status \in Begins
  /\ watch = [w \in Watcher |-> IdleWatch] /\ lock = Nobody
  /\ store = [leader |-> Nobody, token |-> Unset]
  /\ excused = {} /\ oldest = 0 /\ trouble = 0 /\ settings \in Settings

-----------------------------------------------------------------------------
(* The background migrations.                                              *)

Completed == {m \in Migration : status[m] = "completed"}
Reverting == {m \in Migration : status[m] = "reverting"}
Active    == {m \in Migration : status[m] \in {"running", "counted", "reverting"}}
At(version) == {d \in Doc : There(d) /\ docs[d].version = version}

\* `control(..., 'retry')`: what was completed works again, in the direction that it had.
Reopened(ms) ==
  [m \in Migration |-> IF m \notin ms THEN status[m]
                       ELSE IF status[m] = "completed" THEN "running"
                       ELSE IF status[m] = "reverted" THEN "reverting" ELSE status[m]]

Trouble == trouble < MaxTrouble /\ trouble' = trouble + 1

\* A new old-shape write takes back what was said about the document.
Writes(d) == excused' = IF log' = log THEN excused ELSE excused \ {d}

Rewritten(d, snap, version) ==
  [docs[d] EXCEPT !.version = version, !.rev = snap.rev + 1, !.data = snap.data]

LaneRewrites(m, d) ==
  /\ d \in At(IF status[m] = "reverting" THEN m + 1 ELSE m)
  /\ status[m] = "running" \/ (status[m] = "reverting" /\ Len(log) < MaxLog)
  /\ Put(d, Rewritten(d, docs[d], IF status[m] = "reverting" THEN m ELSE m + 1), TRUE)
  /\ Writes(d)
  /\ UNCHANGED <<client, writes, status, watcherVars, oldest, trouble, settings>>

\* A pass that finds nothing left, and the completion that follows its count.
Counts(m) ==
  /\ status[m] = "running" /\ At(m) = {} /\ status' = [status EXCEPT ![m] = "counted"]
  /\ UNCHANGED <<documentVars, watcherVars, excused, oldest, trouble, settings>>

Completes(m) ==
  /\ \/ status[m] = "counted" /\ status' = [status EXCEPT ![m] = "completed"]
     \/ /\ status[m] = "reverting" /\ At(m + 1) = {}
        /\ status' = [status EXCEPT ![m] = "reverted"]
  /\ UNCHANGED <<documentVars, watcherVars, excused, oldest, trouble, settings>>

\* `down` of the last one.
Reverts ==
  /\ status[Top - 1] = "completed" /\ Trouble
  /\ status' = [status EXCEPT ![Top - 1] = "reverting"]
  /\ UNCHANGED <<documentVars, watcherVars, excused, oldest, settings>>

-----------------------------------------------------------------------------
(* Leading.                                                                *)

Target(edges) == IF edges = {} THEN 0 ELSE 1 + (CHOOSE m \in edges : \A n \in edges : n <= m)

Set(w, ws) == watch' = [watch EXCEPT ![w] = ws]

\* Every save is fenced by the leader on record.
Saved(w, token) == IF store.leader = w THEN [store EXCEPT !.token = token] ELSE store
SavedKnown(w, token) == IF token = Unset THEN store ELSE Saved(w, token)

\* follow: the lock is free; lead and get: the leader on record, and where the last one was.
Leads(w) ==
  /\ watch[w].pc = "idle" /\ lock = Nobody /\ Completed # {}
  /\ lock' = w /\ store' = [store EXCEPT !.leader = w]
  /\ Set(w, [IdleWatch EXCEPT !.pc = "looking", !.token = store.token])
  /\ UNCHANGED <<documentVars, status, excused, oldest, trouble, settings>>

\* The signal of the lock: it fires before another pod can take it (MigrationLock).
Leading(w, pc) == watch[w].pc = pc /\ lock = w

\* watchView: stands aside for a revert; gone when nothing is completed.
Looks(w) ==
  /\ Leading(w, "looking") /\ Reverting = {}
  /\ IF Completed = {}
     THEN Set(w, IdleWatch) /\ lock' = IF lock = w THEN Nobody ELSE lock
     ELSE Set(w, [watch[w] EXCEPT !.pc = "opening", !.edges = Completed]) /\ UNCHANGED lock
  /\ UNCHANGED <<documentVars, status, store, excused, oldest, trouble, settings>>

\* The stream opens after the token, from now without one, or not at all: the history is lost.
Opens(w) ==
  /\ Leading(w, "opening")
  /\ LET ws == watch[w]
     IN IF ws.token = Unset
        THEN Set(w, [ws EXCEPT !.pc = "probing", !.pos = Len(log)]) /\ UNCHANGED store
        ELSE IF ws.token < oldest
        THEN Set(w, [IdleWatch EXCEPT !.pc = "looking"]) /\ store' = Saved(w, Unset)
        ELSE Set(w, [ws EXCEPT !.pc = "streaming", !.pos = ws.token]) /\ UNCHANGED store
  /\ UNCHANGED <<documentVars, status, lock, excused, oldest, trouble, settings>>

\* verify: one look per completed migration, none while another one is at work on the collection.
Probes(w) ==
  /\ watch[w].pc = "probing" /\ Set(w, [watch[w] EXCEPT !.pc = "streaming"])
  /\ LET found == {m \in Completed : At(m) # {}}
     IN IF Active = {} /\ settings.reopens
        THEN status' = Reopened(found) /\ UNCHANGED excused
        ELSE /\ excused' = excused \cup UNION {At(m) : m \in Migration}
             /\ UNCHANGED status
  /\ UNCHANGED <<documentVars, lock, store, oldest, trouble, settings>>

\* The probe fails, and is only said.
ProbeFails(w) ==
  /\ watch[w].pc = "probing" /\ Set(w, [watch[w] EXCEPT !.pc = "streaming"]) /\ Trouble
  /\ excused' = excused \cup UNION {At(m) : m \in Migration}
  /\ UNCHANGED <<documentVars, status, lock, store, oldest, settings>>

-----------------------------------------------------------------------------
(* Streaming.                                                              *)

\* What the pipeline delivers of the log after a position.
Delivered(ws) == {i \in (ws.pos + 1)..Len(log) : log[i].version < Target(ws.edges)}

\* Documents whose last old-shape write the stream passes without delivering it.
PassedOver(ws, upto) ==
  {d \in Doc : \E i \in (ws.pos + 1)..upto :
     /\ log[i].doc = d /\ log[i].version >= Target(ws.edges)
     /\ \A j \in (i + 1)..Len(log) : log[j].doc # d}

\* Wrong on purpose: the position moves when the event is taken.
TakenPast(ws, i) == [ws EXCEPT !.pc = "reading", !.ev = i, !.pos = i, !.token = i]

Taken(ws, i) == [ws EXCEPT !.pc = "reading", !.ev = i]

\* Past the event only once it is served.
Served(ws) == [ws EXCEPT !.pc = "streaming", !.token = ws.ev, !.pos = ws.ev, !.ev = 0,
                         !.snap = Absent, !.tries = 0]

NextEvent(w) ==
  /\ Leading(w, "streaming") /\ Delivered(watch[w]) # {}
  /\ LET next == CHOOSE i \in Delivered(watch[w]) : \A j \in Delivered(watch[w]) : i <= j
     IN /\ Set(w, Taken(watch[w], next))
        /\ excused' = excused \cup PassedOver(watch[w], next)
  /\ UNCHANGED <<documentVars, status, lock, store, oldest, trouble, settings>>

\* Idle: the post-batch token; after refreshMs the stream is closed, its position saved.
Idles(w, refreshes) ==
  /\ Leading(w, "streaming") /\ Delivered(watch[w]) = {}
  /\ Set(w, IF refreshes THEN [IdleWatch EXCEPT !.pc = "looking", !.token = Len(log)]
            ELSE [watch[w] EXCEPT !.token = Len(log), !.pos = Len(log)])
  /\ excused' = excused \cup PassedOver(watch[w], Len(log))
  /\ store' = Saved(w, Len(log))
  /\ UNCHANGED <<documentVars, status, lock, oldest, trouble, settings>>

\* At most every checkpointMs.
Saves(w) ==
  /\ Leading(w, "streaming") /\ store' = SavedKnown(w, watch[w].token)
  /\ UNCHANGED <<documentVars, status, watch, lock, excused, oldest, trouble, settings>>

\* More than maxLagMs behind: the background migrations take it, the stream starts from now.
Sheds(w) ==
  /\ Leading(w, "streaming") /\ Delivered(watch[w]) # {} /\ Trouble
  /\ status' = Reopened(watch[w].edges)
  /\ store' = Saved(w, Unset)
  /\ Set(w, [IdleWatch EXCEPT !.pc = "looking"])
  /\ UNCHANGED <<documentVars, lock, excused, oldest, settings>>

-----------------------------------------------------------------------------
(* Upgrading the document that an event names, version by version.         *)

Named(w) == log[watch[w].ev].doc

\* handBack: the migration is reopened, or the drift is only reported. One that works already
\* is not reopened: `control` refuses the retry, and that is reported. Its lanes take the
\* document, unless the count that completes it was taken before the document was written.
HandsBack(w, m) ==
  /\ IF settings.reopens
     THEN /\ status' = Reopened({m})
          /\ excused' = IF status[m] = "counted" THEN excused \cup {Named(w)} ELSE excused
     ELSE excused' = excused \cup {Named(w)} /\ UNCHANGED status
  /\ Set(w, Served(watch[w]))

Leaves(w) == Set(w, Served(watch[w])) /\ UNCHANGED <<status, excused>>
LetsGo(w) == Set(w, Served(watch[w])) /\ excused' = excused \cup {Named(w)} /\ UNCHANGED status

\* Below the target, with an edge that starts there: read again by the filter of its migration.
Reads(w) ==
  /\ watch[w].pc = "reading"
  /\ LET doc == docs[Named(w)]
     IN IF doc.is # "there" \/ doc.version >= Target(watch[w].edges) THEN Leaves(w)
        ELSE IF doc.version \notin watch[w].edges \/ ~settings.upgrade THEN LetsGo(w)
        ELSE /\ Set(w, [watch[w] EXCEPT !.pc = "rewriting", !.snap = doc])
             /\ UNCHANGED <<status, excused>>
  /\ UNCHANGED <<documentVars, lock, store, oldest, trouble, settings>>

\* occFilter: the version and the revision that were read.
Lands(w) == Unmoved(docs[Named(w)], watch[w].snap) /\ Named(w) \in At(watch[w].snap.version)

Rewrites(w) ==
  /\ watch[w].pc = "rewriting" /\ Lands(w)
  /\ Put(Named(w), Rewritten(Named(w), watch[w].snap, watch[w].snap.version + 1), TRUE)
  /\ Writes(Named(w))
  /\ Set(w, [watch[w] EXCEPT !.pc = "reading", !.snap = Absent, !.tries = 0])
  /\ UNCHANGED <<client, writes, status, lock, store, oldest, trouble, settings>>

\* Somebody wrote first. A transaction reads again what still matches and hands the document
\* back when it keeps losing; a plain batch also takes one write to the next version for its own,
\* and when it keeps losing it says so to nobody.
Loses(w) ==
  /\ watch[w].pc = "rewriting" /\ ~Lands(w)
  /\ LET snap == watch[w].snap
         doc  == docs[Named(w)]
     IN IF Named(w) \in At(snap.version)
        THEN IF watch[w].tries < settings.retries
             THEN /\ Set(w, [watch[w] EXCEPT !.snap = doc, !.tries = @ + 1])
                  /\ UNCHANGED <<status, excused>>
             ELSE IF settings.transactional THEN HandsBack(w, snap.version) ELSE LetsGo(w)
        ELSE IF /\ ~settings.transactional
                /\ Named(w) \in At(snap.version + 1) /\ doc.rev = snap.rev + 1
        THEN /\ Set(w, [watch[w] EXCEPT !.pc = "reading", !.snap = Absent, !.tries = 0])
             /\ UNCHANGED <<status, excused>>
        ELSE Leaves(w)
  /\ UNCHANGED <<documentVars, lock, store, oldest, trouble, settings>>

\* The migration's file cannot be loaded here (mid-deploy), or its transformation throws.
CannotUpgrade(w) ==
  /\ watch[w].pc \in {"reading", "rewriting"} /\ Trouble
  /\ LET edge == IF watch[w].pc = "reading" THEN docs[Named(w)].version ELSE watch[w].snap.version
     IN /\ There(Named(w)) \/ watch[w].pc = "rewriting"
        /\ edge \in watch[w].edges /\ settings.upgrade /\ HandsBack(w, edge)
  /\ UNCHANGED <<documentVars, lock, store, oldest, settings>>

-----------------------------------------------------------------------------
(* What goes wrong.                                                        *)

\* A stream or a read fails: the position is saved and the stream opens again after it.
Breaks(w) ==
  /\ watch[w].pc \in {"streaming", "reading", "rewriting"} /\ Trouble
  /\ store' = SavedKnown(w, watch[w].token)
  /\ Set(w, [IdleWatch EXCEPT !.pc = "looking", !.token = watch[w].token])
  /\ UNCHANGED <<documentVars, status, lock, excused, oldest, settings>>

\* The lock is lost, or nothing is watched any more: an upgrade at work ends first.
Notices(w) ==
  /\ watch[w].pc \in {"looking", "opening", "streaming"} /\ (lock # w \/ Completed = {})
  /\ store' = IF watch[w].pc = "streaming" THEN SavedKnown(w, watch[w].token) ELSE store
  /\ lock' = IF lock = w THEN Nobody ELSE lock
  /\ Set(w, IdleWatch)
  /\ UNCHANGED <<documentVars, status, excused, oldest, trouble, settings>>

Crashes(w) ==
  /\ watch[w].pc # "idle" /\ Trouble /\ Set(w, IdleWatch)
  /\ UNCHANGED <<documentVars, status, lock, store, excused, oldest, settings>>

\* The lock of a dead leader; the lock of a leader that cannot renew it.
Expires(w) ==
  /\ lock = w /\ watch[w].pc = "idle" /\ lock' = Nobody
  /\ UNCHANGED <<documentVars, status, watch, store, excused, oldest, trouble, settings>>

LosesLock(w) ==
  /\ lock = w /\ watch[w].pc # "idle" /\ Trouble /\ lock' = Nobody
  /\ UNCHANGED <<documentVars, status, watch, store, excused, oldest, settings>>

Truncates ==
  /\ oldest < Len(log) /\ Trouble /\ oldest' = Len(log)
  /\ UNCHANGED <<documentVars, status, watcherVars, excused, settings>>

-----------------------------------------------------------------------------

Application(c) ==
  /\ ClientActs(c)
  /\ excused' = excused \ {log'[i].doc : i \in (Len(log) + 1)..Len(log')}
  /\ UNCHANGED <<status, watcherVars, oldest, trouble, settings>>

Removes(d) ==
  Deletes(d) /\ UNCHANGED <<status, watcherVars, excused, oldest, trouble, settings>>

WatcherActs(w) ==
  \/ Leads(w) \/ Looks(w) \/ Opens(w) \/ Probes(w) \/ NextEvent(w) \/ Idles(w, TRUE)
  \/ Reads(w) \/ Rewrites(w) \/ Loses(w) \/ Notices(w) \/ Expires(w)

WatcherFails(w) ==
  \/ ProbeFails(w) \/ Sheds(w) \/ CannotUpgrade(w)
  \/ Breaks(w) \/ Crashes(w) \/ LosesLock(w)

LaneActs(m) == (\E d \in Doc : LaneRewrites(m, d)) \/ Counts(m) \/ Completes(m)

Next ==
  \/ \E c \in Client : Application(c)
  \/ \E d \in Doc : Removes(d)
  \/ \E m \in Migration : LaneActs(m)
  \/ \E w \in Watcher : WatcherActs(w) \/ Idles(w, FALSE) \/ Saves(w) \/ WatcherFails(w)
  \/ Reverts \/ Truncates

Spec == Init /\ [][Next]_vars

-----------------------------------------------------------------------------
(* Properties.                                                             *)

\* The write that put the document in the shape that it has.
IsLastWrite(d, i) == log[i].doc = d /\ \A j \in (i + 1)..Len(log) : log[j].doc # d

Drifted(d) == There(d) /\ docs[d].version \in Completed /\ Reverting = {} /\ d \notin excused

\* The pod that leads still meets the write: in its stream, or in the probe before it.
Meets(w, i) ==
  LET ws == watch[w]
  IN IF ws.pc \in {"looking", "opening"} THEN ws.token < i ELSE ws.pc = "probing" \/ ws.ev = i \/ ws.pos < i

\* Whatever crashes, breaks, loses the lock or falls off the oplog, no old-shape document of a
\* completed migration is behind the position on record, nor behind the leader's, unless it was
\* upgraded, handed back to the lanes or reported (lead, serve and upgrade, background-watch.js).
\* Excused is what the code lets go: a document that a plain batch keeps losing, a write at or
\* above the target of the stream that passes it, what a failed or skipped probe did not see, and
\* a document handed back to a migration whose completing count had already been taken.
DriftServed ==
  \A d \in Doc, i \in 1..Len(log) :
    Drifted(d) /\ IsLastWrite(d, i) =>
      /\ store.token < i
      /\ lock # Nobody /\ watch[lock].pc # "idle" => Meets(lock, i)
=============================================================================
