-------------------------- MODULE VersionedDocuments --------------------------
(***************************************************************************)
(* The documents of a versioned collection under an application that uses  *)
(* migronaut/versioning (src/src/versioning): each carries the version of  *)
(* its shape and a revision, which every write moves. Pods of several      *)
(* releases insert, upsert and update them; each lifts what it reads to    *)
(* the shape it knows (upcaster.js) and writes it back guarded by the      *)
(* revision that it read (occ.js). One that lost reads again, or gives up. *)
(*                                                                         *)
(* A document's data is the set of writes that it carries: what a lost     *)
(* update would lose. The log holds what a change stream on the version    *)
(* field would deliver: the writes that put a document in an old shape.    *)
(***************************************************************************)
EXTENDS Integers, Sequences

CONSTANTS
  Doc,        \* documents
  Client,     \* pods of the application
  Release,    \* the version that each pod knows as current
  Oldest,     \* the oldest version that the upcasters still lift
  Keeps,      \* the pods whose upcaster hands newer documents through (newer: 'keep')
  Top,        \* the newest version
  MaxWrites   \* bound on the writes of the application

ASSUME ReleaseAssumption == Release \in [Client -> 0..Top] /\ Keeps \subseteq Client
ASSUME WritesAssumption == Top \in Nat /\ Oldest \in 0..Top /\ MaxWrites \in Nat

VARIABLES
  docs,     \* the documents
  log,      \* the old-shape writes, in their order
  client,   \* what each pod is doing
  writes    \* how many writes the application tried

documentVars == <<docs, log, client, writes>>

Absent  == [is |-> "absent", version |-> 0, rev |-> 0, data |-> {}]
Deleted == [Absent EXCEPT !.is = "deleted"]
IdleClient == [pc |-> "idle", doc |-> CHOOSE d \in Doc : TRUE, snap |-> Absent]

DocumentsInit ==
  /\ docs = [d \in Doc |-> Absent] /\ log = <<>> /\ writes = 0
  /\ client = [c \in Client |-> IdleClient]

There(d) == docs[d].is = "there"

-----------------------------------------------------------------------------
(* Writing.                                                                *)

\* A write is in the log when it touches the version and leaves it old.
Logged(d, version, touched) ==
  IF touched /\ version < Top THEN Append(log, [doc |-> d, version |-> version]) ELSE log

Put(d, doc, touched) ==
  /\ docs' = [docs EXCEPT ![d] = doc]
  /\ log' = Logged(d, doc.version, touched)

Ticket == writes + 1
Counted == writes < MaxWrites /\ writes' = Ticket

\* `stamp`, `onInsert`: the version that the pod knows, at revision 0.
Inserts(c, d) ==
  /\ Counted /\ docs[d].is = "absent"
  /\ Put(d, [is |-> "there", version |-> Release[c], rev |-> 0, data |-> {Ticket}], TRUE)
  /\ UNCHANGED client

\* `stampUpsert`, `bumpRevision` and the Mongoose hooks: not guarded, but the revision moves.
Upserts(c, d) ==
  /\ Counted /\ docs[d].is # "deleted"
  /\ IF There(d)
     THEN Put(d, [docs[d] EXCEPT !.rev = @ + 1, !.data = @ \cup {Ticket}], FALSE)
     ELSE Put(d, [is |-> "there", version |-> Release[c], rev |-> 1, data |-> {Ticket}], TRUE)
  /\ UNCHANGED client

Deletes(d) ==
  /\ Counted /\ There(d)
  /\ docs' = [docs EXCEPT ![d] = Deleted] /\ UNCHANGED <<log, client>>

-----------------------------------------------------------------------------
(* Reading, and writing back what was read.                                *)

\* Lifted to the pod's shape; a newer one is refused, or handed through.
Upcasts(c, doc) == doc.version \in Oldest..Release[c] \/ (doc.version > Release[c] /\ c \in Keeps)
Upcast(c, doc) ==
  IF doc.version < Release[c] THEN [doc EXCEPT !.version = Release[c]] ELSE doc

Loads(c, d) ==
  /\ There(d) /\ Upcasts(c, docs[d])
  /\ client[c].pc = "idle" /\ writes < MaxWrites
  /\ client' = [client EXCEPT ![c] = [pc |-> "read", doc |-> d, snap |-> Upcast(c, docs[d])]]
  /\ UNCHANGED <<docs, log, writes>>

\* Wrong on purpose: the guard looks at the version only.
UnmovedShape(doc, snap) == doc.is = "there" /\ doc.version <= snap.version

\* The guard: nobody wrote since the document was read.
Unmoved(doc, snap) == doc.is = "there" /\ doc.rev = snap.rev

\* updateWithRevision and findOneAndUpdateWithRevision: changes, with or without the version.
Updated(doc, snap, versioned) ==
  [doc EXCEPT !.rev = snap.rev + 1, !.data = @ \cup {Ticket},
              !.version = IF versioned THEN snap.version ELSE @]

\* replaceWithRevision: the document as it was read, and the change.
Replaced(doc, snap) ==
  [doc EXCEPT !.rev = snap.rev + 1, !.data = snap.data \cup {Ticket}, !.version = snap.version]

\* A miss is explained and thrown; retryOnConflict loads again unless the document is gone.
WritesBack(c) ==
  /\ client[c].pc = "read" /\ Counted
  /\ client' = [client EXCEPT ![c] = IdleClient]
  /\ LET d    == client[c].doc
         snap == client[c].snap
     IN \/ /\ Unmoved(docs[d], snap)
           /\ \E versioned \in BOOLEAN :
                LET doc == Updated(docs[d], snap, versioned)
                IN Put(d, doc, doc.version # docs[d].version)
        \/ Unmoved(docs[d], snap) /\ Put(d, Replaced(docs[d], snap), TRUE)
        \/ ~Unmoved(docs[d], snap) /\ UNCHANGED <<docs, log>>

ClientActs(c) ==
  WritesBack(c) \/ \E d \in Doc : Inserts(c, d) \/ Upserts(c, d) \/ Loads(c, d)

-----------------------------------------------------------------------------
(* Properties.                                                             *)

\* Every write that was acknowledged stays in the document: no guarded write, no replacement of
\* a document read earlier and no rewrite of a background migration or of the drift watcher
\* takes back what another pod wrote meanwhile (updateWithRevision, replaceWithRevision, occ.js;
\* occFilter, document.js).
NoLostUpdate ==
  [][\A d \in Doc : There(d) /\ docs'[d].is = "there" => docs[d].data \subseteq docs'[d].data]_docs
=============================================================================
