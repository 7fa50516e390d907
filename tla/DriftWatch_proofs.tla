-------------------------- MODULE DriftWatch_proofs --------------------------
(***************************************************************************)
(* Proofs about the drift watcher, for any number of documents, pods,      *)
(* watchers, versions and migrations, and whatever goes wrong: no write of *)
(* a versioned document is lost, and the watcher's position never passes   *)
(* an old-shape document that nobody took care of.                         *)
(***************************************************************************)
EXTENDS DriftWatch, FiniteSetTheorems, WellFoundedInduction, TLAPS

-----------------------------------------------------------------------------
(* What was read, and what became of it.                                   *)

Document == [is : {"absent", "there", "deleted"}, version : Int, rev : Int, data : SUBSET Int]
Entry    == [doc : Doc, version : Int]

DocsInv == docs \in [Doc -> Document] /\ log \in Seq(Entry) /\ writes \in Int

\* What was read of a document, and the document as it is: nothing went back, and at the
\* revision that was read it still carries what it carried.
Later(snap, doc) ==
  /\ doc.is # "absent"
  /\ doc.is = "there" => snap.rev <= doc.rev /\ (snap.rev = doc.rev => snap.data = doc.data)

OKClient(cs) ==
  /\ cs \in [pc : {"idle", "read"}, doc : Doc \cup {IdleClient.doc}, snap : Document]
  /\ cs.pc = "read" => cs.doc \in Doc /\ Later(cs.snap, docs[cs.doc])

ClientsInv == client = [c \in Client |-> client[c]] /\ \A c \in Client : OKClient(client[c])

Watch == [pc : {"idle", "looking", "opening", "probing", "streaming", "reading", "rewriting"},
          token : Nat \cup {Unset}, pos : Nat, edges : SUBSET Migration, ev : Nat,
          snap : Document, tries : Int]

\* An event at work lies past the position, below the target of its stream, and what was read
\* for its upgrade is of a version that has an edge.
OKWatch(ws) ==
  /\ ws \in Watch
  /\ ws.pc \in {"reading", "rewriting"} =>
       ws.ev \in 1..Len(log) /\ ws.pos < ws.ev /\ log[ws.ev].version < Target(ws.edges)
  /\ ws.pc = "rewriting" =>
       ws.snap.version \in ws.edges /\ Later(ws.snap, docs[log[ws.ev].doc])

WatchersInv == watch \in [Watcher -> Watch] /\ \A w \in Watcher : OKWatch(watch[w])

\* All that NoLostUpdate needs.
ReadsInv ==
  /\ DocsInv /\ ClientsInv /\ WatchersInv
  /\ status \in [Migration -> {"running", "counted", "completed", "reverting", "reverted"}]
  /\ store \in [leader : Watcher \cup {Nobody}, token : Nat \cup {Unset}]

-----------------------------------------------------------------------------
(* Facts about the model's operators.                                      *)

\* A finite set of numbers that is not empty has a least and a greatest element.
LEMMA FiniteHasEnds ==
  ASSUME NEW S \in SUBSET Int, IsFiniteSet(S), S # {}
  PROVE  /\ \E m \in S : \A e \in S : m <= e
         /\ \E m \in S : \A e \in S : e <= m
<1> DEFINE HasEnds(X) == /\ \E m \in X : \A e \in X : m <= e
                         /\ \E m \in X : \A e \in X : e <= m
           T == {X \in FiniteSubsetsOf(Int) : X # {} /\ ~HasEnds(X)}
<1>1. SUFFICES ASSUME T # {} PROVE FALSE
  <2>1. T = {} OBVIOUS
  <2> QED BY <2>1 DEF FiniteSubsetsOf
<1>2. PICK X \in T : \A Y \in T : ~(<<Y, X>> \in StrictSubsetOrdering(Int))
  <2>1. T \subseteq FiniteSubsetsOf(Int) OBVIOUS
  <2>2. IsWellFoundedOn(StrictSubsetOrdering(Int), FiniteSubsetsOf(Int))
    BY FS_StrictSubsetOrderingWellFounded
  <2> HIDE DEF T
  <2> QED BY <2>1, <2>2, <1>1, WFMin
<1>3. X \in SUBSET Int /\ IsFiniteSet(X) /\ X # {} /\ ~HasEnds(X) BY DEF FiniteSubsetsOf
<1>4. PICK x \in X : TRUE BY <1>3
<1> DEFINE Y == X \ {x}
<1>5. IsFiniteSet(Y) BY <1>3, FS_Subset
<1>6. Y # {} BY <1>3, <1>4
<1>7. Y \in FiniteSubsetsOf(Int) BY <1>3, <1>5 DEF FiniteSubsetsOf
<1>8. <<Y, X>> \in StrictSubsetOrdering(Int) BY <1>3, <1>4 DEF StrictSubsetOrdering
<1>9. HasEnds(Y) BY <1>2, <1>6, <1>7, <1>8
<1>10. \E m \in X : \A e \in X : m <= e BY <1>9, <1>3, <1>4
<1>11. \E m \in X : \A e \in X : e <= m
  <2>1. PICK m \in Y : \A e \in Y : e <= m BY <1>9
  <2>2. m \in Int /\ x \in Int /\ \A e \in X : e = x \/ e \in Y BY <1>3, <1>4
  <2>3. CASE x <= m BY <2>1, <2>2, <2>3
  <2>4. CASE m <= x
    <3>1. \A e \in X : e \in Int BY <1>3
    <3>2. \A e \in X : e <= x BY <2>1, <2>2, <2>4, <3>1
    <3> QED BY <1>4, <3>2
  <2> QED BY <2>2, <2>3, <2>4
<1> QED BY <1>3, <1>10, <1>11

\* The target of a stream lies above the migrations that it watches.
LEMMA TargetFacts ==
  ASSUME NEW edges \in SUBSET Migration
  PROVE  Target(edges) \in Int /\ \A m \in edges : m < Target(edges)
<1>1. CASE edges = {} BY <1>1 DEF Target
<1>2. CASE edges # {}
  <2>1. edges \in SUBSET Int BY WritesAssumption DEF Migration
  <2>2. IsFiniteSet(edges)
    <3>1. Top - 1 \in Int BY WritesAssumption
    <3>2. IsFiniteSet(Migration) BY <3>1, FS_Interval DEF Migration
    <3> QED BY <3>2, FS_Subset
  <2>3. \E m \in edges : \A n \in edges : n <= m BY <1>2, <2>1, <2>2, FiniteHasEnds
  <2> DEFINE last == CHOOSE m \in edges : \A n \in edges : n <= m
  <2>4. last \in edges /\ \A n \in edges : n <= last BY <2>3
  <2>5. Target(edges) = 1 + last BY <1>2 DEF Target
  <2> HIDE DEF last
  <2> QED BY <2>1, <2>4, <2>5
<1> QED BY <1>1, <1>2

LEMMA AppendFacts ==
  ASSUME NEW s \in Seq(Entry), NEW e \in Entry
  PROVE  /\ Append(s, e) \in Seq(Entry) /\ Len(s) \in Nat /\ Len(Append(s, e)) = Len(s) + 1
         /\ \A i \in 1..Len(s) : Append(s, e)[i] = s[i]
         /\ Append(s, e)[Len(s) + 1] = e
OBVIOUS

LEMMA EntryFacts ==
  ASSUME DocsInv, NEW i \in 1..Len(log)
  PROVE  log[i] \in Entry /\ log[i].doc \in Doc /\ log[i].version \in Int
<1>1. log[i] \in Entry BY DEF DocsInv
<1> QED BY <1>1 DEF Entry

LEMMA AbsentFacts == Absent \in Document /\ Deleted \in Document /\ Absent.is = "absent"
                     /\ Deleted.is = "deleted"
BY DEF Absent, Deleted, Document

-----------------------------------------------------------------------------
(* A write to a document.                                                  *)

Grows(before, after) ==
  \/ after = before
  \/ before.is = "absent" /\ after.is = "there"
  \/ after.is = "deleted"
  \/ /\ before.is = "there" /\ after.is = "there"
     /\ after.rev = before.rev + 1 /\ before.data \subseteq after.data

\* A write that the log does not show leaves the version, or makes it the newest.
DocStep(d) ==
  /\ docs' \in [Doc -> Document]
  /\ \A e \in Doc \ {d} : docs'[e] = docs[e]
  /\ Grows(docs[d], docs'[d])
  /\ \/ /\ log' = log
        /\ docs'[d].is = "there" =>
             docs'[d].version >= Top \/ (There(d) /\ docs'[d].version = docs[d].version)
     \/ log' = Append(log, [doc |-> d, version |-> docs'[d].version])

DocsGo == UNCHANGED <<docs, log>> \/ \E d \in Doc : DocStep(d)

\* What a write to a document does, when it carries on from what the document carries.
LEMMA PutStep ==
  ASSUME DocsInv, NEW d \in Doc, NEW doc \in Document, NEW touched \in BOOLEAN,
         Put(d, doc, touched), Grows(docs[d], doc),
         touched \/ (There(d) /\ doc.version = docs[d].version)
  PROVE  DocStep(d)
<1> USE DEF DocsInv
<1>1. docs' \in [Doc -> Document] /\ docs'[d] = doc /\ \A e \in Doc \ {d} : docs'[e] = docs[e]
  BY DEF Put
<1>2. doc.version \in Int BY DEF Document
<1>3. CASE touched /\ doc.version < Top
  BY <1>1, <1>3 DEF Put, Logged, DocStep
<1>4. CASE ~(touched /\ doc.version < Top)
  <2>1. log' = log BY <1>4 DEF Put, Logged
  <2>2. doc.version >= Top \/ (There(d) /\ doc.version = docs[d].version)
    BY <1>2, <1>4, WritesAssumption
  <2> QED BY <1>1, <2>1, <2>2 DEF DocStep
<1> QED BY <1>3, <1>4

LEMMA LaterKept ==
  ASSUME NEW snap \in Document, NEW a \in Document, NEW b \in Document, Later(snap, a), Grows(a, b)
  PROVE  Later(snap, b)
BY DEF Later, Grows, Document

\* The log only grows, what is in it stays, and what was read is not taken back.
LEMMA DocsGoFacts ==
  ASSUME DocsInv, DocsGo
  PROVE  /\ docs' \in [Doc -> Document] /\ log' \in Seq(Entry)
         /\ Len(log) \in Nat /\ Len(log') \in Nat /\ Len(log) <= Len(log')
         /\ \A i \in 1..Len(log) : log'[i] = log[i]
         /\ \A d \in Doc : Grows(docs[d], docs'[d])
<1> USE DEF DocsInv
<1>1. CASE UNCHANGED <<docs, log>> BY <1>1 DEF Grows
<1>2. ASSUME NEW d \in Doc, DocStep(d)
      PROVE  /\ docs' \in [Doc -> Document] /\ log' \in Seq(Entry)
             /\ Len(log) \in Nat /\ Len(log') \in Nat /\ Len(log) <= Len(log')
             /\ \A i \in 1..Len(log) : log'[i] = log[i]
             /\ \A e \in Doc : Grows(docs[e], docs'[e])
  <2>1. docs' \in [Doc -> Document] /\ \A e \in Doc : Grows(docs[e], docs'[e])
    BY <1>2 DEF DocStep, Grows
  <2>2. CASE log' = log BY <2>1, <2>2
  <2>3. CASE log' = Append(log, [doc |-> d, version |-> docs'[d].version])
    <3>1. [doc |-> d, version |-> docs'[d].version] \in Entry BY <2>1 DEF Entry, Document
    <3> QED BY <2>1, <2>3, <3>1, AppendFacts
  <2> QED BY <1>2, <2>2, <2>3 DEF DocStep
<1> QED BY <1>1, <1>2 DEF DocsGo

LEMMA OKClientKept ==
  ASSUME DocsInv, DocsGo, NEW cs, OKClient(cs) PROVE OKClient(cs)'
<1>1. cs.pc = "read" => cs.doc \in Doc /\ Later(cs.snap, docs[cs.doc]) BY DEF OKClient
<1>2. ASSUME cs.pc = "read" PROVE Later(cs.snap, docs'[cs.doc])
  <2>1. cs.snap \in Document BY DEF OKClient
  <2>2. docs[cs.doc] \in Document /\ docs'[cs.doc] \in Document /\ Grows(docs[cs.doc], docs'[cs.doc])
    BY <1>1, <1>2, DocsGoFacts DEF DocsInv
  <2> QED BY <1>1, <1>2, <2>1, <2>2, LaterKept
<1> QED BY <1>1, <1>2 DEF OKClient, Later

LEMMA OKWatchKept ==
  ASSUME DocsInv, DocsGo, NEW ws, OKWatch(ws) PROVE OKWatch(ws)'
<1> DEFINE d == log[ws.ev].doc
<1>1. ASSUME ws.pc \in {"reading", "rewriting"}
      PROVE  ws.ev \in 1..Len(log') /\ log'[ws.ev] = log[ws.ev] /\ d \in Doc
  BY <1>1, DocsGoFacts, EntryFacts DEF OKWatch
<1>2. ASSUME ws.pc = "rewriting" PROVE Later(ws.snap, docs'[d])
  <2>1. ws.snap \in Document BY DEF OKWatch, Watch
  <2>2. docs[d] \in Document /\ docs'[d] \in Document /\ Grows(docs[d], docs'[d])
    BY <1>1, <1>2, DocsGoFacts DEF DocsInv
  <2> HIDE DEF d
  <2>3. Later(ws.snap, docs[d]) BY <1>2 DEF OKWatch, d
  <2> QED BY <2>1, <2>2, <2>3, LaterKept
<1>3. ws.pc = "rewriting" => Later(ws.snap, docs'[log'[ws.ev].doc]) BY <1>1, <1>2
<1>4. ws \in Watch BY DEF OKWatch
<1>5. ws.pc \in {"reading", "rewriting"} =>
        ws.ev \in 1..Len(log') /\ ws.pos < ws.ev /\ log'[ws.ev].version < Target(ws.edges)
  BY <1>1 DEF OKWatch
<1>6. ws.pc = "rewriting" => ws.snap.version \in ws.edges BY DEF OKWatch
<1> QED BY <1>3, <1>4, <1>5, <1>6 DEF OKWatch, Later

-----------------------------------------------------------------------------
(* Who writes documents: the pods, the lanes and the watchers.             *)

LEMMA IdleIsClient ==
  /\ IdleClient \in [pc : {"idle", "read"}, doc : Doc \cup {IdleClient.doc}, snap : Document]
  /\ IdleClient.pc = "idle"
<1> DEFINE any == CHOOSE d \in Doc : TRUE
<1>1. IdleClient = [pc |-> "idle", doc |-> any, snap |-> Absent] BY DEF IdleClient
<1> HIDE DEF any
<1> QED BY <1>1, AbsentFacts

LEMMA InitReads == Init => ReadsInv
<1>1. ASSUME Init PROVE DocsInv
  BY <1>1, AbsentFacts DEF Init, DocumentsInit, DocsInv
<1>2. ASSUME Init PROVE ClientsInv
  <2>1. IdleClient \in [pc : {"idle", "read"}, doc : Doc \cup {IdleClient.doc}, snap : Document]
        /\ IdleClient.pc = "idle"
    BY IdleIsClient
  <2>2. client = [c \in Client |-> IdleClient] BY <1>2 DEF Init, DocumentsInit
  <2> QED BY <2>1, <2>2 DEF ClientsInv, OKClient
<1>3. IdleWatch \in Watch /\ IdleWatch.pc = "idle"
  BY AbsentFacts DEF IdleWatch, Watch, Unset
<1>4. ASSUME Init PROVE WatchersInv
  BY <1>3, <1>4 DEF Init, WatchersInv, OKWatch
<1>5. ASSUME Init
      PROVE status \in [Migration -> {"running", "counted", "completed", "reverting", "reverted"}]
  BY <1>5, SettingsAssumption DEF Init, Migration
<1>6. ASSUME Init PROVE store \in [leader : Watcher \cup {Nobody}, token : Nat \cup {Unset}]
  BY <1>6 DEF Init
<1> QED BY <1>1, <1>2, <1>4, <1>5, <1>6 DEF ReadsInv

\* A pod inserts, upserts, loads or writes back.
LEMMA ClientStep ==
  ASSUME DocsInv, ClientsInv, NEW c \in Client, ClientActs(c)
  PROVE  /\ DocsGo /\ writes' \in Int
         /\ \E cs : client' = [client EXCEPT ![c] = cs] /\ OKClient(cs)
<1> USE DEF DocsInv
<1>0. Ticket \in Int BY DEF Ticket
<1>r. Release[c] \in Int BY ReleaseAssumption, WritesAssumption
<1>n. ASSUME UNCHANGED client
      PROVE  \E cs : client' = [client EXCEPT ![c] = cs] /\ OKClient(cs)
  <2>1. client' = [client EXCEPT ![c] = client[c]] BY <1>n DEF ClientsInv
  <2>2. OKClient(client[c]) BY DEF ClientsInv
  <2> QED BY <2>1, <2>2
<1>1. ASSUME NEW d \in Doc, Inserts(c, d)
      PROVE  DocStep(d) /\ writes' \in Int /\ UNCHANGED client
  <2> DEFINE doc == [is |-> "there", version |-> Release[c], rev |-> 0, data |-> {Ticket}]
  <2>1. doc \in Document /\ doc.is = "there" BY <1>0, <1>r DEF Document
  <2>2. docs[d].is = "absent" /\ Put(d, doc, TRUE) /\ UNCHANGED client /\ writes' = Ticket
    BY <1>1 DEF Inserts, Counted
  <2> HIDE DEF doc
  <2>3. Grows(docs[d], doc) BY <2>1, <2>2 DEF Grows
  <2> QED BY <1>0, <2>1, <2>2, <2>3, PutStep
<1>2. ASSUME NEW d \in Doc, Upserts(c, d)
      PROVE  DocStep(d) /\ writes' \in Int /\ UNCHANGED client
  <2>1. docs[d] \in Document OBVIOUS
  <2>2. docs[d].is # "deleted" /\ writes' = Ticket /\ UNCHANGED client
    BY <1>2 DEF Upserts, Counted
  <2>3. CASE There(d)
    <3> DEFINE rev == docs[d].rev + 1
               data == docs[d].data \cup {Ticket}
               doc == [docs[d] EXCEPT !.rev = rev, !.data = data]
    <3>0. rev \in Int /\ data \in SUBSET Int BY <2>1, <1>0 DEF Document
    <3>1. doc \in Document /\ doc.is = "there" /\ doc.version = docs[d].version
          /\ doc.rev = docs[d].rev + 1 /\ docs[d].data \subseteq doc.data
      <4>1. docs[d].is = "there" BY <2>3 DEF There
      <4>2. rev = docs[d].rev + 1 /\ docs[d].data \subseteq data OBVIOUS
      <4> HIDE DEF rev, data, doc
      <4>3. PICK b \in Document, r \in Int, s \in SUBSET Int :
              b = docs[d] /\ r = rev /\ s = data
        BY <2>1, <3>0
      <4>4. doc = [b EXCEPT !.rev = r, !.data = s] BY <4>3 DEF doc
      <4>5. doc \in Document /\ doc.is = b.is /\ doc.version = b.version /\ doc.rev = r /\ doc.data = s
        BY <4>4 DEF Document
      <4> QED BY <4>1, <4>2, <4>3, <4>5
    <3>2. Put(d, doc, FALSE) BY <1>2, <2>3 DEF Upserts
    <3> HIDE DEF doc
    <3>3. Grows(docs[d], doc) BY <3>1, <2>3 DEF Grows, There
    <3> QED BY <1>0, <2>2, <2>3, <3>1, <3>2, <3>3, PutStep
  <2>4. CASE ~There(d)
    <3> DEFINE doc == [is |-> "there", version |-> Release[c], rev |-> 1, data |-> {Ticket}]
    <3>1. doc \in Document /\ doc.is = "there" BY <1>0, <1>r DEF Document
    <3>2. Put(d, doc, TRUE) BY <1>2, <2>4 DEF Upserts
    <3> HIDE DEF doc
    <3>3. Grows(docs[d], doc) BY <2>1, <2>2, <2>4, <3>1 DEF Grows, There, Document
    <3> QED BY <1>0, <2>2, <3>1, <3>2, <3>3, PutStep
  <2> QED BY <2>3, <2>4
<1>3. ASSUME NEW d \in Doc, Loads(c, d)
      PROVE  /\ UNCHANGED <<docs, log>> /\ writes' \in Int
             /\ \E cs : client' = [client EXCEPT ![c] = cs] /\ OKClient(cs)
  <2> DEFINE snap == Upcast(c, docs[d])
             cs == [pc |-> "read", doc |-> d, snap |-> snap]
  <2>1. docs[d] \in Document OBVIOUS
  <2>2. snap \in Document /\ snap.rev = docs[d].rev /\ snap.data = docs[d].data
    BY <2>1, <1>r DEF Upcast, Document
  <2>3. UNCHANGED <<docs, log, writes>> /\ client' = [client EXCEPT ![c] = cs] /\ There(d)
    BY <1>3 DEF Loads
  <2> HIDE DEF snap
  <2>4. Later(snap, docs[d]) BY <2>1, <2>2, <2>3 DEF Later, There, Document
  <2>5. cs.pc = "read" /\ cs.doc = d /\ cs.snap = snap
        /\ cs \in [pc : {"idle", "read"}, doc : Doc \cup {IdleClient.doc}, snap : Document]
    BY <2>2
  <2>6. OKClient(cs) BY <2>4, <2>5 DEF OKClient
  <2> QED BY <2>3, <2>6
<1>4. ASSUME WritesBack(c)
      PROVE  /\ DocsGo /\ writes' \in Int
             /\ \E cs : client' = [client EXCEPT ![c] = cs] /\ OKClient(cs)
  <2> DEFINE d == client[c].doc
             snap == client[c].snap
  <2>1. d \in Doc /\ snap \in Document /\ Later(snap, docs[d])
    BY <1>4 DEF WritesBack, ClientsInv, OKClient
  <2>2. client' = [client EXCEPT ![c] = IdleClient] /\ writes' = Ticket
    BY <1>4 DEF WritesBack, Counted
  <2>3. OKClient(IdleClient) BY IdleIsClient DEF OKClient
  <2>4. \/ /\ Unmoved(docs[d], snap)
           /\ \E versioned \in BOOLEAN :
                LET doc == Updated(docs[d], snap, versioned)
                IN Put(d, doc, doc.version # docs[d].version)
        \/ Unmoved(docs[d], snap) /\ Put(d, Replaced(docs[d], snap), TRUE)
        \/ UNCHANGED <<docs, log>>
    BY <1>4 DEF WritesBack
  <2> HIDE DEF d, snap
  <2>5. docs[d] \in Document BY <2>1
  <2>6. ASSUME Unmoved(docs[d], snap)
        PROVE There(d) /\ snap.rev = docs[d].rev /\ snap.data = docs[d].data
    BY <2>1, <2>5, <2>6 DEF Unmoved, Later, There, Document
  <2>7. ASSUME NEW versioned \in BOOLEAN, Unmoved(docs[d], snap),
               Put(d, Updated(docs[d], snap, versioned),
                   Updated(docs[d], snap, versioned).version # docs[d].version)
        PROVE  DocStep(d)
    <3> DEFINE doc == Updated(docs[d], snap, versioned)
               touched == doc.version # docs[d].version
               data == docs[d].data \cup {Ticket}
               version == IF versioned THEN snap.version ELSE docs[d].version
    <3>1. doc \in Document /\ doc.is = docs[d].is /\ doc.rev = docs[d].rev + 1
          /\ docs[d].data \subseteq doc.data
      <4>1. snap.rev + 1 \in Int /\ data \in SUBSET Int /\ version \in Int
            /\ snap.rev + 1 = docs[d].rev + 1 /\ docs[d].data \subseteq data
        BY <2>1, <2>5, <2>6, <2>7, <1>0 DEF Document
      <4>2. doc = [docs[d] EXCEPT !.rev = snap.rev + 1, !.data = data, !.version = version]
        BY DEF Updated
      <4> HIDE DEF data, version, doc
      <4>3. PICK b \in Document, r \in Int, s \in SUBSET Int, v \in Int :
              b = docs[d] /\ r = snap.rev + 1 /\ s = data /\ v = version
        BY <2>5, <4>1
      <4>4. doc = [b EXCEPT !.rev = r, !.data = s, !.version = v] BY <4>2, <4>3
      <4>5. doc \in Document /\ doc.is = b.is /\ doc.rev = r /\ doc.data = s BY <4>4 DEF Document
      <4> QED BY <4>1, <4>3, <4>5
    <3>2. Put(d, doc, touched) BY <2>7
    <3>3. touched \in BOOLEAN OBVIOUS
    <3>4. touched \/ (There(d) /\ doc.version = docs[d].version) BY <2>6, <2>7
    <3> HIDE DEF doc
    <3>5. Grows(docs[d], doc) BY <3>1, <2>6, <2>7 DEF Grows, There
    <3> HIDE DEF touched
    <3> QED BY <2>1, <3>1, <3>2, <3>3, <3>4, <3>5, PutStep
  <2>8. ASSUME Unmoved(docs[d], snap), Put(d, Replaced(docs[d], snap), TRUE)
        PROVE  DocStep(d)
    <3> DEFINE doc == Replaced(docs[d], snap)
               data == snap.data \cup {Ticket}
    <3>1. doc \in Document /\ doc.is = docs[d].is /\ doc.rev = docs[d].rev + 1
          /\ docs[d].data \subseteq doc.data
      <4>1. snap.rev + 1 \in Int /\ data \in SUBSET Int /\ snap.version \in Int
            /\ snap.rev + 1 = docs[d].rev + 1 /\ docs[d].data \subseteq data
        BY <2>1, <2>5, <2>6, <2>8, <1>0 DEF Document
      <4>2. doc = [docs[d] EXCEPT !.rev = snap.rev + 1, !.data = data, !.version = snap.version]
        BY DEF Replaced
      <4> HIDE DEF data, doc
      <4>3. PICK b \in Document, r \in Int, s \in SUBSET Int, v \in Int :
              b = docs[d] /\ r = snap.rev + 1 /\ s = data /\ v = snap.version
        BY <2>5, <4>1
      <4>4. doc = [b EXCEPT !.rev = r, !.data = s, !.version = v] BY <4>2, <4>3
      <4>5. doc \in Document /\ doc.is = b.is /\ doc.rev = r /\ doc.data = s BY <4>4 DEF Document
      <4> QED BY <4>1, <4>3, <4>5
    <3> HIDE DEF doc
    <3>2. Grows(docs[d], doc) BY <3>1, <2>6, <2>8 DEF Grows, There
    <3> QED BY <2>1, <2>8, <3>1, <3>2, PutStep DEF doc
  <2>9. DocsGo BY <2>1, <2>4, <2>7, <2>8 DEF DocsGo
  <2> QED BY <1>0, <2>2, <2>3, <2>9
<1> QED BY <1>1, <1>2, <1>3, <1>4, <1>n DEF ClientActs, DocsGo

LEMMA DeleteStep ==
  ASSUME DocsInv, NEW d \in Doc, Deletes(d)
  PROVE  DocStep(d) /\ writes' \in Int /\ UNCHANGED <<log, client>>
<1> USE DEF DocsInv
<1>1. docs' = [docs EXCEPT ![d] = Deleted] /\ UNCHANGED <<log, client>> /\ writes' = Ticket
  BY DEF Deletes, Counted
<1>2. docs' \in [Doc -> Document] /\ docs'[d] = Deleted /\ \A e \in Doc \ {d} : docs'[e] = docs[e]
  BY <1>1, AbsentFacts
<1>3. DocStep(d) BY <1>1, <1>2, AbsentFacts DEF DocStep, Grows
<1> QED BY <1>1, <1>3 DEF Ticket

\* A rewrite at the revision that was read carries on from it.
LEMMA RewriteStep ==
  ASSUME DocsInv, NEW d \in Doc, NEW snap \in Document, NEW version \in Int,
         There(d), snap.rev = docs[d].rev, snap.data = docs[d].data,
         Put(d, Rewritten(d, snap, version), TRUE)
  PROVE  DocStep(d)
<1> DEFINE doc == Rewritten(d, snap, version)
<1>1. docs[d] \in Document BY DEF DocsInv
<1>2. doc \in Document /\ doc.is = "there" /\ doc.rev = docs[d].rev + 1 /\ doc.data = docs[d].data
  <2>1. snap.rev + 1 \in Int /\ snap.data \in SUBSET Int BY DEF Document
  <2>2. doc = [docs[d] EXCEPT !.version = version, !.rev = snap.rev + 1, !.data = snap.data]
    BY DEF Rewritten
  <2> HIDE DEF doc
  <2>3. PICK b \in Document, r \in Int, s \in SUBSET Int :
          b = docs[d] /\ r = snap.rev + 1 /\ s = snap.data
    BY <1>1, <2>1
  <2>4. doc = [b EXCEPT !.version = version, !.rev = r, !.data = s] BY <2>2, <2>3
  <2>5. doc \in Document /\ doc.is = b.is /\ doc.rev = r /\ doc.data = s BY <2>4 DEF Document
  <2> QED BY <2>3, <2>5 DEF There
<1> HIDE DEF doc
<1>3. Grows(docs[d], doc) BY <1>2 DEF Grows, There
<1> QED BY <1>2, <1>3, PutStep DEF doc

LEMMA LaneStep ==
  ASSUME DocsInv, NEW m \in Migration, NEW d \in Doc, LaneRewrites(m, d)
  PROVE  DocStep(d)
<1>1. docs[d] \in Document BY DEF DocsInv
<1>2. There(d) BY DEF LaneRewrites, At
<1>3. m \in Int BY WritesAssumption DEF Migration
<1>4. \E version \in Int : Put(d, Rewritten(d, docs[d], version), TRUE)
  <2>1. CASE status[m] = "reverting" BY <1>3, <2>1 DEF LaneRewrites
  <2>2. CASE status[m] # "reverting"
    <3>1. m + 1 \in Int BY <1>3
    <3>2. Put(d, Rewritten(d, docs[d], m + 1), TRUE) BY <2>2 DEF LaneRewrites
    <3> QED BY <3>1, <3>2
  <2> QED BY <2>1, <2>2
<1> QED BY <1>1, <1>2, <1>4, RewriteStep

LEMMA WatcherRewriteStep ==
  ASSUME DocsInv, WatchersInv, NEW w \in Watcher, Rewrites(w)
  PROVE  Named(w) \in Doc /\ DocStep(Named(w))
<1> DEFINE snap == watch[w].snap
           d == Named(w)
<1>1. OKWatch(watch[w]) /\ watch[w].pc = "rewriting" BY DEF Rewrites, WatchersInv
<1>2. d \in Doc /\ snap \in Document /\ Later(snap, docs[d])
  BY <1>1, EntryFacts DEF OKWatch, Watch, Named
<1>3. Unmoved(docs[d], snap) /\ There(d) BY DEF Rewrites, Lands, At
<1>4. Put(d, Rewritten(d, snap, snap.version + 1), TRUE) BY DEF Rewrites
<1> HIDE DEF d, snap
<1>5. docs[d] \in Document BY <1>2 DEF DocsInv
<1>6. snap.rev = docs[d].rev /\ snap.data = docs[d].data
  BY <1>2, <1>3, <1>5 DEF Unmoved, Later, There, Document
<1>7. snap.version + 1 \in Int BY <1>2 DEF Document
<1>8. DocStep(d) BY <1>2, <1>3, <1>4, <1>6, <1>7, RewriteStep
<1> QED BY <1>2, <1>8 DEF d

-----------------------------------------------------------------------------
(* What a watcher goes on with.                                            *)

LEMMA FreshWatch ==
  ASSUME NEW t \in Nat \cup {Unset}
  PROVE  /\ OKWatch(IdleWatch) /\ OKWatch([IdleWatch EXCEPT !.pc = "looking"])
         /\ OKWatch([IdleWatch EXCEPT !.pc = "looking", !.token = t])
<1>1. IdleWatch \in Watch /\ IdleWatch.pc = "idle"
  BY AbsentFacts DEF IdleWatch, Watch, Unset
<1>2. PICK old \in Watch : old = IdleWatch BY <1>1
<1>3. OKWatch(IdleWatch) BY <1>1 DEF OKWatch
<1>4. [old EXCEPT !.pc = "looking"] \in Watch /\ [old EXCEPT !.pc = "looking"].pc = "looking"
  BY DEF Watch
<1>5. /\ [old EXCEPT !.pc = "looking", !.token = t] \in Watch
      /\ [old EXCEPT !.pc = "looking", !.token = t].pc = "looking"
  BY DEF Watch
<1>6. ASSUME NEW ws \in Watch, ws.pc = "looking" PROVE OKWatch(ws) BY <1>6 DEF OKWatch
<1> QED BY <1>2, <1>3, <1>4, <1>5, <1>6

LEMMA ServedWatch ==
  ASSUME NEW ws, OKWatch(ws)
  PROVE  OKWatch(Served(ws)) /\ Served(ws).pc = "streaming"
<1>1. ws \in Watch BY DEF OKWatch
<1>2. PICK e \in Nat, z \in Nat, doc \in Document, n \in Int :
        e = ws.ev /\ z = 0 /\ doc = Absent /\ n = 0
  BY <1>1, AbsentFacts DEF Watch
<1> DEFINE new == [ws EXCEPT !.pc = "streaming", !.token = e, !.pos = e, !.ev = z,
                             !.snap = doc, !.tries = n]
<1>3. new \in Watch BY <1>1 DEF Watch
<1>4. new.pc = "streaming" BY <1>1 DEF Watch
<1>5. Served(ws) = new BY <1>2 DEF Served
<1> HIDE DEF new
<1> QED BY <1>3, <1>4, <1>5 DEF OKWatch

\* An upgrade goes on: what is read again or not, and the count of its tries.
LEMMA GoesOn ==
  ASSUME NEW ws, OKWatch(ws), NEW p \in {"reading", "rewriting"}, NEW doc \in Document,
         NEW n \in Int, NEW new, new = [ws EXCEPT !.pc = p, !.snap = doc, !.tries = n],
         ws.pc \in {"reading", "rewriting"},
         p = "rewriting" => doc.version \in ws.edges /\ Later(doc, docs[log[ws.ev].doc])
  PROVE  OKWatch(new) /\ new.pc = p /\ new.ev = ws.ev /\ new.pos = ws.pos /\ new.token = ws.token
         /\ new.edges = ws.edges /\ new.snap = doc
<1>1. ws \in Watch BY DEF OKWatch
<1>2. new \in Watch BY <1>1 DEF Watch
<1>3. /\ new.pc = p /\ new.ev = ws.ev /\ new.pos = ws.pos /\ new.edges = ws.edges
      /\ new.snap = doc /\ new.token = ws.token
  BY <1>1 DEF Watch
<1>4. new.pc \in {"reading", "rewriting"} =>
        new.ev \in 1..Len(log) /\ new.pos < new.ev /\ log[new.ev].version < Target(new.edges)
  BY <1>3 DEF OKWatch
<1>5. new.pc = "rewriting" =>
        new.snap.version \in new.edges /\ Later(new.snap, docs[log[new.ev].doc])
  BY <1>3
<1> QED BY <1>2, <1>3, <1>4, <1>5 DEF OKWatch

LEMMA ReadsAgain ==
  ASSUME NEW ws, OKWatch(ws), ws.pc = "rewriting",
         NEW new, new = [ws EXCEPT !.pc = "reading", !.snap = Absent, !.tries = 0]
  PROVE  OKWatch(new) /\ new.pc = "reading" /\ new.ev = ws.ev /\ new.pos = ws.pos
         /\ new.token = ws.token /\ new.edges = ws.edges
<1>1. PICK doc \in Document, n \in Int : doc = Absent /\ n = 0 BY AbsentFacts
<1>2. new = [ws EXCEPT !.pc = "reading", !.snap = doc, !.tries = n] /\ ws \in Watch
  BY <1>1 DEF OKWatch
<1>3. new \in Watch BY <1>2 DEF Watch
<1>4. new.pc = "reading" /\ new.ev = ws.ev /\ new.pos = ws.pos /\ new.edges = ws.edges
      /\ new.token = ws.token
  BY <1>2 DEF Watch
<1>5. new.ev \in 1..Len(log) /\ new.pos < new.ev /\ log[new.ev].version < Target(new.edges)
  BY <1>4 DEF OKWatch
<1> QED BY <1>3, <1>4, <1>5 DEF OKWatch

\* The event that is taken is the first one delivered past the position.
LEMMA DeliveredFacts ==
  ASSUME DocsInv, NEW ws \in Watch
  PROVE  /\ Delivered(ws) \in SUBSET Nat
         /\ \A i : i \in Delivered(ws) <=>
              i \in 1..Len(log) /\ ws.pos < i /\ log[i].version < Target(ws.edges)
         /\ Delivered(ws) # {} =>
              LET next == CHOOSE i \in Delivered(ws) : \A j \in Delivered(ws) : i <= j
              IN next \in Delivered(ws) /\ \A j \in Delivered(ws) : next <= j
<1>1. ws.pos \in Nat /\ Len(log) \in Nat BY DEF Watch, DocsInv
<1>2. \A i : i \in Delivered(ws) <=>
        i \in 1..Len(log) /\ ws.pos < i /\ log[i].version < Target(ws.edges)
  BY <1>1 DEF Delivered
<1>3. Delivered(ws) \in SUBSET Nat BY <1>1, <1>2
<1>4. IsFiniteSet(Delivered(ws))
  <2>1. IsFiniteSet((ws.pos + 1)..Len(log)) BY <1>1, FS_Interval
  <2>2. Delivered(ws) \subseteq (ws.pos + 1)..Len(log) BY DEF Delivered
  <2> QED BY <2>1, <2>2, FS_Subset
<1>5. ASSUME Delivered(ws) # {}
      PROVE \E i \in Delivered(ws) : \A j \in Delivered(ws) : i <= j
  BY <1>3, <1>4, <1>5, FiniteHasEnds
<1> QED BY <1>2, <1>3, <1>5

\* Every step of a watcher leaves it at work on what it may work on.
LEMMA WatcherStep ==
  ASSUME ReadsInv, NEW w \in Watcher,
         WatcherActs(w) \/ Idles(w, FALSE) \/ Saves(w) \/ WatcherFails(w)
  PROVE  /\ \E ws : watch' = [watch EXCEPT ![w] = ws] /\ OKWatch(ws)
         /\ store' \in [leader : Watcher \cup {Nobody}, token : Nat \cup {Unset}]
<1> DEFINE Tokens == Nat \cup {Unset}
           Stores == [leader : Watcher \cup {Nobody}, token : Tokens]
           Goes(ws) == watch' = [watch EXCEPT ![w] = ws] /\ OKWatch(ws)
<1>1. DocsInv /\ WatchersInv /\ store \in Stores BY DEF ReadsInv
<1>2. OKWatch(watch[w]) /\ watch[w] \in Watch /\ watch \in [Watcher -> Watch]
  BY <1>1 DEF WatchersInv, OKWatch
<1>3. watch[w].token \in Tokens /\ store.token \in Tokens /\ Len(log) \in Tokens
  BY <1>1, <1>2 DEF Watch, DocsInv
<1>4. ASSUME NEW t \in Tokens PROVE Saved(w, t) \in Stores /\ SavedKnown(w, t) \in Stores
  BY <1>1 DEF Saved, SavedKnown
<1>5. Unset \in Tokens OBVIOUS
<1>u. ASSUME UNCHANGED watch PROVE \E ws : Goes(ws)
  <2>1. watch' = [watch EXCEPT ![w] = watch[w]] BY <1>u, <1>2
  <2> QED BY <2>1, <1>2
<1>6. ASSUME Leads(w) PROVE (\E ws : Goes(ws)) /\ store' \in Stores
  <2>1. watch' = [watch EXCEPT ![w] = [IdleWatch EXCEPT !.pc = "looking", !.token = store.token]]
    BY <1>6 DEF Leads, Set
  <2>2. store' = [store EXCEPT !.leader = w] BY <1>6 DEF Leads
  <2>3. store' \in Stores BY <2>2, <1>1
  <2> QED BY <2>1, <2>3, <1>3, FreshWatch
<1>7. ASSUME Looks(w) PROVE (\E ws : Goes(ws)) /\ store' \in Stores
  <2> DEFINE ws == [watch[w] EXCEPT !.pc = "opening", !.edges = Completed]
  <2>1. Completed \in SUBSET Migration BY DEF Completed
  <2>2. PICK old \in Watch : old = watch[w] BY <1>2
  <2>3. [old EXCEPT !.pc = "opening", !.edges = Completed] \in Watch BY <2>1 DEF Watch
  <2>4. ws \in Watch /\ ws.pc = "opening" BY <2>2, <2>3 DEF Watch
  <2> HIDE DEF ws
  <2>5. OKWatch(ws) BY <2>4 DEF OKWatch
  <2>6. watch' = [watch EXCEPT ![w] = IdleWatch] \/ watch' = [watch EXCEPT ![w] = ws]
    BY <1>7 DEF Looks, Set, ws
  <2>7. UNCHANGED store BY <1>7 DEF Looks
  <2> QED BY <2>5, <2>6, <2>7, <1>1, <1>5, FreshWatch
<1>8. ASSUME Opens(w) PROVE (\E ws : Goes(ws)) /\ store' \in Stores
  <2>1. PICK old : old = watch[w] /\ old \in Watch BY <1>2
  <2>2. \/ watch' = [watch EXCEPT ![w] = [old EXCEPT !.pc = "probing", !.pos = Len(log)]]
           /\ UNCHANGED store
        \/ watch' = [watch EXCEPT ![w] = [IdleWatch EXCEPT !.pc = "looking"]]
           /\ store' = Saved(w, Unset)
        \/ old.token # Unset /\ UNCHANGED store
           /\ watch' = [watch EXCEPT ![w] = [old EXCEPT !.pc = "streaming", !.pos = old.token]]
    BY <1>8, <2>1 DEF Opens, Set
  <2>3. Len(log) \in Nat BY <1>1 DEF DocsInv
  <2>4. OKWatch([old EXCEPT !.pc = "probing", !.pos = Len(log)]) BY <2>1, <2>3 DEF OKWatch, Watch
  <2>5. ASSUME old.token # Unset
        PROVE OKWatch([old EXCEPT !.pc = "streaming", !.pos = old.token])
    BY <2>1, <2>5 DEF OKWatch, Watch
  <2>6. store' \in Stores BY <2>2, <1>1, <1>4, <1>5
  <2> QED BY <2>2, <2>4, <2>5, <2>6, <1>5, FreshWatch
<1>9. ASSUME Probes(w) \/ ProbeFails(w) PROVE (\E ws : Goes(ws)) /\ store' \in Stores
  <2>1. PICK old : old = watch[w] /\ old \in Watch BY <1>2
  <2>2. watch' = [watch EXCEPT ![w] = [old EXCEPT !.pc = "streaming"]] /\ UNCHANGED store
    BY <1>9, <2>1 DEF Probes, ProbeFails, Set
  <2>3. OKWatch([old EXCEPT !.pc = "streaming"]) BY <2>1 DEF OKWatch, Watch
  <2> QED BY <2>2, <2>3, <1>1
<1>10. ASSUME NextEvent(w) PROVE (\E ws : Goes(ws)) /\ store' \in Stores
  <2>1. PICK old : old = watch[w] /\ old \in Watch BY <1>2
  <2> DEFINE next == CHOOSE i \in Delivered(old) : \A j \in Delivered(old) : i <= j
  <2>2. watch' = [watch EXCEPT ![w] = Taken(old, next)] /\ UNCHANGED store /\ Delivered(old) # {}
    BY <1>10, <2>1 DEF NextEvent, Set
  <2>3. next \in 1..Len(log) /\ old.pos < next /\ log[next].version < Target(old.edges)
    BY <1>1, <2>1, <2>2, DeliveredFacts
  <2> HIDE DEF next
  <2>4. next \in Nat BY <2>3, <1>1 DEF DocsInv
  <2>5. OKWatch(Taken(old, next)) BY <2>1, <2>3, <2>4 DEF OKWatch, Watch, Taken
  <2> QED BY <2>2, <2>5, <1>1
<1>11. ASSUME NEW refreshes \in BOOLEAN, Idles(w, refreshes)
       PROVE (\E ws : Goes(ws)) /\ store' \in Stores
  <2>1. PICK old : old = watch[w] /\ old \in Watch BY <1>2
  <2>2. PICK n \in Nat : n = Len(log) BY <1>1 DEF DocsInv
  <2>3. old.pc = "streaming" /\ store' = Saved(w, n)
        /\ \/ watch' = [watch EXCEPT ![w] = [IdleWatch EXCEPT !.pc = "looking", !.token = n]]
           \/ watch' = [watch EXCEPT ![w] = [old EXCEPT !.token = n, !.pos = n]]
    BY <1>11, <2>1, <2>2 DEF Idles, Set, Leading
  <2>4. OKWatch([old EXCEPT !.token = n, !.pos = n]) BY <2>1, <2>3 DEF OKWatch, Watch
  <2>5. n \in Tokens OBVIOUS
  <2> QED BY <2>3, <2>4, <2>5, <1>4, FreshWatch
<1>12. ASSUME Saves(w) PROVE (\E ws : Goes(ws)) /\ store' \in Stores
  BY <1>12, <1>u, <1>3, <1>4 DEF Saves
<1>13. ASSUME Sheds(w) PROVE (\E ws : Goes(ws)) /\ store' \in Stores
  <2>1. watch' = [watch EXCEPT ![w] = [IdleWatch EXCEPT !.pc = "looking"]]
        /\ store' = Saved(w, Unset)
    BY <1>13 DEF Sheds, Set
  <2> QED BY <2>1, <1>4, <1>5, FreshWatch
<1>s. OKWatch(Served(watch[w])) BY <1>2, ServedWatch
<1>14. ASSUME Reads(w) PROVE (\E ws : Goes(ws)) /\ store' \in Stores
  <2>1. PICK old : old = watch[w] /\ OKWatch(old) /\ old \in Watch BY <1>2
  <2>2. PICK doc : doc = docs[Named(w)] OBVIOUS
  <2>3. old.pc = "reading" /\ UNCHANGED store BY <1>14, <2>1 DEF Reads
  <2>4. Named(w) = log[old.ev].doc /\ log[old.ev].doc \in Doc
    BY <1>1, <2>1, <2>3, EntryFacts DEF Named, OKWatch
  <2>5. doc \in Document BY <1>1, <2>2, <2>4 DEF DocsInv
  <2>6. \/ watch' = [watch EXCEPT ![w] = Served(watch[w])]
        \/ /\ doc.is = "there" /\ doc.version \in old.edges
           /\ watch' = [watch EXCEPT ![w] = [old EXCEPT !.pc = "rewriting", !.snap = doc]]
    BY <1>14, <2>1, <2>2 DEF Reads, Leaves, LetsGo, Set
  <2>7. ASSUME doc.is = "there", doc.version \in old.edges
        PROVE OKWatch([old EXCEPT !.pc = "rewriting", !.snap = doc])
    <3>1. PICK n \in Int : n = old.tries BY <2>1 DEF Watch
    <3>2. Later(doc, docs[log[old.ev].doc])
      BY <2>2, <2>4, <2>5, <2>7 DEF Later, Document
    <3>3. [old EXCEPT !.pc = "rewriting", !.snap = doc]
            = [old EXCEPT !.pc = "rewriting", !.snap = doc, !.tries = n]
      BY <2>1, <3>1 DEF Watch
    <3>4. PICK new : new = [old EXCEPT !.pc = "rewriting", !.snap = doc, !.tries = n] OBVIOUS
    <3>5. OKWatch(new) BY <2>1, <2>3, <2>5, <2>7, <3>2, <3>4, GoesOn
    <3> QED BY <3>3, <3>4, <3>5
  <2> QED BY <1>1, <1>s, <2>3, <2>6, <2>7
<1>15. ASSUME Rewrites(w) PROVE (\E ws : Goes(ws)) /\ store' \in Stores
  <2>1. PICK old : old = watch[w] /\ OKWatch(old) /\ old \in Watch BY <1>2
  <2>2. /\ watch' = [watch EXCEPT ![w] = [old EXCEPT !.pc = "reading", !.snap = Absent, !.tries = 0]]
        /\ old.pc = "rewriting" /\ UNCHANGED store
    BY <1>15, <2>1 DEF Rewrites, Set
  <2>3. PICK new : new = [old EXCEPT !.pc = "reading", !.snap = Absent, !.tries = 0] OBVIOUS
  <2>4. OKWatch(new) BY <2>1, <2>2, <2>3, ReadsAgain
  <2> QED BY <1>1, <2>2, <2>3, <2>4
<1>16. ASSUME Loses(w) PROVE (\E ws : Goes(ws)) /\ store' \in Stores
  <2>1. PICK old : old = watch[w] /\ OKWatch(old) /\ old \in Watch BY <1>2
  <2>2. PICK doc : doc = docs[Named(w)] OBVIOUS
  <2>3. old.pc = "rewriting" /\ UNCHANGED store BY <1>16, <2>1 DEF Loses
  <2>4. Named(w) = log[old.ev].doc /\ log[old.ev].doc \in Doc
    BY <1>1, <2>1, <2>3, EntryFacts DEF Named, OKWatch
  <2>5. doc \in Document BY <1>1, <2>2, <2>4 DEF DocsInv
  <2>6. \/ watch' = [watch EXCEPT ![w] = Served(watch[w])]
        \/ /\ Named(w) \in At(old.snap.version)
           /\ watch' = [watch EXCEPT ![w] = [old EXCEPT !.snap = doc, !.tries = old.tries + 1]]
        \/ watch' = [watch EXCEPT ![w] = [old EXCEPT !.pc = "reading", !.snap = Absent, !.tries = 0]]
    BY <1>16, <2>1, <2>2 DEF Loses, Leaves, LetsGo, HandsBack, Set
  <2>7. ASSUME Named(w) \in At(old.snap.version)
        PROVE OKWatch([old EXCEPT !.snap = doc, !.tries = old.tries + 1])
    <3>1. PICK n \in Int : n = old.tries + 1 BY <2>1 DEF Watch
    <3>2. doc.is = "there" /\ doc.version = old.snap.version BY <2>2, <2>7 DEF At, There
    <3>3. Later(doc, docs[log[old.ev].doc])
      BY <2>2, <2>4, <2>5, <3>2 DEF Later, Document
    <3>4. [old EXCEPT !.snap = doc, !.tries = old.tries + 1]
            = [old EXCEPT !.pc = "rewriting", !.snap = doc, !.tries = n]
      BY <2>1, <2>3, <3>1 DEF Watch
    <3>5. PICK new : new = [old EXCEPT !.pc = "rewriting", !.snap = doc, !.tries = n] OBVIOUS
    <3>6. old.snap.version \in old.edges BY <2>1, <2>3 DEF OKWatch
    <3>7. OKWatch(new) BY <2>1, <2>3, <2>5, <3>2, <3>3, <3>5, <3>6, GoesOn
    <3> QED BY <3>4, <3>5, <3>7
  <2>8. PICK new : new = [old EXCEPT !.pc = "reading", !.snap = Absent, !.tries = 0] OBVIOUS
  <2>9. OKWatch(new) BY <2>1, <2>3, <2>8, ReadsAgain
  <2> QED BY <1>1, <1>s, <2>3, <2>6, <2>7, <2>8, <2>9
<1>17. ASSUME CannotUpgrade(w) PROVE (\E ws : Goes(ws)) /\ store' \in Stores
  <2>1. watch' = [watch EXCEPT ![w] = Served(watch[w])] /\ UNCHANGED store
    BY <1>17 DEF CannotUpgrade, HandsBack, Set
  <2> QED BY <1>1, <1>s, <2>1
<1>18. ASSUME Breaks(w) PROVE (\E ws : Goes(ws)) /\ store' \in Stores
  <2>1. /\ watch' = [watch EXCEPT ![w] = [IdleWatch EXCEPT !.pc = "looking", !.token = watch[w].token]]
        /\ store' = SavedKnown(w, watch[w].token)
    BY <1>18 DEF Breaks, Set
  <2> QED BY <1>3, <1>4, <2>1, FreshWatch
<1>19. ASSUME Notices(w) \/ Crashes(w) PROVE (\E ws : Goes(ws)) /\ store' \in Stores
  <2>1. watch' = [watch EXCEPT ![w] = IdleWatch] /\ (store' = store \/ store' = SavedKnown(w, watch[w].token))
    BY <1>19 DEF Notices, Crashes, Set
  <2> QED BY <1>1, <1>3, <1>4, <1>5, <2>1, FreshWatch
<1>20. ASSUME Expires(w) \/ LosesLock(w) PROVE (\E ws : Goes(ws)) /\ store' \in Stores
  BY <1>20, <1>u, <1>1 DEF Expires, LosesLock
<1> QED
  <2> HIDE DEF Goes, Stores
  <2>1. (\E ws : Goes(ws)) /\ store' \in Stores
    BY <1>6, <1>7, <1>8, <1>9, <1>10, <1>11, <1>12, <1>13, <1>14, <1>15, <1>16, <1>17, <1>18,
       <1>19, <1>20 DEF WatcherActs, WatcherFails
  <2> QED BY <2>1 DEF Goes, Stores

-----------------------------------------------------------------------------
(* No write is lost.                                                       *)

Status == {"running", "counted", "completed", "reverting", "reverted"}

LEMMA ReopenedFacts ==
  ASSUME status \in [Migration -> Status], NEW ms
  PROVE  /\ Reopened(ms) \in [Migration -> Status]
         /\ \A m \in Migration :
              Reopened(ms)[m] \in {"counted", "completed"} =>
                Reopened(ms)[m] = status[m] /\ (m \in ms => status[m] # "completed")
BY DEF Reopened, Status

\* A watcher reopens migrations, and moves them in no other way.
LEMMA WatcherReopens ==
  ASSUME NEW w \in Watcher, WatcherActs(w) \/ Idles(w, FALSE) \/ Saves(w) \/ WatcherFails(w)
  PROVE  status' = status \/ \E ms : status' = Reopened(ms)
<1> USE DEF WatcherActs, WatcherFails
<1>1. CASE Leads(w) BY <1>1 DEF Leads
<1>2. CASE Looks(w) BY <1>2 DEF Looks
<1>3. CASE Opens(w) BY <1>3 DEF Opens
<1>4. CASE Probes(w) \/ ProbeFails(w) BY <1>4 DEF Probes, ProbeFails
<1>5. CASE NextEvent(w) BY <1>5 DEF NextEvent
<1>6. CASE Idles(w, TRUE) \/ Idles(w, FALSE) BY <1>6 DEF Idles
<1>7. CASE Reads(w) BY <1>7 DEF Reads, Leaves, LetsGo
<1>8. CASE Rewrites(w) BY <1>8 DEF Rewrites
<1>9. CASE Loses(w) BY <1>9 DEF Loses, Leaves, LetsGo, HandsBack
<1>10. CASE CannotUpgrade(w) BY <1>10 DEF CannotUpgrade, HandsBack
<1>11. CASE Notices(w) \/ Expires(w) \/ Saves(w) BY <1>11 DEF Notices, Expires, Saves
<1>12. CASE Sheds(w) BY <1>12 DEF Sheds
<1>13. CASE Breaks(w) \/ Crashes(w) \/ LosesLock(w) BY <1>13 DEF Breaks, Crashes, LosesLock
<1> QED BY <1>1, <1>2, <1>3, <1>4, <1>5, <1>6, <1>7, <1>8, <1>9, <1>10, <1>11, <1>12, <1>13

\* A watcher writes a document only where it rewrites one.
LEMMA WatcherDocs ==
  ASSUME DocsInv, WatchersInv, NEW w \in Watcher,
         WatcherActs(w) \/ Idles(w, FALSE) \/ Saves(w) \/ WatcherFails(w)
  PROVE  DocsGo /\ UNCHANGED <<client, writes>>
<1> USE DEF WatcherActs, WatcherFails, documentVars
<1> DEFINE G == DocsGo /\ UNCHANGED <<client, writes>>
<1>0. ASSUME UNCHANGED <<docs, log, client, writes>> PROVE G BY <1>0 DEF DocsGo
<1>1. CASE Leads(w) BY <1>0, <1>1 DEF Leads
<1>2. CASE Looks(w) BY <1>0, <1>2 DEF Looks
<1>3. CASE Opens(w) BY <1>0, <1>3 DEF Opens
<1>4. CASE Probes(w) \/ ProbeFails(w) BY <1>0, <1>4 DEF Probes, ProbeFails
<1>5. CASE NextEvent(w) BY <1>0, <1>5 DEF NextEvent
<1>6. CASE Idles(w, TRUE) \/ Idles(w, FALSE) BY <1>0, <1>6 DEF Idles
<1>7. CASE Reads(w) BY <1>0, <1>7 DEF Reads
<1>8. CASE Rewrites(w)
  <2>1. UNCHANGED <<client, writes>> BY <1>8 DEF Rewrites
  <2>2. DocsGo BY <1>8, WatcherRewriteStep DEF DocsGo
  <2> QED BY <2>1, <2>2
<1>9. CASE Loses(w) BY <1>0, <1>9 DEF Loses
<1>10. CASE CannotUpgrade(w) BY <1>0, <1>10 DEF CannotUpgrade
<1>11. CASE Notices(w) \/ Expires(w) \/ Saves(w) BY <1>0, <1>11 DEF Notices, Expires, Saves
<1>12. CASE Sheds(w) BY <1>0, <1>12 DEF Sheds
<1>13. CASE Breaks(w) \/ Crashes(w) \/ LosesLock(w) BY <1>0, <1>13 DEF Breaks, Crashes, LosesLock
<1> QED BY <1>1, <1>2, <1>3, <1>4, <1>5, <1>6, <1>7, <1>8, <1>9, <1>10, <1>11, <1>12, <1>13

\* What a step of the whole does to documents and to what was read of them.
LEMMA ReadsNext ==
  ASSUME ReadsInv, [Next]_vars PROVE ReadsInv' /\ DocsGo
<1> DEFINE ClientGoes == \/ UNCHANGED client
                         \/ \E c \in Client : \E cs :
                              client' = [client EXCEPT ![c] = cs] /\ OKClient(cs)
           WatchGoes  == \/ UNCHANGED watch
                         \/ \E w \in Watcher : \E ws :
                              watch' = [watch EXCEPT ![w] = ws] /\ OKWatch(ws)
           Stores == [leader : Watcher \cup {Nobody}, token : Nat \cup {Unset}]
           Goes == /\ DocsGo /\ writes' \in Int /\ ClientGoes /\ WatchGoes
                   /\ status' \in [Migration -> Status] /\ store' \in Stores
<1>1. DocsInv /\ ClientsInv /\ WatchersInv /\ writes \in Int /\ store \in Stores
      /\ status \in [Migration -> Status]
  BY DEF ReadsInv, DocsInv, Status
<1> HIDE DEF Stores
<1>2. ASSUME NEW c \in Client, Application(c) PROVE Goes
  <2>1. ClientActs(c) /\ UNCHANGED <<status, watch, store>>
    BY <1>2 DEF Application, watcherVars
  <2> QED BY <1>1, <2>1, ClientStep
<1>3. ASSUME NEW d \in Doc, Removes(d) PROVE Goes
  <2>1. Deletes(d) /\ UNCHANGED <<status, watch, store>> BY <1>3 DEF Removes, watcherVars
  <2> QED BY <1>1, <2>1, DeleteStep DEF DocsGo
<1>4. ASSUME NEW m \in Migration, NEW d \in Doc, LaneRewrites(m, d) PROVE Goes
  <2>1. UNCHANGED <<client, writes, status, watch, store>> BY <1>4 DEF LaneRewrites, watcherVars
  <2> QED BY <1>1, <1>4, <2>1, LaneStep DEF DocsGo
<1>5. ASSUME NEW m \in Migration, Counts(m) \/ Completes(m) PROVE Goes
  <2>1. UNCHANGED <<docs, log, client, writes, watch, store>>
    BY <1>5 DEF Counts, Completes, documentVars, watcherVars
  <2>2. \E k, s : status' = [status EXCEPT ![k] = s] /\ s \in Status
    BY <1>5 DEF Counts, Completes, Status
  <2>3. status' \in [Migration -> Status] BY <1>1, <2>2
  <2> QED BY <1>1, <2>1, <2>3 DEF DocsGo
<1>6. ASSUME NEW w \in Watcher, WatcherActs(w) \/ Idles(w, FALSE) \/ Saves(w) \/ WatcherFails(w)
      PROVE Goes
  <2>1. DocsGo /\ UNCHANGED <<client, writes>> BY <1>1, <1>6, WatcherDocs
  <2>2. WatchGoes /\ store' \in Stores BY <1>6, WatcherStep DEF Stores
  <2>3. status' \in [Migration -> Status] BY <1>1, <1>6, WatcherReopens, ReopenedFacts
  <2> QED BY <1>1, <2>1, <2>2, <2>3
<1>7. ASSUME Truncates \/ UNCHANGED vars PROVE Goes
  <2>1. UNCHANGED <<docs, log, client, writes, watch, store, status>>
    BY <1>7 DEF Truncates, vars, documentVars, watcherVars
  <2> QED BY <1>1, <2>1 DEF DocsGo
<1>8. Goes
  <2>1. CASE UNCHANGED vars BY <1>7, <2>1
  <2>2. CASE Next
    <3> HIDE DEF Goes
    <3>1. ASSUME Reverts PROVE Goes
      <4>1. UNCHANGED <<docs, log, client, writes, watch, store>>
        BY <3>1 DEF Reverts, documentVars, watcherVars
      <4>2. status' \in [Migration -> Status] BY <1>1, <3>1 DEF Reverts, Status
      <4> QED BY <1>1, <4>1, <4>2 DEF DocsGo, Goes
    <3> QED BY <2>2, <3>1, <1>2, <1>3, <1>4, <1>5, <1>6, <1>7 DEF Next, LaneActs
  <2> QED BY <2>1, <2>2
<1>9. DocsInv' BY <1>1, <1>8, DocsGoFacts DEF DocsInv
<1>10. ClientsInv'
  <2>1. ASSUME NEW c \in Client PROVE OKClient(client[c])'
    <3>1. PICK cs : client'[c] = cs /\ OKClient(cs)
      BY <1>1, <1>8 DEF ClientsInv
    <3>2. OKClient(cs)' BY <1>1, <1>8, <3>1, OKClientKept
    <3> QED BY <3>1, <3>2 DEF OKClient
  <2>2. client' = [c \in Client |-> client'[c]] BY <1>1, <1>8 DEF ClientsInv
  <2> QED BY <2>1, <2>2 DEF ClientsInv
<1>11. WatchersInv'
  <2>1. ASSUME NEW w \in Watcher PROVE OKWatch(watch[w])' /\ watch'[w] \in Watch
    <3>1. PICK ws : watch'[w] = ws /\ OKWatch(ws)
      BY <1>1, <1>8 DEF WatchersInv
    <3>2. OKWatch(ws)' BY <1>1, <1>8, <3>1, OKWatchKept
    <3> QED BY <3>1, <3>2 DEF OKWatch
  <2>2. watch' = [w \in Watcher |-> watch'[w]] BY <1>1, <1>8 DEF WatchersInv
  <2>3. watch' \in [Watcher -> Watch] BY <2>1, <2>2
  <2> QED BY <2>1, <2>3 DEF WatchersInv
<1>12. ReadsInv' BY <1>8, <1>9, <1>10, <1>11 DEF ReadsInv, Status, Stores
<1> QED BY <1>8, <1>12

\* Nothing that was read of a document is ever newer than the document: neither a pod nor a
\* watcher holds a revision that the document does not have yet, and at that revision the
\* document still carries what was read (occ.js, document.js).
THEOREM ReadsInvariant == Spec => []ReadsInv
<1>1. Init => ReadsInv BY InitReads
<1>2. ReadsInv /\ [Next]_vars => ReadsInv' BY ReadsNext
<1> QED BY <1>1, <1>2, PTL DEF Spec

\* No write of a versioned document is lost, whichever pods, lanes and watchers write beside
\* each other (updateWithRevision, replaceWithRevision, occ.js; occFilter, document.js).
THEOREM WritesKept == Spec => NoLostUpdate
<1>1. ReadsInv /\ [Next]_vars =>
        [\A d \in Doc : There(d) /\ docs'[d].is = "there" => docs[d].data \subseteq docs'[d].data]_docs
  <2>1. SUFFICES ASSUME ReadsInv, [Next]_vars, NEW d \in Doc, There(d), docs'[d].is = "there"
                 PROVE docs[d].data \subseteq docs'[d].data
    OBVIOUS
  <2>2. DocsInv BY <2>1 DEF ReadsInv
  <2>3. Grows(docs[d], docs'[d]) BY <2>1, <2>2, ReadsNext, DocsGoFacts
  <2> QED BY <2>1, <2>3 DEF Grows, There
<1> QED BY <1>1, ReadsInvariant, PTL DEF Spec, NoLostUpdate

-----------------------------------------------------------------------------
(* What the watcher has passed.                                            *)

\* Positions are positions of the log, and the one to resume from is the one that was reached.
Steady(ws) ==
  /\ ws.token <= Len(log) /\ ws.pos <= Len(log)
  /\ ws.pc = "probing" => ws.token = Unset
  /\ ws.pc \in {"streaming", "reading", "rewriting"} => ws.token \in {Unset, ws.pos}

\* What was read for an upgrade is of the version that the event named, as long as it is the last.
Fits(ws) ==
  ws.pc = "rewriting" /\ IsLastWrite(log[ws.ev].doc, ws.ev) => ws.snap.version = log[ws.ev].version

LeadsInv ==
  /\ lock \in Watcher \cup {Nobody} /\ (lock # Nobody => store.leader = lock)
  /\ store.token <= Len(log)
  /\ \A w \in Watcher : Steady(watch[w]) /\ Fits(watch[w])

\* The last entry of a document in the log is the shape that it has.
LogTells ==
  \A d \in Doc, i \in 1..Len(log) :
    There(d) /\ docs[d].version < Top /\ IsLastWrite(d, i) => log[i].version = docs[d].version

\* A document that nobody but the watcher will take: no pass of its migration looks for it any
\* more, and nobody was told.
Owed(d) ==
  /\ There(d) /\ d \notin excused
  /\ docs[d].version \in Migration /\ status[docs[d].version] \in {"counted", "completed"}

\* Whoever goes on from there meets the write.
Ahead(ws, i) ==
  /\ ws.pc \in {"looking", "opening"} => ws.token < i
  /\ ws.pc = "streaming" => ws.pos < i
  /\ ws.pc \in {"reading", "rewriting"} => ws.ev <= i

OwedAhead ==
  \A d \in Doc, i \in 1..Len(log) :
    Owed(d) /\ IsLastWrite(d, i) =>
      store.token < i /\ (store.leader \in Watcher => Ahead(watch[store.leader], i))

ServedInv == LeadsInv /\ LogTells /\ OwedAhead

-----------------------------------------------------------------------------
(* A write to a document is met later.                                     *)

\* What was last before a write and is not its document's stays last; the new entry is the last
\* of its document.
LEMMA LastWrites ==
  ASSUME DocsInv, DocsGo, NEW d \in Doc, NEW i \in 1..Len(log'), IsLastWrite(d, i)'
  PROVE  /\ i \in 1..Len(log) =>
              /\ IsLastWrite(d, i)
              /\ log' = log \/ (Len(log') = Len(log) + 1 /\ log'[Len(log) + 1].doc # d)
         /\ i \notin 1..Len(log) =>
              /\ i = Len(log) + 1 /\ Len(log') = Len(log) + 1
              /\ log'[i] = [doc |-> d, version |-> docs'[d].version]
<1>1. /\ Len(log) \in Nat /\ Len(log') \in Nat /\ Len(log) <= Len(log')
      /\ \A k \in 1..Len(log) : log'[k] = log[k]
  BY DocsGoFacts
<1>2. log'[i].doc = d /\ \A j \in (i + 1)..Len(log') : log'[j].doc # d BY DEF IsLastWrite
<1>3. i \in Nat BY <1>1
<1>4. ASSUME i \in 1..Len(log) PROVE IsLastWrite(d, i)
  <2>1. log[i].doc = d BY <1>1, <1>2, <1>4
  <2>2. ASSUME NEW j \in (i + 1)..Len(log) PROVE log[j].doc # d
    <3>1. j \in 1..Len(log) /\ j \in (i + 1)..Len(log') BY <1>1, <1>3, <1>4
    <3> QED BY <1>1, <1>2, <3>1
  <2> QED BY <2>1, <2>2 DEF IsLastWrite
<1>5. CASE log' = log BY <1>4, <1>5
<1>6. ASSUME NEW e \in Doc, DocStep(e), log' = Append(log, [doc |-> e, version |-> docs'[e].version])
      PROVE  /\ Len(log') = Len(log) + 1
             /\ log'[Len(log) + 1] = [doc |-> e, version |-> docs'[e].version]
  <2>1. [doc |-> e, version |-> docs'[e].version] \in Entry
    BY <1>6, DocsGoFacts DEF DocsGo, Entry, Document
  <2> QED BY <1>6, <2>1, AppendFacts DEF DocsInv
<1>7. CASE log' # log
  <2>1. PICK e \in Doc : DocStep(e) /\ log' = Append(log, [doc |-> e, version |-> docs'[e].version])
    BY <1>7 DEF DocsGo, DocStep
  <2>2. /\ Len(log') = Len(log) + 1
        /\ log'[Len(log) + 1] = [doc |-> e, version |-> docs'[e].version]
    BY <2>1, <1>6
  <2>3. ASSUME i \in 1..Len(log) PROVE log'[Len(log) + 1].doc # d
    <3>1. Len(log) + 1 \in (i + 1)..Len(log') BY <1>1, <1>3, <2>2, <2>3
    <3> QED BY <1>2, <3>1
  <2>4. ASSUME i \notin 1..Len(log)
        PROVE i = Len(log) + 1 /\ log'[i] = [doc |-> d, version |-> docs'[d].version]
    <3>1. i = Len(log) + 1 BY <1>1, <1>3, <2>2, <2>4
    <3>2. e = d BY <1>2, <2>2, <3>1
    <3> QED BY <2>2, <3>1, <3>2
  <2> QED BY <1>4, <2>2, <2>3, <2>4
<1> QED BY <1>5, <1>7

\* A document whose last entry was there before the step kept the shape that it had.
LEMMA ShapeKept ==
  ASSUME DocsInv, DocsGo, NEW d \in Doc, NEW i \in 1..Len(log),
         There(d)', docs'[d].version < Top, IsLastWrite(d, i)'
  PROVE  There(d) /\ docs'[d].version = docs[d].version
<1>0. i \in 1..Len(log') BY DocsGoFacts
<1>1. log' = log \/ log'[Len(log) + 1].doc # d BY <1>0, LastWrites
<1>2. CASE UNCHANGED <<docs, log>> BY <1>2 DEF There
<1>3. ASSUME NEW e \in Doc, DocStep(e) PROVE There(d) /\ docs'[d].version = docs[d].version
  <2>1. CASE d # e BY <1>3, <2>1 DEF DocStep, There
  <2>2. CASE d = e /\ log' = log
    <3>1. docs'[d].version \in Int BY DocsGoFacts DEF Document
    <3>2. [doc |-> d, version |-> docs'[d].version] \in Entry BY <3>1 DEF Entry
    <3>3. log' # Append(log, [doc |-> d, version |-> docs'[d].version])
      BY <2>2, <3>2, AppendFacts DEF DocsInv
    <3> QED BY <1>3, <2>2, <3>1, <3>3, WritesAssumption DEF DocStep, There
  <2>3. CASE d = e /\ log' # log
    <3>1. [doc |-> e, version |-> docs'[e].version] \in Entry
      BY <1>3, DocsGoFacts DEF Entry, Document
    <3>2. log' = Append(log, [doc |-> e, version |-> docs'[e].version])
      BY <1>3, <2>3 DEF DocStep
    <3>3. log'[Len(log) + 1].doc = e BY <3>1, <3>2, AppendFacts DEF DocsInv
    <3> QED BY <1>1, <2>3, <3>3
  <2> QED BY <2>1, <2>2, <2>3
<1> QED BY <1>2, <1>3 DEF DocsGo

LEMMA LogTellsKept ==
  ASSUME DocsInv, DocsGo, LogTells PROVE LogTells'
<1>1. SUFFICES ASSUME NEW d \in Doc, NEW i \in 1..Len(log'),
                      There(d)', docs'[d].version < Top, IsLastWrite(d, i)'
               PROVE  log'[i].version = docs'[d].version
  BY DEF LogTells
<1>2. CASE i \notin 1..Len(log)
  <2>1. log'[i] = [doc |-> d, version |-> docs'[d].version] BY <1>1, <1>2, LastWrites
  <2> QED BY <2>1
<1>3. CASE i \in 1..Len(log)
  <2>1. IsLastWrite(d, i) BY <1>1, <1>3, LastWrites
  <2>2. There(d) /\ docs'[d].version = docs[d].version BY <1>1, <1>3, ShapeKept
  <2>3. log'[i] = log[i] BY <1>3, DocsGoFacts
  <2> QED BY <1>1, <1>3, <2>1, <2>2, <2>3 DEF LogTells
<1> QED BY <1>2, <1>3

\* A write of a pod, a lane or a watcher, and what it takes back of what was said: the only
\* documents that become owed are those that it writes, and no position is there yet.
LEMMA DocumentsServed ==
  ASSUME ReadsInv, ServedInv, DocsGo, UNCHANGED <<status, lock, store>>,
         \A d \in Doc : d \in excused \ excused' => log' # log /\ log'[Len(log) + 1].doc = d,
         \A w \in Watcher :
           \/ watch'[w] = watch[w]
           \/ /\ watch[w].pc = "rewriting" /\ watch'[w].pc = "reading"
              /\ watch'[w].ev = watch[w].ev /\ watch'[w].pos = watch[w].pos
              /\ watch'[w].token = watch[w].token
  PROVE  ServedInv'
<1>1. DocsInv /\ WatchersInv /\ LeadsInv /\ LogTells /\ OwedAhead BY DEF ReadsInv, ServedInv
<1>2. /\ Len(log) \in Nat /\ Len(log') \in Nat /\ Len(log) <= Len(log')
      /\ \A k \in 1..Len(log) : log'[k] = log[k]
  BY <1>1, DocsGoFacts
<1>3. store.token \in Nat \cup {Unset} /\ store.token <= Len(log) BY <1>1 DEF ReadsInv, LeadsInv
<1>4. ASSUME NEW w \in Watcher PROVE Steady(watch[w])' /\ Fits(watch[w])'
  <2>1. PICK old, new : old = watch[w] /\ new = watch'[w] OBVIOUS
  <2>2. OKWatch(old) /\ old \in Watch /\ Steady(old) /\ Fits(old)
    BY <1>1, <2>1 DEF WatchersInv, OKWatch, LeadsInv
  <2>3. old.pos \in Nat /\ old.token \in Nat \cup {Unset} BY <2>2 DEF Watch
  <2>4. new.pos <= Len(log') /\ new.token <= Len(log')
    BY <1>2, <2>1, <2>2, <2>3 DEF Steady, Unset
  <2>5. /\ new.pc = "probing" => new.token = Unset
        /\ new.pc \in {"streaming", "reading", "rewriting"} => new.token \in {Unset, new.pos}
    BY <2>1, <2>2 DEF Steady
  <2>6. ASSUME new.pc = "rewriting", IsLastWrite(log[new.ev].doc, new.ev)'
        PROVE  new.snap.version = log'[new.ev].version
    <3>1. new = old BY <2>1, <2>6
    <3>2. old.ev \in 1..Len(log) /\ log[old.ev].doc \in Doc /\ log'[old.ev] = log[old.ev]
      BY <1>1, <1>2, <2>2, <2>6, <3>1, EntryFacts DEF OKWatch
    <3>3. old.ev \in 1..Len(log') BY <1>2, <3>2
    <3>4. PICK d \in Doc, i \in 1..Len(log') : d = log[old.ev].doc /\ i = old.ev
      BY <3>2, <3>3
    <3>5. IsLastWrite(d, i)' BY <2>6, <3>1, <3>2, <3>4 DEF IsLastWrite
    <3>6. IsLastWrite(d, i) BY <1>1, <3>2, <3>4, <3>5, LastWrites
    <3> QED BY <2>2, <2>6, <3>1, <3>2, <3>4, <3>6 DEF Fits
  <2> QED BY <2>1, <2>4, <2>5, <2>6 DEF Steady, Fits
<1>5. LeadsInv'
  <2>1. store.token <= Len(log') BY <1>2, <1>3 DEF Unset
  <2> QED BY <1>1, <1>4, <2>1 DEF LeadsInv
<1>6. LogTells' BY <1>1, LogTellsKept
<1>7. ASSUME NEW d \in Doc, NEW i \in 1..Len(log'), Owed(d)', IsLastWrite(d, i)'
      PROVE  store.token < i /\ (store.leader \in Watcher => Ahead(watch'[store.leader], i))
  <2>1. CASE i \in 1..Len(log)
    <3>1. docs'[d].version < Top /\ There(d)'
      BY <1>7, WritesAssumption DEF Owed, Migration
    <3>2. There(d) /\ docs'[d].version = docs[d].version BY <1>1, <1>7, <2>1, <3>1, ShapeKept
    <3>3. IsLastWrite(d, i) /\ (log' = log \/ log'[Len(log) + 1].doc # d)
      BY <1>1, <1>7, <2>1, LastWrites
    <3>4. d \notin excused BY <1>7, <3>3 DEF Owed
    <3>5. Owed(d) BY <1>7, <3>2, <3>4 DEF Owed
    <3>6. store.token < i /\ (store.leader \in Watcher => Ahead(watch[store.leader], i))
      BY <1>1, <2>1, <3>3, <3>5 DEF OwedAhead
    <3>7. ASSUME store.leader \in Watcher PROVE Ahead(watch'[store.leader], i)
      BY <3>6, <3>7 DEF Ahead
    <3> QED BY <3>6, <3>7
  <2>2. CASE i \notin 1..Len(log)
    <3>1. i = Len(log) + 1 BY <1>1, <1>7, <2>2, LastWrites
    <3>2. ASSUME NEW w \in Watcher PROVE Ahead(watch'[w], i)
      <4>1. PICK old : old = watch[w] OBVIOUS
      <4>2. OKWatch(old) /\ old \in Watch /\ Steady(old)
        BY <1>1, <4>1 DEF WatchersInv, OKWatch, LeadsInv
      <4>3. old.pos \in Nat /\ old.token \in Nat \cup {Unset} /\ old.ev \in Nat BY <4>2 DEF Watch
      <4>4. old.pos < i /\ old.token < i /\ (old.pc \in {"reading", "rewriting"} => old.ev <= i)
        BY <1>2, <3>1, <4>2, <4>3 DEF Steady, OKWatch, Unset
      <4> QED BY <4>1, <4>4 DEF Ahead
    <3>3. store.token < i BY <1>2, <1>3, <3>1 DEF Unset
    <3> QED BY <3>2, <3>3
  <2> QED BY <2>1, <2>2
<1>8. OwedAhead' BY <1>7 DEF OwedAhead
<1> QED BY <1>5, <1>6, <1>8 DEF ServedInv

-----------------------------------------------------------------------------
(* What a watcher passes.                                                  *)

\* A step that writes no document: the watcher goes on with ws, and what is owed lies ahead of
\* it if it is the leader on record; if it is not, the record stays as it was.
LEMMA WatcherServed ==
  ASSUME ReadsInv, ServedInv, UNCHANGED <<docs, log>>, NEW w \in Watcher, NEW ws,
         watch' = [watch EXCEPT ![w] = ws], Steady(ws), Fits(ws),
         lock' \in Watcher \cup {Nobody}, lock' # Nobody => store'.leader = lock',
         store'.token <= Len(log), store' = store \/ store'.leader = w,
         \A d \in Doc : Owed(d)' => Owed(d),
         \A d \in Doc, i \in 1..Len(log) :
           Owed(d)' /\ Owed(d) /\ IsLastWrite(d, i) /\ store'.leader = w =>
             store'.token < i /\ Ahead(ws, i)
  PROVE  ServedInv'
<1>1. LeadsInv /\ LogTells /\ OwedAhead /\ watch \in [Watcher -> Watch]
  BY DEF ReadsInv, ServedInv, WatchersInv
<1>2. ASSUME NEW v \in Watcher PROVE Steady(watch'[v]) /\ Fits(watch'[v])
  BY <1>1 DEF LeadsInv
<1>3. ASSUME NEW v \in Watcher PROVE Steady(watch[v])' /\ Fits(watch[v])'
  BY <1>2 DEF Steady, Fits, IsLastWrite
<1>4. LeadsInv' BY <1>3 DEF LeadsInv
<1>5. LogTells' BY <1>1 DEF LogTells, There, IsLastWrite
<1>6. ASSUME NEW d \in Doc, NEW i \in 1..Len(log), Owed(d)', IsLastWrite(d, i)
      PROVE  store'.token < i /\ (store'.leader \in Watcher => Ahead(watch'[store'.leader], i))
  <2>1. Owed(d) BY <1>6
  <2>2. CASE store'.leader = w BY <1>1, <1>6, <2>1, <2>2
  <2>3. CASE store'.leader # w
    <3>1. store' = store BY <2>3
    <3>2. store.token < i /\ (store.leader \in Watcher => Ahead(watch[store.leader], i))
      BY <1>1, <1>6, <2>1 DEF OwedAhead
    <3>3. ASSUME store.leader \in Watcher PROVE watch'[store.leader] = watch[store.leader]
      BY <1>1, <2>3, <3>1, <3>3
    <3> QED BY <3>1, <3>2, <3>3
  <2> QED BY <2>2, <2>3
<1>7. OwedAhead'
  <2>1. SUFFICES ASSUME NEW d \in Doc, NEW i \in 1..Len(log'), Owed(d)', IsLastWrite(d, i)'
                 PROVE  store'.token < i
                        /\ (store'.leader \in Watcher => Ahead(watch'[store'.leader], i))
    BY DEF OwedAhead, Ahead
  <2>2. i \in 1..Len(log) /\ IsLastWrite(d, i) BY <2>1 DEF IsLastWrite
  <2> QED BY <1>6, <2>1, <2>2
<1> QED BY <1>4, <1>5, <1>7 DEF ServedInv

\* Nothing is owed that was not: what is reopened is owed no more, and more is excused.
LEMMA OwedLess ==
  ASSUME status \in [Migration -> Status], UNCHANGED docs, excused \subseteq excused',
         status' = status \/ \E ms : status' = Reopened(ms)
  PROVE  \A d \in Doc : Owed(d)' => Owed(d)
<1>1. SUFFICES ASSUME NEW d \in Doc, Owed(d)' PROVE Owed(d) OBVIOUS
<1> DEFINE v == docs[d].version
<1>2. There(d) /\ d \notin excused /\ v \in Migration /\ status'[v] \in {"counted", "completed"}
  BY <1>1 DEF Owed, There
<1>3. status[v] \in {"counted", "completed"} BY <1>2, ReopenedFacts
<1> QED BY <1>2, <1>3 DEF Owed

\* What lies between the position and where the stream gets to without being delivered.
LEMMA PassedFacts ==
  ASSUME DocsInv, NEW ws \in Watch, NEW upto \in Nat, NEW d \in Doc, NEW i \in 1..Len(log),
         IsLastWrite(d, i), ws.pos < i, i <= upto, i \notin Delivered(ws)
  PROVE  d \in PassedOver(ws, upto)
<1>1. ws.pos \in Nat /\ ws.edges \in SUBSET Migration /\ Len(log) \in Nat BY DEF Watch, DocsInv
<1>2. log[i].version \in Int /\ Target(ws.edges) \in Int BY <1>1, EntryFacts, TargetFacts
<1>3. log[i].version >= Target(ws.edges)
  <2>1. ~(log[i].version < Target(ws.edges)) BY DeliveredFacts
  <2> QED BY <1>2, <2>1
<1>4. i \in (ws.pos + 1)..upto BY <1>1
<1> QED BY <1>3, <1>4 DEF PassedOver, IsLastWrite

\* Who holds the lock is the leader on record, and what is owed lies ahead of it.
LEMMA LeaderFacts ==
  ASSUME ReadsInv, ServedInv, NEW w \in Watcher
  PROVE  /\ lock = w => store.leader = w
         /\ \A d \in Doc, i \in 1..Len(log) :
              Owed(d) /\ IsLastWrite(d, i) /\ store.leader = w =>
                store.token < i /\ Ahead(watch[w], i)
BY WatcherAssumption DEF ServedInv, LeadsInv, OwedAhead

\* A watcher that starts over, from a position that it may start from.
LEMMA StartsServed ==
  ASSUME DocsInv, NEW t \in Nat \cup {Unset}, t <= Len(log), NEW ws,
         \/ ws = IdleWatch
         \/ ws = [IdleWatch EXCEPT !.pc = "looking"] /\ t = Unset
         \/ ws = [IdleWatch EXCEPT !.pc = "looking", !.token = t]
  PROVE  Steady(ws) /\ Fits(ws) /\ \A i : t < i => Ahead(ws, i)
<1>1. Len(log) \in Nat BY DEF DocsInv
<1>2. ws.pos = 0 /\ (ws.pc = "idle" \/ (ws.pc = "looking" /\ ws.token = t)) /\ ws.token \in {Unset, t}
  <2>1. CASE ws = IdleWatch BY <2>1 DEF IdleWatch
  <2>2. CASE ws = [IdleWatch EXCEPT !.pc = "looking"] /\ t = Unset BY <2>2 DEF IdleWatch
  <2>3. CASE ws = [IdleWatch EXCEPT !.pc = "looking", !.token = t] BY <2>3 DEF IdleWatch
  <2> QED BY <2>1, <2>2, <2>3
<1> QED BY <1>1, <1>2 DEF Steady, Fits, Ahead, Unset

\* An event that is served: whoever was owed is past it, and its document is owed no more.
LEMMA EventServed ==
  ASSUME ReadsInv, ServedInv, UNCHANGED <<docs, log, lock, store>>, NEW w \in Watcher,
         watch[w].pc \in {"reading", "rewriting"}, watch' = [watch EXCEPT ![w] = Served(watch[w])],
         \A d \in Doc : Owed(d)' => Owed(d),
         \A d \in Doc : d = Named(w) /\ Owed(d) /\ IsLastWrite(d, watch[w].ev) => ~Owed(d)'
  PROVE  ServedInv'
<1>1. PICK old : old = watch[w] OBVIOUS
<1>2. OKWatch(old) /\ old \in Watch BY <1>1 DEF ReadsInv, WatchersInv, OKWatch
<1>3. old.ev \in 1..Len(log) /\ old.ev \in Nat /\ Len(log) \in Nat
  BY <1>1, <1>2 DEF OKWatch, Watch, ReadsInv, DocsInv
<1>4. PICK ws : ws = Served(old) OBVIOUS
<1>5. ws.pc = "streaming" /\ ws.token = old.ev /\ ws.pos = old.ev
  BY <1>2, <1>4 DEF Served, Watch
<1>6. Steady(ws) /\ Fits(ws) BY <1>3, <1>5 DEF Steady, Fits
<1>7. ASSUME NEW d \in Doc, NEW i \in 1..Len(log), Owed(d)', Owed(d), IsLastWrite(d, i),
             store.leader = w
      PROVE  store.token < i /\ Ahead(ws, i)
  <2>1. store.token < i /\ Ahead(old, i) BY <1>1, <1>7, LeaderFacts
  <2>2. old.ev <= i BY <1>1, <2>1 DEF Ahead
  <2>3. i # old.ev BY <1>1, <1>7 DEF Named, IsLastWrite
  <2>4. old.ev < i BY <1>3, <2>2, <2>3
  <2> QED BY <1>5, <2>1, <2>4 DEF Ahead
<1>8. lock \in Watcher \cup {Nobody} /\ (lock # Nobody => store.leader = lock)
      /\ store.token <= Len(log)
  BY DEF ServedInv, LeadsInv
<1>9. watch' = [watch EXCEPT ![w] = ws] BY <1>1, <1>4
<1> QED BY <1>6, <1>7, <1>8, <1>9, WatcherServed

\* Nothing is owed to a document at the version where its migration works again, or that is
\* reported.
LEMMA HandedBack ==
  ASSUME ReadsInv, NEW w \in Watcher, NEW m \in Migration, HandsBack(w, m), UNCHANGED docs,
         NEW d \in Doc, d = Named(w), docs[d].version = m
  PROVE  ~Owed(d)'
<1>1. status \in [Migration -> Status] BY DEF ReadsInv, Status
<1>2. CASE ~settings.reopens
  <2>1. d \in excused' BY <1>2 DEF HandsBack
  <2> QED BY <2>1 DEF Owed
<1>3. CASE settings.reopens
  <2>1. status' = Reopened({m}) /\ (status[m] = "counted" => d \in excused')
    BY <1>3 DEF HandsBack
  <2>2. status'[m] \in {"counted", "completed"} => status[m] = "counted"
    BY <1>1, <2>1, ReopenedFacts
  <2> QED BY <2>1, <2>2 DEF Owed
<1> QED BY <1>2, <1>3

LEMMA ServesFacts ==
  ASSUME ReadsInv, ServedInv, NEW w \in Watcher
  PROVE  /\ DocsInv /\ Len(log) \in Nat /\ Unset \in Nat \cup {Unset} /\ Unset <= Len(log)
         /\ watch \in [Watcher -> Watch] /\ OKWatch(watch[w]) /\ watch[w] \in Watch
         /\ Steady(watch[w]) /\ Fits(watch[w])
         /\ lock \in Watcher \cup {Nobody} /\ (lock # Nobody => store.leader = lock)
         /\ store \in [leader : Watcher \cup {Nobody}, token : Nat \cup {Unset}]
         /\ store.token \in Nat \cup {Unset} /\ store.token <= Len(log)
         /\ status \in [Migration -> Status] /\ w # Nobody
BY WatcherAssumption
   DEF ReadsInv, ServedInv, DocsInv, WatchersInv, OKWatch, LeadsInv, Unset, Status

\* The next leader is put on record where the last one was, and opens there.
LEMMA LeadServed ==
  ASSUME ReadsInv, ServedInv, NEW w \in Watcher, Leads(w) \/ Looks(w) \/ Opens(w)
  PROVE  ServedInv'
<1> USE ServesFacts
<1>0. UNCHANGED <<docs, log, status, excused>>
  BY DEF Leads, Looks, Opens, documentVars
<1>1. \A d \in Doc : Owed(d)' => Owed(d) BY <1>0 DEF Owed, There
<1>2. CASE Leads(w)
  <2>1. PICK t : t = store.token OBVIOUS
  <2>2. PICK ws : ws = [IdleWatch EXCEPT !.pc = "looking", !.token = t] OBVIOUS
  <2>3. watch' = [watch EXCEPT ![w] = ws] /\ lock' = w BY <1>2, <2>1, <2>2 DEF Leads, Set
  <2>4. store' = [store EXCEPT !.leader = w] BY <1>2 DEF Leads
  <2>5. store'.leader = w /\ store'.token = t BY <2>1, <2>4
  <2>6. t \in Nat \cup {Unset} /\ t <= Len(log) BY <2>1
  <2>7. Steady(ws) /\ Fits(ws) /\ \A i : t < i => Ahead(ws, i) BY <2>2, <2>6, StartsServed
  <2>8. ASSUME NEW d \in Doc, NEW i \in 1..Len(log), Owed(d), IsLastWrite(d, i) PROVE t < i
    BY <2>1, <2>8 DEF ServedInv, OwedAhead
  <2> QED BY <1>0, <1>1, <2>3, <2>5, <2>6, <2>7, <2>8, WatcherServed
<1>3. CASE Looks(w)
  <2>1. PICK old : old = watch[w] OBVIOUS
  <2>2. PICK ws : /\ watch' = [watch EXCEPT ![w] = ws]
                  /\ ws = IdleWatch \/ ws = [old EXCEPT !.pc = "opening", !.edges = Completed]
    BY <1>3, <2>1 DEF Looks, Set
  <2>3. lock' \in {lock, Nobody} /\ UNCHANGED store /\ old.pc = "looking"
    BY <1>3, <2>1 DEF Looks, Leading
  <2>4. CASE ws = IdleWatch
    <3>1. Steady(ws) /\ Fits(ws) BY <2>4, StartsServed
    <3>2. \A i : Ahead(ws, i) BY <2>4 DEF Ahead, IdleWatch
    <3> QED BY <1>0, <1>1, <2>2, <2>3, <3>1, <3>2, WatcherServed, LeaderFacts
  <2>5. CASE ws = [old EXCEPT !.pc = "opening", !.edges = Completed]
    <3>1. ws.pc = "opening" /\ ws.token = old.token /\ ws.pos = old.pos BY <2>1, <2>5 DEF Watch
    <3>2. Steady(ws) /\ Fits(ws) BY <2>1, <3>1 DEF Steady, Fits
    <3>3. \A i : Ahead(old, i) => Ahead(ws, i) BY <2>3, <3>1 DEF Ahead
    <3> QED BY <1>0, <1>1, <2>1, <2>2, <2>3, <3>2, <3>3, WatcherServed, LeaderFacts
  <2> QED BY <2>2, <2>4, <2>5
<1>4. CASE Opens(w)
  <2>1. PICK old : old = watch[w] OBVIOUS
  <2>2. old.pc = "opening" /\ store.leader = w /\ UNCHANGED lock
    BY <1>4, <2>1, LeaderFacts DEF Opens, Leading
  <2>3. CASE old.token = Unset
    <3>1. PICK ws : ws = [old EXCEPT !.pc = "probing", !.pos = Len(log)] OBVIOUS
    <3>2. watch' = [watch EXCEPT ![w] = ws] /\ UNCHANGED store
      BY <1>4, <2>1, <2>3, <3>1 DEF Opens, Set
    <3>3. ws.pc = "probing" /\ ws.token = Unset /\ ws.pos = Len(log) BY <2>1, <2>3, <3>1 DEF Watch
    <3>4. Steady(ws) /\ Fits(ws) BY <3>3 DEF Steady, Fits
    <3>5. \A i : Ahead(ws, i) BY <3>3 DEF Ahead
    <3> QED BY <1>0, <1>1, <2>2, <3>2, <3>4, <3>5, WatcherServed, LeaderFacts
  <2>4. CASE old.token # Unset /\ old.token < oldest
    <3>1. PICK ws : ws = [IdleWatch EXCEPT !.pc = "looking"] OBVIOUS
    <3>2. watch' = [watch EXCEPT ![w] = ws] /\ store' = Saved(w, Unset)
      BY <1>4, <2>1, <2>4, <3>1 DEF Opens, Set
    <3>3. store'.leader = w /\ store'.token = Unset BY <2>2, <3>2 DEF Saved
    <3>4. Steady(ws) /\ Fits(ws) /\ \A i : Unset < i => Ahead(ws, i) BY <3>1, StartsServed
    <3>5. \A i \in 1..Len(log) : Unset < i BY DEF Unset
    <3> QED BY <1>0, <1>1, <2>2, <3>2, <3>3, <3>4, <3>5, WatcherServed
  <2>5. CASE old.token # Unset /\ ~(old.token < oldest)
    <3>1. PICK ws : ws = [old EXCEPT !.pc = "streaming", !.pos = old.token] OBVIOUS
    <3>2. watch' = [watch EXCEPT ![w] = ws] /\ UNCHANGED store
      BY <1>4, <2>1, <2>5, <3>1 DEF Opens, Set
    <3>3. ws.pc = "streaming" /\ ws.token = old.token /\ ws.pos = old.token
      BY <2>1, <3>1 DEF Watch
    <3>4. Steady(ws) /\ Fits(ws) BY <2>1, <3>3 DEF Steady, Fits
    <3>5. \A i : Ahead(old, i) => Ahead(ws, i) BY <2>2, <3>3 DEF Ahead
    <3> QED BY <1>0, <1>1, <2>1, <2>2, <3>2, <3>4, <3>5, WatcherServed, LeaderFacts
  <2> QED BY <2>3, <2>4, <2>5
<1> QED BY <1>2, <1>3, <1>4

\* After a look at the collection nothing is owed: what it found works again, or was reported.
LEMMA ProbeServed ==
  ASSUME ReadsInv, ServedInv, NEW w \in Watcher, Probes(w) \/ ProbeFails(w)
  PROVE  ServedInv'
<1> USE ServesFacts
<1>1. PICK old : old = watch[w] OBVIOUS
<1>2. PICK ws : ws = [old EXCEPT !.pc = "streaming"] OBVIOUS
<1>3. /\ old.pc = "probing" /\ watch' = [watch EXCEPT ![w] = ws]
      /\ UNCHANGED <<docs, log, lock, store>>
  BY <1>1, <1>2 DEF Probes, ProbeFails, Set, documentVars
<1>4. ws.pc = "streaming" /\ ws.token = Unset /\ ws.pos = old.pos
  BY <1>1, <1>2, <1>3 DEF Watch, Steady
<1>5. Steady(ws) /\ Fits(ws) BY <1>1, <1>4 DEF Steady, Fits
<1>6. ASSUME NEW d \in Doc PROVE ~Owed(d)'
  <2> DEFINE v == docs[d].version
  <2>1. SUFFICES ASSUME There(d), d \notin excused', v \in Migration,
                        status'[v] \in {"counted", "completed"}
                 PROVE FALSE
    BY <1>3 DEF Owed, There
  <2>2. d \in At(v) BY <2>1 DEF At
  <2>3. excused' # excused \cup UNION {At(m) : m \in Migration} BY <2>1, <2>2
  <2>4. /\ Active = {} /\ status' = Reopened({m \in Completed : At(m) # {}})
    BY <2>3 DEF Probes, ProbeFails
  <2>5. /\ status'[v] = status[v]
        /\ v \in {m \in Completed : At(m) # {}} => status[v] # "completed"
    BY <2>1, <2>4, ReopenedFacts
  <2>6. status[v] # "counted" BY <2>1, <2>4 DEF Active
  <2>7. v \in {m \in Completed : At(m) # {}} BY <2>1, <2>2, <2>5, <2>6 DEF Completed
  <2> QED BY <2>1, <2>5, <2>6, <2>7
<1> QED BY <1>3, <1>5, <1>6, WatcherServed

\* The stream passes what it delivers not, and says so; what it delivers it does not pass.
LEMMA StreamServed ==
  ASSUME ReadsInv, ServedInv, NEW w \in Watcher,
         NextEvent(w) \/ (\E refreshes \in BOOLEAN : Idles(w, refreshes)) \/ Saves(w) \/ Sheds(w)
  PROVE  ServedInv'
<1> USE ServesFacts
<1>1. PICK old : old = watch[w] OBVIOUS
<1>2. /\ old.pc = "streaming" /\ lock = w /\ store.leader = w
      /\ UNCHANGED <<docs, log, lock>>
  BY <1>1, LeaderFacts DEF NextEvent, Idles, Saves, Sheds, Leading, documentVars
<1>3. old.pos \in Nat /\ old.pos <= Len(log) /\ old.token \in {Unset, old.pos}
  BY <1>1, <1>2 DEF Watch, Steady
<1>4. \A i \in 1..Len(log) : Unset < i BY DEF Unset
<1>5. ASSUME NEW d \in Doc, NEW i \in 1..Len(log), Owed(d), IsLastWrite(d, i)
      PROVE  store.token < i /\ old.pos < i
  BY <1>1, <1>2, <1>5, LeaderFacts DEF Ahead
<1>6. CASE NextEvent(w)
  <2>1. PICK next : next = CHOOSE i \in Delivered(old) : \A j \in Delivered(old) : i <= j OBVIOUS
  <2>2. next \in 1..Len(log) /\ \A j \in Delivered(old) : next <= j
    BY <1>1, <1>6, <2>1, DeliveredFacts DEF NextEvent
  <2>3. next \in Nat BY <2>2
  <2>4. PICK ws : ws = [old EXCEPT !.pc = "reading", !.ev = next] OBVIOUS
  <2>5. /\ watch' = [watch EXCEPT ![w] = ws] /\ UNCHANGED <<status, store>>
        /\ excused' = excused \cup PassedOver(old, next)
    BY <1>1, <1>6, <2>1, <2>4 DEF NextEvent, Set, Taken
  <2>6. ws.pc = "reading" /\ ws.token = old.token /\ ws.pos = old.pos /\ ws.ev = next
    BY <1>1, <2>4 DEF Watch
  <2>7. Steady(ws) /\ Fits(ws) BY <1>1, <1>2, <2>6 DEF Steady, Fits
  <2>8. \A d \in Doc : Owed(d)' => Owed(d) BY <1>2, <2>5, OwedLess
  <2>9. ASSUME NEW d \in Doc, NEW i \in 1..Len(log), Owed(d)', Owed(d), IsLastWrite(d, i)
        PROVE  store.token < i /\ Ahead(ws, i)
    <3>1. store.token < i /\ old.pos < i BY <1>5, <2>9
    <3>2. next <= i
      <4>1. SUFFICES ASSUME i < next PROVE FALSE BY <2>3
      <4>2. i \notin Delivered(old) BY <2>2, <2>3, <4>1
      <4>3. d \in PassedOver(old, next) BY <1>1, <2>3, <2>9, <3>1, <4>1, <4>2, PassedFacts
      <4> QED BY <2>5, <2>9, <4>3 DEF Owed
    <3> QED BY <2>6, <3>1, <3>2 DEF Ahead
  <2> QED BY <1>2, <2>5, <2>7, <2>8, <2>9, WatcherServed
<1>7. ASSUME NEW refreshes \in BOOLEAN, Idles(w, refreshes) PROVE ServedInv'
  <2>1. PICK n \in Nat : n = Len(log) OBVIOUS
  <2>2. PICK ws : /\ watch' = [watch EXCEPT ![w] = ws]
                  /\ \/ ws = [IdleWatch EXCEPT !.pc = "looking", !.token = n]
                     \/ ws = [old EXCEPT !.token = n, !.pos = n]
    BY <1>1, <1>7, <2>1 DEF Idles, Set
  <2>3. /\ Delivered(old) = {} /\ excused' = excused \cup PassedOver(old, n)
        /\ UNCHANGED status /\ store' = [store EXCEPT !.token = n]
    BY <1>1, <1>2, <1>7, <2>1 DEF Idles, Saved
  <2>4. store'.leader = w /\ store'.token <= Len(log) BY <1>2, <2>1, <2>3
  <2>5. Steady(ws) /\ Fits(ws)
    <3>1. CASE ws = [IdleWatch EXCEPT !.pc = "looking", !.token = n]
      <4>1. n \in Nat \cup {Unset} /\ n <= Len(log) BY <2>1
      <4> QED BY <3>1, <4>1, StartsServed
    <3>2. CASE ws = [old EXCEPT !.token = n, !.pos = n]
      <4>1. ws.pc = "streaming" /\ ws.token = n /\ ws.pos = n BY <1>1, <1>2, <3>2 DEF Watch
      <4> QED BY <2>1, <4>1 DEF Steady, Fits
    <3> QED BY <2>2, <3>1, <3>2
  <2>6. \A d \in Doc : Owed(d)' => Owed(d) BY <1>2, <2>3, OwedLess
  <2>7. ASSUME NEW d \in Doc, NEW i \in 1..Len(log), Owed(d)', Owed(d), IsLastWrite(d, i) PROVE FALSE
    <3>1. old.pos < i /\ i <= n BY <1>5, <2>1, <2>7
    <3>2. d \in PassedOver(old, n) BY <1>1, <2>3, <2>7, <3>1, PassedFacts
    <3> QED BY <2>3, <2>7, <3>2 DEF Owed
  <2>8. watch' = [watch EXCEPT ![w] = ws] BY <2>2
  <2> QED BY <1>2, <2>4, <2>5, <2>6, <2>7, <2>8, WatcherServed
<1>8. CASE Saves(w)
  <2>1. UNCHANGED <<status, excused>> /\ watch' = [watch EXCEPT ![w] = old]
        /\ store' = SavedKnown(w, old.token)
    BY <1>1, <1>8 DEF Saves
  <2>2. store'.leader = w /\ store'.token \in {store.token, old.pos}
    BY <1>2, <1>3, <2>1 DEF SavedKnown, Saved
  <2>3. \A d \in Doc : Owed(d)' => Owed(d) BY <1>2, <2>1 DEF Owed, There
  <2>4. ASSUME NEW d \in Doc, NEW i \in 1..Len(log), Owed(d), IsLastWrite(d, i)
        PROVE  store'.token < i /\ Ahead(old, i)
    BY <1>5, <1>2, <2>2, <2>4 DEF Ahead
  <2> QED BY <1>1, <1>2, <1>3, <2>1, <2>2, <2>3, <2>4, WatcherServed
<1>9. CASE Sheds(w)
  <2>1. PICK ws : ws = [IdleWatch EXCEPT !.pc = "looking"] OBVIOUS
  <2>2. /\ watch' = [watch EXCEPT ![w] = ws] /\ store' = [store EXCEPT !.token = Unset]
        /\ UNCHANGED excused /\ \E ms : status' = Reopened(ms)
    BY <1>2, <1>9, <2>1 DEF Sheds, Set, Saved
  <2>3. store'.leader = w /\ store'.token = Unset BY <1>2, <2>2
  <2>4. Steady(ws) /\ Fits(ws) /\ \A i : Unset < i => Ahead(ws, i) BY <2>1, StartsServed
  <2>5. \A d \in Doc : Owed(d)' => Owed(d) BY <1>2, <2>2, OwedLess
  <2> QED BY <1>2, <1>4, <2>2, <2>3, <2>4, <2>5, WatcherServed
<1> QED BY <1>6, <1>7, <1>8, <1>9

\* Until its event is served, an upgrade goes on with it.
LEMMA UpgradeGoesOn ==
  ASSUME ReadsInv, ServedInv, UNCHANGED <<docs, log, lock, store, status, excused>>,
         NEW w \in Watcher, watch[w].pc \in {"reading", "rewriting"},
         NEW ws, watch' = [watch EXCEPT ![w] = ws], ws.pc \in {"reading", "rewriting"},
         ws.token = watch[w].token, ws.pos = watch[w].pos, ws.ev = watch[w].ev,
         ws.pc = "rewriting" /\ IsLastWrite(Named(w), watch[w].ev) =>
           ws.snap.version = log[watch[w].ev].version
  PROVE  ServedInv'
<1> USE ServesFacts
<1>1. PICK old : old = watch[w] OBVIOUS
<1>3. ws.token = old.token /\ ws.pos = old.pos /\ ws.ev = old.ev BY <1>1
<1>4. Steady(ws) BY <1>1, <1>3 DEF Steady
<1>5. Fits(ws) BY <1>1, <1>3 DEF Fits, Named
<1>6. \A i : Ahead(old, i) => Ahead(ws, i) BY <1>1, <1>3 DEF Ahead
<1>7. \A d \in Doc : Owed(d)' => Owed(d) BY DEF Owed, There
<1> QED BY <1>1, <1>4, <1>5, <1>6, <1>7, WatcherServed, LeaderFacts

LEMMA ReadsServed ==
  ASSUME ReadsInv, ServedInv, NEW w \in Watcher, Reads(w) PROVE ServedInv'
<1> USE ServesFacts
<1>1. PICK old : old = watch[w] OBVIOUS
<1>2. PICK e : e = Named(w) OBVIOUS
<1>3. /\ old.pc = "reading" /\ UNCHANGED <<docs, log, lock, store>>
  BY <1>1 DEF Reads, documentVars
<1>4. old.ev \in 1..Len(log) /\ log[old.ev].doc = e /\ e \in Doc
      /\ log[old.ev].version < Target(old.edges)
  BY <1>1, <1>2, <1>3, EntryFacts DEF OKWatch, Named
<1>5. PICK doc \in Document : doc = docs[e] BY <1>4 DEF DocsInv
<1>6. old.edges \in SUBSET Migration BY <1>1 DEF Watch
<1>7. ASSUME doc.is = "there", doc.version \in Migration, IsLastWrite(e, old.ev)
      PROVE  doc.version = log[old.ev].version
  <2>1. doc.version < Top BY <1>7, WritesAssumption DEF Migration
  <2> QED BY <1>4, <1>5, <1>7, <2>1 DEF ServedInv, LogTells, There
<1>8. CASE doc.is # "there" \/ doc.version >= Target(old.edges)
  <2>1. watch' = [watch EXCEPT ![w] = Served(watch[w])] /\ UNCHANGED <<status, excused>>
    BY <1>1, <1>2, <1>5, <1>8 DEF Reads, Leaves, Set
  <2>2. \A d \in Doc : Owed(d)' => Owed(d) BY <1>3, <2>1 DEF Owed, There
  <2>3. ASSUME Owed(e), IsLastWrite(e, old.ev) PROVE FALSE
    <3>1. doc.is = "there" /\ doc.version \in Migration BY <1>5, <2>3 DEF Owed, There
    <3>2. doc.version < Target(old.edges) BY <1>4, <1>7, <2>3, <3>1
    <3>3. doc.version \in Int /\ Target(old.edges) \in Int BY <1>6, TargetFacts DEF Document
    <3> QED BY <1>8, <3>1, <3>2, <3>3
  <2> QED BY <1>1, <1>2, <1>3, <2>1, <2>2, <2>3, EventServed
<1>9. CASE /\ ~(doc.is # "there" \/ doc.version >= Target(old.edges))
           /\ doc.version \notin old.edges \/ ~settings.upgrade
  <2>1. watch' = [watch EXCEPT ![w] = Served(watch[w])] /\ excused' = excused \cup {e}
        /\ UNCHANGED status
    BY <1>1, <1>2, <1>5, <1>9 DEF Reads, LetsGo, Set
  <2>2. \A d \in Doc : Owed(d)' => Owed(d) BY <1>3, <2>1, OwedLess
  <2>3. ~Owed(e)' BY <2>1 DEF Owed
  <2> QED BY <1>1, <1>2, <1>3, <2>1, <2>2, <2>3, EventServed
<1>10. CASE /\ ~(doc.is # "there" \/ doc.version >= Target(old.edges))
            /\ ~(doc.version \notin old.edges \/ ~settings.upgrade)
  <2>1. /\ watch' = [watch EXCEPT ![w] = [old EXCEPT !.pc = "rewriting", !.snap = doc]]
        /\ UNCHANGED <<status, excused>>
    BY <1>1, <1>2, <1>5, <1>10 DEF Reads, Set
  <2>2. PICK ws : ws = [old EXCEPT !.pc = "rewriting", !.snap = doc] OBVIOUS
  <2>3. /\ ws.pc = "rewriting" /\ ws.token = old.token /\ ws.pos = old.pos /\ ws.ev = old.ev
        /\ ws.snap = doc
    BY <1>1, <2>2 DEF Watch
  <2>4. IsLastWrite(e, old.ev) => doc.version = log[old.ev].version BY <1>6, <1>7, <1>10
  <2>5. watch' = [watch EXCEPT ![w] = ws] BY <2>1, <2>2
  <2> QED BY <1>1, <1>2, <1>3, <2>1, <2>3, <2>4, <2>5, UpgradeGoesOn
<1> QED BY <1>8, <1>9, <1>10

\* What a write that misses does next; the document that an upgrade leaves is not of the version
\* that the event named, or a later event names it.
LEMMA LosesServed ==
  ASSUME ReadsInv, ServedInv, NEW w \in Watcher, Loses(w) PROVE ServedInv'
<1> USE ServesFacts
<1>1. PICK old : old = watch[w] OBVIOUS
<1>2. PICK e : e = Named(w) OBVIOUS
<1>3. PICK doc, snap : doc = docs[e] /\ snap = old.snap OBVIOUS
<1>4. /\ old.pc = "rewriting" /\ UNCHANGED <<docs, log, lock, store>>
  BY <1>1 DEF Loses, documentVars
<1>5. old.ev \in 1..Len(log) /\ log[old.ev].doc = e /\ e \in Doc
  BY <1>1, <1>2, <1>4, EntryFacts DEF OKWatch, Named
<1>6. doc \in Document /\ snap.version \in Migration
  BY <1>1, <1>3, <1>4, <1>5 DEF DocsInv, OKWatch, Watch
<1>7. IsLastWrite(e, old.ev) => snap.version = log[old.ev].version BY <1>1, <1>3, <1>4, <1>5 DEF Fits
<1>8. \/ /\ e \in At(snap.version) /\ UNCHANGED <<status, excused>>
         /\ watch' = [watch EXCEPT ![w] = [old EXCEPT !.snap = doc, !.tries = old.tries + 1]]
      \/ e \in At(snap.version) /\ (HandsBack(w, snap.version) \/ LetsGo(w))
      \/ /\ watch' = [watch EXCEPT ![w] = [old EXCEPT !.pc = "reading", !.snap = Absent, !.tries = 0]]
         /\ UNCHANGED <<status, excused>>
      \/ e \notin At(snap.version) /\ Leaves(w)
  BY <1>1, <1>2, <1>3 DEF Loses, Set
<1>9. CASE /\ e \in At(snap.version) /\ UNCHANGED <<status, excused>>
           /\ watch' = [watch EXCEPT ![w] = [old EXCEPT !.snap = doc, !.tries = old.tries + 1]]
  <2>1. PICK ws, n : ws = [old EXCEPT !.snap = doc, !.tries = n] /\ n = old.tries + 1 OBVIOUS
  <2>2. /\ ws.pc = "rewriting" /\ ws.token = old.token /\ ws.pos = old.pos /\ ws.ev = old.ev
        /\ ws.snap = doc
    BY <1>1, <1>4, <2>1 DEF Watch
  <2>3. doc.version = snap.version BY <1>3, <1>9 DEF At
  <2>4. IsLastWrite(e, old.ev) => doc.version = log[old.ev].version BY <1>7, <2>3
  <2>5. watch' = [watch EXCEPT ![w] = ws] BY <1>9, <2>1
  <2> QED BY <1>1, <1>2, <1>4, <1>9, <2>2, <2>4, <2>5, UpgradeGoesOn
<1>10. CASE /\ watch' = [watch EXCEPT ![w] = [old EXCEPT !.pc = "reading", !.snap = Absent, !.tries = 0]]
            /\ UNCHANGED <<status, excused>>
  <2>1. PICK ws : ws = [old EXCEPT !.pc = "reading", !.snap = Absent, !.tries = 0] OBVIOUS
  <2>2. ws.pc = "reading" /\ ws.token = old.token /\ ws.pos = old.pos /\ ws.ev = old.ev
    BY <1>1, <2>1 DEF Watch
  <2>3. watch' = [watch EXCEPT ![w] = ws] BY <1>10, <2>1
  <2> QED BY <1>1, <1>4, <1>10, <2>2, <2>3, UpgradeGoesOn
<1>11. CASE e \in At(snap.version) /\ HandsBack(w, snap.version)
  <2>1. watch' = [watch EXCEPT ![w] = Served(watch[w])] /\ excused \subseteq excused'
        /\ (status' = status \/ \E ms : status' = Reopened(ms))
    BY <1>11 DEF HandsBack, Set
  <2>2. \A d \in Doc : Owed(d)' => Owed(d) BY <1>4, <2>1, OwedLess
  <2>3. docs[e].version = snap.version BY <1>11 DEF At
  <2>4. ~Owed(e)' BY <1>2, <1>4, <1>5, <1>6, <1>11, <2>3, HandedBack
  <2> QED BY <1>1, <1>2, <1>4, <2>1, <2>2, <2>4, EventServed
<1>12. CASE LetsGo(w)
  <2>1. watch' = [watch EXCEPT ![w] = Served(watch[w])] /\ excused' = excused \cup {e}
        /\ UNCHANGED status
    BY <1>2, <1>12 DEF LetsGo, Set
  <2>2. \A d \in Doc : Owed(d)' => Owed(d) BY <1>4, <2>1, OwedLess
  <2>3. ~Owed(e)' BY <2>1 DEF Owed
  <2> QED BY <1>1, <1>2, <1>4, <2>1, <2>2, <2>3, EventServed
<1>13. CASE e \notin At(snap.version) /\ Leaves(w)
  <2>1. watch' = [watch EXCEPT ![w] = Served(watch[w])] /\ UNCHANGED <<status, excused>>
    BY <1>13 DEF Leaves, Set
  <2>2. \A d \in Doc : Owed(d)' => Owed(d) BY <1>4, <2>1 DEF Owed, There
  <2>3. ASSUME Owed(e), IsLastWrite(e, old.ev) PROVE FALSE
    <3>1. There(e) /\ docs[e].version \in Migration BY <2>3 DEF Owed
    <3>2. docs[e].version < Top BY <3>1, WritesAssumption DEF Migration
    <3>3. log[old.ev].version = docs[e].version BY <1>5, <2>3, <3>1, <3>2 DEF ServedInv, LogTells
    <3> QED BY <1>5, <1>7, <1>13, <2>3, <3>1, <3>3 DEF At
  <2> QED BY <1>1, <1>2, <1>4, <2>1, <2>2, <2>3, EventServed
<1> QED BY <1>8, <1>9, <1>10, <1>11, <1>12, <1>13

LEMMA CannotServed ==
  ASSUME ReadsInv, ServedInv, NEW w \in Watcher, CannotUpgrade(w) PROVE ServedInv'
<1> USE ServesFacts
<1>1. PICK old : old = watch[w] OBVIOUS
<1>2. PICK e : e = Named(w) OBVIOUS
<1>3. PICK m : m = IF old.pc = "reading" THEN docs[e].version ELSE old.snap.version OBVIOUS
<1>4. /\ old.pc \in {"reading", "rewriting"} /\ UNCHANGED <<docs, log, lock, store>>
      /\ m \in old.edges /\ HandsBack(w, m)
  BY <1>1, <1>2, <1>3 DEF CannotUpgrade, documentVars
<1>5. old.ev \in 1..Len(log) /\ log[old.ev].doc = e /\ e \in Doc /\ m \in Migration
  BY <1>1, <1>2, <1>4, EntryFacts DEF OKWatch, Named, Watch
<1>6. watch' = [watch EXCEPT ![w] = Served(watch[w])] /\ excused \subseteq excused'
      /\ (status' = status \/ \E ms : status' = Reopened(ms))
  BY <1>4 DEF HandsBack, Set
<1>7. \A d \in Doc : Owed(d)' => Owed(d) BY <1>4, <1>6, OwedLess
<1>8. ASSUME Owed(e), IsLastWrite(e, old.ev) PROVE docs[e].version = m
  <2>1. CASE old.pc = "reading" BY <1>3, <2>1
  <2>2. CASE old.pc = "rewriting"
    <3>1. old.snap.version = log[old.ev].version BY <1>1, <1>5, <1>8, <2>2 DEF Fits
    <3>2. There(e) /\ docs[e].version < Top
      BY <1>8, WritesAssumption DEF Owed, Migration
    <3>3. log[old.ev].version = docs[e].version BY <1>5, <1>8, <3>2 DEF ServedInv, LogTells
    <3> QED BY <1>3, <2>2, <3>1, <3>3
  <2> QED BY <1>4, <2>1, <2>2
<1>9. ASSUME Owed(e), IsLastWrite(e, old.ev) PROVE ~Owed(e)'
  BY <1>2, <1>4, <1>5, <1>8, <1>9, HandedBack
<1> QED BY <1>1, <1>2, <1>4, <1>6, <1>7, <1>9, EventServed

\* A write takes back what was said of its own document, and of no other one.
LEMMA WritesFacts ==
  ASSUME DocsInv, NEW d \in Doc, DocStep(d)
  PROVE  log' = log \/ (Len(log') = Len(log) + 1 /\ log'[Len(log) + 1].doc = d)
<1>1. CASE log' = log BY <1>1
<1>2. CASE log' = Append(log, [doc |-> d, version |-> docs'[d].version])
  <2>1. docs'[d] \in Document BY DEF DocStep
  <2>2. [doc |-> d, version |-> docs'[d].version] \in Entry BY <2>1 DEF Entry, Document
  <2> QED BY <1>2, <2>2, AppendFacts DEF DocsInv
<1> QED BY <1>1, <1>2 DEF DocStep

LEMMA RewritesServed ==
  ASSUME ReadsInv, ServedInv, NEW w \in Watcher, Rewrites(w) PROVE ServedInv'
<1> USE ServesFacts
<1>1. PICK d \in Doc : d = Named(w) /\ DocStep(d) BY WatcherRewriteStep DEF ReadsInv
<1>2. PICK old : old = watch[w] OBVIOUS
<1>3. PICK ws : ws = [old EXCEPT !.pc = "reading", !.snap = Absent, !.tries = 0] OBVIOUS
<1>4. /\ old.pc = "rewriting" /\ watch' = [watch EXCEPT ![w] = ws]
      /\ UNCHANGED <<status, lock, store>> /\ Writes(d)
  BY <1>1, <1>2, <1>3 DEF Rewrites, Set
<1>5. ws.pc = "reading" /\ ws.token = old.token /\ ws.pos = old.pos /\ ws.ev = old.ev
  BY <1>2, <1>3 DEF Watch
<1>6. \A e \in Doc : e \in excused \ excused' => log' # log /\ log'[Len(log) + 1].doc = e
  BY <1>1, <1>4, WritesFacts DEF Writes
<1>7. ASSUME NEW v \in Watcher
      PROVE  \/ watch'[v] = watch[v]
             \/ /\ watch[v].pc = "rewriting" /\ watch'[v].pc = "reading"
                /\ watch'[v].ev = watch[v].ev /\ watch'[v].pos = watch[v].pos
                /\ watch'[v].token = watch[v].token
  BY <1>2, <1>4, <1>5
<1>8. DocsGo BY <1>1 DEF DocsGo
<1> QED BY <1>4, <1>6, <1>7, <1>8, DocumentsServed

\* What pods and lanes do to documents.
LEMMA OthersServed ==
  ASSUME ReadsInv, ServedInv,
         \/ \E c \in Client : Application(c)
         \/ \E d \in Doc : Removes(d)
         \/ \E m \in Migration, d \in Doc : LaneRewrites(m, d)
  PROVE  ServedInv'
<1>1. DocsInv /\ ClientsInv BY DEF ReadsInv
<1>2. UNCHANGED <<status, watch, lock, store>>
  BY DEF Application, Removes, LaneRewrites, watcherVars
<1>3. ASSUME DocsGo,
             \A e \in Doc : e \in excused \ excused' => log' # log /\ log'[Len(log) + 1].doc = e
      PROVE  ServedInv'
  BY <1>2, <1>3, DocumentsServed
<1>4. ASSUME NEW c \in Client, Application(c) PROVE ServedInv'
  <2>1. DocsGo BY <1>1, <1>4, ClientStep DEF Application
  <2>2. excused' = excused \ {log'[i].doc : i \in (Len(log) + 1)..Len(log')}
    BY <1>4 DEF Application
  <2>3. log' = log \/ Len(log') = Len(log) + 1 BY <1>1, <2>1, WritesFacts DEF DocsGo
  <2>4. Len(log) \in Nat BY <1>1 DEF DocsInv
  <2>5. ASSUME NEW e \in Doc, e \in excused \ excused'
        PROVE  log' # log /\ log'[Len(log) + 1].doc = e
    <3>1. PICK i \in (Len(log) + 1)..Len(log') : log'[i].doc = e BY <2>2, <2>5
    <3>2. log' # log /\ i = Len(log) + 1 BY <2>3, <2>4, <3>1
    <3> QED BY <3>1, <3>2
  <2> QED BY <1>3, <2>1, <2>5
<1>5. ASSUME NEW d \in Doc, Removes(d) PROVE ServedInv'
  <2>1. DocsGo /\ UNCHANGED excused BY <1>1, <1>5, DeleteStep DEF Removes, DocsGo
  <2> QED BY <1>3, <2>1
<1>6. ASSUME NEW m \in Migration, NEW d \in Doc, LaneRewrites(m, d) PROVE ServedInv'
  <2>1. DocStep(d) /\ Writes(d) BY <1>1, <1>6, LaneStep DEF LaneRewrites
  <2>2. \A e \in Doc : e \in excused \ excused' => log' # log /\ log'[Len(log) + 1].doc = e
    BY <1>1, <2>1, WritesFacts DEF Writes
  <2> QED BY <1>3, <2>1, <2>2 DEF DocsGo
<1> QED BY <1>4, <1>5, <1>6

\* A count finds nothing of its migration's version, and a completion follows a count.
LEMMA StatusServed ==
  ASSUME ReadsInv, ServedInv,
         (\E m \in Migration : Counts(m) \/ Completes(m)) \/ Reverts \/ Truncates \/ UNCHANGED vars
  PROVE  ServedInv'
<1>1. UNCHANGED <<docs, log, watch, lock, store, excused>>
  BY DEF Counts, Completes, Reverts, Truncates, vars, documentVars, watcherVars
<1>2. LeadsInv /\ LogTells /\ OwedAhead /\ status \in [Migration -> Status]
  BY DEF ServedInv, ReadsInv, Status
<1>3. ASSUME NEW d \in Doc, Owed(d)' PROVE Owed(d)
  <2> DEFINE v == docs[d].version
  <2>1. There(d) /\ d \notin excused /\ v \in Migration /\ status'[v] \in {"counted", "completed"}
    BY <1>1, <1>3 DEF Owed, There
  <2>2. d \in At(v) BY <2>1 DEF At
  <2>3. status[v] \in {"counted", "completed"}
    <3>1. ASSUME NEW m \in Migration, Counts(m) PROVE status[v] \in {"counted", "completed"}
      <4>1. m # v BY <2>2, <3>1 DEF Counts
      <4> QED BY <1>2, <2>1, <3>1, <4>1 DEF Counts
    <3>2. ASSUME NEW m \in Migration, Completes(m) PROVE status[v] \in {"counted", "completed"}
      BY <1>2, <2>1, <3>2 DEF Completes
    <3>3. CASE Reverts
      <4>1. Top - 1 = v => status'[v] = "reverting" BY <1>2, <2>1, <3>3 DEF Reverts
      <4>2. Top - 1 # v => status'[v] = status[v] BY <1>2, <2>1, <3>3 DEF Reverts
      <4> QED BY <2>1, <4>1, <4>2
    <3>4. CASE Truncates \/ UNCHANGED vars BY <2>1, <3>4 DEF Truncates, vars
    <3> QED BY <3>1, <3>2, <3>3, <3>4
  <2> QED BY <2>1, <2>3 DEF Owed
<1>4. LeadsInv' BY <1>1, <1>2 DEF LeadsInv, Steady, Fits, IsLastWrite
<1>5. LogTells' BY <1>1, <1>2 DEF LogTells, There, IsLastWrite
<1>6. OwedAhead' BY <1>1, <1>2, <1>3 DEF OwedAhead, Ahead, IsLastWrite
<1> QED BY <1>4, <1>5, <1>6 DEF ServedInv

\* What goes wrong leaves the record where the stream was, or where it is.
LEMMA FailServed ==
  ASSUME ReadsInv, ServedInv, NEW w \in Watcher,
         Breaks(w) \/ Notices(w) \/ Crashes(w) \/ Expires(w) \/ LosesLock(w)
  PROVE  ServedInv'
<1> USE ServesFacts
<1>1. PICK old : old = watch[w] OBVIOUS
<1>2. UNCHANGED <<docs, log, status, excused>>
  BY DEF Breaks, Notices, Crashes, Expires, LosesLock, documentVars
<1>3. \A d \in Doc : Owed(d)' => Owed(d) BY <1>2 DEF Owed, There
<1>4. old.pos \in Nat /\ old.pos <= Len(log) /\ old.token \in Nat \cup {Unset} /\ old.ev \in Nat
      /\ old.token <= Len(log)
  BY <1>1 DEF Watch, Steady
<1>5. ASSUME NEW d \in Doc, NEW i \in 1..Len(log), Owed(d), IsLastWrite(d, i), store.leader = w,
             old.pc \in {"streaming", "reading", "rewriting"}
      PROVE  store.token < i /\ old.token < i
  <2>1. store.token < i /\ Ahead(old, i) BY <1>1, <1>5, LeaderFacts
  <2>2. old.pos < i
    <3>1. CASE old.pc = "streaming" BY <2>1, <3>1 DEF Ahead
    <3>2. CASE old.pc \in {"reading", "rewriting"}
      <4>1. old.ev <= i BY <2>1, <3>2 DEF Ahead
      <4>2. old.pos < old.ev BY <1>1, <3>2 DEF OKWatch
      <4> QED BY <1>4, <4>1, <4>2
    <3> QED BY <1>5, <3>1, <3>2
  <2>3. old.token \in {Unset, old.pos} BY <1>1, <1>5 DEF Steady
  <2> QED BY <2>1, <2>2, <2>3 DEF Unset
<1>6. ASSUME store' \in {store, SavedKnown(w, old.token)}
      PROVE  /\ store'.token <= Len(log) /\ store'.leader = store.leader
             /\ store' = store \/ (store'.leader = w /\ store'.token = old.token)
  BY <1>4, <1>6 DEF SavedKnown, Saved
<1>7. CASE Breaks(w)
  <2>1. PICK t : t = old.token OBVIOUS
  <2>2. PICK ws : ws = [IdleWatch EXCEPT !.pc = "looking", !.token = t] OBVIOUS
  <2>3. /\ watch' = [watch EXCEPT ![w] = ws] /\ UNCHANGED lock /\ store' = SavedKnown(w, old.token)
        /\ old.pc \in {"streaming", "reading", "rewriting"}
    BY <1>1, <1>7, <2>1, <2>2 DEF Breaks, Set
  <2>4. Steady(ws) /\ Fits(ws) /\ \A i : t < i => Ahead(ws, i) BY <1>4, <2>1, <2>2, StartsServed
  <2>5. /\ store'.token <= Len(log) /\ store'.leader = store.leader
        /\ store' = store \/ (store'.leader = w /\ store'.token = old.token)
    BY <1>6, <2>3
  <2>6. ASSUME NEW d \in Doc, NEW i \in 1..Len(log), Owed(d), IsLastWrite(d, i), store'.leader = w
        PROVE  store'.token < i /\ Ahead(ws, i)
    BY <1>5, <2>1, <2>3, <2>4, <2>5, <2>6
  <2>7. lock' # Nobody => store'.leader = lock' BY <2>3, <2>5
  <2> QED BY <1>2, <1>3, <2>3, <2>4, <2>5, <2>6, <2>7, WatcherServed
<1>8. CASE Notices(w) \/ Crashes(w)
  <2>1. PICK ws : ws = IdleWatch OBVIOUS
  <2>2. watch' = [watch EXCEPT ![w] = ws] /\ lock' \in {lock, Nobody}
    BY <1>8, <2>1 DEF Notices, Crashes, Set
  <2>3. store' = store \/ (old.pc = "streaming" /\ store' = SavedKnown(w, old.token))
    BY <1>1, <1>8 DEF Notices, Crashes
  <2>4. Steady(ws) /\ Fits(ws) BY <2>1, StartsServed
  <2>5. \A i : Ahead(ws, i) BY <2>1 DEF Ahead, IdleWatch
  <2>6. /\ store'.token <= Len(log) /\ store'.leader = store.leader
        /\ store' = store \/ (store'.leader = w /\ store'.token = old.token)
    BY <1>6, <2>3
  <2>7. ASSUME NEW d \in Doc, NEW i \in 1..Len(log), Owed(d), IsLastWrite(d, i), store'.leader = w
        PROVE  store'.token < i
    <3>1. CASE store' = store BY <2>7, <3>1, LeaderFacts
    <3>2. CASE old.pc = "streaming" /\ store' # store BY <1>5, <2>6, <2>7, <3>2
    <3> QED BY <2>3, <3>1, <3>2
  <2>8. lock' \in Watcher \cup {Nobody} /\ (lock' # Nobody => store'.leader = lock')
    BY <2>2, <2>6
  <2> QED BY <1>2, <1>3, <2>2, <2>4, <2>5, <2>6, <2>7, <2>8, WatcherServed
<1>9. CASE Expires(w) \/ LosesLock(w)
  <2>1. UNCHANGED <<watch, store>> /\ lock' = Nobody BY <1>9 DEF Expires, LosesLock
  <2>2. watch' = [watch EXCEPT ![w] = old] BY <1>1, <2>1
  <2> QED BY <1>1, <1>2, <1>3, <2>1, <2>2, WatcherServed, LeaderFacts
<1> QED BY <1>7, <1>8, <1>9

-----------------------------------------------------------------------------
(* The watcher serves the drift.                                           *)

LEMMA InitServed == Init => ServedInv
<1> SUFFICES ASSUME Init PROVE ServedInv OBVIOUS
<1>1. log = <<>> /\ Len(log) = 0 BY DEF Init, DocumentsInit
<1>2. DocsInv BY InitReads DEF ReadsInv
<1>3. lock = Nobody /\ store = [leader |-> Nobody, token |-> Unset] BY DEF Init
<1>4. ASSUME NEW w \in Watcher PROVE Steady(watch[w]) /\ Fits(watch[w])
  <2>1. watch[w] = IdleWatch BY DEF Init
  <2>2. Unset \in Nat \cup {Unset} /\ Unset <= Len(log) BY <1>1 DEF Unset
  <2> QED BY <1>2, <2>1, <2>2, StartsServed
<1>5. LeadsInv BY <1>1, <1>3, <1>4 DEF LeadsInv, Unset
<1>6. LogTells /\ OwedAhead BY <1>1 DEF LogTells, OwedAhead
<1> QED BY <1>5, <1>6 DEF ServedInv

LEMMA ServedNext ==
  ASSUME ReadsInv, ServedInv, [Next]_vars PROVE ServedInv'
<1>1. CASE UNCHANGED vars BY <1>1, StatusServed
<1>2. CASE Reverts \/ Truncates BY <1>2, StatusServed
<1>3. CASE \/ \E c \in Client : Application(c)
           \/ \E d \in Doc : Removes(d)
           \/ \E m \in Migration, d \in Doc : LaneRewrites(m, d)
  BY <1>3, OthersServed
<1>4. CASE \E m \in Migration : Counts(m) \/ Completes(m) BY <1>4, StatusServed
<1>5. ASSUME NEW w \in Watcher, WatcherActs(w) \/ Idles(w, FALSE) \/ Saves(w) \/ WatcherFails(w)
      PROVE  ServedInv'
  <2>1. CASE Leads(w) \/ Looks(w) \/ Opens(w) BY <2>1, LeadServed
  <2>2. CASE Probes(w) \/ ProbeFails(w) BY <2>2, ProbeServed
  <2>3. CASE NextEvent(w) \/ Idles(w, TRUE) \/ Idles(w, FALSE) \/ Saves(w) \/ Sheds(w)
    BY <2>3, StreamServed
  <2>4. CASE Reads(w) BY <2>4, ReadsServed
  <2>5. CASE Rewrites(w) BY <2>5, RewritesServed
  <2>6. CASE Loses(w) BY <2>6, LosesServed
  <2>7. CASE CannotUpgrade(w) BY <2>7, CannotServed
  <2>8. CASE Breaks(w) \/ Notices(w) \/ Crashes(w) \/ Expires(w) \/ LosesLock(w)
    BY <2>8, FailServed
  <2> QED BY <1>5, <2>1, <2>2, <2>3, <2>4, <2>5, <2>6, <2>7, <2>8 DEF WatcherActs, WatcherFails
<1> QED BY <1>1, <1>2, <1>3, <1>4, <1>5 DEF Next, LaneActs

\* Every old-shape document that no lane and no report takes care of lies ahead of the position
\* on record and of the leader's, and the log still tells its shape.
THEOREM ServedInvariant == Spec => []ServedInv
<1>1. Init => ServedInv BY InitServed
<1>2. ReadsInv /\ ServedInv /\ [Next]_vars => ServedInv' BY ServedNext
<1> QED BY <1>1, <1>2, ReadsInvariant, PTL DEF Spec

\* Whatever crashes, breaks, loses the lock or falls off the oplog, the watcher never leaves an
\* old-shape document of a completed migration behind that it neither upgraded, handed back nor
\* reported (lead, serve and upgrade, background-watch.js).
THEOREM WatcherServes == Spec => []DriftServed
<1>1. ReadsInv /\ ServedInv => DriftServed
  <2> SUFFICES ASSUME ReadsInv, ServedInv, NEW d \in Doc, NEW i \in 1..Len(log),
                      Drifted(d), IsLastWrite(d, i)
               PROVE  /\ store.token < i
                      /\ lock # Nobody /\ watch[lock].pc # "idle" => Meets(lock, i)
    BY DEF DriftServed
  <2>1. Owed(d) BY DEF Drifted, Owed, Completed
  <2>2. store.token < i /\ (store.leader \in Watcher => Ahead(watch[store.leader], i))
    BY <2>1 DEF ServedInv, OwedAhead
  <2>3. ASSUME lock # Nobody, watch[lock].pc # "idle" PROVE Meets(lock, i)
    <3>1. lock \in Watcher /\ store.leader = lock BY <2>3 DEF ServedInv, LeadsInv
    <3>2. PICK ws : ws = watch[lock] OBVIOUS
    <3>3. OKWatch(ws) /\ ws \in Watch /\ Ahead(ws, i) BY <2>2, <3>1, <3>2, ServesFacts
    <3>4. ASSUME ws.pc \in {"reading", "rewriting"} PROVE ws.ev = i \/ ws.pos < i
      <4>1. ws.ev <= i /\ ws.pos < ws.ev /\ ws.pos \in Nat /\ ws.ev \in Nat
        BY <3>3, <3>4 DEF OKWatch, Ahead, Watch
      <4> QED BY <4>1
    <3>5. ws.pc \in {"looking", "opening", "probing", "streaming", "reading", "rewriting"}
      BY <2>3, <3>2, <3>3 DEF Watch
    <3> QED BY <3>2, <3>3, <3>4, <3>5 DEF Meets, Ahead
  <2> QED BY <2>2, <2>3
<1> QED BY <1>1, ReadsInvariant, ServedInvariant, PTL
=============================================================================
