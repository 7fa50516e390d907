---------------------------- MODULE ConvergePlan ----------------------------
(***************************************************************************)
(* The converge planner (src/src/core/converge-plan.js): one declared      *)
(* collection against its live state, as rows (what will happen) and steps *)
(* (the server commands that carry it out, in their order).                *)
(*                                                                         *)
(* An index is its name, its key -- which stands for key, partial filter   *)
(* and collation together, what the server tells indexes apart by --       *)
(* whether it is unique, and its TTL (0: none). A validator is the version *)
(* floor that it enforces, 0 when there is none. A search index is its     *)
(* name, its type and its definition. Rows that change nothing (unchanged, *)
(* keep) are left out.                                                     *)
(***************************************************************************)
EXTENDS Integers, Sequences, SequencesExt, FiniteSets

CONSTANTS Text,         \* the keys of text indexes, of which a collection has at most one
          CanConvert,   \* the server makes an index unique in place (MongoDB 7.0)
          CanAddTtl,    \* the server adds a TTL in place (MongoDB 5.1)
          Unset         \* what a definition leaves to the options, or to nobody

IsIndex(i) == DOMAIN i = {"name", "key", "unique", "ttl"}
IsSearchIndex(i) ==
  /\ DOMAIN i = {"name", "type", "version", "body", "served", "status"}
  /\ i.version \in Nat
OnePerName(indexes) == \A i, j \in indexes : i.name = j.name => i = j
IsSequence(s) == s \in Seq(ToSet(s))

Conflict == "conflict"
Row(target, name, action) == [target |-> target, name |-> name, action |-> action]

\* What a plan "would do", and what it would take away (CHANGE_ACTIONS, isDestructive).
IsChange(row) == row.action # Conflict
IsDestructive(row) ==
  \/ row.target = "index" /\ row.action \in {"drop", "recreate"}
  \/ row.target = "search" /\ row.action = "drop"

\* A step names the indexes it drops and those it creates or changes, or its search indexes.
Step(op, drops, creates) == [op |-> op, drops |-> drops, creates |-> creates, on |-> {}]
SearchStep(op, names) == [op |-> op, drops |-> {}, creates |-> <<>>, on |-> names]

-----------------------------------------------------------------------------
(* Comparing indexes (src/src/core/index-spec.js).                         *)

\* The server takes the two for one index, or for a second text index.
Collides(d, i) == d.key = i.key \/ {d.key, i.key} \subseteq Text

Diffs(d, i) == {option \in {"key", "unique", "ttl"} : d[option] # i[option]}

InPlace(d, i) ==
     (IF CanConvert /\ d.unique THEN {"unique"} ELSE {})
  \cup (IF d.ttl # 0 /\ (i.ttl # 0 \/ CanAddTtl) THEN {"ttl"} ELSE {})

NeedsRebuild(d, i) == ~(Diffs(d, i) \subseteq InPlace(d, i))

\* A definition never declares two indexes that the server would take for one.
WellDeclared(indexes) ==
  \A j, k \in DOMAIN indexes :
    j # k => indexes[j].name # indexes[k].name /\ ~Collides(indexes[j], indexes[k])

-----------------------------------------------------------------------------
(* The indexes of one collection. `p` holds what planning them needs: the  *)
(* declared sequence, the live set, prune, rebuildUnique and the keys      *)
(* known to back the shard key.                                            *)

Current(p, d) == {i \in p.live : i.name = d.name}
Undeclared(p) == {i \in p.live : \A k \in DOMAIN p.declared : p.declared[k].name # i.name}

\* Declared, and neither there as declared nor changed in place: created or rebuilt.
Pending(p, d) == \A i \in Current(p, d) : NeedsRebuild(d, i)

\* The undeclared indexes that the server would refuse a pending declaration for.
Blockers(p, d) == IF Pending(p, d) THEN {i \in Undeclared(p) : Collides(d, i)} ELSE {}

\* The index exists as declared, only under another name.
Identical(p, d) ==
  /\ Current(p, d) = {} /\ Cardinality(Blockers(p, d)) = 1
  /\ \A i \in Blockers(p, d) : Diffs(d, i) = {}

DropsFor(p, d) == Current(p, d) \cup (IF p.prune THEN Blockers(p, d) ELSE {})

DropsUnique(d, drops) == d.unique /\ \E i \in drops : i.unique

Verdict(p, d) ==
  IF ~Pending(p, d)
  THEN IF \A i \in Current(p, d) : Diffs(d, i) = {} THEN "unchanged" ELSE "modify"
  ELSE IF Blockers(p, d) # {} /\ ~p.prune
  THEN IF Identical(p, d) THEN "unchanged" ELSE Conflict
  ELSE IF DropsFor(p, d) = {} THEN "create"
  ELSE IF ~p.rebuildUnique /\ DropsUnique(d, DropsFor(p, d)) THEN Conflict
  ELSE "recreate"

\* The declarations at the positions K, in their order.
InOrder(K) ==
  CHOOSE s \in [1..Cardinality(K) -> K] :
    \A i, j \in 1..Cardinality(K) : i < j => s[i] < s[j]
DeclaredAt(p, K) == [n \in 1..Cardinality(K) |-> p.declared[InOrder(K)[n]]]

WithVerdict(p, verdict) == {k \in DOMAIN p.declared : Verdict(p, p.declared[k]) = verdict}

\* Whether `d` waits for an index that the rebuild of `e` drops.
WaitsFor(p, d, e) ==
  /\ d # e /\ Verdict(p, d) \in {"create", "recreate"} /\ Verdict(p, e) = "recreate"
  /\ \E i \in DropsFor(p, e) : Collides(d, i)

Entangled(p, d) ==
  \E k \in DOMAIN p.declared : WaitsFor(p, d, p.declared[k]) \/ WaitsFor(p, p.declared[k], d)

InGroup(p, verdict) == {k \in WithVerdict(p, verdict) : Entangled(p, p.declared[k])}
Apart(p, verdict) == DeclaredAt(p, WithVerdict(p, verdict) \ InGroup(p, verdict))

\* Entangled rebuilds run as one group: every drop, then every create.
Group(p) ==
  LET rebuilt == InGroup(p, "recreate")
  IN IF rebuilt = {} THEN <<>>
     ELSE <<Step("rebuild", UNION {DropsFor(p, p.declared[k]) : k \in rebuilt},
                 DeclaredAt(p, rebuilt) \o DeclaredAt(p, InGroup(p, "create")))>>

Rebuilds(p) ==
  LET apart == Apart(p, "recreate")
  IN [k \in DOMAIN apart |-> Step("rebuild", DropsFor(p, apart[k]), <<apart[k]>>)]

\* The creates that wait for nobody are one createIndexes.
Creates(p) ==
  LET free == Apart(p, "create")
  IN IF free = <<>> THEN <<>> ELSE <<Step("createIndexes", {}, free)>>

Modifies(p) ==
  LET changed == DeclaredAt(p, WithVerdict(p, "modify"))
      Op(d) == IF \E i \in Current(p, d) : d.unique # i.unique THEN "convertUnique" ELSE "collMod"
  IN [k \in DOMAIN changed |-> Step(Op(changed[k]), {}, <<changed[k]>>)]

\* The undeclared ones that block nobody: dropped last with prune, but for the shard key's.
Extras(p) ==
  IF ~p.prune \/ p.partial THEN {}
  ELSE {i \in Undeclared(p) : /\ i.key \notin p.backing
                              /\ \A k \in DOMAIN p.declared : i \notin Blockers(p, p.declared[k])}

PlanIndexes(p) ==
  [rows  |-> {Row("index", d.name, Verdict(p, d)) :
                d \in {e \in ToSet(p.declared) : Verdict(p, e) # "unchanged"}}
             \cup {Row("index", i.name, "drop") : i \in Extras(p)},
   steps |-> Creates(p) \o Modifies(p) \o Rebuilds(p) \o Group(p)
             \o [k \in DOMAIN SetToSeq(Extras(p)) |->
                   Step("dropIndex", {SetToSeq(Extras(p))[k]}, <<>>)]]

-----------------------------------------------------------------------------
(* Search indexes: created or updated in place, never rebuilt.             *)

SearchVerdict(d, listed) ==
  LET found == {i \in listed : i.name = d.name}
  IN IF found = {} THEN "create"
     ELSE LET i == CHOOSE f \in found : TRUE
          IN IF i.status = "removing" \/ i.type # d.type THEN Conflict
             ELSE IF i.body # d.body THEN "modify" ELSE "unchanged"

PlanSearch(declared, listed, prune) ==
  LET Judged(verdict) == {d \in declared : SearchVerdict(d, listed) = verdict}
      extras == IF prune THEN {i \in listed : /\ i.status # "removing"
                                              /\ \A d \in declared : d.name # i.name}
                ELSE {}
      Each(op, some) == [k \in DOMAIN SetToSeq(some) |-> SearchStep(op, {SetToSeq(some)[k].name})]
      created == {d.name : d \in Judged("create")}
  IN [rows   |-> {Row("search", d.name, SearchVerdict(d, listed)) :
                    d \in declared \ Judged("unchanged")}
                 \cup {Row("search", i.name, "drop") : i \in extras},
      submit |-> (IF created = {} THEN <<>> ELSE <<SearchStep("createSearch", created)>>)
                 \o Each("updateSearch", Judged("modify")),
      drops  |-> Each("dropSearch", extras)]

-----------------------------------------------------------------------------
(* A collection: its validator, its indexes and its search indexes.        *)

\* Only a floor that rises is checked against the documents (versionFloorToCheck).
FloorRises(def, live) == def.rules # Unset /\ def.rules > live.rules

FloorConflict(def, live) == FloorRises(def, live) /\ live.below

PlanValidator(def, live) ==
  IF def.rules = Unset \/ def.rules = live.rules THEN [rows |-> {}, steps |-> <<>>]
  ELSE IF FloorConflict(def, live)
       THEN [rows |-> {Row("validator", Unset, Conflict)}, steps |-> <<>>]
       ELSE [rows |-> {Row("validator", Unset, IF def.rules = 0 THEN "drop" ELSE "modify")},
             steps |-> <<Step("validator", {}, <<>>)>>]

\* A collection that does not exist is created when there is anything to put on it.
PlanMissing(def) ==
  LET search  == PlanSearch(def.search, {}, FALSE)
      wanted  == def.rules \notin {Unset, 0} \/ def.indexes # <<>> \/ def.search # {}
  IN [rows  |-> (IF wanted THEN {Row("collection", Unset, "create")} ELSE {})
                \cup {Row("index", d.name, "create") : d \in ToSet(def.indexes)} \cup search.rows,
      steps |-> (IF wanted THEN <<Step("createCollection", {}, <<>>)>> ELSE <<>>)
                \o search.submit
                \o (IF def.indexes = <<>> THEN <<>>
                    ELSE <<Step("createIndexes", {}, def.indexes)>>)]

PruneFor(def, options) == IF def.prune = Unset THEN options.prune ELSE def.prune

\* What converge.js plans from a collection's live state, with the options of the run.
PlanCollection(def, live, options) ==
  IF ~live.exists THEN PlanMissing(def)
  ELSE LET prune     == PruneFor(def, options)
           validator == PlanValidator(def, live)
           indexes   == PlanIndexes([declared |-> def.indexes, live |-> live.indexes,
                                     prune |-> prune /\ ~def.partial, partial |-> def.partial,
                                     rebuildUnique |-> options.rebuildUnique,
                                     backing |-> options.backing])
           search    == PlanSearch(def.search, live.listed, prune)
       IN [rows  |-> validator.rows \cup indexes.rows \cup search.rows,
           steps |-> validator.steps \o search.submit \o indexes.steps \o search.drops]

Conflicts(plan) == {row \in plan.rows : row.action = Conflict}
Destructive(plan) == {row \in plan.rows : IsDestructive(row)}
=============================================================================
