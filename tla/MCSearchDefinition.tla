------------------------- MODULE MCSearchDefinition -------------------------
(* Small search definitions, on which TLC compares SearchDefinition with what it is for: text *)
(* fields, one of them in a document, and vector fields of all kinds.                         *)
EXTENDS Integers, FiniteSets, TLC

SDDefaults ==
  [search       |-> [analyzer |-> "std"],
   vectorSearch |-> [stored |-> FALSE],
   string       |-> [store |-> TRUE],
   document     |-> [dynamic |-> FALSE],
   vector       |-> [indexingMethod |-> "hnsw"],
   autoEmbed    |-> [indexingMethod |-> "hnsw", size |-> 1]]

S == INSTANCE SearchDefinition
       WITH Defaults <- SDDefaults, Nesting <- {"search", "document"}, Fixed <- {"model", "size"}

SDOptional(option, values) == {S!NoOptions} \cup {option :> v : v \in values}
SDMaps(names, sets) == UNION {[chosen -> sets] : chosen \in SUBSET names}
SDOneEach(nodes) == {s \in SUBSET nodes : s # {} /\ \A x, y \in s : x # y => x.type # y.type}

SDStrings == {S!Node("string", o, FALSE, S!Nothing) :
                o \in {S!NoOptions, "store" :> TRUE, "store" :> FALSE @@ "norms" :> "omit"}}
SDPlain == {S!Node("string", o, FALSE, S!Nothing) : o \in SDOptional("store", {FALSE})}
SDDocuments == {S!Node("document", o, TRUE, map) :
                  o \in SDOptional("dynamic", {TRUE}), map \in SDMaps({"b"}, SDOneEach(SDPlain))}
                 \cup {S!Node("document", S!NoOptions, FALSE, S!Nothing)}
SDSearches == {S!Node("search", o @@ p, TRUE, map) :
                 o \in SDOptional("analyzer", {"en"}), p \in SDOptional("searchAnalyzer", {"en"}),
                 map \in SDMaps({"a"}, SDOneEach(SDStrings \cup SDDocuments))}

SDEmbeds == {S!Node("autoEmbed", o @@ p, FALSE, S!Nothing) :
               o \in SDOptional("size", {1, 2}), p \in SDOptional("model", {"m"})}
SDVectors == {S!Node("vector", o, FALSE, S!Nothing) :
                o \in SDOptional("indexingMethod", {"flat"}) \cup {"maxEdges" :> 32}}
SDFilters == {S!Node("filter", S!NoOptions, FALSE, S!Nothing)}
SDIndexes == {d \in {S!Node("vectorSearch", S!NoOptions, TRUE, map) :
                       map \in SDMaps({"p"}, SDOneEach(SDEmbeds \cup SDFilters))
                                 \cup SDMaps({"p"}, SDOneEach(SDVectors \cup SDFilters))
                                 \cup SDMaps({"p", "q"}, {{e} : e \in SDEmbeds \cup SDVectors})} :
                S!WellFormed(d)}

\* How a server may report a definition: defaults spelled out or not, a new option or not.
RECURSIVE SDReported(_, _, _)
SDReported(m, spelled, added) ==
  LET e == IF spelled THEN [S!Effective(m) EXCEPT !.nested = m.nested] ELSE m
  IN  [e EXCEPT !.options = @ @@ (IF added THEN "new" :> 1 ELSE S!NoOptions),
                !.nested = [n \in DOMAIN @ |-> {SDReported(x, spelled, added) : x \in @[n]}]]
SDReports(d) == {SDReported(d, spelled, added) : spelled \in BOOLEAN, added \in BOOLEAN}

\* An index created from a declaration compares as unchanged, however the server reports it.
ASSUME CreatedUnchanged ==
  \A d \in SDSearches \cup SDIndexes : \A live \in SDReports(d) : S!Compare(d, live).diffs = {}

\* And nothing else does: unchanged means that the live index does what was declared.
ASSUME UnchangedMeansSame ==
  \A kind \in {SDSearches, SDIndexes} : \A d, other \in kind : \A live \in SDReports(other) :
    S!Compare(d, live).diffs = {} <=> S!SameMeaning(d, live)

\* What an update is allowed to touch: no vector field becomes an automated embedding, and
\* none of those changes its kind, its path or what its vectors were made with.
ASSUME UpdatesKeepEmbeddings ==
  \A d, live \in SDIndexes :
    LET c == S!Compare(d, live)
        kept == /\ S!PathsOf(live, {"vector"}) \cap S!PathsOf(d, {"autoEmbed"}) = {}
                /\ \A p \in S!PathsOf(live, {"autoEmbed"}) :
                     \E w \in S!FieldsAt(d, p) : \E h \in S!FieldsAt(live, p) :
                       /\ w.type = "autoEmbed" /\ h.type = "autoEmbed"
                       /\ \A o \in {"model", "size"} :
                            o \in DOMAIN S!Filled(w) => /\ o \in DOMAIN S!Filled(h)
                                                        /\ S!Filled(w)[o] = S!Filled(h)[o]
    IN  c.diffs # {} /\ c.immutable = {} => kept

\* An index is ready only if it can be queried with its newest definition, and with one
\* that is newer than what was there before the update.
ASSUME ReadyIsNewest ==
  \A raw \in [status : {"none", "READY", "BUILDING", "STALE", "FAILED", "DELETING"},
              queryable : BOOLEAN, version : 0..2,
              details : SUBSET [staged : BOOLEAN, version : 1..2]], since \in 0..2 :
    S!Ready(raw, since) =>
      /\ raw.queryable /\ ~\E detail \in raw.details : detail.staged
      /\ raw.version # 0 => raw.version > since /\ \A detail \in raw.details : detail.version >= raw.version
=============================================================================
