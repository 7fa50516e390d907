-------------------------- MODULE SearchDefinition --------------------------
(***************************************************************************)
(* How converge tells whether a search index is what a collection declares *)
(* (src/core/search-index-spec.js).  A definition is a document that the   *)
(* server adds to: it reports the defaults of what was left out, and, in   *)
(* newer versions, options that migronaut has never heard of.  Neither may *)
(* make every converge "update" the index, and nothing that was declared   *)
(* may be missed.                                                          *)
(*                                                                         *)
(* A definition is a node: a type, the options that are spelled out, and   *)
(* nested mappings.  The root of a search index stands for the definition  *)
(* and its `mappings`, whose fields are nested under their names; in a     *)
(* vector index the fields are nested under their paths.  One name may be  *)
(* mapped as several types, once each: a set of nodes.                     *)
(***************************************************************************)
EXTENDS Integers, Sequences, FiniteSets, TLC, Functions

CONSTANTS
  Defaults,    \* the documented defaults: type -> option -> value
  Nesting,     \* types whose nested mappings are {} when left out
  Fixed        \* options an automated embedding cannot change

NoOptions == [o \in {} |-> {}]
Nothing == [n \in {} |-> {}]
Node(type, options, nests, nested) ==
  [type |-> type, options |-> options, nests |-> nests, nested |-> nested]

Known(type) == IF type \in DOMAIN Defaults THEN Defaults[type] ELSE NoOptions

\* `searchAnalyzer` is the analyzer when it is left out, and only an HNSW
\* index has HNSW options.
Derived(options) ==
  IF "analyzer" \in DOMAIN options THEN "searchAnalyzer" :> options.analyzer
  ELSE IF "indexingMethod" \in DOMAIN options /\ options.indexingMethod = "hnsw"
       THEN "maxEdges" :> 16
       ELSE NoOptions

Filled(m) == LET options == m.options @@ Known(m.type) IN options @@ Derived(options)

\* What the server means by a definition.
RECURSIVE Effective(_)
Effective(m) ==
  [m EXCEPT !.options = Filled(m),
            !.nests   = @ \/ m.type \in Nesting,
            !.nested  = [n \in DOMAIN @ |-> {Effective(x) : x \in @[n]}]]

\* The live definition `have` without what only the server says.  A name, or a
\* type of one, that only the server has is a real difference, and stays.
RECURSIVE Trimmed(_, _)
Trimmed(want, have) ==
  LET OfType(ws, h) == {w \in ws : w.type = h.type}
      Pair(ws, h)   == IF OfType(ws, h) = {} THEN h
                       ELSE Trimmed(CHOOSE w \in OfType(ws, h) : TRUE, h)
      Map(ws, hs)   == [n \in DOMAIN hs |->
                          IF n \in DOMAIN ws THEN {Pair(ws[n], h) : h \in hs[n]} ELSE hs[n]]
  IN  [have EXCEPT
         !.options = Restrict(@, DOMAIN @ \cap DOMAIN want.options),
         !.nests   = @ /\ want.nests,
         !.nested  = IF want.nests THEN Map(want.nested, @) ELSE Nothing]

\* The top-level keys in which two definitions differ.
Differing(want, have) ==
  LET both == DOMAIN want.options \cap DOMAIN have.options
  IN  (DOMAIN want.options \ both) \cup (DOMAIN have.options \ both)
        \cup {o \in both : want.options[o] # have.options[o]}
        \cup (IF want.nests = have.nests /\ want.nested = have.nested
              THEN {} ELSE {"fields"})

-----------------------------------------------------------------------------
(* Vector indexes *)

Embedding == {"vector", "autoEmbed"}
FieldsAt(d, path) == IF path \in DOMAIN d.nested THEN d.nested[path] ELSE {}
PathsOf(d, types) == {p \in DOMAIN d.nested : \E m \in d.nested[p] : m.type \in types}

\* A declared index embeds by hand or automatically, not both; and each path
\* has each type once, which nodes have by construction.
WellFormed(d) ==
  d.type = "vectorSearch" =>
    /\ DOMAIN d.nested # {}
    /\ PathsOf(d, {"vector"}) = {} \/ PathsOf(d, {"autoEmbed"}) = {}

\* What an update would have to change although the server refuses to: an
\* embedding turned into one of the other kind, other paths, other attributes.
ImmutableChanges(want, have) ==
  LET wanted   == PathsOf(want, {"autoEmbed"})
      existing == PathsOf(have, {"autoEmbed"})
      TypesAt(d, p) == {m.type : m \in FieldsAt(d, p)} \cap Embedding
      Auto(d, p)    == CHOOSE m \in FieldsAt(d, p) : m.type = "autoEmbed"
      Has(m, o)     == o \in DOMAIN m.options
      Kept(p, o)    == LET w == Auto(want, p) h == Auto(have, p)
                       IN  Has(w, o) = Has(h, o) /\ (Has(w, o) => w.options[o] = h.options[o])
      types == {p \in PathsOf(want, Embedding) \cap PathsOf(have, Embedding) :
                  TypesAt(want, p) # TypesAt(have, p) /\ p \in wanted \cup existing}
  IN  IF wanted = {} /\ existing = {} THEN {}
      ELSE IF types # {} THEN {<<p, "type">> : p \in types}
      ELSE IF existing # {} /\ wanted # existing THEN {<<"path">>}
      ELSE {<<p, o>> : <<p, o>> \in {x \in (wanted \cap existing) \X Fixed : ~Kept(x[1], x[2])}}

Compare(declared, live) ==
  IF declared.type # live.type
  THEN [diffs |-> {"type"}, typeChange |-> TRUE, immutable |-> {}]
  ELSE LET want  == Effective(declared)
           have  == Trimmed(want, Effective(live))
           diffs == Differing(want, have)
       IN  [diffs |-> diffs, typeChange |-> FALSE,
            immutable |-> IF diffs # {} /\ declared.type = "vectorSearch"
                          THEN ImmutableChanges(want, have) ELSE {}]

-----------------------------------------------------------------------------
(* Where the server is with an index *)

\* A mongot is at work on a newer definition than the one it serves.
Updating(raw) ==
  \E detail \in raw.details : detail.staged \/ (raw.version # 0 /\ detail.version < raw.version)

BuildState(raw) ==
  CASE raw.status = "FAILED"                       -> "failed"
    [] raw.status = "STALE"                        -> "stale"
    [] raw.status \in {"DELETING", "DOES_NOT_EXIST"} -> "removing"
    [] OTHER -> CASE ~raw.queryable                         -> "building"
                  [] raw.queryable /\ Updating(raw)         -> "updating"
                  [] OTHER -> IF raw.status \in {"none", "READY", "UNKNOWN"}
                              THEN "serving" ELSE "building"

\* `since` is the version an update was made at, 0 if there was none.
Ready(raw, since) ==
  BuildState(raw) = "serving" /\ ~(since # 0 /\ raw.version # 0 /\ raw.version <= since)

-----------------------------------------------------------------------------
(* What the comparison is for, said without it *)

\* A definition, flat: its options by path, and which mappings there are.
RECURSIVE Facts(_, _)
Facts(m, path) ==
  {<<path, o, m.options[o]>> : o \in DOMAIN m.options}
    \cup UNION {UNION {Facts(x, path \o <<n, x.type>>) : x \in m.nested[n]} : n \in DOMAIN m.nested}

RECURSIVE Mapped(_, _)
Mapped(m, path) ==
  {path} \cup UNION {UNION {Mapped(x, path \o <<n, x.type>>) : x \in m.nested[n]}
                       : n \in DOMAIN m.nested}

\* The live index does what was declared: every option that is set or has a
\* documented default has its value, and exactly the declared fields are mapped.
SameMeaning(declared, live) ==
  /\ declared.type = live.type
  /\ Facts(Effective(declared), <<>>) \subseteq Facts(Effective(live), <<>>)
  /\ Mapped(declared, <<>>) = Mapped(live, <<>>)
=============================================================================
