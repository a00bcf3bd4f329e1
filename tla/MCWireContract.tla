--------------------------- MODULE MCWireContract ---------------------------
(***************************************************************************)
(* Plans of every operation, and a producer that rewrites a document in    *)
(* each of the ways a field can be wrong, missing, unknown or respelled.   *)
(***************************************************************************)
EXTENDS WireContract

CONSTANTS where, scope   \* two filters

Record(name) == [catalog |-> "structured", name |-> name]
Target(name) == [resource |-> Record(name), schema |-> None]
Nothing == [key \in {} |-> None]

\* What a builder's arguments leave at their defaults.
Base(operation, shape) ==
  [catalog |-> "structured", targets |-> <<Target("person")>>, operation |-> operation,
   result |-> [shape |-> shape, projection |-> <<>>], filter |-> <<where>>, joins |-> <<>>,
   grouping |-> <<>>, aggregates |-> <<>>, traversal |-> Absent, order |-> <<>>,
   page |-> [size |-> 50, cursor |-> None], budget |-> [limit |-> 500],
   options |-> Nothing, extensions |-> Nothing]

Scan == Base("scan", "records")
Pinned == [resource |-> Record("place"), schema |-> [catalog |-> "structured", name |-> "v1"]]

PlainPlans ==
  {Base("get", "records"), Base("search", "search"), Base("search", "records"),
   [Scan EXCEPT !.result.projection = <<"alias", None>>, !.options = [estimatedRows |-> 9]],
   [Scan EXCEPT !.result.projection = <<"alias", "alias">>],
   [Scan EXCEPT !.targets = @ \o <<Pinned>>, !.joins = <<[target |-> Pinned, kind |-> "left"]>>],
   [Scan EXCEPT !.joins = <<[target |-> Pinned, kind |-> "left"]>>],
   [Scan EXCEPT !.extensions = [ext |-> "value"], !.page.cursor = "token"],
   [Base("aggregate", "aggregate") EXCEPT !.grouping = <<"city">>, !.aggregates = <<"n", "m">>],
   [Base("aggregate", "aggregate") EXCEPT !.grouping = <<"city">>]}

Selections == {<<>>, <<"knows">>, <<"near", "knows">>}
Predicates == {Nothing, [knows |-> "predicate"]}

TraversalPlans ==
  {[Base("traverse", shape) EXCEPT !.traversal =
      [start |-> "person", relations |-> relations, allNeighbors |-> dynamic, fingerprint |-> None,
       minDepth |-> depths[1], maxDepth |-> depths[2], predicates |-> predicates, shape |-> shape]] :
     shape \in {"records", "paths"}, relations \in Selections, dynamic \in BOOLEAN,
     depths \in {<<1, 32>>, <<2, 1>>}, predicates \in Predicates}

MCPlans == PlainPlans \cup TraversalPlans

MCClosures ==
  {None} \cup [relations : Selections, fingerprint : {"registry1", "registry2"}]

MCScopes == {None, scope}
MCPolicies == {{}, {"ext"}, {"ext", "other"}}
-----------------------------------------------------------------------------
With(f, key, value) == [k \in DOMAIN f \cup {key} |-> IF k = key THEN value ELSE f[k]]
Without(f, key) == [k \in DOMAIN f \ {key} |-> f[k]]

RootRewrites(d) ==
  {With(d, "note", "unknown"), Without(d, "order"),
   [d EXCEPT !.page = With(@, "offset", 1)], [d EXCEPT !.page.size = 501],
   [d EXCEPT !.page.size = 0]} \cup
  {[d EXCEPT !.options = Without(@, "budget")], [d EXCEPT !.options = With(@, "sql", 1)],
   [d EXCEPT !.options = With(@, "estimatedRows", 8)],
   [d EXCEPT !.extensions = With(@, "other", "value")],
   [d EXCEPT !.operation = "get"], [d EXCEPT !.result.shape = "records"],
   [d EXCEPT !.targets = @ \o @], [d EXCEPT !.catalog = "evidence"]}

SelectorRewrites(s) ==
  [kind : {"explicit", "allNeighbors", "some"}, relationCollections : Selections,
   registryFingerprint : {None, "registry1"}]
    \cup {[s EXCEPT !.relationCollections = @ \o @], [s EXCEPT !.relationCollections = Reverse(@)],
          [s EXCEPT !.relationCollections = [key \in {2} |-> "knows"]],
          With(s, "note", "unknown"), Without(s, "registryFingerprint")}

TraversalRewrites(t) ==
  {[t EXCEPT !.relationSelector = s] : s \in SelectorRewrites(t.relationSelector)}
    \cup {[t EXCEPT !.minDepth = 33], [t EXCEPT !.relationPredicates = [loves |-> "predicate"]],
          With(t, "note", "unknown")}

MCForeign(d) ==
  RootRewrites(d) \cup
    IF d.traversal = Absent THEN {}
    ELSE {[d EXCEPT !.traversal = t] : t \in TraversalRewrites(d.traversal)}
=============================================================================
