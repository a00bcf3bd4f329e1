-------------------------- MODULE MCQueryPipeline --------------------------
(* An instance of QueryPipeline and of its refinement for TLC: the          *)
(* registries of MCCatalog, two sets of adapter capabilities, and one       *)
(* request per kind of query.                                               *)
EXTENDS AtomicPlanning, MCCatalog

CONSTANTS s1

MCSessions == {s1}
MCBindings == {b1, b2}

MCRegistries == {RegistryOne, RegistryTwo, RegistryThree}
-----------------------------------------------------------------------------
(* Adapters *)

AllOperations == {"get", "scan", "search", "aggregate", "traverse"}

AllOperators ==
  AllOperations \cup Comparisons
    \cup {"in", "prefix", "contains", "and", "order", "fullText", "distanceWithin",
          "timestampRange", "sum", "count", "traverse"}

AllLimits(n) ==
  [l \in {"pageSize", "resultValues", "resultBytes", "deadlineMs", "membershipNames",
          "facetBuckets", "traversalDepth", "relationResources", "visitedValues",
          "returnedPaths"} |-> n]

FullCapabilities ==
  [operations |-> AllOperations, native |-> {<<"*">>}, operators |-> AllOperators, types |-> Kinds,
   consistency |-> {"strong", "eventual"}, guarantees |-> {"single-binding"},
   features |-> {"live-keyset", "facets", "analyzer", "ranking", "crs", "distance-unit",
                 "simple-path", "all-neighbors", "explicit-relations"},
   limits |-> AllLimits(3)]

\* No native prefix or contains, nor traversal of all neighbours.
ReducedCapabilities ==
  [FullCapabilities EXCEPT
     !.native = ({"operation"} \X AllOperations)
                  \cup ({"operator"} \X (AllOperators \ {"prefix", "contains"}))
                  \cup {<<"pagination", "keyset">>, <<"traversal", "bounded">>},
     !.operators = @ \ {"prefix", "contains"},
     !.features = @ \ {"all-neighbors"}]

MCCapabilitySets == {FullCapabilities, ReducedCapabilities}

MCRewrites == {[semantic |-> <<"operator", "prefix">>,
                lower |-> {<<"operator", "gte">>, <<"operator", "lt">>}]}
MCResiduals == {[semantic |-> <<"operator", "contains">>, maxRows |-> 1, maxBytes |-> 2]}
-----------------------------------------------------------------------------
(* Requests *)

Request(operation, scope, resolver) ==
  [operation |-> operation, scope |-> scope, resolver |-> resolver]

\* Queries that go through the whole pipeline.
Served ==
  {Request(Scan, {Tenant}, TRUE),
   Request([Scan EXCEPT !.primary.schema = "users@1"], {Tenant}, TRUE),
   Request(Traverse({}, TRUE), {TenantOf(users)}, TRUE),
   Request(Traverse({follows}, FALSE), {TenantOf(users)}, TRUE),
   Request([Operation("search", users) EXCEPT
              !.filter = {[Conjunct("fullText", Plainly("body"), Untyped) EXCEPT
                             !.facets = {"name"}]}], {Tenant}, TRUE),
   Request([Operation("scan", users) EXCEPT
              !.joins = {[target |-> [resource |-> teams, schema |-> NoSchema],
                          on |-> {Conjunct("eq", On(teams, "id"), Untyped)}]}],
           {TenantOf(users)}, TRUE),
   Request([Scan EXCEPT !.filter = {Conjunct("prefix", Plainly("name"), "string")}],
           {Tenant}, TRUE),
   Request([Scan EXCEPT !.filter = {Conjunct("contains", Plainly("name"), "string")},
                        !.options.rows = 1, !.options.bytes = 2], {Tenant}, TRUE),
   Request([Operation("aggregate", users) EXCEPT
              !.grouping = {Plainly("name")},
              !.measures = {[function |-> "sum", field |-> Plainly("age")]}], {Tenant}, TRUE),
   Request([Operation("get", teams) EXCEPT
              !.filter = {Conjunct("distanceWithin", Plainly("location"), "point"),
                          Conjunct("timestampRange", Plainly("ts"), "timestamp"),
                          [Conjunct("in", Plainly("age"), "int64") EXCEPT !.members = 2]}],
           {}, TRUE),
   Request([Scan EXCEPT !.budget = [profile |-> "batch", limits |-> Limits(3)]], {Tenant}, TRUE)}

\* Queries some check refuses: no scope, an unresolved closure, too large a page
\* or membership, a kind or a field that does not fit, too large an estimate.
Refused ==
  {Request(Scan, {}, TRUE),
   Request(Traverse({}, TRUE), {TenantOf(users)}, FALSE),
   Request(Traverse({follows, likes}, FALSE), {TenantOf(users)}, TRUE),
   Request([Scan EXCEPT !.page.size = 3], {Tenant}, TRUE),
   Request([Scan EXCEPT !.budget.limits = Limits(3)], {Tenant}, TRUE),
   Request([Scan EXCEPT !.filter = {[Conjunct("in", Plainly("age"), "int64") EXCEPT
                                       !.members = 3]}], {Tenant}, TRUE),
   Request([Scan EXCEPT !.filter = {Conjunct("prefix", Plainly("age"), "int64")}],
           {Tenant}, TRUE),
   Request([Scan EXCEPT !.projection = {Plainly("absent")}], {Tenant}, TRUE),
   Request([Scan EXCEPT !.filter = {Conjunct("contains", Plainly("name"), "string")},
                        !.options.rows = 2, !.options.bytes = 2], {Tenant}, TRUE),
   Request([Operation("search", users) EXCEPT !.filter = {}], {Tenant}, TRUE)}

MCRequests == Served \cup Refused

\* Within both budgets, beyond the smaller one in either size, beyond both.
MCResultSizes ==
  {[values |-> 2, bytes |-> 2], [values |-> 3, bytes |-> 2], [values |-> 2, bytes |-> 3],
   [values |-> 3, bytes |-> 3], [values |-> 3, bytes |-> 4]}
=============================================================================
