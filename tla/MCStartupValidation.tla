------------------------- MODULE MCStartupValidation ------------------------
(* An instance of StartupValidation for TLC: large and small queries of the *)
(* same shape, and the same queries after a registry moved them to another  *)
(* Binding and took their relations away.                                   *)
EXTENDS StartupValidation, MCCatalog

MCBindings == {b1, b2}

Scoped(op, conjunct) == [op EXCEPT !.filter = @ \cup {conjunct}, !.options.scopeInjected = TRUE]

Closed(v) ==
  [Traverse(v.neighbors[users], TRUE) EXCEPT !.traversal.fingerprint = v.fingerprint]

Query(op, v) == [operation |-> op, registry |-> v]

Paged(n) == [Scoped(Scan, Tenant) EXCEPT !.page.size = n]
Members(n) == [Operation("scan", teams) EXCEPT
                 !.filter = {[Conjunct("in", Plainly("age"), "int64") EXCEPT !.members = n]}]
JoinTeams == [Scoped(Operation("scan", users), TenantOf(users)) EXCEPT
                !.joins = {[target |-> [resource |-> teams, schema |-> NoSchema],
                            on |-> {Conjunct("eq", On(teams, "id"), Untyped)}]}]

MCQueries ==
  {Query(Paged(2), RegistryOne), Query(Paged(1), RegistryOne), Query(Paged(2), RegistryThree),
   Query(Members(2), RegistryOne), Query(JoinTeams, RegistryOne)}
    \cup {Query(Scoped(Closed(v), TenantOf(users)), v) : v \in {RegistryOne, RegistryThree}}

Offered(guarantees, n) ==
  [guarantees |-> guarantees,
   limits |-> [l \in {"pageSize", "resultValues", "resultBytes", "deadlineMs", "membershipNames",
                      "facetBuckets", "traversalDepth", "relationResources", "visitedValues",
                      "returnedPaths"} |-> IF l \in {"pageSize", "relationResources"} THEN n ELSE 2]]

Full == [operations |-> [c \in {"query", "traverse"} |-> Offered({"single-binding"}, 2)]]
Small == [operations |-> [c \in {"query"} |-> Offered({"single-binding", "atomic"}, 1)]]

MCManifests == {Full, Small}
=============================================================================
