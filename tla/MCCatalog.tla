------------------------------ MODULE MCCatalog -----------------------------
(* A catalog for TLC: users, teams and two relations, the three registries  *)
(* it goes through, and the shapes of the operations asked of it.           *)
EXTENDS QuerySemantics

CONSTANTS users, teams, follows, likes, b1, b2
-----------------------------------------------------------------------------
(* Registries *)

Profile(kind, covers, facets) == [kind |-> kind, covers |-> covers, facets |-> facets]

Relational == Profile("relational", {}, {})
Relation == Profile("relation", {}, {})
Search == Profile("fullText", {"body"}, {"name"})
Places == Profile("geospatial", {"distanceWithin"}, {})
Series == Profile("timeSeries", {"ts"}, {})

StandardFields ==
  [id |-> "string", age |-> "int64", name |-> "string", body |-> "string",
   location |-> "point", ts |-> "timestamp"]

Schema(ref, identity, profile) ==
  [ref |-> ref, identity |-> identity, fields |-> StandardFields, profile |-> profile]

Registration(schema, binding, scope) == [schema |-> schema, binding |-> binding, scope |-> scope]

Limits(n) ==
  [f \in BudgetFields |->
     CASE f \in {"resultValues", "resultBytes"} -> n
       [] f = "relationResources" -> 1
       [] OTHER -> 2]

Profiles == [name \in {"default", "batch"} |-> Limits(IF name = "default" THEN 2 ELSE 3)]

Neighbors(rels) ==
  [r \in {users, teams, follows, likes} |-> IF r = users THEN rels ELSE {}]

\* Users have one relation; both it and users live on b1, under a tenant scope.
RegistryOne ==
  [fingerprint |-> "r1", profiles |-> Profiles, neighbors |-> Neighbors({follows}),
   resources |->
     [r \in {users, teams, follows} |->
        CASE r = users -> Registration(Schema("users@1", <<"id", "name">>, Search), b1, {"tenant"})
          [] r = teams -> Registration(Schema("teams@1", <<"id">>, Places), b1, {})
          [] r = follows -> Registration(Schema("follows@1", <<"id">>, Relation), b1, {})]]

\* The relation is replaced by another and the users Schema evolves.
RegistryTwo ==
  [fingerprint |-> "r2", profiles |-> [name \in {"default"} |-> Limits(2)],
   neighbors |-> Neighbors({likes}),
   resources |->
     [r \in {users, teams, follows, likes} |->
        CASE r = users -> Registration(Schema("users@2", <<"id">>, Relational), b1, {})
          [] r = teams -> Registration(Schema("teams@1", <<>>, Series), b1, {})
          [] r = follows -> Registration(Schema("follows@1", <<"id">>, Relation), b1, {})
          [] r = likes -> Registration(Schema("likes@1", <<"id">>, Relation), b1, {})]]

\* Everything moves to b2, and users have no neighbours left.
RegistryThree ==
  [fingerprint |-> "r3", profiles |-> Profiles, neighbors |-> Neighbors({}),
   resources |->
     [r \in {users, teams, follows} |->
        CASE r = users -> Registration(Schema("users@1", <<"id", "name">>, Search), b2, {"tenant"})
          [] r = teams -> Registration(Schema("teams@1", <<"id">>, Places), b1, {})
          [] r = follows -> Registration(Schema("follows@1", <<"id">>, Relational), b2, {})]]
-----------------------------------------------------------------------------
(* Operations *)

On(r, name) == [name |-> name, on |-> r]
Plainly(name) == On(Unqualified, name)

Conjunct(operator, field, literal) ==
  [operator |-> operator, field |-> field, literal |-> literal, members |-> 0, facets |-> {}]

Sort(field) == [field |-> field, direction |-> "asc"]

DefaultBudget == [profile |-> "default", limits |-> Limits(2)]

Operation(kind, resource) ==
  [kind |-> kind, primary |-> [resource |-> resource, schema |-> NoSchema], joins |-> {},
   filter |-> {}, projection |-> {}, grouping |-> {}, measures |-> {}, order |-> <<>>,
   traversal |-> NoTraversal, page |-> [size |-> 1, pointInTime |-> FALSE],
   consistency |-> "strong", budget |-> DefaultBudget,
   options |-> [scopeInjected |-> FALSE, rows |-> NoEstimate, bytes |-> NoEstimate]]

Tenant == Conjunct("eq", Plainly("name"), "string")
TenantOf(r) == Conjunct("eq", On(r, "name"), "string")

Traversal(relations, all) ==
  [start |-> users, relations |-> relations, allNeighbors |-> all, maxDepth |-> 1,
   filter |-> {}, fingerprint |-> NoFingerprint]

Traverse(relations, all) ==
  [Operation("traverse", users) EXCEPT !.traversal = Traversal(relations, all)]

Scan == [Operation("scan", users) EXCEPT !.filter = {Conjunct("gte", Plainly("age"), "int64")},
                                         !.order = <<Sort(Plainly("name"))>>]
=============================================================================
