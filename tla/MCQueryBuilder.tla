--------------------------- MODULE MCQueryBuilder ---------------------------
(* An instance of QueryBuilder for TLC: one or two arguments for each call. *)
EXTENDS QueryBuilder

CONSTANTS users, teams, follows, pinned, adult, tenant, match, name, byAge, byTeam,
          large, hint, shown

MCDefaultPage == [size |-> 50, cursor |-> "none", pointInTime |-> FALSE]

MCPages == {MCDefaultPage, [size |-> 12, cursor |-> "mqc1", pointInTime |-> TRUE]}

MCProjections == {[alias |-> NoAlias, value |-> name], [alias |-> shown, value |-> name]}

MCMetrics == {[name |-> "total", measure |-> "sum"], [name |-> "total", measure |-> "count"]}

Traversal(relations, all) ==
  [relations |-> relations, allNeighbors |-> all, shape |-> "paths",
   fingerprint |-> NoFingerprint, detail |-> "outbound"]

MCTraversals == {Traversal({follows}, FALSE), Traversal({}, TRUE)}

MCJoinTargets == {[resource |-> users, schema |-> NoSchema], [resource |-> teams, schema |-> pinned]}

MCClosure == [relations |-> {follows}, fingerprint |-> "r1"]

\* The scope may repeat what the consumer asked for.
MCScopes == {EmptyBag, SetToBag({tenant}), SetToBag({tenant, adult})}
=============================================================================
