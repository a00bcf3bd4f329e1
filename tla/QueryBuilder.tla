---------------------------- MODULE QueryBuilder ----------------------------
(***************************************************************************)
(* MeridianQuery, the immutable fluent builder, and the two ways from it   *)
(* to a QueryOperation:                                                    *)
(*    build() and normalize_builder(), in one process;                     *)
(*    expression(), sent as a Catalog Expression, and                      *)
(*    normalize_expression() where it arrives.                             *)
(* A chain of calls is a behaviour.  Any call may follow any other, so the *)
(* question is which chains make the two ways meet.                        *)
(*                                                                         *)
(* A predicate is the bag of its conjuncts: BooleanExpression flattens     *)
(* nested conjunctions and sorts their operands.                           *)
(***************************************************************************)
EXTENDS Integers, Sequences, FiniteSets, Bags, Functions

CONSTANTS
  Resource,       \* the Resource the query is for
  Schemas,        \* the Schemas from_resource may pin
  Predicates, Matches, Sorts, Pages, Groupings,
  Projections,    \* records [alias, value]
  Metrics,        \* records [name, measure]
  Traversals,     \* records [relations, allNeighbors, shape, fingerprint, detail]
  JoinTargets, JoinPredicates, Consistencies, Budgets,
  Hints,          \* values of estimatedRows, estimatedBytes or resultByteLimit
  DefaultPage,    \* PageSpec()
  Scopes,         \* the bags a deployment injects as scope, EmptyBag for none
  Closure,        \* what an all-neighbors resolver answers: [relations, fingerprint]
  NoSchema, NoMatch, NoFingerprint, NoHint, NoAlias,
  MaxCalls        \* bound on the length of a chain

\* No traversal, and the outcome of a call that raises: records like no other.
NoTraversal == [absent |-> TRUE]
Invalid == [raises |-> TRUE]

PageFields == {"size", "cursor", "pointInTime"}
TraversalFields == {"relations", "allNeighbors", "shape", "fingerprint", "detail"}

ASSUME BuilderAssumption ==
  /\ DefaultPage \in Pages /\ MaxCalls \in Nat
  /\ \A page \in Pages : page = [f \in PageFields |-> page[f]]
  /\ \A t \in Traversals : t = [f \in TraversalFields |-> t[f]]
  /\ \A scope \in Scopes : IsABag(scope)

VARIABLES
  query,   \* the MeridianQuery built so far
  calls    \* how many calls the chain has made

vars == <<query, calls>>

\* from_resource: every other attribute has its default.
Fresh(schema) ==
  [schema |-> schema, predicate |-> EmptyBag, projections |-> <<>>, sorts |-> <<>>,
   page |-> DefaultPage, consistency |-> "strong", budget |-> "default", kind |-> "scan",
   search |-> NoMatch, grouping |-> <<>>, aggregates |-> <<>>, traversal |-> NoTraversal,
   joins |-> <<>>, options |-> [hint |-> NoHint, scopeInjected |-> FALSE]]

Init == query \in {Fresh(schema) : schema \in Schemas \cup {NoSchema}} /\ calls = 0

Returns(q) ==
  /\ calls < MaxCalls
  /\ query' = q
  /\ calls' = calls + 1
-----------------------------------------------------------------------------
(* The calls; where() also stands for time_range(), which is one *)

Where(p) == Returns([query EXCEPT !.predicate = @ (+) SetToBag({p})])

Select(p) == Returns([query EXCEPT !.projections = Append(@, p)])

OrderBy(s) == Returns([query EXCEPT !.sorts = Append(@, s)])

Page(page) == Returns([query EXCEPT !.page = page])

\* Slip: the kind changes without its clause.
FullTextKind(match) == Returns([query EXCEPT !.kind = "search"])

FullText(match) == Returns([query EXCEPT !.kind = "search", !.search = match])

GroupBy(grouping) == Returns([query EXCEPT !.kind = "aggregate", !.grouping = <<grouping>>])

Measure(metric) == Returns([query EXCEPT !.kind = "aggregate", !.aggregates = Append(@, metric)])

Traverse(t) == Returns([query EXCEPT !.kind = "traverse", !.traversal = t])

Join(target, on) == Returns([query EXCEPT !.joins = Append(@, [target |-> target, on |-> on])])

Consistency(c) == Returns([query EXCEPT !.consistency = c])

Budget(b) == Returns([query EXCEPT !.budget = b])

Option(hint) == Returns([query EXCEPT !.options.hint = hint])

Next ==
  \/ \E p \in Predicates : Where(p)
  \/ \E p \in Projections : Select(p)
  \/ \E s \in Sorts : OrderBy(s)
  \/ \E page \in Pages : Page(page)
  \/ \E match \in Matches : FullText(match)
  \/ \E grouping \in Groupings : GroupBy(grouping)
  \/ \E metric \in Metrics : Measure(metric)
  \/ \E t \in Traversals : Traverse(t)
  \/ \E target \in JoinTargets, on \in JoinPredicates : Join(target, on)
  \/ \E c \in Consistencies : Consistency(c)
  \/ \E b \in Budgets : Budget(b)
  \/ \E hint \in Hints : Option(hint)

Spec == Init /\ [][Next]_vars
-----------------------------------------------------------------------------
(* QueryOperation: what its constructor refuses *)

Aliases(op) == SelectSeq(op.projections, LAMBDA p : p.alias # NoAlias)

Targets(op) == <<op.target>> \o [i \in DOMAIN op.joins |-> op.joins[i].target]

WellFormed(op) ==
  /\ IsInjective([i \in DOMAIN Targets(op) |-> Targets(op)[i].resource])
  /\ op.kind = "traverse" <=> op.traversal # NoTraversal
  /\ op.kind = "aggregate" => op.aggregates # <<>>
  /\ op.kind # "aggregate" => op.grouping = <<>> /\ op.aggregates = <<>>
  /\ IsInjective([i \in DOMAIN op.aggregates |-> op.aggregates[i].name])
  /\ IsInjective([i \in DOMAIN Aliases(op) |-> Aliases(op)[i].alias])

Construct(op) == IF WellFormed(op) THEN op ELSE Invalid

Shape(kind, traversal) ==
  IF traversal # NoTraversal THEN traversal.shape
  ELSE IF kind \in {"aggregate", "search"} THEN kind
  ELSE "records"

AsConjunct(match) == IF match = NoMatch THEN EmptyBag ELSE SetToBag({match})
-----------------------------------------------------------------------------
(* build() and expression() *)

Build(q) == Construct(
  [target      |-> [resource |-> Resource, schema |-> q.schema],
   kind        |-> q.kind,
   shape       |-> Shape(q.kind, q.traversal),
   projections |-> q.projections,
   filter      |-> q.predicate (+) AsConjunct(q.search),
   joins       |-> q.joins,
   grouping    |-> q.grouping,
   aggregates  |-> q.aggregates,
   traversal   |-> q.traversal,
   order       |-> q.sorts,
   page        |-> q.page,
   consistency |-> q.consistency,
   budget      |-> q.budget,
   options     |-> q.options])

\* The arguments of one method; every expression has joins, consistency, budget
\* and options besides, and a paginated one its point in time and cursor.
Arguments(q) ==
  CASE q.kind = "search" ->
         [query |-> q.search, where |-> q.predicate, orderBy |-> q.sorts, limit |-> q.page.size]
    [] q.kind = "aggregate" ->
         [metrics |-> q.aggregates, groupBy |-> q.grouping, where |-> q.predicate]
    [] q.kind = "traverse" -> [traversal |-> q.traversal]
    [] q.kind = "scan" ->
         [where |-> q.predicate, select |-> q.projections, orderBy |-> q.sorts,
          limit |-> q.page.size]

\* Slip: a search forgets its continuation.
ContinuationOfScan(q) ==
  IF q.kind = "scan"
  THEN [pointInTime |-> q.page.pointInTime, cursor |-> q.page.cursor]
  ELSE [pointInTime |-> FALSE, cursor |-> DefaultPage.cursor]

Continuation(q) ==
  IF q.kind \in {"scan", "search"}
  THEN [pointInTime |-> q.page.pointInTime, cursor |-> q.page.cursor]
  ELSE [pointInTime |-> FALSE, cursor |-> DefaultPage.cursor]

ExpressionOf(q) ==
  [method |-> IF q.kind = "scan" THEN "query" ELSE q.kind,
   resource |-> Resource, arguments |-> Arguments(q), joins |-> q.joins,
   consistency |-> q.consistency, budget |-> q.budget, options |-> q.options,
   continuation |-> Continuation(q)]
-----------------------------------------------------------------------------
(* normalize_builder() and normalize_expression() *)

Resolve(traversal, resolves) ==
  IF traversal # NoTraversal /\ traversal.allNeighbors /\ resolves
  THEN [traversal EXCEPT !.relations = Closure.relations, !.fingerprint = Closure.fingerprint]
  ELSE traversal

WithScope(options, scope) == [options EXCEPT !.scopeInjected = @ \/ scope # EmptyBag]

\* Slip: the scope gives way to a filter of the consumer's.
NormalizeBuilderUnscoped(q, scope, resolves) ==
  LET op == Build(q)
  IN  IF op = Invalid THEN Invalid
      ELSE Construct([op EXCEPT !.filter = IF @ = EmptyBag THEN scope ELSE @,
                                !.traversal = Resolve(@, resolves),
                                !.options = WithScope(@, scope)])

NormalizeBuilder(q, scope, resolves) ==
  LET op == Build(q)
  IN  IF op = Invalid THEN Invalid
      ELSE Construct([op EXCEPT !.filter = @ (+) scope,
                                !.traversal = Resolve(@, resolves),
                                !.options = WithScope(@, scope)])

\* arguments.get(name, default)
Argument(e, name, default) ==
  IF name \in DOMAIN e.arguments THEN e.arguments[name] ELSE default

PageOf(e) ==
  IF e.method \in {"aggregate", "traverse"} THEN DefaultPage
  ELSE [size        |-> Argument(e, "limit", DefaultPage.size),
        cursor      |-> e.continuation.cursor,
        pointInTime |-> e.continuation.pointInTime]

NormalizeExpression(e, scope, resolves) ==
  LET kind == IF e.method = "query" THEN "scan" ELSE e.method
      traversal == Argument(e, "traversal", NoTraversal)
  IN  Construct(
        [target      |-> [resource |-> e.resource, schema |-> NoSchema],
         kind        |-> kind,
         shape       |-> Shape(kind, traversal),
         projections |-> Argument(e, "select", <<>>),
         filter      |-> Argument(e, "where", EmptyBag) (+) scope
                           (+) AsConjunct(Argument(e, "query", NoMatch)),
         joins       |-> e.joins,
         grouping    |-> Argument(e, "groupBy", <<>>),
         aggregates  |-> Argument(e, "metrics", <<>>),
         traversal   |-> Resolve(traversal, resolves),
         order       |-> Argument(e, "orderBy", <<>>),
         page        |-> PageOf(e),
         consistency |-> e.consistency,
         budget      |-> e.budget,
         options     |-> WithScope(e.options, scope)])
-----------------------------------------------------------------------------
(* Properties *)

TypeOK ==
  /\ calls \in 0..MaxCalls
  /\ query.kind \in {"scan", "search", "aggregate", "traverse"}
  /\ query.kind = "search" => query.search \in Matches
  /\ query.kind = "traverse" => query.traversal \in Traversals

\* What an Expression has no argument for was not asked for: a pinned Schema,
\* and clauses that belong to another method than the one the chain ended in.
Expressible(q) ==
  /\ q.schema = NoSchema
  /\ q.kind # "scan" => q.projections = <<>>
  /\ q.kind \in {"aggregate", "traverse"} =>
       q.sorts = <<>> /\ q.page = DefaultPage /\ q.search = NoMatch
  /\ q.kind = "traverse" => q.predicate = EmptyBag
  /\ q.kind # "aggregate" => q.grouping = <<>> /\ q.aggregates = <<>>
  /\ q.kind # "traverse" => q.traversal = NoTraversal

\* The two ways meet: an expressible query normalizes to the same operation, or
\* is refused on both, under every injected scope and whether or not the
\* neighbours are resolved (builder/__init__.py:286-389,
\* normalize/__init__.py:49-200).
WaysAgree ==
  Expressible(query) =>
    \A scope \in Scopes, resolves \in BOOLEAN :
      NormalizeExpression(ExpressionOf(query), scope, resolves)
        = NormalizeBuilder(query, scope, resolves)

\* No chain of calls removes the scope: what normalizes, either way, carries every
\* injected conjunct as often as it was injected, and says so.
ScopeSurvives ==
  \A scope \in Scopes \ {EmptyBag}, resolves \in BOOLEAN :
    LET outcomes == {NormalizeBuilder(query, scope, resolves),
                     NormalizeExpression(ExpressionOf(query), scope, resolves)}
    IN  \A op \in outcomes \ {Invalid} :
          scope \sqsubseteq op.filter /\ op.options.scopeInjected

\* The Expression a builder corresponds to asks for the rows build() asks for:
\* when both are well formed, their filters are the same.
ExpressionKeepsFilter ==
  LET direct == Build(query)
      sent == NormalizeExpression(ExpressionOf(query), EmptyBag, FALSE)
  IN  direct # Invalid /\ sent # Invalid => sent.filter = direct.filter
=============================================================================
