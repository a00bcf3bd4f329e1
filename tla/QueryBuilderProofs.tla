-------------------------- MODULE QueryBuilderProofs --------------------------
(***************************************************************************)
(* Proofs about QueryBuilder, for every chain of calls and every argument. *)
(***************************************************************************)
EXTENDS QueryBuilder, TLAPS

(* Bags *)

LEMMA UnionIsBag ==
  ASSUME NEW A, IsABag(A), NEW B, IsABag(B)
  PROVE  IsABag(A (+) B)
BY DEF IsABag, (+)

Copies(B, e) == IF e \in DOMAIN B THEN B[e] ELSE 0

LEMMA CopiesFacts ==
  ASSUME NEW A, IsABag(A), NEW B, IsABag(B), NEW e
  PROVE  Copies(A, e) \in Nat /\ Copies(A (+) B, e) = Copies(A, e) + Copies(B, e)
<1>1. /\ DOMAIN (A (+) B) = (DOMAIN A) \cup (DOMAIN B)
      /\ \A x \in DOMAIN (A (+) B) : (A (+) B)[x] = Copies(A, x) + Copies(B, x)
  BY DEF (+), Copies
<1>2. Copies(A, e) \in Nat /\ Copies(B, e) \in Nat
  BY DEF IsABag, Copies
<1>3. CASE e \in DOMAIN (A (+) B)
  BY <1>1, <1>2, <1>3 DEF Copies
<1>4. CASE e \notin DOMAIN (A (+) B)
  BY <1>1, <1>2, <1>4 DEF Copies
<1> QED BY <1>2, <1>3, <1>4

LEMMA UnionCommutes ==
  ASSUME NEW A, IsABag(A), NEW B, IsABag(B), NEW C, IsABag(C)
  PROVE  (A (+) B) (+) C = (A (+) C) (+) B
<1>1. IsABag(A (+) B) /\ IsABag(A (+) C)
  BY UnionIsBag
<1>2. \A X, Y : X (+) Y = [e \in (DOMAIN X) \cup (DOMAIN Y) |-> Copies(X, e) + Copies(Y, e)]
  BY DEF (+), Copies
<1>3. \A e : Copies(A (+) B, e) + Copies(C, e) = Copies(A (+) C, e) + Copies(B, e)
  <2> SUFFICES ASSUME NEW e
               PROVE  Copies(A (+) B, e) + Copies(C, e) = Copies(A (+) C, e) + Copies(B, e)
    OBVIOUS
  <2>1. /\ Copies(A, e) \in Nat /\ Copies(B, e) \in Nat /\ Copies(C, e) \in Nat
        /\ Copies(A (+) B, e) = Copies(A, e) + Copies(B, e)
        /\ Copies(A (+) C, e) = Copies(A, e) + Copies(C, e)
    BY CopiesFacts
  <2> QED BY <2>1
<1>4. (DOMAIN (A (+) B)) \cup (DOMAIN C) = (DOMAIN (A (+) C)) \cup (DOMAIN B)
  BY <1>2
<1> DEFINE AB == A (+) B
           AC == A (+) C
<1>5. /\ AB (+) C = [e \in (DOMAIN AB) \cup (DOMAIN C) |-> Copies(AB, e) + Copies(C, e)]
      /\ AC (+) B = [e \in (DOMAIN AC) \cup (DOMAIN B) |-> Copies(AC, e) + Copies(B, e)]
  BY <1>2
<1>6. AB (+) C = AC (+) B
  <2>1. /\ (DOMAIN AB) \cup (DOMAIN C) = (DOMAIN AC) \cup (DOMAIN B)
        /\ \A e : Copies(AB, e) + Copies(C, e) = Copies(AC, e) + Copies(B, e)
    BY <1>3, <1>4
  <2> HIDE DEF AB, AC
  <2> QED BY <1>5, <2>1
<1> QED BY <1>6

LEMMA UnionContains ==
  ASSUME NEW A, IsABag(A), NEW B, IsABag(B)
  PROVE  A \sqsubseteq A (+) B /\ B \sqsubseteq A (+) B
BY DEF IsABag, (+), \sqsubseteq

LEMMA ContainsTransitive ==
  ASSUME NEW A, IsABag(A), NEW B, IsABag(B), NEW C, IsABag(C),
         A \sqsubseteq B, B \sqsubseteq C
  PROVE  A \sqsubseteq C
BY DEF IsABag, \sqsubseteq

LEMMA SmallBags ==
  /\ IsABag(EmptyBag)
  /\ \A x : IsABag(SetToBag({x}))
  /\ \A match : IsABag(AsConjunct(match))
<1>1. IsABag(EmptyBag) /\ \A x : IsABag(SetToBag({x}))
  BY DEF IsABag, EmptyBag, SetToBag
<1> QED BY <1>1 DEF AsConjunct
-----------------------------------------------------------------------------
(* The builder *)

QueryFields ==
  {"schema", "predicate", "projections", "sorts", "page", "consistency", "budget", "kind",
   "search", "grouping", "aggregates", "traversal", "joins", "options"}

HintFields == {"hint", "scopeInjected"}

Shaped(q) ==
  /\ q = [f \in QueryFields |-> q[f]]
  /\ q.options = [f \in HintFields |-> q.options[f]]
  /\ IsABag(q.predicate)
  /\ q.page \in Pages
  /\ q.traversal \in Traversals \cup {NoTraversal}

\* A chain that is still a scan has only made the calls every scan may make: no
\* call changes the kind back.
KindOK(q) ==
  \/ /\ q.kind = "scan"
     /\ q.search = NoMatch /\ q.traversal = NoTraversal
     /\ q.grouping = <<>> /\ q.aggregates = <<>>
  \/ q.kind = "search" /\ q.search \in Matches
  \/ q.kind = "aggregate"
  \/ q.kind = "traverse" /\ q.traversal \in Traversals

IInv ==
  /\ calls \in 0..MaxCalls
  /\ Shaped(query)
  /\ KindOK(query)

LEMMA InitIInv == Init => IInv
<1> SUFFICES ASSUME NEW schema, query = Fresh(schema), calls = 0 PROVE IInv
  BY DEF Init
<1> QED BY BuilderAssumption, SmallBags
        DEF Fresh, IInv, Shaped, KindOK, QueryFields, HintFields

LEMMA NextIInv == IInv /\ [Next]_vars => IInv'
<1> SUFFICES ASSUME IInv, Next PROVE IInv'
  BY DEF IInv, vars
<1>1. /\ query = [f \in QueryFields |-> query[f]]
      /\ query.options = [f \in HintFields |-> query.options[f]]
      /\ IsABag(query.predicate)
      /\ query.page \in Pages
      /\ query.traversal \in Traversals \cup {NoTraversal}
      /\ KindOK(query)
  BY DEF IInv, Shaped
<1>2. \A q : Returns(q) => query' = q /\ calls' \in 0..MaxCalls
  BY BuilderAssumption DEF Returns, IInv
<1> USE DEF IInv, Shaped, KindOK, QueryFields, HintFields
<1>3. ASSUME NEW p \in Predicates, Where(p) PROVE IInv'
  <2>1. IsABag(query.predicate (+) SetToBag({p}))
    BY <1>1, SmallBags, UnionIsBag
  <2> QED BY <1>1, <1>2, <1>3, <2>1 DEF Where
<1>4. ASSUME NEW p \in Projections, Select(p) PROVE IInv'
  BY <1>1, <1>2, <1>4 DEF Select
<1>5. ASSUME NEW s \in Sorts, OrderBy(s) PROVE IInv'
  BY <1>1, <1>2, <1>5 DEF OrderBy
<1>6. ASSUME NEW page \in Pages, Page(page) PROVE IInv'
  BY <1>1, <1>2, <1>6 DEF Page
<1>7. ASSUME NEW match \in Matches, FullText(match) PROVE IInv'
  <2>1. query' = [query EXCEPT !.kind = "search", !.search = match] /\ calls' \in 0..MaxCalls
    BY <1>2, <1>7 DEF FullText
  <2>2. Shaped(query)'
    BY <1>1, <2>1
  <2>3. query'.kind = "search" /\ query'.search = match
    BY <1>1, <2>1
  <2> QED BY <2>1, <2>2, <2>3
<1>8. ASSUME NEW grouping \in Groupings, GroupBy(grouping) PROVE IInv'
  <2>1. query' = [query EXCEPT !.kind = "aggregate", !.grouping = <<grouping>>] /\ calls' \in 0..MaxCalls
    BY <1>2, <1>8 DEF GroupBy
  <2>2. Shaped(query)'
    BY <1>1, <2>1
  <2>3. query'.kind = "aggregate"
    BY <1>1, <2>1
  <2> QED BY <2>1, <2>2, <2>3
<1>9. ASSUME NEW metric \in Metrics, Measure(metric) PROVE IInv'
  <2>1. query' = [query EXCEPT !.kind = "aggregate", !.aggregates = Append(@, metric)] /\ calls' \in 0..MaxCalls
    BY <1>2, <1>9 DEF Measure
  <2>2. Shaped(query)'
    BY <1>1, <2>1
  <2>3. query'.kind = "aggregate"
    BY <1>1, <2>1
  <2> QED BY <2>1, <2>2, <2>3
<1>10. ASSUME NEW t \in Traversals, Traverse(t) PROVE IInv'
  <2>1. query' = [query EXCEPT !.kind = "traverse", !.traversal = t] /\ calls' \in 0..MaxCalls
    BY <1>2, <1>10 DEF Traverse
  <2>2. Shaped(query)'
    BY <1>1, <2>1
  <2>3. query'.kind = "traverse" /\ query'.traversal = t
    BY <1>1, <2>1
  <2> QED BY <2>1, <2>2, <2>3
<1>11. ASSUME NEW target \in JoinTargets, NEW on \in JoinPredicates, Join(target, on) PROVE IInv'
  BY <1>1, <1>2, <1>11 DEF Join
<1>12. ASSUME NEW c \in Consistencies, Consistency(c) PROVE IInv'
  BY <1>1, <1>2, <1>12 DEF Consistency
<1>13. ASSUME NEW b \in Budgets, Budget(b) PROVE IInv'
  BY <1>1, <1>2, <1>13 DEF Budget
<1>14. ASSUME NEW hint \in Hints, Option(hint) PROVE IInv'
  BY <1>1, <1>2, <1>14 DEF Option
<1> QED BY <1>3, <1>4, <1>5, <1>6, <1>7, <1>8, <1>9, <1>10, <1>11, <1>12, <1>13, <1>14 DEF Next

LEMMA Invariance == Spec => []IInv
BY InitIInv, NextIInv, PTL DEF Spec

\* A chain within its bound is of one of the four kinds, with the clause that kind
\* is about.
THEOREM BuilderTypeCorrect == Spec => []TypeOK
<1>1. IInv => TypeOK
  BY DEF IInv, KindOK, TypeOK
<1> QED BY <1>1, Invariance, PTL
-----------------------------------------------------------------------------
(* The two ways to an operation *)

\* What build() hands to the constructor.
Clauses(q) ==
  [target      |-> [resource |-> Resource, schema |-> q.schema],
   kind        |-> q.kind,
   shape       |-> Shape(q.kind, q.traversal),
   projections |-> q.projections,
   filter      |-> q.predicate (+) AsConjunct(q.search),
   joins       |-> q.joins,
   grouping    |-> q.grouping,
   aggregates  |-> q.aggregates,
   traversal   |-> q.traversal,
   order       |-> q.sorts,
   page        |-> q.page,
   consistency |-> q.consistency,
   budget      |-> q.budget,
   options     |-> q.options]

\* What normalize_builder() hands to it again.
Normalized(op, scope, resolves) ==
  [op EXCEPT !.filter = @ (+) scope, !.traversal = Resolve(@, resolves),
             !.options = WithScope(@, scope)]

\* A traversal stays one whether or not its neighbours are resolved.
LEMMA ResolvedIsTraversal ==
  ASSUME NEW t \in Traversals \cup {NoTraversal}, NEW resolves
  PROVE  Resolve(t, resolves) # NoTraversal <=> t # NoTraversal
<1>1. ASSUME t # NoTraversal PROVE Resolve(t, resolves) # NoTraversal
  <2>1. t = [f \in TraversalFields |-> t[f]]
    BY <1>1, BuilderAssumption
  <2>2. "relations" \in DOMAIN Resolve(t, resolves)
    BY <2>1 DEF Resolve, TraversalFields
  <2> QED BY <2>2 DEF NoTraversal
<1>2. ASSUME t = NoTraversal PROVE Resolve(t, resolves) = NoTraversal
  BY <1>2 DEF Resolve
<1> QED BY <1>1, <1>2

\* The second construction refuses what the first one does: neither looks at the
\* filter, the options or the neighbours.
LEMMA BuilderOutcome ==
  ASSUME NEW q, Shaped(q), NEW scope, NEW resolves
  PROVE  NormalizeBuilder(q, scope, resolves)
           = Construct(Normalized(Clauses(q), scope, resolves))
<1> DEFINE op == Clauses(q)
           new == Normalized(op, scope, resolves)
<1>1. Build(q) = Construct(op)
  BY DEF Build, Clauses
<1>2. op # Invalid
  BY DEF Clauses, Invalid
<1>3. /\ new.target = op.target /\ new.joins = op.joins /\ new.kind = op.kind
      /\ new.aggregates = op.aggregates /\ new.grouping = op.grouping
      /\ new.projections = op.projections
      /\ new.traversal = Resolve(op.traversal, resolves)
  BY DEF Clauses, Normalized
<1>4. op.traversal \in Traversals \cup {NoTraversal}
  BY DEF Clauses, Shaped
<1> HIDE DEF op
<1>5. WellFormed(new) <=> WellFormed(op)
  <2>1. Targets(new) = Targets(op) /\ Aliases(new) = Aliases(op)
    BY <1>3 DEF Targets, Aliases
  <2>2. new.traversal # NoTraversal <=> op.traversal # NoTraversal
    BY <1>3, <1>4, ResolvedIsTraversal
  <2> HIDE DEF new
  <2> QED BY <1>3, <2>1, <2>2 DEF WellFormed
<1>6. NormalizeBuilder(q, scope, resolves) = IF Build(q) = Invalid THEN Invalid ELSE
        Construct(Normalized(Build(q), scope, resolves))
  BY DEF NormalizeBuilder, Normalized
<1>7. CASE WellFormed(op)
  BY <1>1, <1>2, <1>6, <1>7 DEF Construct, op
<1>8. CASE ~WellFormed(op)
  BY <1>1, <1>5, <1>6, <1>8 DEF Construct, op
<1> QED BY <1>7, <1>8

\* What the arguments of an Expression are read back as.
LEMMA ArgumentFacts ==
  ASSUME NEW q, Shaped(q), KindOK(q), Expressible(q), NEW e, e = ExpressionOf(q)
  PROVE  /\ Argument(e, "where", EmptyBag) = q.predicate
         /\ Argument(e, "query", NoMatch) = q.search
         /\ Argument(e, "select", <<>>) = q.projections
         /\ Argument(e, "groupBy", <<>>) = q.grouping
         /\ Argument(e, "metrics", <<>>) = q.aggregates
         /\ Argument(e, "traversal", NoTraversal) = q.traversal
         /\ Argument(e, "orderBy", <<>>) = q.sorts
         /\ PageOf(e) = q.page
         /\ (IF e.method = "query" THEN "scan" ELSE e.method) = q.kind
<1>1. /\ e.arguments = Arguments(q)
      /\ e.method = IF q.kind = "scan" THEN "query" ELSE q.kind
      /\ e.continuation = Continuation(q)
  BY DEF ExpressionOf
<1>2. q.page = [size |-> q.page.size, cursor |-> q.page.cursor, pointInTime |-> q.page.pointInTime]
  BY BuilderAssumption DEF Shaped, PageFields
<1>3. CASE q.kind = "scan"
  <2>1. Arguments(q) = [where |-> q.predicate, select |-> q.projections, orderBy |-> q.sorts,
                        limit |-> q.page.size]
    BY <1>3 DEF Arguments
  <2>2. Continuation(q) = [pointInTime |-> q.page.pointInTime, cursor |-> q.page.cursor]
    BY <1>3 DEF Continuation
  <2>3. /\ q.search = NoMatch /\ q.grouping = <<>> /\ q.aggregates = <<>>
        /\ q.traversal = NoTraversal
    BY <1>3 DEF KindOK
  <2> QED BY <1>1, <1>2, <1>3, <2>1, <2>2, <2>3 DEF Argument, PageOf
<1>4. CASE q.kind = "search"
  <2>1. Arguments(q) = [query |-> q.search, where |-> q.predicate, orderBy |-> q.sorts,
                        limit |-> q.page.size]
    BY <1>4 DEF Arguments
  <2>2. Continuation(q) = [pointInTime |-> q.page.pointInTime, cursor |-> q.page.cursor]
    BY <1>4 DEF Continuation
  <2>3. /\ q.projections = <<>> /\ q.grouping = <<>> /\ q.aggregates = <<>>
        /\ q.traversal = NoTraversal
    BY <1>4 DEF Expressible
  <2> QED BY <1>1, <1>2, <1>4, <2>1, <2>2, <2>3 DEF Argument, PageOf
<1>5. CASE q.kind = "aggregate"
  <2>1. Arguments(q) = [metrics |-> q.aggregates, groupBy |-> q.grouping, where |-> q.predicate]
    BY <1>5 DEF Arguments
  <2>2. /\ q.projections = <<>> /\ q.sorts = <<>> /\ q.page = DefaultPage
        /\ q.search = NoMatch /\ q.traversal = NoTraversal
    BY <1>5 DEF Expressible
  <2> QED BY <1>1, <1>5, <2>1, <2>2 DEF Argument, PageOf
<1>6. CASE q.kind = "traverse"
  <2>1. Arguments(q) = [traversal |-> q.traversal]
    BY <1>6 DEF Arguments
  <2>2. /\ q.projections = <<>> /\ q.sorts = <<>> /\ q.page = DefaultPage
        /\ q.search = NoMatch /\ q.predicate = EmptyBag
        /\ q.grouping = <<>> /\ q.aggregates = <<>>
    BY <1>6 DEF Expressible
  <2> QED BY <1>1, <1>6, <2>1, <2>2 DEF Argument, PageOf
<1> QED BY <1>3, <1>4, <1>5, <1>6 DEF KindOK

OperationFields ==
  {"target", "kind", "shape", "projections", "filter", "joins", "grouping", "aggregates",
   "traversal", "order", "page", "consistency", "budget", "options"}

\* What the builder's way hands to the constructor last, field by field.
LEMMA BuiltFields ==
  ASSUME NEW q, NEW scope, NEW resolves,
         NEW new, new = Normalized(Clauses(q), scope, resolves)
  PROVE  /\ new = [f \in OperationFields |-> new[f]]
         /\ new.target = [resource |-> Resource, schema |-> q.schema]
         /\ new.kind = q.kind
         /\ new.shape = Shape(q.kind, q.traversal)
         /\ new.projections = q.projections
         /\ new.filter = (q.predicate (+) AsConjunct(q.search)) (+) scope
         /\ new.joins = q.joins
         /\ new.grouping = q.grouping
         /\ new.aggregates = q.aggregates
         /\ new.traversal = Resolve(q.traversal, resolves)
         /\ new.order = q.sorts
         /\ new.page = q.page
         /\ new.consistency = q.consistency
         /\ new.budget = q.budget
         /\ new.options = WithScope(q.options, scope)
<1> DEFINE op == Clauses(q)
<1>1. op = [f \in OperationFields |-> op[f]]
  BY DEF Clauses, OperationFields
<1>2. /\ op.target = [resource |-> Resource, schema |-> q.schema]
      /\ op.kind = q.kind /\ op.shape = Shape(q.kind, q.traversal)
      /\ op.projections = q.projections
      /\ op.filter = q.predicate (+) AsConjunct(q.search)
      /\ op.joins = q.joins /\ op.grouping = q.grouping /\ op.aggregates = q.aggregates
      /\ op.traversal = q.traversal /\ op.order = q.sorts /\ op.page = q.page
      /\ op.consistency = q.consistency /\ op.budget = q.budget /\ op.options = q.options
  BY DEF Clauses
<1> DEFINE filter == op.filter (+) scope
           neighbours == Resolve(op.traversal, resolves)
           options == WithScope(op.options, scope)
<1>3. new = [op EXCEPT !.filter = filter, !.traversal = neighbours, !.options = options]
  BY DEF Normalized
<1> HIDE DEF op, filter, neighbours, options
<1>4. /\ new = [f \in OperationFields |-> new[f]]
      /\ new.filter = filter /\ new.traversal = neighbours /\ new.options = options
      /\ \A f \in OperationFields \ {"filter", "traversal", "options"} : new[f] = op[f]
  BY <1>1, <1>3 DEF OperationFields
<1>5. /\ filter = (q.predicate (+) AsConjunct(q.search)) (+) scope
      /\ neighbours = Resolve(q.traversal, resolves) /\ options = WithScope(q.options, scope)
  BY <1>2 DEF filter, neighbours, options
<1> QED BY <1>2, <1>4, <1>5 DEF OperationFields

\* The two ways meet for every expressible query.
LEMMA WaysMeet ==
  ASSUME NEW q, Shaped(q), KindOK(q), Expressible(q), NEW scope \in Scopes, NEW resolves
  PROVE  NormalizeExpression(ExpressionOf(q), scope, resolves)
           = NormalizeBuilder(q, scope, resolves)
<1> DEFINE e == ExpressionOf(q)
           where == Argument(e, "where", EmptyBag)
           match == Argument(e, "query", NoMatch)
           traversal == Argument(e, "traversal", NoTraversal)
           kind == IF e.method = "query" THEN "scan" ELSE e.method
           received ==
             [target      |-> [resource |-> e.resource, schema |-> NoSchema],
              kind        |-> kind,
              shape       |-> Shape(kind, traversal),
              projections |-> Argument(e, "select", <<>>),
              filter      |-> (where (+) scope) (+) AsConjunct(match),
              joins       |-> e.joins,
              grouping    |-> Argument(e, "groupBy", <<>>),
              aggregates  |-> Argument(e, "metrics", <<>>),
              traversal   |-> Resolve(traversal, resolves),
              order       |-> Argument(e, "orderBy", <<>>),
              page        |-> PageOf(e),
              consistency |-> e.consistency,
              budget      |-> e.budget,
              options     |-> WithScope(e.options, scope)]
<1>1. NormalizeExpression(e, scope, resolves) = Construct(received)
  BY DEF NormalizeExpression
<1>2. /\ e.resource = Resource /\ e.joins = q.joins /\ e.consistency = q.consistency
      /\ e.budget = q.budget /\ e.options = q.options
  BY DEF ExpressionOf
<1>3. /\ where = q.predicate /\ match = q.search /\ traversal = q.traversal
      /\ kind = q.kind /\ PageOf(e) = q.page
      /\ Argument(e, "select", <<>>) = q.projections
      /\ Argument(e, "groupBy", <<>>) = q.grouping
      /\ Argument(e, "metrics", <<>>) = q.aggregates
      /\ Argument(e, "orderBy", <<>>) = q.sorts
  BY ArgumentFacts
<1>4. (q.predicate (+) scope) (+) AsConjunct(q.search)
        = (q.predicate (+) AsConjunct(q.search)) (+) scope
  BY UnionCommutes, SmallBags, BuilderAssumption DEF Shaped
<1>5. q.schema = NoSchema
  BY DEF Expressible
<1> HIDE DEF e, where, match, traversal, kind
<1>6. received = Normalized(Clauses(q), scope, resolves)
  <2> DEFINE new == Normalized(Clauses(q), scope, resolves)
  <2>1. \A f \in OperationFields : received[f] = new[f]
    <3>1. /\ Shape(kind, traversal) = Shape(q.kind, q.traversal)
          /\ Resolve(traversal, resolves) = Resolve(q.traversal, resolves)
          /\ WithScope(e.options, scope) = WithScope(q.options, scope)
          /\ (where (+) scope) (+) AsConjunct(match)
               = (q.predicate (+) AsConjunct(q.search)) (+) scope
      BY <1>2, <1>3, <1>4
    <3>2. /\ received.target = [resource |-> e.resource, schema |-> NoSchema]
          /\ received.kind = kind /\ received.shape = Shape(kind, traversal)
          /\ received.projections = Argument(e, "select", <<>>)
          /\ received.filter = (where (+) scope) (+) AsConjunct(match)
          /\ received.joins = e.joins
          /\ received.grouping = Argument(e, "groupBy", <<>>)
          /\ received.aggregates = Argument(e, "metrics", <<>>)
          /\ received.traversal = Resolve(traversal, resolves)
          /\ received.order = Argument(e, "orderBy", <<>>)
          /\ received.page = PageOf(e) /\ received.consistency = e.consistency
          /\ received.budget = e.budget
          /\ received.options = WithScope(e.options, scope)
      OBVIOUS
    <3>3. /\ new.target = [resource |-> Resource, schema |-> NoSchema]
          /\ new.kind = q.kind /\ new.shape = Shape(q.kind, q.traversal)
          /\ new.projections = q.projections
          /\ new.filter = (q.predicate (+) AsConjunct(q.search)) (+) scope
          /\ new.joins = q.joins /\ new.grouping = q.grouping
          /\ new.aggregates = q.aggregates
          /\ new.traversal = Resolve(q.traversal, resolves)
          /\ new.order = q.sorts /\ new.page = q.page
          /\ new.consistency = q.consistency /\ new.budget = q.budget
          /\ new.options = WithScope(q.options, scope)
      BY <1>5, BuiltFields
    <3> HIDE DEF received, new
    <3>4. /\ received.target = new.target /\ received.kind = new.kind
          /\ received.shape = new.shape /\ received.projections = new.projections
          /\ received.filter = new.filter /\ received.joins = new.joins
          /\ received.grouping = new.grouping /\ received.aggregates = new.aggregates
          /\ received.traversal = new.traversal /\ received.order = new.order
          /\ received.page = new.page /\ received.consistency = new.consistency
          /\ received.budget = new.budget /\ received.options = new.options
      BY <1>2, <1>3, <3>1, <3>2, <3>3
    <3> QED BY <3>4 DEF OperationFields
  <2>2. received = [f \in OperationFields |-> received[f]]
    BY DEF OperationFields
  <2>3. new = [f \in OperationFields |-> new[f]]
    BY BuiltFields
  <2> HIDE DEF received, new
  <2> QED BY <2>1, <2>2, <2>3 DEF new
<1> QED BY <1>1, <1>6, BuilderOutcome DEF e

\* The two ways meet: an expressible query normalizes to the same operation, or is
\* refused on both, whatever chain of calls it comes from
\* (builder/__init__.py:286-389, normalize/__init__.py:49-200).
THEOREM WaysMeetAlways == Spec => []WaysAgree
<1>1. IInv => WaysAgree
  BY WaysMeet DEF IInv, WaysAgree
<1> QED BY <1>1, Invariance, PTL
-----------------------------------------------------------------------------
(* The scope *)

LEMMA BuilderKeepsScope ==
  ASSUME NEW q, Shaped(q), NEW scope \in Scopes, scope # EmptyBag, NEW resolves, NEW op,
         op = NormalizeBuilder(q, scope, resolves), op # Invalid
  PROVE  scope \sqsubseteq op.filter /\ op.options.scopeInjected
<1> DEFINE predicate == q.predicate (+) AsConjunct(q.search)
<1>1. op = Normalized(Clauses(q), scope, resolves)
  BY BuilderOutcome DEF Construct
<1>2. IsABag(predicate) /\ IsABag(scope)
  BY UnionIsBag, SmallBags, BuilderAssumption DEF Shaped
<1>3. op.filter = predicate (+) scope
  BY <1>1 DEF Normalized, Clauses
<1>4. op.options = WithScope(q.options, scope)
  BY <1>1 DEF Normalized, Clauses
<1>5. op.options.scopeInjected
  BY <1>4 DEF WithScope, Shaped, HintFields
<1> HIDE DEF predicate
<1> QED BY <1>2, <1>3, <1>5, UnionContains

LEMMA ExpressionKeepsScope ==
  ASSUME NEW q, Shaped(q), KindOK(q), NEW scope \in Scopes, scope # EmptyBag, NEW resolves,
         NEW op, op = NormalizeExpression(ExpressionOf(q), scope, resolves), op # Invalid
  PROVE  scope \sqsubseteq op.filter /\ op.options.scopeInjected
<1> DEFINE e == ExpressionOf(q)
           where == Argument(e, "where", EmptyBag)
           match == AsConjunct(Argument(e, "query", NoMatch))
<1>1. /\ op.filter = (where (+) scope) (+) match
      /\ op.options = WithScope(e.options, scope)
  BY DEF NormalizeExpression, Construct
<1>2. e.options = q.options /\ e.arguments = Arguments(q)
  BY DEF ExpressionOf
<1> HIDE DEF e
<1>3. where \in {q.predicate, EmptyBag}
  <2>1. CASE q.kind \in {"scan", "search", "aggregate"}
    BY <1>2, <2>1 DEF Arguments, Argument
  <2>2. CASE q.kind = "traverse"
    BY <1>2, <2>2 DEF Arguments, Argument
  <2> QED BY <2>1, <2>2 DEF KindOK
<1>4. IsABag(where) /\ IsABag(scope) /\ IsABag(match)
  BY <1>3, SmallBags, BuilderAssumption DEF Shaped
<1>5. op.options.scopeInjected
  BY <1>1, <1>2 DEF WithScope, Shaped, HintFields
<1> HIDE DEF where, match
<1>6. /\ scope \sqsubseteq where (+) scope
      /\ IsABag(where (+) scope)
      /\ where (+) scope \sqsubseteq (where (+) scope) (+) match
      /\ IsABag((where (+) scope) (+) match)
  BY <1>4, UnionContains, UnionIsBag
<1>7. scope \sqsubseteq (where (+) scope) (+) match
  BY <1>4, <1>6, ContainsTransitive
<1> QED BY <1>1, <1>5, <1>7

\* No chain of calls removes the scope: what normalizes, either way, carries every
\* injected conjunct as often as it was injected, and says so
\* (normalize/__init__.py:65-66,131-132,194-200).
THEOREM ScopeAlwaysSurvives == Spec => []ScopeSurvives
<1>1. IInv => ScopeSurvives
  BY BuilderKeepsScope, ExpressionKeepsScope DEF IInv, ScopeSurvives
<1> QED BY <1>1, Invariance, PTL
=============================================================================
