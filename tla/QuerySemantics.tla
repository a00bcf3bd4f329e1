--------------------------- MODULE QuerySemantics ---------------------------
(***************************************************************************)
(* The deterministic rules a logical query goes through: resolution of its *)
(* Resources, completion of its order, validation against a RegistryView,  *)
(* inference of its requirements and selection of an implementation for    *)
(* each (meridian_storage.query.validation, .requirements, .adapter,       *)
(* .planner).  Everything here is a function of its arguments; who calls   *)
(* it when, and with which registry, is QueryPipeline's.                   *)
(*                                                                         *)
(* Expressions are kept to what the rules look at: a filter is the set of  *)
(* its conjuncts, a conjunct the operator it applies to one field.         *)
(***************************************************************************)
EXTENDS Integers, Sequences, FiniteSets, Functions

CONSTANTS
  Unqualified,     \* a field reference that names no Resource
  Untyped,         \* a conjunct without a typed literal
  NoSchema,        \* a target that pins no Schema
  NoFingerprint,
  NoEstimate       \* an absent estimatedRows or estimatedBytes option

\* An operation without a traversal: no record of a traversal's fields.
NoTraversal == [absent |-> TRUE]

\* A sha256 fingerprint, free of collisions.
Sha256(x) == [sha256 |-> x]

IsList(x) == x \in Seq(Range(x))

Smaller(a, b) == IF a <= b THEN a ELSE b

When(condition, code) == IF condition THEN {code} ELSE {}

BudgetFields ==
  {"deadlineMs", "resultValues", "resultBytes", "traversalDepth", "relationResources",
   "visitedValues", "returnedPaths", "membershipNames", "facets", "residualRows",
   "residualBytes"}
-----------------------------------------------------------------------------
(* Parts of an operation *)

OperationFields ==
  {"kind", "primary", "joins", "filter", "projection", "grouping", "measures", "order",
   "traversal", "page", "consistency", "budget", "options"}

TraversalFields == {"start", "relations", "allNeighbors", "maxDepth", "filter", "fingerprint"}

OptionFields == {"scopeInjected", "rows", "bytes"}

Dynamic(op) == op.traversal # NoTraversal /\ op.traversal.allNeighbors

Relations(op) == IF op.traversal = NoTraversal THEN {} ELSE op.traversal.relations

Targets(op) == {op.primary} \cup {join.target : join \in op.joins}

\* QueryOperation.resources
Resources(op) == {target.resource : target \in Targets(op)} \cup Relations(op)

\* The conjuncts an operation carries, wherever they stand.
Conjuncts(op) ==
  op.filter \cup (UNION {join.on : join \in op.joins})
    \cup (IF op.traversal = NoTraversal THEN {} ELSE op.traversal.filter)

\* The fields an operation refers to outside its conjuncts.
PlainFields(op) ==
  op.projection \cup op.grouping \cup {m.field : m \in op.measures}
    \cup {sort.field : sort \in Range(op.order)}

Matches(op) == {c \in Conjuncts(op) : c.operator = "fullText"}
Distances(op) == {c \in Conjuncts(op) : c.operator = "distanceWithin"}
TimeRanges(op) == {c \in Conjuncts(op) : c.operator = "timestampRange"}
Memberships(op) == {c \in Conjuncts(op) : c.operator \in {"in", "notIn"}}

Greatest(S) == CHOOSE x \in S \cup {0} : \A y \in S \cup {0} : y <= x

LargestMembership(op) == Greatest({c.members : c \in Memberships(op)})
LargestFacets(op) == Greatest({Cardinality(c.facets) : c \in Matches(op)})
-----------------------------------------------------------------------------
(* Resolution *)

Registered(registry, r) == r \in DOMAIN registry.resources

Resolved(registry, r) == registry.resources[r]

\* Why an operation's Resources cannot all be resolved.  Which of several
\* unresolved Resources is reported, the first in name order, is left open.
UnknownResource(op, registry) == \E r \in Resources(op) : ~Registered(registry, r)

UnknownSchema(op, registry) ==
  \E t \in Targets(op) :
    /\ Registered(registry, t.resource)
    /\ t.schema # NoSchema
    /\ t.schema # Resolved(registry, t.resource).schema.ref

ResolutionErrors(op, registry) ==
  When(UnknownResource(op, registry), "UNKNOWN_RESOURCE")
    \cup When(UnknownSchema(op, registry), "UNKNOWN_SCHEMA")

BindingsOf(op, registry) == {Resolved(registry, r).binding : r \in Resources(op)}

OneBinding(op, registry) ==
  \E b \in BindingsOf(op, registry) : BindingsOf(op, registry) = {b}

SchemasOf(op, registry) == [r \in Resources(op) |-> Sha256(Resolved(registry, r).schema)]

PrimarySchema(op, registry) == Resolved(registry, op.primary.resource).schema

\* _field_definition: the Resources in which a reference may find its field.
Candidates(op, field) ==
  CASE field.on # Unqualified -> {field.on} \cap Resources(op)
    [] field.on = Unqualified /\ Cardinality(Resources(op)) > 1 -> {}
    [] OTHER -> Resources(op)

KindsOf(op, registry, field) ==
  {Resolved(registry, r).schema.fields[field.name] :
     r \in {x \in Candidates(op, field) : field.name \in DOMAIN Resolved(registry, x).schema.fields}}

FieldResolves(op, registry, field) == KindsOf(op, registry, field) # {}
-----------------------------------------------------------------------------
(* _ensure_order: the primary Record identity becomes the keyset tie-breaker *)

Qualifier(op) == IF Cardinality(Resources(op)) > 1 THEN op.primary.resource ELSE Unqualified

Ordered(op, name) ==
  \E sort \in Range(op.order) :
    sort.field.name = name /\ sort.field.on \in {Qualifier(op), Unqualified}

\* The positions of the identity fields that the order does not have yet, and the
\* k-th of the positions in a set.
MissingAt(op, identity) == {i \in DOMAIN identity : ~Ordered(op, identity[i])}

Nth(positions, k) ==
  CHOOSE i \in positions : Cardinality({j \in positions : j <= i}) = k

TieBreaker(op, name) == [field |-> [name |-> name, on |-> Qualifier(op)], direction |-> "asc"]

\* Slip: only the first missing identity field is appended.
TieBreakersFirst(op, identity) ==
  LET missing == MissingAt(op, identity)
  IN  [k \in 1..Smaller(1, Cardinality(missing)) |-> TieBreaker(op, identity[Nth(missing, k)])]

TieBreakers(op, identity) ==
  LET missing == MissingAt(op, identity)
  IN  [k \in 1..Cardinality(missing) |-> TieBreaker(op, identity[Nth(missing, k)])]

Paginated(op) == op.kind \in {"scan", "search"}

\* Slip: an order the consumer asked for is taken as total.
EnsureOrderWhenAbsent(op, registry) ==
  IF Paginated(op) /\ op.order = <<>>
  THEN [op EXCEPT !.order = TieBreakers(op, PrimarySchema(op, registry).identity)]
  ELSE op

EnsureOrder(op, registry) ==
  IF Paginated(op)
  THEN [op EXCEPT !.order = @ \o TieBreakers(op, PrimarySchema(op, registry).identity)]
  ELSE op

OrderErrors(op, registry) ==
  When(Paginated(op) /\ PrimarySchema(op, registry).identity = <<>>, "NONDETERMINISTIC_ORDER")
-----------------------------------------------------------------------------
(* _validate_budget and _validate_scope *)

\* Slip: any registered profile will do.
WithinSomeProfile(budget, registry) ==
  \E profile \in DOMAIN registry.profiles :
    \A f \in BudgetFields : budget.limits[f] <= registry.profiles[profile][f]

WithinProfile(budget, registry) ==
  /\ budget.profile \in DOMAIN registry.profiles
  /\ \A f \in BudgetFields : budget.limits[f] <= registry.profiles[budget.profile][f]

WithinBudget(op) ==
  /\ op.page.size <= op.budget.limits["resultValues"]
  /\ LargestMembership(op) <= op.budget.limits["membershipNames"]
  /\ LargestFacets(op) <= op.budget.limits["facets"]
  /\ op.traversal # NoTraversal =>
       /\ op.traversal.maxDepth <= op.budget.limits["traversalDepth"]
       /\ Cardinality(op.traversal.relations) <= op.budget.limits["relationResources"]

BudgetErrors(op, registry) ==
  When(~(WithinProfile(op.budget, registry) /\ WithinBudget(op)), "EXCESSIVE_BUDGET")

RequiresScope(op, registry) == \E r \in Resources(op) : Resolved(registry, r).scope # {}

ScopeErrors(op, registry) ==
  When(RequiresScope(op, registry) /\ ~op.options.scopeInjected, "SCOPE_REQUIRED")
-----------------------------------------------------------------------------
(* _validate_expressions: logical types *)

Kinds == {"string", "int64", "float64", "boolean", "timestamp", "json", "point"}
Numeric == {"int64", "float64"}
Orderable == Numeric \cup {"string", "timestamp"}

Comparisons == {"eq", "ne", "lt", "lte", "gt", "gte"}
Orderings == {"lt", "lte", "gt", "gte"}

\* _require_kinds: the kinds an operator accepts of the field it applies to.
AcceptedKinds(operator) ==
  CASE operator \in Orderings          -> Orderable
    [] operator = "prefix"             -> {"string"}
    [] operator = "contains"           -> {"string", "json"}
    [] operator = "timestampRange"     -> {"timestamp"}
    [] operator = "fullText"           -> {"string"}
    [] operator = "distanceWithin"     -> {"point"}
    [] OTHER                           -> Kinds

\* _require_compatible: one kind, or two numeric ones.
Compatible(kind, other) == kind = other \/ {kind, other} \subseteq Numeric

ConjunctTyped(op, registry, c) ==
  /\ FieldResolves(op, registry, c.field)
  /\ \A kind \in KindsOf(op, registry, c.field) :
       /\ kind \in AcceptedKinds(c.operator)
       /\ c.operator \in Comparisons \cup {"in", "notIn"} /\ c.literal # Untyped
            => Compatible(kind, c.literal)
  /\ c.operator \in Orderings /\ c.literal # Untyped => c.literal \in Orderable
  /\ c.operator = "timestampRange" => c.literal \in {Untyped, "timestamp"}

MeasureTyped(op, registry, m) ==
  m.function \in {"sum", "avg", "percentile"} => KindsOf(op, registry, m.field) \subseteq Numeric

ExpressionErrors(op, registry) ==
  When(\/ \E c \in Conjuncts(op) : ~ConjunctTyped(op, registry, c)
       \/ \E f \in PlainFields(op) : ~FieldResolves(op, registry, f)
       \/ \E m \in op.measures : ~MeasureTyped(op, registry, m),
       "FIELD_TYPE_MISMATCH")
-----------------------------------------------------------------------------
(* _validate_profiles *)

\* A full-text request stays within the search profile of the primary Schema.
WithinSearchProfile(c, profile) ==
  /\ c.field.name \in profile.covers
  /\ c.facets \subseteq profile.facets

SearchOK(op, profile) ==
  /\ op.kind = "search" => Matches(op) # {} /\ profile.kind = "fullText"
  /\ profile.kind = "fullText" => \A c \in Matches(op) : WithinSearchProfile(c, profile)

DistanceOK(op, registry) ==
  \A c \in Distances(op), r \in Resources(op) :
    r \in Candidates(op, c.field) =>
      LET profile == Resolved(registry, r).schema.profile
      IN  profile.kind = "geospatial" /\ c.operator \in profile.covers

TimeRangeOK(op, profile) ==
  TimeRanges(op) # {} /\ profile.kind = "timeSeries" =>
    {c.field.name : c \in TimeRanges(op)} = profile.covers

ProfileErrors(op, registry) ==
  LET profile == PrimarySchema(op, registry).profile
  IN  When(~(SearchOK(op, profile) /\ DistanceOK(op, registry) /\ TimeRangeOK(op, profile)),
           "FIELD_TYPE_MISMATCH")

\* A traversal starts in its target, its closure is resolved, and every
\* Collection it crosses is a relation.
TraversalOK(op, registry) ==
  op.traversal # NoTraversal =>
    /\ op.traversal.start = op.primary.resource
    /\ Dynamic(op) => op.traversal.fingerprint # NoFingerprint
    /\ \A r \in op.traversal.relations : Resolved(registry, r).schema.profile.kind = "relation"

TraversalErrors(op, registry) == When(~TraversalOK(op, registry), "INVALID_TRAVERSAL")

\* Slip: an empty closure cannot be stale.
StaleClosureUnlessEmpty(op, fingerprint) ==
  /\ op.traversal # NoTraversal
  /\ op.traversal.relations # {}
  /\ op.traversal.fingerprint \notin {NoFingerprint, fingerprint}

\* The closure was derived from another registry than the one validated against.
StaleClosure(op, fingerprint) ==
  /\ op.traversal # NoTraversal
  /\ op.traversal.fingerprint # NoFingerprint
  /\ op.traversal.fingerprint # fingerprint
-----------------------------------------------------------------------------
(* validate_compile *)

Diagnosed(op, registry) ==
  OrderErrors(op, registry) \cup BudgetErrors(op, registry) \cup ScopeErrors(op, registry)
    \cup ExpressionErrors(op, registry) \cup ProfileErrors(op, registry)
    \cup TraversalErrors(op, registry)

\* _raise: the error that stands for a set of diagnostics.
Precedence == <<"EXCESSIVE_BUDGET", "INVALID_TRAVERSAL", "NONDETERMINISTIC_ORDER",
                "FIELD_TYPE_MISMATCH", "SCOPE_REQUIRED">>

Reported(codes) ==
  Precedence[CHOOSE i \in DOMAIN Precedence :
               /\ Precedence[i] \in codes
               /\ \A j \in 1..(i - 1) : Precedence[j] \notin codes]

\* Slip: a stale closure is diagnosed like any other before it is found stale.
ValidationErrorsStaleLast(op, registry) ==
  IF ResolutionErrors(op, registry) # {} THEN ResolutionErrors(op, registry)
  ELSE IF ~OneBinding(op, registry) THEN {"CROSS_BINDING"}
  ELSE LET codes == Diagnosed(EnsureOrder(op, registry), registry)
       IN  IF codes # {} THEN {Reported(codes)}
           ELSE When(Dynamic(op) /\ StaleClosure(op, registry.fingerprint), "STALE_REGISTRY")

\* The errors validate_compile may end with; none when the operation is valid.
\* Resolution comes first, then the Binding, then a stale closure, which is
\* raised at once, then what was diagnosed.
ValidationErrors(op, registry) ==
  IF ResolutionErrors(op, registry) # {} THEN ResolutionErrors(op, registry)
  ELSE IF ~OneBinding(op, registry) THEN {"CROSS_BINDING"}
  ELSE IF Dynamic(op) /\ StaleClosure(op, registry.fingerprint) THEN {"STALE_REGISTRY"}
  ELSE LET codes == Diagnosed(EnsureOrder(op, registry), registry)
       IN  IF codes = {} THEN {} ELSE {Reported(codes)}
-----------------------------------------------------------------------------
(* infer_requirements *)

\* The operators an expression is built with; a filter of several conjuncts is
\* their "and".  The operators of leaves ("field", "literal") are left out.
Operators(op) ==
  {c.operator : c \in Conjuncts(op)} \cup When(Cardinality(op.filter) > 1, "and")
    \cup {m.function : m \in op.measures}

\* _logical_types: the kinds of the typed literals and of the fields referred to.
LogicalTypes(op, registry) ==
  ({c.literal : c \in Conjuncts(op)} \ {Untyped})
    \cup (UNION {KindsOf(op, registry, c.field) : c \in Conjuncts(op)})
    \cup (UNION {KindsOf(op, registry, f) : f \in PlainFields(op)})

OrderTypes(op, registry) == UNION {KindsOf(op, registry, sort.field) : sort \in Range(op.order)}

NoLimits == [name \in {} |-> 0]

Requirement(id, operators, types, limits, guarantees, features) ==
  [id |-> id, operators |-> operators, types |-> types, limits |-> limits,
   guarantees |-> guarantees, features |-> features]

OperationRequirement(op, registry) ==
  Requirement(<<"operation", op.kind>>, {op.kind}, LogicalTypes(op, registry),
    [pageSize     |-> op.page.size,
     resultValues |-> op.budget.limits["resultValues"],
     resultBytes  |-> op.budget.limits["resultBytes"],
     deadlineMs   |-> op.budget.limits["deadlineMs"]],
    {"single-binding"},
    When(op.page.pointInTime, "point-in-time"))

OperatorLimits(op, operator) ==
  CASE operator \in {"in", "notIn"} -> [membershipNames |-> LargestMembership(op)]
    [] operator = "fullText"        -> [facetBuckets |-> LargestFacets(op)]
    [] OTHER                        -> NoLimits

OperatorFeatures(op, operator) ==
  CASE operator = "fullText" -> When(LargestFacets(op) > 0, "facets") \cup {"analyzer", "ranking"}
    [] operator = "distanceWithin" -> {"crs", "distance-unit"}
    [] OTHER -> {}

OperatorRequirement(op, registry, operator) ==
  Requirement(<<"operator", operator>>, {operator}, LogicalTypes(op, registry),
    OperatorLimits(op, operator), {}, OperatorFeatures(op, operator))

KeysetRequirement(op, registry) ==
  Requirement(<<"pagination", "keyset">>, {"order"}, OrderTypes(op, registry),
    [pageSize |-> op.page.size], {}, {"live-keyset"})

TraversalRequirement(op) ==
  Requirement(<<"traversal", "bounded">>, {"traverse"}, {},
    [traversalDepth    |-> op.traversal.maxDepth,
     relationResources |-> Cardinality(op.traversal.relations),
     visitedValues     |-> op.budget.limits["visitedValues"],
     returnedPaths     |-> op.budget.limits["returnedPaths"]],
    {},
    {"simple-path", IF Dynamic(op) THEN "all-neighbors" ELSE "explicit-relations"})

InferRequirements(op, registry) ==
  {OperationRequirement(op, registry)}
    \cup {OperatorRequirement(op, registry, operator) : operator \in Operators(op)}
    \cup When(op.order # <<>>, KeysetRequirement(op, registry))
    \cup (IF op.traversal = NoTraversal THEN {} ELSE {TraversalRequirement(op)})
-----------------------------------------------------------------------------
(* QueryCapabilities *)

\* Invariants that rewrites and residual evaluation cannot bypass.
SupportsBase(capabilities, requirement, op) ==
  /\ op.kind \in capabilities.operations
  /\ op.consistency \in capabilities.consistency
  /\ requirement.types \subseteq capabilities.types
  /\ requirement.guarantees \subseteq capabilities.guarantees
  /\ \A name \in DOMAIN requirement.limits :
       /\ name \in DOMAIN capabilities.limits
       /\ requirement.limits[name] <= capabilities.limits[name]

Supports(capabilities, requirement, op) ==
  /\ SupportsBase(capabilities, requirement, op)
  /\ requirement.operators \subseteq capabilities.operators
  /\ requirement.features \subseteq capabilities.features

\* Semantic ids are tuples of their dotted parts; <<"*">> stands for all of them.
IsNative(capabilities, id) == <<"*">> \in capabilities.native \/ id \in capabilities.native
-----------------------------------------------------------------------------
(* QueryPlanner._select *)

EmptyClosure(op) == Dynamic(op) /\ op.traversal.relations = {}

Native(capabilities, requirement, op) ==
  Supports(capabilities, requirement, op) /\ IsNative(capabilities, requirement.id)

\* An equivalence is registered and everything it lowers to is native.
Rewritable(planner, requirement, op) ==
  /\ SupportsBase(planner.capabilities, requirement, op)
  /\ \E rule \in planner.rewrites :
       /\ rule.semantic = requirement.id
       /\ \A lower \in rule.lower : IsNative(planner.capabilities, lower)

\* A residual rule applies and both estimates are within both of their bounds,
\* so that its proof is called.
ResidualBounded(planner, requirement, op) ==
  /\ SupportsBase(planner.capabilities, requirement, op)
  /\ op.options.rows # NoEstimate /\ op.options.bytes # NoEstimate
  /\ \E rule \in planner.residuals :
       /\ rule.semantic = requirement.id
       /\ op.options.rows <= Smaller(rule.maxRows, op.budget.limits["residualRows"])
       /\ op.options.bytes <= Smaller(rule.maxBytes, op.budget.limits["residualBytes"])

Modes == {"NATIVE", "EXACT_REWRITE", "BOUNDED_RESIDUAL"}

\* What a residual proof that is called amounts to; it may raise.
ProofOutcome(verdict) ==
  CASE verdict = "proves"   -> "BOUNDED_RESIDUAL"
    [] verdict = "declines" -> "UNSUPPORTED_SEMANTIC"
    [] verdict = "raises"   -> "UNSAFE_RESIDUAL"

\* The mode selected for a requirement, or why there is none.  verdict is what
\* a residual proof answers when it is called.
Select(planner, requirement, op, verdict) ==
  IF EmptyClosure(op) THEN "EXACT_REWRITE"
  ELSE IF Native(planner.capabilities, requirement, op) THEN "NATIVE"
  ELSE IF Rewritable(planner, requirement, op) THEN "EXACT_REWRITE"
  ELSE IF ResidualBounded(planner, requirement, op) THEN ProofOutcome(verdict)
  ELSE "UNSUPPORTED_SEMANTIC"
=============================================================================
