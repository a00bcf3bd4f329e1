---------------------------- MODULE WireContract ----------------------------
(***************************************************************************)
(* The wire form of a query (meridian_storage.query.wire): what the        *)
(* constructors of a plan accept, again at every replace() a plan goes     *)
(* through, and the document it is exchanged as.  A plan is sent at any    *)
(* stage of its life; what arrives may have been written by another        *)
(* producer.                                                               *)
(*                                                                         *)
(* A document is a function from its keys.  Expressions, references and    *)
(* names are opaque: Expressions reads them back.  Fields that are only    *)
(* carried (version, consistency, direction, record filter, uniqueness)    *)
(* are left out, as is the order of predicates.                            *)
(***************************************************************************)
EXTENDS Integers, Sequences, FiniteSets, SequencesExt

CONSTANTS
  Plans,       \* what callers construct: [operation fields]
  Closures,    \* what all_neighbors resolvers return: [relations, fingerprint]
  Scopes,      \* scope filters, None among them
  Policies,    \* the extension keys a reader allows
  Foreign(_),  \* Foreign(d): the documents another producer may write for d
  None         \* no alias, Schema, cursor, fingerprint, scope filter, closure

PlanFields == {"catalog", "targets", "operation", "result", "filter", "joins", "grouping",
               "aggregates", "traversal", "order", "page", "budget", "options", "extensions"}
TraversalFields == {"start", "relations", "allNeighbors", "fingerprint", "minDepth", "maxDepth",
                    "predicates", "shape"}
PageKeys == {"size", "cursor"}

\* In the place of a plan, a traversal, a document or a reading that is not there.
Absent == [absent |-> TRUE]

\* from_mapping raised.
Refused == [refused |-> TRUE]

Resolutions == Closures \ {None}

\* _mapping and _array: a JSON object, a JSON array.
IsObject(v) == v = [key \in DOMAIN v |-> v[key]]
IsArray(v) == IsObject(v) /\ IsFiniteSet(DOMAIN v) /\ DOMAIN v = 1..Cardinality(DOMAIN v)
HasFields(v, fields) == IsObject(v) /\ DOMAIN v = fields

\* Callers leave a traversal unresolved, and a resolver names the registry it read.
ASSUME PlanAssumption ==
  /\ \A p \in Plans :
       /\ HasFields(p, PlanFields) /\ HasFields(p.page, PageKeys) /\ IsObject(p.options)
       /\ p.traversal # Absent =>
            /\ HasFields(p.traversal, TraversalFields)
            /\ p.traversal.fingerprint = None
            /\ IsArray(p.traversal.relations)
  /\ \A c \in Resolutions : c.fingerprint # None /\ IsArray(c.relations)

VARIABLES
  plan,        \* the QueryOperation, absent before its construction
  stage,       \* the last call that returned, or "raised"
  document,    \* what was sent
  foreign,     \* whether another producer wrote it
  received     \* the policy of its reader and the plan read, absent before

vars == <<plan, stage, document, foreign, received>>
-----------------------------------------------------------------------------
(* The constructors *)

\* Slip: a traversal has relations or is dynamic, never both.
TraversalAcceptedOnlyBefore(t) ==
  /\ t.allNeighbors \in BOOLEAN
  /\ (t.relations # <<>>) # t.allNeighbors
  /\ t.fingerprint # None => t.allNeighbors
  /\ t.minDepth \in 1..32 /\ t.maxDepth \in t.minDepth..32
  /\ DOMAIN t.predicates \subseteq ToSet(t.relations)

\* Slip: a registry fingerprint alone tells that a traversal is resolved.
TraversalAcceptedWhenNamed(t) ==
  /\ t.allNeighbors \in BOOLEAN
  /\ (t.relations # <<>>) = t.allNeighbors => t.fingerprint # None
  /\ t.minDepth \in 1..32 /\ t.maxDepth \in t.minDepth..32
  /\ DOMAIN t.predicates \subseteq ToSet(t.relations)

\* TraversalSpec.__post_init__
TraversalAccepted(t) ==
  /\ t.allNeighbors \in BOOLEAN
  /\ (t.relations # <<>>) = t.allNeighbors => t.fingerprint # None
  /\ t.fingerprint # None => t.allNeighbors
  /\ t.minDepth \in 1..32 /\ t.maxDepth \in t.minDepth..32
  /\ DOMAIN t.predicates \subseteq ToSet(t.relations)

\* Slip: the relations are kept as they are given.
SelectionAsGiven(t) == t

\* The relations of a traversal are sorted and unique.
Selection(t) == [t EXCEPT !.relations = SetToSeq(ToSet(@))]

ShapeOf(p) ==
  CASE p.traversal # Absent        -> p.traversal.shape
    [] p.operation = "aggregate" -> "aggregate"
    [] p.operation = "search"    -> "search"
    [] OTHER                     -> "records"

OptionKeys == {"estimatedBytes", "estimatedRows", "resultByteLimit", "scopeInjected"}

TargetsAccepted(p) ==
  /\ p.targets # <<>>
  /\ \A i, j \in DOMAIN p.targets : p.targets[i].resource = p.targets[j].resource => i = j
  /\ \A target \in ToSet(p.targets) :
       /\ target.resource.catalog = p.catalog
       /\ target.schema # None => target.schema.catalog = p.catalog
  /\ \A join \in ToSet(p.joins) : join.target \in ToSet(p.targets) /\ join.kind \in {"inner", "left"}

\* QueryOperation.__post_init__, and the constructors of its parts.
Accepted(p) ==
  /\ TargetsAccepted(p)
  /\ p.traversal # Absent <=> p.operation = "traverse"
  /\ p.traversal # Absent => TraversalAccepted(p.traversal)
  /\ p.operation = "aggregate" => p.aggregates # <<>>
  /\ p.operation # "aggregate" => p.aggregates = <<>> /\ p.grouping = <<>>
  /\ IsInjective(p.aggregates)
  /\ p.result.shape = ShapeOf(p)
  /\ IsInjective(SelectSeq(p.result.projection, LAMBDA alias : alias # None))
  /\ p.page.size \in 1..500
  /\ p.budget.limit > 0
  /\ DOMAIN p.options \subseteq OptionKeys

\* What a constructor makes of its arguments.
Constructed(p) == IF p.traversal = Absent THEN p ELSE [p EXCEPT !.traversal = Selection(@)]
-----------------------------------------------------------------------------
(* to_dict *)

\* Slip: a closure without relations is written without its registry.
SelectorWhenSelected(t) ==
  [kind |-> IF t.allNeighbors THEN "allNeighbors" ELSE "explicit",
   relationCollections |-> t.relations,
   registryFingerprint |-> IF t.relations = <<>> THEN None ELSE t.fingerprint]

Selector(t) ==
  [kind |-> IF t.allNeighbors THEN "allNeighbors" ELSE "explicit",
   relationCollections |-> t.relations,
   registryFingerprint |-> t.fingerprint]

TraversalDocument(t) ==
  IF t = Absent THEN Absent
  ELSE [start |-> t.start, relationSelector |-> Selector(t), minDepth |-> t.minDepth,
        maxDepth |-> t.maxDepth, relationPredicates |-> t.predicates, resultShape |-> t.shape]

\* The budget is written among the options.
Document(p) ==
  [catalog |-> p.catalog, targets |-> p.targets, operation |-> p.operation, result |-> p.result,
   filter |-> p.filter, joins |-> p.joins, grouping |-> p.grouping, aggregates |-> p.aggregates,
   traversal |-> TraversalDocument(p.traversal), order |-> p.order, page |-> p.page,
   options |-> [key \in DOMAIN p.options \cup {"budget"} |->
                  IF key = "budget" THEN p.budget ELSE p.options[key]],
   extensions |-> p.extensions]
-----------------------------------------------------------------------------
(* from_mapping *)

RootKeys == {"catalog", "targets", "operation", "result", "filter", "joins", "grouping",
             "aggregates", "traversal", "order", "page", "options", "extensions"}
TraversalKeys == {"start", "relationSelector", "minDepth", "maxDepth", "relationPredicates",
                  "resultShape"}
SelectorKeys == {"kind", "relationCollections", "registryFingerprint"}

\* Slip: a selector may hold more than it has to.
TraversalReadableLoosely(t) ==
  /\ HasFields(t, TraversalKeys)
  /\ IsObject(t.relationSelector) /\ SelectorKeys \subseteq DOMAIN t.relationSelector
  /\ t.relationSelector.kind \in {"explicit", "allNeighbors"}
  /\ IsArray(t.relationSelector.relationCollections)

TraversalReadable(t) ==
  /\ HasFields(t, TraversalKeys) /\ HasFields(t.relationSelector, SelectorKeys)
  /\ t.relationSelector.kind \in {"explicit", "allNeighbors"}
  /\ IsArray(t.relationSelector.relationCollections)

Readable(d, policy) ==
  /\ HasFields(d, RootKeys) /\ HasFields(d.page, PageKeys)
  /\ IsObject(d.options) /\ "budget" \in DOMAIN d.options
  /\ DOMAIN d.extensions \subseteq policy
  /\ d.traversal # Absent => TraversalReadable(d.traversal)

TraversalRead(t) ==
  IF t = Absent THEN Absent
  ELSE [start |-> t.start, relations |-> t.relationSelector.relationCollections,
        allNeighbors |-> t.relationSelector.kind = "allNeighbors",
        fingerprint |-> t.relationSelector.registryFingerprint,
        minDepth |-> t.minDepth, maxDepth |-> t.maxDepth,
        predicates |-> t.relationPredicates, shape |-> t.resultShape]

Read(d) ==
  [catalog |-> d.catalog, targets |-> d.targets, operation |-> d.operation, result |-> d.result,
   filter |-> d.filter, joins |-> d.joins, grouping |-> d.grouping, aggregates |-> d.aggregates,
   traversal |-> TraversalRead(d.traversal), order |-> d.order, page |-> d.page,
   budget |-> d.options["budget"],
   options |-> [key \in DOMAIN d.options \ {"budget"} |-> d.options[key]],
   extensions |-> d.extensions]

\* QueryOperation.from_mapping
FromMapping(d, policy) ==
  IF Readable(d, policy) /\ Accepted(Read(d)) THEN Constructed(Read(d)) ELSE Refused
-----------------------------------------------------------------------------
(* A plan's life *)

Init == plan = Absent /\ stage = "idle" /\ document = Absent /\ foreign = FALSE /\ received = Absent

\* The next stage of the plan, p, is constructed or its constructor raises.
Advances(from, p, to) ==
  /\ stage = from /\ document = Absent
  /\ IF Accepted(p) THEN plan' = Constructed(p) /\ stage' = to
                    ELSE stage' = "raised" /\ UNCHANGED plan
  /\ UNCHANGED <<document, foreign, received>>

\* MeridianQuery.build; a caller whose arguments are refused never has a plan.
Build(p) == Accepted(p) /\ Advances("idle", p, "built")

Dynamic(p) == p.traversal # Absent /\ p.traversal.allNeighbors

Scoped(p, scope) ==
  IF scope = None THEN p
  ELSE [p EXCEPT !.filter = Append(@, scope),
                 !.options = [key \in DOMAIN @ \cup {"scopeInjected"} |->
                                IF key = "scopeInjected" THEN TRUE ELSE @[key]]]

Closed(p, closure) ==
  [p EXCEPT !.traversal.relations = closure.relations,
            !.traversal.fingerprint = closure.fingerprint]

\* normalize_builder, with a resolver when the closure is not None.
Normalize(closure, scope) ==
  LET closed == IF Dynamic(plan) /\ closure # None THEN Closed(plan, closure) ELSE plan
  IN  stage = "built" /\ Advances("built", Scoped(closed, scope), "normalized")

\* _ensure_order
Complete(tieBreaker) ==
  /\ stage = "normalized" /\ plan.operation \in {"scan", "search"}
  /\ Advances("normalized", [plan EXCEPT !.order = Append(@, tieBreaker)], "completed")

Send ==
  /\ plan # Absent /\ stage # "raised" /\ document = Absent
  /\ document' = Document(plan)
  /\ UNCHANGED <<plan, stage, foreign, received>>

\* External: the document that arrives is not the one sent.
Rewrite ==
  /\ document # Absent /\ ~foreign /\ received = Absent
  /\ \E d \in Foreign(document) : d # document /\ document' = d
  /\ foreign' = TRUE
  /\ UNCHANGED <<plan, stage, received>>

Receive(policy) ==
  /\ document # Absent /\ received = Absent
  /\ received' = [policy |-> policy, plan |-> FromMapping(document, policy)]
  /\ UNCHANGED <<plan, stage, document, foreign>>

Next ==
  \/ \E p \in Plans : Build(p)
  \/ \E closure \in Closures, scope \in Scopes : Normalize(closure, scope)
  \/ Complete("tie-breaker")
  \/ Send
  \/ Rewrite
  \/ \E policy \in Policies : Receive(policy)

Spec == Init /\ [][Next]_vars
-----------------------------------------------------------------------------
(* Properties *)

\* What a selector means: given relations, neighbours still to be resolved, or
\* the neighbours that one registry, which it names, had; perhaps none.
Explicit(t) == ~t.allNeighbors /\ t.relations # <<>> /\ t.fingerprint = None
Unresolved(t) == t.allNeighbors /\ t.relations = <<>> /\ t.fingerprint = None
ResolvedBy(t) == t.allNeighbors /\ t.fingerprint # None

SelectorMeant(p) ==
  p.traversal # Absent =>
    Explicit(p.traversal) \/ Unresolved(p.traversal) \/ ResolvedBy(p.traversal)

\* Every plan there is, built, replaced or read from any document, has one of
\* the three meanings, and only a plan of the right operation has a traversal
\* (TraversalSpec.__post_init__).
TypeOK ==
  /\ stage \in {"idle", "built", "normalized", "completed", "raised"}
  /\ stage = "idle" <=> plan = Absent
  /\ plan # Absent => SelectorMeant(plan)
  /\ received # Absent => received.policy \in Policies
  /\ received # Absent /\ received.plan # Refused => SelectorMeant(received.plan)

\* The constructors run again at every replace(): whoever could build a query
\* never sees them refuse what normalize_builder or _ensure_order makes of it,
\* an all_neighbors closure without any relation included.
NothingRaisesMidway == stage # "raised"

\* A plan sent at any stage of its life is read back as the same plan, with the
\* same fingerprint, unless its reader does not allow its extensions, and then
\* it is refused (QueryOperation.to_dict, from_mapping).
ReadBack ==
  received # Absent /\ ~foreign =>
    received.plan = IF DOMAIN plan.extensions \subseteq received.policy THEN plan ELSE Refused

AgreeExcept(f, g, key) == HasFields(f, DOMAIN g) /\ \A k \in DOMAIN g \ {key} : f[k] = g[k]

\* d differs from e at most in how often and in which order it lists relations.
Respells(d, e) ==
  \/ d = e
  \/ /\ AgreeExcept(d, e, "traversal")
     /\ d.traversal # Absent /\ e.traversal # Absent
     /\ AgreeExcept(d.traversal, e.traversal, "relationSelector")
     /\ LET chosen == d.traversal.relationSelector
            meant  == e.traversal.relationSelector
        IN  /\ AgreeExcept(chosen, meant, "relationCollections")
            /\ IsArray(chosen.relationCollections)
            /\ ToSet(chosen.relationCollections) = ToSet(meant.relationCollections)

\* Producers that list the same relations differently mean the same plan, and
\* cursors signed for one of them serve the other (TraversalSpec.__post_init__).
RespelledSame ==
  received # Absent /\ Respells(document, Document(plan))
    /\ DOMAIN plan.extensions \subseteq received.policy
      => received.plan = plan

\* Nothing a document says is ignored: if it reads as the plan that was sent, it
\* says what was sent (from_mapping's unknown and missing fields).
NothingIgnored ==
  received # Absent /\ received.plan = plan => Respells(document, Document(plan))
=============================================================================
