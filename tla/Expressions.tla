----------------------------- MODULE Expressions -----------------------------
(***************************************************************************)
(* Value expressions (meridian_storage.query.ast): the constructors a      *)
(* caller composes them with, their canonical form, their JSON form and    *)
(* back, and what validation and requirement inference see of a nested     *)
(* one.  QuerySemantics keeps a filter as a set of flat conjuncts; here    *)
(* expressions nest as deep as the caller likes.                           *)
(*                                                                         *)
(* A term is what the caller wrote, a node what the constructors made of   *)
(* it; both are a class, an operator, operands and the rest ("info").      *)
(* Texts and values are names; two literals of one type and one name are   *)
(* the same.                                                               *)
(***************************************************************************)
EXTENDS QuerySemantics, SequencesExt

CONSTANTS
  Vocabularies,  \* what callers write with: leaves (fields, literals, parameters and
                 \* points), calls (constructors: class, operator, number of operands,
                 \* info) and three bounds: maxSize on the calls behind one term,
                 \* maxCalls on those behind all terms held, maxHeld on the terms held
  Labels,        \* a sequence of the heads of JSON objects, in the order of their bytes
  Operation,     \* the QueryOperation an expression stands in,
  Registry       \* and the RegistryView it is validated against

VARIABLES
  vocabulary,    \* the caller's
  written        \* the terms a caller holds, the latest last

vars == <<vocabulary, written>>

NoInfo == [info |-> "none"]

Term(class, operator, args, info) ==
  [class |-> class, operator |-> operator, args |-> args, info |-> info]

Leaf(class, info) == Term(class, "", <<>>, info)

Arithmetic == {"add", "subtract", "multiply", "divide", "modulo"}
BinaryOperators == Comparisons \cup Arithmetic \cup {"prefix", "contains"}
BooleanOperators == {"and", "or"}
-----------------------------------------------------------------------------
(* to_dict, and the order of canonical JSON *)

KindOf(n) ==
  CASE n.class \in {"unary", "binary", "boolean"} -> n.operator
    [] n.class = "membership" -> IF n.info.negated THEN "notIn" ELSE "in"
    [] OTHER -> n.class

\* What a JSON object holds besides its nested expressions.
Label(n) ==
  [kind |-> KindOf(n),
   info |-> CASE n.class = "aggregate" -> [function |-> n.operator, distinct |-> n.info.distinct]
              [] n.class = "membership" -> NoInfo
              [] OTHER -> n.info]

RECURSIVE ToDict(_)
ToDict(n) == [label |-> Label(n), nested |-> [i \in DOMAIN n.args |-> ToDict(n.args[i])]]

HeadOf(label) == SelectInSeq(Labels, LAMBDA l : l = label)

RECURSIVE CanonicalBytes(_)
CanonicalBytes(d) ==
  <<HeadOf(d.label), Len(d.nested)>>
    \o FlattenSeq([i \in DOMAIN d.nested |-> CanonicalBytes(d.nested[i])])

\* The order of canonical JSON; no encoding of a node is a proper prefix of another's.
Precedes(s, t) ==
  \E i \in DOMAIN s \cap DOMAIN t :
    s[i] < t[i] /\ \A j \in 1..(i - 1) : s[j] = t[j]

Before(n, m) == Precedes(CanonicalBytes(ToDict(n)), CanonicalBytes(ToDict(m)))
-----------------------------------------------------------------------------
(* The constructors *)

\* Slip: nested booleans are kept.
FlattenedNever(operator, args) == args

Flattened(operator, args) ==
  FlattenSeq([i \in DOMAIN args |->
    IF args[i].class = "boolean" /\ args[i].operator = operator THEN args[i].args ELSE <<args[i]>>])

\* and_, or_, BooleanExpression
Boolean(operator, args) ==
  Term("boolean", operator, SortSeq(Flattened(operator, args), Before), NoInfo)

\* Slip: a predicate of a mapping counts once however often it is given.
FilterOnce(predicates) ==
  CASE Len(predicates) = 0 -> Leaf("literal", [value |-> "true", type |-> "boolean"])
    [] Cardinality(Range(predicates)) = 1 -> predicates[1]
    [] OTHER -> Boolean("and", predicates)

\* parse_filter: a mapping is the conjunction of its predicates.
Filter(predicates) ==
  CASE Len(predicates) = 0 -> Leaf("literal", [value |-> "true", type |-> "boolean"])
    [] Len(predicates) = 1 -> predicates[1]
    [] OTHER -> Boolean("and", predicates)

\* What a constructor makes of operands it accepts.
Construct(class, operator, args, info) ==
  CASE class = "boolean"  -> Boolean(operator, args)
    [] class = "filter"   -> Filter(args)
    [] class = "fullText" -> Term(class, operator, SetToSortSeq(Range(args), Before), info)
    [] OTHER -> Term(class, operator, args, info)

RECURSIVE Build(_)
Build(term) == Construct(term.class, term.operator, [i \in DOMAIN term.args |-> Build(term.args[i])], term.info)

\* The conditions a constructor raises on.
Constructible(class, operator, args, info) ==
  CASE class = "boolean"        -> Len(args) >= 2
    [] class = "membership"     -> Len(args) >= 2
    [] class = "fullText"       -> args # <<>> /\ \A f \in Range(args) : f.class = "field"
    [] class = "timestampRange" -> info.start \/ info.end
    [] class = "aggregate"      -> operator # "count" => args # <<>>
    [] OTHER -> TRUE

\* Slip: the negation of a membership is not read back.
FromDictNeverNegated(d, nested) ==
  LET kind == d.label.kind
  IN  CASE kind \in {"not", "negate"}  -> Construct("unary", kind, nested, d.label.info)
        [] kind \in BinaryOperators    -> Construct("binary", kind, nested, d.label.info)
        [] kind \in BooleanOperators   -> Construct("boolean", kind, nested, d.label.info)
        [] kind \in {"in", "notIn"}    -> Construct("membership", "", nested, [negated |-> FALSE])
        [] kind = "aggregate" ->
             Construct(kind, d.label.info.function, nested, [distinct |-> d.label.info.distinct])
        [] OTHER -> Construct(kind, "", nested, d.label.info)

NodeFromDict(d, nested) ==
  LET kind == d.label.kind
  IN  CASE kind \in {"not", "negate"}  -> Construct("unary", kind, nested, d.label.info)
        [] kind \in BinaryOperators    -> Construct("binary", kind, nested, d.label.info)
        [] kind \in BooleanOperators   -> Construct("boolean", kind, nested, d.label.info)
        [] kind \in {"in", "notIn"}    -> Construct("membership", "", nested, [negated |-> kind = "notIn"])
        [] kind = "aggregate" ->
             Construct(kind, d.label.info.function, nested, [distinct |-> d.label.info.distinct])
        [] OTHER -> Construct(kind, "", nested, d.label.info)

RECURSIVE ExpressionFromDict(_)
ExpressionFromDict(d) ==
  NodeFromDict(d, [i \in DOMAIN d.nested |-> ExpressionFromDict(d.nested[i])])
-----------------------------------------------------------------------------
(* The caller *)

RECURSIVE Size(_)
Size(term) == FoldFunctionOnSet(+, 1, [i \in DOMAIN term.args |-> Size(term.args[i])], DOMAIN term.args)

Spent == FoldFunctionOnSet(+, 0, [i \in DOMAIN written |-> Size(written[i])], DOMAIN written)

Init == vocabulary \in Vocabularies /\ written = <<>>

Write(leaf) ==
  /\ Spent < vocabulary.maxCalls
  /\ Len(written) < vocabulary.maxHeld
  /\ written' = Append(written, leaf)
  /\ UNCHANGED vocabulary

\* A constructor applied to the terms written last.
Call(c) ==
  LET kept == Len(written) - c.arity
      args == SubSeq(written, kept + 1, Len(written))
  IN  /\ Spent < vocabulary.maxCalls
      /\ kept \in 0..(vocabulary.maxHeld - 1)
      /\ Constructible(c.class, c.operator, args, c.info)
      /\ Size(Term(c.class, c.operator, args, c.info)) <= vocabulary.maxSize
      /\ written' = Append(SubSeq(written, 1, kept), Term(c.class, c.operator, args, c.info))
      /\ UNCHANGED vocabulary

Next ==
  \/ \E leaf \in vocabulary.leaves : Write(leaf)
  \/ \E c \in vocabulary.calls : Call(c)

Spec == Init /\ [][Next]_vars
-----------------------------------------------------------------------------
(* operators, referenced_fields, _walk *)

OperatorOf(n) ==
  CASE n.class = "aggregate" -> "aggregate." \o n.operator
    [] OTHER -> KindOf(n)

RECURSIVE OperatorsOutermost(_)
OperatorsOutermost(n) ==
  {OperatorOf(n)} \cup (IF n.class \in {"fullText", "boolean"} THEN {}
                        ELSE UNION {OperatorsOutermost(x) : x \in Range(n.args)})

RECURSIVE OperatorsIn(_)
OperatorsIn(n) ==
  {OperatorOf(n)} \cup (IF n.class = "fullText" THEN {} ELSE UNION {OperatorsIn(x) : x \in Range(n.args)})

\* The boundaries of a timestamp range are not among the fields it refers to.
RECURSIVE ReferencedFields(_)
ReferencedFields(n) ==
  CASE n.class = "field" -> {n.info}
    [] n.class = "timestampRange" -> ReferencedFields(n.args[1])
    [] OTHER -> UNION {ReferencedFields(x) : x \in Range(n.args)}

RECURSIVE Walk(_)
Walk(n) == {n} \cup UNION {Walk(x) : x \in Range(n.args)}

MembershipSize(n) == Greatest({Len(m.args) - 1 : m \in {x \in Walk(n) : x.class = "membership"}})
-----------------------------------------------------------------------------
(* _validate_node *)

FieldKinds(field) == KindsOf(Operation, Registry, field)

FieldDefined(field) == field.name = "*" \/ FieldKinds(field) # {}

FieldsDefined(n) == \A field \in ReferencedFields(n) : FieldDefined(field)

\* The kinds a value may have; none when the library does not tell.
RECURSIVE ExpressionKinds(_)
ExpressionKinds(n) ==
  CASE n.class = "field" -> FieldKinds(n.info)
    [] n.class \in {"literal", "parameter"} -> {n.info.type} \cap Kinds
    [] n.class = "point" -> {"point"}
    [] n.class = "distance" -> {"float64"}
    [] n.class = "documentPath" -> {"json"}
    [] n.operator \in Arithmetic \cup {"negate"} -> UNION {ExpressionKinds(x) : x \in Range(n.args)}
    [] OTHER -> {}

\* The kinds of a value and those of every field it refers to.
RequireKinds(n, allowed) ==
  /\ ExpressionKinds(n) \subseteq allowed
  /\ \A field \in ReferencedFields(n) : FieldDefined(field) /\ FieldKinds(field) \subseteq allowed

\* Slip: numbers compare with their own kind only.
RequireCompatibleStrictly(left, right) ==
  LET kinds == ExpressionKinds(left)
      others == ExpressionKinds(right)
  IN  kinds = {} \/ others = {} \/ kinds \cap others # {}

RequireCompatible(left, right) ==
  LET kinds == ExpressionKinds(left)
      others == ExpressionKinds(right)
  IN  \/ kinds = {} \/ others = {} \/ kinds \cap others # {}
      \/ (kinds \cup others) \subseteq Numeric

AllRequire(args, allowed) == \A n \in Range(args) : RequireKinds(n, allowed)

\* What is asked of the operands of one node.
NodeTyped(n) ==
  CASE n.operator \in Comparisons ->
         /\ RequireCompatible(n.args[1], n.args[2])
         /\ n.operator \in Orderings => AllRequire(n.args, Orderable)
    [] n.operator \in Arithmetic -> AllRequire(n.args, Numeric)
    [] n.operator = "prefix" -> RequireKinds(n.args[1], {"string"})
    [] n.operator = "contains" -> RequireKinds(n.args[1], {"string", "json"})
    [] n.class = "membership" -> \A i \in 2..Len(n.args) : RequireCompatible(n.args[1], n.args[i])
    [] n.class = "timestampRange" -> AllRequire(n.args, {"timestamp"})
    [] n.class = "documentPath" -> AllRequire(n.args, {"json"})
    [] n.class = "fullText" -> AllRequire(SelectSeq(n.args, LAMBDA f : f.info.name # "*"), {"string"})
    [] n.class \in {"distance", "distanceWithin"} ->
         AllRequire(SelectSeq(n.args, LAMBDA x : x.class = "field"), {"point"})
    [] n.class = "aggregate" /\ n.operator \in {"sum", "avg", "percentile"} ->
         AllRequire(n.args, Numeric)
    [] OTHER -> TRUE

\* Slip: the operand of a null test is not validated.
DescendedButNull(n) ==
  IF n.class \in {"unary", "binary", "boolean", "membership"} THEN Range(n.args) ELSE {}

\* The operands a node's validation goes on to.
Descended(n) ==
  IF n.class \in {"unary", "binary", "boolean", "isNull", "membership"} THEN Range(n.args) ELSE {}

RECURSIVE ValidateNode(_)
ValidateNode(n) ==
  FieldsDefined(n) /\ NodeTyped(n) /\ \A operand \in Descended(n) : ValidateNode(operand)
-----------------------------------------------------------------------------
(* Properties *)

Held == Range(written)

\* The term written last; the others were, each in its turn.
Latest == IF written = <<>> THEN {} ELSE {Last(written)}

\* Everything written builds a node in canonical form: a boolean has two operands
\* or more, in order, and none of its own operator; the fields of a full-text match
\* are in order and distinct (ast/__init__.py:253-264, 412-426).
TypeOK ==
  \A term \in Latest : \A n \in Walk(Build(term)) :
    /\ Constructible(n.class, n.operator, n.args, n.info)
    /\ n.class = "boolean" =>
         /\ \A x \in Range(n.args) : x.class = "boolean" => x.operator # n.operator
         /\ \A i \in 2..Len(n.args) : ~Before(n.args[i], n.args[i - 1])
    /\ n.class = "fullText" => \A i \in 2..Len(n.args) : Before(n.args[i - 1], n.args[i])

\* The operator that joins the operands of a term, if they are joined.
Joint(term) ==
  CASE term.class = "boolean" -> term.operator
    [] term.class = "filter" /\ Len(term.args) # 0 -> "and"
    [] OTHER -> "none"

\* Reference: a term up to the order and the nesting of what "and" and "or" join.
\* Operands that are themselves joined by the operator are spread into it.
RECURSIVE Meaning(_), Spread(_, _)
Meaning(term) ==
  LET parts == Spread(Joint(term), term)
  IN  IF Joint(term) # "none" /\ Len(parts) > 1
      THEN [joint |-> Joint(term),
            parts |-> [x \in Range(parts) |-> Cardinality({i \in DOMAIN parts : parts[i] = x})]]
      ELSE parts[1]
Spread(operator, term) ==
  CASE Joint(term) # "none" /\ (Joint(term) = operator \/ Len(term.args) = 1) ->
         FlattenSeq([i \in DOMAIN term.args |-> Spread(operator, term.args[i])])
    [] Joint(term) # "none" -> <<Meaning(term)>>
    [] term.class = "filter" -> <<Filter(<<>>)>>
    [] term.class = "fullText" -> <<[term EXCEPT !.args = Range(@)]>>
    [] OTHER -> <<[term EXCEPT !.args = [i \in DOMAIN term.args |-> Meaning(term.args[i])]]>>

\* Two expressions are the same node, with one fingerprint, exactly when they were
\* written the same up to the order and nesting of conjunctions and disjunctions,
\* as method calls or as mappings: a plan's fingerprint does not depend on how its
\* filter was put together, and no two different filters share one
\* (ast/__init__.py:249-280, 687-737).
SpellingBlind ==
  \A s \in Latest, t \in Held : Build(s) = Build(t) <=> Meaning(s) = Meaning(t)

\* An expression read back from its JSON is the expression: what is planned from
\* the wire is what was built (ast/__init__.py:740-844).
RebuiltEqual ==
  \A term \in Latest : ExpressionFromDict(ToDict(Build(term))) = Build(term)

\* A term and the terms below it; the fields of a full-text match are its own.
RECURSIVE SubTerms(_)
SubTerms(term) ==
  {term} \cup (IF term.class = "fullText" THEN {} ELSE UNION {SubTerms(x) : x \in Range(term.args)})

\* No operator and no large membership can hide in nesting from the requirements
\* and the budget (docs/architecture.md:37-38, requirements/__init__.py:266-279,
\* validation/__init__.py:946-989).
NothingHides ==
  \A term \in Latest : \A sub \in SubTerms(term) :
    /\ sub.class # "filter" => OperatorOf(sub) \in OperatorsIn(Build(term))
    /\ sub.class = "membership" => Len(sub.args) - 1 <= MembershipSize(Build(term))

\* Terms made of fields, literals and parameters by arithmetic alone.
RECURSIVE Scalar(_)
Scalar(term) ==
  \/ term.class \in {"field", "literal", "parameter"}
  \/ term.operator \in Arithmetic /\ \A x \in Range(term.args) : Scalar(x)

LeafKinds(term) ==
  UNION {IF leaf.class = "field" THEN FieldKinds(leaf.info) ELSE {leaf.info.type} \cap Kinds :
           leaf \in {x \in Walk(term) : x.class \in {"field", "literal", "parameter"}}}

\* The part of a term reached through booleans, filters, unary and binary
\* operators, null tests and memberships only.
RECURSIVE Spine(_)
Spine(term) ==
  {term} \cup
    (IF term.class \in {"boolean", "filter", "unary", "binary", "isNull", "membership"}
     THEN UNION {Spine(x) : x \in Range(term.args)} ELSE {})

\* Whatever validation accepts, nowhere on its spine is a field unresolved, a
\* number computed from anything but numbers, or a scalar compared with one of
\* another type, however deep in booleans, null tests, memberships and arithmetic
\* (validation/__init__.py:439-523, 804-905).
SpineTyped ==
  \A term \in Latest : ValidateNode(Build(term)) =>
    \A n \in Spine(term) :
      /\ n.class = "field" => FieldDefined(n.info)
      /\ n.operator \in Arithmetic /\ Scalar(n) => LeafKinds(n) \subseteq Numeric
      /\ n.operator \in Comparisons \/ n.class = "membership" =>
           \A i \in 2..Len(n.args) :
             Scalar(n.args[1]) /\ Scalar(n.args[i]) =>
               \A kind \in LeafKinds(n.args[1]), other \in LeafKinds(n.args[i]) :
                 Compatible(kind, other)

\* The conjunct that stands in QuerySemantics for a term of one operator, one
\* field and literals or parameters of one type.
Flat(term) ==
  /\ term.class \in {"binary", "membership", "timestampRange", "fullText", "distanceWithin"}
  /\ term.operator \notin Arithmetic
  /\ term.args[1].class = "field"
  /\ \A i \in 2..Len(term.args) :
       /\ term.args[i].class \in {"literal", "parameter", "point"}
       /\ term.args[i].class = term.args[2].class /\ term.args[i].info = term.args[2].info

Conjoined(term) ==
  [operator |-> KindOf(term), field |-> term.args[1].info, members |-> Len(term.args) - 1,
   facets   |-> {},
   literal  |-> IF Len(term.args) = 1 THEN Untyped
                ELSE IF term.args[2].class = "point" THEN "point"
                ELSE IF term.args[2].info.type \in Kinds THEN term.args[2].info.type ELSE Untyped]

\* Validation of nested expressions is, on flat ones, the rule for conjuncts that
\* the pipeline and its proofs are stated with (validation/__init__.py:439-561).
FlatAgrees ==
  \A term \in Latest :
    Flat(term) => (ValidateNode(Build(term)) <=> ConjunctTyped(Operation, Registry, Conjoined(term)))

\* docs/architecture.md:35-37: "Validation resolves every Resource to one exact
\* Schema and rejects a plan before adapter compilation if any field, type, [...]
\* invariant fails": what validation asks of a node holds of every node it accepts,
\* aggregate operands, distances and range boundaries included.
IllTypedRejected ==
  \A term \in Latest : ValidateNode(Build(term)) =>
    \A n \in Walk(Build(term)) : FieldsDefined(n) /\ NodeTyped(n)
=============================================================================
