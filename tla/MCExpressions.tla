---------------------------- MODULE MCExpressions ----------------------------
(* Instances of Expressions for TLC: an operation over two Resources, so that *)
(* a field must say which it is of, and the constructors a question is about. *)
EXTENDS Expressions

Users ==
  [schema |-> [ref |-> "users@1", identity |-> <<"id">>,
               fields |-> [age |-> "int64", name |-> "string", ts |-> "timestamp",
                           doc |-> "json", location |-> "point"],
               profile |-> [kind |-> "relational", covers |-> {}, facets |-> {}]],
   binding |-> "b1", scope |-> {}]

MCRegistry ==
  [fingerprint |-> "r1", profiles |-> <<>>, neighbors |-> <<>>,
   resources |-> [r \in {"users", "teams"} |-> Users]]

MCOperation ==
  [kind |-> "scan", primary |-> [resource |-> "users", schema |-> NoSchema],
   joins |-> {[target |-> [resource |-> "teams", schema |-> NoSchema], on |-> {}]},
   traversal |-> NoTraversal]

UserField(name) == Leaf("field", [name |-> name, on |-> "users"])
Value(value, type) == Leaf("literal", [value |-> value, type |-> type])
Location == Leaf("point", [value |-> "here"])

Constructor(class, operator, arity, info) ==
  [class |-> class, operator |-> operator, arity |-> arity, info |-> info]

Plainly(class, operator, arity) == Constructor(class, operator, arity, NoInfo)
-----------------------------------------------------------------------------
(* Types: one field or literal of each kind, a field nobody defined and one that *)
(* may be of either Resource; every class of expression.                         *)

TypedLeaves ==
  {UserField(name) : name \in {"age", "name", "ts", "doc", "location"}}
    \cup {Leaf("field", [name |-> "age", on |-> Unqualified]),
          Value("1", "int64"), Value("a", "string"), Leaf("parameter", [name |-> "p", type |-> "float64"]),
          Location}

TypedCalls ==
  {Plainly("binary", operator, 2) : operator \in {"eq", "lt", "add", "contains"}}
    \cup {Plainly("isNull", "", 1), Plainly("unary", "not", 1), Plainly("boolean", "and", 2),
          Constructor("membership", "", 3, [negated |-> FALSE]),
          Constructor("timestampRange", "", 2, [start |-> TRUE, end |-> FALSE]),
          Plainly("documentPath", "", 1), Plainly("fullText", "", 1), Plainly("distanceWithin", "", 2)}

\* What validation does not descend into.
OpaqueCalls ==
  {Plainly("binary", operator, 2) : operator \in {"add", "lt"}}
    \cup {Constructor("timestampRange", "", 2, [start |-> TRUE, end |-> FALSE]),
          Plainly("distance", "", 2),
          Constructor("aggregate", "max", 1, [distinct |-> FALSE])}
-----------------------------------------------------------------------------
(* Forms: two fields under everything that is reordered, flattened or read back *)
(* by its kind.                                                                 *)

FormLeaves == {UserField("age"), UserField("name")}

FormCalls ==
  {Plainly("boolean", operator, 2) : operator \in BooleanOperators}
    \cup {Plainly("boolean", "and", 3), Plainly("filter", "", 2), Plainly("unary", "not", 1)}

-----------------------------------------------------------------------------
(* JSON: the same under every class of expression and every kind that is read *)
(* back in a way of its own; an empty filter is a literal.                     *)

JsonCalls ==
  FormCalls \cup OpaqueCalls \cup
    {Plainly("filter", "", 0), Plainly("filter", "", 1), Plainly("unary", "negate", 1),
     Plainly("isNull", "", 1), Plainly("documentPath", "", 1), Plainly("fullText", "", 2),
     Plainly("distanceWithin", "", 2), Constructor("membership", "", 2, [negated |-> TRUE]),
     Constructor("membership", "", 3, [negated |-> FALSE]),
     Constructor("timestampRange", "", 3, [start |-> TRUE, end |-> TRUE]),
     Constructor("aggregate", "count", 0, [distinct |-> FALSE]),
     Constructor("aggregate", "count", 1, [distinct |-> TRUE])}
-----------------------------------------------------------------------------
\* The heads of the JSON objects made of given leaves and calls, and of the literal
\* that is an empty filter, in some order.
LabelsOf(leaves, calls) ==
  FoldSet(LAMBDA label, labels : Append(labels, label), <<>>,
    {Label(n) : n \in leaves \cup {Value("true", "boolean")}}
      \cup {Label(Term(c.class, c.operator, <<>>, c.info)) : c \in calls})

LabelsOver(vocabularies) ==
  LabelsOf(UNION {v.leaves : v \in vocabularies}, UNION {v.calls : v \in vocabularies})

Vocabulary(leaves, calls, maxSize, maxCalls, maxHeld) ==
  [leaves |-> leaves, calls |-> calls, maxSize |-> maxSize, maxCalls |-> maxCalls,
   maxHeld |-> maxHeld]

TypedVocabularies == {Vocabulary(TypedLeaves, TypedCalls, 5, 5, 3)}
OpaqueVocabularies == {Vocabulary(TypedLeaves, OpaqueCalls, 4, 4, 2)}

\* Two terms of four and five calls at once, or one of five of any class.
FormVocabularies ==
  {Vocabulary(FormLeaves, FormCalls, 5, 9, 3), Vocabulary(FormLeaves, JsonCalls, 5, 5, 3)}

TypedLabels == LabelsOver(TypedVocabularies)
OpaqueLabels == LabelsOver(OpaqueVocabularies)
FormLabels == LabelsOver(FormVocabularies)
=============================================================================
